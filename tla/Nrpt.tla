-------------------------------- MODULE Nrpt --------------------------------
(***************************************************************************)
(* The broker's hold on Windows' name resolution policy: NRPT rules keyed  *)
(* by namespace, and the files under ProgramData that record which         *)
(* connection holds which namespace (nrpt.rs; ApplyDns, RevertDns and the  *)
(* shutdown of supervisor.rs).                                             *)
(*                                                                         *)
(* A connection is its sanitized name: nrpt.rs knows it by nothing else,   *)
(* so two profiles whose names differ only in replaced characters are one  *)
(* here.  One read of the records, one registry write and one file write   *)
(* is a step.  Reading the whole record directory counts as one read.      *)
(***************************************************************************)
EXTENDS FiniteSets

CONSTANTS
    Conns, NoConn,
    Namespaces, CatchAll,
    Canon,      \* a namespace's rule: names that differ in case share one
    Threads,    \* IPC handler threads
    Svc,        \* the service thread, which runs Broker::shutdown
    Settings    \* the circumstances checked

Ask == [conn : Conns, wanted : Namespaces, zones : SUBSET Namespaces]
Upsets == {"fail", "stop", "crash"}

(***************************************************************************)
(* A setting: the threads that may handle requests at the same time; the   *)
(* ApplyDns requests made, each of a connection, with the namespace of its *)
(* domain and the reverse zones of its subnets; what running SSL tunnels   *)
(* may have claimed (ssl_dns_claims); and what may go wrong: a write that  *)
(* fails, of the registry or of a record, a stop of the service, a crash.  *)
(***************************************************************************)
IsSetting(s) ==
    /\ s.crew \subseteq Threads /\ s.asks \subseteq Ask
    /\ s.claims \subseteq SUBSET Namespaces /\ s.upsets \subseteq Upsets

ASSUME NrptAssumption ==
    /\ NoConn \notin Conns /\ Svc \notin Threads
    /\ CatchAll \in Namespaces
    /\ Canon \in [Namespaces -> Namespaces]
    /\ \A s \in Settings : IsSetting(s)

Rules == {Canon[n] : n \in Namespaces}
RulesOf(S) == {Canon[n] : n \in S}
Actors == Threads \cup {Svc}

VARIABLES
    life,       \* "up", "stopping", "down"
    rules,      \* the table: whose servers a rule names, NoConn if there is none
    records,    \* the namespaces in each connection's file, {} without a file
    job,        \* where each thread is
    setting     \* the circumstances of this behaviour

vars == <<life, rules, records, job, setting>>

Applying == {"ask", "claim", "remove", "add", "record"}
Reverting == {"unrecord", "check", "erase"}
Sweeping == {"open", "sweep", "unlink", "exit"}

Idle == [at |-> "idle", conn |-> NoConn, asked |-> {}, spoken |-> {},
         todo |-> {}, mine |-> {}, files |-> {}]

Init ==
    /\ life = "up"
    /\ rules = [k \in Rules |-> NoConn]
    /\ records = [c \in Conns |-> {}]
    /\ job = [a \in Actors |-> Idle]
    /\ setting \in Settings

May(u) == u \in setting.upsets

(* A definition named X_Something is X with a plausible bug, kept to show   *)
(* which property notices it; the specification never uses one.            *)

-----------------------------------------------------------------------------
(* Who may have a namespace.                                               *)

Holders(n) == {c \in Conns : n \in records[c]}

Free_Unrecorded(a, n) ==
    n \notin job[a].spoken

(***************************************************************************)
(* apply's closure `free`: nobody holds the namespace, or this connection  *)
(* does.  holder_of returns the first file that lists it, whichever that   *)
(* is.                                                                     *)
(***************************************************************************)
Free(a, n) ==
    /\ n \notin job[a].spoken
    /\ Holders(n) # {} => job[a].conn \in Holders(n)

-----------------------------------------------------------------------------
(* apply                                                                   *)

Apply(a) ==
    /\ job[a].at = "idle" /\ life # "down"
    /\ \E ask \in setting.asks, spoken \in setting.claims :
          job' = [job EXCEPT ![a] =
                    [Idle EXCEPT !.at = "ask", !.conn = ask.conn, !.spoken = spoken,
                                 !.asked = {ask.wanted}, !.mine = ask.zones]]
    /\ UNCHANGED <<life, rules, records, setting>>

(* The catch-all, if somebody else has it, gives way to the reverse zones. *)
ApplyAsk(a) ==
    /\ job[a].at = "ask"
    /\ LET fallBack == job[a].asked = {CatchAll} /\ ~Free(a, CatchAll)
       IN  job' = [job EXCEPT ![a] =
                      [@ EXCEPT !.at = "claim", !.mine = {},
                                !.asked = IF fallBack THEN job[a].mine ELSE job[a].asked]]
    /\ UNCHANGED <<life, rules, records, setting>>

ApplyClaim_TakesAll(a) ==
    /\ job[a].at = "claim"
    /\ job' = [job EXCEPT ![a] = IF job[a].asked = {} THEN Idle
                                 ELSE [@ EXCEPT !.at = "remove", !.todo = job[a].asked,
                                                !.mine = job[a].asked]]
    /\ UNCHANGED <<life, rules, records, setting>>

(* The free ones are claimed; when there is none, the request has succeeded. *)
ApplyClaim(a) ==
    /\ job[a].at = "claim"
    /\ LET mine == {n \in job[a].asked : Free(a, n)}
       IN  job' = [job EXCEPT ![a] =
                     IF mine = {} THEN Idle
                     ELSE [@ EXCEPT !.at = "remove", !.todo = mine, !.mine = mine]]
    /\ UNCHANGED <<life, rules, records, setting>>

(* table::remove, whoever the rule is from; an error ends the request.     *)
ApplyRemove(a) ==
    /\ job[a].at = "remove"
    /\ \/ \E n \in job[a].todo :
             /\ rules' = [rules EXCEPT ![Canon[n]] = NoConn]
             /\ job' = [job EXCEPT ![a] =
                           [@ EXCEPT !.at = "add", !.asked = {n}]]
       \/ /\ May("fail")
          /\ job' = [job EXCEPT ![a] = Idle]
          /\ UNCHANGED rules
    /\ UNCHANGED <<life, records, setting>>

(* table::add.  The next namespace follows, and after the last the record. *)
ApplyAdd(a) ==
    /\ job[a].at = "add"
    /\ \/ \E n \in job[a].asked :
             /\ rules' = [rules EXCEPT ![Canon[n]] = job[a].conn]
             /\ job' = [job EXCEPT ![a] =
                           [@ EXCEPT !.todo = job[a].todo \ {n},
                                     !.at = IF job[a].todo = {n} THEN "record" ELSE "remove"]]
       \/ /\ May("fail")
          /\ job' = [job EXCEPT ![a] = Idle]
          /\ UNCHANGED rules
    /\ UNCHANGED <<life, records, setting>>

(***************************************************************************)
(* A write or a removal of a connection's record; its outcome is ignored   *)
(* everywhere.  One that fails leaves the record as it was or, as a file   *)
(* is emptied before it is written, with the first of the new lines.       *)
(***************************************************************************)
WriteRecord(c, lines) ==
    \/ records' = [records EXCEPT ![c] = lines]
    \/ May("fail") /\ UNCHANGED records
    \/ May("fail") /\ \E part \in SUBSET lines : records' = [records EXCEPT ![c] = part]

(* The record is overwritten: what an earlier apply had listed is gone.    *)
ApplyRecord(a) ==
    /\ job[a].at = "record"
    /\ WriteRecord(job[a].conn, job[a].mine)
    /\ job' = [job EXCEPT ![a] = Idle]
    /\ UNCHANGED <<life, rules, setting>>

-----------------------------------------------------------------------------
(* revert                                                                  *)

Revert(a) ==
    /\ job[a].at = "idle" /\ life # "down"
    /\ \E c \in {d \in Conns : records[d] # {}} :
          job' = [job EXCEPT ![a] = [Idle EXCEPT !.at = "unrecord", !.conn = c,
                                                 !.todo = records[c]]]
    /\ UNCHANGED <<life, rules, records, setting>>

Unrecord_Keeps(a) ==
    /\ job[a].at = "unrecord"
    /\ job' = [job EXCEPT ![a].at = "check"]
    /\ UNCHANGED <<life, rules, records, setting>>

Unrecord(a) ==
    /\ job[a].at = "unrecord"
    /\ WriteRecord(job[a].conn, {})
    /\ job' = [job EXCEPT ![a].at = "check"]
    /\ UNCHANGED <<life, rules, setting>>

(* The rest of a revert once the namespaces of `left` remain to be done.   *)
NextOf(a, left) ==
    IF left = {} THEN Idle ELSE [job[a] EXCEPT !.at = "check", !.todo = left]

RevertCheck_OnlyHeld(a) ==
    /\ job[a].at = "check"
    /\ \E n \in job[a].todo :
          job' = [job EXCEPT ![a] =
                    IF job[a].conn \notin Holders(n) THEN NextOf(a, job[a].todo \ {n})
                    ELSE [@ EXCEPT !.at = "erase", !.asked = {n}]]
    /\ UNCHANGED <<life, rules, records, setting>>

(* A namespace somebody else is recorded to hold is passed over.           *)
RevertCheck(a) ==
    /\ job[a].at = "check"
    /\ \E n \in job[a].todo :
          \/ /\ Holders(n) \ {job[a].conn} # {}
             /\ job' = [job EXCEPT ![a] = NextOf(a, job[a].todo \ {n})]
          \/ /\ Holders(n) = {} \/ job[a].conn \in Holders(n)
             /\ job' = [job EXCEPT ![a] =
                           [@ EXCEPT !.at = "erase", !.asked = {n}]]
    /\ UNCHANGED <<life, rules, records, setting>>

(* remove_namespace; an error ends the request with the rest not done.     *)
RevertErase(a) ==
    /\ job[a].at = "erase"
    /\ \/ \E n \in job[a].asked :
             /\ rules' = [rules EXCEPT ![Canon[n]] = NoConn]
             /\ job' = [job EXCEPT ![a] = NextOf(a, job[a].todo \ {n})]
       \/ /\ May("fail")
          /\ job' = [job EXCEPT ![a] = Idle]
          /\ UNCHANGED rules
    /\ UNCHANGED <<life, records, setting>>

-----------------------------------------------------------------------------
(* The service: revert_all at shutdown, the exit, a crash, a new start.    *)

(***************************************************************************)
(* A listing of the directory shows every file there was when it began,    *)
(* and perhaps some that appear during it.                                 *)
(***************************************************************************)
BeginShutdown ==
    /\ May("stop") /\ life = "up"
    /\ life' = "stopping"
    /\ \E files \in SUBSET Conns :
          /\ {c \in Conns : records[c] # {}} \subseteq files
          /\ job' = [job EXCEPT ![Svc] =
                       [Idle EXCEPT !.at = IF files = {} THEN "exit" ELSE "open",
                                    !.files = files]]
    /\ UNCHANGED <<rules, records, setting>>

SweepOpen ==
    /\ job[Svc].at = "open"
    /\ \E c \in job[Svc].files :
          job' = [job EXCEPT ![Svc] =
                     [@ EXCEPT !.conn = c, !.todo = records[c],
                               !.at = IF records[c] = {} THEN "unlink" ELSE "sweep"]]
    /\ UNCHANGED <<life, rules, records, setting>>

(* Its outcome is ignored.                                                 *)
SweepRule ==
    /\ job[Svc].at = "sweep"
    /\ \E n \in job[Svc].todo :
          /\ \/ rules' = [rules EXCEPT ![Canon[n]] = NoConn]
             \/ May("fail") /\ UNCHANGED rules
          /\ job' = [job EXCEPT ![Svc] =
                        [@ EXCEPT !.todo = job[Svc].todo \ {n},
                                  !.at = IF job[Svc].todo = {n} THEN "unlink" ELSE "sweep"]]
    /\ UNCHANGED <<life, records, setting>>

SweepUnlink ==
    /\ job[Svc].at = "unlink"
    /\ WriteRecord(job[Svc].conn, {})
    /\ LET left == job[Svc].files \ {job[Svc].conn}
       IN  job' = [job EXCEPT ![Svc] = [Idle EXCEPT !.files = left,
                                          !.at = IF left = {} THEN "exit" ELSE "open"]]
    /\ UNCHANGED <<life, rules, setting>>

(* Gone == no thread is left; the table and the files stay.                *)
Gone ==
    /\ life' = "down"
    /\ job' = [a \in Actors |-> Idle]
    /\ UNCHANGED <<rules, records, setting>>

ServiceExit == job[Svc].at = "exit" /\ Gone

Crash == May("crash") /\ life # "down" /\ Gone

(* Broker::start reverts nothing.                                          *)
Start ==
    /\ life = "down"
    /\ life' = "up"
    /\ UNCHANGED <<rules, records, job, setting>>

-----------------------------------------------------------------------------

Handler(a) ==
    \/ Apply(a) \/ ApplyAsk(a) \/ ApplyClaim(a) \/ ApplyRemove(a)
    \/ ApplyAdd(a) \/ ApplyRecord(a)
    \/ Revert(a) \/ Unrecord(a) \/ RevertCheck(a) \/ RevertErase(a)

Next ==
    \/ \E a \in setting.crew : Handler(a)
    \/ BeginShutdown \/ SweepOpen \/ SweepRule \/ SweepUnlink
    \/ ServiceExit \/ Crash \/ Start

Spec == Init /\ [][Next]_vars

-----------------------------------------------------------------------------
(* Properties.                                                             *)

(***************************************************************************)
(* Types, and what a thread carries at each place: an apply works off a    *)
(* part of what it will record and records only once nothing is left; a    *)
(* service thread that is not idle belongs to a stop.                      *)
(***************************************************************************)
TypeOK ==
    /\ setting \in Settings
    /\ life \in {"up", "stopping", "down"}
    /\ rules \in [Rules -> Conns \cup {NoConn}]
    /\ records \in [Conns -> SUBSET Namespaces]
    /\ DOMAIN job = Actors
    /\ \A t \in Threads :
          /\ job[t].at \in Applying \cup Reverting \cup {"idle"}
          /\ job[t].at # "idle" => job[t].conn \in Conns /\ life # "down"
          /\ job[t].at \in {"remove", "add"} => job[t].todo # {} /\ job[t].todo \subseteq job[t].mine
          /\ job[t].at \in {"add", "erase"} => job[t].asked \subseteq job[t].todo
          /\ job[t].at = "record" => job[t].todo = {} /\ job[t].mine # {}
          /\ job[t].at \in Reverting => job[t].todo # {}
    /\ job[Svc].at \in Sweeping \cup {"idle"}
    /\ (job[Svc].at = "idle") = (life # "stopping")

(* The circumstances a property is stated for: requests that come one at a *)
(* time, also across stops, crashes and failed writes; nothing going       *)
(* wrong; and connections that always ask for the same, fully granted.     *)
Serial == Cardinality(setting.crew) = 1
Calm   == setting.upsets = {}
Steady ==
    /\ setting.claims = {{}}
    /\ \A r, q \in setting.asks :
          (r.conn = q.conn => r = q) /\ (r.wanted = q.wanted => r.conn = q.conn)

(***************************************************************************)
(* No rule is recorded to two connections (nrpt.rs:332-335: a namespace    *)
(* "belongs to whichever connection claimed it first"), also after writes  *)
(* that failed, stops and crashes, as long as requests do not overlap.     *)
(***************************************************************************)
ClaimExclusive ==
    Serial => \A c, d \in Conns :
                 c # d => RulesOf(records[c]) \cap RulesOf(records[d]) = {}

(***************************************************************************)
(* A rule that stands and is recorded to a connection is taken down or     *)
(* given to another only by that connection's own requests or by the stop  *)
(* of the service ("refused it rather than silently taking it over").      *)
(***************************************************************************)
OthersRulesStand ==
    [][Serial => \A c \in Conns : \A k \in RulesOf(records[c]) :
          rules[k] = c /\ rules'[k] # c =>
             \/ job[Svc].at = "sweep"
             \/ \E t \in Threads : job[t].conn = c /\ job'[t] # job[t]]_vars

(***************************************************************************)
(* Outside a connection's own requests, every namespace recorded to it has *)
(* its rule, and the rule names its servers: a claim nobody else may make  *)
(* is one that works.                                                      *)
(***************************************************************************)
RecordedRulesStand ==
    Serial /\ Calm =>
       \A c \in Conns :
          (\A t \in Threads : job[t].conn # c) =>
             \A n \in records[c] : rules[Canon[n]] = c

(***************************************************************************)
(* Every rule in the table is listed in its connection's record or is in   *)
(* the hands of a request, so that the connection's revert, or the stop,   *)
(* removes it (nrpt.rs:397: "Record the namespaces so a revert removes     *)
(* exactly the rules we added"); with requests of several connections, and *)
(* of the same one, at once.                                               *)
(***************************************************************************)
Accounted ==
    Steady /\ Calm =>
       \A c \in Conns : \A k \in Rules :
          rules[k] = c =>
             \/ k \in RulesOf(records[c])
             \/ \E t \in Threads :
                   job[t].conn = c /\ k \in RulesOf(job[t].mine \cup job[t].todo)
=============================================================================
