------------------------------- MODULE Upkeep -------------------------------
(***************************************************************************)
(* What the client does with charon beside connecting: the secrets of one  *)
(* connection after another loaded and retired, a live tunnel repaired     *)
(* child by child, a command exchanged packet by packet; and the sweep of  *)
(* a profile's hosts.  `task` is the one at hand, its input beside what    *)
(* has come of it so far.                                                  *)
(***************************************************************************)
EXTENDS RepairPlan, ViciExchange, ReachProbe

CONSTANTS Loads,        \* sets of configurations that attempts are made with
          Repairs,      \* states of a tunnel and what is told of it
          Exchanges,    \* the packets charon sends
          Sweeps        \* hosts, and what answers

(***************************************************************************)
(* A gateway is a host's name or address.  Charon numbers its SAs, says    *)
(* something or nothing of every child, and carries no network without a   *)
(* name.  A host is alive if it answers a probe of this sweep or takes its *)
(* connection; replies to earlier sweeps may come of any host.             *)
(***************************************************************************)
LoadsAssumption == \A conns \in Loads : \A c \in conns : c.gateway \notin {NoTerm, ""}

RepairsAssumption ==
    \A r \in Repairs :
        /\ r.config.nets \in Seq({r.config.nets[i] : i \in DOMAIN r.config.nets})
        /\ IsFiniteSet(r.sas)
        /\ \A c \in r.sas : c.remote_ts \in Seq(Ts(c))
        /\ \A c, d \in r.sas : c.id = d.id /\ c.id # NoTerm => c = d
        /\ \A s \in 0 .. Len(r.config.nets) :
              r.says[s] \in Seq({r.says[s][i] : i \in DOMAIN r.says[s]})

ExchangesAssumption ==
    \A packets \in Exchanges : packets \in Seq({packets[i] : i \in DOMAIN packets})

SweepsAssumption ==
    \A s \in Sweeps :
        /\ s.net.replies \in Seq({s.net.replies[i] : i \in DOMAIN s.net.replies})
        /\ \A i \in DOMAIN s.net.replies :
              /\ s.net.replies[i].at \in Nat
              /\ s.net.replies[i].token[1] = s.net.sweep => s.net.replies[i].source \in s.alive
        /\ \A l \in s.net.listening : l[1] \in s.alive

ASSUME UpkeepAssumption ==
    /\ LoadsAssumption /\ RepairsAssumption /\ ExchangesAssumption /\ SweepsAssumption
    /\ MaxLogLines \in Nat

VARIABLE task

NoTask == [kind |-> "none"]

UpkeepInit == task = NoTask

(***************************************************************************)
(* Secrets.  One loaded under an id takes the place of the one before it.  *)
(* `last` is the configuration each name was last loaded with, until a     *)
(* disconnect retires it; of a secret nobody overwrote, charon keeps what  *)
(* an earlier configuration loaded.                                        *)
(***************************************************************************)
NoConn == [name |-> NoTerm]

Secrets(c) ==
    {LoadShared(c, c.name, {c.gateway})} \cup
    IF c.user = NoTerm THEN {}
    ELSE {LoadSharedUserAuth(c, c.name, c.password, c.version, {c.gateway})}

Ids(secrets) == {s.id : s \in secrets}

BeginLoading ==
    /\ task = NoTask
    /\ \E conns \in Loads :
           task' = [kind |-> "secrets", conns |-> conns, loaded |-> {},
                    last |-> [n \in {c.name : c \in conns} |-> NoConn]]

LoadSecrets ==
    /\ task.kind = "secrets"
    /\ \E c \in task.conns :
           task' = [task EXCEPT
                       !.loaded = {s \in @ : s.id \notin Ids(Secrets(c))} \cup Secrets(c),
                       !.last[c.name] = c]

RetireSecrets ==
    /\ task.kind = "secrets"
    /\ \E n \in DOMAIN task.last :
           task' = [task EXCEPT
                       !.loaded = {s \in @ : s.id \notin {<<"ike", n>>, <<"user", n>>}},
                       !.last[n] = NoConn]

(***************************************************************************)
(* A repair.  Every step talks to charon except the one that keeps a       *)
(* child; `ended` tells how the pass ended, if it has.                     *)
(***************************************************************************)
BeginRepair ==
    /\ task = NoTask
    /\ \E r \in Repairs :
           task' = [kind |-> "repair", of |-> r, plan |-> StepsOf(r), passed |-> 0,
                    done |-> NothingDone(r), broken |-> FALSE]

Repairing == task.kind = "repair" /\ ~task.broken /\ task.passed < Len(task.plan)

NextStep == task.plan[task.passed + 1]

RepairChild ==
    /\ Repairing
    /\ task' = [task EXCEPT !.done = RunStep(@, NextStep, task.of), !.passed = @ + 1]

LoseCharon ==
    /\ Repairing
    /\ NextStep.action # "keep"
    /\ \E torn \in SUBSET NextStep.stale :
           task' = [task EXCEPT !.done = BrokenOff(@, torn), !.broken = TRUE]

(***************************************************************************)
(* An exchange of either kind, and a sweep.                                *)
(***************************************************************************)
Talk(kind, packets, client) ==
    task' = [kind |-> kind, packets |-> packets, passed |-> 0, client |-> client]

Ask ==
    /\ task = NoTask
    /\ \E packets \in Exchanges : Talk("request", packets, Asking("waiting", NoTerm))

AskForStream ==
    /\ task = NoTask
    /\ \E packets \in Exchanges : Talk("stream", packets, Asking("registering", "list-sa"))

Receive ==
    /\ task.kind \in {"request", "stream"}
    /\ ~Over(task.client) /\ task.passed < Len(task.packets)
    /\ LET p == task.packets[task.passed + 1]
       IN  task' = [task EXCEPT !.passed = @ + 1,
                                !.client = IF task.kind = "request" THEN Request(@, p)
                                           ELSE StreamRequest(@, p)]

Sweep ==
    /\ task = NoTask
    /\ \E s \in Sweeps :
           task' = [kind |-> "sweep", of |-> s,
                    shown |-> ProbeAll(s.hosts, s.ctx, s.manual, s.net)]

Finish == task # NoTask /\ task' = NoTask

UpkeepNext ==
    \/ BeginLoading \/ LoadSecrets \/ RetireSecrets
    \/ BeginRepair \/ RepairChild \/ LoseCharon
    \/ Ask \/ AskForStream \/ Receive
    \/ Sweep \/ Finish

UpkeepSpec == UpkeepInit /\ [][UpkeepNext]_task

(***************************************************************************)
(* Properties.                                                             *)
(***************************************************************************)
\* Of the secrets loaded, by this connection and by others, charon takes a
\* connection's own: its key and its user's password, whatever was loaded for
\* it before and whichever identities the others present, as long as none of
\* theirs names its gateway ("keeps each secret matchable for its own peer and
\* unmatchable for anyone else's").
OwnSecretChosen ==
    task.kind = "secrets" =>
        \A n \in DOMAIN task.last :
            LET c == task.last[n]
                alone == \A s \in task.loaded : s.id[2] # n => c.gateway \notin s.owners
            IN  c # NoConn /\ alone =>
                LET me == IF c.local_id = NoTerm THEN "the address" ELSE c.local_id
                    kind == IF c.version = 1 THEN "XAUTH" ELSE "EAP"
                    keys == Chosen(task.loaded, "IKE", me, c.gateway)
                    passwords == Chosen(task.loaded, kind, c.user, c.gateway)
                IN  /\ {s.data : s \in keys} = {c.psk}
                    /\ c.user # NoTerm => {s.data : s \in passwords} = {c.password}

\* A repair of networks that run as one child each leaves every CHILD_SA alone
\* whose networks are neither told dead nor a collision's victims: it is neither
\* torn down nor initiated over, even if charon is lost halfway.
Apart(r) ==
    /\ \A c \in Installed(Live(r)) : Cardinality(Ts(c)) = 1
    /\ r.ike.version = 1 \/ (r.ike.version = Unknown /\ Cardinality(Installed(Live(r))) > 1)

FailedNets(done) == {f.net : f \in done.failed}

LeavesAlone(r, done) ==
    \A c \in Installed(Live(r)) : Ts(c) \cap DeadNets(r) = {} =>
        /\ c.id \notin done.terminated
        /\ Ts(c) \cap (done.restored \cup FailedNets(done)) = {}

\* A pass that ends accounts for every network of the profile, and reports each
\* it has torn down as restored or failed, never as healthy only.
Accounts(r, done) ==
    done.restored \cup FailedNets(done) \cup done.healthy \cup done.narrowed =
        {r.config.nets[i] : i \in DOMAIN r.config.nets}

ReportsTornDown(r, done) ==
    \A c \in Installed(Live(r)) : c.id \in done.terminated =>
        Ts(c) \cap {r.config.nets[i] : i \in DOMAIN r.config.nets}
            \subseteq done.restored \cup FailedNets(done)

\* It calls healthy only what a live CHILD_SA carries, and the reason it gives
\* for one that failed is read from what charon said of its own child ("an
\* earlier child's failure is not this child's reason").
SaysWhatIs(r, done) ==
    /\ done.healthy \subseteq UNION {Ts(c) : c \in Installed(Live(r))}
    /\ \A f \in done.failed :
          \E n \in 0 .. Len(r.says[f.child]) :
              f.reason = ClassifyFailure(SubSeq(r.says[f.child], 1, n))

RepairSparesTheLiving ==
    task.kind = "repair" /\ task.of.ike.up =>
        /\ SaysWhatIs(task.of, task.done)
        /\ Apart(task.of) => LeavesAlone(task.of, task.done)
        /\ task.passed = Len(task.plan) =>
              /\ Accounts(task.of, task.done)
              /\ Apart(task.of) => ReportsTornDown(task.of, task.done)

\* A streamed command that succeeds returns every event of its own and no other,
\* in the order charon sent them, and a command of either kind the answer to
\* itself.
EveryEventReturned ==
    task.kind \in {"request", "stream"} /\ task.client.at = "done" =>
        LET packets == task.packets
            streamed == task.kind = "stream"
        IN  /\ streamed => BodiesOf(packets, Own(packets, task.client.event, Len(packets)),
                                    task.client.events)
            /\ \E a \in DOMAIN packets :
                  /\ packets[a].type = "CMD_RESPONSE"
                  /\ \A k \in 1 .. a - 1 : IF streamed THEN ~Answer(packets, k)
                                           ELSE packets[k].type \notin Answers
                  /\ streamed => Confirmed(packets, a)
                  /\ task.client.response = packets[a].body

\* A sweep shows a host as up only if that host answered this sweep, whatever
\* else arrives: answers of other hosts, and late ones to earlier probes of a host
\* that has died since ("the token rules out another probe's reply from the same
\* host"); the automatic sweep only if the tunnel carries its address.  A ping's
\* answer comes less than two timeouts after the start: a probe goes past its own
\* deadline by one more receive, but not on and on while replies of others arrive.
UpMeansAnswered ==
    task.kind = "sweep" =>
        \A i \in DOMAIN task.shown :
            LET s == task.of
                ip == AddressOf(s.hosts[i], s.net.names)
            IN  task.shown[i].state = "up" =>
                    /\ ip \in s.alive
                    /\ s.manual \/ InTunnel(ip, s.ctx)
                    /\ s.hosts[i].port = 0 =>
                          \E k \in DOMAIN s.net.replies :
                             /\ s.net.replies[k].source = ip
                             /\ s.net.replies[k].token[1] = s.net.sweep
                             /\ s.net.replies[k].at < 2 * Timeout

=============================================================================
