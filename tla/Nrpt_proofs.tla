----------------------------- MODULE Nrpt_proofs -----------------------------
(***************************************************************************)
(* Proofs about Nrpt for any connections, namespaces, threads and          *)
(* circumstances: what a thread carries at each place; that no namespace   *)
(* is recorded to two connections and nobody's rules are taken down by     *)
(* another while requests come one at a time, whatever fails, stops or     *)
(* crashes; that recorded rules stand; and that every rule is accounted    *)
(* for with any number of requests at once.                                *)
(*                                                                         *)
(* The exclusion of claims is not inductive: what a request is about to    *)
(* record must be free of every other connection's records from the moment *)
(* it asked (ClaimsPending), which the single crew member keeps because    *)
(* only its own requests write a record (CrewOnly).  The same holds of     *)
(* what a revert is about to take down (RevertsPending).                   *)
(***************************************************************************)
EXTENDS Nrpt, FiniteSetTheorems, TLAPS

Places == Applying \cup Reverting \cup Sweeping \cup {"idle"}
JobRecord ==
    [at : Places, conn : Conns \cup {NoConn}, asked : SUBSET Namespaces,
     spoken : SUBSET Namespaces, todo : SUBSET Namespaces,
     mine : SUBSET Namespaces, files : SUBSET Conns]

SweepTyped ==
    /\ job[Svc].at \in {"sweep", "unlink"} => job[Svc].conn \in Conns
    /\ \A t \in Threads : job[t].files = {}

NrptInv == TypeOK /\ job \in [Actors -> JobRecord] /\ SweepTyped

CrewOnly == \A t \in Threads : t \notin setting.crew => job[t].at = "idle"
Exclusive == \A c, d \in Conns : c # d => records[c] \cap records[d] = {}
ClaimsPending ==
    \A t \in Threads : job[t].at \in {"remove", "add", "record"} =>
        \A d \in Conns : d # job[t].conn => job[t].mine \cap records[d] = {}
ClaimInv == Serial => CrewOnly /\ Exclusive /\ ClaimsPending

-----------------------------------------------------------------------------
(* Types, and what a thread carries.                                       *)

(* A handler thread at rest is a job record with no file to remove. *)
LEMMA IdleTyped == Idle \in JobRecord /\ Idle.at = "idle" /\ Idle.files = {}
BY DEF Idle, JobRecord, Places

(* The service starts with every thread at rest. *)
LEMMA InitNrptInv ==
    ASSUME Init
    PROVE  NrptInv
BY IdleTyped, NrptAssumption
   DEF Init, NrptInv, TypeOK, SweepTyped, Actors, Rules, Applying, Reverting, Sweeping

(* The part of the invariant that is about one thread, and what its step   *)
(* leaves as it was.                                                       *)
Carries(j) ==
    /\ j.at \in Applying \cup Reverting \cup {"idle"}
    /\ j.at # "idle" => j.conn \in Conns /\ life # "down"
    /\ j.at \in {"remove", "add"} => j.todo # {} /\ j.todo \subseteq j.mine
    /\ j.at \in {"add", "erase"} => j.asked \subseteq j.todo
    /\ j.at = "record" => j.todo = {} /\ j.mine # {}
    /\ j.at \in Reverting => j.todo # {}
    /\ j.files = {}

Others(a) == \A b \in Actors : b # a => job'[b] = job[b]

Tables ==
    /\ life' = life /\ setting' = setting
    /\ rules' \in [Rules -> Conns \cup {NoConn}]
    /\ records' \in [Conns -> SUBSET Namespaces]

(* A step of one handler thread keeps the invariant when the thread still carries
   what its place needs and the tables keep their types. *)
LEMMA ThreadStep ==
    ASSUME NrptInv, NEW a \in Threads, job' \in [Actors -> JobRecord], Others(a),
           Carries(job'[a]), Tables
    PROVE  NrptInv'
<1>1. Svc # a /\ Svc \in Actors /\ job'[Svc] = job[Svc] /\ Threads \subseteq Actors
  BY NrptAssumption DEF Actors, Others
<1>2. \A t \in Threads : t = a \/ job'[t] = job[t]
  BY <1>1 DEF Others
<1> QED BY <1>1, <1>2 DEF NrptInv, TypeOK, SweepTyped, Carries, Tables

(* What a thread becomes, in one assignment.                               *)
LEMMA Becomes ==
    ASSUME job \in [Actors -> JobRecord], NEW a \in Actors, NEW j \in JobRecord,
           job' = [job EXCEPT ![a] = j]
    PROVE  job' \in [Actors -> JobRecord] /\ Others(a) /\ job'[a] = j
BY DEF Others

(* A job that moves on with a set of namespaces is still a job.            *)
LEMMA JobMoves ==
    ASSUME NEW j \in JobRecord, NEW s \in Places, NEW S \in SUBSET Namespaces
    PROVE  /\ [j EXCEPT !.todo = S, !.at = s] \in JobRecord
           /\ [j EXCEPT !.at = s, !.todo = S] \in JobRecord
           /\ [j EXCEPT !.at = s, !.asked = S] \in JobRecord
BY DEF JobRecord

(* A revert goes on with the namespaces it has left, or is done. *)
LEMMA NextOfTyped ==
    ASSUME NEW a, job[a] \in JobRecord, NEW left \in SUBSET Namespaces
    PROVE  /\ NextOf(a, left) \in JobRecord
           /\ \/ NextOf(a, left) = Idle
              \/ /\ NextOf(a, left).at = "check" /\ NextOf(a, left).todo = left /\ left # {}
                 /\ NextOf(a, left).conn = job[a].conn
                 /\ NextOf(a, left).files = job[a].files
<1>1. CASE left = {}
  BY <1>1, IdleTyped DEF NextOf
<1>2. CASE left # {}
  <2>1. NextOf(a, left) = [job[a] EXCEPT !.at = "check", !.todo = left]
    BY <1>2 DEF NextOf
  <2>2. NextOf(a, left) \in JobRecord
    <3>1. "check" \in Places
      BY DEF Places, Reverting
    <3>2. [job[a] EXCEPT !.at = "check", !.todo = left] \in JobRecord
      BY <3>1 DEF JobRecord
    <3> QED BY <2>1, <3>2
  <2>3. /\ NextOf(a, left).at = "check" /\ NextOf(a, left).todo = left
        /\ NextOf(a, left).conn = job[a].conn /\ NextOf(a, left).files = job[a].files
    BY <2>1 DEF JobRecord
  <2> QED BY <1>2, <2>2, <2>3
<1> QED BY <1>1, <1>2

(* What ApplyAdd, Revert, RevertCheck and RevertErase make of their thread.*)
Ends(a) == job'[a] = Idle
Removes(a) ==
    \E n \in job[a].todo :
        /\ job'[a].at = "add" /\ job'[a].asked = {n}
        /\ job'[a].todo = job[a].todo
        /\ job'[a].conn = job[a].conn /\ job'[a].mine = job[a].mine
        /\ job'[a].files = job[a].files
Adds(a) ==
    \E n \in job[a].asked :
        /\ job'[a].at = IF job[a].todo = {n} THEN "record" ELSE "remove"
        /\ job'[a].todo = job[a].todo \ {n}
        /\ job'[a].conn = job[a].conn /\ job'[a].mine = job[a].mine
        /\ job'[a].asked = job[a].asked /\ job'[a].files = job[a].files
Reverts(a) ==
    /\ job'[a].at \in {"unrecord", "check", "erase"} /\ job'[a].conn \in Conns
    /\ job'[a].todo # {} /\ job'[a].files = {}
    /\ job'[a].at = "erase" => job'[a].asked \subseteq job'[a].todo

(* Removing a rule either ends the apply or goes on to add the new one.    *)
LEMMA ApplyRemoveStep ==
    ASSUME NrptInv, NEW a \in Threads, ApplyRemove(a)
    PROVE  job' \in [Actors -> JobRecord] /\ Others(a) /\ (Ends(a) \/ Removes(a))
<1>0. job \in [Actors -> JobRecord] /\ a \in Actors /\ job[a] \in JobRecord
  BY DEF NrptInv, Actors
<1>1. ASSUME NEW n \in job[a].todo,
             job' = [job EXCEPT ![a] = [@ EXCEPT !.at = "add", !.asked = {n}]]
      PROVE  job' \in [Actors -> JobRecord] /\ Others(a) /\ Removes(a)
  <2> DEFINE j == [job[a] EXCEPT !.at = "add", !.asked = {n}]
  <2>1. job' = [job EXCEPT ![a] = j]
    BY <1>0, <1>1
  <2>2. "add" \in Places /\ {n} \in SUBSET Namespaces
    BY <1>0 DEF JobRecord, Places, Applying
  <2>3. j \in JobRecord
    BY <1>0, <2>2, JobMoves
  <2>4. /\ j.at = "add" /\ j.asked = {n} /\ j.todo = job[a].todo
        /\ j.conn = job[a].conn /\ j.mine = job[a].mine /\ j.files = job[a].files
    BY <1>0 DEF JobRecord
  <2> HIDE DEF j
  <2>5. job' \in [Actors -> JobRecord] /\ Others(a) /\ job'[a] = j
    BY <1>0, <2>1, <2>3, Becomes
  <2> QED BY <1>1, <2>4, <2>5 DEF Removes
<1>2. CASE job' = [job EXCEPT ![a] = Idle]
  BY <1>0, <1>2, IdleTyped, Becomes DEF Ends
<1> QED BY <1>1, <1>2 DEF ApplyRemove

(* Adding a rule either ends the apply or goes on to add the next. *)
LEMMA ApplyAddStep ==
    ASSUME NrptInv, NEW a \in Threads, ApplyAdd(a)
    PROVE  job' \in [Actors -> JobRecord] /\ Others(a) /\ (Ends(a) \/ Adds(a))
<1>0. job \in [Actors -> JobRecord] /\ a \in Actors /\ job[a] \in JobRecord
  BY DEF NrptInv, Actors
<1>1. ASSUME NEW n \in job[a].asked,
             job' = [job EXCEPT ![a] =
                        [@ EXCEPT !.todo = job[a].todo \ {n},
                                  !.at = IF job[a].todo = {n} THEN "record" ELSE "remove"]]
      PROVE  job' \in [Actors -> JobRecord] /\ Others(a) /\ Adds(a)
  <2> DEFINE s == IF job[a].todo = {n} THEN "record" ELSE "remove"
             left == job[a].todo \ {n}
             j == [job[a] EXCEPT !.todo = left, !.at = s]
  <2>1. job' = [job EXCEPT ![a] = j]
    BY <1>0, <1>1 DEF JobRecord
  <2>2. s \in Places /\ left \in SUBSET Namespaces
    BY <1>0 DEF JobRecord, Places, Applying
  <2> HIDE DEF s, left
  <2>3. j \in JobRecord
    BY <1>0, <2>2, JobMoves
  <2>4. /\ j.at = s /\ j.todo = left /\ j.conn = job[a].conn /\ j.mine = job[a].mine
        /\ j.asked = job[a].asked /\ j.files = job[a].files
    BY <1>0 DEF JobRecord
  <2> HIDE DEF j
  <2>5. job' \in [Actors -> JobRecord] /\ Others(a) /\ job'[a] = j
    BY <1>0, <2>1, <2>3, Becomes
  <2> QED BY <1>1, <2>4, <2>5 DEF Adds, s, left
<1>2. CASE job' = [job EXCEPT ![a] = Idle]
  BY <1>0, <1>2, IdleTyped, Becomes DEF Ends
<1> QED BY <1>1, <1>2 DEF ApplyAdd

(* A revert begins by carrying what the record of its connection lists. *)
LEMMA RevertStep ==
    ASSUME NrptInv, NEW a \in Threads, Revert(a)
    PROVE  job' \in [Actors -> JobRecord] /\ Others(a) /\ Reverts(a)
<1>0. job \in [Actors -> JobRecord] /\ a \in Actors
  BY DEF NrptInv, Actors
<1>1. PICK c \in {d \in Conns : records[d] # {}} :
        job' = [job EXCEPT ![a] = [Idle EXCEPT !.at = "unrecord", !.conn = c,
                                               !.todo = records[c]]]
  BY DEF Revert
<1> DEFINE j == [Idle EXCEPT !.at = "unrecord", !.conn = c, !.todo = records[c]]
<1>2. records[c] \in SUBSET Namespaces
  BY DEF NrptInv, TypeOK
<1>3. j \in JobRecord
  BY <1>2 DEF JobRecord, Idle, Places, Reverting
<1>4. j.at = "unrecord" /\ j.conn = c /\ j.todo = records[c] /\ j.files = {}
  BY DEF Idle
<1> HIDE DEF j
<1>5. job' \in [Actors -> JobRecord] /\ Others(a) /\ job'[a] = j
  BY <1>0, <1>1, <1>3, Becomes DEF j
<1> QED BY <1>4, <1>5 DEF Reverts

(* Looking for another holder either ends the revert or goes on with it. *)
LEMMA RevertCheckStep ==
    ASSUME NrptInv, NEW a \in Threads, RevertCheck(a)
    PROVE  job' \in [Actors -> JobRecord] /\ Others(a) /\ (Ends(a) \/ Reverts(a))
<1>0. job \in [Actors -> JobRecord] /\ a \in Actors /\ job[a] \in JobRecord
  BY DEF NrptInv, Actors
<1>1. job[a].conn \in Conns /\ job[a].files = {} /\ job[a].todo \in SUBSET Namespaces
      /\ job[a].todo # {}
  BY <1>0 DEF RevertCheck, NrptInv, TypeOK, SweepTyped, JobRecord, Reverting
<1>2. ASSUME NEW n \in job[a].todo, job' = [job EXCEPT ![a] = NextOf(a, job[a].todo \ {n})]
      PROVE  job' \in [Actors -> JobRecord] /\ Others(a) /\ (Ends(a) \/ Reverts(a))
  <2> DEFINE left == job[a].todo \ {n}
  <2>1. left \in SUBSET Namespaces
    BY <1>1
  <2> HIDE DEF left
  <2>2. job' = [job EXCEPT ![a] = NextOf(a, left)]
    BY <1>2 DEF left
  <2>3. job' \in [Actors -> JobRecord] /\ Others(a) /\ job'[a] = NextOf(a, left)
    BY <1>0, <2>1, <2>2, NextOfTyped, Becomes
  <2> QED BY <1>0, <1>1, <2>1, <2>3, NextOfTyped DEF Ends, Reverts
<1>3. ASSUME NEW n \in job[a].todo,
             job' = [job EXCEPT ![a] = [@ EXCEPT !.at = "erase", !.asked = {n}]]
      PROVE  job' \in [Actors -> JobRecord] /\ Others(a) /\ Reverts(a)
  <2> DEFINE j == [job[a] EXCEPT !.at = "erase", !.asked = {n}]
  <2>1. job' = [job EXCEPT ![a] = j]
    BY <1>0, <1>3 DEF JobRecord
  <2>2. j \in JobRecord
    BY <1>0, <1>1, JobMoves DEF Places, Reverting
  <2>3. /\ j.at = "erase" /\ j.asked = {n} /\ j.todo = job[a].todo
        /\ j.conn = job[a].conn /\ j.files = job[a].files
    BY <1>0 DEF JobRecord
  <2> HIDE DEF j
  <2>4. job' \in [Actors -> JobRecord] /\ Others(a) /\ job'[a] = j
    BY <1>0, <2>1, <2>2, Becomes
  <2> QED BY <1>1, <2>3, <2>4 DEF Reverts
<1> QED BY <1>2, <1>3 DEF RevertCheck

(* Erasing a rule either ends the revert or goes on with it. *)
LEMMA RevertEraseStep ==
    ASSUME NrptInv, NEW a \in Threads, RevertErase(a)
    PROVE  job' \in [Actors -> JobRecord] /\ Others(a) /\ (Ends(a) \/ Reverts(a))
<1>0. job \in [Actors -> JobRecord] /\ a \in Actors /\ job[a] \in JobRecord
  BY DEF NrptInv, Actors
<1>1. job[a].conn \in Conns /\ job[a].files = {} /\ job[a].todo \in SUBSET Namespaces
  BY <1>0 DEF RevertErase, NrptInv, TypeOK, SweepTyped, JobRecord, Reverting
<1>2. ASSUME NEW n, job' = [job EXCEPT ![a] = NextOf(a, job[a].todo \ {n})]
      PROVE  job' \in [Actors -> JobRecord] /\ Others(a) /\ (Ends(a) \/ Reverts(a))
  <2> DEFINE left == job[a].todo \ {n}
  <2>1. left \in SUBSET Namespaces
    BY <1>1
  <2> HIDE DEF left
  <2>2. job' = [job EXCEPT ![a] = NextOf(a, left)]
    BY <1>2 DEF left
  <2>3. job' \in [Actors -> JobRecord] /\ Others(a) /\ job'[a] = NextOf(a, left)
    BY <1>0, <2>1, <2>2, NextOfTyped, Becomes
  <2> QED BY <1>0, <1>1, <2>1, <2>3, NextOfTyped DEF Ends, Reverts
<1>3. CASE job' = [job EXCEPT ![a] = Idle]
  BY <1>0, <1>3, IdleTyped, Becomes DEF Ends
<1> QED BY <1>2, <1>3 DEF RevertErase

(* What a write of a record leaves, failed or not: one record changes, to  *)
(* the new lines if nothing fails, else to some of them or not at all.     *)
LEMMA RecordWritten ==
    ASSUME NrptInv, NEW c \in Conns, NEW lines \in SUBSET Namespaces,
           WriteRecord(c, lines)
    PROVE  /\ records' \in [Conns -> SUBSET Namespaces]
           /\ \E S \in SUBSET Namespaces :
                 /\ \A d \in Conns : records'[d] = IF d = c THEN S ELSE records[d]
                 /\ S = records[c] \/ S \subseteq lines
                 /\ Calm => S = lines
<1>1. records \in [Conns -> SUBSET Namespaces]
  BY DEF NrptInv, TypeOK
<1>2. CASE records' = [records EXCEPT ![c] = lines]
  BY <1>1, <1>2
<1>3. CASE ~Calm /\ records' = records
  BY <1>1, <1>3
<1>4. ASSUME ~Calm, NEW part \in SUBSET lines, records' = [records EXCEPT ![c] = part]
      PROVE  /\ records' \in [Conns -> SUBSET Namespaces]
             /\ \A d \in Conns : records'[d] = IF d = c THEN part ELSE records[d]
  BY <1>1, <1>4
<1>5. May("fail") => ~Calm
  BY DEF May, Calm
<1> QED BY <1>2, <1>3, <1>4, <1>5 DEF WriteRecord

(* The three steps that write a record: one adds to it at most what its    *)
(* request has claimed, the others add nothing to any.                     *)
LEMMA RecordsItsOwn ==
    ASSUME NrptInv, NEW a \in Threads, ApplyRecord(a)
    PROVE  \E S : /\ \A d \in Conns : records'[d] = IF d = job[a].conn THEN S ELSE records[d]
                  /\ S = records[job[a].conn] \/ S \subseteq job[a].mine
<1>1. job[a].conn \in Conns /\ job[a].mine \in SUBSET Namespaces
  BY DEF ApplyRecord, NrptInv, TypeOK, Actors, JobRecord
<1> QED BY <1>1, RecordWritten DEF ApplyRecord

(* A revert gives up its own record and a sweep whichever it is at: neither *)
(* adds a namespace to any.                                                 *)
LEMMA RecordsDwindle ==
    ASSUME NrptInv, SweepUnlink \/ \E a \in Threads : Unrecord(a)
    PROVE  \A d \in Conns : records'[d] \subseteq records[d]
<1>1. \E c \in Conns : WriteRecord(c, {})
  BY DEF Unrecord, SweepUnlink, NrptInv, TypeOK, SweepTyped
<1> QED BY <1>1, RecordWritten

(* Every step of an apply keeps the invariant. *)
LEMMA ApplyKeepsNrptInv ==
    ASSUME NrptInv, NEW a \in Threads,
           \/ Apply(a) \/ ApplyAsk(a) \/ ApplyClaim(a)
           \/ ApplyRemove(a) \/ ApplyAdd(a) \/ ApplyRecord(a)
    PROVE  NrptInv'
<1> USE NrptAssumption, IdleTyped
<1>0. job \in [Actors -> JobRecord] /\ a \in Actors /\ job[a] \in JobRecord
  BY DEF NrptInv, Actors
<1>1. CASE Apply(a)
  <2>1. PICK ask \in setting.asks, spoken \in setting.claims :
          job' = [job EXCEPT ![a] =
                    [Idle EXCEPT !.at = "ask", !.conn = ask.conn, !.spoken = spoken,
                                 !.asked = {ask.wanted}, !.mine = ask.zones]]
    BY <1>1 DEF Apply
  <2>2. /\ ask.conn \in Conns /\ ask.wanted \in Namespaces
        /\ ask.zones \in SUBSET Namespaces /\ spoken \in SUBSET Namespaces
    BY DEF IsSetting, Ask, NrptInv, TypeOK
  <2>3. job' \in [Actors -> JobRecord] /\ Others(a)
    BY <1>0, <2>1, <2>2 DEF Others, JobRecord, Places, Idle, Applying
  <2>4. job'[a].at = "ask" /\ job'[a].conn = ask.conn /\ job'[a].files = {}
    BY <1>0, <2>1 DEF Idle
  <2>5. Carries(job'[a])
    BY <1>0, <1>1, <2>2, <2>4 DEF Apply, Carries, Applying, Reverting
  <2>6. Tables
    BY <1>1 DEF Apply, Tables, NrptInv, TypeOK
  <2> QED BY <2>3, <2>5, <2>6, ThreadStep
<1>2. CASE ApplyAsk(a)
  <2>1. job' \in [Actors -> JobRecord] /\ Others(a)
    BY <1>0, <1>2 DEF ApplyAsk, Others, JobRecord, Places, Actors, Applying, Reverting
  <2>2. Carries(job'[a])
    BY <1>0, <1>2 DEF ApplyAsk, Carries, NrptInv, TypeOK, SweepTyped, JobRecord, Places, Actors, Applying, Reverting
  <2>3. Tables
    BY <1>0, <1>2 DEF ApplyAsk, Tables, NrptInv, TypeOK, JobRecord, Actors, Rules
  <2> QED BY <2>1, <2>2, <2>3, ThreadStep
<1>3. CASE ApplyClaim(a)
  <2> DEFINE mine == {n \in job[a].asked : Free(a, n)}
  <2>1. mine \in SUBSET Namespaces
    BY <1>0 DEF JobRecord
  <2>2. Tables
    BY <1>3 DEF ApplyClaim, Tables, NrptInv, TypeOK
  <2>3. CASE mine = {}
    <3>1. job' = [job EXCEPT ![a] = Idle]
      BY <1>3, <2>3 DEF ApplyClaim
    <3>2. job' \in [Actors -> JobRecord] /\ Others(a) /\ job'[a] = Idle
      BY <1>0, <3>1 DEF Others
    <3>3. Carries(job'[a])
      BY <3>2 DEF Carries, Reverting
    <3> QED BY <2>2, <3>2, <3>3, ThreadStep
  <2>4. CASE mine # {}
    <3>1. job' = [job EXCEPT ![a] = [@ EXCEPT !.at = "remove", !.todo = mine, !.mine = mine]]
      BY <1>3, <2>4 DEF ApplyClaim
    <3> HIDE DEF mine
    <3>2. job' \in [Actors -> JobRecord] /\ Others(a)
      BY <1>0, <2>1, <3>1 DEF Others, JobRecord, Places, Applying
    <3>3. /\ job'[a].at = "remove" /\ job'[a].todo = mine /\ job'[a].mine = mine
          /\ job'[a].conn = job[a].conn /\ job'[a].files = job[a].files
      BY <1>0, <3>1 DEF JobRecord
    <3>4. Carries(job'[a])
      BY <1>3, <2>4, <3>3 DEF ApplyClaim, Carries, NrptInv, TypeOK, SweepTyped, Applying, Reverting
    <3> QED BY <2>2, <3>2, <3>4, ThreadStep
  <2> QED BY <2>3, <2>4
<1>4. CASE ApplyRemove(a)
  <2>1. job' \in [Actors -> JobRecord] /\ Others(a) /\ (Ends(a) \/ Removes(a))
    BY <1>4, ApplyRemoveStep
  <2>2. Carries(job'[a])
    BY <1>0, <1>4, <2>1
       DEF ApplyRemove, Ends, Removes, Carries, NrptInv, TypeOK, SweepTyped, Applying, Reverting
  <2>3. Tables
    BY <1>0, <1>4 DEF ApplyRemove, Tables, NrptInv, TypeOK, JobRecord, Actors, Rules, Applying
  <2> QED BY <2>1, <2>2, <2>3, ThreadStep
<1>5. CASE ApplyAdd(a)
  <2>1. job' \in [Actors -> JobRecord] /\ Others(a) /\ (Ends(a) \/ Adds(a))
    BY <1>5, ApplyAddStep
  <2>2. /\ life' = life /\ job[a].conn \in Conns /\ life # "down"
        /\ job[a].todo \subseteq job[a].mine /\ job[a].asked \subseteq job[a].todo
        /\ job[a].todo # {} /\ job[a].files = {}
    BY <1>0, <1>5 DEF ApplyAdd, NrptInv, TypeOK, SweepTyped
  <2>3. Carries(job'[a])
    <3>1. CASE Ends(a)
      BY <3>1 DEF Ends, Carries, Reverting
    <3>2. CASE Adds(a)
      <4>1. PICK n \in job[a].asked :
               /\ job'[a].at = IF job[a].todo = {n} THEN "record" ELSE "remove"
               /\ job'[a].todo = job[a].todo \ {n}
               /\ job'[a].conn = job[a].conn /\ job'[a].mine = job[a].mine
               /\ job'[a].files = job[a].files
        BY <3>2 DEF Adds
      <4>2. CASE job[a].todo = {n}
        BY <2>2, <4>1, <4>2 DEF Carries, Applying, Reverting
      <4>3. CASE job[a].todo # {n}
        BY <2>2, <4>1, <4>3 DEF Carries, Applying, Reverting
      <4> QED BY <4>2, <4>3
    <3> QED BY <2>1, <3>1, <3>2
  <2>4. Tables
    BY <1>0, <1>5 DEF ApplyAdd, Tables, NrptInv, TypeOK, JobRecord, Actors, Rules, Applying
  <2> QED BY <2>1, <2>3, <2>4, ThreadStep
<1>6. CASE ApplyRecord(a)
  <2>1. job' \in [Actors -> JobRecord] /\ Others(a)
    BY <1>0, <1>6 DEF ApplyRecord, Others, JobRecord, Places, Actors, Applying, Reverting
  <2>2. Carries(job'[a])
    BY <1>0, <1>6 DEF ApplyRecord, Carries, NrptInv, TypeOK, SweepTyped, JobRecord, Places, Actors, Applying, Reverting
  <2>3. Tables
    <3>1. job[a].conn \in Conns /\ job[a].mine \in SUBSET Namespaces
      BY <1>0, <1>6 DEF ApplyRecord, NrptInv, TypeOK, JobRecord
    <3>2. records' \in [Conns -> SUBSET Namespaces]
      BY <1>6, <3>1, RecordWritten DEF ApplyRecord
    <3> QED BY <1>6, <3>2 DEF ApplyRecord, Tables, NrptInv, TypeOK
  <2> QED BY <2>1, <2>2, <2>3, ThreadStep
<1> QED BY <1>1, <1>2, <1>3, <1>4, <1>5, <1>6

(* Every step of a revert keeps the invariant. *)
LEMMA RevertKeepsNrptInv ==
    ASSUME NrptInv, NEW a \in Threads,
           Revert(a) \/ Unrecord(a) \/ RevertCheck(a) \/ RevertErase(a)
    PROVE  NrptInv'
<1> USE NrptAssumption, IdleTyped
<1>0. job \in [Actors -> JobRecord] /\ a \in Actors /\ job[a] \in JobRecord
  BY DEF NrptInv, Actors
<1>1. CASE Revert(a)
  <2>1. job' \in [Actors -> JobRecord] /\ Others(a) /\ (Reverts(a))
    BY <1>1, RevertStep
  <2>2. Carries(job'[a])
    BY <1>0, <1>1, <2>1
       DEF Revert, Ends, Reverts, Carries, NrptInv, TypeOK, SweepTyped, Applying, Reverting
  <2>3. Tables
    BY <1>0, <1>1 DEF Revert, Tables, NrptInv, TypeOK, JobRecord, Actors, Rules
  <2> QED BY <2>1, <2>2, <2>3, ThreadStep
<1>2. CASE Unrecord(a)
  <2>1. job' \in [Actors -> JobRecord] /\ Others(a)
    BY <1>0, <1>2 DEF Unrecord, Others, JobRecord, Places, Actors, Applying, Reverting
  <2>2. Carries(job'[a])
    BY <1>0, <1>2 DEF Unrecord, Carries, NrptInv, TypeOK, SweepTyped, JobRecord, Places, Actors, Applying, Reverting
  <2>3. Tables
    <3>1. job[a].conn \in Conns
      BY <1>0, <1>2 DEF Unrecord, NrptInv, TypeOK
    <3>2. records' \in [Conns -> SUBSET Namespaces]
      BY <1>2, <3>1, RecordWritten DEF Unrecord
    <3> QED BY <1>2, <3>2 DEF Unrecord, Tables, NrptInv, TypeOK
  <2> QED BY <2>1, <2>2, <2>3, ThreadStep
<1>3. CASE RevertCheck(a)
  <2>1. job' \in [Actors -> JobRecord] /\ Others(a) /\ (Ends(a) \/ Reverts(a))
    BY <1>3, RevertCheckStep
  <2>2. Carries(job'[a])
    BY <1>0, <1>3, <2>1
       DEF RevertCheck, Ends, Reverts, Carries, NrptInv, TypeOK, SweepTyped, Applying, Reverting
  <2>3. Tables
    BY <1>0, <1>3 DEF RevertCheck, Tables, NrptInv, TypeOK, JobRecord, Actors, Rules
  <2> QED BY <2>1, <2>2, <2>3, ThreadStep
<1>4. CASE RevertErase(a)
  <2>1. job' \in [Actors -> JobRecord] /\ Others(a) /\ (Ends(a) \/ Reverts(a))
    BY <1>4, RevertEraseStep
  <2>2. Carries(job'[a])
    BY <1>0, <1>4, <2>1
       DEF RevertErase, Ends, Reverts, Carries, NrptInv, TypeOK, SweepTyped, Applying, Reverting
  <2>3. Tables
    BY <1>0, <1>4 DEF RevertErase, Tables, NrptInv, TypeOK, JobRecord, Actors, Rules
  <2> QED BY <2>1, <2>2, <2>3, ThreadStep
<1> QED BY <1>1, <1>2, <1>3, <1>4

(* A step of the service thread, which handlers do not notice.             *)
LEMMA ServiceThreadStep ==
    ASSUME NrptInv, NEW j \in JobRecord, job' = [job EXCEPT ![Svc] = j],
           life' \in {life, "stopping"}, life # "down", setting' = setting,
           rules' \in [Rules -> Conns \cup {NoConn}],
           records' \in [Conns -> SUBSET Namespaces],
           j.at \in Sweeping \cup {"idle"}, (j.at = "idle") = (life' # "stopping"),
           j.at \in {"sweep", "unlink"} => j.conn \in Conns
    PROVE  NrptInv'
<1>1. Svc \in Actors /\ Threads \subseteq Actors /\ \A t \in Threads : t # Svc
  BY NrptAssumption DEF Actors
<1>2. job' \in [Actors -> JobRecord] /\ Others(Svc) /\ job'[Svc] = j
  BY <1>1, Becomes DEF NrptInv
<1>3. \A t \in Threads : job'[t] = job[t]
  BY <1>1, <1>2 DEF Others
<1> QED BY <1>2, <1>3 DEF NrptInv, TypeOK, SweepTyped

(* The sweep, a stop, a crash and a start keep the invariant. *)
LEMMA ServiceKeepsNrptInv ==
    ASSUME NrptInv, \/ BeginShutdown \/ SweepOpen \/ SweepRule \/ SweepUnlink
                    \/ ServiceExit \/ Crash \/ Start
    PROVE  NrptInv'
<1> USE NrptAssumption, IdleTyped
<1>0. /\ job \in [Actors -> JobRecord] /\ Svc \in Actors /\ job[Svc] \in JobRecord
      /\ rules \in [Rules -> Conns \cup {NoConn}]
      /\ records \in [Conns -> SUBSET Namespaces]
      /\ job[Svc].at = "idle" <=> life # "stopping"
  BY DEF NrptInv, TypeOK, Actors
<1>1. CASE BeginShutdown
  <2>1. PICK files \in SUBSET Conns :
          job' = [job EXCEPT ![Svc] =
                    [Idle EXCEPT !.at = IF files = {} THEN "exit" ELSE "open",
                                 !.files = files]]
    BY <1>1 DEF BeginShutdown
  <2> DEFINE j == [Idle EXCEPT !.at = IF files = {} THEN "exit" ELSE "open",
                               !.files = files]
  <2>2. j \in JobRecord /\ j.at \in {"exit", "open"}
    BY DEF JobRecord, Idle, Places, Sweeping
  <2> HIDE DEF j
  <2>3. job' = [job EXCEPT ![Svc] = j]
    BY <2>1 DEF j
  <2> QED BY <1>0, <1>1, <2>2, <2>3, ServiceThreadStep DEF BeginShutdown, Sweeping
<1>2. CASE SweepOpen
  <2>1. PICK c \in job[Svc].files :
          job' = [job EXCEPT ![Svc] =
                     [@ EXCEPT !.conn = c, !.todo = records[c],
                               !.at = IF records[c] = {} THEN "unlink" ELSE "sweep"]]
    BY <1>2 DEF SweepOpen
  <2>2. c \in Conns /\ records[c] \in SUBSET Namespaces
    BY <1>0 DEF JobRecord
  <2> DEFINE s == IF records[c] = {} THEN "unlink" ELSE "sweep"
             j == [job[Svc] EXCEPT !.conn = c, !.todo = records[c], !.at = s]
  <2>3. job' = [job EXCEPT ![Svc] = j]
    BY <1>0, <2>1 DEF JobRecord
  <2>4. s \in {"unlink", "sweep"}
    OBVIOUS
  <2> HIDE DEF s
  <2>5. j \in JobRecord
    BY <1>0, <2>2, <2>4 DEF JobRecord, Places, Sweeping
  <2>6. j.at = s /\ j.conn = c
    BY <1>0 DEF JobRecord
  <2> HIDE DEF j
  <2>7. life = "stopping"
    BY <1>0, <1>2 DEF SweepOpen
  <2> QED BY <1>0, <1>2, <2>2, <2>3, <2>4, <2>5, <2>6, <2>7, ServiceThreadStep
          DEF SweepOpen, Sweeping
<1>3. CASE SweepRule
  <2>1. PICK n \in job[Svc].todo :
          /\ rules' \in {rules, [rules EXCEPT ![Canon[n]] = NoConn]}
          /\ job' = [job EXCEPT ![Svc] =
                        [@ EXCEPT !.todo = job[Svc].todo \ {n},
                                  !.at = IF job[Svc].todo = {n} THEN "unlink" ELSE "sweep"]]
    BY <1>3 DEF SweepRule
  <2> DEFINE s == IF job[Svc].todo = {n} THEN "unlink" ELSE "sweep"
             left == job[Svc].todo \ {n}
             j == [job[Svc] EXCEPT !.todo = left, !.at = s]
  <2>2. job' = [job EXCEPT ![Svc] = j]
    BY <1>0, <2>1 DEF JobRecord
  <2>3. s \in {"unlink", "sweep"} /\ s \in Places /\ left \in SUBSET Namespaces
    BY <1>0 DEF Places, Sweeping, JobRecord
  <2> HIDE DEF s, left
  <2>4. j \in JobRecord
    BY <1>0, <2>3, JobMoves
  <2>5. j.at = s /\ j.conn = job[Svc].conn
    BY <1>0 DEF JobRecord
  <2> HIDE DEF j
  <2>6. life = "stopping" /\ job[Svc].conn \in Conns
    BY <1>0, <1>3 DEF SweepRule, NrptInv, SweepTyped
  <2>7. rules' \in [Rules -> Conns \cup {NoConn}]
    BY <1>0, <2>1
  <2> QED BY <1>0, <1>3, <2>2, <2>3, <2>4, <2>5, <2>6, <2>7, ServiceThreadStep
          DEF SweepRule, Sweeping
<1>4. CASE SweepUnlink
  <2>1. job[Svc].conn \in Conns
    BY <1>4 DEF SweepUnlink, NrptInv, SweepTyped
  <2>2. records' \in [Conns -> SUBSET Namespaces]
    BY <1>4, <2>1, RecordWritten DEF SweepUnlink
  <2> QED BY <1>4, <2>2 DEF SweepUnlink, Idle, NrptInv, TypeOK, SweepTyped, JobRecord, Places,
                            Actors, Applying, Reverting, Sweeping
<1> USE DEF NrptInv, TypeOK, SweepTyped, JobRecord, Places, Actors, Applying, Reverting, Sweeping
<1>5. CASE Gone
  BY <1>5 DEF Gone
<1>6. CASE Start
  BY <1>6 DEF Start
<1> QED BY <1>1, <1>2, <1>3, <1>4, <1>5, <1>6 DEF ServiceExit, Crash

(* Every step keeps the invariant: one case for each action. *)
LEMMA NextKeepsNrptInv ==
    ASSUME NrptInv, [Next]_vars
    PROVE  NrptInv'
<1>1. setting.crew \subseteq Threads
  BY NrptAssumption DEF NrptInv, TypeOK, IsSetting
<1>2. CASE UNCHANGED vars
  BY <1>2 DEF vars, NrptInv, TypeOK, SweepTyped
<1> QED BY <1>1, <1>2, ApplyKeepsNrptInv, RevertKeepsNrptInv, ServiceKeepsNrptInv
        DEF Next, Handler

(* Types, and what a thread carries at each place: an apply works off a    *)
(* part of what it will record and records once nothing is left.           *)
THEOREM ThreadsCarry == Spec => []NrptInv
<1> QED BY InitNrptInv, NextKeepsNrptInv, PTL DEF Spec

-----------------------------------------------------------------------------
(* The exclusion of claims.                                                *)

(* No rule and no record exists at first, so no two connections claim a namespace. *)
LEMMA InitClaimInv ==
    ASSUME Init
    PROVE  ClaimInv
BY IdleTyped
   DEF Init, ClaimInv, CrewOnly, Exclusive, ClaimsPending, Actors

(* A crew of one is one thread.                                            *)
LEMMA OneThread ==
    ASSUME NrptInv, IsFiniteSet(Threads), Serial
    PROVE  \E t \in Threads : setting.crew = {t}
<1>1. setting.crew \subseteq Threads
  BY NrptAssumption DEF NrptInv, TypeOK, IsSetting
<1>2. IsFiniteSet(setting.crew)
  BY <1>1, FS_Subset
<1> QED BY <1>1, <1>2, FS_Singleton DEF Serial

(* An apply claims what is free, and records it before anybody else can.   *)
LEMMA ApplyKeepsClaims ==
    ASSUME NrptInv, Serial, CrewOnly, Exclusive, ClaimsPending,
           NEW a \in Threads, setting.crew = {a},
           \/ Apply(a) \/ ApplyAsk(a) \/ ApplyClaim(a)
           \/ ApplyRemove(a) \/ ApplyAdd(a) \/ ApplyRecord(a)
    PROVE  CrewOnly' /\ Exclusive' /\ ClaimsPending'
<1> USE NrptAssumption, IdleTyped DEF NrptInv, TypeOK, Actors, CrewOnly
<1>1. CASE Apply(a)
  <2>1. PICK ask \in setting.asks, spoken \in setting.claims :
          job' = [job EXCEPT ![a] =
                    [Idle EXCEPT !.at = "ask", !.conn = ask.conn, !.spoken = spoken,
                                 !.asked = {ask.wanted}, !.mine = ask.zones]]
    BY <1>1 DEF Apply
  <2>2. job'[a].at = "ask" /\ Others(a)
    BY <2>1 DEF Idle, Others
  <2>3. records' = records /\ setting' = setting
    BY <1>1 DEF Apply
  <2> QED BY <2>2, <2>3 DEF Exclusive, ClaimsPending, Others
<1>2. CASE ApplyAsk(a)
  BY <1>2 DEF ApplyAsk, Exclusive, ClaimsPending
<1>3. CASE ApplyClaim(a)
  <2> DEFINE mine == {n \in job[a].asked : Free(a, n)}
  <2>1. CASE mine = {}
    BY <1>3, <2>1 DEF ApplyClaim, Exclusive, ClaimsPending
  <2>2. CASE mine # {}
    <3>1. job' = [job EXCEPT ![a] = [@ EXCEPT !.at = "remove", !.todo = mine, !.mine = mine]]
      BY <1>3, <2>2 DEF ApplyClaim
    <3>2. \A d \in Conns : d # job[a].conn => mine \cap records[d] = {}
      <4> SUFFICES ASSUME NEW d \in Conns, d # job[a].conn, NEW n \in mine, n \in records[d]
                   PROVE  FALSE
        OBVIOUS
      <4>1. d \in Holders(n)
        BY DEF Holders
      <4>2. job[a].conn \in Holders(n)
        BY <4>1 DEF Free
      <4>3. job[a].conn \in Conns /\ n \in records[job[a].conn]
        BY <4>2 DEF Holders
      <4> QED BY <4>3 DEF Exclusive
    <3> HIDE DEF mine
    <3>3. job[a] \in JobRecord
      OBVIOUS
    <3>4. /\ job'[a].mine = mine /\ job'[a].conn = job[a].conn /\ job'[a].at = "remove"
          /\ Others(a)
      BY <3>1, <3>3 DEF JobRecord, Others
    <3>5. records' = records /\ setting' = setting
      BY <1>3 DEF ApplyClaim
    <3> QED BY <3>2, <3>4, <3>5 DEF Exclusive, ClaimsPending, Others
  <2> QED BY <2>1, <2>2
<1>4. CASE ApplyRemove(a)
  <2>1. Others(a) /\ (Ends(a) \/ Removes(a))
    BY <1>4, ApplyRemoveStep
  <2>2. records' = records /\ setting' = setting /\ job[a].at = "remove"
    BY <1>4 DEF ApplyRemove
  <2> QED BY <2>1, <2>2 DEF Others, Ends, Removes, Exclusive, ClaimsPending
<1>5. CASE ApplyAdd(a)
  <2>1. Others(a) /\ (Ends(a) \/ Adds(a))
    BY <1>5, ApplyAddStep
  <2>2. records' = records /\ setting' = setting /\ job[a].at = "add"
    BY <1>5 DEF ApplyAdd
  <2> QED BY <2>1, <2>2 DEF Others, Ends, Adds, Exclusive, ClaimsPending
<1>6. CASE ApplyRecord(a)
  <2>1. job[a].conn \in Conns
    BY <1>6 DEF ApplyRecord
  <2>2. PICK S : /\ \A d \in Conns : records'[d] = IF d = job[a].conn THEN S ELSE records[d]
                 /\ S = records[job[a].conn] \/ S \subseteq job[a].mine
    BY <1>6, RecordsItsOwn
  <2>3. Exclusive'
    BY <1>6, <2>2 DEF ApplyRecord, Exclusive, ClaimsPending
  <2>4. CrewOnly' /\ ClaimsPending'
    BY <1>6 DEF ApplyRecord, ClaimsPending
  <2> QED BY <2>3, <2>4
<1> QED BY <1>1, <1>2, <1>3, <1>4, <1>5, <1>6

(* A revert gives records up and makes none.                               *)
LEMMA RevertKeepsClaims ==
    ASSUME NrptInv, Serial, CrewOnly, Exclusive, ClaimsPending,
           NEW a \in Threads, setting.crew = {a},
           Revert(a) \/ Unrecord(a) \/ RevertCheck(a) \/ RevertErase(a)
    PROVE  CrewOnly' /\ Exclusive' /\ ClaimsPending'
<1> USE NrptAssumption, IdleTyped
    DEF NrptInv, TypeOK, Actors, CrewOnly, Exclusive, ClaimsPending, JobRecord
<1>1. CASE Revert(a) \/ RevertCheck(a) \/ RevertErase(a)
  <2>1. Others(a) /\ (Ends(a) \/ Reverts(a))
    BY <1>1, RevertStep, RevertCheckStep, RevertEraseStep
  <2>2. records' = records /\ setting' = setting
    BY <1>1 DEF Revert, RevertCheck, RevertErase
  <2> QED BY <2>1, <2>2 DEF Others, Ends, Reverts
<1>2. CASE Unrecord(a)
  <2>1. \A d \in Conns : records'[d] \subseteq records[d]
    BY <1>2, RecordsDwindle
  <2>2. /\ setting' = setting /\ job' = [job EXCEPT ![a].at = "check"]
        /\ job[a].at = "unrecord"
    BY <1>2 DEF Unrecord
  <2> QED BY <2>1, <2>2
<1> QED BY <1>1, <1>2

(* So does the service thread; it and a crash may come at any point.       *)
LEMMA ServiceKeepsClaims ==
    ASSUME NrptInv, Serial, CrewOnly, Exclusive, ClaimsPending,
           \/ BeginShutdown \/ SweepOpen \/ SweepRule \/ SweepUnlink
           \/ ServiceExit \/ Crash \/ Start
    PROVE  CrewOnly' /\ Exclusive' /\ ClaimsPending'
<1> USE NrptAssumption, IdleTyped
    DEF NrptInv, TypeOK, Actors, CrewOnly, Exclusive, ClaimsPending
<1>1. CASE BeginShutdown
  <2>1. Others(Svc) /\ records' = records /\ setting' = setting
    BY <1>1 DEF BeginShutdown, Others
  <2> QED BY <2>1 DEF Others
<1>2. CASE SweepOpen
  BY <1>2 DEF SweepOpen
<1>3. CASE SweepRule
  BY <1>3 DEF SweepRule
<1>4. CASE SweepUnlink
  <2>1. \A d \in Conns : records'[d] \subseteq records[d]
    BY <1>4, RecordsDwindle
  <2> QED BY <1>4, <2>1 DEF SweepUnlink
<1>5. CASE Gone
  BY <1>5 DEF Gone
<1>6. CASE Start
  BY <1>6 DEF Start
<1> QED BY <1>1, <1>2, <1>3, <1>4, <1>5, <1>6 DEF ServiceExit, Crash

(* No step changes which threads the service runs. *)
LEMMA SettingStays ==
    ASSUME [Next]_vars
    PROVE  setting' = setting
BY DEF Next, Handler, Apply, ApplyAsk, ApplyClaim, ApplyRemove, ApplyAdd, ApplyRecord,
       Revert, Unrecord, RevertCheck, RevertErase, BeginShutdown, SweepOpen, SweepRule,
       SweepUnlink, ServiceExit, Crash, Gone, Start, vars

(* With one handler thread, every step keeps the claims apart. *)
LEMMA NextKeepsClaimInv ==
    ASSUME IsFiniteSet(Threads), NrptInv, ClaimInv, [Next]_vars
    PROVE  ClaimInv'
<1> SUFFICES ASSUME Serial'
             PROVE  CrewOnly' /\ Exclusive' /\ ClaimsPending'
  BY DEF ClaimInv
<1>1. Serial /\ CrewOnly /\ Exclusive /\ ClaimsPending
  BY SettingStays DEF Serial, ClaimInv
<1>2. PICK t \in Threads : setting.crew = {t}
  BY <1>1, OneThread
<1>3. CASE UNCHANGED vars
  BY <1>1, <1>3 DEF vars, CrewOnly, Exclusive, ClaimsPending
<1> QED BY <1>1, <1>2, <1>3, ApplyKeepsClaims, RevertKeepsClaims, ServiceKeepsClaims
        DEF Next, Handler

(* Claims that exclude each other name different rules, where no two       *)
(* namespaces share one.                                                   *)
LEMMA ExclusiveRules ==
    ASSUME NrptInv, ClaimInv,
           \A m, n \in Namespaces : Canon[m] = Canon[n] => m = n
    PROVE  ClaimExclusive
<1> SUFFICES ASSUME Serial, NEW c \in Conns, NEW d \in Conns, c # d,
                    NEW m \in records[c], NEW n \in records[d], Canon[m] = Canon[n]
             PROVE  FALSE
  BY DEF ClaimExclusive, RulesOf
<1>1. m \in Namespaces /\ n \in Namespaces
  BY DEF NrptInv, TypeOK
<1> QED BY <1>1 DEF ClaimInv, Exclusive

(* A rule is never recorded to two connections, whatever writes fail and   *)
(* whenever the service stops or crashes, as long as requests do not       *)
(* overlap and no two namespaces in use differ by case only.               *)
THEOREM ClaimsExclude ==
    ASSUME IsFiniteSet(Threads),
           \A m, n \in Namespaces : Canon[m] = Canon[n] => m = n
    PROVE  Spec => []ClaimExclusive
<1>1. ASSUME NrptInv, ClaimInv, [Next]_vars
      PROVE  ClaimInv'
  BY <1>1, NextKeepsClaimInv
<1>2. NrptInv /\ ClaimInv => ClaimExclusive
  BY ExclusiveRules
<1> QED BY <1>1, <1>2, InitClaimInv, ThreadsCarry, PTL DEF Spec

-----------------------------------------------------------------------------
(* The shape of each handler step: what becomes of its thread and of the   *)
(* two tables.                                                             *)

(* The thread goes on to another place for the same connection.            *)
Moves(a, from, to) ==
    /\ job[a].at = from /\ job'[a].at = to
    /\ Others(a) /\ UNCHANGED setting
    /\ job'[a].conn = job[a].conn /\ job'[a].spoken = job[a].spoken

(* The thread is done with its request.                                    *)
Finishes(a, from) == job[a].at = from /\ job'[a] = Idle /\ Others(a) /\ UNCHANGED setting

(* NextOf, seen from outside: a revert is done with one namespace.         *)
Without(a, from, n) ==
    \/ Finishes(a, from) /\ job[a].todo \ {n} = {}
    \/ Moves(a, from, "check") /\ job'[a].todo = job[a].todo \ {n}

(* table::add and table::remove: one rule changes, no record does.         *)
Sets(n, c) ==
    /\ \A k \in Rules : rules'[k] = IF k = Canon[n] THEN c ELSE rules[k]
    /\ UNCHANGED records

(* One record file is written, no rule changes.                            *)
Writes(c, S) ==
    /\ \A d \in Conns : records'[d] = IF d = c THEN S ELSE records[d]
    /\ UNCHANGED rules

(* The types of what a handler's step reads.                               *)
LEMMA JobsTyped ==
    ASSUME NrptInv, NEW a \in Threads
    PROVE  /\ job \in [Actors -> JobRecord] /\ a \in Actors /\ job[a] \in JobRecord
           /\ job[a].at # "idle" => job[a].conn \in Conns
           /\ rules \in [Rules -> Conns \cup {NoConn}]
           /\ records \in [Conns -> SUBSET Namespaces]
BY DEF NrptInv, TypeOK, Actors

(* A request begins: its connection, its namespace, what openvpn has       *)
(* claimed.                                                                *)
LEMMA ApplyShape ==
    ASSUME NrptInv, NEW a \in Threads, Apply(a)
    PROVE  /\ job[a].at = "idle" /\ job'[a].at = "ask" /\ Others(a)
           /\ UNCHANGED <<life, rules, records, setting>>
           /\ \E ask \in setting.asks, spoken \in setting.claims :
                 /\ job'[a].conn = ask.conn /\ job'[a].spoken = spoken
                 /\ job'[a].asked = {ask.wanted}
<1>1. PICK ask \in setting.asks, spoken \in setting.claims :
          job' = [job EXCEPT ![a] =
                    [Idle EXCEPT !.at = "ask", !.conn = ask.conn, !.spoken = spoken,
                                 !.asked = {ask.wanted}, !.mine = ask.zones]]
  BY DEF Apply
<1> DEFINE j == [Idle EXCEPT !.at = "ask", !.conn = ask.conn, !.spoken = spoken,
                             !.asked = {ask.wanted}, !.mine = ask.zones]
<1>2. j.at = "ask" /\ j.conn = ask.conn /\ j.spoken = spoken /\ j.asked = {ask.wanted}
  BY DEF Idle
<1> HIDE DEF j
<1>3. job'[a] = j /\ Others(a)
  BY <1>1, JobsTyped DEF j, Others
<1> QED BY <1>2, <1>3 DEF Apply

(* The catch-all, held by another, gives way to the reverse zones.         *)
LEMMA ApplyAskShape ==
    ASSUME NrptInv, NEW a \in Threads, ApplyAsk(a)
    PROVE  /\ Moves(a, "ask", "claim") /\ UNCHANGED <<life, rules, records>>
           /\ job'[a].asked = IF job[a].asked = {CatchAll} /\ ~Free(a, CatchAll)
                              THEN job[a].mine ELSE job[a].asked
<1> DEFINE S == IF job[a].asked = {CatchAll} /\ ~Free(a, CatchAll)
                THEN job[a].mine ELSE job[a].asked
           j == [job[a] EXCEPT !.at = "claim", !.mine = {}, !.asked = S]
<1>1. job' = [job EXCEPT ![a] = j]
  BY JobsTyped DEF ApplyAsk
<1> HIDE DEF S
<1>2. j.at = "claim" /\ j.conn = job[a].conn /\ j.spoken = job[a].spoken /\ j.asked = S
  BY JobsTyped DEF JobRecord
<1> HIDE DEF j
<1>3. job'[a] = j /\ Others(a)
  BY <1>1, JobsTyped DEF Others
<1> QED BY <1>2, <1>3 DEF ApplyAsk, Moves, S

(* The free namespaces are claimed, or the request is over.                *)
LEMMA ApplyClaimShape ==
    ASSUME NrptInv, NEW a \in Threads, ApplyClaim(a)
    PROVE  LET mine == {n \in job[a].asked : Free(a, n)} IN
           /\ UNCHANGED <<life, rules, records>>
           /\ \/ mine = {} /\ Finishes(a, "claim")
              \/ /\ mine # {} /\ Moves(a, "claim", "remove")
                 /\ job'[a].todo = mine /\ job'[a].mine = mine
<1> DEFINE mine == {n \in job[a].asked : Free(a, n)}
           j == [job[a] EXCEPT !.at = "remove", !.todo = mine, !.mine = mine]
<1>1. job' = [job EXCEPT ![a] = IF mine = {} THEN Idle ELSE j]
  BY JobsTyped DEF ApplyClaim
<1> HIDE DEF mine
<1>2. /\ j.at = "remove" /\ j.conn = job[a].conn /\ j.spoken = job[a].spoken
      /\ j.todo = mine /\ j.mine = mine
  BY JobsTyped DEF JobRecord
<1> HIDE DEF j
<1>3. job'[a] = (IF mine = {} THEN Idle ELSE j) /\ Others(a)
  BY <1>1, JobsTyped DEF Others
<1>4. job[a].at = "claim" /\ UNCHANGED <<life, rules, records, setting>>
  BY DEF ApplyClaim
<1> QED BY <1>2, <1>3, <1>4 DEF Moves, Finishes, mine

(* Whatever rule stands for the namespace is taken down first.             *)
LEMMA ApplyRemoveShape ==
    ASSUME NrptInv, NEW a \in Threads, ApplyRemove(a)
    PROVE  /\ UNCHANGED life
           /\ \/ /\ May("fail") /\ Finishes(a, "remove") /\ UNCHANGED <<rules, records>>
              \/ \E n \in job[a].todo :
                    /\ Moves(a, "remove", "add") /\ Sets(n, NoConn)
                    /\ job'[a].todo = job[a].todo /\ job'[a].mine = job[a].mine
                    /\ job'[a].asked = {n}
<1>1. ASSUME NEW n \in job[a].todo,
             rules' = [rules EXCEPT ![Canon[n]] = NoConn],
             job' = [job EXCEPT ![a] = [@ EXCEPT !.at = "add", !.asked = {n}]]
      PROVE  /\ Moves(a, "remove", "add") /\ Sets(n, NoConn)
             /\ job'[a].todo = job[a].todo /\ job'[a].mine = job[a].mine
             /\ job'[a].asked = {n}
  <2> DEFINE j == [job[a] EXCEPT !.at = "add", !.asked = {n}]
  <2>1. /\ j.at = "add" /\ j.conn = job[a].conn /\ j.spoken = job[a].spoken
        /\ j.todo = job[a].todo /\ j.mine = job[a].mine /\ j.asked = {n}
    BY JobsTyped DEF JobRecord
  <2>2. job'[a] = j
    BY <1>1, JobsTyped
  <2> HIDE DEF j
  <2>3. Others(a)
    BY <1>1, JobsTyped DEF Others
  <2>4. Sets(n, NoConn)
    BY <1>1, JobsTyped DEF Sets, ApplyRemove
  <2> QED BY <2>1, <2>2, <2>3, <2>4 DEF ApplyRemove, Moves
<1>2. ASSUME job' = [job EXCEPT ![a] = Idle] PROVE Finishes(a, "remove")
  BY <1>2, JobsTyped DEF Finishes, Others, ApplyRemove
<1> QED BY <1>1, <1>2 DEF ApplyRemove

(* The rule is added; the next namespace or the record follows.            *)
LEMMA ApplyAddShape ==
    ASSUME NrptInv, NEW a \in Threads, ApplyAdd(a)
    PROVE  /\ UNCHANGED life
           /\ \/ /\ May("fail") /\ Finishes(a, "add") /\ UNCHANGED <<rules, records>>
              \/ \E n \in job[a].asked :
                    /\ Moves(a, "add", IF job[a].todo = {n} THEN "record" ELSE "remove")
                    /\ Sets(n, job[a].conn)
                    /\ job'[a].todo = job[a].todo \ {n} /\ job'[a].mine = job[a].mine
<1>1. ASSUME NEW n \in job[a].asked,
             rules' = [rules EXCEPT ![Canon[n]] = job[a].conn],
             job' = [job EXCEPT ![a] =
                        [@ EXCEPT !.todo = job[a].todo \ {n},
                                  !.at = IF job[a].todo = {n} THEN "record" ELSE "remove"]]
      PROVE  /\ Moves(a, "add", IF job[a].todo = {n} THEN "record" ELSE "remove")
             /\ Sets(n, job[a].conn)
             /\ job'[a].todo = job[a].todo \ {n} /\ job'[a].mine = job[a].mine
  <2> DEFINE s == IF job[a].todo = {n} THEN "record" ELSE "remove"
             left == job[a].todo \ {n}
             j == [job[a] EXCEPT !.todo = left, !.at = s]
  <2>1. job'[a] = j
    BY <1>1, JobsTyped
  <2> HIDE DEF s, left
  <2>2. /\ j.at = s /\ j.conn = job[a].conn /\ j.spoken = job[a].spoken
        /\ j.todo = left /\ j.mine = job[a].mine
    BY JobsTyped DEF JobRecord
  <2> HIDE DEF j
  <2>3. Others(a)
    BY <1>1, JobsTyped DEF Others
  <2>4. Sets(n, job[a].conn)
    BY <1>1, JobsTyped DEF Sets, ApplyAdd
  <2>5. Moves(a, "add", s) /\ job'[a].todo = left /\ job'[a].mine = job[a].mine
    BY <2>1, <2>2, <2>3 DEF ApplyAdd, Moves
  <2> QED BY <2>4, <2>5 DEF s, left
<1>2. ASSUME job' = [job EXCEPT ![a] = Idle] PROVE Finishes(a, "add")
  BY <1>2, JobsTyped DEF Finishes, Others, ApplyAdd
<1> QED BY <1>1, <1>2 DEF ApplyAdd

(* The record is what this apply claimed, if nothing fails.                *)
LEMMA ApplyRecordShape ==
    ASSUME NrptInv, NEW a \in Threads, ApplyRecord(a)
    PROVE  /\ UNCHANGED life
           /\ Finishes(a, "record")
           /\ \E S : /\ Writes(job[a].conn, S)
                     /\ S = records[job[a].conn] \/ S \subseteq job[a].mine
                     /\ Calm => S = job[a].mine
<1>1. job[a].conn \in Conns /\ job[a].mine \in SUBSET Namespaces
  BY JobsTyped DEF ApplyRecord, NrptInv, TypeOK, JobRecord
<1>2. UNCHANGED <<life, rules>> /\ Finishes(a, "record")
  BY JobsTyped DEF ApplyRecord, Finishes, Others
<1>3. WriteRecord(job[a].conn, job[a].mine)
  BY DEF ApplyRecord
<1> QED BY <1>1, <1>2, <1>3, RecordWritten DEF Writes

(* A revert takes over what the record lists.                              *)
LEMMA RevertShape ==
    ASSUME NrptInv, NEW a \in Threads, Revert(a)
    PROVE  /\ job[a].at = "idle" /\ job'[a].at = "unrecord" /\ Others(a)
           /\ UNCHANGED <<life, rules, records, setting>>
           /\ \E c \in Conns : job'[a].conn = c /\ job'[a].todo = records[c]
<1>1. PICK c \in {d \in Conns : records[d] # {}} :
        job' = [job EXCEPT ![a] = [Idle EXCEPT !.at = "unrecord", !.conn = c,
                                               !.todo = records[c]]]
  BY DEF Revert
<1> DEFINE j == [Idle EXCEPT !.at = "unrecord", !.conn = c, !.todo = records[c]]
<1>2. j.at = "unrecord" /\ j.conn = c /\ j.todo = records[c]
  BY DEF Idle
<1> HIDE DEF j
<1>3. job'[a] = j /\ Others(a)
  BY <1>1, JobsTyped DEF j, Others
<1> QED BY <1>2, <1>3 DEF Revert

(* The record goes first, if nothing fails.                                *)
LEMMA UnrecordShape ==
    ASSUME NrptInv, NEW a \in Threads, Unrecord(a)
    PROVE  /\ UNCHANGED life /\ Moves(a, "unrecord", "check")
           /\ job'[a].todo = job[a].todo
           /\ \E S : /\ Writes(job[a].conn, S)
                     /\ S \subseteq records[job[a].conn]
                     /\ Calm => S = {}
<1>1. job[a].conn \in Conns
  BY DEF Unrecord, NrptInv, TypeOK
<1>2. /\ UNCHANGED <<life, rules>> /\ Moves(a, "unrecord", "check")
      /\ job'[a].todo = job[a].todo
  BY JobsTyped DEF Unrecord, Moves, Others, JobRecord
<1>3. WriteRecord(job[a].conn, {})
  BY DEF Unrecord
<1> QED BY <1>1, <1>2, <1>3, RecordWritten DEF Writes

(* NextOf ends the revert or goes on with the rest.                        *)
LEMMA WithoutShape ==
    ASSUME NrptInv, NEW a \in Threads, NEW n, UNCHANGED setting,
           job' = [job EXCEPT ![a] = NextOf(a, job[a].todo \ {n})]
    PROVE  Without(a, job[a].at, n)
<1> DEFINE left == job[a].todo \ {n}
<1>1. left \in SUBSET Namespaces
  BY JobsTyped DEF JobRecord
<1>2. job'[a] = NextOf(a, left) /\ Others(a)
  BY JobsTyped DEF Others
<1>3. left # {} => NextOf(a, left).spoken = job[a].spoken
  BY JobsTyped DEF NextOf, JobRecord
<1>4. (left = {} => NextOf(a, left) = Idle)
  BY DEF NextOf
<1>5. Idle.at = "idle"
  BY DEF Idle
<1> HIDE DEF left
<1>6. left # {} => /\ NextOf(a, left).at = "check" /\ NextOf(a, left).todo = left
                   /\ NextOf(a, left).conn = job[a].conn
  BY JobsTyped DEF NextOf, JobRecord
<1> QED BY <1>2, <1>3, <1>4, <1>6 DEF Without, Finishes, Moves, left

(* A namespace held by another is passed over, or its rule is to go.       *)
LEMMA RevertCheckShape ==
    ASSUME NrptInv, NEW a \in Threads, RevertCheck(a)
    PROVE  /\ UNCHANGED <<life, rules, records>>
           /\ \E n \in job[a].todo :
                 \/ Holders(n) \ {job[a].conn} # {} /\ Without(a, "check", n)
                 \/ /\ Moves(a, "check", "erase")
                    /\ job'[a].todo = job[a].todo /\ job'[a].asked = {n}
<1>1. ASSUME NEW n \in job[a].todo,
             job' = [job EXCEPT ![a] = [@ EXCEPT !.at = "erase", !.asked = {n}]]
      PROVE  /\ Moves(a, "check", "erase")
             /\ job'[a].todo = job[a].todo /\ job'[a].asked = {n}
  BY <1>1, JobsTyped DEF RevertCheck, Moves, Others, JobRecord
<1>2. UNCHANGED <<life, rules, records, setting>> /\ job[a].at = "check"
  BY DEF RevertCheck
<1>3. ASSUME NEW n \in job[a].todo,
             job' = [job EXCEPT ![a] = NextOf(a, job[a].todo \ {n})]
      PROVE  Without(a, "check", n)
  BY <1>2, <1>3, WithoutShape
<1> QED BY <1>1, <1>2, <1>3 DEF RevertCheck

(* The rule is removed, or the revert ends with the rest not done.         *)
LEMMA RevertEraseShape ==
    ASSUME NrptInv, NEW a \in Threads, RevertErase(a)
    PROVE  /\ UNCHANGED life
           /\ \/ /\ May("fail") /\ Finishes(a, "erase") /\ UNCHANGED <<rules, records>>
              \/ \E n \in job[a].asked : Without(a, "erase", n) /\ Sets(n, NoConn)
<1>1. UNCHANGED <<life, records, setting>> /\ job[a].at = "erase"
  BY DEF RevertErase
<1>2. ASSUME NEW n \in job[a].asked,
             rules' = [rules EXCEPT ![Canon[n]] = NoConn],
             job' = [job EXCEPT ![a] = NextOf(a, job[a].todo \ {n})]
      PROVE  Without(a, "erase", n) /\ Sets(n, NoConn)
  BY <1>1, <1>2, JobsTyped, WithoutShape DEF Sets
<1>3. ASSUME job' = [job EXCEPT ![a] = Idle] PROVE Finishes(a, "erase")
  BY <1>1, <1>3, JobsTyped DEF Finishes, Others
<1> QED BY <1>1, <1>2, <1>3 DEF RevertErase

(* revert_all at shutdown: the service thread's steps.                     *)
SweepStep == BeginShutdown \/ SweepOpen \/ SweepRule \/ SweepUnlink

(* The stop of the service only gives records up, and takes rules down     *)
(* only while it sweeps.                                                   *)
LEMMA SweepShape ==
    ASSUME NrptInv, SweepStep
    PROVE  /\ Others(Svc) /\ UNCHANGED setting
           /\ \A c \in Conns : records'[c] \subseteq records[c]
           /\ rules' # rules => job[Svc].at = "sweep"
<1>1. /\ job \in [Actors -> JobRecord] /\ records \in [Conns -> SUBSET Namespaces]
  BY DEF NrptInv, TypeOK
<1>2. Others(Svc) /\ UNCHANGED setting /\ (rules' # rules => job[Svc].at = "sweep")
  BY <1>1 DEF SweepStep, BeginShutdown, SweepOpen, SweepRule, SweepUnlink, Others
<1>3. CASE SweepUnlink
  <2>1. job[Svc].conn \in Conns /\ WriteRecord(job[Svc].conn, {})
    BY <1>3 DEF SweepUnlink, NrptInv, SweepTyped
  <2>2. \A c \in Conns : records'[c] \subseteq records[c]
    BY <1>1, <2>1, RecordWritten
  <2> QED BY <1>2, <2>2
<1>4. CASE records' = records
  BY <1>2, <1>4
<1> QED BY <1>2, <1>3, <1>4 DEF SweepStep, BeginShutdown, SweepOpen, SweepRule

(* An exit, a crash and a start leave the tables alone; no thread lives    *)
(* on.                                                                     *)
LEMMA LifeShape ==
    ASSUME ServiceExit \/ Crash \/ Start
    PROVE  /\ UNCHANGED <<rules, records, setting>>
           /\ job' = job \/ job' = [a \in Actors |-> Idle]
BY DEF ServiceExit, Crash, Start, Gone

-----------------------------------------------------------------------------
(* Rules of others are spared.                                             *)

(* What a revert is about to take down is nobody else's: the namespaces    *)
(* came from a record, and with requests one at a time nobody records them *)
(* meanwhile.                                                              *)
RevertsPending ==
    \A t \in Threads : job[t].at \in Reverting =>
        \A d \in Conns : d # job[t].conn => job[t].todo \cap records[d] = {}
SerialInv == Serial => RevertsPending

(* No revert is under way at first.                                        *)
LEMMA InitSerialInv == Init => SerialInv
BY DEF Init, SerialInv, RevertsPending, Idle, Reverting, Actors

(* One crew member: the revert's own steps, and no apply beside it.        *)
LEMMA HandlerKeepsReverts ==
    ASSUME NrptInv, Serial, CrewOnly, Exclusive, RevertsPending,
           NEW a \in Threads, setting.crew = {a}, Handler(a)
    PROVE  RevertsPending'
<1> USE DEF RevertsPending, Reverting
<1>0. \A t \in Threads : t # a => job[t].at = "idle"
  BY DEF CrewOnly
<1>1. ASSUME Others(a), job'[a].at \notin Reverting PROVE RevertsPending'
  BY <1>0, <1>1 DEF Others, Actors
<1>2. CASE Apply(a) \/ ApplyAsk(a) \/ ApplyClaim(a) \/ ApplyRemove(a) \/ ApplyAdd(a)
           \/ ApplyRecord(a)
  <2>1. Idle.at = "idle"
    BY DEF Idle
  <2> QED BY <1>1, <1>2, <2>1, ApplyShape, ApplyAskShape, ApplyClaimShape, ApplyRemoveShape,
             ApplyAddShape, ApplyRecordShape DEF Moves, Finishes
<1>3. CASE Revert(a)
  BY <1>0, <1>3, RevertShape DEF Others, Actors, Exclusive
<1>4. CASE Unrecord(a)
  BY <1>0, <1>4, UnrecordShape DEF Others, Actors, Moves, Writes
<1>5. CASE RevertCheck(a) \/ RevertErase(a)
  <2>1. records' = records /\ Others(a)
    BY <1>5, RevertCheckShape, RevertEraseShape DEF Without, Finishes, Moves, Sets
  <2>2. \/ job'[a].at = "idle"
        \/ job'[a].conn = job[a].conn /\ job'[a].todo \subseteq job[a].todo
    BY <1>5, RevertCheckShape, RevertEraseShape DEF Without, Finishes, Moves, Idle
  <2>3. job[a].at \in Reverting
    BY <1>5 DEF RevertCheck, RevertErase
  <2> QED BY <1>0, <2>1, <2>2, <2>3 DEF Others, Actors
<1> QED BY <1>2, <1>3, <1>4, <1>5 DEF Handler

(* The service thread only gives records up, so the namespaces stay free.  *)
LEMMA ServiceKeepsReverts ==
    ASSUME NrptInv, RevertsPending, SweepStep \/ ServiceExit \/ Crash \/ Start
    PROVE  RevertsPending'
<1> USE DEF RevertsPending
<1>1. CASE SweepStep
  <2>1. \A t \in Threads : job'[t] = job[t]
    BY <1>1, SweepShape, NrptAssumption DEF Others, Actors
  <2> QED BY <1>1, <2>1, SweepShape
<1>2. CASE job' = job /\ records' = records
  BY <1>2
<1>3. CASE job' = [b \in Actors |-> Idle]
  BY <1>3 DEF Idle, Reverting, Actors
<1> QED BY <1>1, <1>2, <1>3, LifeShape

(* Every step keeps a revert's namespaces its own.                         *)
LEMMA NextKeepsSerialInv ==
    ASSUME IsFiniteSet(Threads), NrptInv, ClaimInv, SerialInv, [Next]_vars
    PROVE  SerialInv'
<1> SUFFICES ASSUME Serial' PROVE RevertsPending'
  BY DEF SerialInv
<1>1. Serial /\ CrewOnly /\ Exclusive /\ RevertsPending
  BY SettingStays DEF Serial, ClaimInv, SerialInv
<1>2. PICK t \in Threads : setting.crew = {t}
  BY <1>1, OneThread
<1>3. CASE UNCHANGED vars
  BY <1>1, <1>3 DEF vars, RevertsPending
<1> QED BY <1>1, <1>2, <1>3, HandlerKeepsReverts, ServiceKeepsReverts
        DEF Next, SweepStep

(* A handler that changes a rule recorded to a connection is handling that *)
(* connection: an apply claimed what was free (ClaimsPending), a revert    *)
(* takes down its own (RevertsPending).                                    *)
LEMMA HandlerWritesItsOwn ==
    ASSUME NrptInv, ClaimsPending, RevertsPending,
           \A m, n \in Namespaces : Canon[m] = Canon[n] => m = n,
           NEW a \in Threads, Handler(a),
           NEW c \in Conns, NEW k \in RulesOf(records[c]), rules[k] = c, rules'[k] # c
    PROVE  job[a].conn = c /\ job'[a] # job[a]
<1>1. PICK m \in records[c] : k = Canon[m]
  BY DEF RulesOf
<1>2. m \in Namespaces /\ k \in Rules /\ job[a].todo \subseteq Namespaces
  BY <1>1, JobsTyped DEF Rules, JobRecord
<1>3. ASSUME NEW n \in job[a].todo, NEW x, Sets(n, x)
      PROVE  n = m
  BY <1>1, <1>2, <1>3 DEF Sets
<1>4. CASE ApplyRemove(a)
  <2>1. PICK n \in job[a].todo : Moves(a, "remove", "add") /\ Sets(n, NoConn)
    BY <1>4, ApplyRemoveShape
  <2>2. m \in job[a].mine
    BY <2>1, <1>3 DEF Moves, NrptInv, TypeOK
  <2> QED BY <1>1, <2>1, <2>2 DEF Moves, ClaimsPending
<1>5. CASE ApplyAdd(a)
  <2>1. PICK n \in job[a].asked :
            /\ Moves(a, "add", IF job[a].todo = {n} THEN "record" ELSE "remove")
            /\ Sets(n, job[a].conn)
    BY <1>5, ApplyAddShape
  <2>2. m \in job[a].mine
    BY <2>1, <1>3 DEF Moves, NrptInv, TypeOK
  <2> QED BY <1>1, <2>1, <2>2 DEF Moves, ClaimsPending
<1>6. CASE RevertErase(a)
  <2>1. PICK n \in job[a].asked : Without(a, "erase", n) /\ Sets(n, NoConn)
    BY <1>6, RevertEraseShape
  <2>2. m \in job[a].todo /\ job[a].at = "erase"
    BY <1>6, <2>1, <1>3 DEF RevertErase, NrptInv, TypeOK
  <2> QED BY <1>1, <2>1, <2>2 DEF Without, Moves, Finishes, RevertsPending, Reverting, Idle
<1> QED BY <1>4, <1>5, <1>6
        DEF Handler, Apply, ApplyAsk, ApplyClaim, ApplyRecord, Revert, Unrecord, RevertCheck

(* OthersRulesStand: a rule recorded to a connection is taken down or      *)
(* handed to another only by that connection's requests or by the stop of  *)
(* the service, whatever fails, stops or crashes, while requests do not    *)
(* overlap and no two namespaces differ by case only.                      *)
THEOREM OthersRulesAreSpared ==
    ASSUME IsFiniteSet(Threads),
           \A m, n \in Namespaces : Canon[m] = Canon[n] => m = n
    PROVE  Spec => OthersRulesStand
<1> DEFINE Own ==
      Serial => \A c \in Conns : \A k \in RulesOf(records[c]) :
          rules[k] = c /\ rules'[k] # c =>
             \/ job[Svc].at = "sweep"
             \/ \E t \in Threads : job[t].conn = c /\ job'[t] # job[t]
<1>1. ASSUME NrptInv, ClaimInv, [Next]_vars PROVE ClaimInv'
  BY <1>1, NextKeepsClaimInv
<1>2. ASSUME NrptInv, ClaimInv, SerialInv, [Next]_vars PROVE SerialInv'
  BY <1>2, NextKeepsSerialInv
<1>3. ASSUME NrptInv, ClaimInv, SerialInv, Next PROVE Own
  <2> SUFFICES ASSUME Serial, NEW c \in Conns, NEW k \in RulesOf(records[c]),
                      rules[k] = c, rules'[k] # c, job[Svc].at # "sweep"
               PROVE  \E t \in Threads : job[t].conn = c /\ job'[t] # job[t]
    OBVIOUS
  <2>1. PICK a \in setting.crew : Handler(a)
    BY <1>3, SweepShape, LifeShape DEF Next, SweepStep
  <2>2. a \in Threads
    BY <1>3, NrptAssumption DEF NrptInv, TypeOK, IsSetting
  <2>3. ClaimsPending /\ RevertsPending
    BY <1>3 DEF ClaimInv, SerialInv
  <2> QED BY <1>3, <2>1, <2>2, <2>3, HandlerWritesItsOwn
<1>4. ASSUME NrptInv, ClaimInv, SerialInv, [Next]_vars PROVE [Own]_vars
  BY <1>3, <1>4
<1> QED BY <1>1, <1>2, <1>4, InitClaimInv, InitSerialInv, ThreadsCarry, PTL
        DEF Spec, OthersRulesStand

-----------------------------------------------------------------------------
(* A claim nobody else may make is one that works.                         *)

(* Every rule recorded to the connection names its servers.                *)
Standing(c) == \A n \in records[c] : rules[Canon[n]] = c

(* What makes the standing of recorded rules inductive: a connection that  *)
(* is being applied or reverted may be half way, but what its thread has   *)
(* done so far stands (remove, add, record), and a record is gone before   *)
(* its first rule is (check, erase).                                       *)
Stands ==
    /\ life = "up"
    /\ \A c \in Conns :
          (\A t \in Threads : job[t].at # "idle" => job[t].conn # c) => Standing(c)
    /\ \A t \in Threads :
          /\ job[t].at \in {"ask", "claim"} => Standing(job[t].conn)
          /\ job[t].at \in {"remove", "add", "record"} =>
                \A n \in job[t].mine \ job[t].todo : rules[Canon[n]] = job[t].conn
          /\ job[t].at \in {"check", "erase"} => records[job[t].conn] = {}
StandInv == Serial /\ Calm => Stands

(* Nothing is recorded at first.                                           *)
LEMMA InitStandInv == Init => StandInv
BY DEF Init, StandInv, Stands, Standing, Idle, Actors

(* An apply takes down and adds rules nobody else has recorded; it records *)
(* them when all of them stand; a revert unrecords before it takes down.   *)
LEMMA HandlerKeepsStands ==
    ASSUME NrptInv, Serial, Calm, CrewOnly, Exclusive, ClaimsPending, RevertsPending, Stands,
           \A m, n \in Namespaces : Canon[m] = Canon[n] => m = n,
           NEW a \in Threads, setting.crew = {a}, Handler(a)
    PROVE  Stands'
<1> USE DEF Standing
<1>0. /\ \A t \in Threads : t # a => job[t].at = "idle"
      /\ ~May("fail") /\ Idle.at = "idle"
      /\ records \in [Conns -> SUBSET Namespaces]
      /\ job[a].todo \subseteq Namespaces /\ job[a].mine \subseteq Namespaces
      /\ \A n \in Namespaces : Canon[n] \in Rules
      /\ job[a].at # "idle" => job[a].conn \in Conns
  BY JobsTyped DEF CrewOnly, Calm, May, Idle, JobRecord, Rules
<1>1. ASSUME NEW c \in Conns, job[a].at = "idle" \/ job[a].conn # c
      PROVE  Standing(c)
  BY <1>0, <1>1 DEF Stands
<1>2. ASSUME UNCHANGED life, Others(a),
             \A c \in Conns : job'[a].at = "idle" \/ job'[a].conn # c => Standing(c)',
             job'[a].at \in {"ask", "claim"} => Standing(job[a].conn)',
             job'[a].at \in {"remove", "add", "record"} =>
                \A n \in job'[a].mine \ job'[a].todo : rules'[Canon[n]] = job'[a].conn,
             job'[a].at \in {"check", "erase"} => records'[job'[a].conn] = {}
      PROVE  Stands'
  BY <1>0, <1>2 DEF Stands, Others, Actors
<1>3. CASE Apply(a)
  <2>1. PICK ask \in setting.asks : job'[a].conn = ask.conn /\ ask.conn \in Conns
    BY <1>3, ApplyShape, NrptAssumption DEF NrptInv, TypeOK, IsSetting, Ask
  <2>2. job[a].at = "idle" /\ job'[a].at = "ask" /\ UNCHANGED <<life, rules, records>> /\ Others(a)
    BY <1>3, ApplyShape
  <2> QED BY <1>1, <1>2, <2>1, <2>2
<1>4. CASE ApplyAsk(a)
  <2>1. Moves(a, "ask", "claim") /\ UNCHANGED <<life, rules, records>>
    BY <1>4, ApplyAskShape
  <2>2. Standing(job[a].conn)
    BY <2>1 DEF Moves, Stands
  <2> QED BY <1>1, <1>2, <2>1, <2>2 DEF Moves
<1>5. CASE ApplyClaim(a)
  <2>1. /\ UNCHANGED <<life, rules, records>> /\ job[a].at = "claim"
        /\ Finishes(a, "claim") \/ (Moves(a, "claim", "remove") /\ job'[a].todo = job'[a].mine)
    BY <1>5, ApplyClaimShape DEF Moves, Finishes
  <2>2. Standing(job[a].conn)
    BY <2>1 DEF Stands
  <2> QED BY <1>0, <1>1, <1>2, <2>1, <2>2 DEF Moves, Finishes
<1>6. ASSUME ApplyRemove(a) \/ ApplyAdd(a),
             NEW n \in job[a].todo, NEW x, Sets(n, x)
      PROVE  /\ \A c \in Conns : c # job[a].conn => Standing(c)'
             /\ \A m \in job[a].mine : m # n => rules'[Canon[m]] = rules[Canon[m]]
  <2>1. n \in job[a].mine /\ n \in Namespaces /\ job[a].at \in {"remove", "add"}
    BY <1>0, <1>6 DEF ApplyRemove, ApplyAdd, NrptInv, TypeOK
  <2>2. \A m \in Namespaces : m # n => rules'[Canon[m]] = rules[Canon[m]]
    BY <1>0, <1>6, <2>1 DEF Sets
  <2>3. \A c \in Conns : c # job[a].conn => n \notin records[c]
    BY <2>1 DEF ClaimsPending
  <2> QED BY <1>0, <1>1, <1>6, <2>2, <2>3 DEF Sets
<1>7. CASE ApplyRemove(a)
  <2>1. PICK n \in job[a].todo :
          /\ Moves(a, "remove", "add") /\ Sets(n, NoConn)
          /\ job'[a].todo = job[a].todo /\ job'[a].mine = job[a].mine
    BY <1>0, <1>7, ApplyRemoveShape
  <2>2. UNCHANGED life
    BY <1>7, ApplyRemoveShape
  <2>3. \A m \in job[a].mine \ job[a].todo : rules[Canon[m]] = job[a].conn
    BY <2>1 DEF Moves, Stands
  <2>4. \A m \in job'[a].mine \ job'[a].todo : rules'[Canon[m]] = job'[a].conn
    BY <1>6, <1>7, <2>1, <2>3 DEF Moves
  <2>5. \A c \in Conns : c # job[a].conn => Standing(c)'
    BY <1>6, <1>7, <2>1
  <2> QED BY <1>2, <2>1, <2>2, <2>4, <2>5 DEF Moves
<1>8. CASE ApplyAdd(a)
  <2>1. PICK n \in job[a].asked :
          /\ Moves(a, "add", IF job[a].todo = {n} THEN "record" ELSE "remove")
          /\ Sets(n, job[a].conn)
          /\ job'[a].todo = job[a].todo \ {n} /\ job'[a].mine = job[a].mine
    BY <1>0, <1>8, ApplyAddShape
  <2>2. UNCHANGED life
    BY <1>8, ApplyAddShape
  <2>3. n \in job[a].todo /\ job[a].at = "add"
    BY <2>1 DEF Moves, NrptInv, TypeOK
  <2>4. \A m \in job[a].mine \ job[a].todo : rules[Canon[m]] = job[a].conn
    BY <2>3 DEF Stands
  <2>5. rules'[Canon[n]] = job[a].conn
    BY <1>0, <2>1, <2>3 DEF Sets
  <2>6. \A m \in job'[a].mine \ job'[a].todo : rules'[Canon[m]] = job'[a].conn
    BY <1>6, <1>8, <2>1, <2>3, <2>4, <2>5 DEF Moves
  <2>7. \A c \in Conns : c # job[a].conn => Standing(c)'
    BY <1>6, <1>8, <2>1, <2>3
  <2>8. job'[a].at \in {"record", "remove"} /\ Others(a) /\ job'[a].conn = job[a].conn
    BY <2>1 DEF Moves
  <2> QED BY <1>2, <2>2, <2>6, <2>7, <2>8
<1>9. CASE ApplyRecord(a)
  <2>1. UNCHANGED life /\ Finishes(a, "record") /\ Writes(job[a].conn, job[a].mine)
    BY <1>9, <1>0, ApplyRecordShape
  <2>2. job[a].todo = {} /\ job[a].conn \in Conns
    BY <1>0, <2>1 DEF Finishes, NrptInv, TypeOK
  <2>3. \A n \in job[a].mine : rules[Canon[n]] = job[a].conn
    BY <2>1, <2>2 DEF Finishes, Stands
  <2> QED BY <1>0, <1>1, <1>2, <2>1, <2>2, <2>3 DEF Finishes, Writes
<1>10. CASE Revert(a)
  <2>1. job[a].at = "idle" /\ job'[a].at = "unrecord" /\ UNCHANGED <<life, rules, records>> /\ Others(a)
    BY <1>10, RevertShape
  <2> QED BY <1>1, <1>2, <2>1
<1>11. CASE Unrecord(a)
  <2>1. UNCHANGED life /\ Moves(a, "unrecord", "check") /\ Writes(job[a].conn, {})
    BY <1>11, <1>0, UnrecordShape
  <2> QED BY <1>0, <1>1, <1>2, <2>1 DEF Moves, Writes
<1>12. CASE RevertCheck(a)
  <2>1. /\ UNCHANGED <<life, rules, records>> /\ job[a].at = "check"
        /\ \/ Finishes(a, "check")
           \/ \E to \in {"check", "erase"} : Moves(a, "check", to)
    BY <1>12, RevertCheckShape DEF Without, Finishes, Moves
  <2>2. records[job[a].conn] = {}
    BY <2>1 DEF Stands
  <2> QED BY <1>0, <1>1, <1>2, <2>1, <2>2 DEF Moves, Finishes
<1>13. CASE RevertErase(a)
  <2>1. PICK n \in job[a].asked : Without(a, "erase", n) /\ Sets(n, NoConn)
    BY <1>0, <1>13, RevertEraseShape
  <2>2. UNCHANGED life
    BY <1>13, RevertEraseShape
  <2>3. job[a].at = "erase" /\ n \in job[a].todo /\ n \in Namespaces
    BY <1>0, <1>13, <2>1 DEF RevertErase, NrptInv, TypeOK
  <2>4. records[job[a].conn] = {} /\ UNCHANGED records
    BY <2>1, <2>3 DEF Stands, Sets
  <2>5. \A c \in Conns : c # job[a].conn => n \notin records[c]
    BY <2>3 DEF RevertsPending, Reverting
  <2>6. \A m \in Namespaces : m # n => rules'[Canon[m]] = rules[Canon[m]]
    BY <1>0, <2>1, <2>3 DEF Sets
  <2>7. \A c \in Conns : Standing(c)'
    BY <1>0, <1>1, <2>4, <2>5, <2>6
  <2> QED BY <1>0, <1>2, <2>1, <2>2, <2>4, <2>7 DEF Without, Moves, Finishes
<1> QED BY <1>3, <1>4, <1>5, <1>7, <1>8, <1>9, <1>10, <1>11, <1>12, <1>13 DEF Handler

(* When no stop and no crash may come, the service thread does nothing.    *)
LEMMA CalmService ==
    ASSUME NrptInv, Calm, life = "up"
    PROVE  ~(SweepStep \/ ServiceExit \/ Crash \/ Start)
BY DEF NrptInv, TypeOK, Calm, May, SweepStep, BeginShutdown, SweepOpen, SweepRule,
       SweepUnlink, ServiceExit, Crash, Start

(* Every step keeps the recorded rules standing.                           *)
LEMMA NextKeepsStandInv ==
    ASSUME IsFiniteSet(Threads), NrptInv, ClaimInv, SerialInv, StandInv,
           \A m, n \in Namespaces : Canon[m] = Canon[n] => m = n, [Next]_vars
    PROVE  StandInv'
<1> SUFFICES ASSUME Serial', Calm' PROVE Stands'
  BY DEF StandInv
<1>1. /\ Serial /\ Calm /\ CrewOnly /\ Exclusive /\ ClaimsPending /\ RevertsPending
      /\ Stands
  BY SettingStays DEF Serial, Calm, ClaimInv, SerialInv, StandInv
<1>2. PICK t \in Threads : setting.crew = {t}
  BY <1>1, OneThread
<1>3. CASE UNCHANGED vars
  BY <1>1, <1>3 DEF vars, Stands, Standing
<1>4. ~(SweepStep \/ ServiceExit \/ Crash \/ Start)
  BY <1>1, CalmService DEF Stands
<1> QED BY <1>1, <1>2, <1>3, <1>4, HandlerKeepsStands DEF Next, SweepStep

(* RecordedRulesStand: outside a connection's own requests, each namespace *)
(* recorded to it has its rule, with its servers, as long as nothing       *)
(* fails, requests do not overlap and no two namespaces differ by case     *)
(* only.                                                                   *)
THEOREM RecordedRulesAreInForce ==
    ASSUME IsFiniteSet(Threads),
           \A m, n \in Namespaces : Canon[m] = Canon[n] => m = n
    PROVE  Spec => []RecordedRulesStand
<1>1. ASSUME NrptInv, ClaimInv, [Next]_vars PROVE ClaimInv'
  BY <1>1, NextKeepsClaimInv
<1>2. ASSUME NrptInv, ClaimInv, SerialInv, [Next]_vars PROVE SerialInv'
  BY <1>2, NextKeepsSerialInv
<1>3. ASSUME NrptInv, ClaimInv, SerialInv, StandInv, [Next]_vars PROVE StandInv'
  BY <1>3, NextKeepsStandInv
<1>4. StandInv => RecordedRulesStand
  BY DEF StandInv, Stands, Standing, RecordedRulesStand
<1> QED BY <1>1, <1>2, <1>3, <1>4, InitClaimInv, InitSerialInv, InitStandInv,
           ThreadsCarry, PTL DEF Spec

-----------------------------------------------------------------------------
(* Every rule is in a record or in a request's hands.                      *)

(* The namespace a connection's requests ask for.                          *)
Wants(c, n) == \E r \in setting.asks : r.conn = c /\ r.wanted = n

(* A thread has a rule of the connection in its hands: an apply that will  *)
(* record it, a revert that will take it down.                             *)
Bears(t, c, k) ==
    /\ job[t].conn = c
    /\ \/ job[t].at \in {"remove", "add", "record"} /\ k \in RulesOf(job[t].mine)
       \/ job[t].at \in Reverting /\ k \in RulesOf(job[t].todo)

(* A rule is listed in the record, or some request has it in its hands.    *)
Accounts(c, k) == k \in RulesOf(records[c]) \/ \E t \in Threads : Bears(t, c, k)

(* What a job may carry when every connection always asks for one          *)
(* namespace of its own: that one, and never the reverse zones.            *)
AsksItsOwn(j) ==
    /\ j.at \in Applying => j.spoken = {}
    /\ j.at \in {"ask", "claim"} => \E n : j.asked = {n} /\ Wants(j.conn, n)
    /\ j.at \in {"remove", "add", "record"} => \E n : j.mine = {n} /\ Wants(j.conn, n)
    /\ j.at \in Reverting => \A n \in j.todo : Wants(j.conn, n)

(* The inductive invariant of Accounted: no record and no request ever     *)
(* names anything but its connection's own namespace, so that a record     *)
(* that is overwritten loses nothing.                                      *)
Steadily ==
    /\ life = "up"
    /\ \A c \in Conns : \A n \in records[c] : Wants(c, n)
    /\ \A t \in Threads : AsksItsOwn(job[t])
    /\ \A c \in Conns, k \in Rules : rules[k] = c => Accounts(c, k)
SteadyInv == Steady /\ Calm => Steadily

(* There is no rule to account for at first.                               *)
LEMMA InitSteadyInv == Init => SteadyInv
<1> SUFFICES ASSUME Init PROVE SteadyInv
  OBVIOUS
<1>1. \A c \in Conns, k \in Rules : rules[k] # c
  BY NrptAssumption DEF Init
<1> QED BY <1>1
        DEF Init, SteadyInv, Steadily, AsksItsOwn, Idle, Applying, Reverting, Actors

(* A step of one handler that takes nothing out of the account, the other  *)
(* threads keeping what they bear.                                         *)
LEMMA StillAccounted ==
    ASSUME NrptInv, Steadily, NEW a \in Threads, Others(a), UNCHANGED <<life, setting>>,
           AsksItsOwn(job'[a]),
           \A c \in Conns : \A n \in records'[c] : Wants(c, n),
           \A c \in Conns, k \in Rules :
               rules'[k] = c => \/ rules[k] = c
                                \/ Bears(a, c, k)',
           \A c \in Conns, k \in Rules :
               rules'[k] = c /\ (k \in RulesOf(records[c]) \/ Bears(a, c, k)) =>
                   k \in RulesOf(records'[c]) \/ Bears(a, c, k)'
    PROVE  Steadily'
<1>1. \A c, n : Wants(c, n)' <=> Wants(c, n)
  BY DEF Wants
<1>2. \A t \in Threads : t # a => job'[t] = job[t]
  BY DEF Others, Actors
<1>3. \A t \in Threads : AsksItsOwn(job[t])'
  BY <1>1, <1>2 DEF Steadily, AsksItsOwn
<1>4. \A t \in Threads, c \in Conns, k \in Rules : t # a /\ Bears(t, c, k) => Bears(t, c, k)'
  BY <1>2 DEF Bears
<1>5. \A c \in Conns, k \in Rules : rules'[k] = c => Accounts(c, k)'
  BY <1>4 DEF Steadily, Accounts
<1> QED BY <1>1, <1>3, <1>5 DEF Steadily

(* Each handler step, with any number of others at any place, also of the  *)
(* same connection: a rule is taken down before it leaves a thread's       *)
(* hands, and an apply's claim is always granted because nobody else can   *)
(* hold it.                                                                *)
LEMMA HandlerKeepsSteadily ==
    ASSUME NrptInv, Steady, Calm, Steadily, NEW a \in Threads, Handler(a)
    PROVE  Steadily'
<1> USE DEF AsksItsOwn, Applying, Reverting
<1>0. /\ ~May("fail") /\ Idle.at = "idle" /\ AsksItsOwn(job[a])
      /\ records \in [Conns -> SUBSET Namespaces]
      /\ job[a].todo \subseteq Namespaces /\ job[a].mine \subseteq Namespaces
      /\ \A n \in Namespaces : Canon[n] \in Rules
      /\ job[a].at # "idle" => job[a].conn \in Conns
  BY JobsTyped DEF Calm, May, Idle, JobRecord, Rules, Steadily
<1>1. \A c, d \in Conns : \A m, n :
         /\ Wants(c, m) /\ Wants(c, n) => m = n
         /\ Wants(c, n) /\ Wants(d, n) => c = d
  BY DEF Wants, Steady
<1>2. \A c \in Conns : \A n : Wants(c, n) => Holders(n) \subseteq {c}
  BY <1>1 DEF Holders, Steadily
<1>3. \A c, n : Wants(c, n) /\ n \in Namespaces => Canon[n] \in RulesOf({n})
  BY DEF RulesOf
<1>4. ASSUME UNCHANGED <<life, rules, records, setting>>, Others(a), AsksItsOwn(job'[a]),
             \A c \in Conns, k \in Rules : Bears(a, c, k) => Bears(a, c, k)'
      PROVE  Steadily'
  BY <1>4, StillAccounted DEF Steadily
<1>5. CASE Apply(a)
  <2>1. /\ job[a].at = "idle" /\ job'[a].at = "ask" /\ Others(a)
        /\ UNCHANGED <<life, rules, records, setting>>
    BY <1>5, ApplyShape
  <2>2. PICK ask \in setting.asks, spoken \in setting.claims :
                 /\ job'[a].conn = ask.conn /\ job'[a].spoken = spoken
                 /\ job'[a].asked = {ask.wanted}
    BY <1>5, ApplyShape
  <2>3. spoken = {} /\ Wants(ask.conn, ask.wanted)
    BY DEF Steady, Wants
  <2>4. AsksItsOwn(job'[a])
    BY <2>1, <2>2, <2>3
  <2>5. \A c \in Conns, k \in Rules : ~Bears(a, c, k)
    BY <2>1 DEF Bears
  <2> QED BY <1>4, <2>1, <2>4, <2>5
<1>6. CASE ApplyAsk(a)
  <2>1. /\ Moves(a, "ask", "claim") /\ UNCHANGED <<life, rules, records, setting>>
        /\ job'[a].asked = IF job[a].asked = {CatchAll} /\ ~Free(a, CatchAll)
                           THEN job[a].mine ELSE job[a].asked
    BY <1>6, ApplyAskShape DEF Moves
  <2>2. PICK n : job[a].asked = {n} /\ Wants(job[a].conn, n)
    BY <1>0, <2>1 DEF Moves
  <2>3. Free(a, n)
    BY <1>0, <1>2, <2>1, <2>2 DEF Moves, Free
  <2>4. job'[a].asked = {n}
    BY <2>1, <2>2, <2>3
  <2>5. AsksItsOwn(job'[a])
    BY <1>0, <2>1, <2>2, <2>4 DEF Moves
  <2>6. \A c \in Conns, k \in Rules : ~Bears(a, c, k)
    BY <2>1 DEF Bears, Moves
  <2> QED BY <1>4, <2>1, <2>5, <2>6 DEF Moves
<1>7. CASE ApplyClaim(a)
  <2> DEFINE mine == {n \in job[a].asked : Free(a, n)}
  <2>1. /\ UNCHANGED <<life, rules, records, setting>> /\ job[a].at = "claim"
        /\ \/ mine = {} /\ Finishes(a, "claim")
           \/ /\ mine # {} /\ Moves(a, "claim", "remove")
              /\ job'[a].todo = mine /\ job'[a].mine = mine
    BY <1>7, ApplyClaimShape DEF Moves, Finishes
  <2>2. PICK n : job[a].asked = {n} /\ Wants(job[a].conn, n)
    BY <1>0, <2>1
  <2>3. Free(a, n)
    BY <1>0, <1>2, <2>1, <2>2 DEF Free
  <2>4. mine = {n}
    BY <2>2, <2>3
  <2> HIDE DEF mine
  <2>5. AsksItsOwn(job'[a])
    BY <1>0, <2>1, <2>2, <2>4 DEF Moves
  <2>6. \A c \in Conns, k \in Rules : ~Bears(a, c, k)
    BY <2>1 DEF Bears
  <2> QED BY <1>4, <2>1, <2>4, <2>5, <2>6 DEF Moves
<1>8. CASE ApplyRemove(a)
  <2>1. PICK n \in job[a].todo :
          /\ Moves(a, "remove", "add") /\ Sets(n, NoConn)
          /\ job'[a].todo = job[a].todo /\ job'[a].mine = job[a].mine
    BY <1>0, <1>8, ApplyRemoveShape
  <2>2. UNCHANGED <<life, setting, records>> /\ Others(a)
    BY <1>8, <2>1, ApplyRemoveShape DEF Moves, Sets
  <2>3. AsksItsOwn(job'[a])
    BY <1>0, <2>1 DEF Moves
  <2>4. \A c \in Conns, k \in Rules : rules'[k] = c => rules[k] = c
    BY <2>1, NrptAssumption DEF Sets
  <2>5. \A c \in Conns, k \in Rules : Bears(a, c, k) => Bears(a, c, k)'
    BY <2>1 DEF Moves, Bears
  <2> QED BY <2>2, <2>3, <2>4, <2>5, StillAccounted DEF Steadily
<1>9. CASE ApplyAdd(a)
  <2>1. PICK n \in job[a].asked :
          /\ Moves(a, "add", IF job[a].todo = {n} THEN "record" ELSE "remove")
          /\ Sets(n, job[a].conn)
          /\ job'[a].todo = job[a].todo \ {n} /\ job'[a].mine = job[a].mine
    BY <1>0, <1>9, ApplyAddShape
  <2>2. UNCHANGED <<life, setting, records>> /\ Others(a)
    BY <1>9, <2>1, ApplyAddShape DEF Moves, Sets
  <2>3. n \in job[a].mine /\ job[a].at = "add" /\ job'[a].at \in {"record", "remove"}
        /\ job'[a].conn = job[a].conn
    BY <2>1 DEF Moves, NrptInv, TypeOK
  <2>4. AsksItsOwn(job'[a])
    BY <1>0, <2>1, <2>3 DEF Moves
  <2>5. Bears(a, job[a].conn, Canon[n])'
    BY <2>1, <2>3 DEF Bears, RulesOf
  <2>6. \A c \in Conns, k \in Rules : rules'[k] = c => rules[k] = c \/ Bears(a, c, k)'
    BY <2>1, <2>3, <2>5 DEF Sets
  <2>7. \A c \in Conns, k \in Rules : Bears(a, c, k) => Bears(a, c, k)'
    BY <2>1, <2>3 DEF Bears
  <2> QED BY <2>2, <2>4, <2>6, <2>7, StillAccounted DEF Steadily
<1>10. CASE ApplyRecord(a)
  <2>1. UNCHANGED life /\ Finishes(a, "record") /\ Writes(job[a].conn, job[a].mine)
    BY <1>10, ApplyRecordShape
  <2>2. PICK n : job[a].mine = {n} /\ Wants(job[a].conn, n)
    BY <1>0, <2>1 DEF Finishes
  <2>3. job[a].conn \in Conns /\ job[a].at = "record"
    BY <1>0, <2>1 DEF Finishes
  <2>4. \A c \in Conns : \A m \in records'[c] : Wants(c, m)
    BY <2>1, <2>2 DEF Writes, Steadily
  <2>5. \A c \in Conns, k \in Rules :
           k \in RulesOf(records[c]) \/ Bears(a, c, k) => k \in RulesOf(records'[c])
    <3>1. records[job[a].conn] \subseteq {n}
      BY <1>1, <2>2, <2>3 DEF Steadily
    <3> QED BY <2>1, <2>2, <2>3, <3>1 DEF Writes, Bears, RulesOf
  <2> QED BY <1>0, <2>1, <2>4, <2>5, StillAccounted DEF Finishes, Writes
<1>11. CASE Revert(a)
  <2>1. PICK c \in Conns : job'[a].conn = c /\ job'[a].todo = records[c]
    BY <1>11, RevertShape
  <2>2. /\ job[a].at = "idle" /\ job'[a].at = "unrecord"
        /\ UNCHANGED <<life, rules, records, setting>> /\ Others(a)
    BY <1>11, RevertShape
  <2>3. AsksItsOwn(job'[a])
    BY <2>1, <2>2 DEF Steadily
  <2>4. \A d \in Conns, k \in Rules : ~Bears(a, d, k)
    BY <2>2 DEF Bears
  <2> QED BY <1>4, <2>2, <2>3, <2>4
<1>12. CASE Unrecord(a)
  <2>1. /\ UNCHANGED life /\ Moves(a, "unrecord", "check") /\ Writes(job[a].conn, {})
        /\ job'[a].todo = job[a].todo
    BY <1>12, UnrecordShape
  <2>2. AsksItsOwn(job'[a])
    BY <1>0, <2>1 DEF Moves
  <2>3. \A c \in Conns, k \in Rules : Bears(a, c, k) => Bears(a, c, k)'
    BY <2>1 DEF Moves, Bears
  <2>4. \A c \in Conns : \A m \in records'[c] : Wants(c, m)
    BY <2>1 DEF Writes, Steadily
  <2>5. job[a].todo # {} /\ job[a].conn \in Conns
    BY <1>0, <2>1 DEF Moves, NrptInv, TypeOK
  <2>6. \A k \in RulesOf(records[job[a].conn]) : Bears(a, job[a].conn, k)'
    <3>1. PICK n \in job[a].todo : Wants(job[a].conn, n)
      BY <1>0, <2>1, <2>5 DEF Moves
    <3>2. records[job[a].conn] \subseteq {n}
      BY <1>1, <2>5, <3>1 DEF Steadily
    <3> QED BY <2>1, <3>1, <3>2 DEF Moves, Bears, RulesOf
  <2> QED BY <2>1, <2>2, <2>3, <2>4, <2>5, <2>6, StillAccounted DEF Moves, Writes
<1>13. CASE RevertCheck(a)
  <2>1. UNCHANGED <<life, rules, records>> /\ job[a].at = "check"
    BY <1>13 DEF RevertCheck
  <2>2. PICK n \in job[a].todo :
                 \/ Holders(n) \ {job[a].conn} # {} /\ Without(a, "check", n)
                 \/ /\ Moves(a, "check", "erase")
                    /\ job'[a].todo = job[a].todo /\ job'[a].asked = {n}
    BY <1>13, RevertCheckShape
  <2>3. Wants(job[a].conn, n)
    BY <1>0, <2>1
  <2>4. Moves(a, "check", "erase") /\ job'[a].todo = job[a].todo
    BY <1>0, <1>2, <2>1, <2>2, <2>3
  <2>5. AsksItsOwn(job'[a])
    BY <1>0, <2>4 DEF Moves
  <2>6. \A c \in Conns, k \in Rules : Bears(a, c, k) => Bears(a, c, k)'
    BY <2>4 DEF Moves, Bears
  <2> QED BY <1>4, <2>1, <2>4, <2>5, <2>6 DEF Moves
<1>14. CASE RevertErase(a)
  <2>1. PICK n \in job[a].asked : Without(a, "erase", n) /\ Sets(n, NoConn)
    BY <1>0, <1>14, RevertEraseShape
  <2>2. UNCHANGED <<life, setting, records>> /\ Others(a) /\ job[a].at = "erase"
    BY <1>14, <2>1, RevertEraseShape DEF Without, Moves, Finishes, Sets
  <2>3. AsksItsOwn(job'[a])
    BY <1>0, <2>1, <2>2 DEF Without, Moves, Finishes
  <2>4. \A c \in Conns, k \in Rules : rules'[k] = c => rules[k] = c /\ k # Canon[n]
    BY <2>1, NrptAssumption DEF Sets
  <2>5. \A c \in Conns, k \in Rules : k # Canon[n] /\ Bears(a, c, k) => Bears(a, c, k)'
    BY <2>1, <2>2 DEF Without, Moves, Finishes, Bears, RulesOf
  <2>6. \A c \in Conns, k \in Rules :
           rules'[k] = c /\ (k \in RulesOf(records[c]) \/ Bears(a, c, k)) =>
               k \in RulesOf(records'[c]) \/ Bears(a, c, k)'
    BY <2>2, <2>4, <2>5
  <2>7. \A c \in Conns : \A m \in records'[c] : Wants(c, m)
    BY <2>2 DEF Steadily
  <2> QED BY <2>2, <2>3, <2>4, <2>6, <2>7, StillAccounted
<1> QED BY <1>5, <1>6, <1>7, <1>8, <1>9, <1>10, <1>11, <1>12, <1>13, <1>14 DEF Handler

(* Every step keeps the account.                                           *)
LEMMA NextKeepsSteadyInv ==
    ASSUME NrptInv, SteadyInv, [Next]_vars
    PROVE  SteadyInv'
<1> SUFFICES ASSUME Steady', Calm' PROVE Steadily'
  BY DEF SteadyInv
<1>1. Steady /\ Calm /\ Steadily
  BY SettingStays DEF Steady, Calm, SteadyInv
<1>2. setting.crew \subseteq Threads
  BY NrptAssumption DEF NrptInv, TypeOK, IsSetting
<1>3. CASE UNCHANGED vars
  BY <1>1, <1>3 DEF vars, Steadily, Wants, Accounts, Bears, AsksItsOwn
<1>4. ~(SweepStep \/ ServiceExit \/ Crash \/ Start)
  BY <1>1, CalmService DEF Steadily
<1> QED BY <1>1, <1>2, <1>3, <1>4, HandlerKeepsSteadily DEF Next, SweepStep

(* Accounted: for any number of handler threads at once, also applies and  *)
(* reverts of one connection, a rule that is in the table is in its        *)
(* connection's record or in the hands of a request.                       *)
THEOREM RulesAreAccountedFor == Spec => []Accounted
<1>1. ASSUME NrptInv, SteadyInv, [Next]_vars PROVE SteadyInv'
  BY <1>1, NextKeepsSteadyInv
<1>2. NrptInv /\ SteadyInv => Accounted
  BY DEF SteadyInv, Steadily, Accounts, Bears, Accounted, RulesOf
<1> QED BY <1>1, <1>2, InitSteadyInv, ThreadsCarry, PTL DEF Spec
=============================================================================
