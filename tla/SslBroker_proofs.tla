-------------------------- MODULE SslBroker_proofs --------------------------
(***************************************************************************)
(* Proofs about SslBroker for any sets of names, threads and processes,    *)
(* any number of slots, with or without crashes and staging failures.      *)
(*                                                                         *)
(* Inv is inductive as it stands: the slots are exclusive because each     *)
(* reservation is exactly one connect's (ReservationsHeld) and each entry  *)
(* kept the slot its connect had reserved (JobsConsistent), and records    *)
(* never change under an entry because a process has one owner (OneOwner). *)
(* There is one lemma per action; the theorems at the end combine them.    *)
(* The bound on namesakes has an invariant of its own beside it, NamesInv. *)
(***************************************************************************)
EXTENDS SslBroker, FiniteSetTheorems, TLAPS

(* A job that moves on and takes a slot is still a job.                    *)
LEMMA JobTakesSlot ==
    ASSUME NEW j \in Job, NEW x \in Stages, NEW s \in Slots
    PROVE  [j EXCEPT !.at = x, !.slot = s] \in Job
BY DEF Job

(* A job that takes tunnels for the name it was given is still a job.      *)
LEMMA JobCloses ==
    ASSUME NEW j \in Job, NEW x \in Stages, NEW n \in Names \cup {NoName},
           NEW D \in SUBSET Procs
    PROVE  [j EXCEPT !.at = x, !.name = n, !.doomed = D] \in Job
BY DEF Job

(* A job that moves on and has no process any more is still a job.         *)
LEMMA JobLosesProc ==
    ASSUME NEW j \in Job, NEW x \in Stages
    PROVE  [j EXCEPT !.at = x, !.proc = NoProc] \in Job
BY DEF Job

(* SslConnect, first locked section: the replaced tunnel passes from the   *)
(* registry to the connecting thread, the dead ones lose their records.    *)
LEMMA ConnectEvictKeepsInv ==
    ASSUME Inv, NEW t \in Threads, NEW n \in Names, ConnectEvict(t, n)
    PROVE  Inv'
<1> USE ConstantsAssumption DEF Actors
<1> DEFINE Taken(D) ==
        /\ D \subseteq tunnels \ Dead
        /\ tunnels' = (tunnels \ Dead) \ D
        /\ job'[t].at \in {"reserve", "evicting"} /\ job'[t].proc = NoProc
        /\ job'[t].slot = job[t].slot /\ job'[t].doomed = D
        /\ D # {} => job'[t].at = "evicting"
        /\ \A b \in Actors : b # t => job'[b] = job[b]
        /\ job' \in [Actors -> Job]
<1>1. /\ TypeOK /\ SlotsExclusive /\ ReservationsHeld /\ OneOwner /\ JobsConsistent
      /\ job[t] \in Job /\ job[t].at = "idle" /\ life # "down"
  BY DEF Inv, TypeOK, ConnectEvict
<1>2. job[t].proc = NoProc /\ job[t].doomed = {}
  BY <1>1 DEF JobsConsistent, Tearing
<1>3. UNCHANGED <<life, reserved>>
  BY DEF ConnectEvict
<1>4. /\ \A q \in Dead : proc'[q] = Blank
      /\ \A q \in Procs \ Dead : proc'[q] = proc[q]
      /\ proc' \in [Procs -> Proc]
  <2>1. Blank \in Proc
    BY DEF Blank, Proc, Slots
  <2> QED BY <1>1, <2>1 DEF ConnectEvict, Pruned, TypeOK, Dead
<1>5. \E D : Taken(D)
  <2>1. ASSUME tunnels' = tunnels \ Dead,
               job' = [job EXCEPT ![t] = [@ EXCEPT !.at = "reserve", !.name = n]]
        PROVE  Taken({})
    <3>1. [job[t] EXCEPT !.at = "reserve", !.name = n] \in Job
      BY <1>1 DEF Job, Stages
    <3> QED BY <1>1, <1>2, <2>1, <3>1 DEF TypeOK, Job
  <2>2. ASSUME NEW p \in SameName(n), tunnels' = (tunnels \ Dead) \ {p},
               job' = [job EXCEPT ![t] = [@ EXCEPT !.at = "evicting", !.name = n,
                                                   !.doomed = {p}]]
        PROVE  Taken({p})
    <3>1. [job[t] EXCEPT !.at = "evicting", !.name = n, !.doomed = {p}] \in Job
      BY <1>1 DEF Job, Stages, Tearing, SameName, TypeOK
    <3> QED BY <1>1, <1>2, <2>2, <3>1 DEF TypeOK, Job, SameName
  <2> HIDE DEF Taken
  <2> QED BY <2>1, <2>2 DEF ConnectEvict
<1>6. PICK D : Taken(D)
  BY <1>5
<1>7. /\ Dead \subseteq tunnels /\ tunnels \subseteq Procs
      /\ \A q \in tunnels' : q \in tunnels /\ q \notin Dead /\ proc'[q] = proc[q]
      /\ \A q \in D : q \in tunnels /\ q \notin Dead /\ proc'[q] = proc[q]
  BY <1>1, <1>4, <1>6 DEF Dead, TypeOK
<1>8. /\ \A q \in Procs : Launching(q)' <=> Launching(q)
      /\ \A q \in Procs : Stopping(q)' <=> Stopping(q) \/ q \in D
  BY <1>2, <1>6 DEF Launching, Stopping
<1>9. Connecting' = Connecting /\ \A u \in Threads : job'[u].slot = job[u].slot
  BY <1>1, <1>6 DEF Connecting, Holding
<1>10. TypeOK'
  BY <1>1, <1>3, <1>4, <1>6, <1>7 DEF TypeOK
<1>11. SlotsExclusive' /\ ReservationsHeld'
  <2>1. {job'[u].slot : u \in Connecting'} = {job[u].slot : u \in Connecting}
    BY <1>9 DEF Connecting
  <2> QED BY <1>1, <1>3, <1>7, <1>9, <2>1 DEF SlotsExclusive, ReservationsHeld, Connecting
<1>12. OneOwner'
  <2>1. \A q \in Procs : proc'[q].os \in {"running", "exited"} => Owned(q)'
    BY <1>1, <1>4, <1>6, <1>8 DEF OneOwner, Owned, Blank
  <2>2. \A q \in tunnels' : ~Launching(q)' /\ ~Stopping(q)'
    BY <1>1, <1>6, <1>7, <1>8 DEF OneOwner
  <2>3. \A q \in Procs : ~(Launching(q)' /\ Stopping(q)')
    BY <1>1, <1>7, <1>8 DEF OneOwner
  <2>4. \A u, v \in Threads : job'[u].proc = job'[v].proc /\ job'[u].proc # NoProc => u = v
    BY <1>1, <1>2, <1>6 DEF OneOwner
  <2>5. \A b, c \in Actors : b # c => job'[b].doomed \cap job'[c].doomed = {}
    BY <1>1, <1>6, <1>7 DEF OneOwner, Stopping
  <2> QED BY <2>1, <2>2, <2>3, <2>4, <2>5 DEF OneOwner
<1>13. JobsConsistent'
  <2>1. \A u \in Threads : u # t /\ job[u].proc # NoProc => proc'[job[u].proc] = proc[job[u].proc]
    <3> SUFFICES ASSUME NEW u \in Threads, u # t, job[u].proc # NoProc
                 PROVE  proc'[job[u].proc] = proc[job[u].proc]
      OBVIOUS
    <3>1. job[u].proc \in Procs /\ Launching(job[u].proc)
      BY <1>1 DEF TypeOK, Job, Launching
    <3> QED BY <1>1, <1>4, <1>7, <3>1 DEF OneOwner
  <2>2. \A q \in Procs : q \in tunnels' \/ Stopping(q)' => proc'[q].os \in {"running", "exited"}
    <3>1. \A q \in Procs : Stopping(q) => q \notin Dead
      BY <1>1, <1>7 DEF OneOwner
    <3> QED BY <1>1, <1>4, <1>7, <1>8, <3>1 DEF JobsConsistent
  <2>3. Svc # t /\ t \in Actors
    OBVIOUS
  <2> QED BY <1>1, <1>2, <1>3, <1>6, <2>1, <2>2, <2>3 DEF JobsConsistent, Tearing
<1> QED BY <1>10, <1>11, <1>12, <1>13 DEF Inv

(* Between the teardown and take_slot nothing is owned.                    *)
LEMMA EvictDoneKeepsInv ==
    ASSUME Inv, NEW t \in Threads, EvictDone(t)
    PROVE  Inv'
<1> USE ConstantsAssumption DEF Inv, Actors
<1> USE DEF EvictDone
<1>1. TypeOK'
  BY SMTT(40)
     DEF TypeOK, JobsConsistent, Stages, Holding, Tearing, Job, Proc, Idle,
         Blank, Files, Slots
<1>2. SlotsExclusive'
  BY SMTT(40)
     DEF TypeOK, SlotsExclusive, ReservationsHeld, JobsConsistent, OneOwner,
         Owned, Launching, Stopping, Connecting, Stages, Holding, Tearing, Job,
         Proc, Idle, Blank, Files, Slots
<1>3. ReservationsHeld'
  BY SMTT(40)
     DEF TypeOK, SlotsExclusive, ReservationsHeld, JobsConsistent, Connecting,
         Stages, Holding, Tearing, Job, Proc, Idle, Blank, Files, Slots
<1>4. OneOwner'
  <2> USE DEF OneOwner, JobsConsistent, TypeOK, Job, Proc, Idle, Blank, Tearing, Holding, Slots
  <2>1. \A q \in Procs : proc'[q].os \in {"running", "exited"} => Owned(q)'
    BY DEF Owned, Launching, Stopping
  <2>2. \A q \in tunnels' : ~Launching(q)' /\ ~Stopping(q)'
    BY DEF Owned, Launching, Stopping
  <2>3. \A q \in Procs : ~(Launching(q)' /\ Stopping(q)')
    BY DEF Launching, Stopping
  <2>4. \A u, v \in Threads : job'[u].proc = job'[v].proc /\ job'[u].proc # NoProc => u = v
    BY DEF Launching
  <2>5. \A b, c \in Actors : b # c => job'[b].doomed \cap job'[c].doomed = {}
    BY DEF Owned, Launching, Stopping
  <2> QED BY <2>1, <2>2, <2>3, <2>4, <2>5 DEF OneOwner
<1>5. JobsConsistent'
  BY SMTT(40)
     DEF TypeOK, OneOwner, Owned, Launching, Stopping, JobsConsistent, Stages,
         Holding, Tearing, Job, Proc, Idle, Blank, Files, Slots
<1>6. QED BY <1>1, <1>2, <1>3, <1>4, <1>5 DEF Inv

(* take_slot: the reserved slot is one no entry and no other connect holds. *)
LEMMA ReserveSlotKeepsInv ==
    ASSUME Inv, NEW t \in Threads, ReserveSlot(t)
    PROVE  Inv'
<1> USE ConstantsAssumption DEF Inv, Actors
<1> USE DEF ReserveSlot, LowestFree, FreeSlots, Occupied
<1>1. TypeOK'
  <2>1. life' \in {"up", "stopping", "down"} /\ tunnels' \subseteq Procs
    BY DEF TypeOK, JobsConsistent, Holding
  <2>2. reserved' \subseteq Slots
    BY DEF TypeOK, Job
  <2>3. job' \in [Actors -> Job]
    <3>1. PICK s \in Slots : job' = [job EXCEPT ![t] =
                                        [@ EXCEPT !.at = "stage", !.slot = s]]
      OBVIOUS
    <3>2. job[t] \in Job /\ "stage" \in Stages
      BY DEF TypeOK, Stages, Holding
    <3>3. [job[t] EXCEPT !.at = "stage", !.slot = s] \in Job
      BY <3>2, JobTakesSlot
    <3> QED BY <3>1, <3>3 DEF TypeOK
  <2>4. proc' \in [Procs -> Proc]
    BY DEF TypeOK, JobsConsistent, Job, Proc, Blank, Files, Holding
  <2> QED BY <2>1, <2>2, <2>3, <2>4 DEF TypeOK
<1>2. SlotsExclusive'
  BY SMTT(40)
     DEF TypeOK, SlotsExclusive, ReservationsHeld, JobsConsistent, OneOwner,
         Owned, Launching, Stopping, Connecting, Stages, Holding, Tearing, Job,
         Proc, Idle, Blank, Files, Slots
<1>3. ReservationsHeld'
  BY SMTT(40)
     DEF TypeOK, SlotsExclusive, ReservationsHeld, JobsConsistent, Connecting,
         Stages, Holding, Tearing, Job, Proc, Idle, Blank, Files, Slots
<1>4. OneOwner'
  BY SMTT(40)
     DEF TypeOK, OneOwner, Owned, Launching, Stopping, JobsConsistent, Stages,
         Holding, Tearing, Job, Proc, Idle, Blank, Files, Slots
<1>5. JobsConsistent'
  BY SMTT(40)
     DEF TypeOK, OneOwner, Owned, Launching, Stopping, JobsConsistent, Stages,
         Holding, Tearing, Job, Proc, Idle, Blank, Files, Slots
<1>6. QED BY <1>1, <1>2, <1>3, <1>4, <1>5 DEF Inv

(* take_slot refuses: the thread owned nothing.                            *)
LEMMA NoSlotLeftKeepsInv ==
    ASSUME Inv, NEW t \in Threads, NoSlotLeft(t)
    PROVE  Inv'
<1> USE ConstantsAssumption DEF Inv, Actors
<1> USE DEF NoSlotLeft
<1>1. TypeOK'
  BY SMTT(40)
     DEF TypeOK, JobsConsistent, Stages, Holding, Tearing, Job, Proc, Idle,
         Blank, Files, Slots
<1>2. SlotsExclusive'
  BY SMTT(40)
     DEF TypeOK, SlotsExclusive, ReservationsHeld, JobsConsistent, OneOwner,
         Owned, Launching, Stopping, Connecting, Stages, Holding, Tearing, Job,
         Proc, Idle, Blank, Files, Slots
<1>3. ReservationsHeld'
  BY SMTT(40)
     DEF TypeOK, SlotsExclusive, ReservationsHeld, JobsConsistent, Connecting,
         Stages, Holding, Tearing, Job, Proc, Idle, Blank, Files, Slots
<1>4. OneOwner'
  BY SMTT(40)
     DEF TypeOK, OneOwner, Owned, Launching, Stopping, JobsConsistent, Stages,
         Holding, Tearing, Job, Proc, Idle, Blank, Files, Slots
<1>5. JobsConsistent'
  BY SMTT(40)
     DEF TypeOK, OneOwner, Owned, Launching, Stopping, JobsConsistent, Stages,
         Holding, Tearing, Job, Proc, Idle, Blank, Files, Slots
<1>6. QED BY <1>1, <1>2, <1>3, <1>4, <1>5 DEF Inv

(* connect fails before it staged anything; the reservation is still held. *)
LEMMA RefuseConfigKeepsInv ==
    ASSUME Inv, NEW t \in Threads, RefuseConfig(t)
    PROVE  Inv'
<1> USE ConstantsAssumption DEF Inv, Actors
<1> USE DEF RefuseConfig
<1>1. TypeOK'
  BY SMTT(40)
     DEF TypeOK, JobsConsistent, Stages, Holding, Tearing, Job, Proc, Idle,
         Blank, Files, Slots
<1>2. SlotsExclusive'
  BY SMTT(40)
     DEF TypeOK, SlotsExclusive, ReservationsHeld, JobsConsistent, OneOwner,
         Owned, Launching, Stopping, Connecting, Stages, Holding, Tearing, Job,
         Proc, Idle, Blank, Files, Slots
<1>3. ReservationsHeld'
  BY SMTT(40)
     DEF TypeOK, SlotsExclusive, ReservationsHeld, JobsConsistent, Connecting,
         Stages, Holding, Tearing, Job, Proc, Idle, Blank, Files, Slots
<1>4. OneOwner'
  BY SMTT(40)
     DEF TypeOK, OneOwner, Owned, Launching, Stopping, JobsConsistent, Stages,
         Holding, Tearing, Job, Proc, Idle, Blank, Files, Slots
<1>5. JobsConsistent'
  BY SMTT(40)
     DEF TypeOK, OneOwner, Owned, Launching, Stopping, JobsConsistent, Stages,
         Holding, Tearing, Job, Proc, Idle, Blank, Files, Slots
<1>6. QED BY <1>1, <1>2, <1>3, <1>4, <1>5 DEF Inv

(* The process being staged was unused, so no entry, teardown or other     *)
(* connect knows it.                                                       *)
LEMMA StageConfigKeepsInv ==
    ASSUME Inv, NEW t \in Threads, NEW p \in Procs, StageConfig(t, p)
    PROVE  Inv'
<1> USE ConstantsAssumption DEF Actors
<1>1. /\ TypeOK /\ SlotsExclusive /\ ReservationsHeld /\ OneOwner /\ JobsConsistent
      /\ job[t] \in Job /\ job[t].at = "stage"
  BY DEF Inv, TypeOK, StageConfig
<1>2. job[t].proc = NoProc /\ job[t].doomed = {} /\ job[t].slot \in Slots
  BY <1>1 DEF JobsConsistent, Tearing, Job
<1>3. /\ proc[p] = Blank /\ p \notin tunnels /\ ~Launching(p) /\ ~Stopping(p)
  BY <1>1 DEF StageConfig, Unused, JobsConsistent, Launching, Stopping, Blank
<1>4. /\ \A q \in Procs : q # p => proc'[q] = proc[q]
      /\ proc'[p] \in Proc /\ proc'[p].os = "none" /\ proc'[p].slot = job[t].slot
      /\ proc'[p].files # {}
      /\ proc' = [proc EXCEPT ![p] = proc'[p]]
  <2>1. /\ \A q \in Procs : q # p => proc'[q] = proc[q]
        /\ proc'[p] = [Blank EXCEPT !.name = job[t].name, !.slot = job[t].slot,
                                    !.files = {"config"}]
        /\ proc' = [proc EXCEPT ![p] = proc'[p]]
    BY <1>1, <1>3 DEF StageConfig, TypeOK
  <2>2. job[t].name \in Names \cup {NoName}
    BY <1>1 DEF Job
  <2> QED BY <2>1, <2>2, <1>2 DEF Proc, Blank, Files
<1>5. /\ \A b \in Actors : b # t => job'[b] = job[b]
      /\ job'[t] \in Job /\ job'[t].doomed = {} /\ job'[t].slot = job[t].slot
      /\ \/ job'[t].at = "auth" /\ job'[t].proc = p
         \/ job'[t].at = "release" /\ job'[t].proc = NoProc
      /\ job' = [job EXCEPT ![t] = job'[t]]
  <2>1. CASE job' = [job EXCEPT ![t] = [@ EXCEPT !.at = "auth", !.proc = p]]
    BY <2>1, <1>1, <1>2 DEF TypeOK, Job, Stages, Holding
  <2>2. CASE job' = [job EXCEPT ![t].at = "release"]
    BY <2>2, <1>1, <1>2 DEF TypeOK, Job, Stages, Holding
  <2> QED BY <2>1, <2>2 DEF StageConfig
<1>6. UNCHANGED <<life, tunnels, reserved>>
  BY DEF StageConfig
<1>7. TypeOK'
  BY <1>1, <1>4, <1>5, <1>6 DEF TypeOK
<1>8. SlotsExclusive' /\ ReservationsHeld'
  <2>1. Connecting' = Connecting /\ \A u \in Threads : job'[u].slot = job[u].slot
    BY <1>1, <1>5 DEF Connecting, Holding
  <2>2. \A q \in tunnels : q \in Procs /\ proc'[q].slot = proc[q].slot
    BY <1>1, <1>3, <1>4 DEF TypeOK
  <2>3. {job'[u].slot : u \in Connecting'} = {job[u].slot : u \in Connecting}
    BY <2>1 DEF Connecting
  <2> QED BY <1>1, <1>6, <2>1, <2>2, <2>3 DEF SlotsExclusive, ReservationsHeld, Connecting
<1>9. OneOwner'
  <2>1. \A q \in Procs : Stopping(q)' <=> Stopping(q)
    BY <1>1, <1>2, <1>5 DEF Stopping
  <2>2. \A q \in Procs : Launching(q)' <=> Launching(q) \/ (q = p /\ job'[t].proc = p)
    BY <1>1, <1>2, <1>5 DEF Launching
  <2>3. \A u, v \in Threads :
           job'[u].proc = job'[v].proc /\ job'[u].proc # NoProc => u = v
    BY <1>1, <1>2, <1>3, <1>5 DEF OneOwner, Launching
  <2> QED BY <2>1, <2>2, <2>3, <1>1, <1>3, <1>4, <1>5, <1>6 DEF OneOwner, Owned, TypeOK
<1>10. JobsConsistent'
  <2>1. \A q \in Procs : Stopping(q)' <=> Stopping(q)
    BY <1>1, <1>2, <1>5 DEF Stopping
  <2>2. \A u \in Threads : u # t => job'[u] = job[u] /\ job[u].proc # p
    BY <1>3, <1>5 DEF Launching
  <2>3. \A u \in Threads : job[u].proc \in Procs \cup {NoProc}
    BY <1>1 DEF TypeOK, Job
  <2>4. life = "down" => FALSE
    BY <1>1 DEF JobsConsistent, Idle
  <2>5. ASSUME NEW u \in Threads
        PROVE  /\ job'[u].at # "stopped"
               /\ job'[u].proc # NoProc <=>
                    job'[u].at \in {"auth", "spawn", "drive", "abandon", "cleanup", "register"}
               /\ job'[u].at \in {"auth", "spawn"} => proc'[job'[u].proc].os = "none"
               /\ job'[u].at \in {"drive", "abandon", "cleanup", "register"} =>
                    proc'[job'[u].proc].os \in {"running", "exited"}
               /\ job'[u].proc # NoProc => /\ proc'[job'[u].proc].slot = job'[u].slot
                                          /\ proc'[job'[u].proc].files # {}
    <3>1. CASE u = t
      BY <3>1, <1>4, <1>5
    <3>2. CASE u # t
      BY <3>2, <2>2, <2>3, <1>1, <1>4 DEF JobsConsistent
    <3> QED BY <3>1, <3>2
  <2> QED BY <2>1, <2>4, <2>5, <1>1, <1>3, <1>4, <1>5, <1>6 DEF JobsConsistent, Tearing
<1> QED BY <1>7, <1>8, <1>9, <1>10 DEF Inv

(* Staging the credentials keeps the process with its thread, or (a failed *)
(* write) leaves behind a process that was never launched.                 *)
LEMMA StageAuthKeepsInv ==
    ASSUME Inv, NEW t \in Threads, StageAuth(t)
    PROVE  Inv'
<1> USE ConstantsAssumption DEF Actors
<1>1. /\ TypeOK /\ SlotsExclusive /\ ReservationsHeld /\ OneOwner /\ JobsConsistent
      /\ job[t] \in Job /\ job[t].at = "auth"
  BY DEF Inv, TypeOK, StageAuth
<1>2. PICK p \in Procs :
          /\ job[t].proc = p /\ job[t].doomed = {}
          /\ proc[p] \in Proc /\ proc[p].os = "none" /\ proc[p].slot = job[t].slot
  BY <1>1 DEF JobsConsistent, Tearing, Job, TypeOK
<1>3. p \notin tunnels /\ ~Stopping(p) /\ \A u \in Threads : u # t => job[u].proc # p
  BY <1>1, <1>2 DEF OneOwner, JobsConsistent, Launching, Stopping
<1>4. /\ \A q \in Procs : q # p => proc'[q] = proc[q]
      /\ proc'[p] \in Proc
      /\ proc' = [proc EXCEPT ![p] = proc'[p]]
      /\ \A b \in Actors : b # t => job'[b] = job[b]
      /\ job'[t] \in Job /\ job'[t].doomed = {} /\ job'[t].slot = job[t].slot
      /\ job' = [job EXCEPT ![t] = job'[t]]
      /\ proc'[p].os = "none"
      /\ \/ /\ job'[t].at = "spawn" /\ job'[t].proc = p
            /\ proc'[p].slot = proc[p].slot /\ proc'[p].files # {}
         \/ job'[t].at = "release" /\ job'[t].proc = NoProc
  <2>1. CASE /\ proc' = [proc EXCEPT ![p].files = Files]
             /\ job' = [job EXCEPT ![t].at = "spawn"]
    BY <2>1, <1>1, <1>2
       DEF TypeOK, Job, Proc, Files, Stages, Holding, Blank, JobsConsistent
  <2>2. CASE /\ \E left \in {{"config"}, Files} : proc' = [proc EXCEPT ![p].files = left]
             /\ job' = [job EXCEPT ![t] =
                           [@ EXCEPT !.at = "release", !.proc = NoProc]]
    <3>1. [job[t] EXCEPT !.at = "release", !.proc = NoProc] \in Job
      BY <1>1, JobLosesProc DEF Stages, Holding
    <3> QED BY <2>2, <3>1, <1>1, <1>2
       DEF TypeOK, Job, Proc, Files, Stages, Holding, Blank, JobsConsistent, Slots
  <2> QED BY <2>1, <2>2, <1>2 DEF StageAuth
<1>6. UNCHANGED <<life, tunnels, reserved>>
  BY DEF StageAuth
<1>7. TypeOK'
  BY <1>1, <1>2, <1>4, <1>6 DEF TypeOK
<1>8. SlotsExclusive' /\ ReservationsHeld'
  <2>1. Connecting' = Connecting /\ \A u \in Threads : job'[u].slot = job[u].slot
    BY <1>1, <1>4 DEF Connecting, Holding
  <2>2. \A q \in tunnels : q \in Procs /\ proc'[q].slot = proc[q].slot
    BY <1>1, <1>3, <1>4 DEF TypeOK
  <2>3. {job'[u].slot : u \in Connecting'} = {job[u].slot : u \in Connecting}
    BY <2>1 DEF Connecting
  <2> QED BY <1>1, <1>6, <2>1, <2>2, <2>3 DEF SlotsExclusive, ReservationsHeld, Connecting
<1>9. OneOwner'
  <2>1. \A q \in Procs : Stopping(q)' <=> Stopping(q)
    BY <1>1, <1>2, <1>4 DEF Stopping
  <2>2. \A q \in Procs : q # p => (Launching(q)' <=> Launching(q))
    BY <1>1, <1>2, <1>4 DEF Launching
  <2>3. Launching(p)' <=> job'[t].proc = p
    BY <1>2, <1>3, <1>4 DEF Launching
  <2>4. \A u, v \in Threads :
           job'[u].proc = job'[v].proc /\ job'[u].proc # NoProc => u = v
    BY <1>1, <1>3, <1>4 DEF OneOwner
  <2>5. \A q \in Procs : proc'[q].os \in {"running", "exited"} => Owned(q)'
    <3> TAKE q \in Procs
    <3>1. CASE q = p
      BY <3>1, <2>3, <1>4 DEF Owned
    <3>2. CASE q # p
      BY <3>2, <2>1, <2>2, <1>1, <1>4, <1>6 DEF Owned, OneOwner
    <3> QED BY <3>1, <3>2
  <2>6. \A b, c \in Actors : b # c => job'[b].doomed \cap job'[c].doomed = {}
    BY <1>1, <1>2, <1>4 DEF OneOwner
  <2>7. \A q \in tunnels : q \in Procs /\ q # p
    BY <1>1, <1>3 DEF TypeOK
  <2>8. /\ \A q \in tunnels' : ~Launching(q)' /\ ~Stopping(q)'
        /\ \A q \in Procs : ~(Launching(q)' /\ Stopping(q)')
    BY <2>1, <2>2, <2>7, <1>1, <1>3, <1>6 DEF OneOwner
  <2> QED BY <2>4, <2>5, <2>6, <2>8 DEF OneOwner
<1>10. JobsConsistent'
  <2>1. \A q \in Procs : Stopping(q)' <=> Stopping(q)
    BY <1>1, <1>2, <1>4 DEF Stopping
  <2>3. \A u \in Threads : job[u].proc \in Procs \cup {NoProc}
    BY <1>1 DEF TypeOK, Job
  <2>4. life # "down"
    BY <1>1 DEF JobsConsistent, Idle
  <2>5. ASSUME NEW u \in Threads
        PROVE  /\ job'[u].at # "stopped"
               /\ job'[u].proc # NoProc <=>
                    job'[u].at \in {"auth", "spawn", "drive", "abandon", "cleanup", "register"}
               /\ job'[u].at \in {"auth", "spawn"} => proc'[job'[u].proc].os = "none"
               /\ job'[u].at \in {"drive", "abandon", "cleanup", "register"} =>
                    proc'[job'[u].proc].os \in {"running", "exited"}
               /\ job'[u].proc # NoProc => /\ proc'[job'[u].proc].slot = job'[u].slot
                                          /\ proc'[job'[u].proc].files # {}
    <3>1. CASE u = t
      BY <3>1, <1>2, <1>4
    <3>2. CASE u # t
      BY <3>2, <2>3, <1>1, <1>3, <1>4 DEF JobsConsistent
    <3> QED BY <3>1, <3>2
  <2>6. \A q \in Procs :
           q \in tunnels' \/ Stopping(q)' => proc'[q].os \in {"running", "exited"}
    BY <2>1, <1>1, <1>3, <1>4, <1>6 DEF JobsConsistent
  <2>7. /\ job'[Svc].at \in {"idle", "closing", "stopped"} /\ job'[Svc].proc = NoProc
        /\ life' = "up" => job'[Svc].at = "idle"
        /\ \A b \in Actors : job'[b].at \notin Tearing => job'[b].doomed = {}
    BY <1>1, <1>4, <1>6 DEF JobsConsistent
  <2> QED BY <2>4, <2>5, <2>6, <2>7, <1>6 DEF JobsConsistent
<1> QED BY <1>7, <1>8, <1>9, <1>10 DEF Inv

(* A launched process belongs to the thread that launched it.              *)
LEMMA SpawnKeepsInv ==
    ASSUME Inv, NEW t \in Threads, Spawn(t)
    PROVE  Inv'
<1> USE ConstantsAssumption DEF Actors
<1>1. /\ TypeOK /\ SlotsExclusive /\ ReservationsHeld /\ OneOwner /\ JobsConsistent
      /\ job[t] \in Job /\ job[t].at = "spawn"
  BY DEF Inv, TypeOK, Spawn
<1>2. PICK p \in Procs :
          /\ job[t].proc = p /\ job[t].doomed = {}
          /\ proc[p] \in Proc /\ proc[p].os = "none" /\ proc[p].slot = job[t].slot
  BY <1>1 DEF JobsConsistent, Tearing, Job, TypeOK
<1>3. p \notin tunnels /\ ~Stopping(p) /\ \A u \in Threads : u # t => job[u].proc # p
  BY <1>1, <1>2 DEF OneOwner, JobsConsistent, Launching, Stopping
<1>4. /\ \A q \in Procs : q # p => proc'[q] = proc[q]
      /\ proc'[p] \in Proc
      /\ proc' = [proc EXCEPT ![p] = proc'[p]]
      /\ \A b \in Actors : b # t => job'[b] = job[b]
      /\ job'[t] \in Job /\ job'[t].doomed = {} /\ job'[t].slot = job[t].slot
      /\ job' = [job EXCEPT ![t] = job'[t]]
      /\ \/ /\ job'[t].at = "drive" /\ job'[t].proc = p /\ proc'[p].os = "running"
            /\ proc'[p].slot = proc[p].slot /\ proc'[p].files # {}
         \/ /\ job'[t].at = "release" /\ job'[t].proc = NoProc /\ proc'[p].os = "none"
  <2>1. CASE /\ proc' = [proc EXCEPT ![p].os = "running"]
             /\ job' = [job EXCEPT ![t].at = "drive"]
    BY <2>1, <1>1, <1>2
       DEF TypeOK, Job, Proc, Files, Stages, Holding, Blank, JobsConsistent
  <2>2. CASE /\ proc' = [proc EXCEPT ![p] = Blank]
             /\ job' = [job EXCEPT ![t] =
                           [@ EXCEPT !.at = "release", !.proc = NoProc]]
    <3>1. [job[t] EXCEPT !.at = "release", !.proc = NoProc] \in Job
      BY <1>1, JobLosesProc DEF Stages, Holding
    <3> QED BY <2>2, <3>1, <1>1, <1>2
       DEF TypeOK, Job, Proc, Files, Stages, Holding, Blank, JobsConsistent, Slots
  <2> QED BY <2>1, <2>2, <1>2 DEF Spawn
<1>6. UNCHANGED <<life, tunnels, reserved>>
  BY DEF Spawn
<1>7. TypeOK'
  BY <1>1, <1>2, <1>4, <1>6 DEF TypeOK
<1>8. SlotsExclusive' /\ ReservationsHeld'
  <2>1. Connecting' = Connecting /\ \A u \in Threads : job'[u].slot = job[u].slot
    BY <1>1, <1>4 DEF Connecting, Holding
  <2>2. \A q \in tunnels : q \in Procs /\ proc'[q].slot = proc[q].slot
    BY <1>1, <1>3, <1>4 DEF TypeOK
  <2>3. {job'[u].slot : u \in Connecting'} = {job[u].slot : u \in Connecting}
    BY <2>1 DEF Connecting
  <2> QED BY <1>1, <1>6, <2>1, <2>2, <2>3 DEF SlotsExclusive, ReservationsHeld, Connecting
<1>9. OneOwner'
  <2>1. \A q \in Procs : Stopping(q)' <=> Stopping(q)
    BY <1>1, <1>2, <1>4 DEF Stopping
  <2>2. \A q \in Procs : q # p => (Launching(q)' <=> Launching(q))
    BY <1>1, <1>2, <1>4 DEF Launching
  <2>3. Launching(p)' <=> job'[t].proc = p
    BY <1>2, <1>3, <1>4 DEF Launching
  <2>4. \A u, v \in Threads :
           job'[u].proc = job'[v].proc /\ job'[u].proc # NoProc => u = v
    BY <1>1, <1>3, <1>4 DEF OneOwner
  <2>5. \A q \in Procs : proc'[q].os \in {"running", "exited"} => Owned(q)'
    <3> TAKE q \in Procs
    <3>1. CASE q = p
      BY <3>1, <2>3, <1>4 DEF Owned
    <3>2. CASE q # p
      BY <3>2, <2>1, <2>2, <1>1, <1>4, <1>6 DEF Owned, OneOwner
    <3> QED BY <3>1, <3>2
  <2>6. \A b, c \in Actors : b # c => job'[b].doomed \cap job'[c].doomed = {}
    BY <1>1, <1>2, <1>4 DEF OneOwner
  <2>7. \A q \in tunnels : q \in Procs /\ q # p
    BY <1>1, <1>3 DEF TypeOK
  <2>8. /\ \A q \in tunnels' : ~Launching(q)' /\ ~Stopping(q)'
        /\ \A q \in Procs : ~(Launching(q)' /\ Stopping(q)')
    BY <2>1, <2>2, <2>7, <1>1, <1>3, <1>6 DEF OneOwner
  <2> QED BY <2>4, <2>5, <2>6, <2>8 DEF OneOwner
<1>10. JobsConsistent'
  <2>1. \A q \in Procs : Stopping(q)' <=> Stopping(q)
    BY <1>1, <1>2, <1>4 DEF Stopping
  <2>3. \A u \in Threads : job[u].proc \in Procs \cup {NoProc}
    BY <1>1 DEF TypeOK, Job
  <2>4. life # "down"
    BY <1>1 DEF JobsConsistent, Idle
  <2>5. ASSUME NEW u \in Threads
        PROVE  /\ job'[u].at # "stopped"
               /\ job'[u].proc # NoProc <=>
                    job'[u].at \in {"auth", "spawn", "drive", "abandon", "cleanup", "register"}
               /\ job'[u].at \in {"auth", "spawn"} => proc'[job'[u].proc].os = "none"
               /\ job'[u].at \in {"drive", "abandon", "cleanup", "register"} =>
                    proc'[job'[u].proc].os \in {"running", "exited"}
               /\ job'[u].proc # NoProc => /\ proc'[job'[u].proc].slot = job'[u].slot
                                          /\ proc'[job'[u].proc].files # {}
    <3>1. CASE u = t
      BY <3>1, <1>2, <1>4
    <3>2. CASE u # t
      BY <3>2, <2>3, <1>1, <1>3, <1>4 DEF JobsConsistent
    <3> QED BY <3>1, <3>2
  <2>6. \A q \in Procs :
           q \in tunnels' \/ Stopping(q)' => proc'[q].os \in {"running", "exited"}
    BY <2>1, <1>1, <1>3, <1>4, <1>6 DEF JobsConsistent
  <2>7. /\ job'[Svc].at \in {"idle", "closing", "stopped"} /\ job'[Svc].proc = NoProc
        /\ life' = "up" => job'[Svc].at = "idle"
        /\ \A b \in Actors : job'[b].at \notin Tearing => job'[b].doomed = {}
    BY <1>1, <1>4, <1>6 DEF JobsConsistent
  <2> QED BY <2>4, <2>5, <2>6, <2>7, <1>6 DEF JobsConsistent
<1> QED BY <1>7, <1>8, <1>9, <1>10 DEF Inv

(* The tunnel is built; still the thread's.                                *)
LEMMA DrivenKeepsInv ==
    ASSUME Inv, NEW t \in Threads, Driven(t)
    PROVE  Inv'
<1> USE ConstantsAssumption DEF Inv, Actors
<1> USE DEF Driven
<1>1. TypeOK'
  BY SMTT(40)
     DEF TypeOK, JobsConsistent, Stages, Holding, Tearing, Job, Proc, Idle,
         Blank, Files, Slots
<1>2. SlotsExclusive'
  BY SMTT(40)
     DEF TypeOK, SlotsExclusive, ReservationsHeld, JobsConsistent, OneOwner,
         Owned, Launching, Stopping, Connecting, Stages, Holding, Tearing, Job,
         Proc, Idle, Blank, Files, Slots
<1>3. ReservationsHeld'
  BY SMTT(40)
     DEF TypeOK, SlotsExclusive, ReservationsHeld, JobsConsistent, Connecting,
         Stages, Holding, Tearing, Job, Proc, Idle, Blank, Files, Slots
<1>4. OneOwner'
  BY SMTT(40)
     DEF TypeOK, OneOwner, Owned, Launching, Stopping, JobsConsistent, Stages,
         Holding, Tearing, Job, Proc, Idle, Blank, Files, Slots
<1>5. JobsConsistent'
  BY SMTT(40)
     DEF TypeOK, OneOwner, Owned, Launching, Stopping, JobsConsistent, Stages,
         Holding, Tearing, Job, Proc, Idle, Blank, Files, Slots
<1>6. QED BY <1>1, <1>2, <1>3, <1>4, <1>5 DEF Inv

(* The connect gives up; still the thread's, until it has been stopped.    *)
LEMMA DriveFailsKeepsInv ==
    ASSUME Inv, NEW t \in Threads, DriveFails(t)
    PROVE  Inv'
<1> USE ConstantsAssumption DEF Inv, Actors
<1> USE DEF DriveFails
<1>1. TypeOK'
  BY SMTT(40)
     DEF TypeOK, JobsConsistent, Stages, Holding, Tearing, Job, Proc, Idle,
         Blank, Files, Slots
<1>2. SlotsExclusive'
  BY SMTT(40)
     DEF TypeOK, SlotsExclusive, ReservationsHeld, JobsConsistent, OneOwner,
         Owned, Launching, Stopping, Connecting, Stages, Holding, Tearing, Job,
         Proc, Idle, Blank, Files, Slots
<1>3. ReservationsHeld'
  BY SMTT(40)
     DEF TypeOK, SlotsExclusive, ReservationsHeld, JobsConsistent, Connecting,
         Stages, Holding, Tearing, Job, Proc, Idle, Blank, Files, Slots
<1>4. OneOwner'
  BY SMTT(40)
     DEF TypeOK, OneOwner, Owned, Launching, Stopping, JobsConsistent, Stages,
         Holding, Tearing, Job, Proc, Idle, Blank, Files, Slots
<1>5. JobsConsistent'
  BY SMTT(40)
     DEF TypeOK, OneOwner, Owned, Launching, Stopping, JobsConsistent, Stages,
         Holding, Tearing, Job, Proc, Idle, Blank, Files, Slots
<1>6. QED BY <1>1, <1>2, <1>3, <1>4, <1>5 DEF Inv

(* stop_child.                                                             *)
LEMMA AbandonKeepsInv ==
    ASSUME Inv, NEW t \in Threads, Abandon(t)
    PROVE  Inv'
<1> USE ConstantsAssumption DEF Inv, Actors
<1> USE DEF Abandon
<1>1. TypeOK'
  BY SMTT(40)
     DEF TypeOK, JobsConsistent, Stages, Holding, Tearing, Job, Proc, Idle,
         Blank, Files, Slots
<1>2. SlotsExclusive'
  BY SMTT(40)
     DEF TypeOK, SlotsExclusive, ReservationsHeld, JobsConsistent, OneOwner,
         Owned, Launching, Stopping, Connecting, Stages, Holding, Tearing, Job,
         Proc, Idle, Blank, Files, Slots
<1>3. ReservationsHeld'
  BY SMTT(40)
     DEF TypeOK, SlotsExclusive, ReservationsHeld, JobsConsistent, Connecting,
         Stages, Holding, Tearing, Job, Proc, Idle, Blank, Files, Slots
<1>4. OneOwner'
  BY SMTT(40)
     DEF TypeOK, OneOwner, Owned, Launching, Stopping, JobsConsistent, Stages,
         Holding, Tearing, Job, Proc, Idle, Blank, Files, Slots
<1>5. JobsConsistent'
  BY SMTT(40)
     DEF TypeOK, OneOwner, Owned, Launching, Stopping, JobsConsistent, Stages,
         Holding, Tearing, Job, Proc, Idle, Blank, Files, Slots
<1>6. QED BY <1>1, <1>2, <1>3, <1>4, <1>5 DEF Inv

(* The guard removes the files of a process nobody else knows.             *)
LEMMA CleanUpKeepsInv ==
    ASSUME Inv, NEW t \in Threads, CleanUp(t)
    PROVE  Inv'
<1> USE ConstantsAssumption DEF Inv, Actors
<1> USE DEF CleanUp
<1>1. TypeOK'
  <2>1. job[t] \in Job /\ "release" \in Stages /\ Blank \in Proc
    BY DEF TypeOK, Stages, Holding, Blank, Proc, Slots
  <2>2. [job[t] EXCEPT !.at = "release", !.proc = NoProc] \in Job
    BY <2>1, JobLosesProc
  <2> QED BY <2>1, <2>2 DEF TypeOK
<1>2. SlotsExclusive'
  BY SMTT(40)
     DEF TypeOK, SlotsExclusive, ReservationsHeld, JobsConsistent, OneOwner,
         Owned, Launching, Stopping, Connecting, Stages, Holding, Tearing, Job,
         Proc, Idle, Blank, Files, Slots
<1>3. ReservationsHeld'
  BY SMTT(40)
     DEF TypeOK, SlotsExclusive, ReservationsHeld, JobsConsistent, Connecting,
         Stages, Holding, Tearing, Job, Proc, Idle, Blank, Files, Slots
<1>4. OneOwner'
  BY SMTT(40)
     DEF TypeOK, OneOwner, Owned, Launching, Stopping, JobsConsistent, Stages,
         Holding, Tearing, Job, Proc, Idle, Blank, Files, Slots
<1>5. JobsConsistent'
  BY SMTT(40)
     DEF TypeOK, OneOwner, Owned, Launching, Stopping, JobsConsistent, Stages,
         Holding, Tearing, Job, Proc, Idle, Blank, Files, Slots
<1>6. QED BY <1>1, <1>2, <1>3, <1>4, <1>5 DEF Inv

(* The reservation turns into an entry with the same slot.                 *)
LEMMA RegisterKeepsInv ==
    ASSUME Inv, NEW t \in Threads, Register(t)
    PROVE  Inv'
<1> USE ConstantsAssumption DEF Inv, Actors
<1> USE DEF Register
<1>1. TypeOK'
  <2>1. life' \in {"up", "stopping", "down"} /\ tunnels' \subseteq Procs
    <3>1. job[t].proc \in Procs
      BY DEF TypeOK, JobsConsistent, Job
    <3> QED BY <3>1 DEF TypeOK
  <2>2. reserved' \subseteq Slots
    BY DEF TypeOK, Job
  <2>3. job' \in [Actors -> Job]
    BY DEF TypeOK, Stages, Holding, Tearing, Job, Idle, Slots
  <2>4. proc' \in [Procs -> Proc]
    BY DEF TypeOK, JobsConsistent, Job, Proc, Blank, Files, Holding
  <2> QED BY <2>1, <2>2, <2>3, <2>4 DEF TypeOK
<1>2. SlotsExclusive'
  BY SMTT(40)
     DEF TypeOK, SlotsExclusive, ReservationsHeld, JobsConsistent, OneOwner,
         Owned, Launching, Stopping, Connecting, Stages, Holding, Tearing, Job,
         Proc, Idle, Blank, Files, Slots
<1>3. ReservationsHeld'
  BY SMTT(40)
     DEF TypeOK, SlotsExclusive, ReservationsHeld, JobsConsistent, Connecting,
         Stages, Holding, Tearing, Job, Proc, Idle, Blank, Files, Slots
<1>4. OneOwner'
  BY SMTT(40)
     DEF TypeOK, OneOwner, Owned, Launching, Stopping, JobsConsistent, Stages,
         Holding, Tearing, Job, Proc, Idle, Blank, Files, Slots
<1>5. JobsConsistent'
  BY SMTT(40)
     DEF TypeOK, OneOwner, Owned, Launching, Stopping, JobsConsistent, Stages,
         Holding, Tearing, Job, Proc, Idle, Blank, Files, Slots
<1>6. QED BY <1>1, <1>2, <1>3, <1>4, <1>5 DEF Inv

(* A failed connect gives its slot back, and no other thread's.            *)
LEMMA ReleaseSlotKeepsInv ==
    ASSUME Inv, NEW t \in Threads, ReleaseSlot(t)
    PROVE  Inv'
<1> USE ConstantsAssumption DEF Inv, Actors
<1> USE DEF ReleaseSlot
<1>1. TypeOK'
  <2>1. life' \in {"up", "stopping", "down"} /\ tunnels' \subseteq Procs
    BY DEF TypeOK, JobsConsistent, Holding
  <2>2. reserved' \subseteq Slots
    BY DEF TypeOK, Job
  <2>3. job' \in [Actors -> Job]
    BY DEF TypeOK, Stages, Holding, Tearing, Job, Idle, Slots
  <2>4. proc' \in [Procs -> Proc]
    BY DEF TypeOK, JobsConsistent, Job, Proc, Blank, Files, Holding
  <2> QED BY <2>1, <2>2, <2>3, <2>4 DEF TypeOK
<1>2. SlotsExclusive'
  BY SMTT(40)
     DEF TypeOK, SlotsExclusive, ReservationsHeld, JobsConsistent, OneOwner,
         Owned, Launching, Stopping, Connecting, Stages, Holding, Tearing, Job,
         Proc, Idle, Blank, Files, Slots
<1>3. ReservationsHeld'
  BY SMTT(40)
     DEF TypeOK, SlotsExclusive, ReservationsHeld, JobsConsistent, Connecting,
         Stages, Holding, Tearing, Job, Proc, Idle, Blank, Files, Slots
<1>4. OneOwner'
  BY SMTT(40)
     DEF TypeOK, OneOwner, Owned, Launching, Stopping, JobsConsistent, Stages,
         Holding, Tearing, Job, Proc, Idle, Blank, Files, Slots
<1>5. JobsConsistent'
  BY SMTT(40)
     DEF TypeOK, OneOwner, Owned, Launching, Stopping, JobsConsistent, Stages,
         Holding, Tearing, Job, Proc, Idle, Blank, Files, Slots
<1>6. QED BY <1>1, <1>2, <1>3, <1>4, <1>5 DEF Inv

(* A teardown stops a process only it owns.                                *)
LEMMA StopProcessKeepsInv ==
    ASSUME Inv, NEW a \in Actors, NEW p \in Procs, StopProcess(a, p)
    PROVE  Inv'
<1> USE ConstantsAssumption DEF Inv, Actors
<1> USE DEF StopProcess
<1>1. TypeOK'
  BY SMTT(40)
     DEF TypeOK, JobsConsistent, Stages, Holding, Tearing, Job, Proc, Idle,
         Blank, Files, Slots
<1>2. SlotsExclusive'
  BY SMTT(40)
     DEF TypeOK, SlotsExclusive, ReservationsHeld, JobsConsistent, OneOwner,
         Owned, Launching, Stopping, Connecting, Stages, Holding, Tearing, Job,
         Proc, Idle, Blank, Files, Slots
<1>3. ReservationsHeld'
  BY SMTT(40)
     DEF TypeOK, SlotsExclusive, ReservationsHeld, JobsConsistent, Connecting,
         Stages, Holding, Tearing, Job, Proc, Idle, Blank, Files, Slots
<1>4. OneOwner'
  BY SMTT(40)
     DEF TypeOK, OneOwner, Owned, Launching, Stopping, JobsConsistent, Stages,
         Holding, Tearing, Job, Proc, Idle, Blank, Files, Slots
<1>5. JobsConsistent'
  BY SMTT(40)
     DEF TypeOK, OneOwner, Owned, Launching, Stopping, JobsConsistent, Stages,
         Holding, Tearing, Job, Proc, Idle, Blank, Files, Slots
<1>6. QED BY <1>1, <1>2, <1>3, <1>4, <1>5 DEF Inv

(* A teardown forgets a process only it owns.                              *)
LEMMA RemoveFilesKeepsInv ==
    ASSUME Inv, NEW a \in Actors, NEW p \in Procs, RemoveFiles(a, p)
    PROVE  Inv'
<1> USE ConstantsAssumption DEF Inv, Actors
<1> USE DEF RemoveFiles
<1>1. TypeOK'
  BY SMTT(40)
     DEF TypeOK, JobsConsistent, Stages, Holding, Tearing, Job, Proc, Idle,
         Blank, Files, Slots
<1>2. SlotsExclusive'
  BY SMTT(40)
     DEF TypeOK, SlotsExclusive, ReservationsHeld, JobsConsistent, OneOwner,
         Owned, Launching, Stopping, Connecting, Stages, Holding, Tearing, Job,
         Proc, Idle, Blank, Files, Slots
<1>3. ReservationsHeld'
  BY SMTT(40)
     DEF TypeOK, SlotsExclusive, ReservationsHeld, JobsConsistent, Connecting,
         Stages, Holding, Tearing, Job, Proc, Idle, Blank, Files, Slots
<1>4. OneOwner'
  BY SMTT(40)
     DEF TypeOK, OneOwner, Owned, Launching, Stopping, JobsConsistent, Stages,
         Holding, Tearing, Job, Proc, Idle, Blank, Files, Slots
<1>5. JobsConsistent'
  BY SMTT(40)
     DEF TypeOK, OneOwner, Owned, Launching, Stopping, JobsConsistent, Stages,
         Holding, Tearing, Job, Proc, Idle, Blank, Files, Slots
<1>6. QED BY <1>1, <1>2, <1>3, <1>4, <1>5 DEF Inv

(* SslDisconnect: what leaves the registry has one new owner.              *)
LEMMA TakeOutKeepsInv ==
    ASSUME Inv, NEW t \in Threads, NEW n \in Names \cup {NoName},
           NEW gone \in SUBSET Procs, gone \subseteq tunnels, TakeOut(t, n, gone)
    PROVE  Inv'
<1> USE ConstantsAssumption DEF Inv, Actors
<1> USE DEF TakeOut
<1>1. TypeOK'
  <2>1. life' \in {"up", "stopping", "down"} /\ tunnels' \subseteq Procs
    BY DEF TypeOK, JobsConsistent, Holding
  <2>2. reserved' \subseteq Slots
    BY DEF TypeOK, Job
  <2>3. job' \in [Actors -> Job]
    <3>0. job[t] \in Job /\ "closing" \in Stages
      BY DEF TypeOK, Stages, Tearing
    <3>1. [job[t] EXCEPT !.at = "closing", !.name = n, !.doomed = gone] \in Job
      BY <3>0, JobCloses
    <3> QED BY <3>1 DEF TypeOK
  <2>4. proc' \in [Procs -> Proc]
    BY DEF TypeOK, JobsConsistent, Job, Proc, Blank, Files, Holding
  <2> QED BY <2>1, <2>2, <2>3, <2>4 DEF TypeOK
<1>2. SlotsExclusive'
  BY SMTT(40)
     DEF TypeOK, SlotsExclusive, ReservationsHeld, JobsConsistent, OneOwner,
         Owned, Launching, Stopping, Connecting, Stages, Holding, Tearing, Job,
         Proc, Idle, Blank, Files, Slots
<1>3. ReservationsHeld'
  BY SMTT(40)
     DEF TypeOK, SlotsExclusive, ReservationsHeld, JobsConsistent, Connecting,
         Stages, Holding, Tearing, Job, Proc, Idle, Blank, Files, Slots
<1>4. OneOwner'
  <2> USE DEF OneOwner, JobsConsistent, TypeOK, Job, Proc, Idle, Blank, Tearing, Holding, Slots
  <2>1. \A q \in Procs : proc'[q].os \in {"running", "exited"} => Owned(q)'
    BY DEF Owned, Launching, Stopping
  <2>2. \A q \in tunnels' : ~Launching(q)' /\ ~Stopping(q)'
    BY DEF Owned, Launching, Stopping
  <2>3. \A q \in Procs : ~(Launching(q)' /\ Stopping(q)')
    BY DEF Launching, Stopping
  <2>4. \A u, v \in Threads : job'[u].proc = job'[v].proc /\ job'[u].proc # NoProc => u = v
    BY DEF Launching
  <2>5. \A b, c \in Actors : b # c => job'[b].doomed \cap job'[c].doomed = {}
    BY DEF Owned, Launching, Stopping
  <2> QED BY <2>1, <2>2, <2>3, <2>4, <2>5 DEF OneOwner
<1>5. JobsConsistent'
  BY SMTT(40)
     DEF TypeOK, OneOwner, Owned, Launching, Stopping, JobsConsistent, Stages,
         Holding, Tearing, Job, Proc, Idle, Blank, Files, Slots
<1>6. QED BY <1>1, <1>2, <1>3, <1>4, <1>5 DEF Inv

(* A finished disconnect owns nothing.                                     *)
LEMMA DisconnectDoneKeepsInv ==
    ASSUME Inv, NEW t \in Threads, DisconnectDone(t)
    PROVE  Inv'
<1> USE ConstantsAssumption DEF Inv, Actors
<1> USE DEF DisconnectDone
<1>1. TypeOK'
  BY SMTT(40)
     DEF TypeOK, JobsConsistent, Stages, Holding, Tearing, Job, Proc, Idle,
         Blank, Files, Slots
<1>2. SlotsExclusive'
  BY SMTT(40)
     DEF TypeOK, SlotsExclusive, ReservationsHeld, JobsConsistent, OneOwner,
         Owned, Launching, Stopping, Connecting, Stages, Holding, Tearing, Job,
         Proc, Idle, Blank, Files, Slots
<1>3. ReservationsHeld'
  BY SMTT(40)
     DEF TypeOK, SlotsExclusive, ReservationsHeld, JobsConsistent, Connecting,
         Stages, Holding, Tearing, Job, Proc, Idle, Blank, Files, Slots
<1>4. OneOwner'
  BY SMTT(40)
     DEF TypeOK, OneOwner, Owned, Launching, Stopping, JobsConsistent, Stages,
         Holding, Tearing, Job, Proc, Idle, Blank, Files, Slots
<1>5. JobsConsistent'
  BY SMTT(40)
     DEF TypeOK, OneOwner, Owned, Launching, Stopping, JobsConsistent, Stages,
         Holding, Tearing, Job, Proc, Idle, Blank, Files, Slots
<1>6. QED BY <1>1, <1>2, <1>3, <1>4, <1>5 DEF Inv

(* Pruning drops entries nobody else owns.                                 *)
LEMMA SslStatusKeepsInv ==
    ASSUME Inv, NEW t \in Threads, SslStatus(t)
    PROVE  Inv'
<1> USE ConstantsAssumption DEF Inv, Actors
<1> USE DEF SslStatus, Pruned, Dead
<1>1. TypeOK'
  BY SMTT(40)
     DEF TypeOK, JobsConsistent, Stages, Holding, Tearing, Job, Proc, Idle,
         Blank, Files, Slots
<1>2. SlotsExclusive'
  BY SMTT(40)
     DEF TypeOK, SlotsExclusive, ReservationsHeld, JobsConsistent, OneOwner,
         Owned, Launching, Stopping, Connecting, Stages, Holding, Tearing, Job,
         Proc, Idle, Blank, Files, Slots
<1>3. ReservationsHeld'
  BY SMTT(40)
     DEF TypeOK, SlotsExclusive, ReservationsHeld, JobsConsistent, Connecting,
         Stages, Holding, Tearing, Job, Proc, Idle, Blank, Files, Slots
<1>4. OneOwner'
  <2> USE DEF OneOwner, JobsConsistent, TypeOK, Job, Proc, Idle, Blank, Tearing, Holding, Slots
  <2>1. \A q \in Procs : proc'[q].os \in {"running", "exited"} => Owned(q)'
    BY DEF Owned, Launching, Stopping
  <2>2. \A q \in tunnels' : ~Launching(q)' /\ ~Stopping(q)'
    BY DEF Owned, Launching, Stopping
  <2>3. \A q \in Procs : ~(Launching(q)' /\ Stopping(q)')
    BY DEF Launching, Stopping
  <2>4. \A u, v \in Threads : job'[u].proc = job'[v].proc /\ job'[u].proc # NoProc => u = v
    BY DEF Launching
  <2>5. \A b, c \in Actors : b # c => job'[b].doomed \cap job'[c].doomed = {}
    BY DEF Owned, Launching, Stopping
  <2> QED BY <2>1, <2>2, <2>3, <2>4, <2>5 DEF OneOwner
<1>5. JobsConsistent'
  BY SMTT(40)
     DEF TypeOK, OneOwner, Owned, Launching, Stopping, JobsConsistent, Stages,
         Holding, Tearing, Job, Proc, Idle, Blank, Files, Slots
<1>6. QED BY <1>1, <1>2, <1>3, <1>4, <1>5 DEF Inv

(* shutdown takes what the registry holds.                                 *)
LEMMA BeginShutdownKeepsInv ==
    ASSUME Inv, BeginShutdown
    PROVE  Inv'
<1> USE ConstantsAssumption DEF Inv, Actors
<1> USE DEF BeginShutdown
<1>1. TypeOK'
  <2>1. life' \in {"up", "stopping", "down"} /\ tunnels' \subseteq Procs
    BY DEF TypeOK, JobsConsistent, Holding
  <2>2. reserved' \subseteq Slots
    BY DEF TypeOK, Job
  <2>3. job' \in [Actors -> Job]
    <3>1. [job[Svc] EXCEPT !.at = "closing", !.doomed = tunnels] \in Job
      BY DEF TypeOK, Stages, Holding, Tearing, Job
    <3> QED BY <3>1 DEF TypeOK
  <2>4. proc' \in [Procs -> Proc]
    BY DEF TypeOK, JobsConsistent, Job, Proc, Blank, Files, Holding
  <2> QED BY <2>1, <2>2, <2>3, <2>4 DEF TypeOK
<1>2. SlotsExclusive'
  BY SMTT(40)
     DEF TypeOK, SlotsExclusive, ReservationsHeld, JobsConsistent, OneOwner,
         Owned, Launching, Stopping, Connecting, Stages, Holding, Tearing, Job,
         Proc, Idle, Blank, Files, Slots
<1>3. ReservationsHeld'
  BY SMTT(40)
     DEF TypeOK, SlotsExclusive, ReservationsHeld, JobsConsistent, Connecting,
         Stages, Holding, Tearing, Job, Proc, Idle, Blank, Files, Slots
<1>4. OneOwner'
  BY SMTT(40)
     DEF TypeOK, OneOwner, Owned, Launching, Stopping, JobsConsistent, Stages,
         Holding, Tearing, Job, Proc, Idle, Blank, Files, Slots
<1>5. JobsConsistent'
  BY SMTT(40)
     DEF TypeOK, OneOwner, Owned, Launching, Stopping, JobsConsistent, Stages,
         Holding, Tearing, Job, Proc, Idle, Blank, Files, Slots
<1>6. QED BY <1>1, <1>2, <1>3, <1>4, <1>5 DEF Inv

(* A finished shutdown owns nothing.                                       *)
LEMMA ShutdownDoneKeepsInv ==
    ASSUME Inv, ShutdownDone
    PROVE  Inv'
<1> USE ConstantsAssumption DEF Inv, Actors
<1> USE DEF ShutdownDone
<1>1. TypeOK'
  BY SMTT(40)
     DEF TypeOK, JobsConsistent, Stages, Holding, Tearing, Job, Proc, Idle,
         Blank, Files, Slots
<1>2. SlotsExclusive'
  BY SMTT(40)
     DEF TypeOK, SlotsExclusive, ReservationsHeld, JobsConsistent, OneOwner,
         Owned, Launching, Stopping, Connecting, Stages, Holding, Tearing, Job,
         Proc, Idle, Blank, Files, Slots
<1>3. ReservationsHeld'
  BY SMTT(40)
     DEF TypeOK, SlotsExclusive, ReservationsHeld, JobsConsistent, Connecting,
         Stages, Holding, Tearing, Job, Proc, Idle, Blank, Files, Slots
<1>4. OneOwner'
  BY SMTT(40)
     DEF TypeOK, OneOwner, Owned, Launching, Stopping, JobsConsistent, Stages,
         Holding, Tearing, Job, Proc, Idle, Blank, Files, Slots
<1>5. JobsConsistent'
  BY SMTT(40)
     DEF TypeOK, OneOwner, Owned, Launching, Stopping, JobsConsistent, Stages,
         Holding, Tearing, Job, Proc, Idle, Blank, Files, Slots
<1>6. QED BY <1>1, <1>2, <1>3, <1>4, <1>5 DEF Inv

(* The end of the process: nothing is owned, what ran is an orphan.        *)
LEMMA GoneKeepsInv ==
    ASSUME Inv, Gone
    PROVE  Inv'
<1> USE ConstantsAssumption DEF Inv, Actors
<1> USE DEF Gone
<1>1. TypeOK'
  BY SMTT(40)
     DEF TypeOK, JobsConsistent, Stages, Holding, Tearing, Job, Proc, Idle,
         Blank, Files, Slots
<1>2. SlotsExclusive'
  BY SMTT(40)
     DEF TypeOK, SlotsExclusive, ReservationsHeld, JobsConsistent, OneOwner,
         Owned, Launching, Stopping, Connecting, Stages, Holding, Tearing, Job,
         Proc, Idle, Blank, Files, Slots
<1>3. ReservationsHeld'
  BY SMTT(40)
     DEF TypeOK, SlotsExclusive, ReservationsHeld, JobsConsistent, Connecting,
         Stages, Holding, Tearing, Job, Proc, Idle, Blank, Files, Slots
<1>4. OneOwner'
  BY SMTT(40)
     DEF TypeOK, OneOwner, Owned, Launching, Stopping, JobsConsistent, Stages,
         Holding, Tearing, Job, Proc, Idle, Blank, Files, Slots
<1>5. JobsConsistent'
  BY SMTT(40)
     DEF TypeOK, OneOwner, Owned, Launching, Stopping, JobsConsistent, Stages,
         Holding, Tearing, Job, Proc, Idle, Blank, Files, Slots
<1>6. QED BY <1>1, <1>2, <1>3, <1>4, <1>5 DEF Inv

(* A new broker owns nothing.                                              *)
LEMMA StartKeepsInv ==
    ASSUME Inv, Start
    PROVE  Inv'
<1> USE ConstantsAssumption DEF Inv, Actors
<1> USE DEF Start
<1>1. TypeOK'
  BY SMTT(40)
     DEF TypeOK, JobsConsistent, Stages, Holding, Tearing, Job, Proc, Idle,
         Blank, Files, Slots
<1>2. SlotsExclusive'
  BY SMTT(40)
     DEF TypeOK, SlotsExclusive, ReservationsHeld, JobsConsistent, OneOwner,
         Owned, Launching, Stopping, Connecting, Stages, Holding, Tearing, Job,
         Proc, Idle, Blank, Files, Slots
<1>3. ReservationsHeld'
  BY SMTT(40)
     DEF TypeOK, SlotsExclusive, ReservationsHeld, JobsConsistent, Connecting,
         Stages, Holding, Tearing, Job, Proc, Idle, Blank, Files, Slots
<1>4. OneOwner'
  BY SMTT(40)
     DEF TypeOK, OneOwner, Owned, Launching, Stopping, JobsConsistent, Stages,
         Holding, Tearing, Job, Proc, Idle, Blank, Files, Slots
<1>5. JobsConsistent'
  BY SMTT(40)
     DEF TypeOK, OneOwner, Owned, Launching, Stopping, JobsConsistent, Stages,
         Holding, Tearing, Job, Proc, Idle, Blank, Files, Slots
<1>6. QED BY <1>1, <1>2, <1>3, <1>4, <1>5 DEF Inv

(* An exit changes no ownership.                                           *)
LEMMA ProcessExitsKeepsInv ==
    ASSUME Inv, NEW p \in Procs, ProcessExits(p)
    PROVE  Inv'
<1> USE ConstantsAssumption DEF Inv, Actors
<1> USE DEF ProcessExits
<1>1. TypeOK'
  BY SMTT(40)
     DEF TypeOK, JobsConsistent, Stages, Holding, Tearing, Job, Proc, Idle,
         Blank, Files, Slots
<1>2. SlotsExclusive'
  BY SMTT(40)
     DEF TypeOK, SlotsExclusive, ReservationsHeld, JobsConsistent, OneOwner,
         Owned, Launching, Stopping, Connecting, Stages, Holding, Tearing, Job,
         Proc, Idle, Blank, Files, Slots
<1>3. ReservationsHeld'
  BY SMTT(40)
     DEF TypeOK, SlotsExclusive, ReservationsHeld, JobsConsistent, Connecting,
         Stages, Holding, Tearing, Job, Proc, Idle, Blank, Files, Slots
<1>4. OneOwner'
  BY SMTT(40)
     DEF TypeOK, OneOwner, Owned, Launching, Stopping, JobsConsistent, Stages,
         Holding, Tearing, Job, Proc, Idle, Blank, Files, Slots
<1>5. JobsConsistent'
  <2> USE DEF OneOwner, TypeOK, Job, Proc, Idle, Blank, Files, Tearing, Holding, Slots
  <2>1. \A u \in Threads :
           /\ job'[u].at # "stopped"
           /\ job'[u].proc # NoProc <=>
                job'[u].at \in {"auth", "spawn", "drive", "abandon", "cleanup", "register"}
    BY DEF JobsConsistent
  <2>2. \A u \in Threads :
           /\ job'[u].at \in {"auth", "spawn"} => proc'[job'[u].proc].os = "none"
           /\ job'[u].at \in {"drive", "abandon", "cleanup", "register"} =>
                proc'[job'[u].proc].os \in {"running", "exited"}
    BY DEF JobsConsistent, Launching, Stopping
  <2>3. \A u \in Threads :
           job'[u].proc # NoProc => /\ proc'[job'[u].proc].slot = job'[u].slot
                                   /\ proc'[job'[u].proc].files # {}
    BY DEF JobsConsistent, Launching, Stopping
  <2>4. /\ job'[Svc].at \in {"idle", "closing", "stopped"} /\ job'[Svc].proc = NoProc
        /\ \A b \in Actors : job'[b].at \notin Tearing => job'[b].doomed = {}
    BY DEF JobsConsistent
  <2>5. \A q \in Procs :
           q \in tunnels' \/ Stopping(q)' => proc'[q].os \in {"running", "exited"}
    <3>1. p \in tunnels \/ Stopping(p) => proc[p].os = "running"
      BY DEF JobsConsistent
    <3> QED BY <3>1 DEF JobsConsistent, Stopping
  <2>6. life' = "down" => /\ tunnels' = {} /\ reserved' = {}
                         /\ \A b \in Actors : job'[b] = Idle
    BY DEF JobsConsistent
  <2> QED BY <2>1, <2>2, <2>3, <2>4, <2>5, <2>6 DEF JobsConsistent
<1>6. QED BY <1>1, <1>2, <1>3, <1>4, <1>5 DEF Inv

-----------------------------------------------------------------------------

(* A new broker has handed out nothing. *)
LEMMA InitInv == Init => Inv
BY ConstantsAssumption
   DEF Init, Inv, TypeOK, SlotsExclusive, ReservationsHeld, OneOwner, Owned, Launching,
       Stopping, JobsConsistent, Connecting, Actors, Slots, Job, Proc, Idle, Blank,
       Stages, Holding, Tearing, Files

(* Every step of a connect keeps the invariant. *)
LEMMA ConnectStepKeepsInv ==
    ASSUME Inv, NEW t \in Threads, ConnectStep(t)
    PROVE  Inv'
BY EvictDoneKeepsInv, ReserveSlotKeepsInv, NoSlotLeftKeepsInv, RefuseConfigKeepsInv,
   StageConfigKeepsInv, StageAuthKeepsInv, SpawnKeepsInv, DrivenKeepsInv,
   DriveFailsKeepsInv, AbandonKeepsInv, CleanUpKeepsInv, RegisterKeepsInv,
   ReleaseSlotKeepsInv
   DEF ConnectStep

(* Every first step of a request keeps the invariant. *)
LEMMA RequestKeepsInv ==
    ASSUME Inv, NEW t \in Threads, Request(t)
    PROVE  Inv'
<1>1. tunnels \subseteq Procs
  BY DEF Inv, TypeOK
<1>2. ASSUME NEW n \in Names, ConnectEvict(t, n) PROVE Inv'
  BY <1>2, ConnectEvictKeepsInv
<1>3. ASSUME NEW n \in Names, SslDisconnect(t, n) PROVE Inv'
  <2> DEFINE gone == {p \in tunnels : proc[p].name = n}
  <2>1. gone \in SUBSET Procs /\ gone \subseteq tunnels
    BY <1>1
  <2>2. TakeOut(t, n, gone)
    BY <1>3 DEF SslDisconnect
  <2> HIDE DEF gone
  <2> QED BY <2>1, <2>2, TakeOutKeepsInv
<1>4. ASSUME SslDisconnectAll(t) PROVE Inv'
  BY <1>1, <1>4, TakeOutKeepsInv DEF SslDisconnectAll
<1>5. ASSUME SslStatus(t) PROVE Inv'
  BY <1>5, SslStatusKeepsInv
<1> QED BY <1>2, <1>3, <1>4, <1>5 DEF Request

(* Every step of the specification keeps the invariant. *)
LEMMA NextKeepsInv ==
    ASSUME Inv, [Next]_vars
    PROVE  Inv'
<1>1. ASSUME NEW a \in Actors, TearDown(a) PROVE Inv'
  BY <1>1, StopProcessKeepsInv, RemoveFilesKeepsInv DEF TearDown
<1>2. ASSUME NEW t \in Threads, Step(t) PROVE Inv'
  BY <1>1, <1>2, ConnectStepKeepsInv, DisconnectDoneKeepsInv DEF Step, Actors
<1>3. ASSUME ServiceStep PROVE Inv'
  BY <1>1, <1>3, ShutdownDoneKeepsInv, GoneKeepsInv
     DEF ServiceStep, ServiceExit, Actors
<1>4. CASE UNCHANGED vars
  BY <1>4
     DEF vars, Inv, TypeOK, SlotsExclusive, ReservationsHeld, OneOwner, Owned, Launching,
         Stopping, JobsConsistent, Connecting
<1> QED BY <1>2, <1>3, <1>4, RequestKeepsInv, BeginShutdownKeepsInv, GoneKeepsInv,
           StartKeepsInv, ProcessExitsKeepsInv
        DEF Next, Crash

(* The invariant holds of every behaviour of the broker. *)
THEOREM Invariance == Spec => []Inv
<1> QED BY InitInv, NextKeepsInv, PTL DEF Spec

(* Type correctness: no slot outside the pool is ever handed out and the   *)
(* registry holds nothing but processes the broker launched.               *)
THEOREM TypeCorrect == Spec => []TypeOK
<1>1. Inv => TypeOK
  BY DEF Inv
<1> QED BY Invariance, <1>1, PTL

(* The registry never hands one slot to two holders, whatever the number   *)
(* of concurrent requests, and never loses or leaks a reservation.         *)
THEOREM SlotsAreExclusive == Spec => [](SlotsExclusive /\ ReservationsHeld)
<1>1. Inv => SlotsExclusive /\ ReservationsHeld
  BY DEF Inv
<1> QED BY Invariance, <1>1, PTL

(* An openvpn process a living broker launched always has exactly one      *)
(* owner that will stop it.                                                *)
THEOREM ProcessesHaveOneOwner == Spec => []OneOwner
<1>1. Inv => OneOwner
  BY DEF Inv
<1> QED BY Invariance, <1>1, PTL

(* Where the slot of a running process is accounted for: with its entry,   *)
(* with the connect that launched it, or nowhere once it is being stopped. *)
LEMMA RunningAccounted ==
    ASSUME Inv, NEW p \in Procs, proc[p].os = "running", ~Stopping(p)
    PROVE  \/ p \in tunnels
           \/ \E t \in Connecting : job[t].proc = p /\ job[t].slot = proc[p].slot
<1>1. CASE p \in tunnels
  BY <1>1
<1>2. CASE Launching(p)
  <2>1. PICK t \in Threads : job[t].proc = p
    BY <1>2 DEF Launching
  <2>2. job[t].proc # NoProc
    BY <2>1, ConstantsAssumption
  <2>3. job[t].at \in Holding /\ job[t].slot = proc[p].slot
    BY <2>1, <2>2 DEF Inv, JobsConsistent, Holding
  <2> QED BY <2>1, <2>3 DEF Connecting
<1> QED BY <1>1, <1>2 DEF Inv, OneOwner, Owned

(* Two accounts of one slot would break SlotsExclusive.                    *)
LEMMA SharedAdapterFromInv ==
    ASSUME Inv
    PROVE  SharedAdapterIsDying
<1> SUFFICES ASSUME NEW p \in Procs, NEW q \in Procs,
                    proc[p].os = "running", proc[q].os = "running",
                    proc[p].slot = proc[q].slot, p # q,
                    ~Stopping(p), ~Stopping(q)
             PROVE  FALSE
  BY DEF SharedAdapterIsDying
<1>1. SlotsExclusive /\ ReservationsHeld
  BY DEF Inv
<1>2. CASE p \in tunnels /\ q \in tunnels
  BY <1>1, <1>2 DEF SlotsExclusive
<1>3. CASE p \notin tunnels /\ q \notin tunnels
  <2>1. PICK t \in Connecting : job[t].proc = p /\ job[t].slot = proc[p].slot
    BY <1>3, RunningAccounted
  <2>2. PICK u \in Connecting : job[u].proc = q /\ job[u].slot = proc[q].slot
    BY <1>3, RunningAccounted
  <2>3. t = u
    BY <1>1, <2>1, <2>2 DEF SlotsExclusive
  <2> QED BY <2>1, <2>2, <2>3
<1>4. CASE p \in tunnels /\ q \notin tunnels
  <2>1. PICK u \in Connecting : job[u].slot = proc[q].slot
    BY <1>4, RunningAccounted
  <2> QED BY <1>1, <1>4, <2>1 DEF SlotsExclusive, ReservationsHeld
<1>5. CASE p \notin tunnels /\ q \in tunnels
  <2>1. PICK t \in Connecting : job[t].slot = proc[p].slot
    BY <1>5, RunningAccounted
  <2> QED BY <1>1, <1>5, <2>1 DEF SlotsExclusive, ReservationsHeld
<1> QED BY <1>2, <1>3, <1>4, <1>5

(* An adapter carries two openvpn processes only while one of them has     *)
(* been taken out and is being stopped: the window in which an entry has   *)
(* left the registry before its process has exited is the only one.        *)
THEOREM SharedAdaptersAreLeaving == Spec => []SharedAdapterIsDying
<1>1. Inv => SharedAdapterIsDying
  BY SharedAdapterFromInv
<1> QED BY Invariance, <1>1, PTL

(* An entry that leaves the registry while its process runs is in the      *)
(* hands of the request that took it: ConnectEvict and SslDisconnect take  *)
(* only tunnels of the name they were given, SslDisconnectAll was given    *)
(* none, and nothing but a change of the broker's life drops an entry in   *)
(* any other way.                                                          *)
LEMMA TakenFromRegistry ==
    ASSUME Inv, [Next]_vars, NEW p \in tunnels \ tunnels', life' = life
    PROVE  \/ proc[p].os = "exited"
           \/ \E t \in Threads :
                /\ p \in job'[t].doomed
                /\ \/ job'[t].name = proc[p].name
                   \/ job'[t].at = "closing" /\ job'[t].name = NoName
<1> USE DEF Actors
<1>0. /\ job \in [Actors -> Job] /\ p \in Procs
      /\ \A a \in Actors : job[a].doomed \subseteq Procs
  BY DEF Inv, TypeOK, Job
<1>1. ASSUME NEW t \in Threads, NEW n \in Names, ConnectEvict(t, n), proc[p].os # "exited"
      PROVE  p \in job'[t].doomed /\ job'[t].name = proc[p].name
  <2>1. p \notin Dead
    BY <1>1 DEF Dead
  <2>2. PICK q \in SameName(n) :
           /\ tunnels' = (tunnels \ Dead) \ {q}
           /\ job' = [job EXCEPT ![t] =
                         [@ EXCEPT !.at = "evicting", !.name = n,
                                   !.doomed = {q}]]
    BY <1>1, <2>1 DEF ConnectEvict
  <2>3. q = p
    BY <2>1, <2>2
  <2> QED BY <2>2, <2>3, <1>0 DEF SameName, Job
<1>2. ASSUME NEW t \in Threads, NEW n, NEW gone, TakeOut(t, n, gone)
      PROVE  /\ p \in gone /\ p \in job'[t].doomed
             /\ job'[t].at = "closing" /\ job'[t].name = n
  BY <1>2, <1>0 DEF TakeOut, Job
<1>3. ASSUME NEW t \in Threads, Request(t), proc[p].os # "exited"
      PROVE  \E u \in Threads :
                /\ p \in job'[u].doomed
                /\ \/ job'[u].name = proc[p].name
                   \/ job'[u].at = "closing" /\ job'[u].name = NoName
  <2>1. CASE \E n \in Names : ConnectEvict(t, n)
    BY <2>1, <1>1, <1>3
  <2>2. CASE \E n \in Names : SslDisconnect(t, n)
    <3>1. PICK n \in Names : TakeOut(t, n, {q \in tunnels : proc[q].name = n})
      BY <2>2 DEF SslDisconnect
    <3>2. /\ p \in {q \in tunnels : proc[q].name = n} /\ p \in job'[t].doomed
          /\ job'[t].name = n
      BY <3>1, <1>2
    <3> QED BY <3>2
  <2>3. CASE SslDisconnectAll(t)
    <3>1. p \in job'[t].doomed /\ job'[t].at = "closing" /\ job'[t].name = NoName
      BY <2>3, <1>2 DEF SslDisconnectAll
    <3> QED BY <3>1
  <2>4. CASE SslStatus(t)
    BY <2>4, <1>3 DEF SslStatus, Dead
  <2> QED BY <1>3, <2>1, <2>2, <2>3, <2>4 DEF Request
<1>4. ASSUME NEW t \in Threads, Step(t) PROVE tunnels \subseteq tunnels'
  BY <1>4
     DEF Step, ConnectStep, TearDown, DisconnectDone, EvictDone, ReserveSlot, NoSlotLeft,
         RefuseConfig, StageConfig, StageAuth, Spawn, Driven, DriveFails, Abandon,
         CleanUp, Register, ReleaseSlot, StopProcess, RemoveFiles
<1>5. ASSUME BeginShutdown \/ Crash \/ Start PROVE life' # life
  BY <1>5 DEF BeginShutdown, Crash, Gone, Start
<1>6. ASSUME ServiceStep PROVE tunnels \subseteq tunnels' \/ life' # life
  <2>1. ServiceExit => life # "down"
    BY DEF ServiceExit, Inv, JobsConsistent, Idle
  <2> QED BY <1>6, <2>1
     DEF ServiceStep, TearDown, StopProcess, RemoveFiles, ShutdownDone, ServiceExit, Gone
<1>7. ASSUME NEW q \in Procs, ProcessExits(q) PROVE tunnels' = tunnels
  BY <1>7 DEF ProcessExits
<1> QED BY <1>3, <1>4, <1>5, <1>6, <1>7 DEF Next, vars

(* OthersStay: "any other one stays".  A live tunnel leaves the registry   *)
(* only by a connect or a disconnect of its own name, by a disconnect that *)
(* asked for all, or with the broker, whatever is in flight beside it.     *)
THEOREM OthersAreSpared == Spec => OthersStay
<1>1. ASSUME Inv, [Next]_vars
      PROVE  [\A p \in tunnels \ tunnels' :
                 \/ proc[p].os = "exited"
                 \/ life' # life
                 \/ \E t \in Threads :
                      /\ p \in job'[t].doomed
                      /\ \/ job'[t].name = proc[p].name
                         \/ job'[t].at = "closing" /\ job'[t].name = NoName]_vars
  BY <1>1, TakenFromRegistry
<1> QED BY <1>1, Invariance, PTL DEF Spec, OthersStay

(* A broker that starts on a clean directory has staged nothing.           *)
LEMMA InitSecrets == Init => SecretsOwned
BY DEF Init, SecretsOwned, Blank

(* A connect's files belong to it from the staging of the first one to the *)
(* registration: each step leaves the process with the thread (Kept), hands *)
(* it to the registry (Entered) or removes the files (Blanked: FileGuard). *)
LEMMA ConnectKeepsSecrets ==
    ASSUME Inv, ~StagingMayFail, SecretsOwned, NEW t \in Threads, ConnectStep(t)
    PROVE  SecretsOwned'
<1> USE DEF SecretsOwned, Owned, Launching, Stopping, Actors
<1>0. /\ job \in [Actors -> Job] /\ proc \in [Procs -> Proc] /\ NoProc \notin Procs
      /\ job[t] \in Job
  BY ConstantsAssumption DEF Inv, TypeOK
<1> DEFINE Same == /\ UNCHANGED <<life, tunnels, proc>>
                   /\ \A a \in Actors : a # t => job'[a] = job[a]
                   /\ job'[t].proc = job[t].proc /\ job'[t].doomed = job[t].doomed
<1>1. ASSUME Same PROVE SecretsOwned'
  <2>1. \A a \in Actors : job'[a].proc = job[a].proc /\ job'[a].doomed = job[a].doomed
    BY <1>1
  <2> QED BY <1>1, <2>1
<1>2. ASSUME EvictDone(t) \/ RefuseConfig(t) \/ Driven(t) \/ DriveFails(t) PROVE Same
  BY <1>0, <1>2 DEF EvictDone, RefuseConfig, Driven, DriveFails, Job
<1>3. ASSUME ReserveSlot(t) PROVE Same
  <2>1. PICK s \in Slots : job' = [job EXCEPT ![t] = [@ EXCEPT !.at = "stage", !.slot = s]]
    BY <1>3 DEF ReserveSlot
  <2> QED BY <1>0, <1>3, <2>1 DEF ReserveSlot, Job
<1>4. ASSUME NoSlotLeft(t) \/ ReleaseSlot(t) PROVE Same
  <2>1. job[t].proc = NoProc /\ job[t].doomed = {}
    BY <1>4 DEF NoSlotLeft, ReleaseSlot, Inv, JobsConsistent, Tearing
  <2> QED BY <1>0, <1>4, <2>1 DEF NoSlotLeft, ReleaseSlot, Idle
<1>5. ASSUME NEW p \in Procs, StageConfig(t, p) PROVE SecretsOwned'
  <2>1. job[t].proc = NoProc /\ job[t].doomed = {}
    BY <1>5 DEF StageConfig, Inv, JobsConsistent, Tearing
  <2>2. /\ UNCHANGED <<life, tunnels>>
        /\ job' = [job EXCEPT ![t] = [@ EXCEPT !.at = "auth", !.proc = p]]
        /\ \A q \in Procs : q # p => proc'[q] = proc[q]
    BY <1>0, <1>5 DEF StageConfig
  <2>3. /\ \A a \in Actors : a # t => job'[a] = job[a]
        /\ job'[t].proc = p /\ job'[t].doomed = {}
    BY <1>0, <2>1, <2>2 DEF Job
  <2>4. \A q \in Procs : Owned(q) => Owned(q)'
    BY <1>0, <2>1, <2>2, <2>3
  <2>5. Owned(p)'
    BY <2>3
  <2> HIDE DEF Owned
  <2> QED BY <2>2, <2>4, <2>5
<1>6. ASSUME StageAuth(t) \/ Spawn(t) \/ Abandon(t) \/ CleanUp(t) \/ Register(t)
      PROVE  SecretsOwned'
  <2>1. PICK p \in Procs : p = job[t].proc
    BY <1>0, <1>6
       DEF StageAuth, Spawn, Abandon, CleanUp, Register, Inv, JobsConsistent, Job
  <2>2. job[t].doomed = {}
    BY <1>6
       DEF StageAuth, Spawn, Abandon, CleanUp, Register, Inv, JobsConsistent, Tearing
  <2> DEFINE Kept == job'[t].proc = p
             Blanked == proc'[p].files = {}
             Entered == p \in tunnels'
  <2>3. /\ UNCHANGED life
        /\ \A q \in Procs : q # p => proc'[q] = proc[q]
        /\ tunnels \subseteq tunnels'
    BY <1>0, <1>6, <2>1 DEF StageAuth, Spawn, Abandon, CleanUp, Register
  <2>4. ASSUME NEW x, job' = [job EXCEPT ![t].at = x]
        PROVE  /\ \A a \in Actors : a # t => job'[a] = job[a]
               /\ job'[t].doomed = {} /\ Kept
    BY <1>0, <2>1, <2>2, <2>4 DEF Job
  <2>5. ASSUME proc' = [proc EXCEPT ![p] = Blank],
               job' = [job EXCEPT ![t] = [@ EXCEPT !.at = "release", !.proc = NoProc]]
        PROVE  /\ \A a \in Actors : a # t => job'[a] = job[a]
               /\ job'[t].doomed = {} /\ Blanked
    BY <1>0, <2>2, <2>5 DEF Job, Blank
  <2>6. ASSUME Register(t)
        PROVE  /\ \A a \in Actors : a # t => job'[a] = job[a]
               /\ job'[t].doomed = {} /\ Entered
    BY <1>0, <2>1, <2>6 DEF Register, Idle
  <2>7. /\ \A a \in Actors : a # t => job'[a] = job[a]
        /\ job'[t].doomed = {} /\ (Kept \/ Blanked \/ Entered)
    <3> HIDE DEF Kept, Blanked, Entered
    <3> QED BY <1>6, <2>1, <2>4, <2>5, <2>6 DEF StageAuth, Spawn, Abandon, CleanUp
  <2>8. \A q \in Procs : q # p /\ Owned(q) => Owned(q)'
    BY <1>0, <2>1, <2>2, <2>3, <2>7
  <2>9. Owned(p)' \/ proc'[p].files = {}
    BY <2>7
  <2> HIDE DEF Owned
  <2> QED BY <2>3, <2>8, <2>9
<1> HIDE DEF Same
<1> QED BY <1>1, <1>2, <1>3, <1>4, <1>5, <1>6 DEF ConnectStep

(* A teardown owns the tunnel until it has removed the tunnel's files.     *)
LEMMA TearDownKeepsSecrets ==
    ASSUME Inv, SecretsOwned, NEW a \in Actors, TearDown(a)
    PROVE  SecretsOwned'
<1> USE DEF SecretsOwned
<1>0. job \in [Actors -> Job] /\ proc \in [Procs -> Proc]
  BY DEF Inv, TypeOK
<1>1. PICK p \in Procs : StopProcess(a, p) \/ RemoveFiles(a, p)
  BY DEF TearDown
<1>2. /\ UNCHANGED <<life, tunnels>>
      /\ \A q \in Procs : q # p => proc'[q] = proc[q]
      /\ \A b \in Actors : job'[b].proc = job[b].proc
      /\ \A b \in Actors, q \in Procs : q # p /\ q \in job[b].doomed => q \in job'[b].doomed
  BY <1>0, <1>1 DEF StopProcess, RemoveFiles, Job
<1>3. p \in job'[a].doomed \/ proc'[p].files = {}
  BY <1>0, <1>1 DEF StopProcess, RemoveFiles, Job, Blank
<1> QED BY <1>2, <1>3 DEF Owned, Launching, Stopping, Actors

(* A request moves entries to its own thread, or drops those whose process *)
(* is dead, which removes their files (Tunnel::drop).                      *)
LEMMA RequestKeepsSecrets ==
    ASSUME Inv, SecretsOwned, NEW t \in Threads, Request(t)
    PROVE  SecretsOwned'
<1> USE DEF SecretsOwned, Actors
<1>0. /\ job \in [Actors -> Job] /\ proc \in [Procs -> Proc]
      /\ job[t].at = "idle" => job[t].doomed = {}
  BY DEF Inv, TypeOK, JobsConsistent, Tearing
<1>1. ASSUME NEW n \in Names, ConnectEvict(t, n) PROVE SecretsOwned'
  <2>1. /\ UNCHANGED life
        /\ job[t].doomed = {} /\ job'[t].proc = job[t].proc
        /\ \A a \in Actors : a # t => job'[a] = job[a]
        /\ \A p \in tunnels \ tunnels' : p \in Dead \/ p \in job'[t].doomed
    BY <1>0, <1>1 DEF ConnectEvict, Job
  <2>2. \A p \in Procs : IF p \in Dead THEN proc'[p].files = {} ELSE proc'[p] = proc[p]
    BY <1>1 DEF ConnectEvict, Pruned, Blank
  <2> QED BY <2>1, <2>2 DEF Owned, Launching, Stopping
<1>2. ASSUME NEW n, NEW gone, TakeOut(t, n, gone) PROVE SecretsOwned'
  <2>1. /\ UNCHANGED <<life, proc>>
        /\ job[t].doomed = {} /\ job'[t].proc = job[t].proc
        /\ \A a \in Actors : a # t => job'[a] = job[a]
        /\ \A p \in tunnels \ tunnels' : p \in job'[t].doomed
    BY <1>0, <1>2 DEF TakeOut, Job
  <2> QED BY <2>1 DEF Owned, Launching, Stopping
<1>3. ASSUME SslStatus(t) PROVE SecretsOwned'
  <2>1. /\ UNCHANGED <<life, job>> /\ tunnels' = tunnels \ Dead
        /\ \A p \in Procs : IF p \in Dead THEN proc'[p].files = {} ELSE proc'[p] = proc[p]
    BY <1>3 DEF SslStatus, Pruned, Blank
  <2> QED BY <2>1 DEF Owned, Launching, Stopping
<1> QED BY <1>1, <1>2, <1>3 DEF Request, SslDisconnect, SslDisconnectAll

(* A stop of the service takes every entry; a broker that is down owes     *)
(* nothing; a start sweeps the files of all runs before it.                *)
LEMMA ServiceKeepsSecrets ==
    ASSUME Inv, SecretsOwned,
           \/ BeginShutdown \/ ShutdownDone \/ Gone \/ Start
           \/ \E t \in Threads : DisconnectDone(t)
           \/ \E p \in Procs : ProcessExits(p)
    PROVE  SecretsOwned'
<1> USE DEF SecretsOwned, Actors
<1>0. /\ job \in [Actors -> Job] /\ proc \in [Procs -> Proc] /\ tunnels \subseteq Procs
      /\ job[Svc].proc = NoProc
      /\ \A t \in Threads : job[t].at = "closing" => job[t].proc = NoProc
  BY DEF Inv, TypeOK, JobsConsistent
<1>1. CASE BeginShutdown
  <2>1. job[Svc].doomed = {} /\ life = "up"
    BY <1>1 DEF BeginShutdown, Inv, JobsConsistent, Tearing
  <2>2. /\ proc' = proc /\ tunnels' = {} /\ tunnels \subseteq job'[Svc].doomed
        /\ \A t \in Threads : job'[t] = job[t]
    BY <1>0, <1>1, ConstantsAssumption DEF BeginShutdown, Job
  <2> QED BY <1>0, <2>1, <2>2, ConstantsAssumption DEF Owned, Launching, Stopping
<1>2. CASE ShutdownDone \/ \E t \in Threads : DisconnectDone(t)
  <2>1. /\ UNCHANGED <<life, tunnels, proc>>
        /\ \A a \in Actors : job'[a].proc = job[a].proc /\ job[a].doomed \subseteq job'[a].doomed
    BY <1>0, <1>2, ConstantsAssumption DEF ShutdownDone, DisconnectDone, Idle, Job
  <2> QED BY <2>1 DEF Owned, Launching, Stopping
<1>3. CASE Gone
  BY <1>3 DEF Gone
<1>4. CASE Start
  BY <1>0, <1>4 DEF Start, Blank, Proc
<1>5. CASE \E p \in Procs : ProcessExits(p)
  <2>1. /\ UNCHANGED <<life, tunnels, job>>
        /\ \A p \in Procs : proc'[p].files = proc[p].files
    BY <1>0, <1>5 DEF ProcessExits, Blank, Proc
  <2> QED BY <2>1 DEF Owned, Launching, Stopping
<1> QED BY <1>1, <1>2, <1>3, <1>4, <1>5

(* Every step of the broker keeps an owner for what is staged.             *)
LEMMA NextKeepsSecrets ==
    ASSUME Inv, ~StagingMayFail, SecretsOwned, [Next]_vars
    PROVE  SecretsOwned'
<1>1. CASE UNCHANGED vars
  BY <1>1 DEF vars, SecretsOwned, Owned, Launching, Stopping
<1>2. ASSUME NEW t \in Threads, Request(t) \/ Step(t) PROVE SecretsOwned'
  BY <1>2, RequestKeepsSecrets, ConnectKeepsSecrets, TearDownKeepsSecrets,
     ServiceKeepsSecrets
     DEF Step, Actors
<1>3. CASE ServiceStep
  BY <1>3, TearDownKeepsSecrets, ServiceKeepsSecrets DEF ServiceStep, ServiceExit, Actors
<1> QED BY <1>1, <1>2, <1>3, ServiceKeepsSecrets DEF Next, Crash

(* SecretsOwned, when writing a staged file succeeds: the key and the      *)
(* password are on disk only for a process that has an owner to delete them. *)
(* (When the write of the credentials fails, connect returns before the    *)
(* FileGuard exists and the property is false: the hazard at openvpn.rs:255.) *)
THEOREM SecretsHaveAnOwner ==
    ASSUME ~StagingMayFail
    PROVE  Spec => []SecretsOwned
<1>1. ASSUME Inv, SecretsOwned, [Next]_vars PROVE SecretsOwned'
  BY <1>1, NextKeepsSecrets
<1> QED BY <1>1, InitSecrets, Invariance, PTL DEF Spec

(* Who holds a slot: the registry entry that has it (its process), or the  *)
(* connect in flight that reserved it (its thread).                        *)
Holds(h, s) ==
    \/ h \in tunnels /\ proc[h].slot = s
    \/ h \in Connecting /\ job[h].slot = s

(* SlotOwner names the holder of each slot, whichever the CHOOSE takes.    *)
OwnerIsHolder ==
    /\ SlotOwner = [s \in Slots |-> SlotOwner[s]]
    /\ \A s \in Slots : SlotOwner[s] # NoProc => Holds(SlotOwner[s], s)
    /\ \A s \in Slots, h \in Threads \cup Procs : Holds(h, s) => SlotOwner[s] = h

(* Because slots are exclusive there is never a second holder to choose.   *)
LEMMA OwnerHolds == Inv => OwnerIsHolder
<1> SUFFICES ASSUME Inv PROVE OwnerIsHolder
  OBVIOUS
<1> DEFINE entries(s) == {p \in tunnels : proc[p].slot = s}
           flights(s) == {t \in Connecting : job[t].slot = s}
<1>1. SlotOwner = [s \in Slots |-> IF entries(s) # {} THEN CHOOSE p \in entries(s) : TRUE
                     ELSE IF flights(s) # {} THEN CHOOSE t \in flights(s) : TRUE
                     ELSE NoProc]
  BY DEF SlotOwner
<1>2. ASSUME NEW s \in Slots
      PROVE  SlotOwner[s] = IF entries(s) # {} THEN CHOOSE p \in entries(s) : TRUE
                     ELSE IF flights(s) # {} THEN CHOOSE t \in flights(s) : TRUE
                     ELSE NoProc
  <2> HIDE DEF entries, flights
  <2> QED BY <1>1
<1>3. SlotOwner = [s \in Slots |-> SlotOwner[s]]
  <2> HIDE DEF entries, flights
  <2> QED BY <1>1
<1>4. ASSUME NEW s \in Slots, SlotOwner[s] # NoProc PROVE Holds(SlotOwner[s], s)
  <2>1. SlotOwner[s] \in entries(s) \cup flights(s)
    <3> HIDE DEF entries, flights
    <3> QED BY <1>2, <1>4
  <2> QED BY <2>1 DEF Holds
<1>5. ASSUME NEW s \in Slots, NEW h, Holds(h, s) PROVE SlotOwner[s] = h
  <2>1. /\ \A p, q \in entries(s) : p = q
        /\ \A t, u \in flights(s) : t = u
        /\ entries(s) = {} \/ flights(s) = {}
        /\ h \in entries(s) \cup flights(s)
    BY <1>5 DEF Inv, SlotsExclusive, ReservationsHeld, Holds
  <2> HIDE DEF entries, flights
  <2> QED BY <1>2, <2>1
<1> QED BY <1>3, <1>4, <1>5 DEF OwnerIsHolder

(* The same of the state a step leads to.                                  *)
LEMMA OwnerHoldsNext == Inv' => OwnerIsHolder'
BY OwnerHolds, PTL

(* A broker that starts has handed out nothing.                            *)
LEMMA InitPool == Init => Pool!PoolInit
<1> SUFFICES ASSUME Init PROVE Pool!PoolInit
  OBVIOUS
<1>1. tunnels = {} /\ Connecting = {}
  BY DEF Init, Connecting, Holding, Idle, Actors
<1> QED BY <1>1 DEF Pool!PoolInit, SlotOwner

(* A step that only loses holders (a disconnect, a prune, a failed         *)
(* connect, the end of the broker) gives their slots up, or changes        *)
(* nothing.                                                                *)
LEMMA HoldersLeave ==
    ASSUME Inv, Inv',
           \A s \in Slots, h \in Threads \cup Procs : Holds(h, s)' => Holds(h, s)
    PROVE  [Pool!PoolNext]_SlotOwner
<1> DEFINE S == {s \in Slots : SlotOwner[s] # NoProc /\ SlotOwner'[s] = NoProc}
<1>1. OwnerIsHolder /\ OwnerIsHolder'
  BY OwnerHolds, OwnerHoldsNext
<1>2. ASSUME NEW s \in Slots, SlotOwner'[s] # NoProc PROVE SlotOwner'[s] = SlotOwner[s]
  <2>1. PICK h : h = SlotOwner'[s]
    OBVIOUS
  <2>2. Holds(h, s)'
    BY <1>1, <1>2, <2>1 DEF OwnerIsHolder
  <2>3. h \in Threads \cup Procs
    BY <2>2 DEF Holds, Connecting, Inv, TypeOK
  <2>4. Holds(h, s)
    BY <2>2, <2>3
  <2> QED BY <1>1, <2>1, <2>3, <2>4 DEF OwnerIsHolder
<1>3. \A s \in Slots : SlotOwner'[s] = IF s \in S THEN NoProc ELSE SlotOwner[s]
  BY <1>2
<1>4. SlotOwner' = [s \in Slots |-> IF s \in S THEN NoProc ELSE SlotOwner[s]]
  BY <1>1, <1>3 DEF OwnerIsHolder
<1>5. CASE S = {}
  <2>1. SlotOwner' = SlotOwner
    BY <1>1, <1>4, <1>5 DEF OwnerIsHolder
  <2> QED BY <2>1
<1>6. CASE S # {}
  <2>1. Pool!GiveUp(S)
    BY <1>4, <1>6 DEF Pool!GiveUp
  <2>2. \E X \in SUBSET Slots : Pool!GiveUp(X)
    <3>1. S \in SUBSET Slots
      OBVIOUS
    <3> HIDE DEF S
    <3> QED BY <2>1, <3>1
  <2> QED BY <2>2 DEF Pool!PoolNext
<1> QED BY <1>5, <1>6

(* The owners after a step, from the holders after it.                     *)
LEMMA OwnersFollow ==
    ASSUME Inv, Inv', NEW f, f = [s \in Slots |-> f[s]],
           \A s \in Slots : f[s] \in Threads \cup Procs \cup {NoProc},
           \A s \in Slots, h \in Threads \cup Procs : Holds(h, s)' <=> f[s] = h
    PROVE  SlotOwner' = f
<1>1. OwnerIsHolder'
  BY OwnerHoldsNext
<1>2. ASSUME NEW s \in Slots PROVE SlotOwner'[s] = f[s]
  <2>1. PICK h : h = SlotOwner'[s]
    OBVIOUS
  <2>2. CASE h # NoProc
    <3>1. Holds(h, s)'
      BY <1>1, <2>1, <2>2 DEF OwnerIsHolder
    <3>2. h \in Threads \cup Procs
      BY <3>1 DEF Holds, Connecting, Inv, TypeOK
    <3> QED BY <2>1, <3>1, <3>2
  <2>3. CASE f[s] # NoProc
    <3>1. PICK k \in Threads \cup Procs : f[s] = k
      BY <2>3
    <3>2. Holds(k, s)'
      BY <3>1
    <3> QED BY <1>1, <3>1, <3>2 DEF OwnerIsHolder
  <2> QED BY <2>1, <2>2, <2>3
<1> QED BY <1>1, <1>2 DEF OwnerIsHolder

(* OwnerIsHolder as an equivalence: nobody in SlotOwner but holders.       *)
LEMMA OwnersAreHolders ==
    ASSUME Inv
    PROVE  /\ SlotOwner = [s \in Slots |-> SlotOwner[s]]
           /\ \A s \in Slots : SlotOwner[s] \in Threads \cup Procs \cup {NoProc}
           /\ \A s \in Slots, h \in Threads \cup Procs : Holds(h, s) <=> SlotOwner[s] = h
BY OwnerHolds, ConstantsAssumption DEF OwnerIsHolder, Holds, Connecting, Inv, TypeOK

(* take_slot is the pool's grant: the lowest slot nobody owns, to a thread *)
(* that owned none.                                                        *)
LEMMA ReserveSlotGrants ==
    ASSUME Inv, Inv', NEW t \in Threads, ReserveSlot(t)
    PROVE  Pool!PoolNext
<1> USE ConstantsAssumption
<1>1. OwnerIsHolder /\ OwnerIsHolder' /\ TypeOK /\ ReservationsHeld
  BY OwnerHolds, OwnerHoldsNext DEF Inv
<1>2. PICK s \in Slots :
         /\ LowestFree(s)
         /\ job' = [job EXCEPT ![t] = [@ EXCEPT !.at = "stage", !.slot = s]]
  BY DEF ReserveSlot
<1>3. /\ UNCHANGED <<tunnels, proc>> /\ job[t].at = "reserve"
      /\ job'[t].at = "stage" /\ job'[t].slot = s
      /\ \A u \in Threads : u # t => job'[u] = job[u]
  <2>1. /\ job \in [Actors -> Job] /\ job[t] \in Job /\ t \in Actors
    BY <1>1 DEF TypeOK, Actors
  <2>2. UNCHANGED <<tunnels, proc>> /\ job[t].at = "reserve"
    BY DEF ReserveSlot
  <2>3. job'[t] = [job[t] EXCEPT !.at = "stage", !.slot = s]
    BY <1>2, <2>1
  <2> QED BY <1>2, <2>1, <2>2, <2>3 DEF Job, Actors
<1>4. /\ t \notin Connecting /\ t \notin tunnels
      /\ Connecting' = Connecting \cup {t}
  BY <1>1, <1>3 DEF Connecting, Holding, TypeOK
<1>5. \A r \in Slots, h \in Threads \cup Procs :
         Holds(h, r)' <=> Holds(h, r) \/ (h = t /\ r = s)
  BY <1>1, <1>3, <1>4 DEF Holds, Connecting, TypeOK
<1>6. \A r \in Slots : r \in Occupied => SlotOwner[r] # NoProc
  <2> SUFFICES ASSUME NEW r \in Slots, r \in Occupied PROVE SlotOwner[r] # NoProc
    OBVIOUS
  <2>1. PICK h \in Threads \cup Procs : Holds(h, r)
    BY <1>1 DEF Occupied, ReservationsHeld, Holds, Connecting, TypeOK
  <2> QED BY <1>1, <2>1 DEF OwnerIsHolder
<1>7. \A r \in Slots : r < s => SlotOwner[r] # NoProc
  BY <1>2, <1>6 DEF LowestFree, FreeSlots, Slots
<1>8. SlotOwner[s] = NoProc
  <2> SUFFICES ASSUME SlotOwner[s] # NoProc PROVE FALSE
    OBVIOUS
  <2>1. Holds(SlotOwner[s], s)
    BY <1>1 DEF OwnerIsHolder
  <2>2. s \in Occupied
    BY <1>1, <2>1 DEF Holds, Occupied, ReservationsHeld
  <2> QED BY <1>2, <2>2 DEF LowestFree, FreeSlots
<1>9. t \notin Pool!Owning
  <2> SUFFICES ASSUME NEW r \in Slots, SlotOwner[r] = t PROVE FALSE
    BY DEF Pool!Owning
  <2> QED BY <1>1, <1>4 DEF OwnerIsHolder, Holds
<1>10. SlotOwner' = [SlotOwner EXCEPT ![s] = t]
  <2> DEFINE f == [SlotOwner EXCEPT ![s] = t]
  <2>1. /\ f = [r \in Slots |-> IF r = s THEN t ELSE SlotOwner[r]]
        /\ \A r \in Slots : f[r] = IF r = s THEN t ELSE SlotOwner[r]
    BY OwnersAreHolders
  <2>2. \A r \in Slots, h \in Threads \cup Procs : Holds(h, r)' <=> f[r] = h
    BY <1>5, <1>8, <2>1, OwnersAreHolders
  <2>3. \A r \in Slots : f[r] \in Threads \cup Procs \cup {NoProc}
    BY <2>1, OwnersAreHolders
  <2>4. f = [r \in Slots |-> f[r]]
    BY <2>1
  <2> HIDE DEF f
  <2>5. SlotOwner' = f
    BY <2>2, <2>3, <2>4, OwnersFollow
  <2> QED BY <2>5 DEF f
<1>11. Pool!Grant(t)
  BY <1>7, <1>8, <1>9, <1>10 DEF Pool!Grant
<1> QED BY <1>11 DEF Pool!PoolNext

(* Registering the tunnel hands the slot from the connect over to the      *)
(* entry, with no instant at which nobody or both own it.                  *)
LEMMA RegisterHandsOver ==
    ASSUME Inv, Inv', NEW t \in Threads, Register(t)
    PROVE  Pool!PoolNext
<1> USE ConstantsAssumption
<1> DEFINE s == job[t].slot
<1>1. PICK p \in Procs : p = job[t].proc
  BY DEF Register, Inv, JobsConsistent, TypeOK, Job, Actors
<1>2. /\ OwnerIsHolder /\ TypeOK
      /\ proc[p].slot = s /\ p \notin tunnels /\ s \in Slots
      /\ t \in Connecting /\ t \notin tunnels
      /\ \A u \in Connecting : job[u].slot = s => u = t
  BY <1>1, OwnerHolds
     DEF Register, Inv, JobsConsistent, OneOwner, Launching, SlotsExclusive, TypeOK,
         Job, Actors, Connecting, Holding
<1>3. /\ proc' = proc /\ tunnels' = tunnels \cup {p}
      /\ Connecting' = Connecting \ {t}
      /\ \A u \in Threads : u # t => job'[u] = job[u]
  BY <1>1, <1>2 DEF Register, TypeOK, Job, Actors, Connecting, Holding, Idle
<1>4. \A r \in Slots, h \in Threads \cup Procs :
         Holds(h, r)' <=> (Holds(h, r) /\ h # t) \/ (h = p /\ r = s)
  BY <1>1, <1>2, <1>3 DEF Holds, Connecting, TypeOK
<1>5. SlotOwner[s] = t /\ \A r \in Slots : SlotOwner[r] = t => r = s
  BY <1>2, OwnersAreHolders DEF Holds
<1>6. p \notin Pool!Owning
  <2> SUFFICES ASSUME NEW r \in Slots, SlotOwner[r] = p PROVE FALSE
    BY DEF Pool!Owning
  <2>1. Holds(p, r)
    BY <1>1, OwnersAreHolders
  <2> QED BY <1>1, <1>2, <2>1 DEF Holds, Connecting
<1>7. SlotOwner' = [SlotOwner EXCEPT ![s] = p]
  <2> DEFINE f == [SlotOwner EXCEPT ![s] = p]
  <2>1. /\ f = [r \in Slots |-> IF r = s THEN p ELSE SlotOwner[r]]
        /\ \A r \in Slots : f[r] = IF r = s THEN p ELSE SlotOwner[r]
    BY <1>2, OwnersAreHolders
  <2>2. \A r \in Slots, h \in Threads \cup Procs : Holds(h, r)' <=> f[r] = h
    <3> HIDE DEF f, s
    <3> QED BY <1>2, <1>4, <1>5, <2>1, OwnersAreHolders
  <2>3. \A r \in Slots : f[r] \in Threads \cup Procs \cup {NoProc}
    BY <2>1, OwnersAreHolders
  <2>4. f = [r \in Slots |-> f[r]]
    BY <2>1
  <2> HIDE DEF f
  <2>5. SlotOwner' = f
    BY <2>2, <2>3, <2>4, OwnersFollow
  <2> QED BY <2>5 DEF f
<1>8. Pool!HandOver(t, p)
  BY <1>2, <1>5, <1>6, <1>7 DEF Pool!HandOver
<1> QED BY <1>1, <1>8 DEF Pool!PoolNext

(* HoldersLeave in the terms of the registry: no entry and no connect in   *)
(* flight appears or changes its slot.                                     *)
LEMMA EntriesAndFlightsLeave ==
    ASSUME Inv, Inv',
           \A p \in tunnels' : p \in tunnels /\ proc'[p].slot = proc[p].slot,
           \A t \in Threads : job'[t].at \in Holding =>
               job[t].at \in Holding /\ job'[t].slot = job[t].slot
    PROVE  [Pool!PoolNext]_SlotOwner
<1>1. \A s \in Slots, h \in Threads \cup Procs : Holds(h, s)' => Holds(h, s)
  BY DEF Holds, Connecting
<1> QED BY <1>1, HoldersLeave

(* No request hands a slot out by itself: it takes entries away.           *)
LEMMA RequestKeepsPool ==
    ASSUME Inv, Inv', NEW t \in Threads, Request(t)
    PROVE  [Pool!PoolNext]_SlotOwner
<1>0. job \in [Actors -> Job] /\ t \in Actors /\ proc \in [Procs -> Proc] /\ tunnels \subseteq Procs
  BY DEF Inv, TypeOK, Actors
<1>1. CASE \E n \in Names : ConnectEvict(t, n)
  <2>1. PICK n \in Names : ConnectEvict(t, n)
    BY <1>1
  <2>2. tunnels' \subseteq tunnels \ Dead
    BY <2>1 DEF ConnectEvict
  <2>3. \A p \in Procs \ Dead : proc'[p] = proc[p]
    BY <2>1 DEF ConnectEvict, Pruned
  <2>4. /\ \A u \in Threads : u # t => job'[u] = job[u]
        /\ job'[t].at \in {"reserve", "evicting"}
    <3>1. job[t] \in Job
      BY <1>0
    <3>2. ASSUME job' = [job EXCEPT ![t] = [@ EXCEPT !.at = "reserve", !.name = n]]
          PROVE  job'[t].at = "reserve" /\ \A u \in Threads : u # t => job'[u] = job[u]
      BY <1>0, <3>1, <3>2 DEF Job, Actors
    <3>3. ASSUME NEW p, job' = [job EXCEPT ![t] = [@ EXCEPT !.at = "evicting", !.name = n,
                                                            !.doomed = {p}]]
          PROVE  job'[t].at = "evicting" /\ \A u \in Threads : u # t => job'[u] = job[u]
      BY <1>0, <3>1, <3>3 DEF Job, Actors
    <3> QED BY <2>1, <3>2, <3>3 DEF ConnectEvict
  <2> QED BY <1>0, <2>2, <2>3, <2>4, EntriesAndFlightsLeave DEF Holding
<1>2. CASE SslDisconnectAll(t) \/ \E n \in Names : SslDisconnect(t, n)
  <2>1. PICK n, gone : TakeOut(t, n, gone)
    BY <1>2 DEF SslDisconnectAll, SslDisconnect
  <2>2. /\ \A p \in tunnels' : p \in tunnels /\ proc'[p].slot = proc[p].slot
        /\ \A u \in Threads : u # t => job'[u] = job[u]
        /\ job'[t].at = "closing"
    BY <1>0, <2>1 DEF TakeOut, Job, Actors
  <2> QED BY <2>2, EntriesAndFlightsLeave DEF Holding
<1>3. CASE SslStatus(t)
  <2>1. /\ \A p \in tunnels' : p \in tunnels /\ proc'[p].slot = proc[p].slot
        /\ job' = job
    BY <1>0, <1>3 DEF SslStatus, Pruned
  <2> QED BY <2>1, EntriesAndFlightsLeave
<1> QED BY <1>1, <1>2, <1>3 DEF Request

(* A handler's steps: the grant, the hand-over, and otherwise holders only *)
(* leave.  What a step writes about a process never touches an entry,      *)
(* because the process it writes about is owned by the thread.             *)
LEMMA StepKeepsPool ==
    ASSUME Inv, Inv', NEW t \in Threads, Step(t)
    PROVE  [Pool!PoolNext]_SlotOwner
<1>0. /\ job \in [Actors -> Job] /\ t \in Actors /\ job[t] \in Job
      /\ proc \in [Procs -> Proc] /\ tunnels \subseteq Procs
  BY DEF Inv, TypeOK, Actors
<1> DEFINE Others == \A u \in Threads : u # t => job'[u] = job[u]
           Onward == \/ job'[t].at \notin Holding
                     \/ job[t].at \in Holding /\ job'[t].slot = job[t].slot
           Entries == \A p \in tunnels' : p \in tunnels /\ proc'[p].slot = proc[p].slot
<1>1. ASSUME Others, Onward, Entries PROVE [Pool!PoolNext]_SlotOwner
  BY <1>1, EntriesAndFlightsLeave
<1>2. ASSUME EvictDone(t) \/ NoSlotLeft(t) \/ RefuseConfig(t) \/ Driven(t) \/ DriveFails(t)
             \/ ReleaseSlot(t) \/ DisconnectDone(t)
      PROVE  Others /\ Onward /\ Entries
  BY <1>0, <1>2
     DEF EvictDone, NoSlotLeft, RefuseConfig, Driven, DriveFails, ReleaseSlot,
         DisconnectDone, Job, Idle, Holding, Actors
<1>3. ASSUME NEW p \in Procs, StageConfig(t, p) PROVE Others /\ Onward /\ Entries
  <2>1. p \notin tunnels
    BY <1>3 DEF StageConfig, Unused, Inv, JobsConsistent, Blank
  <2>2. tunnels' = tunnels /\ \A q \in Procs : q # p => proc'[q] = proc[q]
    BY <1>0, <1>3 DEF StageConfig
  <2>3. Others /\ Onward
    BY <1>0, <1>3 DEF StageConfig, Job, Holding, Actors
  <2> QED BY <1>0, <2>1, <2>2, <2>3
<1>4. ASSUME StageAuth(t) \/ Spawn(t) \/ Abandon(t) \/ CleanUp(t)
      PROVE  Others /\ Onward /\ Entries
  <2>1. PICK p \in Procs : p = job[t].proc
    BY <1>0, <1>4
       DEF StageAuth, Spawn, Abandon, CleanUp, Inv, JobsConsistent, Job
  <2>2. p \notin tunnels
    BY <2>1 DEF Inv, OneOwner, Launching
  <2>3. tunnels' = tunnels /\ \A q \in Procs : q # p => proc'[q] = proc[q]
    BY <1>0, <1>4, <2>1 DEF StageAuth, Spawn, Abandon, CleanUp
  <2>4. Others /\ Onward
    BY <1>0, <1>4 DEF StageAuth, Spawn, Abandon, CleanUp, Job, Holding, Actors
  <2> QED BY <1>0, <2>2, <2>3, <2>4
<1>5. CASE TearDown(t)
  <2>1. PICK p \in Procs : StopProcess(t, p) \/ RemoveFiles(t, p)
    BY <1>5 DEF TearDown
  <2>2. p \notin tunnels
    BY <2>1, <1>0 DEF StopProcess, RemoveFiles, Inv, OneOwner, Stopping
  <2>3. tunnels' = tunnels /\ \A q \in Procs : q # p => proc'[q] = proc[q]
    BY <1>0, <2>1 DEF StopProcess, RemoveFiles
  <2>4. Others /\ job'[t].at = job[t].at /\ job'[t].slot = job[t].slot
    BY <1>0, <2>1 DEF StopProcess, RemoveFiles, Job, Actors
  <2> QED BY <1>0, <1>1, <2>2, <2>3, <2>4
<1> HIDE DEF Others, Onward, Entries
<1> QED BY <1>1, <1>2, <1>3, <1>4, <1>5, ReserveSlotGrants, RegisterHandsOver
        DEF Step, ConnectStep

(* The service's life and openvpn's own exits give slots up at most.       *)
LEMMA ServiceKeepsPool ==
    ASSUME Inv, Inv',
           \/ BeginShutdown \/ ServiceStep \/ Crash \/ Start
           \/ \E p \in Procs : ProcessExits(p)
    PROVE  [Pool!PoolNext]_SlotOwner
<1>0. /\ job \in [Actors -> Job] /\ proc \in [Procs -> Proc] /\ tunnels \subseteq Procs
  BY DEF Inv, TypeOK
<1>1. CASE BeginShutdown
  BY <1>0, <1>1, ConstantsAssumption, EntriesAndFlightsLeave DEF BeginShutdown, Actors
<1>2. CASE ShutdownDone
  BY <1>0, <1>2, ConstantsAssumption, EntriesAndFlightsLeave DEF ShutdownDone, Actors
<1>3. CASE Gone
  <2>1. tunnels' = {} /\ \A t \in Threads : job'[t].at \notin Holding
    BY <1>3 DEF Gone, Idle, Holding, Actors
  <2> QED BY <2>1, EntriesAndFlightsLeave
<1>4. CASE Start
  <2>1. tunnels' = {} /\ job' = job
    BY <1>4 DEF Start, Inv, JobsConsistent
  <2> QED BY <2>1, EntriesAndFlightsLeave
<1>5. CASE TearDown(Svc)
  <2>1. PICK p \in Procs : StopProcess(Svc, p) \/ RemoveFiles(Svc, p)
    BY <1>5 DEF TearDown
  <2>2. p \notin tunnels
    BY <2>1, <1>0 DEF StopProcess, RemoveFiles, Inv, OneOwner, Stopping, Actors
  <2>3. tunnels' = tunnels /\ \A q \in Procs : q # p => proc'[q] = proc[q]
    BY <1>0, <2>1 DEF StopProcess, RemoveFiles
  <2>4. \A u \in Threads : job'[u] = job[u]
    BY <1>0, <2>1, ConstantsAssumption DEF StopProcess, RemoveFiles, Job, Actors
  <2> QED BY <1>0, <2>2, <2>3, <2>4, EntriesAndFlightsLeave
<1>6. CASE \E p \in Procs : ProcessExits(p)
  <2>1. PICK p \in Procs : ProcessExits(p)
    BY <1>6
  <2>2. UNCHANGED <<tunnels, job>> /\ \A q \in Procs : q # p => proc'[q] = proc[q]
    BY <1>0, <2>1 DEF ProcessExits
  <2>3. proc[p].os = "orphan" \/ proc'[p].slot = proc[p].slot
    BY <1>0, <2>1 DEF ProcessExits, Proc
  <2>4. proc[p].os = "orphan" => p \notin tunnels
    BY DEF Inv, JobsConsistent
  <2> QED BY <1>0, <2>2, <2>3, <2>4, EntriesAndFlightsLeave
<1> QED BY <1>1, <1>2, <1>3, <1>4, <1>5, <1>6 DEF ServiceStep, ServiceExit, Crash

(* SlotOwner is a function of the broker's state.                          *)
LEMMA StutterKeepsPool == UNCHANGED vars => UNCHANGED SlotOwner
BY DEF vars, SlotOwner, Connecting

(* ImplementsPool: whatever the handler threads, the service and the       *)
(* openvpn processes do, the registry behaves as SlotPool: every slot has  *)
(* one owner, a newcomer gets the lowest free one, and an owned slot moves *)
(* only by the hand-over at registration or by being given up.             *)
THEOREM ImplementsSlotPool == Spec => ImplementsPool
<1>1. ASSUME Inv, Inv', [Next]_vars PROVE [Pool!PoolNext]_SlotOwner
  BY <1>1, RequestKeepsPool, StepKeepsPool, ServiceKeepsPool, StutterKeepsPool DEF Next
<1> QED BY <1>1, InitPool, Invariance, PTL DEF Spec, ImplementsPool, Pool!PoolSpec

(***************************************************************************)
(* The names.  A process carries the name of the connect that launched it, *)
(* and each connect that goes past its first section takes the place of a  *)
(* namesake it took out, or else finds only connects like itself.          *)
(***************************************************************************)
NamesFollow ==
    \A t \in Threads : job[t].proc # NoProc => proc[job[t].proc].name = job[t].name

AtMostThreads(S) == IsFiniteSet(S) /\ Cardinality(S) <= Cardinality(Threads)

NamesInv == NamesFollow /\ \A n \in Names : AtMostThreads(Namesakes(n))

(* A smaller set, or one with an element exchanged, is as bounded. *)
LEMMA FewerAreBounded ==
    ASSUME NEW S, AtMostThreads(S), NEW R, IsFiniteSet(Threads),
           R \subseteq S \/ \E x \in S : \E y : R \subseteq (S \ {x}) \cup {y}
    PROVE  AtMostThreads(R)
<1>1. Cardinality(S) \in Nat /\ Cardinality(Threads) \in Nat
  BY FS_CardinalityType DEF AtMostThreads
<1>2. CASE R \subseteq S
  <2>1. IsFiniteSet(R) /\ Cardinality(R) <= Cardinality(S)
    BY <1>2, FS_Subset DEF AtMostThreads
  <2>2. Cardinality(R) \in Nat
    BY <2>1, FS_CardinalityType
  <2> QED BY <1>1, <2>1, <2>2 DEF AtMostThreads
<1>3. ASSUME NEW x \in S, NEW y, R \subseteq (S \ {x}) \cup {y}
      PROVE  AtMostThreads(R)
  <2>1. IsFiniteSet(S \ {x}) /\ Cardinality(S \ {x}) = Cardinality(S) - 1
    BY FS_RemoveElement DEF AtMostThreads
  <2>2. Cardinality(S \ {x}) \in Nat
    BY <2>1, FS_CardinalityType
  <2> DEFINE T == (S \ {x}) \cup {y}
  <2>3. IsFiniteSet(T) /\ Cardinality(T) \in {Cardinality(S \ {x}), Cardinality(S \ {x}) + 1}
    BY <2>1, FS_AddElement
  <2>4. R \subseteq T
    BY <1>3
  <2> HIDE DEF T
  <2>5. IsFiniteSet(R) /\ Cardinality(R) <= Cardinality(T)
    BY <2>3, <2>4, FS_Subset
  <2>6. Cardinality(R) \in Nat
    BY <2>5, FS_CardinalityType
  <2> QED BY <1>1, <2>1, <2>2, <2>3, <2>5, <2>6 DEF AtMostThreads
<1> QED BY <1>2, <1>3

(* So are the threads themselves. *)
LEMMA ThreadsAreBounded ==
    ASSUME NEW R, IsFiniteSet(Threads), R \subseteq Threads
    PROVE  AtMostThreads(R)
BY FS_Subset, FS_CardinalityType DEF AtMostThreads

(* An entry of the registry has no thread at work on it. *)
LEMMA EntriesAlone ==
    ASSUME Inv
    PROVE  \A p \in tunnels : /\ p \in Procs /\ proc[p].os \in {"running", "exited"}
                              /\ \A a \in Actors : p \notin job[a].doomed
                              /\ \A t \in Threads : job[t].proc # p
BY DEF Inv, TypeOK, OneOwner, JobsConsistent, Launching, Stopping

(* What a step does that neither starts nor registers a connect.           *)
Quiet ==
    /\ tunnels' \subseteq tunnels
    /\ \A p \in tunnels' : proc'[p].name = proc[p].name
    /\ \A t \in Threads :
          job'[t].at \in InConnect => job[t].at \in InConnect /\ job'[t].name = job[t].name

(* Nobody gets a namesake then. *)
LEMMA QuietKeepsNames ==
    ASSUME NamesInv, IsFiniteSet(Threads), Quiet
    PROVE  (\A n \in Names : AtMostThreads(Namesakes(n)))'
<1>1. ASSUME NEW n \in Names
      PROVE  AtMostThreads(Namesakes(n)')
  <2>1. Namesakes(n)' \subseteq Namesakes(n)
    BY DEF Quiet, Namesakes
  <2> QED BY <2>1, FewerAreBounded DEF NamesInv
<1> QED BY <1>1 DEF AtMostThreads

(* A job that only moves on keeps its name, and its process.               *)
LEMMA JobMoves ==
    ASSUME NEW j \in Job, NEW x, NEW d, NEW s, NEW n
    PROVE  /\ [j EXCEPT !.at = x].at = x
           /\ [j EXCEPT !.at = x].name = j.name /\ [j EXCEPT !.at = x].proc = j.proc
           /\ [j EXCEPT !.at = x, !.slot = s].name = j.name
           /\ [j EXCEPT !.at = x, !.slot = s].proc = j.proc
           /\ [j EXCEPT !.at = x, !.doomed = d].at = x
           /\ [j EXCEPT !.at = x, !.doomed = d].name = j.name
           /\ [j EXCEPT !.at = x, !.doomed = d].proc = j.proc
           /\ [j EXCEPT !.at = x, !.name = n].at = x
           /\ [j EXCEPT !.at = x, !.name = n].name = n
           /\ [j EXCEPT !.at = x, !.name = n].proc = j.proc
           /\ [j EXCEPT !.at = x, !.name = n, !.doomed = d].at = x
           /\ [j EXCEPT !.at = x, !.name = n, !.doomed = d].name = n
           /\ [j EXCEPT !.at = x, !.name = n, !.doomed = d].proc = j.proc
BY DEF Job

(* One that moves on with a process, or without, keeps its name. *)
LEMMA JobChanges ==
    ASSUME NEW j \in Job, NEW x, NEW p, NEW k,
           k = [j EXCEPT !.at = x] \/ k = [j EXCEPT !.at = x, !.proc = p]
    PROVE  k.name = j.name /\ k.proc \in {j.proc, p}
BY DEF Job

(* A record with other files, or that of a process that ends or starts. *)
LEMMA RecordMoves ==
    ASSUME NEW r \in Proc, NEW x
    PROVE  /\ [r EXCEPT !.files = x].name = r.name
           /\ [r EXCEPT !.os = x].name = r.name
BY DEF Proc

(* What a step at work on one process does.                                *)
Calm(a) ==
    /\ tunnels' = tunnels
    /\ \A u \in Threads : u # a => job'[u] = job[u]
    /\ a \in Threads =>
         /\ job'[a].at \in InConnect => job[a].at \in InConnect /\ job'[a].name = job[a].name
         /\ job'[a].proc # NoProc => job'[a].proc = job[a].proc /\ job'[a].name = job[a].name
    /\ \A p \in Procs : \/ proc'[p].name = proc[p].name
                        \/ p \notin tunnels /\ \A u \in Threads : job'[u].proc # p

(* Neither an entry nor a thread's process changes its name in it. *)
LEMMA CalmIsQuiet ==
    ASSUME Inv, NamesFollow, NEW a \in Actors, Calm(a)
    PROVE  Quiet /\ NamesFollow'
<1>1. /\ tunnels \subseteq Procs
      /\ \A u \in Threads : job[u].proc # NoProc => job[u].proc \in Procs
  BY DEF Inv, TypeOK, Job, Actors
<1>2. Quiet
  BY <1>1 DEF Quiet, Calm
<1>3. NamesFollow'
  BY <1>1 DEF NamesFollow, Calm
<1> QED BY <1>2, <1>3

(* The steps of a connect up to its registration. *)
LEMMA ConnectIsQuiet ==
    ASSUME Inv, NamesFollow, NEW t \in Threads, ConnectStep(t), ~Register(t)
    PROVE  Quiet /\ NamesFollow'
<1> USE DEF Actors
<1>0. /\ job \in [Actors -> Job] /\ proc \in [Procs -> Proc] /\ NoProc \notin Procs
      /\ job[t] \in Job /\ tunnels \subseteq Procs
  BY ConstantsAssumption DEF Inv, TypeOK
<1>1. /\ job[t].proc # NoProc => job[t].proc \in Procs /\ job[t].proc \notin tunnels
      /\ \A u \in Threads \ {t} : job[u].proc = job[t].proc => job[t].proc = NoProc
      /\ \A p \in tunnels : proc[p].os \in {"running", "exited"}
  BY <1>0, EntriesAlone DEF Job, Inv, OneOwner
<1>2. job[t].at \in {"auth", "spawn", "drive", "abandon", "cleanup", "register"} <=>
        job[t].proc # NoProc
  BY DEF Inv, JobsConsistent
<1>3. ASSUME EvictDone(t) \/ ReserveSlot(t) \/ NoSlotLeft(t) \/ RefuseConfig(t)
               \/ Driven(t) \/ DriveFails(t) \/ ReleaseSlot(t)
      PROVE  Calm(t)
  <2>1. UNCHANGED <<tunnels, proc>> /\ \A u \in Threads : u # t => job'[u] = job[u]
    BY <1>0, <1>3
       DEF EvictDone, ReserveSlot, NoSlotLeft, RefuseConfig, Driven, DriveFails, ReleaseSlot
  <2>2. \/ job[t].at \in InConnect /\ job'[t].name = job[t].name /\ job'[t].proc = job[t].proc
        \/ job'[t].at = "idle" /\ job'[t].proc = NoProc
    <3>1. CASE NoSlotLeft(t) \/ ReleaseSlot(t)
      BY <1>0, <3>1 DEF NoSlotLeft, ReleaseSlot, Idle
    <3>2. CASE ReserveSlot(t)
      BY <1>0, <3>2, JobMoves DEF ReserveSlot, InConnect
    <3>3. CASE EvictDone(t) \/ RefuseConfig(t) \/ Driven(t) \/ DriveFails(t)
      <4>1. /\ job[t].at \in InConnect
            /\ \E x : job' = [job EXCEPT ![t] = [@ EXCEPT !.at = x]]
        BY <1>0, <3>3 DEF EvictDone, RefuseConfig, Driven, DriveFails, InConnect, Holding
      <4> QED BY <1>0, <4>1, JobMoves
    <3> QED BY <1>3, <3>1, <3>2, <3>3
  <2> QED BY <2>1, <2>2 DEF Calm, InConnect, Holding
<1>4. ASSUME StageAuth(t) \/ Spawn(t) \/ Abandon(t) \/ CleanUp(t)
      PROVE  Calm(t)
  <2>0. job[t].proc \in Procs
    BY <1>1, <1>2, <1>4 DEF StageAuth, Spawn, Abandon, CleanUp
  <2>1. /\ tunnels' = tunnels /\ \A u \in Threads : u # t => job'[u] = job[u]
        /\ job[t].at \in InConnect
        /\ \A p \in Procs : p # job[t].proc => proc'[p] = proc[p]
    BY <1>0, <1>4, <2>0 DEF StageAuth, Spawn, Abandon, CleanUp, InConnect, Holding
  <2>4. /\ job'[t].name = job[t].name
        /\ job'[t].proc \in {job[t].proc, NoProc}
    <3>1. \/ \E x : job'[t] = [job[t] EXCEPT !.at = x]
          \/ \E x : job'[t] = [job[t] EXCEPT !.at = x, !.proc = NoProc]
      <4>1. CASE StageAuth(t)
        BY <1>0, <4>1 DEF StageAuth
      <4>2. CASE Spawn(t)
        BY <1>0, <4>2 DEF Spawn
      <4>3. CASE Abandon(t)
        BY <1>0, <4>3 DEF Abandon
      <4>4. CASE CleanUp(t)
        BY <1>0, <4>4 DEF CleanUp
      <4> QED BY <1>4, <4>1, <4>2, <4>3, <4>4
    <3> QED BY <1>0, <3>1, JobChanges
  <2>2. proc'[job[t].proc].name = proc[job[t].proc].name \/ job'[t].proc = NoProc
    <3>1. proc[job[t].proc] \in Proc
      BY <1>0, <2>0
    <3>2. CASE StageAuth(t)
      <4>1. \E x : proc'[job[t].proc] = [proc[job[t].proc] EXCEPT !.files = x]
        BY <1>0, <2>0, <3>2 DEF StageAuth
      <4> QED BY <3>1, <4>1, RecordMoves
    <3>3. CASE Spawn(t)
      <4>1. \/ proc'[job[t].proc] = [proc[job[t].proc] EXCEPT !.os = "running"]
            \/ job'[t] = [job[t] EXCEPT !.at = "release", !.proc = NoProc]
        BY <1>0, <2>0, <3>3 DEF Spawn
      <4>2. [job[t] EXCEPT !.at = "release", !.proc = NoProc].proc = NoProc
        BY <1>0 DEF Job
      <4>3. [proc[job[t].proc] EXCEPT !.os = "running"].name = proc[job[t].proc].name
        BY <3>1, RecordMoves
      <4> QED BY <4>1, <4>2, <4>3, Zenon
    <3>4. CASE Abandon(t)
      BY <1>0, <2>0, <3>1, <3>4, RecordMoves DEF Abandon
    <3>5. CASE CleanUp(t)
      BY <1>0, <3>5, JobMoves DEF CleanUp
    <3> QED BY <1>4, <3>2, <3>3, <3>4, <3>5
  <2>3. ASSUME job'[t].proc = NoProc
        PROVE  \A u \in Threads : job'[u].proc # job[t].proc
    BY <1>0, <1>1, <2>0, <2>1, <2>3
  <2> QED BY <1>1, <2>0, <2>1, <2>2, <2>3, <2>4 DEF Calm
<1>5. ASSUME NEW p \in Procs, StageConfig(t, p)
      PROVE  Quiet /\ NamesFollow'
  <2>1. /\ p \notin tunnels /\ \A u \in Threads : job[u].proc # p
    BY <1>1, <1>5 DEF StageConfig, Unused, Blank
  <2>2. /\ tunnels' = tunnels /\ \A u \in Threads : u # t => job'[u] = job[u]
        /\ \A q \in Procs : q # p => proc'[q] = proc[q]
        /\ job[t].at \in InConnect
    BY <1>0, <1>5 DEF StageConfig, InConnect, Holding
  <2>7. proc'[p].name = job[t].name
    BY <1>0, <1>5 DEF StageConfig, Proc
  <2>8. job'[t].name = job[t].name /\ job'[t].proc \in {job[t].proc, p}
    <3>1. \/ \E x : job'[t] = [job[t] EXCEPT !.at = x]
          \/ \E x : job'[t] = [job[t] EXCEPT !.at = x, !.proc = p]
      BY <1>0, <1>5 DEF StageConfig
    <3> QED BY <1>0, <3>1, JobChanges
  <2>3. job[t].proc = NoProc
    BY <1>2, <1>5 DEF StageConfig
  <2>4. Quiet
    BY <1>0, <2>1, <2>2, <2>7, <2>8 DEF Quiet
  <2>5. \A u \in Threads : job[u].proc # NoProc => job[u].proc \in Procs
    BY <1>0 DEF Job
  <2>6. NamesFollow'
    BY <2>1, <2>2, <2>3, <2>5, <2>7, <2>8 DEF NamesFollow
  <2> QED BY <2>4, <2>6
<1>6. ASSUME Calm(t) PROVE Quiet /\ NamesFollow'
  BY <1>6, CalmIsQuiet
<1> QED BY <1>3, <1>4, <1>5, <1>6 DEF ConnectStep

(* A teardown blanks records that are nobody else's. *)
LEMMA TearDownIsQuiet ==
    ASSUME Inv, NamesFollow, NEW a \in Actors, TearDown(a)
    PROVE  Quiet /\ NamesFollow'
<1>0. /\ job \in [Actors -> Job] /\ proc \in [Procs -> Proc] /\ job[a] \in Job
  BY DEF Inv, TypeOK
<1>1. PICK p \in Procs : StopProcess(a, p) \/ RemoveFiles(a, p)
  BY DEF TearDown
<1>2. p \in job[a].doomed /\ p \notin tunnels /\ \A u \in Threads : job[u].proc # p
  <2>1. p \in job[a].doomed
    BY <1>1 DEF StopProcess, RemoveFiles
  <2> QED BY <2>1, EntriesAlone DEF Inv, OneOwner, Launching, Stopping
<1>3. /\ tunnels' = tunnels /\ \A u \in Actors : u # a => job'[u] = job[u]
      /\ job'[a].at = job[a].at /\ job'[a].name = job[a].name /\ job'[a].proc = job[a].proc
      /\ \A q \in Procs : q # p => proc'[q] = proc[q]
  BY <1>0, <1>1 DEF StopProcess, RemoveFiles, Job
<1>4. Calm(a)
  BY <1>2, <1>3 DEF Calm, Actors
<1> QED BY <1>4, CalmIsQuiet

(* Disconnects, status queries and the service's own steps start none. *)
LEMMA RestIsQuiet ==
    ASSUME Inv, NamesFollow,
           \/ \E t \in Threads : \/ \E n \in Names : SslDisconnect(t, n)
                                 \/ SslDisconnectAll(t) \/ SslStatus(t) \/ DisconnectDone(t)
           \/ BeginShutdown \/ ShutdownDone
    PROVE  Quiet /\ NamesFollow'
<1> USE DEF Actors
<1>0. /\ job \in [Actors -> Job] /\ proc \in [Procs -> Proc] /\ tunnels \subseteq Procs
      /\ Svc \notin Threads
      /\ \A u \in Threads : job[u] \in Job /\ (job[u].proc # NoProc => job[u].proc \in Procs)
  BY ConstantsAssumption DEF Inv, TypeOK, Job
<1>1. ASSUME NEW t \in Threads,
             (\E n \in Names : SslDisconnect(t, n)) \/ SslDisconnectAll(t) \/ DisconnectDone(t)
      PROVE  Quiet /\ NamesFollow'
  <2>1. /\ tunnels' \subseteq tunnels /\ proc' = proc
        /\ \A u \in Threads : u # t => job'[u] = job[u]
    BY <1>0, <1>1 DEF SslDisconnect, SslDisconnectAll, TakeOut, DisconnectDone
  <2>2. /\ job'[t].at \notin InConnect
        /\ \/ job'[t].proc = NoProc
           \/ job'[t].proc = job[t].proc /\ job'[t].name = job[t].name
    <3>1. CASE DisconnectDone(t)
      BY <1>0, <3>1 DEF DisconnectDone, Idle, InConnect, Holding
    <3>2. CASE (\E n \in Names : SslDisconnect(t, n)) \/ SslDisconnectAll(t)
      <4>1. /\ job[t].at = "idle"
            /\ \E d, m : job' = [job EXCEPT ![t] = [@ EXCEPT !.at = "closing", !.name = m,
                                                             !.doomed = d]]
        BY <3>2 DEF SslDisconnect, SslDisconnectAll, TakeOut
      <4>2. "closing" \notin InConnect
        BY DEF InConnect, Holding
      <4>3. job[t].proc = NoProc
        BY <4>1 DEF Inv, JobsConsistent
      <4> QED BY <1>0, <4>1, <4>2, <4>3, JobMoves
    <3> QED BY <1>1, <3>1, <3>2
  <2> QED BY <2>1, <2>2 DEF Quiet, NamesFollow
<1>2. ASSUME BeginShutdown \/ ShutdownDone
      PROVE  Quiet /\ NamesFollow'
  <2>1. /\ tunnels' \subseteq tunnels /\ proc' = proc
        /\ \A u \in Threads : job'[u] = job[u]
    BY <1>0, <1>2 DEF BeginShutdown, ShutdownDone
  <2> QED BY <2>1 DEF Quiet, NamesFollow
<1>3. ASSUME NEW t \in Threads, SslStatus(t)
      PROVE  Quiet /\ NamesFollow'
  <2>1. /\ tunnels' = tunnels \ Dead /\ job' = job /\ Dead \subseteq tunnels
        /\ \A p \in Procs \ Dead : proc'[p] = proc[p]
    BY <1>0, <1>3 DEF SslStatus, Pruned, Dead
  <2>2. \A p \in Dead : \A u \in Threads : job[u].proc # p
    BY <2>1, EntriesAlone
  <2> QED BY <1>0, <2>1, <2>2 DEF Quiet, NamesFollow
<1> QED BY <1>1, <1>2, <1>3

(* Nor do the end of the broker, its next start, and an openvpn's own end. *)
LEMMA EndsAreQuiet ==
    ASSUME Inv, NamesFollow,
           Gone \/ Start \/ (\E p \in Procs : ProcessExits(p)) \/ UNCHANGED vars
    PROVE  Quiet /\ NamesFollow'
<1> USE DEF Actors
<1>0. /\ job \in [Actors -> Job] /\ proc \in [Procs -> Proc] /\ tunnels \subseteq Procs
      /\ \A u \in Threads : job[u] \in Job /\ (job[u].proc # NoProc => job[u].proc \in Procs)
  BY DEF Inv, TypeOK, Job
<1>1. CASE Gone
  BY <1>1 DEF Gone, Quiet, NamesFollow, Idle, InConnect, Holding
<1>2. CASE Start
  <2>1. /\ tunnels = {} /\ tunnels' = {} /\ job' = job
        /\ \A u \in Threads : job[u].at = "idle" /\ job[u].proc = NoProc
    BY <1>2 DEF Start, Inv, JobsConsistent, Idle
  <2> QED BY <2>1 DEF Quiet, NamesFollow
<1>3. ASSUME NEW p \in Procs, ProcessExits(p)
      PROVE  Quiet /\ NamesFollow'
  <2>1. tunnels' = tunnels /\ job' = job /\ \A q \in Procs : q # p => proc'[q] = proc[q]
    BY <1>0, <1>3 DEF ProcessExits
  <2>2. proc'[p].name = proc[p].name \/ proc[p].os = "orphan"
    BY <1>0, <1>3 DEF ProcessExits, Proc
  <2>3. proc[p].os = "orphan" => p \notin tunnels /\ \A u \in Threads : job[u].proc # p
    <3>1. \A u \in Threads : job[u].proc # NoProc =>
             proc[job[u].proc].os \in {"none", "running", "exited"}
      BY DEF Inv, JobsConsistent
    <3>2. p # NoProc
      BY ConstantsAssumption
    <3> QED BY <3>1, <3>2, EntriesAlone
  <2> QED BY <1>0, <2>1, <2>2, <2>3 DEF Quiet, NamesFollow
<1>4. CASE UNCHANGED vars
  BY <1>4 DEF vars, Quiet, NamesFollow
<1> QED BY <1>1, <1>2, <1>3, <1>4

(* A connect that goes past its first section has no namesake left, or     *)
(* takes the place of the one it took out.                                 *)
LEMMA EvictKeepsNames ==
    ASSUME Inv, NamesInv, IsFiniteSet(Threads), NEW t \in Threads, NEW n \in Names,
           ConnectEvict(t, n)
    PROVE  NamesInv'
<1> USE DEF Actors
<1>0. /\ job \in [Actors -> Job] /\ proc \in [Procs -> Proc] /\ tunnels \subseteq Procs
      /\ \A u \in Threads : job[u] \in Job /\ (job[u].proc # NoProc => job[u].proc \in Procs)
      /\ Threads \cap Procs = {} /\ job[t].at = "idle" /\ job[t].proc = NoProc
  BY ConstantsAssumption DEF Inv, TypeOK, Job, ConnectEvict, JobsConsistent
<1>1. /\ tunnels' \subseteq tunnels \ Dead /\ Dead \subseteq tunnels
      /\ \A p \in Procs \ Dead : proc'[p] = proc[p]
      /\ \A u \in Threads : u # t => job'[u] = job[u]
  BY <1>0 DEF ConnectEvict, Pruned, Dead
<1>5. job'[t].at \in {"evicting", "reserve"} /\ job'[t].name = n /\ job'[t].proc = NoProc
  <2>1. \/ job' = [job EXCEPT ![t] = [@ EXCEPT !.at = "reserve", !.name = n]]
        \/ \E d : job' = [job EXCEPT ![t] =
                              [@ EXCEPT !.at = "evicting", !.name = n, !.doomed = d]]
    BY DEF ConnectEvict
  <2>2. ASSUME job' = [job EXCEPT ![t] = [@ EXCEPT !.at = "reserve", !.name = n]]
        PROVE  job'[t].at = "reserve" /\ job'[t].name = n /\ job'[t].proc = NoProc
    <3>1. job'[t] = [job[t] EXCEPT !.at = "reserve", !.name = n]
      BY <1>0, <2>2
    <3> QED BY <1>0, <3>1, JobMoves
  <2>3. ASSUME NEW d, job' = [job EXCEPT ![t] =
                                 [@ EXCEPT !.at = "evicting", !.name = n, !.doomed = d]]
        PROVE  job'[t].at = "evicting" /\ job'[t].name = n /\ job'[t].proc = NoProc
    <3>1. job'[t] = [job[t] EXCEPT !.at = "evicting", !.name = n, !.doomed = d]
      BY <1>0, <2>3
    <3> QED BY <1>0, <3>1, JobMoves
  <2> QED BY <2>1, <2>2, <2>3
<1>2. NamesFollow'
  <2>1. \A p \in Dead : \A u \in Threads : job[u].proc # p
    BY <1>1, EntriesAlone
  <2> QED BY <1>0, <1>1, <1>5, <2>1 DEF NamesInv, NamesFollow
<1>3. ASSUME NEW m \in Names
      PROVE  AtMostThreads(Namesakes(m)')
  <2>1. Namesakes(m)' \subseteq Namesakes(m) \cup (IF m = n THEN {t} ELSE {})
    BY <1>0, <1>1, <1>5 DEF Namesakes
  <2>2. CASE m # n
    BY <2>1, <2>2, FewerAreBounded DEF NamesInv
  <2>3. CASE m = n /\ SameName(n) = {}
    <3>1. Namesakes(n)' \subseteq Threads
      BY <1>0, <1>1, <1>5, <2>3 DEF Namesakes, SameName
    <3> QED BY <2>3, <3>1, ThreadsAreBounded
  <2>4. CASE m = n /\ SameName(n) # {}
    <3>1. PICK p \in SameName(n) : tunnels' = (tunnels \ Dead) \ {p}
      BY <2>4 DEF ConnectEvict
    <3>2. p \in Namesakes(n) /\ p \notin Threads
      BY <1>0, <3>1 DEF SameName, Namesakes
    <3>3. p \notin Namesakes(n)'
      BY <3>1, <3>2 DEF Namesakes
    <3>4. Namesakes(n)' \subseteq (Namesakes(n) \ {p}) \cup {t}
      BY <2>1, <2>4, <3>3
    <3> QED BY <2>4, <3>2, <3>4, FewerAreBounded DEF NamesInv
  <2> QED BY <2>2, <2>3, <2>4
<1> QED BY <1>2, <1>3 DEF NamesInv, AtMostThreads

(* A connect that registers becomes an entry of its own name. *)
LEMMA RegisterKeepsNames ==
    ASSUME Inv, NamesInv, IsFiniteSet(Threads), NEW t \in Threads, Register(t)
    PROVE  NamesInv'
<1> USE DEF Actors
<1>0. /\ job \in [Actors -> Job] /\ Threads \cap Procs = {} /\ tunnels \subseteq Procs
      /\ job[t].proc # NoProc /\ job[t].at = "register" /\ job[t] \in Job
  BY ConstantsAssumption DEF Inv, TypeOK, JobsConsistent, Register
<1>1. /\ tunnels' = tunnels \cup {job[t].proc} /\ proc' = proc
      /\ \A u \in Threads : u # t => job'[u] = job[u]
      /\ job'[t].at = "idle" /\ job'[t].proc = NoProc
  BY <1>0 DEF Register, Idle
<1>2. NamesFollow'
  BY <1>1 DEF NamesInv, NamesFollow
<1>3. proc[job[t].proc].name = job[t].name
  BY <1>0 DEF NamesInv, NamesFollow
<1>4. ASSUME NEW m \in Names
      PROVE  AtMostThreads(Namesakes(m)')
  <2>1. t \notin Namesakes(m)'
    BY <1>0, <1>1 DEF Namesakes, InConnect, Holding, Job
  <2>2. CASE job[t].name # m
    <3>1. Namesakes(m)' \subseteq Namesakes(m)
      BY <1>1, <1>3, <2>1, <2>2 DEF Namesakes, InConnect, Holding
    <3> QED BY <3>1, FewerAreBounded DEF NamesInv
  <2>3. CASE job[t].name = m
    <3>1. t \in Namesakes(m)
      BY <1>0, <2>3 DEF Namesakes, InConnect, Holding
    <3>2. Namesakes(m)' \subseteq (Namesakes(m) \ {t}) \cup {job[t].proc}
      BY <1>1, <2>1 DEF Namesakes, InConnect, Holding
    <3> QED BY <3>1, <3>2, FewerAreBounded DEF NamesInv
  <2> QED BY <2>2, <2>3
<1> QED BY <1>2, <1>4 DEF NamesInv, AtMostThreads

(* Every step of the specification keeps the names bounded. *)
LEMMA NextKeepsNames ==
    ASSUME Inv, NamesInv, IsFiniteSet(Threads), [Next]_vars
    PROVE  NamesInv'
<1>1. ASSUME Quiet /\ NamesFollow' PROVE NamesInv'
  BY <1>1, QuietKeepsNames DEF NamesInv
<1>2. ASSUME NEW t \in Threads, Request(t) PROVE NamesInv'
  <2>1. ASSUME NEW n \in Names, ConnectEvict(t, n) PROVE NamesInv'
    BY <2>1, EvictKeepsNames
  <2>2. ASSUME (\E n \in Names : SslDisconnect(t, n)) \/ SslDisconnectAll(t) \/ SslStatus(t)
        PROVE  NamesInv'
    BY <1>1, <2>2, RestIsQuiet DEF NamesInv
  <2> QED BY <1>2, <2>1, <2>2 DEF Request
<1>3. ASSUME NEW t \in Threads, Step(t) PROVE NamesInv'
  <2>1. CASE Register(t)
    BY <2>1, RegisterKeepsNames
  <2>2. CASE ConnectStep(t) /\ ~Register(t)
    BY <1>1, <2>2, ConnectIsQuiet DEF NamesInv
  <2>3. CASE TearDown(t)
    BY <1>1, <2>3, TearDownIsQuiet DEF NamesInv, Actors
  <2>4. CASE DisconnectDone(t)
    BY <1>1, <2>4, RestIsQuiet DEF NamesInv
  <2> QED BY <1>3, <2>1, <2>2, <2>3, <2>4 DEF Step
<1>4. CASE BeginShutdown \/ ShutdownDone
  BY <1>1, <1>4, RestIsQuiet DEF NamesInv
<1>5. CASE TearDown(Svc)
  BY <1>1, <1>5, TearDownIsQuiet DEF NamesInv, Actors
<1>6. CASE Gone \/ Start \/ (\E p \in Procs : ProcessExits(p)) \/ UNCHANGED vars
  BY <1>1, <1>6, EndsAreQuiet DEF NamesInv
<1> QED BY <1>2, <1>3, <1>4, <1>5, <1>6 DEF Next, ServiceStep, ServiceExit, Crash

(* SslConnect: "connecting a name that is already up replaces that tunnel". *)
(* Of two connects at once neither may see the other's, but tunnels of one *)
(* name never outnumber the requests that can run at once.                 *)
THEOREM NamesakesAreBounded ==
    ASSUME IsFiniteSet(Threads)
    PROVE  Spec => []NamesakesBounded
<1>1. Init => NamesInv
  <2>1. ASSUME Init PROVE \A n \in Names : Namesakes(n) = {}
    BY <2>1 DEF Init, Namesakes, Idle, InConnect, Holding, Actors
  <2>2. AtMostThreads({})
    BY ThreadsAreBounded
  <2> QED BY <2>1, <2>2 DEF Init, NamesInv, NamesFollow, Idle, Actors
<1>2. Inv /\ NamesInv /\ [Next]_vars => NamesInv'
  BY NextKeepsNames
<1>3. NamesInv => NamesakesBounded
  BY DEF NamesInv, AtMostThreads, NamesakesBounded
<1> QED BY <1>1, <1>2, <1>3, Invariance, PTL DEF Spec
=============================================================================
