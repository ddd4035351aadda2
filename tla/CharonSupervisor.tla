-------------------------- MODULE CharonSupervisor --------------------------
(***************************************************************************)
(* How the Windows broker starts and stops charon: the attempt at service  *)
(* start, the background retry, the GUI's CharonStart requests, the        *)
(* shutdown, and the vici port that tells them whether a charon is up and  *)
(* whose it is (supervisor.rs, charon.rs).                                 *)
(*                                                                         *)
(* The port may be taken by a foreign daemon at any time, and until the    *)
(* network stack is ready a charon does not get as far as listening.  The  *)
(* length of a backoff is left out: a retry comes at some later time.      *)
(***************************************************************************)
EXTENDS Naturals

CONSTANTS
    Callers,    \* IPC threads that may carry a CharonStart
    Svc,        \* the service thread: Broker::start, later Broker::shutdown
    Retry,      \* the thread spawn_charon_retry starts
    Procs,      \* charon-svc processes the broker may launch
    NoProc,
    Foreign,    \* somebody else's daemon on our vici port
    Nobody,     \* nothing listens; nobody holds the lock
    MayForeign, \* whether a foreign daemon exists
    MayCrash    \* whether the broker may die without a shutdown

Actors == Callers \cup {Svc, Retry}

ASSUME CharonAssumption ==
    /\ Svc \notin Callers /\ Retry \notin Callers /\ Svc # Retry
    /\ NoProc \notin Procs /\ Foreign \notin Procs
    /\ Nobody \notin Procs \cup Actors \cup {Foreign}
    /\ MayForeign \in BOOLEAN /\ MayCrash \in BOOLEAN

VARIABLES
    life,       \* "booting", "up", "stopping", "down"; "stopping" is also
                \* the flag Broker.stopping
    starting,   \* who holds Broker.starting
    child,      \* Broker.charon
    job,        \* where each thread is, and the process handle it carries
    charon,     \* each charon: "none", "starting", "listening", "exited"
    port,       \* who listens on the vici port
    ready,      \* whether the machine's network stack is up
    foreign,    \* the foreign daemon: "absent", "bound", "killed"
    installed   \* whether charon-svc and its strongswan.conf are there

vars == <<life, starting, child, job, charon, port, ready, foreign, installed>>

(* A definition named X_Something is X with a plausible bug, kept to show   *)
(* which property notices it; the specification never uses one.            *)

InAttempt == {"check", "spawn", "wait", "record"}
Stages == {"idle", "waiting", "lock", "take", "identify", "kill", "reap",
           "stopped"} \cup InAttempt

Idle == [at |-> "idle", proc |-> NoProc]
At(s) == [at |-> s, proc |-> NoProc]

Alive(p) == charon[p] \in {"starting", "listening"}

Init ==
    /\ life = "booting"
    /\ starting = Nobody
    /\ child = NoProc
    /\ job = [a \in Actors |-> IF a = Svc THEN At("lock") ELSE Idle]
    /\ charon = [p \in Procs |-> "none"]
    /\ port = Nobody
    /\ ready \in BOOLEAN
    /\ foreign = "absent"
    /\ installed \in BOOLEAN

-----------------------------------------------------------------------------
(* try_start_charon, run by the service thread once, by the retry thread   *)
(* after each backoff, and by a caller on request.                         *)

(***************************************************************************)
(* What a thread does with an attempt's outcome.  The retry thread ends on *)
(* its first success; the service thread goes on to serve, leaving a retry *)
(* thread behind if its own attempt failed.                                *)
(***************************************************************************)
AfterAttempt_RetriesOnce(a, ok) ==
    IF a = Svc
    THEN [job EXCEPT ![a] = Idle, ![Retry] = IF ok THEN Idle ELSE At("waiting")]
    ELSE [job EXCEPT ![a] = Idle]

AfterAttempt(a, ok) ==
    IF a = Svc
    THEN [job EXCEPT ![a] = Idle, ![Retry] = IF ok THEN Idle ELSE At("waiting")]
    ELSE [job EXCEPT ![a] = IF a = Retry /\ ~ok THEN At("waiting") ELSE Idle]

Return(a, ok) ==
    /\ job' = AfterAttempt(a, ok)
    /\ life' = IF a = Svc THEN "up" ELSE life

CharonStart(c) ==
    /\ life \in {"up", "stopping"} /\ job[c].at = "idle"
    /\ job' = [job EXCEPT ![c] = At("lock")]
    /\ UNCHANGED <<life, starting, child, charon, port, ready, foreign, installed>>

RetryWakes ==
    /\ job[Retry].at = "waiting"
    /\ job' = [job EXCEPT ![Retry] = IF life = "stopping" THEN Idle ELSE At("lock")]
    /\ UNCHANGED <<life, starting, child, charon, port, ready, foreign, installed>>

TryLock(a) ==
    /\ job[a].at = "lock"
    /\ \/ /\ starting = Nobody
          /\ starting' = a
          /\ job' = [job EXCEPT ![a] = At("check")]
          /\ UNCHANGED life
       \/ /\ starting # Nobody
          /\ Return(a, FALSE)
          /\ UNCHANGED starting
    /\ UNCHANGED <<child, charon, port, ready, foreign, installed>>

Done(a, ok) == Return(a, ok) /\ starting' = Nobody

(***************************************************************************)
(* is_ours: adopt our own listener, refuse a foreign one.                  *)
(***************************************************************************)
CheckPort_ForgetsChild(a) ==
    /\ job[a].at = "check"
    /\ \/ /\ port \in Procs
          /\ Done(a, TRUE)
          /\ child' = NoProc
       \/ /\ port = Foreign
          /\ Done(a, FALSE)
          /\ UNCHANGED child
       \/ /\ port = Nobody
          /\ job' = [job EXCEPT ![a] = At("spawn")]
          /\ UNCHANGED <<life, starting, child>>
    /\ UNCHANGED <<charon, port, ready, foreign, installed>>

CheckPort(a) ==
    /\ job[a].at = "check"
    /\ \/ port \in Procs  /\ Done(a, TRUE)
       \/ port = Foreign  /\ Done(a, FALSE)
       \/ /\ port = Nobody
          /\ job' = [job EXCEPT ![a] = At("spawn")]
          /\ UNCHANGED <<life, starting>>
    /\ UNCHANGED <<child, charon, port, ready, foreign, installed>>

Unused(p) == ~Alive(p) /\ child # p /\ \A a \in Actors : job[a].proc # p

(***************************************************************************)
(* Launch charon-svc, or fail for want of the binary or its configuration. *)
(***************************************************************************)
Spawn(a) ==
    /\ job[a].at = "spawn"
    /\ \/ \E p \in Procs :
            /\ installed /\ Unused(p)
            /\ charon' = [charon EXCEPT ![p] = "starting"]
            /\ job' = [job EXCEPT ![a] = [at |-> "wait", proc |-> p]]
            /\ UNCHANGED <<life, starting>>
       \/ /\ ~installed
          /\ Done(a, FALSE)
          /\ UNCHANGED charon
    /\ UNCHANGED <<child, port, ready, foreign, installed>>

(***************************************************************************)
(* The wait for vici asks only whether anything listens (is_running).      *)
(***************************************************************************)
PollUp(a) ==
    /\ job[a].at = "wait" /\ port # Nobody
    /\ job' = [job EXCEPT ![a].at = "record"]
    /\ UNCHANGED <<life, starting, child, charon, port, ready, foreign, installed>>

PollExited(a) ==
    /\ job[a].at = "wait" /\ port = Nobody
    /\ charon[job[a].proc] = "exited"
    /\ Done(a, FALSE)
    /\ UNCHANGED <<child, charon, port, ready, foreign, installed>>

(***************************************************************************)
(* 40 s went by: the handle is dropped, the process is left as it is.  It  *)
(* takes a machine that is not ready.                                      *)
(***************************************************************************)
PollTimeout(a) ==
    /\ job[a].at = "wait" /\ port = Nobody /\ ~ready
    /\ Done(a, FALSE)
    /\ UNCHANGED <<child, charon, port, ready, foreign, installed>>

Record(a) ==
    /\ job[a].at = "record"
    /\ child' = job[a].proc
    /\ Done(a, TRUE)
    /\ UNCHANGED <<charon, port, ready, foreign, installed>>

-----------------------------------------------------------------------------
(* shutdown and charon::stop.                                              *)

BeginShutdown ==
    /\ life = "up"
    /\ life' = "stopping"
    /\ job' = [job EXCEPT ![Svc] = At("take")]
    /\ UNCHANGED <<starting, child, charon, port, ready, foreign, installed>>

TakeChild_AwaitsStarts ==
    /\ job[Svc].at = "take" /\ starting = Nobody
    /\ job' = [job EXCEPT ![Svc] = [at |-> "identify", proc |-> child]]
    /\ child' = NoProc
    /\ UNCHANGED <<life, starting, charon, port, ready, foreign, installed>>

TakeChild ==
    /\ job[Svc].at = "take"
    /\ job' = [job EXCEPT ![Svc] = [at |-> "identify", proc |-> child]]
    /\ child' = NoProc
    /\ UNCHANGED <<life, starting, charon, port, ready, foreign, installed>>

Identify ==
    /\ job[Svc].at = "identify"
    /\ job' = [job EXCEPT ![Svc].at = IF port \in Procs THEN "kill" ELSE "reap"]
    /\ UNCHANGED <<life, starting, child, charon, port, ready, foreign, installed>>

(***************************************************************************)
(* The owner of the port is looked up again, and killed.                   *)
(***************************************************************************)
KillOwner ==
    /\ job[Svc].at = "kill"
    /\ charon' = [p \in Procs |-> IF p = port THEN "exited" ELSE charon[p]]
    /\ foreign' = IF port = Foreign THEN "killed" ELSE foreign
    /\ port' = Nobody
    /\ job' = [job EXCEPT ![Svc].at = "reap"]
    /\ UNCHANGED <<life, starting, child, ready, installed>>

Reap ==
    /\ job[Svc].at = "reap"
    /\ charon' = [p \in Procs |-> IF p = job[Svc].proc THEN "exited" ELSE charon[p]]
    /\ port' = IF port = job[Svc].proc THEN Nobody ELSE port
    /\ job' = [job EXCEPT ![Svc] = At("stopped")]
    /\ UNCHANGED <<life, starting, child, ready, foreign, installed>>

Gone ==
    /\ life' = "down"
    /\ starting' = Nobody
    /\ child' = NoProc
    /\ job' = [a \in Actors |-> Idle]
    /\ UNCHANGED <<charon, port, ready, foreign, installed>>

ServiceExit == job[Svc].at = "stopped" /\ Gone

Crash == MayCrash /\ life # "down" /\ Gone

Start ==
    /\ life = "down"
    /\ life' = "booting"
    /\ job' = [job EXCEPT ![Svc] = At("lock")]
    /\ UNCHANGED <<starting, child, charon, port, ready, foreign, installed>>

-----------------------------------------------------------------------------
(* The machine (not in the repository's code).                             *)

NetworkReady ==
    /\ ~ready /\ ready' = TRUE
    /\ UNCHANGED <<life, starting, child, job, charon, port, foreign, installed>>

Listen(p) ==
    /\ charon[p] = "starting" /\ ready /\ port = Nobody
    /\ charon' = [charon EXCEPT ![p] = "listening"]
    /\ port' = p
    /\ UNCHANGED <<life, starting, child, job, ready, foreign, installed>>

(***************************************************************************)
(* A charon gives up before the machine is ready, or on a taken port.      *)
(***************************************************************************)
StartFails(p) ==
    /\ charon[p] = "starting" /\ (~ready \/ port # Nobody)
    /\ charon' = [charon EXCEPT ![p] = "exited"]
    /\ UNCHANGED <<life, starting, child, job, port, ready, foreign, installed>>

Dies(p) ==
    /\ charon[p] = "listening"
    /\ charon' = [charon EXCEPT ![p] = "exited"]
    /\ port' = Nobody
    /\ UNCHANGED <<life, starting, child, job, ready, foreign, installed>>

ForeignComes ==
    /\ MayForeign /\ port = Nobody
    /\ port' = Foreign /\ foreign' = "bound"
    /\ UNCHANGED <<life, starting, child, job, charon, ready, installed>>

ForeignGoes ==
    /\ port = Foreign
    /\ port' = Nobody /\ foreign' = "absent"
    /\ UNCHANGED <<life, starting, child, job, charon, ready, installed>>

-----------------------------------------------------------------------------

Attempt(a) ==
    \/ TryLock(a) \/ CheckPort(a) \/ Spawn(a)
    \/ PollUp(a) \/ PollExited(a) \/ PollTimeout(a) \/ Record(a)

Stop == TakeChild \/ Identify \/ KillOwner \/ Reap \/ ServiceExit

Machine ==
    \/ NetworkReady \/ ForeignComes \/ ForeignGoes
    \/ \E p \in Procs : Listen(p) \/ StartFails(p) \/ Dies(p)

Next ==
    \/ \E a \in Actors : Attempt(a)
    \/ \E c \in Callers : CharonStart(c)
    \/ RetryWakes
    \/ BeginShutdown \/ Stop \/ Crash \/ Start
    \/ Machine

Spec == Init /\ [][Next]_vars

(***************************************************************************)
(* Threads that run keep running (every wait in an attempt has a deadline, *)
(* every backoff ends), the network stack comes up some day, and a charon  *)
(* launched on a ready machine gets to listen or exits.  Requests, deaths, *)
(* crashes and foreign daemons are not owed.                               *)
(***************************************************************************)
Fairness ==
    /\ \A a \in Actors : WF_vars(Attempt(a))
    /\ WF_vars(RetryWakes)
    /\ WF_vars(Stop)
    /\ WF_vars(NetworkReady)
    /\ \A p \in Procs : WF_vars(Listen(p) \/ StartFails(p))

FairSpec == Spec /\ Fairness

-----------------------------------------------------------------------------
(* Properties.                                                             *)

TypeOK ==
    /\ life \in {"booting", "up", "stopping", "down"}
    /\ starting \in Actors \cup {Nobody}
    /\ child \in Procs \cup {NoProc}
    /\ job \in [Actors -> [at : Stages, proc : Procs \cup {NoProc}]]
    /\ charon \in [Procs -> {"none", "starting", "listening", "exited"}]
    /\ port \in Procs \cup {Foreign, Nobody}
    /\ ready \in BOOLEAN
    /\ foreign \in {"absent", "bound", "killed"}
    /\ installed \in BOOLEAN

(***************************************************************************)
(* The handle of a charon that is up is not lost to an adoption while the  *)
(* service runs.  (try_start_charon: "overwriting here would drop a live   *)
(* handle and leave `shutdown` nothing to stop".)  A start may replace it: *)
(* one that found nobody listening, launched a second charon and then saw  *)
(* the first one, until then slow, come up.                                *)
(***************************************************************************)
HandleKept ==
    [][child # child' /\ child # NoProc /\ charon[child] = "listening"
          => \/ life = "stopping" \/ life' = "down"
             \/ \E a \in Actors : job[a].at = "record" /\ child' = job[a].proc]_vars

(***************************************************************************)
(* A start that lost the boot-time race is made good without a reboot: on  *)
(* an installed machine that no foreign daemon meddles with, a waiting     *)
(* retry is followed by a charon that listens, or by the service's end     *)
(* (supervisor.rs:161-164, spawn_charon_retry).                            *)
(***************************************************************************)
BootRaceRecovers ==
    [](installed /\ foreign = "absent") =>
       ((job[Retry].at = "waiting") ~> (port \in Procs \/ life \in {"stopping", "down"}))

(***************************************************************************)
(* A stop of the service ends, whatever starts are in flight.              *)
(***************************************************************************)
StopEnds == (life = "stopping") ~> (life = "down")
=============================================================================
