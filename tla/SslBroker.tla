----------------------------- MODULE SslBroker -----------------------------
(***************************************************************************)
(* The SSL VPN half of the Windows broker: the registry of live openvpn    *)
(* tunnels, the adapter slots handed out to them, and the life of each     *)
(* openvpn process with the two secret files staged for it                 *)
(* (supervisor.rs, openvpn.rs).                                            *)
(*                                                                         *)
(* The named-pipe server runs every request on a thread of its own, so all *)
(* handlers interleave; the registry mutex is held only for the short      *)
(* sections that are single actions here, never across a connect (up to    *)
(* 45 s) or a teardown (up to 4 s).  The broker may be stopped or may die  *)
(* at any point; on Windows the openvpn children outlive it.               *)
(***************************************************************************)
EXTENDS Naturals, FiniteSets

CONSTANTS
    Names,          \* connection names the GUI keys tunnels by
    NoName,         \* the name of nothing
    Threads,        \* IPC handler threads (requests that may be in flight)
    Svc,            \* the service thread, which runs Broker::shutdown
    Procs,          \* openvpn processes, each with its own management port
    NoProc,         \* no process yet
    MaxTunnels,     \* MAX_SSL_TUNNELS
    StagingMayFail, \* whether writing a staged file may fail (disk full)
    MayCrash        \* whether the broker process may die without a shutdown

ASSUME ConstantsAssumption ==
    /\ MaxTunnels \in Nat \ {0}
    /\ Svc \notin Threads
    /\ NoName \notin Names
    /\ NoProc \notin Procs \cup Threads
    /\ Threads \cap Procs = {}
    /\ StagingMayFail \in BOOLEAN
    /\ MayCrash \in BOOLEAN

VARIABLES
    life,       \* the broker process: "up", "stopping" or "down"
    tunnels,    \* SslRegistry.tunnels, as the processes its entries hold
    reserved,   \* SslRegistry.reserved
    job,        \* what each handler thread, and the service thread, is doing
    proc        \* each openvpn process, its registry name and slot, its files

vars == <<life, tunnels, reserved, job, proc>>

(* A definition named X_Something is X with a plausible bug, kept to show   *)
(* which property notices it; the specification never uses one.            *)

Slots  == 0 .. (MaxTunnels - 1)
Actors == Threads \cup {Svc}
Files  == {"config", "auth"}   \* sslvpn-<port>.ovpn (key), .auth (password)

(***************************************************************************)
(* A job's "at" is the point its thread has reached.  From take_slot to    *)
(* release_slot the thread holds a reservation.                            *)
(***************************************************************************)
Holding == {"stage", "auth", "spawn", "drive", "abandon", "cleanup",
            "register", "release"}
Tearing == {"evicting", "closing"}
Stages  == {"idle", "reserve", "stopped"} \cup Holding \cup Tearing

(***************************************************************************)
(* os: "none", "running", "exited", or "orphan" when still running after   *)
(* the broker that launched it is gone.                                    *)
(***************************************************************************)
Job  == [at : Stages, name : Names \cup {NoName}, slot : Slots,
         proc : Procs \cup {NoProc}, doomed : SUBSET Procs]
Proc == [os : {"none", "running", "exited", "orphan"},
         name : Names \cup {NoName}, slot : Slots, files : SUBSET Files]

Idle  == [at |-> "idle", name |-> NoName, slot |-> 0, proc |-> NoProc,
          doomed |-> {}]
Blank == [os |-> "none", name |-> NoName, slot |-> 0, files |-> {}]

Connecting == {t \in Threads : job[t].at \in Holding}

Init ==
    /\ life = "up"
    /\ tunnels = {}
    /\ reserved = {}
    /\ job = [a \in Actors |-> Idle]
    /\ proc = [p \in Procs |-> Blank]

-----------------------------------------------------------------------------
(* SslRegistry.                                                            *)

(***************************************************************************)
(* prune(): entries whose process has exited; dropping one runs            *)
(* Tunnel::drop, which removes its staged files.                           *)
(***************************************************************************)
Dead == {p \in tunnels : proc[p].os = "exited"}
Pruned == [p \in Procs |-> IF p \in Dead THEN Blank ELSE proc[p]]

Occupied_ReservationsOnly == reserved

Occupied == {proc[p].slot : p \in tunnels} \cup reserved
FreeSlots == Slots \ Occupied

LowestFree_AnyFree(s) == s \in FreeSlots

LowestFree(s) == s \in FreeSlots /\ \A r \in FreeSlots : s <= r

-----------------------------------------------------------------------------
(* Request::SslConnect.                                                    *)

SameName_Any(n) == tunnels \ Dead

SameName(n) == {p \in tunnels \ Dead : proc[p].name = n}

ConnectEvict_TakesNone(t, n) ==
    /\ life # "down" /\ job[t].at = "idle"
    /\ tunnels' = tunnels \ Dead
    /\ job' = [job EXCEPT ![t] = [@ EXCEPT !.at = "reserve", !.name = n]]
    /\ proc' = Pruned
    /\ UNCHANGED <<life, reserved>>

(***************************************************************************)
(* The first locked section: prune, and take the tunnel this name replaces *)
(* out of the registry.                                                    *)
(***************************************************************************)
ConnectEvict(t, n) ==
    /\ life # "down" /\ job[t].at = "idle"
    /\ LET live == tunnels \ Dead
           same == SameName(n)
       IN  \/ /\ same = {}
              /\ tunnels' = live
              /\ job' = [job EXCEPT ![t] =
                            [@ EXCEPT !.at = "reserve", !.name = n]]
           \/ \E p \in same :
                /\ tunnels' = live \ {p}
                /\ job' = [job EXCEPT ![t] =
                              [@ EXCEPT !.at = "evicting", !.name = n,
                                        !.doomed = {p}]]
    /\ proc' = Pruned
    /\ UNCHANGED <<life, reserved>>

EvictDone(t) ==
    /\ job[t].at = "evicting" /\ job[t].doomed = {}
    /\ job' = [job EXCEPT ![t].at = "reserve"]
    /\ UNCHANGED <<life, tunnels, reserved, proc>>

ReserveSlot_Unrecorded(t) ==
    /\ job[t].at = "reserve"
    /\ \E s \in Slots :
         /\ LowestFree(s)
         /\ job' = [job EXCEPT ![t] = [@ EXCEPT !.at = "stage", !.slot = s]]
    /\ UNCHANGED <<life, tunnels, reserved, proc>>

(***************************************************************************)
(* The second locked section, take_slot: the lowest slot neither an entry  *)
(* nor a reservation holds.                                                *)
(***************************************************************************)
ReserveSlot(t) ==
    /\ job[t].at = "reserve"
    /\ \E s \in Slots :
         /\ LowestFree(s)
         /\ reserved' = reserved \cup {s}
         /\ job' = [job EXCEPT ![t] = [@ EXCEPT !.at = "stage", !.slot = s]]
    /\ UNCHANGED <<life, tunnels, proc>>

NoSlotLeft_Waits(t) ==
    /\ job[t].at = "reserve" /\ FreeSlots = {}
    /\ UNCHANGED vars

NoSlotLeft(t) ==
    /\ job[t].at = "reserve" /\ FreeSlots = {}
    /\ job' = [job EXCEPT ![t] = Idle]
    /\ UNCHANGED <<life, tunnels, reserved, proc>>

(***************************************************************************)
(* openvpn::connect fails before it writes anything: a refused config, no  *)
(* openvpn binary, no adapter, no directory, no port.                      *)
(***************************************************************************)
RefuseConfig(t) ==
    /\ job[t].at = "stage"
    /\ job' = [job EXCEPT ![t].at = "release"]
    /\ UNCHANGED <<life, tunnels, reserved, proc>>

(***************************************************************************)
(* A process stands for its management port and the file names made of it. *)
(* free_port lets go of the port it found before openvpn takes it, so two  *)
(* connects in flight may be told the same one; here each has its own.     *)
(***************************************************************************)
Unused(p) ==
    /\ proc[p] = Blank
    /\ \A a \in Actors : job[a].proc # p

StageConfig(t, p) ==
    /\ job[t].at = "stage" /\ Unused(p)
    /\ proc' = [proc EXCEPT ![p] =
                   [@ EXCEPT !.name = job[t].name, !.slot = job[t].slot,
                             !.files = {"config"}]]
    /\ \/ job' = [job EXCEPT ![t] = [@ EXCEPT !.at = "auth", !.proc = p]]
       \/ /\ StagingMayFail    \* the file exists but the write failed
          /\ job' = [job EXCEPT ![t].at = "release"]
    /\ UNCHANGED <<life, tunnels, reserved>>

(***************************************************************************)
(* The credentials file.  Its failure returns before the FileGuard exists, *)
(* so what has been written stays.                                         *)
(***************************************************************************)
StageAuth(t) ==
    LET p == job[t].proc IN
    /\ job[t].at = "auth"
    /\ \/ /\ proc' = [proc EXCEPT ![p].files = Files]
          /\ job' = [job EXCEPT ![t].at = "spawn"]
       \/ /\ StagingMayFail
          /\ \E left \in {{"config"}, Files} :
               proc' = [proc EXCEPT ![p].files = left]
          /\ job' = [job EXCEPT ![t] =
                        [@ EXCEPT !.at = "release", !.proc = NoProc]]
    /\ UNCHANGED <<life, tunnels, reserved>>

Spawn_NoGuard(t) ==
    LET p == job[t].proc IN
    /\ job[t].at = "spawn"
    /\ \/ /\ proc' = [proc EXCEPT ![p].os = "running"]
          /\ job' = [job EXCEPT ![t].at = "drive"]
       \/ /\ job' = [job EXCEPT ![t] =
                        [@ EXCEPT !.at = "release", !.proc = NoProc]]
          /\ UNCHANGED proc
    /\ UNCHANGED <<life, tunnels, reserved>>

(***************************************************************************)
(* Launching openvpn; a failed launch drops the FileGuard.                 *)
(***************************************************************************)
Spawn(t) ==
    LET p == job[t].proc IN
    /\ job[t].at = "spawn"
    /\ \/ /\ proc' = [proc EXCEPT ![p].os = "running"]
          /\ job' = [job EXCEPT ![t].at = "drive"]
       \/ /\ proc' = [proc EXCEPT ![p] = Blank]
          /\ job' = [job EXCEPT ![t] =
                        [@ EXCEPT !.at = "release", !.proc = NoProc]]
    /\ UNCHANGED <<life, tunnels, reserved>>

(***************************************************************************)
(* drive() returned CONNECTED: the guard is disarmed, the files belong to  *)
(* the Tunnel.  The process may already be gone: the line was buffered.    *)
(***************************************************************************)
Driven(t) ==
    /\ job[t].at = "drive"
    /\ job' = [job EXCEPT ![t].at = "register"]
    /\ UNCHANGED <<life, tunnels, reserved, proc>>

DriveFails_NoStop(t) ==
    /\ job[t].at = "drive"
    /\ job' = [job EXCEPT ![t].at = "release"]
    /\ UNCHANGED <<life, tunnels, reserved, proc>>

DriveFails(t) ==
    /\ job[t].at = "drive"
    /\ job' = [job EXCEPT ![t].at = "abandon"]
    /\ UNCHANGED <<life, tunnels, reserved, proc>>

(***************************************************************************)
(* stop_child: SIGTERM, up to 4 s, then kill and reap.                     *)
(***************************************************************************)
Abandon(t) ==
    /\ job[t].at = "abandon"
    /\ proc' = [proc EXCEPT ![job[t].proc].os = "exited"]
    /\ job' = [job EXCEPT ![t].at = "cleanup"]
    /\ UNCHANGED <<life, tunnels, reserved>>

CleanUp_FallsThrough(t) ==
    /\ job[t].at = "cleanup"
    /\ proc' = [proc EXCEPT ![job[t].proc] = Blank]
    /\ job' = [job EXCEPT ![t] = [@ EXCEPT !.at = "register", !.proc = NoProc]]
    /\ UNCHANGED <<life, tunnels, reserved>>

(***************************************************************************)
(* The FileGuard is dropped as connect returns its error.                  *)
(***************************************************************************)
CleanUp(t) ==
    /\ job[t].at = "cleanup"
    /\ proc' = [proc EXCEPT ![job[t].proc] = Blank]
    /\ job' = [job EXCEPT ![t] = [@ EXCEPT !.at = "release", !.proc = NoProc]]
    /\ UNCHANGED <<life, tunnels, reserved>>

(***************************************************************************)
(* The last locked section: the reservation becomes a registry entry, or   *)
(* is given back.                                                          *)
(***************************************************************************)
Register(t) ==
    /\ job[t].at = "register"
    /\ reserved' = reserved \ {job[t].slot}
    /\ tunnels' = tunnels \cup {job[t].proc}
    /\ job' = [job EXCEPT ![t] = Idle]
    /\ UNCHANGED <<life, proc>>

ReleaseSlot(t) ==
    /\ job[t].at = "release"
    /\ reserved' = reserved \ {job[t].slot}
    /\ job' = [job EXCEPT ![t] = Idle]
    /\ UNCHANGED <<life, tunnels, proc>>

-----------------------------------------------------------------------------
(* Tunnel::disconnect, shared by a replacing connect, SslDisconnect and    *)
(* shutdown: stop the process, then remove its files.                      *)

StopProcess(a, p) ==
    /\ job[a].at \in Tearing /\ p \in job[a].doomed
    /\ proc[p].os = "running"
    /\ proc' = [proc EXCEPT ![p].os = "exited"]
    /\ UNCHANGED <<life, tunnels, reserved, job>>

RemoveFiles(a, p) ==
    /\ job[a].at \in Tearing /\ p \in job[a].doomed
    /\ proc[p].os = "exited"
    /\ proc' = [proc EXCEPT ![p] = Blank]
    /\ job' = [job EXCEPT ![a].doomed = @ \ {p}]
    /\ UNCHANGED <<life, tunnels, reserved>>

-----------------------------------------------------------------------------
(* Request::SslDisconnect and Request::SslStatus.                          *)

TakeOut(t, n, gone) ==
    /\ life # "down" /\ job[t].at = "idle"
    /\ tunnels' = tunnels \ gone
    /\ job' = [job EXCEPT ![t] = [@ EXCEPT !.at = "closing", !.name = n,
                                          !.doomed = gone]]
    /\ UNCHANGED <<life, reserved, proc>>

SslDisconnect_TakesAll(t, n) == TakeOut(t, n, tunnels)

SslDisconnect(t, n) == TakeOut(t, n, {p \in tunnels : proc[p].name = n})

(***************************************************************************)
(* The request with an empty name takes them all.                          *)
(***************************************************************************)
SslDisconnectAll(t) == TakeOut(t, NoName, tunnels)

DisconnectDone(t) ==
    /\ job[t].at = "closing" /\ job[t].doomed = {}
    /\ job' = [job EXCEPT ![t] = Idle]
    /\ UNCHANGED <<life, tunnels, reserved, proc>>

(***************************************************************************)
(* SslStatus, and ssl_dns_claims on behalf of ApplyDns, prune and read.    *)
(***************************************************************************)
SslStatus(t) ==
    /\ life # "down" /\ job[t].at = "idle"
    /\ Dead # {}
    /\ tunnels' = tunnels \ Dead
    /\ proc' = Pruned
    /\ UNCHANGED <<life, reserved, job>>

-----------------------------------------------------------------------------
(* The service's own life.                                                 *)

(***************************************************************************)
(* shutdown(): take the registry's tunnels and tear them down.  Handler    *)
(* threads keep running until the process exits.                           *)
(***************************************************************************)
BeginShutdown ==
    /\ life = "up"
    /\ life' = "stopping"
    /\ tunnels' = {}
    /\ job' = [job EXCEPT ![Svc] =
                  [@ EXCEPT !.at = "closing", !.doomed = tunnels]]
    /\ UNCHANGED <<reserved, proc>>

ShutdownDone_WaitsForEmpty ==
    /\ job[Svc].at = "closing" /\ job[Svc].doomed = {} /\ tunnels = {}
    /\ job' = [job EXCEPT ![Svc].at = "stopped"]
    /\ UNCHANGED <<life, tunnels, reserved, proc>>

ShutdownDone ==
    /\ job[Svc].at = "closing" /\ job[Svc].doomed = {}
    /\ job' = [job EXCEPT ![Svc].at = "stopped"]
    /\ UNCHANGED <<life, tunnels, reserved, proc>>

(***************************************************************************)
(* The process ends and its threads with it, running no destructors.  The  *)
(* children live on.                                                       *)
(***************************************************************************)
Gone ==
    /\ life' = "down"
    /\ tunnels' = {}
    /\ reserved' = {}
    /\ job' = [a \in Actors |-> Idle]
    /\ proc' = [p \in Procs |->
                  CASE proc[p].os = "running" -> [proc[p] EXCEPT !.os = "orphan"]
                    [] proc[p].os = "exited"  -> [proc[p] EXCEPT !.os = "none"]
                    [] OTHER                  -> proc[p]]

ServiceExit == job[Svc].at = "stopped" /\ Gone

Crash == MayCrash /\ life # "down" /\ Gone

(***************************************************************************)
(* A new broker sweeps every staged file before it serves.                 *)
(***************************************************************************)
Start ==
    /\ life = "down"
    /\ life' = "up"
    /\ proc' = [p \in Procs |->
                  IF proc[p].os = "orphan" THEN [proc[p] EXCEPT !.files = {}]
                                           ELSE Blank]
    /\ UNCHANGED <<tunnels, reserved, job>>

(***************************************************************************)
(* openvpn exits by itself: the gateway dropped it, a fatal error, a user. *)
(***************************************************************************)
ProcessExits(p) ==
    /\ \/ /\ proc[p].os = "running"
          /\ proc' = [proc EXCEPT ![p].os = "exited"]
       \/ /\ proc[p].os = "orphan"
          /\ proc' = [proc EXCEPT ![p] = [Blank EXCEPT !.files = proc[p].files]]
    /\ UNCHANGED <<life, tunnels, reserved, job>>

-----------------------------------------------------------------------------

ConnectStep(t) ==
    \/ EvictDone(t) \/ ReserveSlot(t) \/ NoSlotLeft(t)
    \/ RefuseConfig(t) \/ (\E p \in Procs : StageConfig(t, p))
    \/ StageAuth(t) \/ Spawn(t)
    \/ Driven(t) \/ DriveFails(t) \/ Abandon(t) \/ CleanUp(t)
    \/ Register(t) \/ ReleaseSlot(t)

TearDown(a) == \E p \in Procs : StopProcess(a, p) \/ RemoveFiles(a, p)

Request(t) ==
    \/ \E n \in Names : ConnectEvict(t, n) \/ SslDisconnect(t, n)
    \/ SslDisconnectAll(t)
    \/ SslStatus(t)

Step(t) == ConnectStep(t) \/ TearDown(t) \/ DisconnectDone(t)

ServiceStep == TearDown(Svc) \/ ShutdownDone \/ ServiceExit

Next ==
    \/ \E t \in Threads : Request(t) \/ Step(t)
    \/ BeginShutdown \/ ServiceStep
    \/ Crash \/ Start
    \/ \E p \in Procs : ProcessExits(p)

Spec == Init /\ [][Next]_vars

(***************************************************************************)
(* A thread that has a request runs on: every wait in a handler has a      *)
(* deadline (10 s for the management port, 45 s for CONNECTED, 4 s for an  *)
(* exit).  Requests, crashes, the service stop and openvpn's own exits are *)
(* not owed.                                                               *)
(***************************************************************************)
Fairness ==
    /\ \A t \in Threads : WF_vars(Step(t))
    /\ WF_vars(ServiceStep)

FairSpec == Spec /\ Fairness

-----------------------------------------------------------------------------
(* Properties.                                                             *)

TypeOK ==
    /\ life \in {"up", "stopping", "down"}
    /\ tunnels \subseteq Procs
    /\ reserved \subseteq Slots
    /\ job \in [Actors -> Job]
    /\ proc \in [Procs -> Proc]

(***************************************************************************)
(* No slot is handed out twice by the registry: two entries, an entry and  *)
(* a reservation, or two connects in flight never share one, however       *)
(* connects, disconnects, prunes and the shutdown interleave.  (The comment *)
(* on SslRegistry: "a connect in flight reserves its slot before the lock  *)
(* is released".)                                                          *)
(***************************************************************************)
SlotsExclusive ==
    /\ \A p, q \in tunnels : proc[p].slot = proc[q].slot => p = q
    /\ \A p \in tunnels : proc[p].slot \notin reserved
    /\ \A t, u \in Connecting : job[t].slot = job[u].slot => t = u

(***************************************************************************)
(* Every reservation is some connect's in flight: every exit of connect    *)
(* gives its slot back, so "too many tunnels" is never said of slots       *)
(* nobody holds.                                                           *)
(***************************************************************************)
ReservationsHeld == reserved = {job[t].slot : t \in Connecting}

(***************************************************************************)
(* An openvpn process the broker launched always has exactly one owner,    *)
(* who will stop it: the registry, the connect that launched it, or the    *)
(* teardown that took it out.  (Tunnel's comment: "a lost handle never     *)
(* leaks a running process or the private key".)                           *)
(***************************************************************************)
Launching(p) == \E t \in Threads : job[t].proc = p
Stopping(p)  == \E a \in Actors : p \in job[a].doomed
Owned(p)     == p \in tunnels \/ Launching(p) \/ Stopping(p)

OneOwner ==
    /\ \A p \in Procs : proc[p].os \in {"running", "exited"} => Owned(p)
    /\ \A p \in tunnels : ~Launching(p) /\ ~Stopping(p)
    /\ \A p \in Procs : ~(Launching(p) /\ Stopping(p))
    /\ \A t, u \in Threads :
         job[t].proc = job[u].proc /\ job[t].proc # NoProc => t = u
    /\ \A a, b \in Actors : a # b => job[a].doomed \cap job[b].doomed = {}

(***************************************************************************)
(* While a broker runs, the key and the password are on disk only for a    *)
(* process that has an owner to delete them; a crash is covered by the     *)
(* sweep.  (openvpn.rs:258-259, connect: "Guard against leaking either     *)
(* secret-bearing file if we bail before building a Tunnel".)              *)
(***************************************************************************)
SecretsOwned ==
    life # "down" =>
        \A p \in Procs : proc[p].files # {} => Owned(p)

(***************************************************************************)
(* Two processes of one broker are on one adapter only while at least one  *)
(* of them is on its way out, taken from the registry but not yet gone.    *)
(***************************************************************************)
SharedAdapterIsDying ==
    \A p, q \in Procs :
        /\ proc[p].os = "running" /\ proc[q].os = "running"
        /\ proc[p].slot = proc[q].slot /\ p # q
        => Stopping(p) \/ Stopping(q)
              \/ \E t \in Threads : job[t].at = "abandon" /\ job[t].proc \in {p, q}

(***************************************************************************)
(* A connect replaces the tunnel of its name, but two of them at once may  *)
(* each find none to replace and both register.  That is as far as it      *)
(* goes: entries of a name and connects of it still in flight are never    *)
(* more than the requests that can run at once, so repeated connects pile  *)
(* no further tunnels up.  (protocol.rs:99-100, SslConnect: an active      *)
(* tunnel with the same name is replaced.)                                 *)
(***************************************************************************)
InConnect == {"evicting", "reserve"} \cup Holding

Namesakes(n) ==
    {p \in tunnels : proc[p].name = n}
      \cup {t \in Threads : job[t].at \in InConnect /\ job[t].name = n}

NamesakesBounded ==
    \A n \in Names : Cardinality(Namesakes(n)) <= Cardinality(Threads)

(***************************************************************************)
(* What makes the ownership inductive: where each thread is says what it   *)
(* owns, and a broker that is down owns nothing.                           *)
(***************************************************************************)
JobsConsistent ==
    /\ \A t \in Threads :
         /\ job[t].at # "stopped"
         /\ job[t].proc # NoProc <=>
              job[t].at \in {"auth", "spawn", "drive", "abandon", "cleanup", "register"}
         /\ job[t].at \in {"auth", "spawn"} => proc[job[t].proc].os = "none"
         /\ job[t].at \in {"drive", "abandon", "cleanup", "register"} =>
              proc[job[t].proc].os \in {"running", "exited"}
         /\ job[t].proc # NoProc => /\ proc[job[t].proc].slot = job[t].slot
                                    /\ proc[job[t].proc].files # {}
    /\ job[Svc].at \in {"idle", "closing", "stopped"} /\ job[Svc].proc = NoProc
    /\ life = "up" => job[Svc].at = "idle"
    /\ \A a \in Actors : job[a].at \notin Tearing => job[a].doomed = {}
    /\ \A p \in Procs :
         p \in tunnels \/ Stopping(p) => proc[p].os \in {"running", "exited"}
    /\ life = "down" => /\ tunnels = {} /\ reserved = {}
                        /\ \A a \in Actors : job[a] = Idle

(***************************************************************************)
(* A slot belongs to at most one of the registered tunnels and connects in *)
(* flight, and each reservation to a connect that gives it up; a process has *)
(* one entry, connect or teardown (SslRegistry: reserve under the lock,    *)
(* connect outside it, put the outcome in or give the slot back); and what *)
(* each thread holds is what its place in a request says.                  *)
(***************************************************************************)
Inv == TypeOK /\ SlotsExclusive /\ ReservationsHeld /\ OneOwner /\ JobsConsistent

(***************************************************************************)
(* No request takes another connection's live tunnel away ("any other one  *)
(* stays"): an entry that leaves the registry while its process runs is in *)
(* the hands of a connect or a disconnect of its own name, of a disconnect *)
(* that named none and so asked for all, or of the end of the service.     *)
(***************************************************************************)
OthersStay ==
    [][\A p \in tunnels \ tunnels' :
          \/ proc[p].os = "exited"
          \/ life' # life
          \/ \E t \in Threads :
               /\ p \in job'[t].doomed
               /\ \/ job'[t].name = proc[p].name
                  \/ job'[t].at = "closing" /\ job'[t].name = NoName]_vars

(***************************************************************************)
(* The registry implements the pool of slots: a slot's owner is the entry  *)
(* or the connect in flight that holds it.                                 *)
(***************************************************************************)
SlotOwner ==
    [s \in Slots |->
        LET entries == {p \in tunnels : proc[p].slot = s}
            flights == {t \in Connecting : job[t].slot = s}
        IN  IF entries # {} THEN CHOOSE p \in entries : TRUE
            ELSE IF flights # {} THEN CHOOSE t \in flights : TRUE
            ELSE NoProc]

Pool == INSTANCE SlotPool WITH Slots <- Slots, Owners <- Threads \cup Procs,
                               Nobody <- NoProc, owner <- SlotOwner

ImplementsPool == Pool!PoolSpec

(***************************************************************************)
(* Every request is answered, unless the broker goes away under it, and a  *)
(* stop of the service ends.                                               *)
(***************************************************************************)
Answered == \A t \in Threads : (job[t].at # "idle") ~> (job[t].at = "idle")

StopEnds == (life = "stopping") ~> (life = "down")

=============================================================================
