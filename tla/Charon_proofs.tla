---------------------------- MODULE Charon_proofs ----------------------------
(***************************************************************************)
(* Proofs about charon and what the application does through it.           *)
(* CharonSupervisor, for any callers and charons: types, and that the      *)
(* broker's handle is only ever replaced by a start's or given up in a     *)
(* stop, which needs that the service thread tears down only in a stop     *)
(* (StopsOnlyStopping).  Upkeep, for any connections, plans, answers and   *)
(* probes: the secrets charon chooses, what a repair takes down and says   *)
(* it took down, what a streamed exchange returns, and which hosts are up; *)
(* UpkeepInv says what each of these tasks holds at each of its steps.     *)
(* Intake, for files of any contents: what is read is whole (IntakeInv),   *)
(* so the edit dialog can open it and save it again.                       *)
(***************************************************************************)
EXTENDS CharonSupervisor, Upkeep, Intake, FiniteSetTheorems, TLAPS

StopsOnlyStopping ==
    job[Svc].at \in {"take", "identify", "kill", "reap", "stopped"} => life = "stopping"

ServiceBooting == job[Svc].at \in {"lock"} \cup InAttempt => life = "booting"

CallersStart ==
    \A a \in Actors \ {Svc} : job[a].at \in {"idle", "waiting", "lock"} \cup InAttempt

CharonInv == TypeOK /\ StopsOnlyStopping /\ ServiceBooting /\ CallersStart

(* The broker starts with no charon of its own, so the invariant holds. *)
LEMMA InitCharonInv ==
    ASSUME Init
    PROVE  CharonInv
BY CharonAssumption
   DEF Init, CharonInv, TypeOK, StopsOnlyStopping, ServiceBooting, CallersStart, At, Idle,
       Stages, InAttempt, Actors

(* What a thread is when an attempt of its is over.                        *)
LEMMA ReturnKeepsInv ==
    ASSUME CharonInv, NEW a \in Actors, NEW ok \in BOOLEAN, Return(a, ok),
           job[a].at \in {"lock"} \cup InAttempt,
           starting' \in Actors \cup {Nobody}, child' \in Procs \cup {NoProc},
           UNCHANGED <<charon, port, ready, foreign, installed>>
    PROVE  CharonInv'
<1> USE CharonAssumption
    DEF CharonInv, Return, AfterAttempt, At, Idle, Stages, InAttempt, Actors
<1>1. TypeOK'
  BY DEF TypeOK
<1>2. StopsOnlyStopping' /\ ServiceBooting'
  BY DEF TypeOK, StopsOnlyStopping, ServiceBooting
<1>3. CallersStart'
  BY DEF TypeOK, CallersStart
<1> QED BY <1>1, <1>2, <1>3

(* Taking the `starting` lock, or finding it taken, keeps the invariant. *)
LEMMA TryLockKeepsInv ==
    ASSUME CharonInv, NEW a \in Actors, TryLock(a)
    PROVE  CharonInv'
<1>1. CASE starting = Nobody
  BY <1>1, CharonAssumption
     DEF TryLock, CharonInv, TypeOK, StopsOnlyStopping, ServiceBooting, CallersStart, At,
         Stages, InAttempt, Actors
<1>2. CASE starting # Nobody
  <2>1. /\ Return(a, FALSE) /\ job[a].at = "lock"
        /\ starting' \in Actors \cup {Nobody} /\ child' \in Procs \cup {NoProc}
        /\ UNCHANGED <<charon, port, ready, foreign, installed>>
    BY <1>2 DEF TryLock, CharonInv, TypeOK
  <2> QED BY <2>1, ReturnKeepsInv
<1> QED BY <1>1, <1>2

(* Looking at the vici port before a start keeps the invariant. *)
LEMMA CheckPortKeepsInv ==
    ASSUME CharonInv, NEW a \in Actors, CheckPort(a)
    PROVE  CharonInv'
<1>1. CASE \E ok \in BOOLEAN : Done(a, ok)
  <2>1. PICK ok \in BOOLEAN : Done(a, ok)
    BY <1>1
  <2>2. /\ Return(a, ok) /\ job[a].at \in InAttempt
        /\ starting' \in Actors \cup {Nobody} /\ child' \in Procs \cup {NoProc}
        /\ UNCHANGED <<charon, port, ready, foreign, installed>>
    BY <2>1 DEF CheckPort, Done, CharonInv, TypeOK, InAttempt
  <2> QED BY <2>2, ReturnKeepsInv
<1>2. CASE /\ job' = [job EXCEPT ![a] = At("spawn")]
           /\ UNCHANGED <<life, starting>>
  BY <1>2, CharonAssumption
     DEF CheckPort, CharonInv, TypeOK, StopsOnlyStopping, ServiceBooting, CallersStart, At,
         Stages, InAttempt, Actors
<1> QED BY <1>1, <1>2 DEF CheckPort

(* Spawning a charon, or failing to, keeps the invariant. *)
LEMMA SpawnKeepsInv ==
    ASSUME CharonInv, NEW a \in Actors, Spawn(a)
    PROVE  CharonInv'
<1>1. CASE Done(a, FALSE) /\ UNCHANGED charon
  <2>1. /\ Return(a, FALSE) /\ job[a].at \in InAttempt
        /\ starting' \in Actors \cup {Nobody} /\ child' \in Procs \cup {NoProc}
        /\ UNCHANGED <<charon, port, ready, foreign, installed>>
    BY <1>1 DEF Spawn, Done, CharonInv, TypeOK, InAttempt
  <2> QED BY <2>1, ReturnKeepsInv
<1>2. ASSUME NEW p \in Procs,
             charon' = [charon EXCEPT ![p] = "starting"],
             job' = [job EXCEPT ![a] = [at |-> "wait", proc |-> p]],
             UNCHANGED <<life, starting>>
      PROVE  CharonInv'
  BY <1>2, CharonAssumption
     DEF Spawn, CharonInv, TypeOK, StopsOnlyStopping, ServiceBooting, CallersStart,
         Stages, InAttempt, Actors
<1> QED BY <1>1, <1>2 DEF Spawn

(* Waiting for the spawned charon, and keeping its handle, keeps the invariant. *)
LEMMA PollKeepsInv ==
    ASSUME CharonInv, NEW a \in Actors,
           PollUp(a) \/ PollExited(a) \/ PollTimeout(a) \/ Record(a)
    PROVE  CharonInv'
<1>1. CASE PollUp(a)
  BY <1>1, CharonAssumption
     DEF PollUp, CharonInv, TypeOK, StopsOnlyStopping, ServiceBooting, CallersStart,
         Stages, InAttempt, Actors
<1>2. CASE PollExited(a) \/ PollTimeout(a) \/ Record(a)
  <2>1. PICK ok \in BOOLEAN : Done(a, ok)
    BY <1>2 DEF PollExited, PollTimeout, Record
  <2>2. /\ Return(a, ok) /\ job[a].at \in InAttempt
        /\ starting' \in Actors \cup {Nobody} /\ child' \in Procs \cup {NoProc}
        /\ UNCHANGED <<charon, port, ready, foreign, installed>>
    BY <1>2, <2>1 DEF PollExited, PollTimeout, Record, Done, CharonInv, TypeOK, InAttempt
  <2> QED BY <2>2, ReturnKeepsInv
<1> QED BY <1>1, <1>2

(* Requests, the retry's waking and the start of a stop or of a service.   *)
LEMMA RequestKeepsInv ==
    ASSUME CharonInv, \/ RetryWakes \/ BeginShutdown \/ Start
                      \/ \E c \in Callers : CharonStart(c)
    PROVE  CharonInv'
<1> USE CharonAssumption
    DEF CharonInv, TypeOK, StopsOnlyStopping, ServiceBooting, CallersStart, At, Idle,
        Stages, InAttempt, Actors
<1>1. CASE RetryWakes
  BY <1>1 DEF RetryWakes
<1>2. CASE BeginShutdown
  BY <1>2 DEF BeginShutdown
<1>3. CASE Start
  BY <1>3 DEF Start
<1>4. CASE \E c \in Callers : CharonStart(c)
  BY <1>4 DEF CharonStart
<1> QED BY <1>1, <1>2, <1>3, <1>4

(* The stop, and the end of the process by it or by a crash.               *)
LEMMA StopKeepsInv ==
    ASSUME CharonInv, Stop \/ Crash
    PROVE  CharonInv'
<1> USE CharonAssumption
    DEF CharonInv, TypeOK, StopsOnlyStopping, ServiceBooting, CallersStart, At, Idle,
        Stages, InAttempt, Actors
<1>1. CASE TakeChild
  BY <1>1 DEF TakeChild
<1>2. CASE Identify
  BY <1>2 DEF Identify
<1>3. CASE KillOwner
  BY <1>3 DEF KillOwner
<1>4. CASE Reap
  BY <1>4 DEF Reap
<1>5. CASE Gone
  BY <1>5 DEF Gone
<1> QED BY <1>1, <1>2, <1>3, <1>4, <1>5 DEF Stop, ServiceExit, Crash

(* What the machine and charon itself do keeps the invariant. *)
LEMMA MachineKeepsInv ==
    ASSUME CharonInv, Machine
    PROVE  CharonInv'
BY DEF Machine, NetworkReady, ForeignComes, ForeignGoes, Listen, StartFails, Dies,
       CharonInv, TypeOK, StopsOnlyStopping, ServiceBooting, CallersStart

(* Every step keeps the invariant: one case for each action. *)
LEMMA NextKeepsCharonInv ==
    ASSUME CharonInv, [Next]_vars
    PROVE  CharonInv'
<1>1. CASE UNCHANGED vars
  BY <1>1 DEF vars, CharonInv, TypeOK, StopsOnlyStopping, ServiceBooting, CallersStart
<1> QED BY <1>1, TryLockKeepsInv, CheckPortKeepsInv, SpawnKeepsInv, PollKeepsInv,
           RequestKeepsInv, StopKeepsInv, MachineKeepsInv
        DEF Next, Attempt

(* Types, and: the service thread starts while it boots and tears down     *)
(* while it stops, and no other thread ever tears down.                    *)
THEOREM CharonInvariance == Spec => []CharonInv
<1> QED BY InitCharonInv, NextKeepsCharonInv, PTL DEF Spec

(* A step that changes the handle is a start's last, a stop's or the end.  *)
LEMMA HandleStep ==
    ASSUME CharonInv, [Next]_vars, child # child'
    PROVE  \/ life = "stopping" \/ life' = "down"
           \/ \E a \in Actors : job[a].at = "record" /\ child' = job[a].proc
<1>1. CASE \E a \in Actors : Attempt(a)
  BY <1>1 DEF Attempt, TryLock, CheckPort, Spawn, PollUp, PollExited, PollTimeout, Record
<1>2. CASE Stop
  BY <1>2 DEF Stop, TakeChild, Identify, KillOwner, Reap, ServiceExit, Gone, CharonInv,
              StopsOnlyStopping
<1>3. CASE Crash
  BY <1>3 DEF Crash, Gone
<1>4. CASE \/ \E c \in Callers : CharonStart(c)
           \/ RetryWakes \/ BeginShutdown \/ Start \/ Machine \/ UNCHANGED vars
  BY <1>4 DEF CharonStart, RetryWakes, BeginShutdown, Start, Machine, NetworkReady,
              ForeignComes, ForeignGoes, Listen, StartFails, Dies, vars
<1> QED BY <1>1, <1>2, <1>3, <1>4 DEF Next

(* The handle of a charon that is up is not lost to an adoption while the  *)
(* service runs.                                                           *)
THEOREM HandleIsKept == Spec => HandleKept
<1>1. ASSUME CharonInv, [Next]_vars
      PROVE  [child # child' /\ child # NoProc /\ charon[child] = "listening"
                => \/ life = "stopping" \/ life' = "down"
                   \/ \E a \in Actors : job[a].at = "record" /\ child' = job[a].proc]_vars
  BY <1>1, HandleStep
<1> QED BY <1>1, CharonInvariance, PTL DEF Spec, HandleKept


(***************************************************************************)
(* Secrets: each is some connection's, and those a connection was last     *)
(* loaded with are all there.                                              *)
(***************************************************************************)
SecretsTask(conns, loaded, last) ==
    [kind |-> "secrets", conns |-> conns, loaded |-> loaded, last |-> last]

LoadedOf(conns, loaded) ==
    /\ \A s \in loaded : \E c \in conns : s \in Secrets(c)
    /\ \A s, t \in loaded : s.id = t.id => s = t

LastOf(conns, loaded, last) ==
    /\ last \in [{c.name : c \in conns} -> conns \cup {NoConn}]
    /\ \A n \in DOMAIN last :
          last[n] # NoConn => last[n].name = n /\ Secrets(last[n]) \subseteq loaded

(* A secret is known by its id: whose it is, and which of the two.         *)
LEMMA SecretIs ==
    ASSUME NEW c, NEW s \in Secrets(c)
    PROVE  /\ s.id[2] = c.name
           /\ \/ /\ s.id = <<"ike", c.name>> /\ s.type = "IKE" /\ s.data = c.psk
                 /\ s = LoadShared(c, c.name, {c.gateway})
              \/ /\ s.id = <<"user", c.name>>
                 /\ s.type = IF c.version = 1 THEN "XAUTH" ELSE "EAP"
                 /\ c.user # NoTerm /\ s.data = c.password
                 /\ s = LoadSharedUserAuth(c, c.name, c.password, c.version, {c.gateway})
BY DEF Secrets, LoadShared, LoadSharedUserAuth

(* Each names the gateway. *)
LEMMA PeerOwns ==
    ASSUME NEW locals, NEW peer, peer \notin {NoTerm, ""}
    PROVE  peer \in SecretOwners(locals, {peer})
<1> DEFINE named == (locals \cup {peer}) \ {NoTerm, ""}
<1>1. peer \in named
  OBVIOUS
<1>2. SecretOwners(locals, {peer}) = IF named = {} THEN {"%any"} ELSE named
  BY DEF SecretOwners
<1> HIDE DEF named
<1> QED BY <1>1, <1>2

(* A secret of a connection with a gateway names it. *)
LEMMA SecretNamesGateway ==
    ASSUME NEW c, c.gateway \notin {NoTerm, ""}, NEW s \in Secrets(c)
    PROVE  c.gateway \in s.owners
<1>1. /\ LoadShared(c, c.name, {c.gateway}).owners = SecretOwners({c.local_id}, {c.gateway})
      /\ LoadSharedUserAuth(c, c.name, c.password, c.version, {c.gateway}).owners
            = SecretOwners({c.user}, {c.gateway})
  BY DEF LoadShared, LoadSharedUserAuth
<1>2. \/ s = LoadShared(c, c.name, {c.gateway})
      \/ s = LoadSharedUserAuth(c, c.name, c.password, c.version, {c.gateway})
  BY DEF Secrets
<1>3. c.gateway \in SecretOwners({c.local_id}, {c.gateway})
  BY PeerOwns
<1>4. c.gateway \in SecretOwners({c.user}, {c.gateway})
  BY PeerOwns
<1> QED BY <1>1, <1>2, <1>3, <1>4

(* Two secrets of one connection under one id are one secret. *)
LEMMA SecretsDiffer ==
    ASSUME NEW c, NEW s \in Secrets(c), NEW t \in Secrets(c), s.id = t.id
    PROVE  s = t
<1> DEFINE key == LoadShared(c, c.name, {c.gateway})
           password == LoadSharedUserAuth(c, c.name, c.password, c.version, {c.gateway})
<1>1. \/ s.id = <<"ike", c.name>> /\ s = key
      \/ s.id = <<"user", c.name>> /\ s = password
  BY SecretIs
<1>2. \/ t.id = <<"ike", c.name>> /\ t = key
      \/ t.id = <<"user", c.name>> /\ t = password
  BY SecretIs
<1>3. <<"ike", c.name>> # <<"user", c.name>>
  OBVIOUS
<1> HIDE DEF key, password
<1> QED BY <1>1, <1>2, <1>3

(* Loading a connection's secrets over those that are loaded. *)
Overwritten(loaded, c) == {s \in loaded : s.id \notin Ids(Secrets(c))} \cup Secrets(c)

(* Loading a connection again keeps one secret per id. *)
LEMMA OverwrittenLoaded ==
    ASSUME NEW conns, NEW loaded, LoadedOf(conns, loaded), NEW c \in conns
    PROVE  LoadedOf(conns, Overwritten(loaded, c))
<1> DEFINE now == Overwritten(loaded, c)
<1>1. \A s \in now : \E d \in conns : s \in Secrets(d)
  BY DEF LoadedOf, Overwritten
<1>2. ASSUME NEW s \in now, NEW t \in now, s.id = t.id
      PROVE  s = t
  <2>1. CASE s \in Secrets(c)
    <3>1. t \in Secrets(c)
      BY <1>2, <2>1 DEF Overwritten, Ids
    <3> QED BY <1>2, <2>1, <3>1, SecretsDiffer
  <2>2. CASE s \notin Secrets(c)
    <3>1. s \in loaded /\ s.id \notin Ids(Secrets(c))
      BY <2>2 DEF Overwritten
    <3>2. t \notin Secrets(c)
      BY <1>2, <3>1 DEF Ids
    <3>3. t \in loaded
      BY <3>2 DEF Overwritten
    <3> QED BY <1>2, <3>1, <3>3 DEF LoadedOf
  <2> QED BY <2>1, <2>2
<1> QED BY <1>1, <1>2 DEF LoadedOf

(* ... and leaves those of every other connection there. *)
LEMMA OverwrittenLast ==
    ASSUME NEW conns, NEW loaded, NEW last, LastOf(conns, loaded, last), NEW c \in conns
    PROVE  LastOf(conns, Overwritten(loaded, c), [last EXCEPT ![c.name] = c])
<1> DEFINE now == [last EXCEPT ![c.name] = c]
<1>1. now \in [{d.name : d \in conns} -> conns \cup {NoConn}] /\ DOMAIN now = DOMAIN last
  BY DEF LastOf
<1>2. ASSUME NEW n \in DOMAIN now, now[n] # NoConn
      PROVE  now[n].name = n /\ Secrets(now[n]) \subseteq Overwritten(loaded, c)
  <2>1. CASE n = c.name
    BY <1>1, <2>1 DEF LastOf, Overwritten
  <2>2. CASE n # c.name
    <3>1. now[n] = last[n] /\ last[n].name = n /\ Secrets(last[n]) \subseteq loaded
      BY <1>1, <1>2, <2>2 DEF LastOf
    <3>2. \A s \in Secrets(last[n]) : s.id[2] = n
      BY <3>1, SecretIs
    <3>3. \A s \in Secrets(c) : s.id[2] = c.name
      BY SecretIs
    <3>4. \A s \in Secrets(last[n]) : s.id \notin Ids(Secrets(c))
      BY <2>2, <3>2, <3>3 DEF Ids
    <3> QED BY <3>1, <3>4 DEF Overwritten
  <2> QED BY <2>1, <2>2
<1> QED BY <1>1, <1>2 DEF LastOf

(* Retiring those of a name. *)
Retired(loaded, n) == {s \in loaded : s.id \notin {<<"ike", n>>, <<"user", n>>}}

(* Retiring takes secrets away and changes none. *)
LEMMA RetiredLoaded ==
    ASSUME NEW conns, NEW loaded, LoadedOf(conns, loaded), NEW n
    PROVE  LoadedOf(conns, Retired(loaded, n))
BY DEF LoadedOf, Retired

(* ... those of the one name only. *)
LEMMA RetiredLast ==
    ASSUME NEW conns, NEW loaded, NEW last, LastOf(conns, loaded, last), NEW n \in DOMAIN last
    PROVE  LastOf(conns, Retired(loaded, n), [last EXCEPT ![n] = NoConn])
<1> DEFINE now == [last EXCEPT ![n] = NoConn]
<1>1. now \in [{d.name : d \in conns} -> conns \cup {NoConn}] /\ DOMAIN now = DOMAIN last
  BY DEF LastOf
<1>2. ASSUME NEW m \in DOMAIN now, now[m] # NoConn
      PROVE  now[m].name = m /\ Secrets(now[m]) \subseteq Retired(loaded, n)
  <2>1. m # n /\ now[m] = last[m]
    BY <1>1, <1>2
  <2>2. last[m].name = m /\ Secrets(last[m]) \subseteq loaded
    BY <1>1, <1>2, <2>1 DEF LastOf
  <2>3. \A s \in Secrets(last[m]) : s.id[2] = m
    BY <2>2, SecretIs
  <2>4. \A s \in Secrets(last[m]) : s.id \notin {<<"ike", n>>, <<"user", n>>}
    BY <2>1, <2>3
  <2> QED BY <2>1, <2>2, <2>4 DEF Retired
<1> QED BY <1>1, <1>2 DEF LastOf

(***************************************************************************)
(* Charon's choice.  A secret that names the peer ranks above every secret *)
(* that does not, whoever else it names.                                   *)
(***************************************************************************)
LEMMA MatchRange ==
    ASSUME NEW s, NEW id
    PROVE  /\ Match(s, id) \in 0 .. 2
           /\ id \in s.owners => Match(s, id) = 2
           /\ id \notin s.owners => Match(s, id) <= 1
BY DEF Match

NamesAlone(own, loaded, type, peer) ==
    /\ own \in loaded /\ own.type = type /\ peer \in own.owners
    /\ \A s \in loaded : s.type = type /\ peer \in s.owners => s = own

(* Charon takes the one secret of a type that names the peer. *)
LEMMA OnlyOneNamesPeer ==
    ASSUME NEW own, NEW loaded, NEW type, NEW me, NEW peer,
           NamesAlone(own, loaded, type, peer)
    PROVE  Chosen(loaded, type, me, peer) = {own}
<1>0. /\ own \in loaded /\ own.type = type /\ peer \in own.owners
      /\ \A s \in loaded : s.type = type /\ peer \in s.owners => s = own
  BY DEF NamesAlone
<1> DEFINE rank(s) == 3 * Match(s, peer) + Match(s, me)
           fit == {s \in loaded : s.type = type /\ rank(s) > 0}
<1>1. \A s \in loaded : rank(s) \in 0 .. 8
  <2>1. \A s \in loaded : Match(s, peer) \in 0 .. 2 /\ Match(s, me) \in 0 .. 2
    BY MatchRange
  <2> QED BY <2>1
<1>2. rank(own) >= 6
  <2>1. Match(own, peer) = 2 /\ Match(own, me) \in 0 .. 2
    BY <1>0, MatchRange
  <2> QED BY <2>1
<1>3. own \in fit
  BY <1>0, <1>1, <1>2
<1>4. \A s \in fit : s # own => rank(s) < 6
  <2>1. \A s \in fit : s # own => Match(s, peer) \in 0 .. 1 /\ Match(s, me) \in 0 .. 2
    BY <1>0, MatchRange
  <2> QED BY <2>1
<1> HIDE DEF rank, fit
<1>5. Chosen(loaded, type, me, peer) = {s \in fit : \A t \in fit : rank(t) <= rank(s)}
  BY DEF Chosen, rank, fit
<1>6. fit \subseteq loaded
  BY DEF fit
<1>7. \A s \in fit \cup {own} : rank(s) \in 0 .. 8
  BY <1>0, <1>1, <1>6
<1>8. \A t \in fit : rank(t) <= rank(own)
  BY <1>2, <1>4, <1>7
<1>9. \A s \in fit : s # own => ~(rank(own) <= rank(s))
  BY <1>2, <1>4, <1>7
<1> QED BY <1>3, <1>5, <1>8, <1>9

(* What is loaded of a connection is the only thing of its type that names *)
(* its gateway, if nobody else's does.                                     *)
OthersDoNot(loaded, n, gateway) ==
    \A s \in loaded : s.id[2] # n => gateway \notin s.owners

(* That is the connection's own, when no other's names its gateway. *)
LEMMA OwnChosen ==
    ASSUME NEW conns \in Loads, NEW loaded, NEW last,
           LoadedOf(conns, loaded), LastOf(conns, loaded, last), LoadsAssumption,
           NEW n \in DOMAIN last, NEW c, c = last[n], c # NoConn,
           NEW peer, peer = c.gateway, OthersDoNot(loaded, n, peer),
           NEW own \in Secrets(c), NEW type, type = own.type, NEW me
    PROVE  Chosen(loaded, type, me, peer) = {own}
<1>1. c \in conns /\ c.name = n /\ Secrets(c) \subseteq loaded /\ own \in Secrets(c)
  BY DEF LastOf
<1>2. c.gateway \in own.owners
  <2>1. c.gateway \notin {NoTerm, ""}
    BY <1>1 DEF LoadsAssumption
  <2> QED BY <1>1, <2>1, SecretNamesGateway
<1>3. ASSUME NEW s \in loaded, s.type = own.type, c.gateway \in s.owners
      PROVE  s = own
  <2>1. s.id[2] = n
    BY <1>3 DEF OthersDoNot
  <2>2. PICK d \in conns : s \in Secrets(d)
    BY DEF LoadedOf
  <2>3. d.name = n
    BY <2>1, <2>2, SecretIs
  <2>4. s.id = own.id
    <3>1. \/ s.id = <<"ike", n>> /\ s.type = "IKE"
          \/ s.id = <<"user", n>> /\ s.type \in {"XAUTH", "EAP"}
      BY <2>2, <2>3, SecretIs
    <3>2. \/ own.id = <<"ike", n>> /\ own.type = "IKE"
          \/ own.id = <<"user", n>> /\ own.type \in {"XAUTH", "EAP"}
      BY <1>1, SecretIs
    <3> QED BY <1>3, <3>1, <3>2
  <2>5. own \in loaded
    BY <1>1
  <2> QED BY <2>4, <2>5 DEF LoadedOf
<1>5. own \in loaded
  BY <1>1
<1>6. \A s \in loaded : s.type = type /\ peer \in s.owners => s = own
  BY <1>3
<1>7. own.type = type /\ peer \in own.owners
  BY <1>2
<1>8. NamesAlone(own, loaded, type, peer)
  BY <1>5, <1>6, <1>7 DEF NamesAlone
<1> QED BY <1>8, OnlyOneNamesPeer

(***************************************************************************)
(* The plan of a repair.                                                   *)
(***************************************************************************)
Nets(r) == {r.config.nets[i] : i \in DOMAIN r.config.nets}

Up(r, wanted) == {c \in Installed(Live(r)) : Ts(c) \cap wanted # {}}

Carried(r) == UNION {Ts(c) : c \in Installed(Live(r))}

(* What every step of the plan is like. *)
StepOf(r, s) ==
    /\ s.child \in 0 .. Len(r.config.nets)
    /\ s.action = "keep" => Up(r, s.wanted) # {} /\ s.wanted \cap DeadNets(r) = {}
    /\ s.action # "keep" => Up(r, s.wanted) = {} \/ s.wanted \cap DeadNets(r) # {}
    /\ s.stale \subseteq {c.id : c \in Up(r, s.wanted)} \ {NoTerm}
    /\ s.stale # {} => s.action # "keep"
    /\ s.healthy \cup s.narrowed = s.wanted
    /\ s.healthy \subseteq Carried(r)
    /\ IsFiniteSet(s.stale)

(* The step planned for a child is as Step puts it together. *)
LEMMA StepIs ==
    ASSUME NEW r, IsFiniteSet(r.sas), NEW entry, entry.child \in 0 .. Len(r.config.nets)
    PROVE  StepOf(r, Step(entry, Live(r), DeadNets(r)))
<1> DEFINE s == Step(entry, Live(r), DeadNets(r))
           wanted == {entry.nets[i] : i \in DOMAIN entry.nets}
<1>1. PICK up, silent, carried :
          /\ up = {c \in Installed(Live(r)) : Ts(c) \cap wanted # {}}
          /\ silent = wanted \cap DeadNets(r)
          /\ carried = UNION {Ts(c) : c \in up}
  OBVIOUS
<1>2. up = Up(r, wanted)
  BY <1>1 DEF Up
<1>3. s = [child |-> entry.child, wanted |-> wanted,
           action |-> IF up = {} THEN "initiate" ELSE IF silent # {} THEN "replace" ELSE "keep",
           stale  |-> IF silent # {} THEN {c.id : c \in up} \ {NoTerm} ELSE {},
           healthy |-> wanted \cap carried, narrowed |-> wanted \ carried]
  BY <1>1 DEF Step
<1>4. IsFiniteSet({c.id : c \in up} \ {NoTerm})
  <2>1. up \subseteq r.sas
    BY <1>1 DEF Installed, Live
  <2>2. IsFiniteSet(up)
    BY <2>1, FS_Subset
  <2>3. IsFiniteSet({c.id : c \in up})
    <3>1. [c \in up |-> c.id] \in Surjection(up, {c.id : c \in up})
      BY DEF Surjection
    <3> QED BY <2>2, <3>1, FS_Surjection
  <2>4. {c.id : c \in up} \ {NoTerm} \subseteq {c.id : c \in up}
    OBVIOUS
  <2> QED BY <2>3, <2>4, FS_Subset
<1>5. IsFiniteSet({})
  BY FS_EmptySet
<1>6. carried \subseteq Carried(r)
  BY <1>1 DEF Carried
<1> HIDE DEF wanted, s
<1>7. /\ s.child = entry.child /\ s.wanted = wanted
      /\ s.action = IF up = {} THEN "initiate" ELSE IF silent # {} THEN "replace" ELSE "keep"
      /\ s.stale = IF silent # {} THEN {c.id : c \in up} \ {NoTerm} ELSE {}
      /\ s.healthy = wanted \cap carried /\ s.narrowed = wanted \ carried
  BY <1>3
<1>8. silent # {} \/ s.stale = {}
  BY <1>7
<1>9. s.stale # {} => s.action # "keep"
  BY <1>7
<1>10. s.stale \subseteq {c.id : c \in up} \ {NoTerm} /\ IsFiniteSet(s.stale)
  BY <1>4, <1>5, <1>7
<1>11. s.healthy \cup s.narrowed = s.wanted /\ s.healthy \subseteq Carried(r)
  BY <1>6, <1>7
<1>12. s.action = "keep" => up # {} /\ silent = {}
  BY <1>7
<1>13. s.action # "keep" => up = {} \/ silent # {}
  BY <1>7
<1>14. up = Up(r, s.wanted) /\ silent = s.wanted \cap DeadNets(r)
  BY <1>1, <1>2, <1>7
<1> QED BY <1>7, <1>9, <1>10, <1>11, <1>12, <1>13, <1>14 DEF StepOf, s

(* It wants the networks of its selector. *)
LEMMA StepWanted ==
    ASSUME NEW entry, NEW live, NEW dead
    PROVE  Step(entry, live, dead).wanted = {entry.nets[i] : i \in DOMAIN entry.nets}
BY DEF Step

(* The children of a profile, numbered, are for its networks and no other. *)
NetsOf(s) == UNION {{s[i].nets[j] : j \in DOMAIN s[i].nets} : i \in DOMAIN s}

(* The selectors together ask for the networks configured. *)
LEMMA Selectors ==
    ASSUME NEW config, NEW version, NEW s, s = ChildSelectors(config, version),
           config.nets \in Seq({config.nets[i] : i \in DOMAIN config.nets})
    PROVE  /\ Len(s) \in Nat
           /\ DOMAIN s = 1 .. Len(s)
           /\ \A i \in DOMAIN s :
                 /\ s[i].child \in 0 .. Len(config.nets)
                 /\ s[i].nets \in Seq({config.nets[j] : j \in DOMAIN config.nets})
           /\ NetsOf(s) = {config.nets[i] : i \in DOMAIN config.nets}
<1> DEFINE of(i) == {s[i].nets[j] : j \in DOMAIN s[i].nets}
<1>1. Len(config.nets) \in Nat /\ DOMAIN config.nets = 1 .. Len(config.nets)
  OBVIOUS
<1>2. CASE version = 1 /\ Len(config.nets) > 1
  <2>1. s = [i \in 1 .. Len(config.nets) |-> [child |-> i, nets |-> <<config.nets[i]>>]]
    BY <1>2 DEF ChildSelectors
  <2>2. Len(s) = Len(config.nets) /\ DOMAIN s = 1 .. Len(config.nets)
    BY <1>1, <2>1
  <2>3. \A i \in DOMAIN s : s[i].child = i /\ s[i].nets = <<config.nets[i]>>
    BY <2>1, <2>2
  <2>4. \A i \in DOMAIN s : of(i) = {config.nets[i]}
    BY <2>3
  <2>5. ASSUME NEW i \in DOMAIN s
        PROVE  s[i].nets \in Seq({config.nets[j] : j \in DOMAIN config.nets})
    <3>1. PICK T, x : T = {config.nets[j] : j \in DOMAIN config.nets} /\ x = config.nets[i]
      OBVIOUS
    <3>2. x \in T
      BY <1>1, <2>2, <3>1
    <3>3. <<x>> \in Seq(T)
      BY <3>2
    <3> QED BY <2>3, <3>1, <3>3
  <2> HIDE DEF of
  <2>6. UNION {of(i) : i \in DOMAIN s} = {config.nets[i] : i \in DOMAIN config.nets}
    BY <1>1, <2>2, <2>4
  <2> USE DEF of
  <2>7. \A i \in DOMAIN s : s[i].child \in 0 .. Len(config.nets)
    BY <1>1, <2>2, <2>3
  <2> QED BY <1>1, <2>2, <2>5, <2>6, <2>7 DEF NetsOf
<1>3. CASE ~(version = 1 /\ Len(config.nets) > 1)
  <2>1. s = <<[child |-> 0, nets |-> config.nets]>>
    BY <1>3 DEF ChildSelectors
  <2>2. Len(s) = 1 /\ DOMAIN s = 1 .. 1 /\ s[1].child = 0 /\ s[1].nets = config.nets
    BY <2>1
  <2>3. of(1) = {config.nets[i] : i \in DOMAIN config.nets}
    BY <2>2
  <2>4. DOMAIN s = {1}
    BY <2>2
  <2> HIDE DEF of
  <2>5. UNION {of(i) : i \in DOMAIN s} = {config.nets[i] : i \in DOMAIN config.nets}
    BY <2>3, <2>4
  <2> USE DEF of
  <2>6. Len(s) \in Nat /\ DOMAIN s = 1 .. Len(s)
    BY <2>2
  <2>7. ASSUME NEW i \in DOMAIN s
        PROVE  /\ s[i].child \in 0 .. Len(config.nets)
               /\ s[i].nets \in Seq({config.nets[j] : j \in DOMAIN config.nets})
    BY <1>1, <2>2, <2>4
  <2> QED BY <2>5, <2>6, <2>7 DEF NetsOf
<1> QED BY <1>2, <1>3

(***************************************************************************)
(* A plan, and what its first steps amount to.                             *)
(***************************************************************************)
WantedOf(plan, n) == UNION {plan[k].wanted : k \in 1 .. n}
RedoneOf(plan, n) == UNION {plan[k].wanted : k \in {i \in 1 .. n : plan[i].action # "keep"}}
StaleOf(plan, n) == UNION {plan[k].stale : k \in 1 .. n}

(* What the first n + 1 steps want, redo and take down. *)
LEMMA PlanGrows ==
    ASSUME NEW plan, NEW n \in Nat
    PROVE  /\ WantedOf(plan, n + 1) = WantedOf(plan, n) \cup plan[n + 1].wanted
           /\ StaleOf(plan, n + 1) = StaleOf(plan, n) \cup plan[n + 1].stale
           /\ plan[n + 1].action = "keep" => RedoneOf(plan, n + 1) = RedoneOf(plan, n)
           /\ plan[n + 1].action # "keep" =>
                 RedoneOf(plan, n + 1) = RedoneOf(plan, n) \cup plan[n + 1].wanted
           /\ WantedOf(plan, 0) = {} /\ RedoneOf(plan, 0) = {} /\ StaleOf(plan, 0) = {}
<1>1. 1 .. n + 1 = (1 .. n) \cup {n + 1} /\ 1 .. 0 = {}
  OBVIOUS
<1>2. WantedOf(plan, n + 1) = WantedOf(plan, n) \cup plan[n + 1].wanted
  BY <1>1, Zenon DEF WantedOf
<1>3. StaleOf(plan, n + 1) = StaleOf(plan, n) \cup plan[n + 1].stale
  BY <1>1, Zenon DEF StaleOf
<1>4. ASSUME plan[n + 1].action = "keep"
      PROVE  RedoneOf(plan, n + 1) = RedoneOf(plan, n)
  <2>1. {i \in 1 .. n + 1 : plan[i].action # "keep"} = {i \in 1 .. n : plan[i].action # "keep"}
    BY <1>1, <1>4, Zenon
  <2> QED BY <2>1 DEF RedoneOf
<1>5. ASSUME plan[n + 1].action # "keep"
      PROVE  RedoneOf(plan, n + 1) = RedoneOf(plan, n) \cup plan[n + 1].wanted
  <2>1. {i \in 1 .. n + 1 : plan[i].action # "keep"}
           = {i \in 1 .. n : plan[i].action # "keep"} \cup {n + 1}
    BY <1>1, <1>5, Zenon
  <2> QED BY <2>1, Zenon DEF RedoneOf
<1>6. WantedOf(plan, 0) = {} /\ RedoneOf(plan, 0) = {} /\ StaleOf(plan, 0) = {}
  BY <1>1, Zenon DEF WantedOf, RedoneOf, StaleOf
<1> QED BY <1>2, <1>3, <1>4, <1>5, <1>6

RepairAssumption(r) ==
    /\ r.config.nets \in Seq(Nets(r))
    /\ IsFiniteSet(r.sas)
    /\ \A c \in r.sas : c.remote_ts \in Seq(Ts(c))
    /\ \A c, d \in r.sas : c.id = d.id /\ c.id # NoTerm => c = d
    /\ \A s \in 0 .. Len(r.config.nets) : r.says[s] \in Seq({r.says[s][i] : i \in DOMAIN r.says[s]})

PlanOf(r, plan) ==
    /\ Len(plan) \in Nat
    /\ \A k \in 1 .. Len(plan) : StepOf(r, plan[k])
    /\ r.ike.up => WantedOf(plan, Len(plan)) = Nets(r)

(* The steps of a repair are a plan for its configuration. *)
LEMMA StepsArePlan ==
    ASSUME NEW r, RepairAssumption(r)
    PROVE  PlanOf(r, StepsOf(r))
<1> DEFINE plan == StepsOf(r)
<1>1. CASE ~r.ike.up
  <2>1. plan = << >>
    BY <1>1 DEF StepsOf
  <2>2. Len(plan) \in Nat /\ 1 .. Len(plan) = {}
    BY <2>1
  <2> HIDE DEF plan
  <2> QED BY <1>1, <2>2 DEF PlanOf, plan
<1>2. CASE r.ike.up
  <2>1. PICK s : s = ChildSelectors(r.config, LiveVersion(r.config, r.ike.version, Live(r)))
    OBVIOUS
  <2>2. plan = [i \in DOMAIN s |-> Step(s[i], Live(r), DeadNets(r))]
    BY <1>2, <2>1 DEF StepsOf, PlanRepair
  <2>3. /\ Len(s) \in Nat /\ DOMAIN s = 1 .. Len(s)
        /\ \A i \in DOMAIN s : s[i].child \in 0 .. Len(r.config.nets)
        /\ NetsOf(s) = Nets(r)
    <3>1. PICK config, version : /\ config = r.config
                                 /\ version = LiveVersion(r.config, r.ike.version, Live(r))
      OBVIOUS
    <3>2. config.nets \in Seq({config.nets[i] : i \in DOMAIN config.nets})
      BY <3>1 DEF RepairAssumption, Nets
    <3>3. s = ChildSelectors(config, version)
      BY <2>1, <3>1
    <3>4. /\ Len(s) \in Nat /\ DOMAIN s = 1 .. Len(s)
          /\ \A i \in DOMAIN s : s[i].child \in 0 .. Len(config.nets)
      BY <3>2, <3>3, Selectors
    <3>5. NetsOf(s) = {config.nets[i] : i \in DOMAIN config.nets}
      BY <3>2, <3>3, Selectors
    <3> QED BY <3>1, <3>4, <3>5 DEF Nets
  <2>4. Len(plan) = Len(s)
    BY <2>2, <2>3
  <2>5. \A k \in 1 .. Len(s) : plan[k] = Step(s[k], Live(r), DeadNets(r))
    BY <2>2, <2>3
  <2>6. \A k \in 1 .. Len(s) : StepOf(r, plan[k])
    BY <2>3, <2>5, StepIs DEF RepairAssumption
  <2>7. \A k \in 1 .. Len(s) : plan[k].wanted = {s[k].nets[j] : j \in DOMAIN s[k].nets}
    BY <2>5, StepWanted
  <2>8. WantedOf(plan, Len(s)) = NetsOf(s)
    <3> HIDE DEF plan
    <3>1. DOMAIN s = 1 .. Len(s)
      BY <2>3
    <3> QED BY <2>7, <3>1 DEF WantedOf, NetsOf
  <2> HIDE DEF plan
  <2>9. PlanOf(r, plan)
    BY <2>3, <2>4, <2>6, <2>8 DEF PlanOf
  <2> QED BY <2>9 DEF plan
<1> QED BY <1>1, <1>2

(***************************************************************************)
(* The pass.                                                               *)
(***************************************************************************)
RepairDone(terminated, restored, failed, healthy, narrowed, log) ==
    [terminated |-> terminated, restored |-> restored, failed |-> failed,
     healthy |-> healthy, narrowed |-> narrowed, log |-> log]

LinesOf(r) ==
    {Ours, {"IKE_SA", "ESTABLISHED"}} \cup
    UNION {{r.says[s][i] : i \in DOMAIN r.says[s]} : s \in 0 .. Len(r.config.nets)}

ReasonsOf(r, failed) ==
    \A f \in failed :
        \E n \in 0 .. Len(r.says[f.child]) :
            f.reason = ClassifyFailure(SubSeq(r.says[f.child], 1, n))

(* After n steps, when what the first m of them have torn down is gone.    *)
DoneOf(r, plan, n, m, done) ==
    /\ done = RepairDone(done.terminated, done.restored, done.failed, done.healthy, done.narrowed,
                   done.log)
    /\ done.log \in Seq(LinesOf(r))
    /\ done.terminated \subseteq StaleOf(plan, m)
    /\ done.restored \cup FailedNets(done) = RedoneOf(plan, n)
    /\ done.restored \cup FailedNets(done) \cup done.healthy \cup done.narrowed
          = WantedOf(plan, n)
    /\ done.healthy \subseteq Carried(r)
    /\ ReasonsOf(r, done.failed)

(* What is done of a plan before its first step. *)
LEMMA NothingIsDone ==
    ASSUME NEW r, RepairAssumption(r)
    PROVE  DoneOf(r, StepsOf(r), 0, 0, NothingDone(r))
<1>1. PICK plan : plan = StepsOf(r)
  OBVIOUS
<1>2. PICK n : n = Cardinality({q \in {c.reqid : c \in Installed(r.sas)} : Collides(r.sas, q)})
  OBVIOUS
<1>3. n \in Nat
  <2>1. PICK sas, ids, hit :
           /\ sas = Installed(r.sas) /\ ids = {c.reqid : c \in sas}
           /\ hit = {q \in {c.reqid : c \in Installed(r.sas)} : Collides(r.sas, q)}
    OBVIOUS
  <2>2. IsFiniteSet(sas)
    BY <2>1, FS_Subset DEF RepairAssumption, Installed
  <2>3. [c \in sas |-> c.reqid] \in Surjection(sas, ids)
    BY <2>1 DEF Surjection
  <2>4. IsFiniteSet(ids) /\ hit \subseteq ids
    BY <2>1, <2>2, <2>3, FS_Surjection
  <2>5. IsFiniteSet(hit)
    BY <2>4, FS_Subset
  <2> QED BY <1>2, <2>1, <2>5, FS_CardinalityType
<1>4. PICK log : log = [i \in 1 .. n |-> Ours]
  OBVIOUS
<1>5. log \in Seq(LinesOf(r))
  BY <1>3, <1>4 DEF LinesOf
<1>6. NothingDone(r) = RepairDone({}, {}, {}, {}, {}, log)
  BY <1>2, <1>4 DEF NothingDone, RepairDone
<1>7. DoneOf(r, plan, 0, 0, RepairDone({}, {}, {}, {}, {}, log))
  <2>1. PICK d : d = RepairDone({}, {}, {}, {}, {}, log)
    OBVIOUS
  <2>2. /\ d = RepairDone(d.terminated, d.restored, d.failed, d.healthy, d.narrowed, d.log)
        /\ d.terminated = {} /\ d.restored = {} /\ d.failed = {} /\ d.healthy = {}
        /\ d.narrowed = {} /\ d.log = log
    BY <2>1 DEF RepairDone
  <2>3. WantedOf(plan, 0) = {} /\ RedoneOf(plan, 0) = {} /\ StaleOf(plan, 0) = {}
    BY PlanGrows
  <2>4. FailedNets(d) = {} /\ ReasonsOf(r, d.failed)
    BY <2>2 DEF FailedNets, ReasonsOf
  <2> QED BY <1>5, <2>1, <2>2, <2>3, <2>4 DEF DoneOf
<1> QED BY <1>1, <1>6, <1>7

(* A report is made of these six. *)
LEMMA RecordedIn ==
    ASSUME NEW out, NEW t, NEW rs, NEW f, NEW h, NEW nr, NEW log,
           out = RepairDone(t, rs, f, h, nr, log)
    PROVE  /\ out.terminated = t /\ out.restored = rs /\ out.failed = f /\ out.healthy = h
           /\ out.narrowed = nr /\ out.log = log
           /\ out = RepairDone(out.terminated, out.restored, out.failed, out.healthy, out.narrowed,
                         out.log)
BY DEF RepairDone

(* A step is taken from a record to a record. *)
LEMMA RecordHas ==
    ASSUME NEW out, NEW t, NEW rs, NEW f, NEW h, NEW nr, NEW log,
           out = RepairDone(t, rs, f, h, nr, log)
    PROVE  DOMAIN out = {"terminated", "restored", "failed", "healthy", "narrowed", "log"}
BY DEF RepairDone

(* Keeping a child records what is well and what is narrow. *)
LEMMA Kept ==
    ASSUME NEW t, NEW rs, NEW f, NEW h, NEW nr, NEW log, NEW s, NEW out,
           out = RepairDone(t, rs, f, h, nr, log),
           NEW well, well = h \cup s.healthy, NEW less, less = nr \cup s.narrowed
    PROVE  Keep(out, s) = RepairDone(t, rs, f, well, less, log)
<1>1. out.healthy = h /\ out.narrowed = nr
  BY DEF RepairDone
<1>2. Keep(out, s) = [out EXCEPT !.healthy = well, !.narrowed = less]
  BY <1>1 DEF Keep
<1> QED BY <1>2, RecordHas, RecordedIn DEF RepairDone

Extended(log, lines, line) == log \o lines \o <<line>>

OwnLines(s) == [i \in 1 .. 1 + Cardinality(s.stale) |-> Ours]
TornLog(log, s) == log \o OwnLines(s)

(* Tearing down records each child taken down, and logs it. *)
LEMMA TornDown ==
    ASSUME NEW t, NEW rs, NEW f, NEW h, NEW nr, NEW log, NEW s, NEW out,
           out = RepairDone(t, rs, f, h, nr, log),
           NEW gone, gone = t \cup s.stale, NEW lines, lines = TornLog(log, s)
    PROVE  TearDown(out, s) = RepairDone(gone, rs, f, h, nr, lines)
<1>1. out.terminated = t /\ out.log = log
  BY DEF RepairDone
<1>2. TearDown(out, s) = [out EXCEPT !.terminated = gone, !.log = lines]
  BY <1>1 DEF TearDown, OwnLines, TornLog
<1> QED BY <1>2, RecordHas, RecordedIn DEF RepairDone

FailuresOf(s, kind) == {[net |-> n, child |-> s.child, reason |-> kind] : n \in s.wanted}

(* A child that came back records its networks as restored. *)
LEMMA RestoredIs ==
    ASSUME NEW t, NEW rs, NEW f, NEW h, NEW nr, NEW log, NEW s, NEW heard, NEW out,
           out = RepairDone(t, rs, f, h, nr, log),
           NEW back, back = rs \cup s.wanted,
           NEW said, said = Extended(log, heard, Ours)
    PROVE  Restored(out, s, heard) = RepairDone(t, back, f, h, nr, said)
<1>1. out.restored = rs /\ out.log = log
  BY DEF RepairDone
<1>2. Restored(out, s, heard) = [out EXCEPT !.restored = back, !.log = said]
  BY <1>1 DEF Restored, Extended
<1> QED BY <1>2, RecordHas, RecordedIn DEF RepairDone

(* One that did not records each network as failed. *)
LEMMA NotRestoredIs ==
    ASSUME NEW t, NEW rs, NEW f, NEW h, NEW nr, NEW log, NEW s, NEW heard, NEW kind, NEW out,
           out = RepairDone(t, rs, f, h, nr, log),
           NEW lost, lost = f \cup FailuresOf(s, kind),
           NEW said, said = Extended(log, heard, Verdict(kind))
    PROVE  NotRestored(out, s, heard, kind) = RepairDone(t, rs, lost, h, nr, said)
<1>1. out.failed = f /\ out.log = log
  BY DEF RepairDone
<1>2. NotRestored(out, s, heard, kind) = [out EXCEPT !.failed = lost, !.log = said]
  BY <1>1 DEF NotRestored, FailuresOf, Extended
<1> QED BY <1>2, RecordHas, RecordedIn DEF RepairDone

(* The log takes a beginning of what charon says. *)
LEMMA HeardIs ==
    ASSUME NEW Lines, NEW log \in Seq(Lines), NEW Words, NEW says \in Seq(Words),
           MaxLogLines \in Nat
    PROVE  /\ \E n \in 0 .. Len(says) : Heard(log, says) = SubSeq(says, 1, n)
           /\ Heard(log, says) \in Seq(Words)
<1> DEFINE room == IF Len(log) < MaxLogLines THEN MaxLogLines - Len(log) ELSE 0
           n == IF Len(says) < room THEN Len(says) ELSE room
<1>1. Len(log) \in Nat /\ Len(says) \in Nat
  OBVIOUS
<1>2. n \in 0 .. Len(says)
  BY <1>1
<1>3. Heard(log, says) = SubSeq(says, 1, n)
  BY DEF Heard
<1> HIDE DEF n
<1>4. SubSeq(says, 1, n) \in Seq(Words)
  BY <1>1, <1>2
<1> QED BY <1>2, <1>3, <1>4

NetsIn(failed) == {f.net : f \in failed}

(* The networks of those failures are the ones the step wants. *)
LEMMA FailedToo ==
    ASSUME NEW f, NEW s, NEW kind, NEW lost, lost = f \cup FailuresOf(s, kind)
    PROVE  NetsIn(lost) = NetsIn(f) \cup s.wanted
<1>1. {x.net : x \in FailuresOf(s, kind)} = s.wanted
  <2>1. ASSUME NEW x \in FailuresOf(s, kind)
        PROVE  x.net \in s.wanted
    BY DEF FailuresOf
  <2>2. ASSUME NEW n \in s.wanted
        PROVE  \E x \in FailuresOf(s, kind) : x.net = n
    <3>1. PICK x : x = [net |-> n, child |-> s.child, reason |-> kind]
      OBVIOUS
    <3>2. x.net = n
      BY <3>1
    <3>3. x \in FailuresOf(s, kind)
      BY <3>1 DEF FailuresOf
    <3> QED BY <3>2, <3>3
  <2> QED BY <2>1, <2>2
<1>2. NetsIn(lost) = {x.net : x \in f} \cup {x.net : x \in FailuresOf(s, kind)}
  BY DEF NetsIn
<1> QED BY <1>1, <1>2 DEF NetsIn

(* A step of the plan does what the plan says of it. *)
LEMMA StepTaken ==
    ASSUME NEW r, NEW plan, NEW n \in Nat, NEW out, NEW s,
           RepairAssumption(r), MaxLogLines \in Nat,
           DoneOf(r, plan, n, n, out), s = plan[n + 1], StepOf(r, s)
    PROVE  DoneOf(r, plan, n + 1, n + 1, RunStep(out, s, r))
<1>1. PICK t, rs, f, h, nr, log : out = RepairDone(t, rs, f, h, nr, log)
  BY DEF DoneOf
<1>2. /\ out.terminated = t /\ out.restored = rs /\ out.failed = f /\ out.healthy = h
      /\ out.narrowed = nr /\ out.log = log
  BY <1>1, RecordedIn
<1>3. PICK m : m = n + 1
  OBVIOUS
<1>4. /\ log \in Seq(LinesOf(r)) /\ t \subseteq StaleOf(plan, n)
      /\ rs \cup FailedNets(out) = RedoneOf(plan, n)
      /\ rs \cup FailedNets(out) \cup h \cup nr = WantedOf(plan, n)
      /\ h \subseteq Carried(r) /\ ReasonsOf(r, f)
  BY <1>2 DEF DoneOf
<1>5. /\ WantedOf(plan, m) = WantedOf(plan, n) \cup s.wanted
      /\ StaleOf(plan, m) = StaleOf(plan, n) \cup s.stale
      /\ s.action = "keep" => RedoneOf(plan, m) = RedoneOf(plan, n)
      /\ s.action # "keep" => RedoneOf(plan, m) = RedoneOf(plan, n) \cup s.wanted
  BY <1>3, PlanGrows
<1>6. CASE s.action = "keep"
  <2>1. PICK well, less, now : /\ well = h \cup s.healthy /\ less = nr \cup s.narrowed
                               /\ now = RepairDone(t, rs, f, well, less, log)
    OBVIOUS
  <2>2. RunStep(out, s, r) = now
    BY <1>1, <1>6, <2>1, Kept DEF RunStep
  <2>3. /\ now.terminated = t /\ now.restored = rs /\ now.failed = f
        /\ now.healthy = well /\ now.narrowed = less /\ now.log = log
        /\ now = RepairDone(now.terminated, now.restored, now.failed, now.healthy, now.narrowed,
                      now.log)
    BY <2>1, RecordedIn
  <2>4. FailedNets(now) = FailedNets(out)
    BY <1>2, <2>3 DEF FailedNets
  <2>5. s.healthy \cup s.narrowed = s.wanted /\ s.healthy \subseteq Carried(r)
    BY DEF StepOf
  <2>6. now.terminated \subseteq StaleOf(plan, m)
    BY <1>4, <1>5, <2>3
  <2>7. now.restored \cup FailedNets(now) = RedoneOf(plan, m)
    BY <1>4, <1>5, <1>6, <2>3, <2>4
  <2>8. now.restored \cup FailedNets(now) \cup now.healthy \cup now.narrowed = WantedOf(plan, m)
    BY <1>4, <1>5, <2>1, <2>3, <2>4, <2>5
  <2>9. now.healthy \subseteq Carried(r) /\ ReasonsOf(r, now.failed)
    BY <1>4, <2>1, <2>3, <2>5
  <2>10. now.log \in Seq(LinesOf(r))
    BY <1>4, <2>3
  <2>11. DoneOf(r, plan, m, m, now)
    BY <2>3, <2>6, <2>7, <2>8, <2>9, <2>10 DEF DoneOf
  <2> QED BY <1>3, <2>2, <2>11
<1>7. CASE s.action # "keep"
  <2>0. PICK gone, lines : gone = t \cup s.stale /\ lines = TornLog(log, s)
    OBVIOUS
  <2>1. PICK torn : torn = RepairDone(gone, rs, f, h, nr, lines)
    OBVIOUS
  <2>2. TearDown(out, s) = torn
    <3>1. TearDown(out, s) = RepairDone(gone, rs, f, h, nr, lines)
      BY <1>1, <2>0, TornDown
    <3> QED BY <2>1, <3>1
  <2>3. torn.log = lines
    BY <2>1, RecordedIn
  <2>4. lines \in Seq(LinesOf(r))
    <3>1. Cardinality(s.stale) \in Nat
      BY FS_CardinalityType DEF StepOf
    <3>2. OwnLines(s) \in Seq(LinesOf(r))
      BY <3>1 DEF OwnLines, LinesOf
    <3> QED BY <1>4, <2>0, <3>2 DEF TornLog
  <2>5. PICK heard, says : says = r.says[s.child] /\ heard = Heard(torn.log, says)
    OBVIOUS
  <2>6. says \in Seq({says[i] : i \in DOMAIN says}) /\ s.child \in 0 .. Len(r.config.nets)
    BY <2>5 DEF StepOf, RepairAssumption
  <2>7. PICK k \in 0 .. Len(says) : heard = SubSeq(says, 1, k)
    BY <2>3, <2>4, <2>5, <2>6, HeardIs
  <2>8. heard \in Seq(LinesOf(r))
    <3>1. heard \in Seq({says[i] : i \in DOMAIN says})
      BY <2>3, <2>4, <2>5, <2>6, HeardIs
    <3>2. {says[i] : i \in DOMAIN says} \subseteq LinesOf(r)
      BY <2>5, <2>6 DEF LinesOf
    <3> QED BY <3>1, <3>2
  <2>9. RunStep(out, s, r) =
           IF s.child \in r.accepts THEN Restored(torn, s, heard)
           ELSE NotRestored(torn, s, heard, ClassifyFailure(heard))
    BY <1>7, <2>2, <2>5 DEF RunStep, Reinitiate
  <2>10. gone \subseteq StaleOf(plan, m)
    BY <1>4, <1>5, <2>0
  <2>11. CASE s.child \in r.accepts
    <3>0. PICK back, said : back = rs \cup s.wanted /\ said = Extended(lines, heard, Ours)
      OBVIOUS
    <3>1. PICK now : now = RepairDone(gone, back, f, h, nr, said)
      OBVIOUS
    <3>2. RunStep(out, s, r) = now
      <4>1. Restored(torn, s, heard) = RepairDone(gone, back, f, h, nr, said)
        BY <2>1, <3>0, RestoredIs
      <4> QED BY <2>9, <2>11, <3>1, <4>1
    <3>3. /\ now.terminated = gone /\ now.restored = back
          /\ now.failed = f /\ now.healthy = h /\ now.narrowed = nr /\ now.log = said
          /\ now = RepairDone(now.terminated, now.restored, now.failed, now.healthy, now.narrowed,
                        now.log)
      BY <3>1, RecordedIn
    <3>4. said \in Seq(LinesOf(r))
      <4>1. <<Ours>> \in Seq(LinesOf(r))
        BY DEF LinesOf
      <4> QED BY <2>4, <2>8, <3>0, <4>1 DEF Extended
    <3>5. FailedNets(now) = FailedNets(out)
      BY <1>2, <3>3 DEF FailedNets
    <3>6. now.restored \cup FailedNets(now) = RedoneOf(plan, m)
      BY <1>4, <1>5, <1>7, <3>0, <3>3, <3>5
    <3>7. now.restored \cup FailedNets(now) \cup now.healthy \cup now.narrowed = WantedOf(plan, m)
      BY <1>4, <1>5, <3>0, <3>3, <3>5
    <3>8. DoneOf(r, plan, m, m, now)
      BY <1>4, <2>10, <3>3, <3>4, <3>6, <3>7 DEF DoneOf
    <3> QED BY <1>3, <3>2, <3>8
  <2>12. CASE s.child \notin r.accepts
    <3>0. PICK lost, said, kind :
             /\ kind = ClassifyFailure(heard) /\ lost = f \cup FailuresOf(s, kind)
             /\ said = Extended(lines, heard, Verdict(kind))
      OBVIOUS
    <3>1. PICK now : now = RepairDone(gone, rs, lost, h, nr, said)
      OBVIOUS
    <3>2. RunStep(out, s, r) = now
      <4>1. NotRestored(torn, s, heard, kind) = RepairDone(gone, rs, lost, h, nr, said)
        BY <2>1, <3>0, NotRestoredIs
      <4> QED BY <2>9, <2>12, <3>0, <3>1, <4>1
    <3>3. /\ now.terminated = gone /\ now.restored = rs
          /\ now.failed = lost /\ now.healthy = h /\ now.narrowed = nr
          /\ now.log = said
          /\ now = RepairDone(now.terminated, now.restored, now.failed, now.healthy, now.narrowed,
                        now.log)
      BY <3>1, RecordedIn
    <3>4. said \in Seq(LinesOf(r))
      <4>1. <<Verdict(kind)>> \in Seq(LinesOf(r))
        BY DEF LinesOf, Verdict
      <4> QED BY <2>4, <2>8, <3>0, <4>1 DEF Extended
    <3>5. FailedNets(now) = FailedNets(out) \cup s.wanted
      <4>1. out.failed = f /\ now.failed = lost /\ lost = f \cup FailuresOf(s, kind)
        BY <1>2, <3>0, <3>3
      <4>2. FailedNets(out) = NetsIn(f) /\ FailedNets(now) = NetsIn(lost)
        BY <4>1 DEF FailedNets, NetsIn
      <4>3. NetsIn(lost) = NetsIn(f) \cup s.wanted
        BY <4>1, FailedToo
      <4> QED BY <4>2, <4>3
    <3>6. now.restored \cup FailedNets(now) = RedoneOf(plan, m)
      BY <1>4, <1>5, <1>7, <3>0, <3>3, <3>5
    <3>7. now.restored \cup FailedNets(now) \cup now.healthy \cup now.narrowed = WantedOf(plan, m)
      BY <1>4, <1>5, <3>0, <3>3, <3>5
    <3>8. ReasonsOf(r, now.failed)
      <4>1. ReasonsOf(r, FailuresOf(s, kind))
        <5> SUFFICES ASSUME NEW x \in FailuresOf(s, kind)
                     PROVE  \E i \in 0 .. Len(r.says[x.child]) :
                               x.reason = ClassifyFailure(SubSeq(r.says[x.child], 1, i))
          BY DEF ReasonsOf
        <5>1. x.child = s.child /\ x.reason = kind
          BY DEF FailuresOf
        <5> QED BY <2>5, <2>7, <3>0, <5>1
      <4> QED BY <1>4, <3>0, <3>3, <4>1 DEF ReasonsOf
    <3>9. DoneOf(r, plan, m, m, now)
      BY <1>4, <2>10, <3>3, <3>4, <3>6, <3>7, <3>8 DEF DoneOf
    <3> QED BY <1>3, <3>2, <3>9
  <2> QED BY <2>11, <2>12
<1> QED BY <1>6, <1>7

(* Charon is lost under a step that is not a mere look. *)
LEMMA StepBroken ==
    ASSUME NEW r, NEW plan, NEW n \in Nat, NEW out, NEW torn,
           DoneOf(r, plan, n, n, out), torn \subseteq plan[n + 1].stale
    PROVE  DoneOf(r, plan, n, n + 1, BrokenOff(out, torn))
<1>1. PICK t, rs, f, h, nr, log : out = RepairDone(t, rs, f, h, nr, log)
  BY DEF DoneOf
<1>2. /\ out.terminated = t /\ out.restored = rs /\ out.failed = f /\ out.healthy = h
      /\ out.narrowed = nr /\ out.log = log
  BY <1>1, RecordedIn
<1>3. PICK m, gone, now : /\ m = n + 1 /\ gone = t \cup torn
                          /\ now = RepairDone(gone, rs, f, h, nr, log)
  OBVIOUS
<1>4. BrokenOff(out, torn) = now
  <2>1. BrokenOff(out, torn) = [out EXCEPT !.terminated = gone]
    BY <1>2, <1>3 DEF BrokenOff
  <2> QED BY <1>1, <1>3, <2>1, RecordHas, RecordedIn DEF RepairDone
<1>5. /\ now.terminated = gone /\ now.restored = rs /\ now.failed = f
      /\ now.healthy = h /\ now.narrowed = nr /\ now.log = log
      /\ now = RepairDone(now.terminated, now.restored, now.failed, now.healthy, now.narrowed, now.log)
  BY <1>3, RecordedIn
<1>6. StaleOf(plan, m) = StaleOf(plan, n) \cup plan[m].stale
  BY <1>3, PlanGrows
<1>7. FailedNets(now) = FailedNets(out)
  BY <1>2, <1>5 DEF FailedNets
<1>8. DoneOf(r, plan, n, m, now)
  BY <1>2, <1>3, <1>5, <1>6, <1>7 DEF DoneOf
<1> QED BY <1>3, <1>4, <1>8

(***************************************************************************)
(* Networks that run as one child each.                                    *)
(***************************************************************************)
LEMMA OneNet ==
    ASSUME NEW r, RepairAssumption(r), Apart(r), NEW c \in Installed(Live(r))
    PROVE  \E x : Ts(c) = {x}
<1>1. c \in r.sas
  BY DEF Installed, Live
<1>2. PICK s, T : s = c.remote_ts /\ T = Ts(c)
  OBVIOUS
<1>3. s \in Seq(T) /\ T = {s[i] : i \in DOMAIN s}
  BY <1>1, <1>2 DEF RepairAssumption, Ts
<1>4. Len(s) \in Nat /\ DOMAIN s = 1 .. Len(s)
  BY <1>3
<1>5. IsFiniteSet(T)
  <2>1. [i \in 1 .. Len(s) |-> s[i]] \in Surjection(1 .. Len(s), T)
    BY <1>3, <1>4 DEF Surjection
  <2>2. IsFiniteSet(1 .. Len(s))
    BY <1>4, FS_Interval
  <2> QED BY <2>1, <2>2, FS_Surjection
<1>6. Cardinality(T) = 1
  BY <1>2 DEF Apart
<1> QED BY <1>2, <1>5, <1>6, FS_Singleton

(* A tunnel whose children carry one network each is an IKEv1 one. *)
LEMMA RunsApart ==
    ASSUME NEW r, RepairAssumption(r), Apart(r)
    PROVE  LiveVersion(r.config, r.ike.version, Live(r)) = 1
<1>1. CASE r.ike.version = 1
  BY <1>1 DEF LiveVersion, Unknown
<1>2. CASE r.ike.version # 1
  <2>1. r.ike.version = Unknown /\ Cardinality(Installed(Live(r))) > 1
    BY <1>2 DEF Apart
  <2>2. ASSUME NEW c \in Installed(Live(r))
        PROVE  ~(Cardinality(Ts(c) \cap Nets(r)) > 1)
    <3>1. PICK x : Ts(c) = {x}
      BY OneNet
    <3>2. IsFiniteSet({x}) /\ Cardinality({x}) = 1
      BY FS_Singleton
    <3>3. Ts(c) \cap Nets(r) \subseteq {x}
      BY <3>1
    <3>4. Cardinality(Ts(c) \cap Nets(r)) \in Nat /\ Cardinality(Ts(c) \cap Nets(r)) <= 1
      BY <3>2, <3>3, FS_Subset, FS_CardinalityType
    <3> QED BY <3>4
  <2>3. ~ \E c \in Installed(Live(r)) :
            Cardinality(Ts(c) \cap {r.config.nets[i] : i \in DOMAIN r.config.nets}) > 1
    BY <2>2 DEF Nets
  <2> QED BY <2>1, <2>3 DEF LiveVersion
<1> QED BY <1>1, <1>2

(* Under IKEv1 a selector asks for one network. *)
LEMMA ChildPerNet ==
    ASSUME NEW config, NEW T, config.nets \in Seq(T),
           NEW s, s = ChildSelectors(config, 1), NEW k \in DOMAIN s
    PROVE  \A i, j \in DOMAIN s[k].nets : s[k].nets[i] = s[k].nets[j]
<1>1. CASE Len(config.nets) > 1
  <2>1. s = [i \in 1 .. Len(config.nets) |-> [child |-> i, nets |-> <<config.nets[i]>>]]
    BY <1>1 DEF ChildSelectors
  <2>2. s[k].nets = <<config.nets[k]>>
    BY <2>1
  <2> QED BY <2>2
<1>2. CASE ~(Len(config.nets) > 1)
  <2>1. s = <<[child |-> 0, nets |-> config.nets]>>
    BY <1>2 DEF ChildSelectors
  <2>2. s[k].nets = config.nets
    BY <2>1
  <2>3. Len(config.nets) \in Nat /\ DOMAIN config.nets = 1 .. Len(config.nets)
    OBVIOUS
  <2>4. \A i, j \in DOMAIN config.nets : i = j
    BY <1>2, <2>3
  <2> QED BY <2>2, <2>4
<1> QED BY <1>1, <1>2

(* So a step of such a tunnel wants one. *)
LEMMA WantsOneNet ==
    ASSUME NEW r, RepairAssumption(r), r.ike.up, Apart(r),
           NEW k \in 1 .. Len(StepsOf(r)), NEW x \in StepsOf(r)[k].wanted,
           NEW y \in StepsOf(r)[k].wanted
    PROVE  x = y
<1>1. PICK config, s : config = r.config /\ s = ChildSelectors(config, 1)
  OBVIOUS
<1>2. StepsOf(r) = [i \in DOMAIN s |-> Step(s[i], Live(r), DeadNets(r))]
  BY <1>1, RunsApart DEF StepsOf, PlanRepair
<1>3. config.nets \in Seq(Nets(r)) /\ Nets(r) = {config.nets[i] : i \in DOMAIN config.nets}
  BY <1>1 DEF RepairAssumption, Nets
<1>4. Len(s) \in Nat /\ DOMAIN s = 1 .. Len(s)
  BY <1>1, <1>3, Selectors
<1>5. k \in DOMAIN s
  BY <1>2, <1>4
<1>6. StepsOf(r)[k] = Step(s[k], Live(r), DeadNets(r))
  BY <1>2, <1>5
<1>7. StepsOf(r)[k].wanted = {s[k].nets[i] : i \in DOMAIN s[k].nets}
  BY <1>6, StepWanted
<1>8. \A i, j \in DOMAIN s[k].nets : s[k].nets[i] = s[k].nets[j]
  BY <1>1, <1>3, <1>5, ChildPerNet
<1> QED BY <1>7, <1>8

(***************************************************************************)
(* What was done, at any step and at the last one.                         *)
(***************************************************************************)
LEMMA DoneSaysWhatIs ==
    ASSUME NEW r, NEW plan, NEW n, NEW m, NEW done, DoneOf(r, plan, n, m, done)
    PROVE  SaysWhatIs(r, done)
BY DEF DoneOf, SaysWhatIs, Carried, ReasonsOf

(* Whose SA is torn down, and whose network is set up again. *)
LEMMA WhoIsTornDown ==
    ASSUME NEW r, RepairAssumption(r), r.ike.up, Apart(r), NEW c \in Installed(Live(r)),
           NEW k \in 1 .. Len(StepsOf(r)), c.id \in StepsOf(r)[k].stale
    PROVE  /\ Ts(c) \subseteq DeadNets(r) /\ Ts(c) \subseteq StepsOf(r)[k].wanted
           /\ StepsOf(r)[k].action # "keep" /\ Ts(c) # {}
<1>1. PICK s : s = StepsOf(r)[k]
  OBVIOUS
<1>2. StepOf(r, s)
  BY <1>1, StepsArePlan DEF PlanOf
<1>3. PICK d \in Up(r, s.wanted) : d.id = c.id /\ c.id # NoTerm
  BY <1>1, <1>2 DEF StepOf
<1>4. d = c
  <2>1. c \in r.sas /\ d \in r.sas
    BY DEF Up, Installed, Live
  <2> QED BY <1>3, <2>1 DEF RepairAssumption
<1>5. PICK x : Ts(c) = {x}
  BY OneNet
<1>6. x \in s.wanted
  BY <1>4, <1>5 DEF Up
<1>7. s.action # "keep"
  BY <1>1, <1>2 DEF StepOf
<1>8. Up(r, s.wanted) # {}
  BY <1>3
<1>9. PICK y \in s.wanted : y \in DeadNets(r)
  BY <1>2, <1>7, <1>8 DEF StepOf
<1>10. x = y
  BY <1>1, <1>6, WantsOneNet
<1> QED BY <1>1, <1>5, <1>6, <1>7, <1>9, <1>10

(* A child that is redone carries a dead network. *)
LEMMA WhoIsRedone ==
    ASSUME NEW r, RepairAssumption(r), r.ike.up, Apart(r), NEW c \in Installed(Live(r)),
           NEW k \in 1 .. Len(StepsOf(r)), StepsOf(r)[k].action # "keep",
           Ts(c) \cap StepsOf(r)[k].wanted # {}
    PROVE  Ts(c) \cap DeadNets(r) # {}
<1>1. PICK s : s = StepsOf(r)[k]
  OBVIOUS
<1>2. StepOf(r, s)
  BY <1>1, StepsArePlan DEF PlanOf
<1>3. PICK x : x \in Ts(c) /\ x \in s.wanted
  BY <1>1
<1>4. c \in Up(r, s.wanted)
  BY <1>3 DEF Up
<1>5. PICK y \in s.wanted : y \in DeadNets(r)
  BY <1>1, <1>2, <1>4 DEF StepOf
<1>6. x = y
  BY <1>1, <1>3, <1>5, WantsOneNet
<1> QED BY <1>3, <1>5, <1>6

(* So what carries a living one is not taken down. *)
LEMMA DoneLeavesAlone ==
    ASSUME NEW r, RepairAssumption(r), r.ike.up, Apart(r),
           NEW n \in 0 .. Len(StepsOf(r)), NEW m \in 0 .. Len(StepsOf(r)), NEW done,
           DoneOf(r, StepsOf(r), n, m, done)
    PROVE  LeavesAlone(r, done)
<1> SUFFICES ASSUME NEW c \in Installed(Live(r)), Ts(c) \cap DeadNets(r) = {}
             PROVE  /\ c.id \notin done.terminated
                    /\ Ts(c) \cap (done.restored \cup FailedNets(done)) = {}
  BY DEF LeavesAlone
<1>1. Len(StepsOf(r)) \in Nat
  BY StepsArePlan DEF PlanOf
<1>2. c.id \notin done.terminated
  <2> SUFFICES ASSUME c.id \in done.terminated
               PROVE  FALSE
    OBVIOUS
  <2>1. c.id \in StaleOf(StepsOf(r), m)
    BY DEF DoneOf
  <2>2. PICK k \in 1 .. m : c.id \in StepsOf(r)[k].stale
    BY <2>1 DEF StaleOf
  <2>3. k \in 1 .. Len(StepsOf(r))
    BY <1>1
  <2>4. Ts(c) \subseteq DeadNets(r) /\ Ts(c) # {}
    BY <2>2, <2>3, WhoIsTornDown
  <2> QED BY <2>4
<1>3. Ts(c) \cap RedoneOf(StepsOf(r), n) = {}
  <2> SUFFICES ASSUME NEW x \in Ts(c), x \in RedoneOf(StepsOf(r), n)
               PROVE  FALSE
    OBVIOUS
  <2>1. PICK k \in 1 .. n : StepsOf(r)[k].action # "keep" /\ x \in StepsOf(r)[k].wanted
    BY DEF RedoneOf
  <2>2. k \in 1 .. Len(StepsOf(r))
    BY <1>1
  <2> QED BY <2>1, <2>2, WhoIsRedone
<1> QED BY <1>2, <1>3 DEF DoneOf

(* A finished plan has an answer for every network. *)
LEMMA DoneAccounts ==
    ASSUME NEW r, RepairAssumption(r), r.ike.up, NEW m, NEW done,
           DoneOf(r, StepsOf(r), Len(StepsOf(r)), m, done)
    PROVE  Accounts(r, done)
<1>1. WantedOf(StepsOf(r), Len(StepsOf(r))) = Nets(r)
  BY StepsArePlan DEF PlanOf
<1> QED BY <1>1 DEF DoneOf, Accounts, Nets

(* What it took down it reports, restored or failed. *)
LEMMA DoneReports ==
    ASSUME NEW r, RepairAssumption(r), r.ike.up, Apart(r), NEW done,
           DoneOf(r, StepsOf(r), Len(StepsOf(r)), Len(StepsOf(r)), done)
    PROVE  ReportsTornDown(r, done)
<1> SUFFICES ASSUME NEW c \in Installed(Live(r)), c.id \in done.terminated
             PROVE  Ts(c) \subseteq done.restored \cup FailedNets(done)
  BY DEF ReportsTornDown
<1>1. PICK k \in 1 .. Len(StepsOf(r)) : c.id \in StepsOf(r)[k].stale
  BY DEF DoneOf, StaleOf
<1>2. Ts(c) \subseteq StepsOf(r)[k].wanted /\ StepsOf(r)[k].action # "keep"
  BY <1>1, WhoIsTornDown
<1>3. Ts(c) \subseteq RedoneOf(StepsOf(r), Len(StepsOf(r)))
  BY <1>2 DEF RedoneOf
<1> QED BY <1>3 DEF DoneOf

(***************************************************************************)
(* What is known of the packets once one more has come.                    *)
(***************************************************************************)
LEMMA ConfirmedGrows ==
    ASSUME NEW packets, NEW n \in Nat
    PROVE  /\ Confirmed(packets, n + 2)
                 <=> Confirmed(packets, n + 1) \/ packets[n + 1].type = "EVENT_CONFIRM"
           /\ \A k \in 1 .. n + 1 : Confirmed(packets, k) => Confirmed(packets, n + 1)
<1>1. 1 .. (n + 2) - 1 = (1 .. (n + 1) - 1) \cup {n + 1}
  OBVIOUS
<1>2. \A k \in 1 .. n + 1 : 1 .. k - 1 \subseteq 1 .. (n + 1) - 1
  OBVIOUS
<1>3. ASSUME NEW k \in 1 .. n + 1, Confirmed(packets, k)
      PROVE  Confirmed(packets, n + 1)
  <2>1. PICK i \in 1 .. k - 1 : packets[i].type = "EVENT_CONFIRM"
    BY <1>3 DEF Confirmed
  <2>2. i \in 1 .. (n + 1) - 1
    BY <1>2
  <2> QED BY <2>1, <2>2 DEF Confirmed
<1>4. Confirmed(packets, n + 2)
         <=> Confirmed(packets, n + 1) \/ packets[n + 1].type = "EVENT_CONFIRM"
  BY <1>1, Zenon DEF Confirmed
<1> QED BY <1>3, <1>4

(* An answer among the first n packets, one packet further. *)
LEMMA AnsweredGrows ==
    ASSUME NEW packets, NEW n \in Nat
    PROVE  /\ Answered(packets, n + 2) <=> Answered(packets, n + 1) \/ Answer(packets, n + 1)
           /\ Answered(packets, n + 1) => Confirmed(packets, n + 1)
           /\ ~Answered(packets, n + 1) <=> \A k \in 1 .. n : ~Answer(packets, k)
<1>1. 1 .. (n + 2) - 1 = (1 .. (n + 1) - 1) \cup {n + 1}
  OBVIOUS
<1>2. Answered(packets, n + 2) <=> Answered(packets, n + 1) \/ Answer(packets, n + 1)
  BY <1>1, Zenon DEF Answered
<1>3. ASSUME Answered(packets, n + 1)
      PROVE  Confirmed(packets, n + 1)
  <2>1. PICK k \in 1 .. (n + 1) - 1 : Answer(packets, k)
    BY <1>3 DEF Answered
  <2>2. k \in 1 .. n + 1
    OBVIOUS
  <2>3. Confirmed(packets, k)
    BY <2>1 DEF Answer
  <2> QED BY <2>2, <2>3, ConfirmedGrows
<1>4. 1 .. (n + 1) - 1 = 1 .. n
  OBVIOUS
<1>5. ~Answered(packets, n + 1) <=> \A k \in 1 .. n : ~Answer(packets, k)
  BY <1>4, Zenon DEF Answered
<1> QED BY <1>2, <1>3, <1>5

(* What was answered stays so. *)
LEMMA AnsweredStays ==
    ASSUME NEW packets, NEW n \in Nat, Answered(packets, n + 1), NEW m \in Nat, m > n
    PROVE  Answered(packets, m)
<1>1. PICK k \in 1 .. (n + 1) - 1 : Answer(packets, k)
  BY DEF Answered
<1>2. k \in 1 .. m - 1
  OBVIOUS
<1> QED BY <1>1, <1>2 DEF Answered

IsOwn(packets, event, m) ==
    /\ packets[m].type = "EVENT" /\ packets[m].event = event
    /\ Confirmed(packets, m) /\ ~Answered(packets, m)

(* The events of one's own among the first n, one further. *)
LEMMA OwnGrows ==
    ASSUME NEW packets, NEW event, NEW n \in Nat
    PROVE  /\ Own(packets, event, n + 1) =
                 IF IsOwn(packets, event, n + 1) THEN Own(packets, event, n) \cup {n + 1}
                 ELSE Own(packets, event, n)
           /\ Own(packets, event, n) \subseteq 1 .. n /\ IsFiniteSet(Own(packets, event, n))
<1>1. 1 .. n + 1 = (1 .. n) \cup {n + 1}
  OBVIOUS
<1>2. \A m : Own(packets, event, m) = {k \in 1 .. m : IsOwn(packets, event, k)}
  BY DEF Own, IsOwn
<1>3. Own(packets, event, n) \subseteq 1 .. n
  BY <1>2
<1>4. IsFiniteSet(Own(packets, event, n))
  BY <1>3, FS_Interval, FS_Subset
<1>5. Own(packets, event, n + 1) = {k \in (1 .. n) \cup {n + 1} : IsOwn(packets, event, k)}
  BY <1>1, <1>2
<1>6. Own(packets, event, n) = {k \in 1 .. n : IsOwn(packets, event, k)}
  BY <1>2
<1>7. Own(packets, event, n + 1) =
         IF IsOwn(packets, event, n + 1) THEN Own(packets, event, n) \cup {n + 1}
         ELSE Own(packets, event, n)
  BY <1>5, <1>6
<1> QED BY <1>3, <1>4, <1>7

(* One after the answer is nobody's. *)
LEMMA OwnEnds ==
    ASSUME NEW packets, NEW event, NEW n \in Nat, NEW m \in Nat, m >= n,
           Answered(packets, n + 1)
    PROVE  Own(packets, event, m) = Own(packets, event, n)
<1>1. ASSUME NEW k \in 1 .. m, k \notin 1 .. n
      PROVE  Answered(packets, k)
  <2>1. k \in Nat /\ k > n
    BY <1>1
  <2> QED BY <2>1, AnsweredStays
<1>2. 1 .. n \subseteq 1 .. m
  OBVIOUS
<1> QED BY <1>1, <1>2 DEF Own

(* The bodies of the events, one longer. *)
LEMMA BodiesGrow ==
    ASSUME NEW packets, NEW n \in Nat, NEW places \in SUBSET (1 .. n), NEW B,
           NEW bodies \in Seq(B), BodiesOf(packets, places, bodies), NEW b, b = packets[n + 1].body
    PROVE  BodiesOf(packets, places \cup {n + 1}, Append(bodies, b))
<1>1. PICK now, all : now = Append(bodies, b) /\ all = places \cup {n + 1}
  OBVIOUS
<1>2. /\ Len(bodies) \in Nat /\ Len(now) = Len(bodies) + 1
      /\ \A i \in 1 .. Len(bodies) : now[i] = bodies[i]
      /\ now[Len(bodies) + 1] = b
  BY <1>1
<1>3. IsFiniteSet(places) /\ Len(bodies) = Cardinality(places)
  <2>1. IsFiniteSet(1 .. n)
    BY FS_Interval
  <2> QED BY <2>1, FS_Subset DEF BodiesOf
<1>4. n + 1 \notin places
  OBVIOUS
<1>5. IsFiniteSet(all) /\ Cardinality(all) = Cardinality(places) + 1
  BY <1>1, <1>3, <1>4, FS_AddElement
<1>6. ASSUME NEW m \in places
      PROVE  now[Cardinality({k \in all : k <= m})] = packets[m].body
  <2>1. PICK before : before = {k \in places : k <= m}
    OBVIOUS
  <2>2. {k \in all : k <= m} = before
    BY <1>1, <2>1
  <2>3. IsFiniteSet(before) /\ Cardinality(before) <= Cardinality(places)
    BY <1>3, <2>1, FS_Subset
  <2>4. m \in before
    BY <2>1
  <2>5. Cardinality(before) \in Nat /\ Cardinality(before) # 0
    BY <2>3, <2>4, FS_EmptySet, FS_CardinalityType
  <2>6. Cardinality(before) \in 1 .. Len(bodies)
    BY <1>2, <1>3, <2>3, <2>5
  <2>7. bodies[Cardinality(before)] = packets[m].body
    BY <2>1 DEF BodiesOf
  <2> QED BY <1>2, <2>2, <2>6, <2>7
<1>7. {k \in all : k <= n + 1} = all
  <2>1. \A k \in places : k \in 1 .. n
    OBVIOUS
  <2>2. \A k \in places : k <= n + 1
    BY <2>1
  <2>3. n + 1 <= n + 1
    OBVIOUS
  <2> QED BY <1>1, <2>2, <2>3
<1>8. now[Cardinality({k \in all : k <= n + 1})] = packets[n + 1].body
  BY <1>2, <1>3, <1>5, <1>7
<1>9. Len(now) = Cardinality(all)
  BY <1>2, <1>3, <1>5
<1>10. \A m \in all : now[Cardinality({k \in all : k <= m})] = packets[m].body
  BY <1>1, <1>6, <1>8
<1>11. BodiesOf(packets, all, now)
  BY <1>9, <1>10 DEF BodiesOf
<1> QED BY <1>1, <1>11

(* No events, no bodies. *)
LEMMA NoBodies ==
    ASSUME NEW packets
    PROVE  BodiesOf(packets, {}, << >>)
<1>1. Cardinality({}) = 0 /\ Len(<< >>) = 0
  BY FS_EmptySet
<1> QED BY <1>1 DEF BodiesOf

(***************************************************************************)
(* A client, and what one packet makes of it.                              *)
(***************************************************************************)
Client(at, event, events, response) ==
    [at |-> at, event |-> event, events |-> events, response |-> response]

ClientOf(c) == c = Client(c.at, c.event, c.events, c.response)

(* A client's fields. *)
LEMMA ClientIs ==
    ASSUME NEW c, NEW at, NEW event, NEW events, NEW response,
           c = Client(at, event, events, response)
    PROVE  /\ c.at = at /\ c.event = event /\ c.events = events /\ c.response = response
           /\ ClientOf(c) /\ DOMAIN c = {"at", "event", "events", "response"}
BY DEF Client, ClientOf

Settled(c, to, body) == [c EXCEPT !.at = to, !.response = body]

(* A client with one field changed. *)
LEMMA ClientMoves ==
    ASSUME NEW c, ClientOf(c), NEW to, NEW body
    PROVE  /\ [c EXCEPT !.at = to] = Client(to, c.event, c.events, c.response)
           /\ [c EXCEPT !.events = body] = Client(c.at, c.event, body, c.response)
<1>1. DOMAIN c = {"at", "event", "events", "response"}
  BY ClientIs DEF ClientOf
<1>2. [c EXCEPT !.at = to] = Client(to, c.event, c.events, c.response)
  BY <1>1 DEF ClientOf, Client
<1>3. [c EXCEPT !.events = body] = Client(c.at, c.event, body, c.response)
  BY <1>1 DEF ClientOf, Client
<1> QED BY <1>2, <1>3

(* A client that has its response. *)
LEMMA SettledIs ==
    ASSUME NEW c, ClientOf(c), NEW to, NEW body
    PROVE  Settled(c, to, body) = Client(to, c.event, c.events, body)
<1>1. DOMAIN c = {"at", "event", "events", "response"}
  BY ClientIs DEF ClientOf
<1>2. PICK now : now = Settled(c, to, body)
  OBVIOUS
<1>3. now = [c EXCEPT !.at = to, !.response = body]
  BY <1>2 DEF Settled
<1>4. DOMAIN now = DOMAIN c
  BY <1>3
<1>5. now.at = to /\ now.response = body /\ now.event = c.event /\ now.events = c.events
  BY <1>1, <1>3
<1> QED BY <1>1, <1>2, <1>3, <1>4, <1>5 DEF Client

(* A request waits, or has the answer, or failed. *)
LEMMA RequestMoves ==
    ASSUME NEW c, ClientOf(c), NEW p
    PROVE  \/ Request(c, p) = c /\ p.type \notin Answers
           \/ Request(c, p) = Client("failed", c.event, c.events, c.response)
           \/ Request(c, p) = Client("failed", c.event, c.events, p.body)
           \/ Request(c, p) = Client("done", c.event, c.events, p.body)
              /\ p.type = "CMD_RESPONSE"
<1>1. CASE ~ReadPacket(p)
  BY <1>1, ClientMoves DEF Request
<1>2. CASE ReadPacket(p) /\ p.type = "CMD_RESPONSE" /\ p.body.ok
  <2>1. Request(c, p) = Settled(c, "done", p.body)
    BY <1>2 DEF Request, Settled
  <2>2. PICK body : body = p.body
    OBVIOUS
  <2>3. Request(c, p) = Client("done", c.event, c.events, body)
    BY <2>1, <2>2, SettledIs
  <2> QED BY <1>2, <2>2, <2>3
<1>3. CASE ReadPacket(p) /\ p.type = "CMD_RESPONSE" /\ ~p.body.ok
  <2>1. Request(c, p) = Settled(c, "failed", p.body)
    BY <1>3 DEF Request, Settled
  <2>2. PICK body : body = p.body
    OBVIOUS
  <2>3. Request(c, p) = Client("failed", c.event, c.events, body)
    BY <2>1, <2>2, SettledIs
  <2> QED BY <2>2, <2>3
<1>4. CASE ReadPacket(p) /\ p.type = "CMD_UNKNOWN"
  <2>1. Request(c, p) = [c EXCEPT !.at = "failed"]
    BY <1>4 DEF Request
  <2> QED BY <2>1, ClientMoves
<1>5. CASE ReadPacket(p) /\ p.type # "CMD_RESPONSE" /\ p.type # "CMD_UNKNOWN"
  BY <1>5 DEF Request, Answers
<1> QED BY <1>1, <1>2, <1>3, <1>4, <1>5

(* A streamed request registers, waits, unregisters. *)
Registers(c, p, now) ==
    /\ c.at = "registering"
    /\ \/ now = c /\ p.type # "EVENT_CONFIRM"
       \/ p.type = "EVENT_CONFIRM" /\ now = Client("waiting", c.event, c.events, c.response)

Waits(c, p, now) ==
    /\ c.at = "waiting"
    /\ \/ /\ p.type = "EVENT" /\ p.event = c.event
          /\ now = Client(c.at, c.event, Append(c.events, p.body), c.response)
       \/ now = c /\ p.type \notin Answers /\ ~(p.type = "EVENT" /\ p.event = c.event)
       \/ /\ p.type = "CMD_RESPONSE"
          /\ now = Client("unregistering", c.event, c.events, p.body)
       \/ /\ p.type = "CMD_UNKNOWN"
          /\ now = Client("giving up", c.event, c.events, c.response)

Unregisters(c, now) ==
    \/ c.at \in {"unregistering", "giving up"} /\ now = c
    \/ c.at = "unregistering" /\ now = Client("done", c.event, c.events, c.response)

Fails(c, now) == \E response : now = Client("failed", c.event, c.events, response)

Open(c) == c.at \in {"registering", "waiting", "unregistering", "giving up"}

Moves(c, p, now) ==
    Registers(c, p, now) \/ Waits(c, p, now) \/ Unregisters(c, now) \/ Fails(c, now)

(* What a packet does to a client that streams. *)
LEMMA StreamMoves ==
    ASSUME NEW c, NEW p, ClientOf(c), Open(c)
    PROVE  Moves(c, p, StreamRequest(c, p))
<1>1. CASE ~ReadPacket(p)
  <2>1. StreamRequest(c, p) = [c EXCEPT !.at = "failed"]
    BY <1>1 DEF StreamRequest
  <2> QED BY <2>1, ClientMoves DEF Moves, Fails
<1>2. CASE ReadPacket(p) /\ c.at = "registering"
  <2>1. StreamRequest(c, p) = [c EXCEPT !.at = IF p.type = "EVENT_CONFIRM" THEN "waiting"
                                   ELSE IF p.type = "EVENT_UNKNOWN" THEN "failed" ELSE @]
    BY <1>2 DEF StreamRequest
  <2>2. CASE p.type = "EVENT_CONFIRM"
    <3>1. StreamRequest(c, p) = [c EXCEPT !.at = "waiting"]
      BY <2>1, <2>2
    <3> QED BY <1>2, <2>2, <3>1, ClientMoves DEF Moves, Registers
  <2>3. CASE p.type = "EVENT_UNKNOWN"
    <3>1. StreamRequest(c, p) = [c EXCEPT !.at = "failed"]
      BY <2>1, <2>3
    <3> QED BY <3>1, ClientMoves DEF Moves, Fails
  <2>4. CASE p.type # "EVENT_CONFIRM" /\ p.type # "EVENT_UNKNOWN"
    <3>1. StreamRequest(c, p) = [c EXCEPT !.at = c.at]
      BY <2>1, <2>4
    <3>2. [c EXCEPT !.at = c.at] = c
      BY ClientMoves DEF ClientOf
    <3> QED BY <1>2, <2>4, <3>1, <3>2 DEF Moves, Registers
  <2> QED BY <2>2, <2>3, <2>4
<1>3. CASE ReadPacket(p) /\ c.at = "waiting"
  <2>1. StreamRequest(c, p) =
           IF p.type = "EVENT" THEN ParseEvent(c, p)
           ELSE IF p.type = "CMD_RESPONSE"
                THEN [c EXCEPT !.at = IF p.body.ok THEN "unregistering" ELSE "failed",
                               !.response = p.body]
           ELSE IF p.type = "CMD_UNKNOWN" THEN [c EXCEPT !.at = "giving up"] ELSE c
    BY <1>3 DEF StreamRequest
  <2>2. CASE p.type = "EVENT"
    <3>1. StreamRequest(c, p) = ParseEvent(c, p)
      BY <2>1, <2>2
    <3>2. CASE p.event # c.event /\ p.event # CutOff
      BY <1>3, <2>2, <3>1, <3>2 DEF ParseEvent, Moves, Waits, Answers
    <3>3. CASE p.event = c.event /\ p.event # CutOff /\ p.body.ok
      <4>1. PICK events : events = Append(c.events, p.body)
        OBVIOUS
      <4>2. StreamRequest(c, p) = [c EXCEPT !.events = events]
        BY <3>1, <3>3, <4>1 DEF ParseEvent
      <4>3. StreamRequest(c, p) = Client(c.at, c.event, events, c.response)
        BY <4>2, ClientMoves
      <4> QED BY <1>3, <2>2, <3>3, <4>1, <4>3 DEF Moves, Waits
    <3>4. CASE p.event = CutOff \/ (p.event = c.event /\ ~p.body.ok)
      <4>1. StreamRequest(c, p) = [c EXCEPT !.at = "failed"]
        BY <3>1, <3>4 DEF ParseEvent
      <4> QED BY <4>1, ClientMoves DEF Moves, Fails
    <3> QED BY <3>2, <3>3, <3>4
  <2>3. CASE p.type = "CMD_RESPONSE" /\ p.body.ok
    <3>1. StreamRequest(c, p) = Settled(c, "unregistering", p.body)
      BY <2>1, <2>3 DEF Settled
    <3>2. PICK body : body = p.body
      OBVIOUS
    <3>3. StreamRequest(c, p) = Client("unregistering", c.event, c.events, body)
      BY <3>1, <3>2, SettledIs
    <3> QED BY <1>3, <2>3, <3>2, <3>3 DEF Moves, Waits
  <2>4. CASE p.type = "CMD_RESPONSE" /\ ~p.body.ok
    <3>1. StreamRequest(c, p) = Settled(c, "failed", p.body)
      BY <2>1, <2>4 DEF Settled
    <3>2. PICK body : body = p.body
      OBVIOUS
    <3>3. StreamRequest(c, p) = Client("failed", c.event, c.events, body)
      BY <3>1, <3>2, SettledIs
    <3> QED BY <3>3 DEF Moves, Fails
  <2>5. CASE p.type = "CMD_UNKNOWN"
    <3>1. StreamRequest(c, p) = [c EXCEPT !.at = "giving up"]
      BY <2>1, <2>5
    <3> QED BY <1>3, <2>5, <3>1, ClientMoves DEF Moves, Waits
  <2>6. CASE p.type \notin {"EVENT", "CMD_RESPONSE", "CMD_UNKNOWN"}
    BY <1>3, <2>1, <2>6 DEF Moves, Waits, Answers
  <2> QED BY <2>2, <2>3, <2>4, <2>5, <2>6
<1>4. CASE ReadPacket(p) /\ c.at \in {"unregistering", "giving up"}
  <2>1. StreamRequest(c, p) = [c EXCEPT !.at = IF p.type # "EVENT_CONFIRM" THEN @
                                   ELSE IF @ = "unregistering" THEN "done" ELSE "failed"]
    BY <1>4 DEF StreamRequest
  <2>2. CASE p.type # "EVENT_CONFIRM"
    <3>1. StreamRequest(c, p) = [c EXCEPT !.at = c.at]
      BY <2>1, <2>2
    <3>2. [c EXCEPT !.at = c.at] = c
      BY ClientMoves DEF ClientOf
    <3> QED BY <1>4, <3>1, <3>2 DEF Moves, Unregisters
  <2>3. CASE p.type = "EVENT_CONFIRM" /\ c.at = "unregistering"
    <3>1. StreamRequest(c, p) = [c EXCEPT !.at = "done"]
      BY <2>1, <2>3
    <3> QED BY <2>3, <3>1, ClientMoves DEF Moves, Unregisters
  <2>4. CASE p.type = "EVENT_CONFIRM" /\ c.at # "unregistering"
    <3>1. StreamRequest(c, p) = [c EXCEPT !.at = "failed"]
      BY <2>1, <2>4
    <3> QED BY <3>1, ClientMoves DEF Moves, Fails
  <2> QED BY <2>2, <2>3, <2>4
<1> QED BY <1>1, <1>2, <1>3, <1>4 DEF Open

(***************************************************************************)
(* An exchange after n packets.                                            *)
(***************************************************************************)
StreamStages == {"registering", "waiting", "unregistering", "giving up", "done", "failed"}

Bodies(packets) == {packets[i].body : i \in DOMAIN packets}

RequestOf(packets, n, c) ==
    /\ ClientOf(c) /\ c.at \in {"waiting", "done", "failed"}
    /\ c.at = "waiting" => \A k \in 1 .. n : packets[k].type \notin Answers
    /\ c.at = "done" =>
          \E a \in 1 .. n :
              /\ packets[a].type = "CMD_RESPONSE" /\ c.response = packets[a].body
              /\ \A k \in 1 .. a - 1 : packets[k].type \notin Answers

AnsweredWith(packets, n, response) ==
    \E a \in 1 .. n :
        /\ packets[a].type = "CMD_RESPONSE" /\ Answer(packets, a) /\ response = packets[a].body
        /\ \A k \in 1 .. a - 1 : ~Answer(packets, k)

StreamOf(packets, n, c) ==
    /\ ClientOf(c) /\ c.at \in StreamStages
    /\ c.at = "registering" => ~Confirmed(packets, n + 1) /\ c.events = << >>
    /\ c.at = "waiting" => Confirmed(packets, n + 1) /\ ~Answered(packets, n + 1)
    /\ c.at \in {"unregistering", "giving up", "done"} => Answered(packets, n + 1)
    /\ c.at \in {"unregistering", "done"} => AnsweredWith(packets, n, c.response)
    /\ c.at # "failed" =>
          /\ c.events \in Seq(Bodies(packets))
          /\ BodiesOf(packets, Own(packets, c.event, n), c.events)

(* A client that gives up keeps what it collected. *)
LEMMA GivingUp ==
    ASSUME NEW c, NEW now, now = Client("giving up", c.event, c.events, c.response)
    PROVE  /\ ClientOf(now) /\ now.at = "giving up" /\ now.event = c.event
           /\ now.events = c.events
BY DEF ClientOf, Client

(* A request that was just sent has heard of nothing. *)
LEMMA RequestStarts ==
    ASSUME NEW packets, NEW event
    PROVE  RequestOf(packets, 0, Asking("waiting", event))
<1>1. PICK c : c = Asking("waiting", event)
  OBVIOUS
<1>2. c = Client("waiting", event, << >>, NoResponse)
  BY <1>1 DEF Asking, Client
<1>3. ClientOf(c) /\ c.at = "waiting"
  BY <1>2, ClientIs
<1>4. 1 .. 0 = {}
  OBVIOUS
<1> QED BY <1>1, <1>3, <1>4 DEF RequestOf

(* Nor has a stream that only registers. *)
LEMMA StreamStarts ==
    ASSUME NEW packets, NEW event
    PROVE  StreamOf(packets, 0, Asking("registering", event))
<1>1. PICK c : c = Asking("registering", event)
  OBVIOUS
<1>2. c = Client("registering", event, << >>, NoResponse)
  BY <1>1 DEF Asking, Client
<1>3. ClientOf(c) /\ c.at = "registering" /\ c.events = << >>
  BY <1>2, ClientIs
<1>4. 1 .. 0 = {} /\ 1 .. (0 + 1) - 1 = {}
  OBVIOUS
<1>5. ~Confirmed(packets, 0 + 1)
  BY <1>4 DEF Confirmed
<1>6. Own(packets, c.event, 0) = {}
  BY <1>4 DEF Own
<1>7. BodiesOf(packets, Own(packets, c.event, 0), << >>)
  BY <1>6, NoBodies
<1>8. << >> \in Seq(Bodies(packets))
  OBVIOUS
<1> QED BY <1>1, <1>3, <1>5, <1>7, <1>8 DEF StreamOf, StreamStages

(* A packet to a request: event, answer, or an error. *)
LEMMA RequestReceives ==
    ASSUME NEW packets, NEW n \in Nat, n < Len(packets), Len(packets) \in Nat,
           NEW c, RequestOf(packets, n, c), ~Over(c), NEW p, p = packets[n + 1]
    PROVE  RequestOf(packets, n + 1, Request(c, p))
<1>1. c.at = "waiting" /\ ClientOf(c)
  BY DEF RequestOf, Over
<1>2. \A k \in 1 .. n : packets[k].type \notin Answers
  BY <1>1 DEF RequestOf
<1>3. PICK now : now = Request(c, p)
  OBVIOUS
<1>4. CASE now = c /\ p.type \notin Answers
  <2>1. \A k \in 1 .. n + 1 : k \in 1 .. n \/ k = n + 1
    OBVIOUS
  <2>2. \A k \in 1 .. n + 1 : packets[k].type \notin Answers
    BY <1>2, <1>4, <2>1
  <2> QED BY <1>1, <1>3, <1>4, <2>2 DEF RequestOf
<1>5. CASE \E body : now = Client("failed", c.event, c.events, body)
  <2>1. ClientOf(now) /\ now.at = "failed"
    BY <1>5, ClientIs
  <2> QED BY <1>3, <2>1 DEF RequestOf
<1>6. CASE now = Client("done", c.event, c.events, p.body) /\ p.type = "CMD_RESPONSE"
  <2>1. PICK body : body = p.body
    OBVIOUS
  <2>2. ClientOf(now) /\ now.at = "done" /\ now.response = body
    BY <1>6, <2>1, ClientIs
  <2>3. n + 1 \in 1 .. n + 1 /\ \A k \in 1 .. (n + 1) - 1 : k \in 1 .. n
    OBVIOUS
  <2>4. \E a \in 1 .. n + 1 :
            /\ packets[a].type = "CMD_RESPONSE" /\ now.response = packets[a].body
            /\ \A k \in 1 .. a - 1 : packets[k].type \notin Answers
    BY <1>2, <1>6, <2>1, <2>2, <2>3
  <2> QED BY <1>3, <2>2, <2>4 DEF RequestOf
<1> QED BY <1>1, <1>3, <1>4, <1>5, <1>6, RequestMoves

(* A packet that is not one of the command's events leaves them as they    *)
(* are.                                                                    *)
LEMMA OwnKept ==
    ASSUME NEW packets, NEW event, NEW n \in Nat, NEW events,
           BodiesOf(packets, Own(packets, event, n), events), ~IsOwn(packets, event, n + 1)
    PROVE  BodiesOf(packets, Own(packets, event, n + 1), events)
BY OwnGrows

(* No event is its own before the registration is confirmed. *)
LEMMA NoneYet ==
    ASSUME NEW packets, NEW event, NEW n \in Nat, ~Confirmed(packets, n)
    PROVE  ~IsOwn(packets, event, n)
BY DEF IsOwn

(* A packet to a stream, at each of its four stages. *)
LEMMA StreamReceives ==
    ASSUME NEW T, NEW packets \in Seq(T), NEW n \in Nat, n < Len(packets),
           NEW c, StreamOf(packets, n, c), ~Over(c), NEW p, p = packets[n + 1]
    PROVE  StreamOf(packets, n + 1, StreamRequest(c, p))
<1>0. PICK now, m : now = StreamRequest(c, p) /\ m = n + 1
  OBVIOUS
<1>1. /\ ClientOf(c) /\ c.at \in {"registering", "waiting", "unregistering", "giving up"}
      /\ c.events \in Seq(Bodies(packets))
      /\ BodiesOf(packets, Own(packets, c.event, n), c.events)
  BY DEF StreamOf, StreamStages, Over
<1>2. /\ m \in Nat /\ m + 1 = n + 2 /\ n + 1 = m
      /\ m \in DOMAIN packets
  BY <1>0
<1>3. CASE Registers(c, p, now)
  <2>1. c.at = "registering" /\ ~Confirmed(packets, m) /\ c.events = << >>
    BY <1>0, <1>3 DEF Registers, StreamOf
  <2>2. ~IsOwn(packets, c.event, m)
    BY <1>2, <2>1, NoneYet
  <2>3. BodiesOf(packets, Own(packets, c.event, m), c.events)
    BY <1>1, <1>2, <2>2, OwnKept
  <2>4. ~Answered(packets, m + 1)
    BY <1>2, <2>1, AnsweredGrows DEF Answer
  <2>5. Confirmed(packets, m + 1) <=> p.type = "EVENT_CONFIRM"
    BY <1>2, <2>1, ConfirmedGrows
  <2>6. CASE now = c /\ p.type # "EVENT_CONFIRM"
    BY <1>0, <1>1, <2>1, <2>3, <2>5, <2>6 DEF StreamOf, StreamStages
  <2>7. CASE p.type = "EVENT_CONFIRM" /\ now = Client("waiting", c.event, c.events, c.response)
    <3>1. ClientOf(now) /\ now.at = "waiting" /\ now.event = c.event /\ now.events = c.events
      BY <2>7, ClientIs
    <3> QED BY <1>0, <1>1, <2>3, <2>4, <2>5, <2>7, <3>1 DEF StreamOf, StreamStages
  <2> QED BY <1>3, <2>6, <2>7 DEF Registers
<1>4. CASE Waits(c, p, now)
  <2>1. c.at = "waiting" /\ Confirmed(packets, m) /\ ~Answered(packets, m)
    BY <1>0, <1>4 DEF Waits, StreamOf
  <2>2. Confirmed(packets, m + 1)
    BY <1>2, <2>1, ConfirmedGrows
  <2>3. Answered(packets, m + 1) <=> p.type \in Answers
    BY <1>2, <2>1, AnsweredGrows DEF Answer
  <2>4. IsOwn(packets, c.event, m) <=> p.type = "EVENT" /\ p.event = c.event
    BY <1>2, <2>1 DEF IsOwn
  <2>5. ASSUME p.type = "CMD_RESPONSE"
        PROVE  AnsweredWith(packets, m, p.body)
    <3>1. Answer(packets, m)
      BY <1>2, <2>1, <2>5 DEF Answer, Answers
    <3>2. \A k \in 1 .. n : ~Answer(packets, k)
      BY <1>2, <2>1, AnsweredGrows
    <3>3. m \in 1 .. m /\ 1 .. m - 1 = 1 .. n
      BY <1>2
    <3> QED BY <1>2, <2>5, <3>1, <3>2, <3>3 DEF AnsweredWith
  <2>6. CASE /\ p.type = "EVENT" /\ p.event = c.event
             /\ now = Client(c.at, c.event, Append(c.events, p.body), c.response)
    <3>1. PICK body, before, events :
             body = p.body /\ before = c.events /\ events = Append(before, body)
      OBVIOUS
    <3>0. now = Client(c.at, c.event, events, c.response)
      BY <2>6, <3>1
    <3>2. ClientOf(now) /\ now.at = "waiting" /\ now.event = c.event /\ now.events = events
      BY <2>1, <3>0, ClientIs
    <3>3. body \in Bodies(packets) /\ body = packets[n + 1].body
      BY <1>2, <3>1 DEF Bodies
    <3>4. before \in Seq(Bodies(packets)) /\ events \in Seq(Bodies(packets))
      <4>1. PICK B : B = Bodies(packets)
        OBVIOUS
      <4>2. before \in Seq(B) /\ body \in B
        BY <1>1, <3>1, <3>3, <4>1
      <4>3. Append(before, body) \in Seq(B)
        BY <4>2
      <4> QED BY <3>1, <4>1, <4>2, <4>3
    <3>5. Own(packets, c.event, m) = Own(packets, c.event, n) \cup {n + 1}
          /\ Own(packets, c.event, n) \subseteq 1 .. n
      BY <1>2, <2>4, <2>6, OwnGrows
    <3>6. BodiesOf(packets, Own(packets, c.event, m), events)
      <4>1. PICK places : places = Own(packets, c.event, n)
        OBVIOUS
      <4>2. places \in SUBSET (1 .. n) /\ BodiesOf(packets, places, before)
        BY <1>1, <3>1, <3>5, <4>1
      <4>3. BodiesOf(packets, places \cup {n + 1}, Append(before, body))
        BY <3>3, <3>4, <4>2, BodiesGrow
      <4> QED BY <3>1, <3>5, <4>1, <4>3
    <3>7. ~Answered(packets, m + 1)
      BY <2>3, <2>6 DEF Answers
    <3> QED BY <1>0, <2>2, <3>2, <3>4, <3>6, <3>7 DEF StreamOf, StreamStages
  <2>7. CASE now = c /\ p.type \notin Answers /\ ~(p.type = "EVENT" /\ p.event = c.event)
    <3>1. BodiesOf(packets, Own(packets, c.event, m), c.events)
      BY <1>1, <1>2, <2>4, <2>7, OwnKept
    <3> QED BY <1>0, <1>1, <2>1, <2>2, <2>3, <2>7, <3>1 DEF StreamOf, StreamStages
  <2>8. CASE p.type = "CMD_RESPONSE"
             /\ now = Client("unregistering", c.event, c.events, p.body)
    <3>1. PICK body : body = p.body
      OBVIOUS
    <3>2. /\ ClientOf(now) /\ now.at = "unregistering" /\ now.event = c.event
          /\ now.events = c.events /\ now.response = body
      BY <2>8, <3>1, ClientIs
    <3>3. BodiesOf(packets, Own(packets, c.event, m), c.events)
      BY <1>1, <1>2, <2>4, <2>8, OwnKept
    <3>4. Answered(packets, m + 1)
      BY <2>3, <2>8 DEF Answers
    <3>5. AnsweredWith(packets, m, body)
      BY <2>5, <2>8, <3>1
    <3> QED BY <1>0, <1>1, <3>2, <3>3, <3>4, <3>5 DEF StreamOf, StreamStages
  <2>9. CASE p.type = "CMD_UNKNOWN" /\ now = Client("giving up", c.event, c.events, c.response)
    <3>1. /\ ClientOf(now) /\ now.at = "giving up" /\ now.event = c.event
          /\ now.events = c.events
      BY <2>9, GivingUp
    <3>2. BodiesOf(packets, Own(packets, c.event, m), c.events)
      BY <1>1, <1>2, <2>4, <2>9, OwnKept
    <3>3. Answered(packets, m + 1)
      BY <2>3, <2>9 DEF Answers
    <3> QED BY <1>0, <1>1, <3>1, <3>2, <3>3 DEF StreamOf, StreamStages
  <2> QED BY <1>4, <2>6, <2>7, <2>8, <2>9 DEF Waits
<1>5. CASE Unregisters(c, now)
  <2>1. c.at \in {"unregistering", "giving up"} /\ Answered(packets, m)
    BY <1>0, <1>5 DEF Unregisters, StreamOf
  <2>2. Answered(packets, m + 1)
    BY <1>2, <2>1, AnsweredGrows
  <2>3. BodiesOf(packets, Own(packets, c.event, m), c.events)
    <3>1. ~IsOwn(packets, c.event, m)
      BY <2>1 DEF IsOwn
    <3> QED BY <1>1, <1>2, <3>1, OwnKept
  <2>4. ASSUME c.at = "unregistering"
        PROVE  AnsweredWith(packets, m, c.response)
    <3>1. AnsweredWith(packets, n, c.response)
      BY <2>4 DEF StreamOf
    <3>2. 1 .. n \subseteq 1 .. m
      BY <1>2
    <3> QED BY <3>1, <3>2 DEF AnsweredWith
  <2>5. CASE now = c
    BY <1>0, <1>1, <2>1, <2>2, <2>3, <2>4, <2>5 DEF StreamOf, StreamStages
  <2>6. CASE c.at = "unregistering" /\ now = Client("done", c.event, c.events, c.response)
    <3>1. /\ ClientOf(now) /\ now.at = "done" /\ now.event = c.event
          /\ now.events = c.events /\ now.response = c.response
      BY <2>6, ClientIs
    <3> QED BY <1>0, <1>1, <2>2, <2>3, <2>4, <2>6, <3>1 DEF StreamOf, StreamStages
  <2> QED BY <1>5, <2>5, <2>6 DEF Unregisters
<1>6. CASE Fails(c, now)
  <2>1. ClientOf(now) /\ now.at = "failed"
    BY <1>6, ClientIs DEF Fails
  <2>2. StreamOf(packets, m, now)
    BY <2>1 DEF StreamOf, StreamStages
  <2> QED BY <1>0, <2>2
<1>7. Registers(c, p, now) \/ Waits(c, p, now) \/ Unregisters(c, now) \/ Fails(c, now)
  <2>1. ClientOf(c) /\ c.at \in {"registering", "waiting", "unregistering", "giving up"}
    BY <1>1
  <2>2. Open(c)
    BY <2>1 DEF Open
  <2>3. Moves(c, p, StreamRequest(c, p))
    BY <2>1, <2>2, StreamMoves
  <2> QED BY <1>0, <2>3 DEF Moves
<1> QED BY <1>3, <1>4, <1>5, <1>6, <1>7


(***************************************************************************)
(* The tasks, and what holds of each at every step.                        *)
(***************************************************************************)
SecretsOf(t) ==
    /\ t.kind = "secrets" /\ t.conns \in Loads
    /\ t = SecretsTask(t.conns, t.loaded, t.last)
    /\ LoadedOf(t.conns, t.loaded) /\ LastOf(t.conns, t.loaded, t.last)

RepairTask(r, passed, done, broken) ==
    [kind |-> "repair", of |-> r, plan |-> StepsOf(r), passed |-> passed, done |-> done,
     broken |-> broken]

RepairOf(t) ==
    /\ t.kind = "repair" /\ t.of \in Repairs
    /\ t = RepairTask(t.of, t.passed, t.done, t.broken)
    /\ t.passed \in 0 .. Len(StepsOf(t.of))
    /\ \/ t.broken = FALSE /\ DoneOf(t.of, StepsOf(t.of), t.passed, t.passed, t.done)
       \/ /\ t.broken = TRUE /\ t.passed < Len(StepsOf(t.of))
          /\ DoneOf(t.of, StepsOf(t.of), t.passed, t.passed + 1, t.done)

ExchangeTask(kind, packets, passed, client) ==
    [kind |-> kind, packets |-> packets, passed |-> passed, client |-> client]

ExchangeOf(t) ==
    /\ t.kind \in {"request", "stream"} /\ t.packets \in Exchanges
    /\ t = ExchangeTask(t.kind, t.packets, t.passed, t.client)
    /\ t.passed \in 0 .. Len(t.packets)
    /\ t.kind = "request" => RequestOf(t.packets, t.passed, t.client)
    /\ t.kind = "stream" => StreamOf(t.packets, t.passed, t.client)

SweepOf(t) ==
    /\ t.kind = "sweep" /\ t.of \in Sweeps
    /\ t.shown = ProbeAll(t.of.hosts, t.of.ctx, t.of.manual, t.of.net)

UpkeepInv == task = NoTask \/ SecretsOf(task) \/ RepairOf(task) \/ ExchangeOf(task) \/ SweepOf(task)

(* Which of them a task is, its kind tells.                                *)
LEMMA KindTells ==
    ASSUME UpkeepInv
    PROVE  /\ task.kind = "secrets" => SecretsOf(task)
           /\ task.kind = "repair" => RepairOf(task)
           /\ task.kind \in {"request", "stream"} => ExchangeOf(task)
           /\ task.kind = "sweep" => SweepOf(task)
BY DEF UpkeepInv, NoTask, SecretsOf, RepairOf, ExchangeOf, SweepOf

(* A secrets task is one when its parts are. *)
LEMMA SecretsTaskIs ==
    ASSUME NEW t, NEW conns \in Loads, NEW loaded, NEW last,
           t = SecretsTask(conns, loaded, last),
           LoadedOf(conns, loaded), LastOf(conns, loaded, last)
    PROVE  SecretsOf(t)
<1>1. t.kind = "secrets" /\ t.conns = conns /\ t.loaded = loaded /\ t.last = last
  BY DEF SecretsTask
<1> QED BY <1>1 DEF SecretsOf

(* Before the first load charon has no secret. *)
LEMMA LoadingBegins ==
    ASSUME BeginLoading
    PROVE  UpkeepInv'
<1>1. PICK conns \in Loads :
         task' = [kind |-> "secrets", conns |-> conns, loaded |-> {},
                  last |-> [n \in {c.name : c \in conns} |-> NoConn]]
  BY DEF BeginLoading
<1>2. PICK last : last = [n \in {c.name : c \in conns} |-> NoConn]
  OBVIOUS
<1>3. task' = SecretsTask(conns, {}, last)
  BY <1>1, <1>2 DEF SecretsTask
<1>4. LoadedOf(conns, {})
  BY DEF LoadedOf
<1>5. LastOf(conns, {}, last)
  BY <1>2 DEF LastOf
<1>6. SecretsOf(task')
  BY <1>3, <1>4, <1>5, SecretsTaskIs
<1> QED BY <1>6 DEF UpkeepInv

(* A load overwrites the secrets of its name. *)
LEMMA SecretsLoaded ==
    ASSUME UpkeepInv, LoadSecrets
    PROVE  UpkeepInv'
<1>1. task.kind = "secrets"
  BY DEF LoadSecrets
<1>2. SecretsOf(task)
  BY <1>1, KindTells
<1>3. PICK conns, loaded, last : conns = task.conns /\ loaded = task.loaded /\ last = task.last
  OBVIOUS
<1>4. /\ conns \in Loads /\ task = SecretsTask(conns, loaded, last)
      /\ LoadedOf(conns, loaded) /\ LastOf(conns, loaded, last)
  BY <1>2, <1>3 DEF SecretsOf
<1>5. PICK c \in conns :
         task' = [task EXCEPT
                     !.loaded = {s \in @ : s.id \notin Ids(Secrets(c))} \cup Secrets(c),
                     !.last[c.name] = c]
  BY <1>3 DEF LoadSecrets
<1>6. PICK now, then : now = Overwritten(loaded, c) /\ then = [last EXCEPT ![c.name] = c]
  OBVIOUS
<1>7. task' = [task EXCEPT !.loaded = now, !.last = then]
  BY <1>3, <1>5, <1>6 DEF Overwritten
<1>8. task' = SecretsTask(conns, now, then)
  <2>1. DOMAIN task = {"kind", "conns", "loaded", "last"}
    BY <1>4 DEF SecretsTask
  <2>2. task.kind = "secrets" /\ task.conns = conns
    BY <1>1, <1>3
  <2> QED BY <1>7, <2>1, <2>2 DEF SecretsTask
<1>9. LoadedOf(conns, now) /\ LastOf(conns, now, then)
  BY <1>4, <1>6, OverwrittenLoaded, OverwrittenLast
<1>10. SecretsOf(task')
  BY <1>4, <1>8, <1>9, SecretsTaskIs
<1> QED BY <1>10 DEF UpkeepInv

(* Forgetting a profile takes its secrets away. *)
LEMMA SecretsRetired ==
    ASSUME UpkeepInv, RetireSecrets
    PROVE  UpkeepInv'
<1>1. task.kind = "secrets"
  BY DEF RetireSecrets
<1>2. SecretsOf(task)
  BY <1>1, KindTells
<1>3. PICK conns, loaded, last : conns = task.conns /\ loaded = task.loaded /\ last = task.last
  OBVIOUS
<1>4. /\ conns \in Loads /\ task = SecretsTask(conns, loaded, last)
      /\ LoadedOf(conns, loaded) /\ LastOf(conns, loaded, last)
  BY <1>2, <1>3 DEF SecretsOf
<1>5. PICK n \in DOMAIN last :
         task' = [task EXCEPT
                     !.loaded = {s \in @ : s.id \notin {<<"ike", n>>, <<"user", n>>}},
                     !.last[n] = NoConn]
  BY <1>3 DEF RetireSecrets
<1>6. PICK now, then : now = Retired(loaded, n) /\ then = [last EXCEPT ![n] = NoConn]
  OBVIOUS
<1>7. task' = [task EXCEPT !.loaded = now, !.last = then]
  BY <1>3, <1>5, <1>6 DEF Retired
<1>8. task' = SecretsTask(conns, now, then)
  <2>1. DOMAIN task = {"kind", "conns", "loaded", "last"}
    BY <1>4 DEF SecretsTask
  <2>2. task.kind = "secrets" /\ task.conns = conns
    BY <1>1, <1>3
  <2> QED BY <1>7, <2>1, <2>2 DEF SecretsTask
<1>9. LoadedOf(conns, now) /\ LastOf(conns, now, then)
  BY <1>4, <1>6, RetiredLoaded, RetiredLast
<1>10. SecretsOf(task')
  BY <1>4, <1>8, <1>9, SecretsTaskIs
<1> QED BY <1>10 DEF UpkeepInv

(* A repair is one when its report is the plan's so far. *)
LEMMA RepairTaskIs ==
    ASSUME NEW t, NEW r \in Repairs, NEW passed \in 0 .. Len(StepsOf(r)), NEW done,
           t = RepairTask(r, passed, done, FALSE),
           DoneOf(r, StepsOf(r), passed, passed, done)
    PROVE  RepairOf(t)
<1>1. t.kind = "repair" /\ t.of = r /\ t.passed = passed /\ t.done = done /\ t.broken = FALSE
  BY DEF RepairTask
<1> QED BY <1>1 DEF RepairOf

(* ... and so is one that broke off in a step. *)
LEMMA BrokenTaskIs ==
    ASSUME NEW t, NEW r \in Repairs, NEW passed \in 0 .. Len(StepsOf(r)), NEW done,
           t = RepairTask(r, passed, done, TRUE), passed < Len(StepsOf(r)),
           DoneOf(r, StepsOf(r), passed, passed + 1, done)
    PROVE  RepairOf(t)
<1>1. t.kind = "repair" /\ t.of = r /\ t.passed = passed /\ t.done = done /\ t.broken = TRUE
  BY DEF RepairTask
<1> QED BY <1>1 DEF RepairOf

(* What the constants say of a tunnel to repair. *)
LEMMA RepairsAre ==
    ASSUME NEW r \in Repairs
    PROVE  RepairAssumption(r) /\ MaxLogLines \in Nat
BY UpkeepAssumption DEF RepairsAssumption, RepairAssumption, Nets

(* A repair begins with nothing done. *)
LEMMA RepairBegins ==
    ASSUME BeginRepair
    PROVE  UpkeepInv'
<1>1. PICK r \in Repairs :
         task' = [kind |-> "repair", of |-> r, plan |-> StepsOf(r), passed |-> 0,
                  done |-> NothingDone(r), broken |-> FALSE]
  BY DEF BeginRepair
<1>2. task' = RepairTask(r, 0, NothingDone(r), FALSE)
  BY <1>1 DEF RepairTask
<1>3. 0 \in 0 .. Len(StepsOf(r))
  BY RepairsAre, StepsArePlan DEF PlanOf
<1>4. DoneOf(r, StepsOf(r), 0, 0, NothingDone(r))
  BY RepairsAre, NothingIsDone
<1>5. RepairOf(task')
  BY <1>2, <1>3, <1>4, RepairTaskIs
<1> QED BY <1>5 DEF UpkeepInv

(* A repair under way, at its next step. *)
AtStep(r, n, done) ==
    /\ r \in Repairs /\ n \in Nat /\ task = RepairTask(r, n, done, FALSE)
    /\ n + 1 \in 1 .. Len(StepsOf(r)) /\ Len(StepsOf(r)) \in Nat
    /\ DoneOf(r, StepsOf(r), n, n, done) /\ StepOf(r, StepsOf(r)[n + 1])
    /\ task.of = r /\ task.passed = n /\ task.done = done
    /\ NextStep = StepsOf(r)[n + 1]

(* A repair under way is before its next step. *)
LEMMA RepairAtStep ==
    ASSUME UpkeepInv, Repairing
    PROVE  \E r, n, done : AtStep(r, n, done)
<1>1. task.kind = "repair" /\ ~task.broken /\ task.passed < Len(task.plan)
  BY DEF Repairing
<1>2. RepairOf(task)
  BY <1>1, KindTells
<1>3. PICK r, n, done : r = task.of /\ n = task.passed /\ done = task.done
  OBVIOUS
<1>4. r \in Repairs /\ n \in 0 .. Len(StepsOf(r))
  BY <1>2, <1>3 DEF RepairOf
<1>5. task.broken = FALSE /\ DoneOf(r, StepsOf(r), n, n, done)
  BY <1>1, <1>2, <1>3 DEF RepairOf
<1>6. task = RepairTask(r, n, done, FALSE)
  BY <1>2, <1>3, <1>5 DEF RepairOf
<1>7. task.plan = StepsOf(r)
  BY <1>6 DEF RepairTask
<1>8. PlanOf(r, StepsOf(r))
  BY <1>4, RepairsAre, StepsArePlan
<1>9. Len(StepsOf(r)) \in Nat
  BY <1>8 DEF PlanOf
<1>10. n \in Nat /\ n + 1 \in 1 .. Len(StepsOf(r))
  BY <1>1, <1>3, <1>4, <1>7, <1>9
<1>11. StepOf(r, StepsOf(r)[n + 1])
  BY <1>8, <1>10 DEF PlanOf
<1>12. NextStep = StepsOf(r)[n + 1]
  BY <1>3, <1>7 DEF NextStep
<1>13. AtStep(r, n, done)
  BY <1>3, <1>4, <1>5, <1>6, <1>9, <1>10, <1>11, <1>12 DEF AtStep
<1> QED BY <1>13

(* The next child of the plan is dealt with. *)
LEMMA ChildRepaired ==
    ASSUME UpkeepInv, RepairChild
    PROVE  UpkeepInv'
<1>0. Repairing
  BY DEF RepairChild
<1>fits. PICK r, n, done : AtStep(r, n, done)
  BY <1>0, RepairAtStep
<1>1. /\ r \in Repairs /\ n \in Nat /\ task = RepairTask(r, n, done, FALSE)
      /\ n + 1 \in 1 .. Len(StepsOf(r)) /\ Len(StepsOf(r)) \in Nat
      /\ DoneOf(r, StepsOf(r), n, n, done) /\ StepOf(r, StepsOf(r)[n + 1])
      /\ task.of = r /\ task.passed = n /\ task.done = done
      /\ NextStep = StepsOf(r)[n + 1]
  BY <1>fits DEF AtStep
<1>2. PICK m, now : m = n + 1 /\ now = RunStep(done, StepsOf(r)[n + 1], r)
  OBVIOUS
<1>3. task' = [task EXCEPT !.done = now, !.passed = m]
  BY <1>1, <1>2 DEF RepairChild
<1>4. task' = RepairTask(r, m, now, FALSE)
  <2>1. DOMAIN task = {"kind", "of", "plan", "passed", "done", "broken"}
    BY <1>1 DEF RepairTask
  <2>2. task.kind = "repair" /\ task.of = r /\ task.plan = StepsOf(r) /\ task.broken = FALSE
    BY <1>1 DEF RepairTask
  <2> QED BY <1>3, <2>1, <2>2 DEF RepairTask
<1>5. DoneOf(r, StepsOf(r), m, m, now)
  BY <1>1, <1>2, RepairsAre, StepTaken
<1>6. m \in 0 .. Len(StepsOf(r))
  BY <1>1, <1>2
<1>7. RepairOf(task')
  BY <1>1, <1>4, <1>5, <1>6, RepairTaskIs
<1> QED BY <1>7 DEF UpkeepInv

(* Charon is lost in the middle of a step. *)
LEMMA CharonLost ==
    ASSUME UpkeepInv, LoseCharon
    PROVE  UpkeepInv'
<1>0. Repairing
  BY DEF LoseCharon
<1>fits. PICK r, n, done : AtStep(r, n, done)
  BY <1>0, RepairAtStep
<1>1. /\ r \in Repairs /\ n \in Nat /\ task = RepairTask(r, n, done, FALSE)
      /\ n + 1 \in 1 .. Len(StepsOf(r)) /\ Len(StepsOf(r)) \in Nat
      /\ DoneOf(r, StepsOf(r), n, n, done) /\ StepOf(r, StepsOf(r)[n + 1])
      /\ task.of = r /\ task.passed = n /\ task.done = done
      /\ NextStep = StepsOf(r)[n + 1]
  BY <1>fits DEF AtStep
<1>2. PICK torn \in SUBSET StepsOf(r)[n + 1].stale :
         task' = [task EXCEPT !.done = BrokenOff(done, torn), !.broken = TRUE]
  BY <1>1 DEF LoseCharon
<1>3. PICK now : now = BrokenOff(done, torn)
  OBVIOUS
<1>4. task' = RepairTask(r, n, now, TRUE)
  <2>1. DOMAIN task = {"kind", "of", "plan", "passed", "done", "broken"}
    BY <1>1 DEF RepairTask
  <2>2. task.kind = "repair" /\ task.of = r /\ task.plan = StepsOf(r) /\ task.passed = n
    BY <1>1 DEF RepairTask
  <2> QED BY <1>2, <1>3, <2>1, <2>2 DEF RepairTask
<1>5. DoneOf(r, StepsOf(r), n, n + 1, now)
  BY <1>1, <1>3, StepBroken
<1>6. n \in 0 .. Len(StepsOf(r)) /\ n < Len(StepsOf(r))
  BY <1>1
<1>7. RepairOf(task')
  BY <1>1, <1>4, <1>5, <1>6, BrokenTaskIs
<1> QED BY <1>7 DEF UpkeepInv

(* A request is one when its client is as the packets say. *)
LEMMA RequestTaskIs ==
    ASSUME NEW t, NEW packets \in Exchanges, NEW passed \in 0 .. Len(packets), NEW client,
           t = ExchangeTask("request", packets, passed, client),
           RequestOf(packets, passed, client)
    PROVE  ExchangeOf(t)
<1>1. t.kind = "request" /\ t.packets = packets /\ t.passed = passed /\ t.client = client
  BY DEF ExchangeTask
<1> QED BY <1>1 DEF ExchangeOf

(* ... and so is a stream. *)
LEMMA StreamTaskIs ==
    ASSUME NEW t, NEW packets \in Exchanges, NEW passed \in 0 .. Len(packets), NEW client,
           t = ExchangeTask("stream", packets, passed, client),
           StreamOf(packets, passed, client)
    PROVE  ExchangeOf(t)
<1>1. t.kind = "stream" /\ t.packets = packets /\ t.passed = passed /\ t.client = client
  BY DEF ExchangeTask
<1> QED BY <1>1 DEF ExchangeOf

(* What the constants say of an exchange's packets. *)
LEMMA PacketsAre ==
    ASSUME NEW packets \in Exchanges
    PROVE  packets \in Seq({packets[i] : i \in DOMAIN packets}) /\ Len(packets) \in Nat
           /\ 0 \in 0 .. Len(packets)
<1>1. packets \in Seq({packets[i] : i \in DOMAIN packets})
  BY UpkeepAssumption DEF ExchangesAssumption
<1> QED BY <1>1

(* An exchange begins with no packet read. *)
LEMMA ExchangeBegins ==
    ASSUME Ask \/ AskForStream
    PROVE  UpkeepInv'
<1>1. CASE Ask
  <2>1. PICK packets \in Exchanges :
           task' = ExchangeTask("request", packets, 0, Asking("waiting", NoTerm))
    BY <1>1 DEF Ask, Talk, ExchangeTask
  <2>2. ExchangeOf(task')
    BY <2>1, PacketsAre, RequestStarts, RequestTaskIs
  <2> QED BY <2>2 DEF UpkeepInv
<1>2. CASE AskForStream
  <2>1. PICK packets \in Exchanges :
           task' = ExchangeTask("stream", packets, 0, Asking("registering", "list-sa"))
    BY <1>2 DEF AskForStream, Talk, ExchangeTask
  <2>2. ExchangeOf(task')
    BY <2>1, PacketsAre, StreamStarts, StreamTaskIs
  <2> QED BY <2>2 DEF UpkeepInv
<1> QED BY <1>1, <1>2

(* The next packet is read. *)
LEMMA PacketReceived ==
    ASSUME UpkeepInv, Receive
    PROVE  UpkeepInv'
<1>1. /\ task.kind \in {"request", "stream"} /\ ~Over(task.client)
      /\ task.passed < Len(task.packets)
  BY DEF Receive
<1>2. ExchangeOf(task)
  BY <1>1, KindTells
<1>3. PICK kind, packets, n, c :
         /\ kind = task.kind /\ packets = task.packets /\ n = task.passed /\ c = task.client
  OBVIOUS
<1>4. /\ packets \in Exchanges /\ task = ExchangeTask(kind, packets, n, c)
      /\ n \in 0 .. Len(packets)
      /\ kind = "request" => RequestOf(packets, n, c)
      /\ kind = "stream" => StreamOf(packets, n, c)
  BY <1>2, <1>3 DEF ExchangeOf
<1>5. /\ packets \in Seq({packets[i] : i \in DOMAIN packets}) /\ Len(packets) \in Nat
      /\ n \in Nat /\ n < Len(packets) /\ n + 1 \in 0 .. Len(packets)
  BY <1>1, <1>3, <1>4, PacketsAre
<1>6. PICK m, p, now :
         /\ m = n + 1 /\ p = packets[n + 1]
         /\ now = IF kind = "request" THEN Request(c, p) ELSE StreamRequest(c, p)
  OBVIOUS
<1>7. task' = [task EXCEPT !.passed = m, !.client = now]
  BY <1>3, <1>6 DEF Receive
<1>8. task' = ExchangeTask(kind, packets, m, now)
  <2>1. DOMAIN task = {"kind", "packets", "passed", "client"}
    BY <1>4 DEF ExchangeTask
  <2> QED BY <1>3, <1>7, <2>1 DEF ExchangeTask
<1>9. CASE kind = "request"
  <2>1. RequestOf(packets, m, now)
    BY <1>1, <1>3, <1>4, <1>5, <1>6, <1>9, RequestReceives
  <2>2. ExchangeOf(task')
    BY <1>4, <1>5, <1>6, <1>8, <1>9, <2>1, RequestTaskIs
  <2> QED BY <2>2 DEF UpkeepInv
<1>10. CASE kind = "stream"
  <2>1. StreamOf(packets, m, now)
    BY <1>1, <1>3, <1>4, <1>5, <1>6, <1>10, StreamReceives
  <2>2. ExchangeOf(task')
    BY <1>4, <1>5, <1>6, <1>8, <1>10, <2>1, StreamTaskIs
  <2> QED BY <2>2 DEF UpkeepInv
<1> QED BY <1>1, <1>3, <1>9, <1>10

(* A sweep shows what its probes found. *)
LEMMA HostsSwept ==
    ASSUME Sweep
    PROVE  UpkeepInv'
<1>1. PICK s \in Sweeps :
         task' = [kind |-> "sweep", of |-> s,
                  shown |-> ProbeAll(s.hosts, s.ctx, s.manual, s.net)]
  BY DEF Sweep
<1>2. task'.kind = "sweep" /\ task'.of = s
      /\ task'.shown = ProbeAll(s.hosts, s.ctx, s.manual, s.net)
  BY <1>1
<1>3. SweepOf(task')
  BY <1>2 DEF SweepOf
<1> QED BY <1>3 DEF UpkeepInv

(* Every step keeps the invariant. *)
LEMMA UpkeepKept ==
    ASSUME UpkeepInv, UpkeepNext
    PROVE  UpkeepInv'
<1>1. CASE BeginLoading
  BY <1>1, LoadingBegins
<1>2. CASE LoadSecrets
  BY <1>2, SecretsLoaded
<1>3. CASE RetireSecrets
  BY <1>3, SecretsRetired
<1>4. CASE BeginRepair
  BY <1>4, RepairBegins
<1>5. CASE RepairChild
  BY <1>5, ChildRepaired
<1>6. CASE LoseCharon
  BY <1>6, CharonLost
<1>7. CASE Ask \/ AskForStream
  BY <1>7, ExchangeBegins
<1>8. CASE Receive
  BY <1>8, PacketReceived
<1>9. CASE Sweep
  BY <1>9, HostsSwept
<1>10. CASE Finish
  BY <1>10 DEF Finish, UpkeepInv
<1> QED BY <1>1, <1>2, <1>3, <1>4, <1>5, <1>6, <1>7, <1>8, <1>9, <1>10 DEF UpkeepNext

(* A task at hand is of its kind and as far as it has come. *)
THEOREM UpkeepHolds == UpkeepSpec => []UpkeepInv
<1>1. UpkeepInit => UpkeepInv
  BY DEF UpkeepInit, UpkeepInv
<1>2. UpkeepInv /\ [UpkeepNext]_task => UpkeepInv'
  <2>1. ASSUME UpkeepInv, UNCHANGED task
        PROVE  UpkeepInv'
    BY <2>1 DEF UpkeepInv
  <2> QED BY <2>1, UpkeepKept
<1> QED BY <1>1, <1>2, PTL DEF UpkeepSpec

(***************************************************************************)
(* What the runs check.                                                    *)
(***************************************************************************)
LEMMA RepairSpares ==
    ASSUME UpkeepInv
    PROVE  RepairSparesTheLiving
<1> SUFFICES ASSUME task.kind = "repair", task.of.ike.up
             PROVE  /\ SaysWhatIs(task.of, task.done)
                    /\ Apart(task.of) => LeavesAlone(task.of, task.done)
                    /\ task.passed = Len(task.plan) =>
                          /\ Accounts(task.of, task.done)
                          /\ Apart(task.of) => ReportsTornDown(task.of, task.done)
  BY DEF RepairSparesTheLiving
<1>1. RepairOf(task)
  BY KindTells
<1>2. PICK r, plan, n, done : r = task.of /\ plan = StepsOf(r) /\ n = task.passed
                             /\ done = task.done
  OBVIOUS
<1>3. r \in Repairs /\ n \in 0 .. Len(plan) /\ r.ike.up
  BY <1>1, <1>2 DEF RepairOf
<1>4. RepairAssumption(r) /\ Len(plan) \in Nat
  BY <1>2, <1>3, RepairsAre, StepsArePlan DEF PlanOf
<1>5. task.plan = plan
  BY <1>1, <1>2 DEF RepairOf, RepairTask
<1>6. PICK m \in 0 .. Len(plan) : DoneOf(r, plan, n, m, done) /\ (n = Len(plan) => m = n)
  <2>1. CASE DoneOf(r, plan, n, n, done)
    BY <1>3, <2>1
  <2>2. CASE n < Len(plan) /\ DoneOf(r, plan, n, n + 1, done)
    <3>1. n + 1 \in 0 .. Len(plan) /\ n # Len(plan)
      BY <1>3, <1>4, <2>2
    <3> QED BY <2>2, <3>1
  <2>3. DoneOf(r, plan, n, n, done) \/ (n < Len(plan) /\ DoneOf(r, plan, n, n + 1, done))
    BY <1>1, <1>2 DEF RepairOf
  <2> QED BY <2>1, <2>2, <2>3
<1>7. SaysWhatIs(r, done)
  BY <1>6, DoneSaysWhatIs
<1>8. Apart(r) => LeavesAlone(r, done)
  BY <1>2, <1>3, <1>4, <1>6, DoneLeavesAlone
<1>9. n = Len(plan) => Accounts(r, done)
  BY <1>2, <1>3, <1>4, <1>6, DoneAccounts
<1>10. n = Len(plan) /\ Apart(r) => ReportsTornDown(r, done)
  BY <1>2, <1>3, <1>4, <1>6, DoneReports
<1> QED BY <1>2, <1>5, <1>7, <1>8, <1>9, <1>10

(* The invariant gives: every event of the stream is returned. *)
LEMMA EventsReturned ==
    ASSUME UpkeepInv
    PROVE  EveryEventReturned
<1> SUFFICES ASSUME task.kind \in {"request", "stream"}, task.client.at = "done"
             PROVE  LET packets == task.packets
                        streamed == task.kind = "stream"
                    IN  /\ streamed => BodiesOf(packets, Own(packets, task.client.event, Len(packets)),
                                                task.client.events)
                        /\ \E a \in DOMAIN packets :
                              /\ packets[a].type = "CMD_RESPONSE"
                              /\ \A k \in 1 .. a - 1 : IF streamed THEN ~Answer(packets, k)
                                                       ELSE packets[k].type \notin Answers
                              /\ streamed => Confirmed(packets, a)
                              /\ task.client.response = packets[a].body
  BY DEF EveryEventReturned
<1>1. ExchangeOf(task)
  BY KindTells
<1>2. PICK packets, n, c : packets = task.packets /\ n = task.passed /\ c = task.client
  OBVIOUS
<1>3. packets \in Exchanges /\ n \in 0 .. Len(packets) /\ c.at = "done"
  BY <1>1, <1>2 DEF ExchangeOf
<1>4. /\ packets \in Seq({packets[i] : i \in DOMAIN packets}) /\ Len(packets) \in Nat
      /\ n \in Nat /\ Len(packets) >= n /\ 1 .. n \subseteq DOMAIN packets
  BY <1>3, PacketsAre
<1>5. CASE task.kind = "request"
  <2>1. RequestOf(packets, n, c)
    BY <1>1, <1>2, <1>5 DEF ExchangeOf
  <2>2. PICK a \in 1 .. n :
           /\ packets[a].type = "CMD_RESPONSE" /\ c.response = packets[a].body
           /\ \A k \in 1 .. a - 1 : packets[k].type \notin Answers
    BY <1>3, <2>1 DEF RequestOf
  <2>3. a \in DOMAIN packets
    BY <1>4
  <2> QED BY <1>2, <1>5, <2>2, <2>3
<1>6. CASE task.kind = "stream"
  <2>1. StreamOf(packets, n, c)
    BY <1>1, <1>2, <1>6 DEF ExchangeOf
  <2>2. /\ Answered(packets, n + 1) /\ AnsweredWith(packets, n, c.response)
        /\ BodiesOf(packets, Own(packets, c.event, n), c.events)
    BY <1>3, <2>1 DEF StreamOf
  <2>3. Own(packets, c.event, Len(packets)) = Own(packets, c.event, n)
    BY <1>4, <2>2, OwnEnds
  <2>4. PICK a \in 1 .. n :
           /\ packets[a].type = "CMD_RESPONSE" /\ Answer(packets, a)
           /\ c.response = packets[a].body
           /\ \A k \in 1 .. a - 1 : ~Answer(packets, k)
    BY <2>2 DEF AnsweredWith
  <2>5. a \in DOMAIN packets /\ Confirmed(packets, a)
    BY <1>4, <2>4 DEF Answer
  <2> QED BY <1>2, <1>6, <2>2, <2>3, <2>4, <2>5
<1> QED BY <1>5, <1>6

(* ... and: a host that is up answered, whoever answered. *)
LEMMA UpAnswered ==
    ASSUME UpkeepInv
    PROVE  UpMeansAnswered
<1> SUFFICES ASSUME task.kind = "sweep", NEW i \in DOMAIN task.shown,
                    task.shown[i].state = "up"
             PROVE  LET s == task.of
                        ip == AddressOf(s.hosts[i], s.net.names)
                    IN  /\ ip \in s.alive
                        /\ s.manual \/ InTunnel(ip, s.ctx)
                        /\ s.hosts[i].port = 0 =>
                              \E k \in DOMAIN s.net.replies :
                                 /\ s.net.replies[k].source = ip
                                 /\ s.net.replies[k].token[1] = s.net.sweep
                                 /\ s.net.replies[k].at < 2 * Timeout
  BY DEF UpMeansAnswered
<1>1. SweepOf(task)
  BY KindTells
<1>2. PICK s : s = task.of
  OBVIOUS
<1>3. s \in Sweeps /\ task.shown = ProbeAll(s.hosts, s.ctx, s.manual, s.net)
  BY <1>1, <1>2 DEF SweepOf
<1>4. i \in DOMAIN s.hosts
      /\ task.shown[i] = ProbeOne(s.hosts[i], <<s.net.sweep, i>>, s.ctx, s.manual, s.net)
  BY <1>3 DEF ProbeAll
<1>5. PICK host, ip, token : /\ host = s.hosts[i] /\ ip = AddressOf(host, s.net.names)
                            /\ token = <<s.net.sweep, i>>
  OBVIOUS
<1>6. /\ ip # NoIp /\ Probed(host, ip, s.ctx, s.manual)
      /\ IF host.port = 0 THEN IcmpProbe(ip, token, s.net.replies)
         ELSE TcpProbe(ip, host.port, s.net.listening)
  <2>1. PICK shown, up : /\ shown = ProbeOne(host, token, s.ctx, s.manual, s.net)
                         /\ up = IF host.port = 0 THEN IcmpProbe(ip, token, s.net.replies)
                                 ELSE TcpProbe(ip, host.port, s.net.listening)
    OBVIOUS
  <2>2. shown.state = "up"
    BY <1>4, <1>5, <2>1
  <2>3. CASE ip = NoIp
    <3>1. shown.state = "dns-failed"
      BY <1>5, <2>1, <2>3 DEF ProbeOne
    <3> QED BY <2>2, <3>1
  <2>4. CASE ip # NoIp
    <3>1. shown.state = IF ~Probed(host, ip, s.ctx, s.manual) THEN "skipped"
                        ELSE IF up THEN "up" ELSE "down"
      BY <1>5, <2>1, <2>4 DEF ProbeOne
    <3>2. Probed(host, ip, s.ctx, s.manual) /\ up
      BY <2>2, <3>1
    <3> QED BY <2>1, <2>4, <3>2
  <2> QED BY <2>3, <2>4
<1>7. s.manual \/ InTunnel(ip, s.ctx)
  BY <1>6 DEF Probed
<1>8. /\ \A j \in DOMAIN s.net.replies :
            s.net.replies[j].token[1] = s.net.sweep => s.net.replies[j].source \in s.alive
      /\ \A l \in s.net.listening : l[1] \in s.alive
  BY <1>3, UpkeepAssumption DEF SweepsAssumption
<1>9. /\ s.net.replies \in Seq({s.net.replies[j] : j \in DOMAIN s.net.replies})
      /\ \A j \in DOMAIN s.net.replies : s.net.replies[j].at \in Nat
  BY <1>3, UpkeepAssumption DEF SweepsAssumption
<1>10. ASSUME host.port = 0
       PROVE  \E k \in DOMAIN s.net.replies : /\ s.net.replies[k].source = ip
                                             /\ s.net.replies[k].token[1] = s.net.sweep
                                             /\ s.net.replies[k].at < 2 * Timeout
  <2>1. PICK k \in DOMAIN s.net.replies : /\ Received(s.net.replies, k)
                                          /\ IsOurReply(s.net.replies[k], ip, token)
    BY <1>6, <1>10 DEF IcmpProbe
  <2>2. s.net.replies[k].token[1] = s.net.sweep /\ s.net.replies[k].source = ip
    BY <1>5, <2>1 DEF IsOurReply
  <2>3. k \in Nat /\ (k = 1 \/ k - 1 \in (1 .. k - 1) \cap DOMAIN s.net.replies)
    <3>1. \E S : s.net.replies \in Seq(S)
      BY <1>9
    <3>2. /\ DOMAIN s.net.replies = 1 .. Len(s.net.replies)
          /\ Len(s.net.replies) \in Nat
      BY <3>1
    <3>3. k \in 1 .. Len(s.net.replies)
      BY <2>1, <3>2
    <3> QED BY <3>2, <3>3
  <2>4. s.net.replies[k].at < 2 * Timeout
    <3>1. s.net.replies[k].at \in Nat
      BY <1>9
    <3>2. CASE k = 1
      BY <2>1, <3>1, <3>2 DEF Received, Timeout
    <3>3. CASE k # 1
      <4>1. s.net.replies[k - 1].at \in Nat /\ s.net.replies[k - 1].at < Timeout
        BY <1>9, <2>1, <2>3, <3>3 DEF Received
      <4>2. s.net.replies[k].at - s.net.replies[k - 1].at <= Timeout
        BY <2>1, <3>3 DEF Received
      <4> QED BY <3>1, <4>1, <4>2 DEF Timeout
    <3> QED BY <3>2, <3>3
  <2> QED BY <2>2, <2>4
<1>11. ip \in s.alive
  <2>1. CASE host.port = 0
    BY <1>8, <1>10, <2>1
  <2>2. CASE host.port # 0
    <3>1. <<ip, host.port>> \in s.net.listening
      BY <1>6, <2>2 DEF TcpProbe
    <3>2. <<ip, host.port>>[1] = ip
      OBVIOUS
    <3> QED BY <1>8, <3>1, <3>2
  <2> QED BY <2>1, <2>2
<1> QED BY <1>2, <1>5, <1>7, <1>10, <1>11

(* ... and: the secrets charon chooses are the connection's own. *)
LEMMA SecretsChosen ==
    ASSUME UpkeepInv
    PROVE  OwnSecretChosen
<1> SUFFICES ASSUME task.kind = "secrets",
                    NEW n \in DOMAIN task.last, task.last[n] # NoConn,
                    \A s \in task.loaded : s.id[2] # n => task.last[n].gateway \notin s.owners,
                    NEW me
             PROVE  LET c == task.last[n]
                        kind == IF c.version = 1 THEN "XAUTH" ELSE "EAP"
                        keys == Chosen(task.loaded, "IKE", me, c.gateway)
                        passwords == Chosen(task.loaded, kind, c.user, c.gateway)
                    IN  /\ {s.data : s \in keys} = {c.psk}
                        /\ c.user # NoTerm => {s.data : s \in passwords} = {c.password}
  BY DEF OwnSecretChosen
<1>fits. PICK conns, loaded, last : conns = task.conns /\ loaded = task.loaded /\ last = task.last
  OBVIOUS
<1>b. PICK c, peer : c = last[n] /\ peer = c.gateway
  OBVIOUS
<1> DEFINE key == LoadShared(c, c.name, {c.gateway})
           password == LoadSharedUserAuth(c, c.name, c.password, c.version, {c.gateway})
           kind == IF c.version = 1 THEN "XAUTH" ELSE "EAP"
<1>1. /\ conns \in Loads /\ LoadedOf(conns, loaded) /\ LastOf(conns, loaded, last)
      /\ n \in DOMAIN last /\ c # NoConn /\ OthersDoNot(loaded, n, peer)
  <2>1. SecretsOf(task)
    BY KindTells
  <2> QED BY <1>fits, <1>b, <2>1 DEF SecretsOf, OthersDoNot
<1>2. key \in Secrets(c) /\ key.type = "IKE" /\ key.data = c.psk
  BY DEF Secrets, LoadShared
<1>3. c.user # NoTerm => password \in Secrets(c) /\ password.type = kind
                         /\ password.data = c.password
  BY DEF Secrets, LoadSharedUserAuth
<1> HIDE DEF key, password, kind
<1>4. ASSUME NEW own \in Secrets(c), NEW type, type = own.type, NEW x
      PROVE  Chosen(loaded, type, x, peer) = {own}
  BY <1>1, <1>b, <1>4, UpkeepAssumption, OwnChosen
<1>5. Chosen(loaded, "IKE", me, peer) = {key}
  BY <1>2, <1>4
<1>6. c.user # NoTerm => Chosen(loaded, kind, c.user, peer) = {password}
  BY <1>3, <1>4
<1>7. {s.data : s \in {key}} = {c.psk}
  BY <1>2
<1>8. c.user # NoTerm => {s.data : s \in {password}} = {c.password}
  BY <1>3
<1>9. /\ {s.data : s \in Chosen(loaded, "IKE", me, peer)} = {c.psk}
      /\ c.user # NoTerm =>
            {s.data : s \in Chosen(loaded, kind, c.user, peer)} = {c.password}
  BY <1>5, <1>6, <1>7, <1>8
<1> QED BY <1>fits, <1>b, <1>9 DEF kind

\* Charon takes a connection's own secrets, of all that were ever loaded.
THEOREM OwnSecretIsChosen == UpkeepSpec => []OwnSecretChosen
BY UpkeepHolds, SecretsChosen, PTL

\* A repair spares what carries its networks, and accounts for the others.
THEOREM RepairSparesLiving == UpkeepSpec => []RepairSparesTheLiving
BY UpkeepHolds, RepairSpares, PTL

\* A streamed command returns all its events, and any command its own answer.
THEOREM EveryEventIsReturned == UpkeepSpec => []EveryEventReturned
BY UpkeepHolds, EventsReturned, PTL

\* A host a sweep shows as up answered that sweep, whatever late replies to
\* earlier ones still arrive.
THEOREM UpHostsAnswered == UpkeepSpec => []UpMeansAnswered
BY UpkeepHolds, UpAnswered, PTL

(***************************************************************************)
(* Imports.  What a file of any contents is read as: a profile with a      *)
(* gateway, algorithms charon knows and networks that can be written down  *)
(* and read again, or nothing.                                             *)
(***************************************************************************)
Ciphers == {"aes128", "aes192", "aes256"}
Integs == {"sha1", "sha256", "sha384", "sha512"}
Groups == {"modp1024", "modp1536", "modp2048", "modp3072", "modp4096", "ecp256", "ecp384"}

Legible(nets) == \A i \in DOMAIN nets : FromText(ToText(nets[i])) = nets[i]

Complete(c) ==
    /\ ValidGateway(c.gateway)
    /\ c.ike_enc \in Ciphers /\ c.ike_integ \in Integs /\ c.ike_dh \in Groups
    /\ c.esp_enc \in Ciphers /\ c.esp_integ \in Integs
    /\ c.pfs \in Groups \cup {NoTerm}
    /\ Legible(c.nets)

Sound(result) == result.ok => Complete(result.config)

IntakeInv ==
    \/ work = NoWork
    \/ work.kind = "import" /\ Sound(work.intact) /\ Sound(work.result)

(* What a reader returns of a table is one of its values, or a lost term. *)
LEMMA TableValues ==
    ASSUME NEW pairs, NEW w
    PROVE  Lookup(Table(pairs), w) \in {p[2] : p \in pairs} \cup {NoTerm}
BY DEF Lookup, Table

(* The tables of the .tgb. *)
LEMMA TgbTerms ==
    ASSUME NEW w, NEW v
    PROVE  /\ IntegAlg(w) \in Integs \cup {NoTerm}
           /\ DhGroup(w) \in Groups \cup {NoTerm}
           /\ EncAlg(w, v) \in Ciphers \cup {NoTerm}
<1>1. IntegAlg(w) \in Integs \cup {NoTerm}
  BY DEF IntegAlg, Lookup, IntegNames, Integs
<1>2. DhGroup(w) \in Groups \cup {NoTerm}
  BY DEF DhGroup, Lookup, GroupNames, Groups
<1>3. EncAlg(w, v) \in Ciphers \cup {NoTerm}
  <2>1. Lookup(AesKey, v) \in Ciphers \cup {NoTerm}
    <3>1. Lookup(AesKey, v) \in
            {p[2] : p \in {<<"128", "aes128">>, <<"192", "aes192">>, <<"256", "aes256">>}}
              \cup {NoTerm}
      BY TableValues DEF AesKey
    <3> QED BY <3>1 DEF Ciphers
  <2> QED BY <2>1 DEF EncAlg, Lookup, Ciphers
<1> QED BY <1>1, <1>2, <1>3

(* Those of the .scx. *)
LEMMA ScxTerms ==
    ASSUME NEW words
    PROVE  /\ FirstOf(IntegTokens, words) \in Integs \cup {NoTerm}
           /\ FirstOf(DhTokens, words) \in Groups \cup {NoTerm}
           /\ FirstOf(EncTokens, words) \in Ciphers \cup {NoTerm}
<1>1. \A w : Lookup(IntegTokens, w) \in Integs \cup {NoTerm}
  BY DEF Lookup, IntegTokens, Integs
<1>2. \A w : Lookup(DhTokens, w) \in Groups \cup {NoTerm}
  BY DEF Lookup, DhTokens, DhStrength, Groups
<1>3. \A w : Lookup(EncTokens, w) \in Ciphers \cup {NoTerm}
  BY DEF Lookup, EncTokens, Ciphers
<1>4. ASSUME NEW table PROVE FirstOf(table, words) = NoTerm \/ \E w : FirstOf(table, words) = Lookup(table, w)
  BY DEF FirstOf
<1> QED BY <1>1, <1>2, <1>3, <1>4

(* And those of the .ini. *)
LEMMA NcpTerms ==
    ASSUME NEW s, NEW key
    PROVE  /\ Code(IkeIntegCodes, s, key) \in Integs \cup {NoTerm}
           /\ Code(EspIntegCodes, s, key) \in Integs \cup {NoTerm}
           /\ Code(EncCodes, s, key) \in Ciphers \cup {NoTerm}
           /\ Code(DhCodes, s, key) \in Groups \cup {NoTerm}
<1> DEFINE w == Word(s, key)
<1>1. Lookup(IkeIntegCodes, w) \in Integs \cup {NoTerm}
  <2>1. Lookup(IkeIntegCodes, w) \in
          {p[2] : p \in {<<"2", "sha1">>, <<"12", "sha256">>, <<"13", "sha384">>,
                         <<"14", "sha512">>}} \cup {NoTerm}
    BY TableValues DEF IkeIntegCodes
  <2> QED BY <2>1 DEF Integs
<1>2. Lookup(EspIntegCodes, w) \in Integs \cup {NoTerm}
  <2>1. Lookup(EspIntegCodes, w) \in {p[2] : p \in {<<"5", "sha256">>}} \cup {NoTerm}
    BY TableValues DEF EspIntegCodes
  <2> QED BY <2>1 DEF Integs
<1>3. Lookup(EncCodes, w) \in Ciphers \cup {NoTerm}
  <2>1. Lookup(EncCodes, w) \in {p[2] : p \in {<<"6", "aes256">>}} \cup {NoTerm}
    BY TableValues DEF EncCodes
  <2> QED BY <2>1 DEF Ciphers
<1>4. Lookup(DhCodes, w) \in Groups \cup {NoTerm}
  <2>1. Lookup(DhCodes, w) \in
          {p[2] : p \in {<<"2", "modp1024">>, <<"5", "modp1536">>, <<"14", "modp2048">>,
                         <<"15", "modp3072">>, <<"16", "modp4096">>, <<"19", "ecp256">>,
                         <<"20", "ecp384">>}} \cup {NoTerm}
    BY TableValues DEF DhCodes
  <2> QED BY <2>1 DEF Groups
<1> QED BY <1>1, <1>2, <1>3, <1>4 DEF Code

(* A network that was read can be written and read again. *)
LEMMA ReadIsLegible ==
    ASSUME NEW cidr, NEW net, net = FromText(cidr), net # NoNet
    PROVE  FromText(ToText(net)) = net
<1> DEFINE t == CHOOSE t \in DOMAIN Address : Address[t] = net.addr
<1>1. /\ cidr.addr \in DOMAIN Address /\ net.addr = Address[cidr.addr]
      /\ net.len \in Len4 /\ net = [addr |-> net.addr, len |-> net.len] /\ net.len # -1
  BY Ipv4Assumption DEF FromText, IsAddress, Len4
<1>2. t \in DOMAIN Address /\ Address[t] = net.addr
  BY <1>1
<1>3. ToText(net) = [addr |-> t, len |-> net.len]
  BY DEF ToText
<1> HIDE DEF t
<1> QED BY <1>1, <1>2, <1>3 DEF FromText, IsAddress

(* So can one that came with a mask. *)
LEMMA MaskedIsLegible ==
    ASSUME NEW addr, NEW mask, NEW net, net = FromAddrAndMask(addr, mask), net # NoNet
    PROVE  FromText(ToText(net)) = net
<1>1. addr \in DOMAIN Address /\ net = [addr |-> Address[addr], len |-> PrefixLen(Address[mask])]
      /\ PrefixLen(Address[mask]) \in Len4
  BY DEF FromAddrAndMask, IsAddress, Contiguous, PrefixLen
<1>2. net = FromText([addr |-> addr, len |-> PrefixLen(Address[mask])])
  BY <1>1, Ipv4Assumption DEF FromText, IsAddress, Len4
<1> QED BY <1>2, ReadIsLegible

(* A complete profile is a sound import.                                   *)
LEMMA ImportedIsSound ==
    ASSUME NEW config, Complete(config)
    PROVE  Sound(Imported(config))
BY DEF Sound, Imported

(* A refusal promises nothing. *)
LEMMA RefusedIsSound == Sound(Refused)
BY DEF Sound, Refused

(* The .tgb: a profile whose every reference was found. *)
LEMMA TgbIsSound ==
    ASSUME NEW doc
    PROVE  Sound(ImportTgb(doc))
<1> DEFINE peer == IsakmpPeer(doc)
           conn == Connection(doc)
           local == LocalIdentity(doc, peer)
           p1 == Phase1(doc, peer)
           p2 == Phase2(doc, conn)
           none == ""
           said == [version |-> 1, name |-> WithoutP1(peer.name), gateway |-> Word(peer, "Address"),
                    psk |-> Word(peer, "Authentication"), local_id |-> local.id,
                    local_id_type |-> local.type, login |-> TgbLogin(peer),
                    ike_enc |-> p1.enc, ike_integ |-> p1.integ, ike_prf |-> MatchingPrf[p1.integ],
                    ike_dh |-> p1.dh, esp_enc |-> p2.enc, esp_integ |-> p2.integ, pfs |-> p2.pfs,
                    nets |-> p2.nets, vip |-> TRUE, dpd_delay |-> TgbDelay(doc), redial |-> TRUE,
                    compression |-> FALSE, dns |-> {}, domain |-> none, user |-> NoTerm]
<1>1. /\ p1.enc \in Ciphers \cup {NoTerm} /\ p1.integ \in Integs \cup {NoTerm}
      /\ p1.dh \in Groups \cup {NoTerm}
  BY TgbTerms DEF Phase1, TransformEnc
<1>2. /\ p2.enc \in Ciphers \cup {NoTerm} /\ p2.integ \in Integs \cup {NoTerm}
      /\ p2.pfs \in Groups \cup {NoTerm} /\ p2.nets = RemoteSelectors(doc, conn)
  BY TgbTerms DEF Phase2, TransformEnc
<1>3. NoNet \notin Range(p2.nets) => Legible(p2.nets)
  <2> SUFFICES ASSUME NoNet \notin Range(p2.nets), NEW i \in DOMAIN p2.nets
               PROVE  FromText(ToText(p2.nets[i])) = p2.nets[i]
    BY DEF Legible
  <2>1. p2.nets[i] # NoNet
    BY DEF Range
  <2>2. \/ \E c : p2.nets[i] = FromText(c)
        \/ \E a, m : p2.nets[i] = FromAddrAndMask(a, m)
    BY <1>2, <2>1 DEF RemoteSelectors
  <2> QED BY <2>1, <2>2, ReadIsLegible, MaskedIsLegible
<1>4. ASSUME ValidGateway(Word(peer, "Address")), NoNet \notin Range(p2.nets),
             NoTerm \notin {p1.enc, p1.integ, p1.dh, p2.enc, p2.integ}
      PROVE  Sound(Imported(said))
  <2> HIDE DEF peer, conn, local, p1, p2, none
  <2>2. Complete(said)
    BY <1>1, <1>2, <1>3, <1>4 DEF Complete
  <2> HIDE DEF said
  <2> QED BY <2>2, ImportedIsSound
<1>5. ImportTgb(doc) = Refused \/
      (/\ ImportTgb(doc) = Imported(said)
       /\ ValidGateway(Word(peer, "Address")) /\ NoNet \notin Range(p2.nets)
       /\ NoTerm \notin {p1.enc, p1.integ, p1.dh, p2.enc, p2.integ})
  BY Zenon DEF ImportTgb
<1> HIDE DEF peer, conn, local, p1, p2, none, said
<1> QED BY <1>4, <1>5, RefusedIsSound

(* The .scx: proposals of known words only. *)
LEMMA ScxIsSound ==
    ASSUME NEW scx
    PROVE  Sound(ImportScx(scx))
<1> DEFINE suites == ScxSuites(scx)
           local == ScxIdentity(scx.local_id)
           asked == scx.vip # ""
           said == [version |-> 2, name |-> PickName(scx), gateway |-> scx.gateway,
                   psk |-> ScxSecret(scx), local_id |-> local.id, local_id_type |-> local.type,
                   ike_enc |-> suites.ike.enc, ike_integ |-> suites.ike.integ,
                   ike_prf |-> suites.ike.prf, ike_dh |-> suites.ike.dh,
                   esp_enc |-> suites.esp.enc, esp_integ |-> suites.esp.integ,
                   pfs |-> suites.esp.dh, nets |-> RemoteTs(scx),
                   dpd_delay |-> FlexibleU32(scx.dpd_delay), redial |-> TRUE,
                   compression |-> FALSE, login |-> ScxLogin(scx), vip |-> asked,
                   dns |-> {}, domain |-> scx.domain_suffix, user |-> NoTerm]
<1>1. \A words : /\ ParseProposal(words).integ \in Integs \cup {NoTerm}
                 /\ ParseProposal(words).enc \in Ciphers \cup {NoTerm}
                 /\ ParseProposal(words).dh \in Groups \cup {NoTerm}
  BY ScxTerms DEF ParseProposal
<1>2. /\ suites.ike = ParseProposal(FirstProposal(scx.proposals))
      /\ suites.esp = ParseProposal(FirstProposal(scx.esp))
      /\ suites.ok => NoTerm \notin {suites.ike.enc, suites.ike.integ, suites.ike.dh,
                                     suites.esp.enc, suites.esp.integ}
  BY DEF ScxSuites
<1>3. NoNet \notin Range(RemoteTs(scx)) => Legible(RemoteTs(scx))
  <2> SUFFICES ASSUME NoNet \notin Range(RemoteTs(scx)), NEW i \in DOMAIN RemoteTs(scx)
               PROVE  FromText(ToText(RemoteTs(scx)[i])) = RemoteTs(scx)[i]
    BY DEF Legible
  <2>1. RemoteTs(scx)[i] # NoNet
    BY DEF Range
  <2>2. RemoteTs(scx)[i] = FromText(scx.remote_ts[i])
    BY DEF RemoteTs
  <2> QED BY <2>1, <2>2, ReadIsLegible
<1>4. ScxSecret(scx) # "" => ValidGateway(scx.gateway)
  BY DEF ScxSecret
<1>5. ASSUME ScxSecret(scx) # "", suites.ok, NoNet \notin Range(RemoteTs(scx))
      PROVE  Sound(Imported(said))
  <2> HIDE DEF suites, local, asked
  <2>2. Complete(said)
    BY <1>1, <1>2, <1>3, <1>4, <1>5 DEF Complete
  <2> HIDE DEF said
  <2> QED BY <2>2, ImportedIsSound
<1>6. ImportScx(scx) = Refused \/
      (/\ ImportScx(scx) = Imported(said)
       /\ ScxSecret(scx) # "" /\ suites.ok /\ NoNet \notin Range(RemoteTs(scx)))
  BY Zenon DEF ImportScx
<1> HIDE DEF suites, local, asked, said
<1> QED BY <1>5, <1>6, RefusedIsSound

(* The .mobileconfig: algorithms of the importer's own. *)
LEMMA MobileconfigIsSound ==
    ASSUME NEW payloads
    PROVE  Sound(ImportMobileconfig(payloads))
<1> DEFINE p == payloads[FindVpnPayload(payloads)]
           name == IF p.name = "" THEN "Sophos VPN" ELSE p.name
           user == IF p.xauth_enabled # 0 /\ p.xauth_name # "" THEN p.xauth_name ELSE NoTerm
           login == IF p.xauth_enabled # 0 THEN [can_save |-> TRUE, otp |-> FALSE] ELSE NoLogin
           none == ""
           said == [version |-> 1, name |-> name, gateway |-> p.address, psk |-> p.secret,
                    user |-> user, login |-> login,
                    ike_enc |-> "aes256", ike_integ |-> "sha256", ike_prf |-> "prfsha256",
                    ike_dh |-> "modp2048", esp_enc |-> "aes256", esp_integ |-> "sha256",
                    pfs |-> "modp2048", nets |-> << >>, vip |-> TRUE,
                    dpd_delay |-> DefaultDelay, redial |-> TRUE, compression |-> FALSE,
                    dns |-> {}, domain |-> none, local_id |-> NoTerm, local_id_type |-> NoTerm]
<1>1. ASSUME ValidGateway(p.address)
      PROVE  Sound(Imported(said))
  <2> HIDE DEF p, name, user, login, none
  <2>2. Complete(said)
    BY <1>1 DEF Complete, Ciphers, Integs, Groups, Legible
  <2> HIDE DEF said
  <2> QED BY <2>2, ImportedIsSound
<1>2. ImportMobileconfig(payloads) = Refused \/
      (ImportMobileconfig(payloads) = Imported(said) /\ ValidGateway(p.address))
  BY Zenon DEF ImportMobileconfig
<1> HIDE DEF p, name, user, login, none, said
<1> QED BY <1>1, <1>2, RefusedIsSound

(* The .ini: codes of the tables only. *)
LEMMA NcpIsSound ==
    ASSUME NEW doc
    PROVE  Sound(ImportNcp(doc))
<1> DEFINE profiles == SectionsLike(doc, "PROFILE")
           profile == IF profiles = << >> THEN NoSection ELSE profiles[1]
           ike == IkeSuite(doc, profile)
           esp == EspSuite(doc, profile)
           text(key) == IF Has(profile, key) /\ Get(profile, key) # << >>
                        THEN Word(profile, key) ELSE ""
           said == [version |-> 2, name |-> text("Name"), gateway |-> Word(profile, "Gateway"),
                    psk |-> text("Secret"),
                    local_id |-> IF Has(profile, "IkeIdStr") THEN text("IkeIdStr") ELSE NoTerm,
                    local_id_type |-> Code(IdTypeCodes, profile, "IkeIdType"),
                    login |-> NcpLogin(profile),
                    ike_enc |-> ike.enc, ike_integ |-> ike.integ, ike_prf |-> ike.prf,
                    ike_dh |-> ike.dh, esp_enc |-> esp.enc, esp_integ |-> esp.integ,
                    pfs |-> Pfs(profile), nets |-> Networks(profile), vip |-> TRUE,
                    compression |-> Word(profile, "UseComp") = "1", dpd_delay |-> DefaultDelay,
                    dns |-> DnsServers(profile), domain |-> text("DomainName"),
                    redial |-> TRUE, user |-> NoTerm]
<1>1. /\ ike.enc \in Ciphers \cup {NoTerm} /\ ike.integ \in Integs \cup {NoTerm}
      /\ ike.dh \in Groups \cup {NoTerm}
  BY NcpTerms DEF IkeSuite
<1>2. esp.enc \in Ciphers \cup {NoTerm} /\ esp.integ \in Integs \cup {NoTerm}
  BY NcpTerms DEF EspSuite
<1>3. Pfs(profile) \in Groups \cup {NoTerm}
  BY NcpTerms DEF Pfs
<1>4. NoNet \notin Range(Networks(profile)) => Legible(Networks(profile))
  <2> SUFFICES ASSUME NoNet \notin Range(Networks(profile)), NEW i \in DOMAIN Networks(profile)
               PROVE  FromText(ToText(Networks(profile)[i])) = Networks(profile)[i]
    BY DEF Legible
  <2>1. Networks(profile)[i] # NoNet
    BY DEF Range
  <2>2. \E a, m : Networks(profile)[i] = FromAddrAndMask(a, m)
    BY DEF Networks
  <2> QED BY <2>1, <2>2, MaskedIsLegible
<1>5. ASSUME ValidGateway(Word(profile, "Gateway")), NoNet \notin Range(Networks(profile)),
             NoTerm \notin {ike.enc, ike.integ, ike.prf, ike.dh, esp.enc, esp.integ}
      PROVE  Sound(Imported(said))
  <2> HIDE DEF profile, ike, esp, text
  <2>2. Complete(said)
    BY <1>1, <1>2, <1>3, <1>4, <1>5 DEF Complete
  <2> HIDE DEF said
  <2> QED BY <2>2, ImportedIsSound
<1>6. ImportNcp(doc) = Refused \/
      (/\ ImportNcp(doc) = Imported(said)
       /\ ValidGateway(Word(profile, "Gateway")) /\ NoNet \notin Range(Networks(profile))
       /\ NoTerm \notin {ike.enc, ike.integ, ike.prf, ike.dh, esp.enc, esp.integ})
  BY Zenon DEF ImportNcp, Supported
<1> HIDE DEF profiles, profile, ike, esp, text, said
<1> QED BY <1>5, <1>6, RefusedIsSound

(* Whichever of them reads a text. *)
LEMMA ParsedIsSound ==
    ASSUME NEW file
    PROVE  Sound(ParseText(file))
<1>1. Sound(ImportSophos(file))
  BY TgbIsSound, ScxIsSound, MobileconfigIsSound, RefusedIsSound, Zenon DEF ImportSophos
<1> QED BY <1>1, NcpIsSound, RefusedIsSound, Zenon DEF ParseText

(* An intake reads both texts by the same readers. *)
LEMMA ReadInKeepsInv ==
    ASSUME NEW intact, NEW file, ReadIn(intact, file)
    PROVE  IntakeInv'
<1>1. work' = [kind |-> "import", format |-> Detect(file.reads),
               intact |-> ParseText(intact), result |-> ParseText(file)]
  BY DEF ReadIn, Take
<1>2. PICK a, b : a = ParseText(intact) /\ b = ParseText(file)
  OBVIOUS
<1>3. work'.kind = "import" /\ work'.intact = a /\ work'.result = b
  BY <1>1, <1>2
<1>4. Sound(a) /\ Sound(b)
  BY <1>2, ParsedIsSound
<1> QED BY <1>3, <1>4 DEF IntakeInv

\* What is imported, of a file however damaged on its way, is a whole profile.
THEOREM ImportsAreWhole == IntakeSpec => []IntakeInv
<1>1. IntakeInit => IntakeInv
  BY DEF IntakeInit, IntakeInv
<1>2. ASSUME IntakeInv, [IntakeNext]_work
      PROVE  IntakeInv'
  <2>1. CASE ImportFile
    BY <2>1, ReadInKeepsInv DEF ImportFile
  <2>2. CASE Download
    BY <2>2, ReadInKeepsInv DEF Download
  <2>3. CASE OpenLink
    BY <2>3, ReadInKeepsInv DEF OpenLink
  <2>4. CASE PutAside
    BY <2>4 DEF PutAside, IntakeInv
  <2>5. CASE UNCHANGED work
    BY <1>2, <2>5 DEF IntakeInv
  <2> QED BY <1>2, <2>1, <2>2, <2>3, <2>4, <2>5 DEF IntakeNext
<1> QED BY <1>1, <1>2, PTL DEF IntakeSpec

(* None are none, in the dialog's own count as in any. *)
LEMMA NoneAreNone == Edits!Cardinality({}) = 0
BY FS_EmptySet DEF Edits!Cardinality, Cardinality

(* The dialog opens with no hosts, and they are in order. *)
LEMMA NoHosts == Edits!NormalizeHosts(<< >>) = [ok |-> TRUE, hosts |-> << >>]
<1> DEFINE rows == {i \in DOMAIN << >> : << >>[i].name # Edits!Blank \/ << >>[i].addr # Edits!Blank}
           kept == {i \in rows : \A k \in rows : k < i => << >>[k] # << >>[i]}
           nth(n) == CHOOSE i \in kept : Edits!Cardinality({k \in kept : k < i}) = n - 1
           bad == (\E i \in rows : Edits!BadRow(<< >>[i])) \/ Edits!Cardinality(kept) > Edits!MaxHosts
           list == [n \in 1 .. Edits!Cardinality(kept) |-> << >>[nth(n)]]
<1>1. rows = {} /\ kept = {}
  OBVIOUS
<1>2. Edits!Cardinality(kept) = 0
  BY <1>1, NoneAreNone
<1>3. ~bad
  BY <1>1, <1>2 DEF Edits!MaxHosts
<1>4. list = << >>
  <2>1. 1 .. Edits!Cardinality(kept) = {}
    BY <1>2
  <2> QED BY <2>1
<1>5. Edits!NormalizeHosts(<< >>) =
        IF bad THEN [ok |-> FALSE, hosts |-> << >>] ELSE [ok |-> TRUE, hosts |-> list]
  BY Zenon DEF Edits!NormalizeHosts
<1> HIDE DEF bad, list
<1> QED BY <1>3, <1>4, <1>5

(* A complete profile comes out of the dialog as it went in. *)
LEMMA CompleteSurvives ==
    ASSUME NEW c, Complete(c), Editable(c)
    PROVE  SurvivesEditing(c)
<1> DEFINE dns == IF c.dns = {} THEN "" ELSE "some"
           domain == IF c.domain = "bad host" THEN "bad" ELSE c.domain
           config == [name |-> c.name, login |-> c.login, cipher |-> c.ike_enc,
                      free |-> c.gateway, dns |-> dns, domain |-> domain]
           e == Edits!FromConfig(config, << >>)
<1>1. View(c) = config
  BY DEF View
<1>2. /\ e.name = c.name /\ e.user_auth = (c.login # NoLogin) /\ e.cipher = c.ike_enc
      /\ e.free = c.gateway /\ e.dns = dns /\ e.domain = domain /\ e.hosts = << >>
  BY DEF Edits!FromConfig
<1>fits. /\ c.name \notin {Edits!Blank, "bad"} /\ domain # "bad"
         /\ c.domain # Edits!Blank => c.dns # {}
  <2>1. View(c).domain = domain
    <3> HIDE DEF dns, domain
    <3>1. config.domain = domain
      OBVIOUS
    <3> HIDE DEF config
    <3> QED BY <1>1, <3>1
  <2> HIDE DEF domain
  <2> QED BY <2>1, Zenon DEF Editable
<1>3. Edits!FieldsStand(e)
  <2>1. e.cipher # "bad" /\ e.domain # "bad"
    BY <1>2, <1>fits DEF Complete, Ciphers
  <2>2. e.dns # "bad"
    BY <1>2
  <2>3. e.domain = Edits!Blank \/ e.dns # Edits!Blank
    <3>1. c.dns # {} => e.dns # Edits!Blank
      BY <1>2 DEF Edits!Blank
    <3>2. c.domain = Edits!Blank => domain = Edits!Blank
      BY DEF Edits!Blank
    <3> HIDE DEF e, domain
    <3> QED BY <1>2, <1>fits, <3>1, <3>2, Zenon
  <2> HIDE DEF e
  <2> QED BY <2>1, <2>2, <2>3 DEF Edits!FieldsStand
<1>4. Edits!LoginOf(e, config) = c.login
  BY <1>2 DEF Edits!LoginOf
<1>5. Edits!ApplyTo(e, config) = [ok |-> TRUE, config |-> config]
  <2>1. Edits!NormalizeHosts(e.hosts).ok = TRUE
    <3>1. [ok |-> TRUE, hosts |-> << >>].ok = TRUE
      OBVIOUS
    <3> HIDE DEF e
    <3> QED BY <1>2, <3>1, NoHosts, Zenon
  <2>2. [config EXCEPT !.name = e.name, !.login = Edits!LoginOf(e, config),
                       !.cipher = e.cipher, !.free = e.free, !.dns = e.dns,
                       !.domain = e.domain] = config
    <3>1. [config EXCEPT !.name = c.name, !.login = c.login, !.cipher = c.ike_enc,
                         !.free = c.gateway, !.dns = dns, !.domain = domain] = config
      <4>1. PICK r : r = config
        OBVIOUS
      <4>2. r \in [name : {c.name}, login : {c.login}, cipher : {c.ike_enc},
                   free : {c.gateway}, dns : {dns}, domain : {domain}]
        BY <4>1
      <4> HIDE DEF config, dns, domain
      <4>3. [r EXCEPT !.name = c.name, !.login = c.login, !.cipher = c.ike_enc,
                      !.free = c.gateway, !.dns = dns, !.domain = domain] = r
        BY <4>2
      <4> QED BY <4>1, <4>3, Zenon
    <3> HIDE DEF e, dns, domain, config
    <3> QED BY <1>2, <1>4, <3>1, Zenon
  <2>3. e.name \notin {Edits!Blank, "bad"}
    <3> HIDE DEF e, dns, domain
    <3> QED BY <1>2, <1>fits, Zenon
  <2> HIDE DEF e, config
  <2> QED BY <1>3, <2>1, <2>2, <2>3 DEF Edits!ApplyTo
<1>6. Edits!Saved(e, config, << >>) = [ok |-> TRUE, over |-> Edits!Diff(e, e)]
  <2>1. Edits!NormalizeHosts(e.hosts).hosts = << >>
    <3>1. [ok |-> TRUE, hosts |-> << >>].hosts = << >>
      OBVIOUS
    <3> HIDE DEF e
    <3> QED BY <1>2, <3>1, NoHosts, Zenon
  <2>2. Edits!ApplyTo(e, config).ok = TRUE /\ Edits!ApplyTo(e, config).config = config
    <3> HIDE DEF e, config
    <3> QED BY <1>5
  <2>3. Edits!FromConfig(Edits!ApplyTo(e, config).config, Edits!NormalizeHosts(e.hosts).hosts) = e
    BY <2>1, <2>2
  <2>4. Edits!FromConfig(config, << >>) = e
    OBVIOUS
  <2> HIDE DEF e, config
  <2> QED BY <2>2, <2>3, <2>4 DEF Edits!Saved
<1>7. Edits!Diff(e, e) = Edits!NoOverrides
  BY DEF Edits!Diff, Edits!NoOverrides
<1>8. Untouched(c) = [ok |-> TRUE, over |-> Edits!NoOverrides]
  BY <1>1, <1>6, <1>7 DEF Untouched
<1> HIDE DEF e, config, dns, domain
<1>9. Edits!ApplyTo(Edits!FromConfig(View(c), << >>), View(c)).config = View(c)
  BY <1>1, <1>5 DEF e
<1> QED BY <1>8, <1>9 DEF SurvivesEditing, Complete, Legible

(* A profile the dialog cannot take is not saved. *)
LEMMA OthersRefused ==
    ASSUME NEW c, ~Editable(c)
    PROVE  ~Untouched(c).ok
<1> DEFINE dns == IF c.dns = {} THEN "" ELSE "some"
           domain == IF c.domain = "bad host" THEN "bad" ELSE c.domain
           config == [name |-> c.name, login |-> c.login, cipher |-> c.ike_enc,
                      free |-> c.gateway, dns |-> dns, domain |-> domain]
           e == Edits!FromConfig(config, << >>)
<1>1. View(c) = config
  BY DEF View
<1>2. e.name = c.name /\ e.dns = dns /\ e.domain = domain
  BY DEF Edits!FromConfig
<1>3. c.name \in {Edits!Blank, "bad"} \/ domain = "bad" \/ (c.domain # Edits!Blank /\ c.dns = {})
  <2>1. View(c).domain = domain
    <3> HIDE DEF dns, domain
    <3>1. config.domain = domain
      OBVIOUS
    <3> HIDE DEF config
    <3> QED BY <1>1, <3>1
  <2> HIDE DEF domain
  <2> QED BY <2>1, Zenon DEF Editable
<1>4. e.name \in {Edits!Blank, "bad"} \/ ~Edits!FieldsStand(e)
  <2>1. CASE c.name \in {Edits!Blank, "bad"}
    <3> HIDE DEF e
    <3> QED BY <1>2, <2>1, Zenon
  <2>2. CASE domain = "bad"
    BY <1>2, <2>2 DEF Edits!FieldsStand
  <2>3. CASE domain # "bad" /\ c.domain # Edits!Blank /\ c.dns = {}
    <3>1. e.dns = Edits!Blank
      BY <1>2, <2>3 DEF Edits!Blank
    <3>2. e.domain = c.domain
      BY <1>2, <2>3
    <3> HIDE DEF e
    <3> QED BY <2>3, <3>1, <3>2, Zenon DEF Edits!FieldsStand
  <2> QED BY <1>3, <2>1, <2>2, <2>3
<1> HIDE DEF e, config, dns, domain
<1>5. ~Edits!ApplyTo(e, config).ok
  BY <1>4 DEF Edits!ApplyTo
<1>6. Untouched(c).ok = Edits!ApplyTo(e, config).ok
  BY <1>1 DEF Untouched, Edits!Saved, e
<1> QED BY <1>5, <1>6

\* A profile just imported, of a file of any contents, opens in the edit dialog,
\* and saved as it stands nothing is changed and nothing left behind, unless the
\* dialog takes no such name or domain, or the domain has no server: then, and
\* only then, the save is refused.
THEOREM ImportsSurviveEditing == IntakeSpec => []ImportSurvivesEditing
<1>1. ASSUME IntakeInv PROVE ImportSurvivesEditing
  <2> SUFFICES ASSUME work.kind = "import", work.result.ok
               PROVE  LET c == work.result.config
                      IN  IF Editable(c) THEN SurvivesEditing(c) ELSE ~Untouched(c).ok
    BY DEF ImportSurvivesEditing
  <2>1. Sound(work.result)
    BY <1>1 DEF IntakeInv, NoWork
  <2>2. PICK c : c = work.result.config
    OBVIOUS
  <2>3. Complete(c)
    BY <2>1, <2>2 DEF Sound
  <2> QED BY <2>2, <2>3, CompleteSurvives, OthersRefused
<1> QED BY <1>1, ImportsAreWhole, PTL
==============================================================================
