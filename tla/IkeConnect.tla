----------------------------- MODULE IkeConnect -----------------------------
(***************************************************************************)
(* Bringing IPsec connections up and down: the window's button and status  *)
(* poll (index.html), the backend's connect and disconnect with the        *)
(* learned IKE version (backend.rs), and the exchange with charon and its  *)
(* fallback to the other version (vpn-control), against charon and the     *)
(* gateways as these use them.                                             *)
(*                                                                         *)
(* A command runs on a thread of its own and sees charon only through one  *)
(* request at a time; a request takes effect in one step, and the window   *)
(* takes a command's answer as it is given.  A profile stands for its      *)
(* connection's name.  No IKE version is set by hand.                      *)
(***************************************************************************)
EXTENDS Naturals, FiniteSets

CONSTANTS
    Profiles, NoProfile,
    Nets,       \* the remote networks of each profile
    Full,       \* the profiles whose network is the default route
    Stated,     \* the IKE version each profile states
    Jobs,       \* bound: the commands that may run at once
    TTL,        \* LEARNED_VERSION_TTL
    Settings    \* the circumstances checked

Upsets == {"cancel",    \* connects are cancelled, and commands then overlap
           "parallel",  \* commands of several profiles run at once
           "drops",     \* tunnels and single networks are lost
           "redials",   \* charon brings a lost tunnel up again by itself
           "dies",      \* charon dies
           "fails",     \* requests fail, gateways are out of reach
           "unresolved", \* DNS cannot be applied, or not be taken back
           "refuses",   \* a gateway accepts the login but not a network
           "typos",     \* the login is wrong
           "changes",   \* gateways change the versions they speak
           "time"}      \* learned versions grow old

Versions == {1, 2}

ASSUME IkeAssumption ==
    /\ NoProfile \notin Profiles /\ Full \subseteq Profiles
    /\ Stated \in [Profiles -> Versions]
    /\ \A p \in Profiles : Nets[p] # {}
    /\ TTL \in Nat \ {0}
    /\ \A s \in Settings : s.users \subseteq Profiles /\ s.upsets \subseteq Upsets

VARIABLES
    shown,      \* state[id] in the window
    job,        \* the commands that run
    poll,       \* the status poll: what it found live, before reconcile
    daemon,     \* whether charon runs
    conn,       \* the version each connection is loaded at, 0 if it is not
    ike,        \* the versions of each connection's established IKE_SAs
    sa,         \* how many CHILD_SAs each network has
    redial,     \* connections charon is about to bring up by itself
    dns,        \* the connections whose DNS is applied
    learned,    \* each .ikever file: its version, 0 without one, and its age
    gateway,    \* the versions each gateway speaks
    quiet,      \* the user and the world have come to rest
    setting

charon == <<daemon, conn, ike, sa, redial>>
window == <<shown, poll>>
files  == <<dns, learned>>
world  == <<gateway, quiet, setting>>
vars   == <<shown, job, poll, daemon, conn, ike, sa, redial, dns, learned,
            gateway, quiet, setting>>

Usual(u) == u \in setting.upsets
May(u) == Usual(u) /\ ~quiet

(***************************************************************************)
(* A command: its profile, where it is, the version it is trying and       *)
(* whether that is the fallback, the children not yet asked for, whether   *)
(* one came up, what the transcript said, whether the login is right, how  *)
(* often each version answered with a rejection, and whether the gateway   *)
(* changed under it.                                                       *)
(***************************************************************************)
Connecting == {"daemon", "learn", "full", "adopt", "load", "dial", "rest",
               "judge", "remember", "wait", "resolve"}
Ending == {"revert", "terminate", "unload"}
Idle == [at |-> "idle", prof |-> NoProfile, ver |-> 0, alt |-> FALSE, todo |-> {},
         up |-> FALSE, saw |-> {}, good |-> TRUE, rejected |-> [v \in Versions |-> 0],
         moved |-> FALSE]

On(p) == {j \in Jobs : job[j].prof = p}
Nothing == [ver |-> 0, age |-> 0]
Silent(p) == [n \in Nets[p] |-> 0]

Init ==
    /\ setting \in Settings
    /\ shown = [p \in Profiles |-> "disconnected"]
    /\ job = [j \in Jobs |-> Idle]
    /\ poll = [busy |-> FALSE, live |-> {}]
    /\ daemon = TRUE
    /\ conn = [p \in Profiles |-> 0]
    /\ ike = [p \in Profiles |-> {}]
    /\ sa = [p \in Profiles |-> Silent(p)]
    /\ redial = {}
    /\ dns = {}
    /\ learned = [p \in Profiles |-> Nothing]
    /\ gateway \in [Profiles -> SUBSET Versions]
    /\ \A p \in Profiles \ setting.users : gateway[p] = {}
    /\ quiet = FALSE

(* A definition named X_Something is X with a plausible bug, kept to show   *)
(* which property notices it; the specification never uses one.            *)

-----------------------------------------------------------------------------
(* The button.                                                             *)

Begin(p, how, first) ==
    /\ ~quiet /\ p \in setting.users
    /\ \A j \in Jobs : job[j].prof \in {NoProfile, p} \/ Usual("parallel")
    /\ shown' = [shown EXCEPT ![p] = how]
    /\ On(NoProfile) # {}
    /\ job' = [job EXCEPT ![CHOOSE j \in Jobs : job[j].prof = NoProfile] = first]
    /\ UNCHANGED <<poll, charon, files, world>>

ClickConnect(p) ==
    /\ shown[p] = "disconnected"
    /\ \E right \in BOOLEAN :
          /\ right \/ Usual("typos")
          /\ Begin(p, "connecting",
                   [Idle EXCEPT !.at = "daemon", !.prof = p, !.good = right])

ClickDisconnect(p) ==
    /\ shown[p] = "established"
    /\ Begin(p, "disconnecting", [Idle EXCEPT !.at = "revert", !.prof = p])

(* The backend does not hear of it.                                        *)
ClickCancel(p) ==
    /\ May("cancel") /\ shown[p] = "connecting"
    /\ shown' = [shown EXCEPT ![p] = "disconnected"]
    /\ UNCHANGED <<job, poll, charon, files, world>>

(* A command ends, and the window shows how.                               *)
Answer(j, how) ==
    /\ shown' = [shown EXCEPT ![job[j].prof] = how]
    /\ job' = [job EXCEPT ![j] = Idle]

Goes(j, there) == /\ job' = [job EXCEPT ![j].at = there]
                  /\ UNCHANGED shown

-----------------------------------------------------------------------------
(* The connect command, before it turns to the gateway.                    *)

EnsureDaemon(j) ==
    /\ job[j].at = "daemon"
    /\ \/ daemon' = TRUE /\ Goes(j, "learn")
       \/ ~daemon /\ Answer(j, "disconnected") /\ UNCHANGED daemon
    /\ UNCHANGED <<poll, conn, ike, sa, redial, files, world>>

(* What an .ikever file says; an expired one is removed by the reader.     *)
Fresh(p) == IF learned[p].age >= TTL THEN Nothing ELSE learned[p]

Learn(j) ==
    LET p == job[j].prof
        v == Fresh(p).ver
    IN  /\ job[j].at = "learn"
        /\ learned' = [learned EXCEPT ![p] = Fresh(p)]
        /\ job' = [job EXCEPT ![j] =
                      [@ EXCEPT !.at = "full",
                                !.ver = IF v = 0 THEN Stated[p] ELSE v]]
        /\ UNCHANGED <<window, charon, dns, world>>

(* What a status request can find.  One that fails finds nothing.          *)
Carried(p) == \E n \in Nets[p] : sa[p][n] > 0
Unseen == ~daemon \/ May("fails")

CheckFull_Skipped(j) ==
    /\ job[j].at = "full"
    /\ Goes(j, "adopt")
    /\ UNCHANGED <<poll, charon, files, world>>

Rivals(p) == {q \in Full \ {p} : p \in Full /\ Carried(q)}

CheckFull(j) ==
    /\ job[j].at = "full"
    /\ \/ Rivals(job[j].prof) # {} /\ Answer(j, "disconnected")
       \/ (Rivals(job[j].prof) = {} \/ Unseen) /\ Goes(j, "adopt")
    /\ UNCHANGED <<poll, charon, files, world>>

Established(p) == ike[p] # {} /\ Carried(p)

Adopt_Never(j) ==
    /\ job[j].at = "adopt"
    /\ Goes(j, "load")
    /\ UNCHANGED <<poll, charon, files, world>>

Adopt(j) ==
    /\ job[j].at = "adopt"
    /\ \/ Established(job[j].prof) /\ Goes(j, "wait")
       \/ (~Established(job[j].prof) \/ Unseen) /\ Goes(j, "load")
    /\ UNCHANGED <<poll, charon, files, world>>

-----------------------------------------------------------------------------
(* connect_logged.                                                         *)

(* Under IKEv1 every network is a child of its own.                        *)
Children(p, v) == IF v = 1 THEN {{n} : n \in Nets[p]} ELSE {Nets[p]}

(* load-conn, then load-shared, which may fail where the first did not.    *)
Load(j) ==
    LET p == job[j].prof
        v == job[j].ver
    IN  /\ job[j].at = "load"
        /\ \/ /\ daemon
              /\ conn' = [conn EXCEPT ![p] = v]
              /\ job' = [job EXCEPT ![j] =
                            [@ EXCEPT !.at = "dial", !.todo = Children(p, v)]]
              /\ UNCHANGED shown
           \/ /\ Unseen
              /\ conn' = conn \/ (daemon /\ conn' = [conn EXCEPT ![p] = v])
              /\ Answer(j, "disconnected")
        /\ UNCHANGED <<poll, daemon, ike, sa, redial, files, world>>

(* One more CHILD_SA for each network of c; two are as bad as three.       *)
More(p, c) == [n \in Nets[p] |-> IF n \in c /\ sa[p][n] < 2 THEN sa[p][n] + 1 ELSE sa[p][n]]

Words == {"up", "noprop", "rejected", "failed"}

(***************************************************************************)
(* charon initiates child c: over the IKE_SA it has, or by opening one,    *)
(* which takes a login.  The word is "up", or what the transcript says of  *)
(* the failure.                                                            *)
(***************************************************************************)
Initiate(j, c, word) ==
    LET p == job[j].prof
        v == conn[p]
    IN  \/ /\ v = 0 \/ May("fails")
           /\ word = "failed"
           /\ UNCHANGED <<ike, sa>>
        \/ /\ v # 0 /\ v \notin ike[p] \cup gateway[p]
           /\ word = "noprop"
           /\ UNCHANGED <<ike, sa>>
        \/ /\ v \in gateway[p] \ ike[p] /\ ~job[j].good
           /\ word = "rejected"
           /\ UNCHANGED <<ike, sa>>
        \/ /\ v \in ike[p] \/ (v \in gateway[p] /\ job[j].good)
           /\ ike' = [ike EXCEPT ![p] = @ \cup {v}]
           /\ \/ word = "up" /\ sa' = [sa EXCEPT ![p] = More(p, c)]
              \/ May("refuses") /\ word \in {"noprop", "failed"} /\ UNCHANGED sa

OneMore(j) == [job[j].rejected EXCEPT ![conn[job[j].prof]] = @ + 1]

Noted(j, c, word) ==
    [job[j] EXCEPT !.todo = @ \ {c}, !.up = @ \/ word = "up", !.saw = @ \cup {word},
                   !.rejected = IF word = "rejected" THEN OneMore(j) ELSE @]

Dial_TriesOn(j) ==
    /\ job[j].at = "dial" /\ daemon
    /\ \E c \in job[j].todo, word \in Words :
          /\ Initiate(j, c, word)
          /\ LET now == Noted(j, c, word)
             IN  job' = [job EXCEPT ![j] =
                    [now EXCEPT !.at = IF now.todo = {} THEN "judge"
                                       ELSE IF word = "up" THEN "rest" ELSE "dial"]]
    /\ UNCHANGED <<window, daemon, conn, redial, files, world>>

(* One child at a time until one is up.  A rejected login ends it.         *)
Dial(j) ==
    /\ job[j].at = "dial" /\ daemon
    /\ \E c \in job[j].todo, word \in Words :
          /\ Initiate(j, c, word)
          /\ LET now == Noted(j, c, word)
             IN  job' = [job EXCEPT ![j] =
                    [now EXCEPT !.at = IF now.todo = {} \/ word = "rejected" THEN "judge"
                                       ELSE IF word = "up" THEN "rest" ELSE "dial"]]
    /\ UNCHANGED <<window, daemon, conn, redial, files, world>>

DialLost(j) ==
    /\ job[j].at = "dial" /\ ~daemon
    /\ Answer(j, "disconnected")
    /\ UNCHANGED <<poll, charon, files, world>>

(* The children left, all at once; their transcripts are not collected.    *)
InitiateTogether(j) ==
    /\ job[j].at = "rest"
    /\ \E c \in job[j].todo, word \in Words :
          /\ \/ daemon /\ Initiate(j, c, word)
             \/ ~daemon /\ word = "failed" /\ UNCHANGED <<ike, sa>>
          /\ LET now == [Noted(j, c, word) EXCEPT !.saw = job[j].saw]
             IN  job' = [job EXCEPT ![j] =
                           [now EXCEPT !.at = IF now.todo = {} THEN "judge" ELSE "rest"]]
    /\ UNCHANGED <<window, daemon, conn, redial, files, world>>

Other(v) == 3 - v

FallsBack_FromStated(j) ==
    /\ ~job[j].up /\ "noprop" \in job[j].saw /\ ~job[j].alt
    /\ job[j].ver = Stated[job[j].prof]

FallsBack(j) == ~job[j].up /\ "noprop" \in job[j].saw /\ ~job[j].alt

Judge(j) ==
    /\ job[j].at = "judge"
    /\ \/ /\ job[j].up /\ Goes(j, "remember")
       \/ /\ FallsBack(j)
          /\ job' = [job EXCEPT ![j] =
                        [@ EXCEPT !.at = "load", !.alt = TRUE, !.saw = {},
                                  !.ver = Other(job[j].ver)]]
          /\ UNCHANGED shown
       \/ /\ ~job[j].up /\ ~FallsBack(j) /\ Answer(j, "disconnected")
    /\ UNCHANGED <<poll, charon, files, world>>

-----------------------------------------------------------------------------
(* The connect command, after the tunnel is up.                            *)

(* The file's age is how long ago the version was learned.                 *)
Remember(j) ==
    LET p == job[j].prof
        v == job[j].ver
    IN  /\ job[j].at = "remember"
        /\ learned' = [learned EXCEPT ![p] =
                         IF v = Stated[p] THEN Nothing
                         ELSE IF Fresh(p).ver # v THEN [ver |-> v, age |-> 0]
                         ELSE @]
        /\ Goes(j, "wait")
        /\ UNCHANGED <<poll, charon, dns, world>>

(* Until the virtual IP is usable, and 20 s at most; then an adopted       *)
(* tunnel is done.                                                         *)
AwaitVip(j) ==
    /\ job[j].at = "wait"
    /\ IF job[j].up THEN Goes(j, "resolve") ELSE Answer(j, "established")
    /\ UNCHANGED <<poll, charon, files, world>>

(* DNS that fails fails nothing else.                                      *)
ApplyDns(j) ==
    /\ job[j].at = "resolve"
    /\ \/ dns' = dns \cup {job[j].prof}
       \/ May("unresolved") /\ UNCHANGED dns
    /\ Answer(j, "established")
    /\ UNCHANGED <<poll, charon, learned, world>>

-----------------------------------------------------------------------------
(* The disconnect command.                                                 *)

RevertDns_Skipped(j) ==
    /\ job[j].at = "revert"
    /\ Goes(j, "terminate")
    /\ UNCHANGED <<poll, charon, files, world>>

RevertDns(j) ==
    /\ job[j].at = "revert"
    /\ \/ dns' = dns \ {job[j].prof}
       \/ May("unresolved") /\ UNCHANGED dns
    /\ Goes(j, "terminate")
    /\ UNCHANGED <<poll, charon, learned, world>>

Terminate(j) ==
    LET p == job[j].prof IN
    /\ job[j].at = "terminate"
    /\ \/ /\ daemon
          /\ ike' = [ike EXCEPT ![p] = {}] /\ sa' = [sa EXCEPT ![p] = Silent(p)]
          /\ redial' = redial \ {p}
          /\ Goes(j, "unload")
       \/ /\ daemon /\ May("fails") /\ Goes(j, "unload") /\ UNCHANGED <<ike, sa, redial>>
       \/ /\ Unseen /\ Answer(j, "disconnected") /\ UNCHANGED <<ike, sa, redial>>
    /\ UNCHANGED <<poll, daemon, conn, files, world>>

Unload(j) ==
    /\ job[j].at = "unload"
    /\ conn' = [conn EXCEPT ![job[j].prof] = 0]
    /\ Answer(j, "disconnected")
    /\ UNCHANGED <<poll, daemon, ike, sa, redial, files, world>>

-----------------------------------------------------------------------------
(* The status poll.  charon lists an IKE_SA that is still connecting too.  *)

PollRead ==
    LET dialing == redial \cup {p \in Profiles : \E j \in On(p) : job[j].at = "dial"}
    IN  /\ ~poll.busy
        /\ \/ /\ daemon
              /\ \E also \in SUBSET dialing :
                    poll' = [busy |-> TRUE, live |-> also \cup {p \in Profiles : ike[p] # {}}]
           \/ Unseen /\ UNCHANGED poll
        /\ UNCHANGED <<shown, job, charon, files, world>>

Reconcile_OnlyDown ==
    /\ poll.busy
    /\ shown' = [p \in Profiles |-> IF shown[p] = "established" /\ p \notin poll.live
                                    THEN "disconnected" ELSE shown[p]]
    /\ poll' = [busy |-> FALSE, live |-> {}]
    /\ UNCHANGED <<job, charon, files, world>>

Reconcile ==
    /\ poll.busy
    /\ shown' = [p \in Profiles |->
                   CASE shown[p] \in {"connecting", "disconnecting"} -> shown[p]
                     [] OTHER -> IF p \in poll.live THEN "established" ELSE "disconnected"]
    /\ poll' = [busy |-> FALSE, live |-> {}]
    /\ UNCHANGED <<job, charon, files, world>>

-----------------------------------------------------------------------------
(* charon, the gateways and time.                                          *)

Drop(p) ==
    /\ May("drops") /\ ike[p] # {}
    /\ \/ /\ ike' = [ike EXCEPT ![p] = {}] /\ sa' = [sa EXCEPT ![p] = Silent(p)]
          /\ redial' = IF Usual("redials") THEN redial \cup {p} ELSE redial
       \/ /\ \E n \in Nets[p] : sa' = [sa EXCEPT ![p][n] = 0]
          /\ UNCHANGED <<ike, redial>>
    /\ UNCHANGED <<window, job, daemon, conn, files, world>>

Redial(p) ==
    /\ p \in redial /\ ~quiet
    /\ redial' = redial \ {p}
    /\ IF conn[p] \in gateway[p]
       THEN ike' = [ike EXCEPT ![p] = @ \cup {conn[p]}] /\ sa' = [sa EXCEPT ![p] = More(p, Nets[p])]
       ELSE UNCHANGED <<ike, sa>>
    /\ UNCHANGED <<window, job, daemon, conn, files, world>>

CharonDies ==
    /\ May("dies") /\ daemon
    /\ daemon' = FALSE
    /\ conn' = [p \in Profiles |-> 0] /\ ike' = [p \in Profiles |-> {}]
    /\ sa' = [p \in Profiles |-> Silent(p)] /\ redial' = {}
    /\ UNCHANGED <<window, job, files, world>>

GatewayChanges(p) ==
    /\ May("changes")
    /\ \E S \in SUBSET Versions : gateway' = [gateway EXCEPT ![p] = S]
    /\ job' = [j \in Jobs |-> IF job[j].prof = p THEN [job[j] EXCEPT !.moved = TRUE] ELSE job[j]]
    /\ UNCHANGED <<window, charon, files, quiet, setting>>

(* Ages beyond the TTL are all alike.                                      *)
Tick ==
    /\ May("time")
    /\ learned' = [p \in Profiles |->
                     IF learned[p].ver # 0 /\ learned[p].age < TTL
                     THEN [learned[p] EXCEPT !.age = @ + 1] ELSE learned[p]]
    /\ UNCHANGED <<window, job, charon, dns, world>>

ComeToRest ==
    /\ ~quiet
    /\ quiet' = TRUE
    /\ UNCHANGED <<window, job, charon, files, gateway, setting>>

-----------------------------------------------------------------------------

Command(j) ==
    \/ EnsureDaemon(j) \/ Learn(j) \/ CheckFull(j) \/ Adopt(j)
    \/ Load(j) \/ Dial(j) \/ DialLost(j) \/ InitiateTogether(j) \/ Judge(j)
    \/ Remember(j) \/ AwaitVip(j) \/ ApplyDns(j)
    \/ RevertDns(j) \/ Terminate(j) \/ Unload(j)

Next ==
    \/ \E p \in Profiles : ClickConnect(p) \/ ClickDisconnect(p) \/ ClickCancel(p)
    \/ \E j \in Jobs : Command(j)
    \/ PollRead \/ Reconcile
    \/ \E p \in Profiles : Drop(p) \/ Redial(p) \/ GatewayChanges(p)
    \/ CharonDies \/ Tick \/ ComeToRest

Spec == Init /\ [][Next]_vars

(***************************************************************************)
(* A command runs on (charon answers or gives up, every wait has a         *)
(* deadline) and the window keeps polling.  Clicks, losses, time and rest  *)
(* are not owed.                                                           *)
(***************************************************************************)
Fairness ==
    /\ \A j \in Jobs : WF_vars(Command(j))
    /\ WF_vars(PollRead) /\ WF_vars(Reconcile)

FairSpec == Spec /\ Fairness

-----------------------------------------------------------------------------
(* Properties.                                                             *)

Calm(S) == setting.upsets \cap S = {}

(***************************************************************************)
(* Types; a command at work belongs to a profile; a learned version is     *)
(* never the profile's own; and a network has SAs only under an IKE_SA.    *)
(***************************************************************************)
TypeOK ==
    /\ setting \in Settings /\ quiet \in BOOLEAN /\ daemon \in BOOLEAN
    /\ shown \in [Profiles -> {"disconnected", "connecting", "established", "disconnecting"}]
    /\ \A j \in Jobs :
          /\ job[j].at \in Connecting \cup Ending \cup {"idle"}
          /\ job[j].at = "idle" <=> job[j].prof = NoProfile
          /\ job[j].at \in {"dial", "rest"} => job[j].todo # {}
          /\ job[j].at \in {"rest", "remember", "resolve"} => job[j].up
    /\ poll.live \subseteq Profiles /\ dns \subseteq Profiles /\ redial \subseteq Profiles
    /\ \A p \in Profiles :
          /\ conn[p] \in Versions \cup {0} /\ ike[p] \subseteq Versions
          /\ sa[p] \in [Nets[p] -> 0 .. 2] /\ (Carried(p) => ike[p] # {})
          /\ learned[p].ver \in {0, 3 - Stated[p]} /\ learned[p].age \in 0 .. TTL
          /\ shown[p] \in {"connecting", "disconnecting"} => On(p) # {}

(***************************************************************************)
(* No network is negotiated twice (backend.rs:1094-1098: SAs "stack up",   *)
(* "so adopt the live SA instead of initiating over it"), whatever is lost *)
(* or refused and at whichever versions it was tried, unless a cancelled   *)
(* connect still runs, charon redials by itself or the status request that *)
(* would have shown the tunnel fails.                                      *)
(***************************************************************************)
NoDoubledNetwork ==
    Calm({"cancel", "redials", "fails"}) => \A p \in Profiles : \A n \in Nets[p] : sa[p][n] <= 1

(***************************************************************************)
(* There is one default route: two full tunnels are never up together      *)
(* (backend.rs:1083-1085), if connects do not overlap.                     *)
(***************************************************************************)
OneFullTunnel ==
    Calm({"parallel", "cancel", "redials", "fails"}) =>
       \A p, q \in Full : Carried(p) /\ Carried(q) => p = q

(***************************************************************************)
(* One click costs at most one rejected login, because gateways lock       *)
(* accounts (lib.rs:631-637): not one per network, and none for the        *)
(* fallback.  A gateway that changes during the connect, or refuses a      *)
(* network of a login it accepted, may cost one for each version; a tunnel *)
(* lost while the networks after the first are asked for all at once may   *)
(* cost one for each of these, which lib.rs:588-589 takes to be free       *)
(* ("nothing below can cost another login").                               *)
(***************************************************************************)
OneRejectedLogin ==
    \A j \in Jobs :
       LET r == job[j].rejected
       IN  Calm({"cancel"}) /\ (Calm({"drops"}) \/ ~job[j].up) =>
              /\ r[1] <= 1 /\ r[2] <= 1
              /\ Calm({"refuses"}) /\ ~job[j].moved => r[1] + r[2] <= 1

(***************************************************************************)
(* A connect with the right login to a gateway within reach that speaks    *)
(* either version comes up within one click, whatever version was learned  *)
(* from the gateway as it used to be.                                      *)
(***************************************************************************)
EitherVersionConnects ==
    [][\A p \in Profiles : \A j \in On(p) :
          /\ job[j].good /\ gateway[p] # {} /\ ~job[j].moved
          /\ Calm({"cancel", "fails", "refuses", "dies"})
          => ~(job[j].at = "judge" /\ job'[j].at = "idle")]_vars

(***************************************************************************)
(* DNS that points into a tunnel goes before the tunnel does: a disconnect *)
(* that terminates or unloads has taken the DNS of its profile back, also  *)
(* one that then fails or finds charon dead (backend.rs:1680-1684).  And   *)
(* when no command of a profile runs, its DNS is applied only if it is up, *)
(* also after connects and disconnects that failed at any request.  Both   *)
(* except DNS changes that fail themselves and commands that overlap after *)
(* a cancel; the second also tunnels that are lost and a charon that dies, *)
(* after which the code takes no DNS back.                                 *)
(***************************************************************************)
DnsWithTunnel ==
    /\ Calm({"cancel", "unresolved"}) =>
          \A j \in Jobs : job[j].at \in {"terminate", "unload"} => job[j].prof \notin dns
    /\ Calm({"cancel", "unresolved", "drops", "dies"}) =>
          \A p \in dns : On(p) = {} => Carried(p)

(***************************************************************************)
(* Once user and world are at rest, what the window shows becomes, and     *)
(* stays, what charon has (index.html:2197-2202), also after a cancelled   *)
(* connect that came up, answers in any order and a poll overtaken by      *)
(* them; as long as charon itself is there to ask.                         *)
(***************************************************************************)
ShownBecomesTrue ==
    Calm({"dies", "redials"}) =>
       (quiet ~> [](\A p \in Profiles :
                       shown[p] = IF ike[p] # {} THEN "established" ELSE "disconnected"))
=============================================================================
