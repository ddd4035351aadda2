---------------------------- MODULE OpenvpnDrive ----------------------------
(***************************************************************************)
(* The dialogue by which the broker gets one openvpn process connected:    *)
(* drive (openvpn.rs), a single loop that reads lines from the management  *)
(* socket and sends commands into it, against openvpn itself, which is     *)
(* modelled from what drive's code and comments expect of it.              *)
(*                                                                         *)
(* A line and a command are the things drive tells apart.  The gateway     *)
(* pushes a full tunnel (its redirect-gateway), or a split one with a DNS  *)
(* domain or without.                                                      *)
(***************************************************************************)
EXTENDS Naturals, Sequences

CONSTANTS
    Restarts,    \* bound: how often openvpn restarts its connection
    MayReject,   \* whether openvpn may refuse a command
    MayFail,     \* whether openvpn may give up, be refused the login, or die
    MayTimeout   \* whether CONNECT_TIMEOUT may pass

ASSUME DriveAssumption ==
    /\ {MayReject, MayFail, MayTimeout} \subseteq BOOLEAN
    /\ Restarts \in Nat

VARIABLES
    pc,         \* drive's loop: "top", "lines", "send", "read", "end"
    result,     \* "going", "up", or how the connect failed
    setupNext, awaitingAck, pushed, spoken,
                \* drive's locals; spoken is `!recent.is_empty()`
    rbuf,       \* lines read and not consumed
    lines,      \* lines in the socket towards drive
    cmds,       \* commands in the socket towards openvpn
    ovpn,       \* openvpn: "deaf", "held", "dialing", "pushed", "routed",
                \* "connected", "exited"
    holdDue,    \* whether openvpn has yet to announce its hold
    logging,    \* whether `log on` and `state on` have been executed
    reply,      \* the gateway's last push, "none" before
    restarts,
    carried,    \* history: the push of the first connection that came up
    allowFull   \* the request's allow_full

drive == <<pc, result, setupNext, awaitingAck, pushed, spoken, rbuf, allowFull>>
process == <<ovpn, holdDue, logging, reply, restarts, carried, allowFull>>
vars == <<pc, result, setupNext, awaitingAck, pushed, spoken, rbuf, lines, cmds,
          ovpn, holdDue, logging, reply, restarts, carried, allowFull>>

Pushes == {"full", "domain", "bare"}
Setup == <<"state on", "log on", "hold release">>
Lines == {"banner", "hold", "success", "error", "connected", "exiting",
          "badlogin", "fatal"} \cup Pushes
Failures == {"timeout", "exited", "rejected", "refused", "gaveUp", "login",
             "fatal", "closed"}

Init ==
    /\ pc = "top" /\ result = "going"
    /\ setupNext = 0 /\ awaitingAck = FALSE /\ pushed = "none" /\ spoken = FALSE
    /\ rbuf = <<>> /\ lines = <<>> /\ cmds = <<>>
    /\ ovpn = "deaf" /\ holdDue = FALSE /\ logging = {} /\ reply = "none"
    /\ restarts = 0 /\ carried = "none"
    /\ allowFull \in BOOLEAN

(* A definition named X_Something is X with a plausible bug, kept to show   *)
(* which property notices it; the specification never uses one.            *)

-----------------------------------------------------------------------------
(* drive                                                                   *)

End(how) == result' = how /\ pc' = "end"

(* The checks made before each round.                                      *)
Top ==
    /\ pc = "top"
    /\ \/ MayTimeout /\ End("timeout")
       \/ ovpn = "exited" /\ End("exited")
       \/ ovpn # "exited" /\ pc' = "lines" /\ UNCHANGED result
    /\ UNCHANGED <<setupNext, awaitingAck, pushed, spoken, rbuf, lines, cmds, process>>

Take == rbuf' = Tail(rbuf) /\ spoken' = TRUE

IsReply(l) == awaitingAck /\ l \in {"success", "error"}

(* The reply to the command in flight.                                     *)
TakeReply ==
    /\ pc = "lines" /\ rbuf # <<>> /\ IsReply(Head(rbuf))
    /\ Take
    /\ IF Head(rbuf) = "error"
       THEN End("rejected") /\ UNCHANGED awaitingAck
       ELSE awaitingAck' = FALSE /\ UNCHANGED <<pc, result>>
    /\ UNCHANGED <<setupNext, pushed, lines, cmds, process>>

TakePush_KeepsFirst ==
    /\ pc = "lines" /\ rbuf # <<>> /\ Head(rbuf) \in Pushes
    /\ Take
    /\ IF Head(rbuf) = "full" /\ ~allowFull
       THEN End("refused") /\ UNCHANGED pushed
       ELSE pushed' = (IF pushed = "none" THEN Head(rbuf) ELSE pushed) /\ UNCHANGED <<pc, result>>
    /\ UNCHANGED <<setupNext, awaitingAck, lines, cmds, process>>

(* parse_push_reply: a full tunnel nobody allowed ends the connect.        *)
TakePush ==
    /\ pc = "lines" /\ rbuf # <<>> /\ Head(rbuf) \in Pushes
    /\ Take
    /\ IF Head(rbuf) = "full" /\ ~allowFull
       THEN End("refused") /\ UNCHANGED pushed
       ELSE pushed' = Head(rbuf) /\ UNCHANGED <<pc, result>>
    /\ UNCHANGED <<setupNext, awaitingAck, lines, cmds, process>>

TakeHold_Ignored ==
    /\ pc = "lines" /\ rbuf # <<>> /\ Head(rbuf) = "hold"
    /\ Take
    /\ UNCHANGED <<pc, result, setupNext, awaitingAck, pushed, lines, cmds, process>>

(* A hold is answered once the set-up is over: the start-up hold is        *)
(* released by the set-up's own last command.                              *)
TakeHold ==
    /\ pc = "lines" /\ rbuf # <<>> /\ Head(rbuf) = "hold"
    /\ Take
    /\ IF setupNext = Len(Setup) /\ ~awaitingAck
       THEN cmds' = Append(cmds, "hold release") /\ awaitingAck' = TRUE
       ELSE UNCHANGED <<cmds, awaitingAck>>
    /\ UNCHANGED <<pc, result, setupNext, pushed, lines, process>>

Ending == [connected |-> "up", exiting |-> "gaveUp", badlogin |-> "login", fatal |-> "fatal"]

TakeEnding ==
    /\ pc = "lines" /\ rbuf # <<>> /\ Head(rbuf) \in DOMAIN Ending
    /\ Take
    /\ End(Ending[Head(rbuf)])
    /\ UNCHANGED <<setupNext, awaitingAck, pushed, lines, cmds, process>>

TakeOther ==
    /\ pc = "lines" /\ rbuf # <<>>
    /\ Head(rbuf) \in {"banner", "success", "error"} /\ ~IsReply(Head(rbuf))
    /\ Take
    /\ UNCHANGED <<pc, result, setupNext, awaitingAck, pushed, lines, cmds, process>>

(* With the lines consumed: the next set-up command, once openvpn has      *)
(* spoken and the command before it has been answered.                     *)
SendSetup ==
    /\ pc = "lines" /\ rbuf = <<>>
    /\ pc' = "read"
    /\ IF setupNext < Len(Setup) /\ ~awaitingAck /\ spoken
       THEN /\ cmds' = Append(cmds, Setup[setupNext + 1])
            /\ setupNext' = setupNext + 1 /\ awaitingAck' = TRUE
       ELSE UNCHANGED <<cmds, setupNext, awaitingAck>>
    /\ UNCHANGED <<result, pushed, spoken, rbuf, lines, process>>

(* One read: some of what has arrived, nothing before the poll timeout, or *)
(* the end of the stream.                                                  *)
Read ==
    /\ pc = "read"
    /\ \/ \E n \in 1 .. Len(lines) :
             /\ rbuf' = SubSeq(lines, 1, n) /\ lines' = SubSeq(lines, n + 1, Len(lines))
             /\ pc' = "top" /\ UNCHANGED result
       \/ lines = <<>> /\ ovpn # "exited" /\ pc' = "top" /\ UNCHANGED <<rbuf, lines, result>>
       \/ lines = <<>> /\ ovpn = "exited" /\ End("closed") /\ UNCHANGED <<rbuf, lines>>
    /\ UNCHANGED <<setupNext, awaitingAck, pushed, spoken, cmds, process>>

(* stop_child after a failed connect: a signal, a grace period, a kill.    *)
StopChild ==
    /\ result \in Failures /\ ovpn # "exited"
    /\ ovpn' = "exited"
    /\ UNCHANGED <<drive, lines, cmds, holdDue, logging, reply, restarts, carried>>

-----------------------------------------------------------------------------
(* openvpn, as drive expects it.                                           *)

Say(l) == lines' = Append(lines, l)

(* It opens the port before it parses commands; what came by then is lost. *)
Wake ==
    /\ ovpn = "deaf"
    /\ ovpn' = "held" /\ holdDue' = TRUE /\ cmds' = <<>>
    /\ Say("banner")
    /\ UNCHANGED <<drive, logging, reply, restarts, carried>>

SayHold ==
    /\ ovpn = "held" /\ holdDue
    /\ holdDue' = FALSE
    /\ Say("hold")
    /\ UNCHANGED <<drive, cmds, ovpn, logging, reply, restarts, carried>>

Execute(c) ==
    /\ logging' = logging \cup ({c} \ {"hold release"})
    /\ ovpn' = IF c = "hold release" /\ ovpn = "held" THEN "dialing" ELSE ovpn

(* One read takes what is there: a single command is executed or refused,  *)
(* a release after the hold was announced; of several it takes the         *)
(* boundary for part of a command.                                         *)
ReadCommands ==
    /\ ovpn \notin {"deaf", "exited"} /\ cmds # <<>>
    /\ cmds = <<"hold release">> => ~holdDue
    /\ cmds' = <<>>
    /\ \/ /\ Say("success")
          /\ IF Len(cmds) = 1 THEN Execute(Head(cmds)) ELSE UNCHANGED <<ovpn, logging>>
       \/ MayReject /\ Say("error") /\ UNCHANGED <<ovpn, logging>>
    /\ UNCHANGED <<drive, holdDue, reply, restarts, carried>>

(* The push is logged, and acted upon without waiting for anybody.         *)
Push ==
    /\ ovpn = "dialing"
    /\ \E p \in Pushes :
          /\ reply' = p
          /\ IF "log on" \in logging THEN Say(p) ELSE UNCHANGED lines
    /\ ovpn' = "pushed"
    /\ UNCHANGED <<drive, cmds, holdDue, logging, restarts, carried>>

InstallRoutes ==
    /\ ovpn = "pushed"
    /\ ovpn' = "routed"
    /\ UNCHANGED <<drive, lines, cmds, holdDue, logging, reply, restarts, carried>>

Connected ==
    /\ ovpn = "routed"
    /\ ovpn' = "connected"
    /\ IF logging # {} THEN Say("connected") ELSE UNCHANGED lines
    /\ carried' = IF carried = "none" THEN reply ELSE carried
    /\ UNCHANGED <<drive, cmds, holdDue, logging, reply, restarts>>

(* A lost connection is dialed again, after another hold.                  *)
Restart ==
    /\ ovpn \in {"dialing", "pushed", "routed", "connected"} /\ restarts < Restarts
    /\ restarts' = restarts + 1
    /\ ovpn' = "held" /\ holdDue' = TRUE
    /\ UNCHANGED <<drive, lines, cmds, logging, reply, carried>>

GiveUp ==
    /\ MayFail /\ ovpn \notin {"deaf", "exited"}
    /\ ovpn' = "exited"
    /\ \E last \in {<<>>, <<"exiting">>, <<"badlogin">>, <<"fatal">>} : lines' = lines \o last
    /\ UNCHANGED <<drive, cmds, holdDue, logging, reply, restarts, carried>>

-----------------------------------------------------------------------------

Drive ==
    \/ Top \/ TakeReply \/ TakePush \/ TakeHold \/ TakeEnding \/ TakeOther
    \/ SendSetup \/ Read

Openvpn ==
    \/ Wake \/ SayHold \/ ReadCommands
    \/ Push \/ InstallRoutes \/ Connected \/ Restart \/ GiveUp

(* The broker and openvpn have nothing left to do.                         *)
Over ==
    /\ pc = "end" /\ ovpn \in {"held", "connected", "exited"}
    /\ UNCHANGED vars

Next == Drive \/ StopChild \/ Openvpn \/ Over

Spec == Init /\ [][Next]_vars

(* The thread runs; openvpn wakes, reads its socket and makes progress.  A *)
(* restart, a failure and the deadline are under no obligation.            *)
Fairness ==
    /\ WF_vars(Drive) /\ WF_vars(StopChild)
    /\ WF_vars(Wake) /\ WF_vars(SayHold) /\ WF_vars(ReadCommands)
    /\ WF_vars(Push) /\ WF_vars(InstallRoutes) /\ WF_vars(Connected)

FairSpec == Spec /\ Fairness

-----------------------------------------------------------------------------
(* Properties.                                                             *)

(***************************************************************************)
(* Types; and drive waits for a reply whenever a command of its, or the    *)
(* reply to one, is under way.                                             *)
(***************************************************************************)
TypeOK ==
    /\ pc \in {"top", "lines", "read", "end"}
    /\ result \in {"going", "up"} \cup Failures /\ (pc = "end" <=> result # "going")
    /\ setupNext \in 0 .. Len(Setup) /\ awaitingAck \in BOOLEAN /\ spoken \in BOOLEAN
    /\ pushed \in Pushes \cup {"none"} /\ reply \in Pushes \cup {"none"}
    /\ rbuf \in Seq(Lines) /\ lines \in Seq(Lines)
    /\ cmds \in Seq({"state on", "log on", "hold release"})
    /\ cmds # <<>> => awaitingAck
    /\ \A i \in DOMAIN lines : lines[i] \in {"success", "error"} => awaitingAck
    /\ ovpn \in {"deaf", "held", "dialing", "pushed", "routed", "connected", "exited"}
    /\ holdDue \in BOOLEAN /\ restarts \in 0 .. Restarts
    /\ allowFull \in BOOLEAN
    /\ logging \subseteq {"state on", "log on"} /\ carried \in Pushes \cup {"none"}

(***************************************************************************)
(* A tunnel reported up carries the push openvpn connected with, also when *)
(* an earlier attempt of the same openvpn was pushed something else, and a *)
(* full one only if the request allowed it.  The DNS claims of the broker  *)
(* and its refusal of a second full tunnel rest on this.                   *)
(***************************************************************************)
UpMeansPushed ==
    result = "up" => pushed = carried /\ (carried = "full" => allowFull)

(***************************************************************************)
(* While the connect is going on, a held openvpn is released, or the       *)
(* connect ends.  The deadline is not owed, so it is not what ends it.     *)
(***************************************************************************)
HoldIsReleased ==
    (ovpn = "held" /\ result = "going") ~> (ovpn # "held" \/ result # "going")

(***************************************************************************)
(* An openvpn whose tunnel is up and that restarts is let out of its hold  *)
(* again (openvpn.rs:475: "A reconnect re-entered hold -- let it proceed   *)
(* again").                                                                *)
(***************************************************************************)
RestartIsReleased ==
    (ovpn = "held" /\ result = "up") ~> ovpn # "held"
=============================================================================
