----------------------------- MODULE Conversions ----------------------------
(***************************************************************************)
(* The client's conversions put to work on one input after another: what   *)
(* Intake and Upkeep do, one thing at a time, and a message sent through   *)
(* vici, which `wire` holds beside its bytes.                              *)
(***************************************************************************)
EXTENDS Intake, Upkeep, ViciCodec

CONSTANT Messages

VARIABLE wire

vars == <<work, task, wire>>

NoMessage == [kind |-> "none"]

Init == IntakeInit /\ UpkeepInit /\ wire = NoMessage

Send ==
    /\ wire = NoMessage
    /\ \E m \in Messages : wire' = [kind |-> "message", msg |-> m, sent |-> Encode(m)]

Next ==
    \/ task = NoTask /\ wire = NoMessage /\ IntakeNext /\ UNCHANGED <<task, wire>>
    \/ work = NoWork /\ wire = NoMessage /\ UpkeepNext /\ UNCHANGED <<work, wire>>
    \/ work = NoWork /\ task = NoTask /\ Send /\ UNCHANGED <<work, task>>
    \/ wire # NoMessage /\ wire' = NoMessage /\ UNCHANGED <<work, task>>

Spec == Init /\ [][Next]_vars

(***************************************************************************)
(* Properties, beside those of Intake and Upkeep.                          *)
(***************************************************************************)
\* A message charon reads is the message that was sent; one cut off anywhere is
\* refused or is the entries before the cut, never a changed entry.
NothingLostOnTheWire ==
    wire.kind = "message" /\ wire.sent.ok =>
        /\ Decode(wire.sent.buf).ok
        /\ Decode(wire.sent.buf).msg = wire.msg
        /\ \A n \in 0 .. Len(wire.sent.buf) - 1 :
               LET cut == Decode(SubSeq(wire.sent.buf, 1, n))
               IN  cut.ok => IsPrefix(cut.msg, wire.msg)

=============================================================================
