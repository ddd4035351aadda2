---------------------------- MODULE ViciExchange ----------------------------
(***************************************************************************)
(* The exchanges of the vici client (protocol.rs): a request, and a        *)
(* streamed request that registers for an event, collects what charon      *)
(* sends of it and unregisters.  Charon's side is the sequence of packets  *)
(* [type, event, size, body] it sends; a client is the record of how far   *)
(* it has come.                                                            *)
(***************************************************************************)
EXTENDS Naturals, Sequences, FiniteSets

NoResponse == [ok |-> FALSE]

MaxPacket == 16     \* in MiB

ReadPacket(p) == p.size > 0 /\ p.size <= MaxPacket

Asking(at, event) == [at |-> at, event |-> event, events |-> << >>, response |-> NoResponse]

Over(c) == c.at \in {"done", "failed"}

Request(c, p) ==
    IF ~ReadPacket(p) THEN [c EXCEPT !.at = "failed"]
    ELSE IF p.type = "CMD_RESPONSE"
         THEN [c EXCEPT !.at = IF p.body.ok THEN "done" ELSE "failed", !.response = p.body]
    ELSE IF p.type = "CMD_UNKNOWN" THEN [c EXCEPT !.at = "failed"]
    ELSE c

ParseEvent_AnyName(c, p) ==
    IF p.body.ok THEN [c EXCEPT !.events = Append(@, p.body)]
    ELSE [c EXCEPT !.at = "failed"]

\* What an event packet is called that ends before its name does.
CutOff == "(cut off)"

\* An event of another name is passed over; one whose name is cut off, and one
\* of this name that does not decode, are fatal.
ParseEvent(c, p) ==
    IF p.event = CutOff THEN [c EXCEPT !.at = "failed"]
    ELSE IF p.event # c.event THEN c
    ELSE IF p.body.ok THEN [c EXCEPT !.events = Append(@, p.body)]
    ELSE [c EXCEPT !.at = "failed"]

StreamRequest(c, p) ==
    CASE ~ReadPacket(p) -> [c EXCEPT !.at = "failed"]
      [] c.at = "registering" /\ ReadPacket(p) ->
           [c EXCEPT !.at = IF p.type = "EVENT_CONFIRM" THEN "waiting"
                            ELSE IF p.type = "EVENT_UNKNOWN" THEN "failed" ELSE @]
      [] c.at = "waiting" /\ ReadPacket(p) ->
           IF p.type = "EVENT" THEN ParseEvent(c, p)
           ELSE IF p.type = "CMD_RESPONSE"
                THEN [c EXCEPT !.at = IF p.body.ok THEN "unregistering" ELSE "failed",
                               !.response = p.body]
           ELSE IF p.type = "CMD_UNKNOWN" THEN [c EXCEPT !.at = "giving up"] ELSE c
      [] c.at \in {"unregistering", "giving up"} /\ ReadPacket(p) ->
           [c EXCEPT !.at = IF p.type # "EVENT_CONFIRM" THEN @
                            ELSE IF @ = "unregistering" THEN "done" ELSE "failed"]

(***************************************************************************)
(* What charon sent, whatever the client made of it: the answer to the     *)
(* command, which comes after the first confirmation, and the events of    *)
(* the command, which come between the two.                                *)
(***************************************************************************)
Answers == {"CMD_RESPONSE", "CMD_UNKNOWN"}

Confirmed(packets, m) == \E k \in 1 .. m - 1 : packets[k].type = "EVENT_CONFIRM"

Answer(packets, m) == packets[m].type \in Answers /\ Confirmed(packets, m)

Answered(packets, m) == \E k \in 1 .. m - 1 : Answer(packets, k)

\* Among the first n packets.
Own(packets, event, n) ==
    {m \in 1 .. n : /\ packets[m].type = "EVENT" /\ packets[m].event = event
                    /\ Confirmed(packets, m) /\ ~Answered(packets, m)}

\* The bodies of the packets at those places, in their order.
BodiesOf(packets, places, bodies) ==
    /\ Len(bodies) = Cardinality(places)
    /\ \A m \in places : bodies[Cardinality({k \in places : k <= m})] = packets[m].body

=============================================================================
