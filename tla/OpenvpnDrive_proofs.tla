------------------------ MODULE OpenvpnDrive_proofs ------------------------
(***************************************************************************)
(* The dialogue with openvpn, for any number of restarts and whatever it   *)
(* may refuse, fail or outlast.                                            *)
(*                                                                         *)
(* That a tunnel reported up carries the push openvpn connected with rests *)
(* on two things. One command at a time is under way and is answered once  *)
(* (Exchange), so that nothing reaches openvpn as part of something else   *)
(* and it logs before it is released: every push it acts on is said. And   *)
(* the lines between openvpn and drive keep their order (Carries): before  *)
(* the first "connected" that is still to be read, the last push is the    *)
(* one that connection carries.                                            *)
(***************************************************************************)
EXTENDS OpenvpnDrive, TLAPS

(* What openvpn has said and drive has not taken yet.                      *)
Stream == rbuf \o lines
Replies == {"success", "error"}

(* drive reads only with nothing left to take, and says nothing to an      *)
(* openvpn that has not spoken.                                            *)
Waiting ==
    /\ pc = "read" => rbuf = <<>>
    /\ ovpn = "deaf" => ~spoken /\ rbuf = <<>> /\ lines = <<>> /\ cmds = <<>>

(* One command is under way, and it is the set-up's last one or the        *)
(* release of a later hold.                                                *)
InFlight ==
    cmds # <<>> => setupNext \in 1 .. 3 /\ cmds = <<Setup[setupNext]>> /\ awaitingAck

(* One reply is under way, with no command beside it; a success means that *)
(* openvpn did what it was asked.                                          *)
Answered ==
    \A i \in DOMAIN Stream : Stream[i] \in Replies =>
        /\ awaitingAck /\ cmds = <<>>
        /\ \A k \in DOMAIN Stream : Stream[k] \in Replies => k = i
        /\ setupNext = 2 /\ Stream[i] = "success" => "log on" \in logging

(* The log is on before the hold is released, and stays on.                *)
Logged ==
    /\ setupNext = 2 /\ ~awaitingAck => "log on" \in logging
    /\ setupNext = 3 => "log on" \in logging
    /\ ovpn \in {"dialing", "pushed", "routed", "connected"} => "log on" \in logging
    /\ ovpn \in {"pushed", "routed"} => reply \in Pushes

Exchange == Waiting /\ InFlight /\ Answered /\ Logged

(* The last push said before line n, counting those drive has taken.       *)
LastBefore(n, p) ==
    \/ \E k \in 1 .. n - 1 : /\ Stream[k] = p /\ p \in Pushes
                             /\ \A m \in k + 1 .. n - 1 : Stream[m] \notin Pushes
    \/ pushed = p /\ \A m \in 1 .. n - 1 : Stream[m] \notin Pushes

(* What Stream still holds of the push that counts.                        *)
Carries ==
    /\ pushed = "full" => allowFull
    /\ result = "up" => pushed = carried /\ carried # "none"
    /\ result = "going" /\ carried = "none" =>
          /\ \A i \in DOMAIN Stream : Stream[i] # "connected"
          /\ ovpn \in {"pushed", "routed"} => LastBefore(Len(Stream) + 1, reply)
    /\ result = "going" /\ carried # "none" =>
          \E i \in DOMAIN Stream : /\ Stream[i] = "connected" /\ LastBefore(i, carried)
                                   /\ \A m \in 1 .. i - 1 : Stream[m] # "connected"

(* What drive may send.                                                    *)
Commands == {"state on", "log on", "hold release"}

(* The types, without what Exchange says better; the flags apart, for the  *)
(* provers do arithmetic and truth values best separately.                 *)
Flags ==
    /\ awaitingAck \in BOOLEAN /\ spoken \in BOOLEAN
    /\ holdDue \in BOOLEAN /\ allowFull \in BOOLEAN

Values ==
    /\ pc \in {"top", "lines", "read", "end"}
    /\ result \in {"going", "up"} \cup Failures /\ (pc = "end" <=> result # "going")
    /\ setupNext \in 0 .. 3
    /\ pushed \in Pushes \cup {"none"} /\ reply \in Pushes \cup {"none"}
    /\ rbuf \in Seq(Lines) /\ lines \in Seq(Lines)
    /\ cmds \in Seq(Commands)
    /\ ovpn \in {"deaf", "held", "dialing", "pushed", "routed", "connected", "exited"}
    /\ restarts \in 0 .. Restarts
    /\ logging \subseteq {"state on", "log on"} /\ carried \in Pushes \cup {"none"}

Typed == Flags /\ Values

DriveInv == Typed /\ Exchange /\ Carries

Streams == rbuf \in Seq(Lines) /\ lines \in Seq(Lines)

(* The set-up is three commands.                                           *)
LEMMA SetupLength == Len(Setup) = 3
BY DEF Setup

(* The three, and that they are commands.                                  *)
LEMMA SetupCommands ==
    /\ Setup[1] = "state on" /\ Setup[2] = "log on" /\ Setup[3] = "hold release"
    /\ \A n \in 1 .. 3 : Setup[n] \in Commands
<1>1. Setup[1] = "state on" /\ Setup[2] = "log on" /\ Setup[3] = "hold release"
  BY DEF Setup
<1>2. \A n \in 1 .. 3 : n = 1 \/ n = 2 \/ n = 3
  OBVIOUS
<1> QED BY <1>1, <1>2 DEF Commands

(* Append stays in the sequences over a set.                               *)
LEMMA Appended ==
    ASSUME NEW S, NEW s \in Seq(S), NEW e \in S
    PROVE  Append(s, e) \in Seq(S)
OBVIOUS

(* A command into an empty socket.                                         *)
LEMMA CommandAppended ==
    ASSUME NEW c \in Commands
    PROVE  Append(<<>>, c) = <<c>> /\ <<c>> \in Seq(Commands) /\ <<c>> # <<>>
OBVIOUS

(* The component's own type invariant.                                     *)
LEMMA TypeOKFollows ==
    ASSUME DriveInv
    PROVE  TypeOK
<1> rbuf \in Seq(Lines) /\ lines \in Seq(Lines)
  BY DEF DriveInv, Typed, Values
<1>1. \A i \in DOMAIN lines : /\ Len(rbuf) + i \in DOMAIN Stream
                             /\ Stream[Len(rbuf) + i] = lines[i]
  BY DEF Stream
<1>2. \A i \in DOMAIN lines : lines[i] \in Replies => awaitingAck
  BY <1>1 DEF DriveInv, Exchange, Answered
<1>3. cmds # <<>> => awaitingAck
  BY DEF DriveInv, Exchange, InFlight
<1> QED BY <1>2, <1>3, SetupLength DEF DriveInv, Typed, Flags, Values, TypeOK, Replies, Commands

(* Stream is a sequence of lines.                                          *)
LEMMA StreamTyped ==
    ASSUME Streams
    PROVE  Stream \in Seq(Lines) /\ Len(Stream) = Len(rbuf) + Len(lines)
BY DEF Streams, Stream

-----------------------------------------------------------------------------
(* How Stream moves.                                                       *)

(* The first line of Stream was taken.                                     *)
Taken ==
    /\ Stream' \in Seq(Lines) /\ Len(Stream) = Len(Stream') + 1
    /\ Stream[1] = Head(rbuf) /\ Head(rbuf) \in Lines
    /\ \A i \in 1 .. Len(Stream') : Stream'[i] = Stream[i + 1]

(* Take takes it.                                                          *)
LEMMA TakeShape ==
    ASSUME Streams, rbuf # <<>>, Take, lines' = lines
    PROVE  Taken /\ Streams'
BY DEF Streams, Stream, Take, Taken

(* Stream is as it was.                                                    *)
Same == /\ Stream' \in Seq(Lines) /\ Len(Stream') = Len(Stream)
        /\ \A i \in 1 .. Len(Stream) : Stream'[i] = Stream[i]

(* A read moves lines from the socket to rbuf.                             *)
LEMMA ReadShape ==
    ASSUME Streams, rbuf = <<>>, NEW n \in 1 .. Len(lines),
           rbuf' = SubSeq(lines, 1, n), lines' = SubSeq(lines, n + 1, Len(lines))
    PROVE  Same /\ Streams'
<1>1. /\ rbuf' \in Seq(Lines) /\ Len(rbuf') = n
      /\ \A i \in 1 .. n : rbuf'[i] = lines[i]
  BY DEF Streams
<1>2. /\ lines' \in Seq(Lines) /\ Len(lines') = Len(lines) - n
      /\ \A i \in 1 .. Len(lines) - n : lines'[i] = lines[n + i]
  BY DEF Streams
<1>3. Stream = lines
  BY DEF Streams, Stream
<1>4. /\ Stream' \in Seq(Lines) /\ Len(Stream') = Len(lines)
      /\ \A i \in 1 .. Len(lines) : Stream'[i] = IF i <= n THEN rbuf'[i] ELSE lines'[i - n]
  BY <1>1, <1>2 DEF Streams, Stream
<1>5. \A i \in 1 .. Len(lines) : Stream'[i] = lines[i]
  BY <1>1, <1>2, <1>4 DEF Streams
<1> QED BY <1>1, <1>2, <1>3, <1>4, <1>5 DEF Same, Streams

(* Neither was touched.                                                    *)
LEMMA SameShape ==
    ASSUME Streams, UNCHANGED <<rbuf, lines>>
    PROVE  Same /\ Streams'
BY DEF Streams, Stream, Same

(* One line was said.                                                      *)
Said(l) ==
    /\ Stream' \in Seq(Lines) /\ Len(Stream') = Len(Stream) + 1
    /\ \A i \in 1 .. Len(Stream) : Stream'[i] = Stream[i]
    /\ Stream'[Len(Stream) + 1] = l

(* Say says it.                                                            *)
LEMMA SayShape ==
    ASSUME Streams, NEW l \in Lines, rbuf' = rbuf, lines' = Append(lines, l)
    PROVE  Said(l) /\ Streams'
BY DEF Streams, Stream, Said

(* So does an openvpn that ends with a last word.                          *)
LEMMA LastWordShape ==
    ASSUME Streams, NEW l \in Lines, rbuf' = rbuf, lines' = lines \o <<l>>
    PROVE  Said(l) /\ Streams'
BY DEF Streams, Stream, Said

(* Taking a line moves every position down by one; a push that was taken   *)
(* is the one drive has.                                                   *)
LEMMA LastTaken ==
    ASSUME Streams, Taken, NEW n \in 2 .. Len(Stream) + 1, NEW p, LastBefore(n, p),
           pushed' = IF Stream[1] \in Pushes THEN Stream[1] ELSE pushed
    PROVE  LastBefore(n - 1, p)'
<1> Stream \in Seq(Lines)
  BY StreamTyped
<1>1. CASE pushed = p /\ \A m \in 1 .. n - 1 : Stream[m] \notin Pushes
  <2>1. 1 \in 1 .. n - 1
    OBVIOUS
  <2>2. pushed' = p
    BY <1>1, <2>1
  <2>3. \A m \in 1 .. n - 2 : m + 1 \in 1 .. n - 1 /\ m \in 1 .. Len(Stream')
    BY DEF Taken
  <2>4. \A m \in 1 .. n - 2 : Stream'[m] \notin Pushes
    BY <1>1, <2>3 DEF Taken
  <2> QED BY <2>2, <2>4 DEF LastBefore
<1>2. ASSUME NEW k \in 1 .. n - 1, Stream[k] = p, p \in Pushes,
             \A m \in k + 1 .. n - 1 : Stream[m] \notin Pushes
      PROVE  LastBefore(n - 1, p)'
  <2>1. \A m \in k .. n - 2 : Stream'[m] = Stream[m + 1] /\ Stream'[m] \notin Pushes
    BY <1>2 DEF Taken
  <2>2. CASE k = 1
    BY <1>2, <2>1, <2>2 DEF LastBefore
  <2>3. CASE k > 1
    <3>1. k - 1 \in 1 .. (n - 1) - 1 /\ Stream'[k - 1] = p
      BY <1>2, <2>3 DEF Taken
    <3>2. \A m \in (k - 1) + 1 .. (n - 1) - 1 : Stream'[m] \notin Pushes
      BY <2>1
    <3> QED BY <1>2, <3>1, <3>2 DEF LastBefore
  <2> QED BY <2>2, <2>3
<1> QED BY <1>1, <1>2 DEF LastBefore

(* The last push before a line is not changed by what comes after it.      *)
LEMMA LastKept ==
    ASSUME Streams, NEW n \in 1 .. Len(Stream) + 1, NEW p, LastBefore(n, p),
           \A i \in 1 .. Len(Stream) : Stream'[i] = Stream[i], pushed' = pushed
    PROVE  LastBefore(n, p)'
<1> Stream \in Seq(Lines)
  BY StreamTyped
<1> QED BY DEF LastBefore

(* At most one line was said.                                              *)
Grown ==
    /\ Stream' \in Seq(Lines) /\ Len(Stream') \in {Len(Stream), Len(Stream) + 1}
    /\ \A i \in 1 .. Len(Stream) : Stream'[i] = Stream[i]

(* In either way.                                                          *)
LEMMA GrownBy ==
    /\ Same => Grown
    /\ \A l \in Lines : Said(l) => Grown
BY DEF Same, Said, Grown

(* It was neither a push nor "connected".                                  *)
Mute == Len(Stream') = Len(Stream) + 1 => Stream'[Len(Stream) + 1] \notin Pushes \cup {"connected"}

(* Then the last push of all is the same.                                  *)
LEMMA LastGrown ==
    ASSUME Streams, Grown, Mute, NEW p, LastBefore(Len(Stream) + 1, p), pushed' = pushed
    PROVE  LastBefore(Len(Stream) + 1, p)'
<1> Stream \in Seq(Lines)
  BY StreamTyped
<1>1. PICK n \in 1 .. Len(Stream) + 1 : n = Len(Stream) + 1
  OBVIOUS
<1>2. LastBefore(n, p)'
  BY <1>1, LastKept DEF Grown
<1>3. CASE Len(Stream') = Len(Stream)
  BY <1>1, <1>2, <1>3
<1>4. CASE Len(Stream') = Len(Stream) + 1
  <2>1. Stream'[n] \notin Pushes /\ Len(Stream') + 1 = n + 1
    BY <1>1, <1>4 DEF Mute
  <2>2. LastBefore(n + 1, p)'
    BY <1>2, <2>1 DEF LastBefore
  <2> QED BY <2>1, <2>2
<1> QED BY <1>3, <1>4 DEF Grown

-----------------------------------------------------------------------------
(* How Carries and Answered move with it.                                  *)

(* A line that ends nothing is taken.                                      *)
LEMMA CarriesTaken ==
    ASSUME Typed, Carries, rbuf # <<>>, Taken, Head(rbuf) # "connected", result = "going",
           pushed' = IF Head(rbuf) \in Pushes THEN Head(rbuf) ELSE pushed,
           Head(rbuf) = "full" => allowFull,
           UNCHANGED <<result, process>>
    PROVE  Carries'
<1> Streams /\ Stream \in Seq(Lines)
  BY StreamTyped DEF Typed, Values, Streams
<1>1. /\ UNCHANGED <<result, ovpn, reply, carried, allowFull>>
      /\ pushed' = IF Stream[1] \in Pushes THEN Stream[1] ELSE pushed
  BY DEF process, Taken
<1>2. pushed' = "full" => allowFull'
  BY <1>1 DEF Taken, Carries
<1>3. result' # "up"
  BY <1>1
<1>4. ASSUME carried = "none"
      PROVE  /\ \A i \in DOMAIN Stream' : Stream'[i] # "connected"
             /\ ovpn \in {"pushed", "routed"} => LastBefore(Len(Stream) + 1, reply)'
  <2>1. \A i \in DOMAIN Stream : Stream[i] # "connected"
    BY <1>4 DEF Carries
  <2>2. \A i \in DOMAIN Stream' : i + 1 \in DOMAIN Stream /\ Stream'[i] = Stream[i + 1]
    BY DEF Taken
  <2>3. ASSUME ovpn \in {"pushed", "routed"} PROVE LastBefore(Len(Stream) + 1, reply)'
    <3>0. PICK p : p = reply
      OBVIOUS
    <3>1. PICK n \in 2 .. Len(Stream) + 1 : n = Len(Stream) + 1
      BY DEF Taken
    <3>2. LastBefore(n, p)
      BY <1>4, <2>3, <3>0, <3>1 DEF Carries
    <3>3. LastBefore(n - 1, p)'
      BY <1>1, <3>2, LastTaken
    <3>4. n - 1 = Len(Stream') + 1 /\ p = reply'
      BY <1>1, <3>0, <3>1 DEF Taken
    <3> QED BY <3>3, <3>4
  <2> QED BY <2>1, <2>2, <2>3
<1>5. ASSUME carried # "none"
      PROVE  \E i \in DOMAIN Stream' : /\ Stream'[i] = "connected" /\ LastBefore(i, carried)'
                                       /\ \A m \in 1 .. i - 1 : Stream'[m] # "connected"
  <2>1. PICK i \in DOMAIN Stream : /\ Stream[i] = "connected" /\ LastBefore(i, carried)
                                   /\ \A m \in 1 .. i - 1 : Stream[m] # "connected"
    BY <1>5 DEF Carries
  <2>2. i \in 2 .. Len(Stream)
    BY <2>1 DEF Taken
  <2>3. PICK p : p = carried
    OBVIOUS
  <2>4. LastBefore(i - 1, p)'
    BY <1>1, <2>1, <2>2, <2>3, LastTaken
  <2>5. /\ i - 1 \in DOMAIN Stream' /\ Stream'[i - 1] = "connected"
        /\ \A m \in 1 .. i - 2 : Stream'[m] = Stream[m + 1] /\ m + 1 \in 1 .. i - 1
    BY <2>1, <2>2 DEF Taken
  <2> QED BY <1>1, <2>1, <2>3, <2>4, <2>5
<1> QED BY <1>1, <1>2, <1>3, <1>4, <1>5 DEF Carries

(* The connect failed: there is nothing to carry.                          *)
LEMMA CarriesEnded ==
    ASSUME Carries, result' \notin {"going", "up"}, UNCHANGED <<pushed, allowFull>>
    PROVE  Carries'
BY DEF Carries

(* A line that is no push and no "connected" is said, or none.             *)
LEMMA CarriesGrown ==
    ASSUME Typed, Carries, Grown, Mute,
           UNCHANGED <<result, pushed, carried, allowFull>>,
           ovpn' \in {"pushed", "routed"} => ovpn \in {"pushed", "routed"} /\ reply' = reply
    PROVE  Carries'
<1> Streams /\ Stream \in Seq(Lines)
  BY StreamTyped DEF Typed, Values, Streams
<1>1. ASSUME result = "going", carried = "none"
      PROVE  /\ \A i \in DOMAIN Stream' : Stream'[i] # "connected"
             /\ ovpn' \in {"pushed", "routed"} => LastBefore(Len(Stream) + 1, reply)'
  <2>1. \A i \in DOMAIN Stream : Stream[i] # "connected"
    BY <1>1 DEF Carries
  <2>2. \A i \in DOMAIN Stream' : Stream'[i] # "connected"
    BY <2>1 DEF Grown, Mute
  <2>3. ASSUME ovpn' \in {"pushed", "routed"} PROVE LastBefore(Len(Stream) + 1, reply)'
    <3>1. PICK p : p = reply /\ p = reply'
      BY <2>3
    <3>2. LastBefore(Len(Stream) + 1, p)
      BY <1>1, <2>3, <3>1 DEF Carries
    <3>3. LastBefore(Len(Stream) + 1, p)'
      BY <3>2, LastGrown
    <3> QED BY <3>1, <3>3
  <2> QED BY <2>2, <2>3
<1>2. ASSUME result = "going", carried # "none"
      PROVE  \E i \in DOMAIN Stream' : /\ Stream'[i] = "connected" /\ LastBefore(i, carried)'
                                       /\ \A m \in 1 .. i - 1 : Stream'[m] # "connected"
  <2>1. PICK i \in DOMAIN Stream : /\ Stream[i] = "connected" /\ LastBefore(i, carried)
                                   /\ \A m \in 1 .. i - 1 : Stream[m] # "connected"
    BY <1>2 DEF Carries
  <2>2. PICK p : p = carried
    OBVIOUS
  <2>3. LastBefore(i, p)'
    BY <2>1, <2>2, LastKept DEF Grown
  <2>4. i \in DOMAIN Stream' /\ \A m \in 1 .. i : Stream'[m] = Stream[m]
    BY <2>1 DEF Grown
  <2> QED BY <2>1, <2>2, <2>3, <2>4
<1> QED BY <1>1, <1>2 DEF Carries

(* A line is taken and nothing is sent.                                    *)
LEMMA AnsweredTaken ==
    ASSUME Typed, Answered, Taken, UNCHANGED <<setupNext, logging, cmds, awaitingAck>>
    PROVE  Answered'
<1> Stream \in Seq(Lines)
  BY StreamTyped DEF Typed, Values, Streams
<1>1. \A i \in DOMAIN Stream' : i \in Nat /\ i + 1 \in DOMAIN Stream /\ Stream'[i] = Stream[i + 1]
  BY DEF Taken
<1>2. ASSUME NEW i \in DOMAIN Stream', Stream'[i] \in Replies
      PROVE  /\ awaitingAck' /\ cmds' = <<>>
             /\ setupNext' = 2 /\ Stream'[i] = "success" => "log on" \in logging'
  BY <1>1, <1>2 DEF Answered
<1>3. ASSUME NEW i \in DOMAIN Stream', Stream'[i] \in Replies,
             NEW k \in DOMAIN Stream', Stream'[k] \in Replies
      PROVE  k = i
  <2>1. k + 1 = i + 1
    BY <1>1, <1>3 DEF Answered
  <2> QED BY <1>1, <2>1
<1> QED BY <1>2, <1>3 DEF Answered

(* The one reply is taken, or there was none.                              *)
LEMMA UnansweredTaken ==
    ASSUME Typed, Taken, \A i \in DOMAIN Stream : Stream[i] \in Replies => i = 1
    PROVE  Answered'
<1> Stream \in Seq(Lines)
  BY StreamTyped DEF Typed, Values, Streams
<1>1. \A i \in DOMAIN Stream' : i \in Nat \ {0} /\ i + 1 \in DOMAIN Stream /\ Stream'[i] = Stream[i + 1]
  BY DEF Taken
<1>2. \A i \in DOMAIN Stream' : Stream'[i] \notin Replies
  BY <1>1
<1> QED BY <1>2 DEF Answered

(* A line is said that is no reply.                                        *)
LEMMA AnsweredGrown ==
    ASSUME Typed, Answered, Grown, logging \subseteq logging',
           Len(Stream') = Len(Stream) + 1 => Stream'[Len(Stream) + 1] \notin Replies,
           UNCHANGED <<setupNext, awaitingAck, cmds>>
    PROVE  Answered'
<1> Stream \in Seq(Lines)
  BY StreamTyped DEF Typed, Values, Streams
<1>1. \A i \in DOMAIN Stream' : Stream'[i] \in Replies =>
         i \in DOMAIN Stream /\ Stream'[i] = Stream[i]
  BY DEF Grown
<1> QED BY <1>1 DEF Answered

-----------------------------------------------------------------------------
(* drive's steps.                                                          *)

(* Nothing is said at first and nothing asked.                             *)
LEMMA InitDrive == Init => DriveInv
<1> SUFFICES ASSUME Init PROVE DriveInv
  OBVIOUS
<1>1. Typed
  <2>1. Flags
    BY DEF Init, Flags
  <2>2. Values
    BY DriveAssumption DEF Init, Values
  <2> QED BY <2>1, <2>2 DEF Typed
<1>2. Stream = <<>>
  BY DEF Init, Stream
<1>3. Exchange
  BY <1>2 DEF Init, Exchange, Waiting, InFlight, Answered, Logged
<1>4. Carries
  BY <1>2 DEF Init, Carries
<1> QED BY <1>1, <1>3, <1>4 DEF DriveInv

(* The two ends of Stream are sequences of lines.                          *)
LEMMA TypedStreams == Typed => Streams
BY DEF Typed, Values, Streams

(* A round begins, or the deadline or the process's end is seen.           *)
LEMMA TopKeepsDrive ==
    ASSUME DriveInv, Top
    PROVE  DriveInv'
<1>0. Typed /\ Exchange /\ Carries
  BY DEF DriveInv
<1>1. /\ UNCHANGED <<setupNext, awaitingAck, pushed, spoken, rbuf, lines, cmds, process>>
      /\ pc' \in {"end", "lines"}
      /\ pc' = "end" => result' \in {"timeout", "exited"}
      /\ pc' = "lines" => result' = result
  BY DEF Top, End
<1>2. pc = "top" /\ result = "going"
  BY <1>0 DEF Top, Typed, Values
<1>3. Typed'
  <2>1. Flags'
    BY <1>0, <1>1, <1>2 DEF Typed, Flags, process, Failures
  <2>2. Values'
    BY <1>0, <1>1, <1>2 DEF Typed, Values, process, Failures
  <2> QED BY <2>1, <2>2 DEF Typed
<1>4. Same
  BY <1>0, <1>1, SameShape, TypedStreams
<1>5. Stream' = Stream
  BY <1>1 DEF Stream
<1>6. Exchange'
  BY <1>0, <1>1, <1>5 DEF Exchange, Waiting, InFlight, Answered, Logged, process
<1>7. Carries'
  BY <1>0, <1>1, <1>2, <1>5 DEF Carries, LastBefore, process
<1> QED BY <1>3, <1>6, <1>7 DEF DriveInv

(* The reply frees drive to send the next command; a refusal ends the      *)
(* connect.                                                                *)
LEMMA TakeReplyKeepsDrive ==
    ASSUME DriveInv, TakeReply
    PROVE  DriveInv'
<1>0. Typed /\ Exchange /\ Carries
  BY DEF DriveInv
<1>1. /\ pc = "lines" /\ rbuf # <<>> /\ awaitingAck /\ Head(rbuf) \in Replies
      /\ Take /\ UNCHANGED <<setupNext, pushed, lines, cmds, process>>
      /\ \/ Head(rbuf) = "error" /\ End("rejected") /\ UNCHANGED awaitingAck
         \/ Head(rbuf) = "success" /\ awaitingAck' = FALSE /\ UNCHANGED <<pc, result>>
  BY DEF TakeReply, IsReply, Replies
<1>2. Taken /\ Streams' /\ Stream \in Seq(Lines)
  BY <1>0, <1>1, TakeShape, TypedStreams, StreamTyped
<1>3. result = "going"
  BY <1>0, <1>1 DEF Typed, Values
<1>4. Typed'
  <2>1. Flags'
    BY <1>0, <1>1, <1>2, <1>3 DEF Typed, Flags, process, Failures, End, Take, Streams
  <2>2. Values'
    BY <1>0, <1>1, <1>2, <1>3 DEF Typed, Values, process, Failures, End, Take, Streams
  <2> QED BY <2>1, <2>2 DEF Typed
<1>5. 1 \in DOMAIN Stream /\ Stream[1] = Head(rbuf)
  BY <1>2 DEF Taken
<1>6. /\ cmds = <<>>
      /\ \A i \in DOMAIN Stream : Stream[i] \in Replies => i = 1
      /\ setupNext = 2 /\ Head(rbuf) = "success" => "log on" \in logging
  BY <1>0, <1>1, <1>5 DEF Exchange, Answered
<1>7. Answered'
  BY <1>0, <1>2, <1>6, UnansweredTaken
<1>8. Exchange'
  BY <1>0, <1>1, <1>6, <1>7 DEF Exchange, Waiting, InFlight, Logged, process, End, Take
<1>9. Carries'
  <2>1. CASE End("rejected")
    BY <1>0, <1>1, <2>1, CarriesEnded DEF End, process
  <2>2. CASE UNCHANGED <<pc, result>>
    <3>1. Head(rbuf) \notin Pushes \cup {"connected", "full"}
      BY <1>1 DEF Replies, Pushes
    <3> QED BY <1>0, <1>1, <1>2, <1>3, <2>2, <3>1, CarriesTaken
  <2> QED BY <1>1, <2>1, <2>2
<1> QED BY <1>4, <1>8, <1>9 DEF DriveInv

(* drive takes over the push; a full tunnel nobody allowed ends the        *)
(* connect.                                                                *)
LEMMA TakePushKeepsDrive ==
    ASSUME DriveInv, TakePush
    PROVE  DriveInv'
<1>0. Typed /\ Exchange /\ Carries
  BY DEF DriveInv
<1>1. /\ pc = "lines" /\ rbuf # <<>> /\ Head(rbuf) \in Pushes
      /\ Take /\ UNCHANGED <<setupNext, awaitingAck, lines, cmds, process>>
      /\ \/ Head(rbuf) = "full" /\ ~allowFull /\ End("refused") /\ UNCHANGED pushed
         \/ ~(Head(rbuf) = "full" /\ ~allowFull) /\ pushed' = Head(rbuf) /\ UNCHANGED <<pc, result>>
  BY DEF TakePush
<1>2. Taken /\ Streams'
  BY <1>0, <1>1, TakeShape, TypedStreams
<1>3. result = "going"
  BY <1>0, <1>1 DEF Typed, Values
<1>4. Typed'
  <2>1. Flags'
    BY <1>0, <1>1, <1>2, <1>3 DEF Typed, Flags, process, Failures, End, Take, Streams
  <2>2. Values'
    BY <1>0, <1>1, <1>2, <1>3 DEF Typed, Values, process, Failures, End, Take, Streams
  <2> QED BY <2>1, <2>2 DEF Typed
<1>5. Answered'
  BY <1>0, <1>1, <1>2, AnsweredTaken DEF Exchange, process
<1>6. Exchange'
  BY <1>0, <1>1, <1>5 DEF Exchange, Waiting, InFlight, Logged, process, End, Take
<1>7. Carries'
  <2>1. CASE End("refused") /\ UNCHANGED pushed
    BY <1>0, <1>1, <2>1, CarriesEnded DEF End, process
  <2>2. CASE ~(Head(rbuf) = "full" /\ ~allowFull) /\ pushed' = Head(rbuf) /\ UNCHANGED <<pc, result>>
    <3>1. Head(rbuf) # "connected"
      BY <1>1 DEF Pushes
    <3> QED BY <1>0, <1>1, <1>2, <1>3, <2>2, <3>1, CarriesTaken
  <2> QED BY <1>1, <2>1, <2>2
<1> QED BY <1>4, <1>6, <1>7 DEF DriveInv

(* A hold is answered only when no command is under way and the set-up,    *)
(* the log included, is over.                                              *)
LEMMA TakeHoldKeepsDrive ==
    ASSUME DriveInv, TakeHold
    PROVE  DriveInv'
<1>0. Typed /\ Exchange /\ Carries
  BY DEF DriveInv
<1>1. /\ pc = "lines" /\ rbuf # <<>> /\ Head(rbuf) = "hold"
      /\ Take /\ UNCHANGED <<pc, result, setupNext, pushed, lines, process>>
      /\ \/ /\ setupNext = 3 /\ ~awaitingAck
            /\ cmds' = Append(cmds, "hold release") /\ awaitingAck' = TRUE
         \/ UNCHANGED <<cmds, awaitingAck>>
  BY SetupLength DEF TakeHold
<1>2. Taken /\ Streams' /\ Stream \in Seq(Lines)
  BY <1>0, <1>1, TakeShape, TypedStreams, StreamTyped
<1>3. result = "going"
  BY <1>0, <1>1 DEF Typed, Values
<1>4. Typed'
  <2>1. cmds' \in Seq(Commands)
    <3>1. cmds \in Seq(Commands) /\ "hold release" \in Commands
      BY <1>0 DEF Typed, Values, Commands
    <3>2. cmds' = Append(cmds, "hold release") \/ cmds' = cmds
      BY <1>1
    <3> QED BY <3>1, <3>2, Appended
  <2>2. Values'
    BY <1>0, <1>1, <1>2, <1>3, <2>1 DEF Typed, Values, process, Streams
  <2>3. Flags'
    BY <1>0, <1>1 DEF Typed, Flags, process, Take
  <2> QED BY <2>2, <2>3 DEF Typed
<1>5. Exchange'
  <2>1. CASE UNCHANGED <<cmds, awaitingAck>>
    <3>1. Answered'
      BY <1>0, <1>1, <1>2, <2>1, AnsweredTaken DEF Exchange, process
    <3> QED BY <1>0, <1>1, <2>1, <3>1 DEF Exchange, Waiting, InFlight, Logged, process, Take
  <2>2. CASE /\ setupNext = 3 /\ ~awaitingAck
             /\ cmds' = Append(cmds, "hold release") /\ awaitingAck' = TRUE
    <3>1. cmds = <<>>
      BY <1>0, <2>2 DEF Exchange, InFlight
    <3>2. cmds' = <<Setup[3]>>
      <4>1. cmds' = <<"hold release">>
        BY <2>2, <3>1, CommandAppended DEF Commands
      <4> QED BY <4>1, SetupCommands
    <3>3. Answered'
      BY <1>0, <1>2, <2>2, UnansweredTaken DEF Exchange, Answered
    <3>4. ovpn # "deaf"
      BY <1>0, <1>1 DEF Exchange, Waiting
    <3>5. InFlight'
      <4>1. setupNext' = 3 /\ awaitingAck'
        BY <1>1, <2>2
      <4> QED BY <3>2, <4>1 DEF InFlight
    <3>6. Waiting' /\ Logged'
      BY <1>0, <1>1, <2>2, <3>4 DEF Exchange, Waiting, Logged, process
    <3> QED BY <3>3, <3>5, <3>6 DEF Exchange
  <2> QED BY <1>1, <2>1, <2>2
<1>6. Head(rbuf) \notin Pushes \cup {"connected", "full"}
  BY <1>1 DEF Pushes
<1>7. Carries'
  BY <1>0, <1>1, <1>2, <1>3, <1>6, CarriesTaken
<1> QED BY <1>4, <1>5, <1>7 DEF DriveInv

(* The first "connected" drive reads is the first there was, and what it   *)
(* has taken by then is the push of that connection.                       *)
LEMMA TakeEndingKeepsDrive ==
    ASSUME DriveInv, TakeEnding
    PROVE  DriveInv'
<1>0. Typed /\ Exchange /\ Carries
  BY DEF DriveInv
<1>1. /\ pc = "lines" /\ rbuf # <<>>
      /\ Take /\ UNCHANGED <<setupNext, awaitingAck, pushed, lines, cmds, process>>
      /\ pc' = "end"
      /\ \/ Head(rbuf) = "connected" /\ result' = "up"
         \/ result' \in {"gaveUp", "login", "fatal"}
  BY DEF TakeEnding, End, Ending
<1>2. Taken /\ Streams' /\ Stream \in Seq(Lines)
  BY <1>0, <1>1, TakeShape, TypedStreams, StreamTyped
<1>3. result = "going"
  BY <1>0, <1>1 DEF Typed, Values
<1>4. Typed'
  <2>1. Flags'
    BY <1>0, <1>1, <1>2, <1>3 DEF Typed, Flags, process, Failures, Take, Streams
  <2>2. Values'
    BY <1>0, <1>1, <1>2, <1>3 DEF Typed, Values, process, Failures, Take, Streams
  <2> QED BY <2>1, <2>2 DEF Typed
<1>5. Answered'
  BY <1>0, <1>1, <1>2, AnsweredTaken DEF Exchange, process
<1>6. Exchange'
  BY <1>0, <1>1, <1>5 DEF Exchange, Waiting, InFlight, Logged, process, Take
<1>7. Carries'
  <2>1. CASE result' \in {"gaveUp", "login", "fatal"}
    BY <1>0, <1>1, <2>1, CarriesEnded DEF process
  <2>2. CASE Head(rbuf) = "connected" /\ result' = "up"
    <3>1. 1 \in DOMAIN Stream /\ Stream[1] = "connected"
      BY <1>2, <2>2 DEF Taken
    <3>2. carried # "none"
      BY <1>0, <1>3, <3>1 DEF Carries
    <3>3. PICK i \in DOMAIN Stream : /\ Stream[i] = "connected" /\ LastBefore(i, carried)
                                     /\ \A m \in 1 .. i - 1 : Stream[m] # "connected"
      BY <1>0, <1>3, <3>2 DEF Carries
    <3>4. i = 1
      BY <1>2, <3>1, <3>3
    <3>5. pushed = carried
      BY <3>3, <3>4 DEF LastBefore
    <3> QED BY <1>0, <1>1, <2>2, <3>2, <3>5 DEF Carries, process
  <2> QED BY <1>1, <2>1, <2>2
<1> QED BY <1>4, <1>6, <1>7 DEF DriveInv

(* A line that says nothing to drive.                                      *)
LEMMA TakeOtherKeepsDrive ==
    ASSUME DriveInv, TakeOther
    PROVE  DriveInv'
<1>0. Typed /\ Exchange /\ Carries
  BY DEF DriveInv
<1>1. /\ pc = "lines" /\ rbuf # <<>> /\ Head(rbuf) \in {"banner", "success", "error"}
      /\ Take
      /\ UNCHANGED <<pc, result, setupNext, awaitingAck, pushed, lines, cmds, process>>
  BY DEF TakeOther
<1>2. Taken /\ Streams'
  BY <1>0, <1>1, TakeShape, TypedStreams
<1>3. result = "going"
  BY <1>0, <1>1 DEF Typed, Values
<1>4. Typed'
  <2>1. Flags'
    BY <1>0, <1>1, <1>2 DEF Typed, Flags, process, Take, Streams
  <2>2. Values'
    BY <1>0, <1>1, <1>2 DEF Typed, Values, process, Take, Streams
  <2> QED BY <2>1, <2>2 DEF Typed
<1>5. Answered'
  BY <1>0, <1>1, <1>2, AnsweredTaken DEF Exchange, process
<1>6. Exchange'
  BY <1>0, <1>1, <1>5 DEF Exchange, Waiting, InFlight, Logged, process, Take
<1>7. Head(rbuf) \notin Pushes \cup {"connected", "full"}
  BY <1>1 DEF Pushes
<1>8. Carries'
  BY <1>0, <1>1, <1>2, <1>3, <1>7, CarriesTaken
<1> QED BY <1>4, <1>6, <1>8 DEF DriveInv

(* The next command of the set-up, with the one before it answered.        *)
LEMMA SendSetupKeepsDrive ==
    ASSUME DriveInv, SendSetup
    PROVE  DriveInv'
<1>0. Typed /\ Exchange /\ Carries
  BY DEF DriveInv
<1>1. /\ pc = "lines" /\ rbuf = <<>> /\ pc' = "read"
      /\ UNCHANGED <<result, pushed, spoken, rbuf, lines, process>>
      /\ \/ /\ setupNext < 3 /\ ~awaitingAck /\ spoken
            /\ cmds' = Append(cmds, Setup[setupNext + 1])
            /\ setupNext' = setupNext + 1 /\ awaitingAck' = TRUE
         \/ UNCHANGED <<cmds, setupNext, awaitingAck>>
  BY SetupLength DEF SendSetup
<1>2. Streams /\ Stream' = Stream /\ Stream \in Seq(Lines)
  BY <1>0, <1>1, TypedStreams, StreamTyped DEF Stream
<1>3. result = "going"
  BY <1>0, <1>1 DEF Typed, Values
<1>4. Typed' /\ Exchange'
  <2>1. CASE UNCHANGED <<cmds, setupNext, awaitingAck>>
    <3>1. Typed'
      <4>1. Flags'
        BY <1>0, <1>1, <1>3, <2>1 DEF Typed, Flags, process
      <4>2. Values'
        BY <1>0, <1>1, <1>3, <2>1 DEF Typed, Values, process
      <4> QED BY <4>1, <4>2 DEF Typed
    <3>2. Exchange'
      BY <1>0, <1>1, <1>2, <2>1 DEF Exchange, Waiting, InFlight, Answered, Logged, process
    <3> QED BY <3>1, <3>2
  <2>2. CASE /\ setupNext < 3 /\ ~awaitingAck /\ spoken
             /\ cmds' = Append(cmds, Setup[setupNext + 1])
             /\ setupNext' = setupNext + 1 /\ awaitingAck' = TRUE
    <3>1. setupNext \in 0 .. 2 /\ setupNext' \in 1 .. 3
      <4>1. setupNext \in 0 .. 3
        BY <1>0 DEF Typed, Values
      <4> QED BY <2>2, <4>1
    <3>2. cmds = <<>>
      BY <1>0, <2>2 DEF Exchange, InFlight
    <3>3. cmds' = <<Setup[setupNext']>> /\ cmds' # <<>>
      BY <2>2, <3>2
    <3>4. \A i \in DOMAIN Stream : Stream[i] \notin Replies
      BY <1>0, <2>2 DEF Exchange, Answered
    <3>5. ovpn # "deaf"
      BY <1>0, <2>2 DEF Exchange, Waiting
    <3>6. Setup[setupNext'] \in Commands
      BY <3>1, SetupCommands
    <3>7. Typed'
      <4>1. Flags'
        BY <1>0, <1>1, <1>3, <2>2, <3>1, <3>3, <3>6 DEF Typed, Flags, process
      <4>2. Values'
        <5>1. setupNext' \in 0 .. 3
          BY <3>1
        <5>2. cmds' \in Seq(Commands)
          BY <3>3, <3>6, CommandAppended
        <5> QED BY <1>0, <1>1, <1>3, <5>1, <5>2 DEF Typed, Values, process
      <4> QED BY <4>1, <4>2 DEF Typed
    <3>8. Logged'
      <4>1. setupNext' = 3 => "log on" \in logging
        <5>1. setupNext' = 3 => setupNext = 2
          BY <2>2, <3>1
        <5> QED BY <1>0, <2>2, <5>1 DEF Exchange, Logged
      <4>2. awaitingAck'
        BY <2>2
      <4> QED BY <1>0, <1>1, <4>1, <4>2 DEF Exchange, Logged, process
    <3>9. InFlight'
      BY <2>2, <3>1, <3>3 DEF InFlight
    <3>10. Waiting' /\ Answered'
      BY <1>0, <1>1, <1>2, <3>4, <3>5 DEF Exchange, Waiting, Answered, process
    <3> QED BY <3>7, <3>8, <3>9, <3>10 DEF Exchange
  <2> QED BY <1>1, <2>1, <2>2
<1>5. Carries'
  BY <1>0, <1>1, <1>2 DEF Carries, LastBefore, process
<1> QED BY <1>4, <1>5 DEF DriveInv

(* Lines come in, or the end of the stream.                                *)
LEMMA ReadKeepsDrive ==
    ASSUME DriveInv, Read
    PROVE  DriveInv'
<1>0. Typed /\ Exchange /\ Carries /\ Streams
  BY TypedStreams DEF DriveInv
<1>1. /\ pc = "read" /\ rbuf = <<>>
      /\ UNCHANGED <<setupNext, awaitingAck, pushed, spoken, cmds, process>>
      /\ \/ pc' = "top" /\ UNCHANGED result
         \/ pc' = "end" /\ result' = "closed"
  BY <1>0 DEF Read, End, Exchange, Waiting
<1>2. result = "going"
  BY <1>0, <1>1 DEF Typed, Values
<1>3. Same /\ Streams' /\ (lines = <<>> => lines' = <<>> /\ rbuf' = <<>>)
  <2>1. ASSUME NEW n \in 1 .. Len(lines),
               rbuf' = SubSeq(lines, 1, n), lines' = SubSeq(lines, n + 1, Len(lines))
        PROVE  Same /\ Streams' /\ lines # <<>>
    BY <1>0, <1>1, <2>1, ReadShape DEF Streams
  <2>2. CASE UNCHANGED <<rbuf, lines>>
    BY <1>0, <1>1, <2>2, SameShape
  <2> QED BY <2>1, <2>2 DEF Read
<1>4. Typed'
  <2>1. Flags'
    BY <1>0, <1>1, <1>2, <1>3 DEF Typed, Flags, Streams, process, Failures
  <2>2. Values'
    BY <1>0, <1>1, <1>2, <1>3 DEF Typed, Values, Streams, process, Failures
  <2> QED BY <2>1, <2>2 DEF Typed
<1>5. Grown /\ Mute /\ Len(Stream') # Len(Stream) + 1
  <2>1. Stream \in Seq(Lines)
    BY <1>0, StreamTyped
  <2> QED BY <1>3, <2>1, GrownBy DEF Same, Mute
<1>6. Answered'
  BY <1>0, <1>1, <1>5, AnsweredGrown DEF Exchange, process
<1>7. Exchange'
  BY <1>0, <1>1, <1>3, <1>6 DEF Exchange, Waiting, InFlight, Logged, process
<1>8. Carries'
  <2>1. CASE UNCHANGED result
    BY <1>0, <1>1, <1>5, <2>1, CarriesGrown DEF process
  <2>2. CASE result' = "closed"
    BY <1>0, <1>1, <2>2, CarriesEnded DEF process
  <2> QED BY <1>1, <2>1, <2>2
<1> QED BY <1>4, <1>7, <1>8 DEF DriveInv

-----------------------------------------------------------------------------
(* openvpn's steps, and the theorems.                                      *)

(* The first "connected" stays the first, with its push before it.         *)
LEMMA FirstStands ==
    ASSUME Typed, Carries, Grown, result = "going", carried # "none", pushed' = pushed
    PROVE  \E i \in DOMAIN Stream' : /\ Stream'[i] = "connected"
                                     /\ \E p : p = carried /\ LastBefore(i, p)'
                                     /\ \A m \in 1 .. i - 1 : Stream'[m] # "connected"
<1> Streams /\ Stream \in Seq(Lines)
  BY TypedStreams, StreamTyped
<1>1. PICK i \in DOMAIN Stream : /\ Stream[i] = "connected" /\ LastBefore(i, carried)
                                 /\ \A m \in 1 .. i - 1 : Stream[m] # "connected"
  BY DEF Carries
<1>2. PICK p : p = carried
  OBVIOUS
<1>3. LastBefore(i, p)'
  BY <1>1, <1>2, LastKept DEF Grown
<1>4. i \in DOMAIN Stream' /\ \A m \in 1 .. i : Stream'[m] = Stream[m]
  BY <1>1 DEF Grown
<1> QED BY <1>1, <1>2, <1>3, <1>4

(* openvpn changes its state and says nothing.                             *)
LEMMA StillKeepsDrive ==
    ASSUME DriveInv, UNCHANGED <<pc, result, setupNext, awaitingAck, pushed, spoken, rbuf, allowFull>>,
           UNCHANGED <<lines, cmds, logging, reply, carried>>,
           holdDue' \in BOOLEAN, restarts' \in 0 .. Restarts,
           ovpn' \in {"held", "connected", "exited"} \/ (ovpn = "pushed" /\ ovpn' = "routed"),
           ovpn' = "connected" => ovpn = "connected"
    PROVE  DriveInv'
<1>0. Typed /\ Exchange /\ Carries
  BY DEF DriveInv
<1>1. Stream' = Stream
  BY DEF Stream
<1>2. Flags'
  BY <1>0 DEF Typed, Flags
<1>3. Values'
  BY <1>0 DEF Typed, Values
<1>4. Exchange'
  BY <1>0, <1>1 DEF Exchange, Waiting, InFlight, Answered, Logged
<1>5. Carries'
  BY <1>0, <1>1 DEF Carries, LastBefore
<1> QED BY <1>2, <1>3, <1>4, <1>5 DEF DriveInv, Typed

(* openvpn says something that is no push, no reply and not "connected".   *)
LEMMA SpeaksKeepsDrive ==
    ASSUME DriveInv, UNCHANGED drive, NEW l \in Lines, Streams', Said(l),
           l \notin Pushes \cup {"connected"} \cup Replies,
           UNCHANGED <<cmds, logging, reply, restarts, carried>>,
           ovpn \notin {"deaf"}, ovpn' \in {ovpn, "exited"}, holdDue' \in BOOLEAN
    PROVE  DriveInv'
<1>0. Typed /\ Exchange /\ Carries
  BY DEF DriveInv
<1>1. Stream \in Seq(Lines)
  BY <1>0, StreamTyped, TypedStreams
<1>2. Grown /\ Mute /\ (Len(Stream') = Len(Stream) + 1 => Stream'[Len(Stream) + 1] \notin Replies)
  BY <1>1, GrownBy DEF Said, Mute
<1>3. Flags'
  BY <1>0 DEF Typed, Flags, drive
<1>4. Values'
  BY <1>0 DEF Typed, Values, Streams, drive
<1>5. Answered'
  BY <1>0, <1>2, AnsweredGrown DEF Exchange, drive
<1>6. Exchange'
  BY <1>0, <1>5 DEF Exchange, Waiting, InFlight, Logged, drive
<1>7. Carries'
  BY <1>0, <1>2, CarriesGrown DEF drive
<1> QED BY <1>3, <1>4, <1>6, <1>7 DEF DriveInv, Typed

(* What it loses when it wakes was never sent.                             *)
LEMMA WakeKeepsDrive ==
    ASSUME DriveInv, Wake
    PROVE  DriveInv'
<1>0. Typed /\ Exchange /\ Carries /\ Streams
  BY TypedStreams DEF DriveInv
<1>1. /\ ovpn = "deaf" /\ ovpn' = "held" /\ holdDue' = TRUE /\ cmds' = <<>>
      /\ lines' = Append(lines, "banner")
      /\ UNCHANGED <<drive, logging, reply, restarts, carried>>
  BY DEF Wake, Say
<1>2. rbuf' = rbuf /\ "banner" \in Lines /\ cmds = <<>>
  BY <1>0, <1>1 DEF drive, Lines, Exchange, Waiting
<1>3. Said("banner") /\ Streams'
  BY <1>0, <1>1, <1>2, SayShape
<1>4. Stream \in Seq(Lines)
  BY <1>0, StreamTyped
<1>5. Grown /\ Mute /\ (Len(Stream') = Len(Stream) + 1 => Stream'[Len(Stream) + 1] \notin Replies)
  BY <1>2, <1>3, <1>4, GrownBy DEF Said, Mute, Pushes, Replies
<1>6. Flags'
  BY <1>0, <1>1 DEF Typed, Flags, drive
<1>7. Values'
  BY <1>0, <1>1, <1>2, <1>3 DEF Typed, Values, Streams, drive
<1>8. Answered'
  BY <1>0, <1>1, <1>2, <1>5, AnsweredGrown DEF Exchange, drive
<1>9. Exchange'
  BY <1>0, <1>1, <1>2, <1>8 DEF Exchange, Waiting, InFlight, Logged, drive
<1>10. Carries'
  BY <1>0, <1>1, <1>5, CarriesGrown DEF drive
<1> QED BY <1>6, <1>7, <1>9, <1>10 DEF DriveInv, Typed

(* A last word, or none.                                                   *)
LEMMA GiveUpKeepsDrive ==
    ASSUME DriveInv, GiveUp
    PROVE  DriveInv'
<1>0. Typed /\ Streams
  BY TypedStreams DEF DriveInv
<1>1. /\ ovpn \notin {"deaf", "exited"} /\ ovpn' = "exited"
      /\ UNCHANGED <<drive, cmds, holdDue, logging, reply, restarts, carried>>
  BY DEF GiveUp
<1>2. holdDue' \in BOOLEAN
  BY <1>0, <1>1 DEF Typed, Flags
<1>3. PICK last \in {<<>>, <<"exiting">>, <<"badlogin">>, <<"fatal">>} : lines' = lines \o last
  BY DEF GiveUp
<1>4. CASE last = <<>>
  <2>1. lines' = lines
    BY <1>0, <1>3, <1>4 DEF Streams
  <2>2. restarts' \in 0 .. Restarts
    BY <1>0, <1>1 DEF Typed, Values
  <2> QED BY <1>1, <1>2, <2>1, <2>2, StillKeepsDrive DEF drive
<1>5. ASSUME NEW l \in {"exiting", "badlogin", "fatal"}, last = <<l>>
      PROVE  DriveInv'
  <2>1. l \in Lines /\ l \notin Pushes \cup {"connected"} \cup Replies /\ rbuf' = rbuf
    BY <1>1 DEF Lines, Pushes, Replies, drive
  <2>2. Said(l) /\ Streams'
    BY <1>0, <1>3, <1>5, <2>1, LastWordShape
  <2> QED BY <1>1, <1>2, <2>1, <2>2, SpeaksKeepsDrive
<1> QED BY <1>3, <1>4, <1>5

(* It reads exactly one command, and answers it.                           *)
LEMMA ReadCommandsKeepsDrive ==
    ASSUME DriveInv, ReadCommands
    PROVE  DriveInv'
<1>0. Typed /\ Exchange /\ Carries /\ Streams
  BY TypedStreams DEF DriveInv
<1>1. /\ ovpn \notin {"deaf", "exited"} /\ cmds # <<>> /\ cmds' = <<>>
      /\ UNCHANGED <<drive, holdDue, reply, restarts, carried>>
  BY DEF ReadCommands
<1>2. setupNext \in 1 .. 3 /\ cmds = <<Setup[setupNext]>> /\ awaitingAck
  BY <1>0, <1>1 DEF Exchange, InFlight
<1>3. PICK c \in Commands : c = Setup[setupNext] /\ cmds = <<c>>
  BY <1>2, SetupCommands
<1>4. Len(cmds) = 1 /\ Head(cmds) = c
  BY <1>3
<1>5. PICK l \in Replies :
        /\ lines' = Append(lines, l)
        /\ l = "success" => Execute(c)
        /\ l = "error" => UNCHANGED <<ovpn, logging>>
  BY <1>4 DEF ReadCommands, Say, Replies
<1>6. /\ logging \subseteq logging' /\ logging' \subseteq logging \cup (Commands \ {"hold release"})
      /\ l = "success" /\ c = "log on" => "log on" \in logging'
      /\ ovpn' = ovpn \/ (ovpn = "held" /\ ovpn' = "dialing" /\ c = "hold release")
  BY <1>5 DEF Execute, Replies
<1>7. l \in Lines /\ rbuf' = rbuf
  BY <1>1, <1>5 DEF Replies, Lines, drive
<1>8. Said(l) /\ Streams' /\ Stream \in Seq(Lines)
  BY <1>0, <1>5, <1>7, SayShape, StreamTyped
<1>9. Grown /\ Mute
  BY <1>5, <1>7, <1>8, GrownBy DEF Said, Mute, Replies, Pushes
<1>10. Flags'
  BY <1>0, <1>1 DEF Typed, Flags, drive
<1>11. Values'
  <2>1. logging' \subseteq {"state on", "log on"}
    BY <1>0, <1>6 DEF Typed, Values, Commands
  <2>2. ovpn' \in {"deaf", "held", "dialing", "pushed", "routed", "connected", "exited"}
    BY <1>0, <1>6 DEF Typed, Values
  <2>3. cmds' \in Seq(Commands)
    BY <1>1
  <2>4. UNCHANGED <<pc, result, setupNext, pushed, reply, restarts, carried>>
    BY <1>1 DEF drive
  <2> QED BY <1>0, <1>8, <2>1, <2>2, <2>3, <2>4 DEF Typed, Values, Streams
<1>12. \A i \in DOMAIN Stream : Stream[i] \notin Replies
  BY <1>0, <1>1 DEF Exchange, Answered
<1>13. \A i \in DOMAIN Stream' : Stream'[i] \in Replies => i = Len(Stream) + 1 /\ Stream'[i] = l
  BY <1>8, <1>12 DEF Said
<1>14. setupNext = 2 => c = "log on"
  BY <1>3, SetupCommands
<1>15. UNCHANGED <<setupNext, awaitingAck>>
  BY <1>1 DEF drive
<1>16. Answered'
  <2>1. l = "success" /\ setupNext = 2 => "log on" \in logging'
    BY <1>6, <1>14
  <2> QED BY <1>1, <1>2, <1>13, <1>15, <2>1 DEF Answered
<1>17. c = "hold release" => setupNext = 3
  <2>1. setupNext = 1 \/ setupNext = 2 \/ setupNext = 3
    BY <1>2
  <2> QED BY <1>3, <2>1, SetupCommands
<1>18. Logged'
  <2>1. setupNext = 3 => "log on" \in logging'
    BY <1>0, <1>6 DEF Exchange, Logged
  <2> QED BY <1>0, <1>1, <1>2, <1>6, <1>15, <1>17, <2>1 DEF Exchange, Logged
<1>19. Exchange'
  BY <1>0, <1>1, <1>6, <1>16, <1>18 DEF Exchange, Waiting, InFlight, drive
<1>20. Carries'
  BY <1>0, <1>1, <1>6, <1>9, CarriesGrown DEF drive
<1> QED BY <1>10, <1>11, <1>19, <1>20 DEF DriveInv, Typed

(* The push is said, because the log is on.                                *)
LEMMA PushKeepsDrive ==
    ASSUME DriveInv, Push
    PROVE  DriveInv'
<1>0. Typed /\ Exchange /\ Carries /\ Streams
  BY TypedStreams DEF DriveInv
<1>1. /\ ovpn = "dialing" /\ ovpn' = "pushed"
      /\ UNCHANGED <<drive, cmds, holdDue, logging, restarts, carried>>
  BY DEF Push
<1>2. "log on" \in logging
  BY <1>0, <1>1 DEF Exchange, Logged
<1>3. PICK l \in Pushes : reply' = l /\ lines' = Append(lines, l)
  BY <1>2 DEF Push, Say
<1>4. /\ l \in Lines /\ rbuf' = rbuf /\ l \notin Replies /\ l # "connected"
      /\ UNCHANGED <<pushed, result, allowFull>>
  BY <1>1, <1>3 DEF Lines, Pushes, Replies, drive
<1>5. Said(l) /\ Streams' /\ Stream \in Seq(Lines)
  BY <1>0, <1>3, <1>4, SayShape, StreamTyped
<1>6. Grown /\ (Len(Stream') = Len(Stream) + 1 => Stream'[Len(Stream) + 1] \notin Replies)
  BY <1>4, <1>5, GrownBy DEF Said
<1>7. Flags'
  BY <1>0, <1>1 DEF Typed, Flags, drive
<1>8. Values'
  BY <1>0, <1>1, <1>3, <1>5 DEF Typed, Values, Streams, drive
<1>9. Answered'
  BY <1>0, <1>1, <1>6, AnsweredGrown DEF Exchange, drive
<1>10. Exchange'
  BY <1>0, <1>1, <1>2, <1>3, <1>9 DEF Exchange, Waiting, InFlight, Logged, drive
<1>11. ASSUME result = "going", carried = "none"
       PROVE  /\ \A i \in DOMAIN Stream' : Stream'[i] # "connected"
              /\ \E p : p = reply' /\ LastBefore(Len(Stream) + 1, p)'
  <2>1. \A i \in DOMAIN Stream' : Stream'[i] # "connected"
    BY <1>0, <1>4, <1>5, <1>11 DEF Carries, Said
  <2>2. PICK n \in Nat : n = Len(Stream')
    BY <1>5 DEF Said
  <2>3. n \in 1 .. n /\ Stream'[n] = l
    BY <1>5, <2>2 DEF Said
  <2>4. LastBefore(n + 1, l)'
    BY <1>3, <2>2, <2>3 DEF LastBefore
  <2> QED BY <1>3, <2>1, <2>2, <2>4
<1>12. Carries'
  BY <1>0, <1>1, <1>4, <1>6, <1>11, FirstStands DEF Carries
<1> QED BY <1>7, <1>8, <1>10, <1>12 DEF DriveInv, Typed

(* The first connection fixes what is carried: the last push said.         *)
LEMMA ConnectedKeepsDrive ==
    ASSUME DriveInv, Connected
    PROVE  DriveInv'
<1>0. Typed /\ Exchange /\ Carries /\ Streams
  BY TypedStreams DEF DriveInv
<1>1. /\ ovpn = "routed" /\ ovpn' = "connected"
      /\ carried' = (IF carried = "none" THEN reply ELSE carried)
      /\ UNCHANGED <<drive, cmds, holdDue, logging, reply, restarts>>
  BY DEF Connected
<1>2. "log on" \in logging /\ reply \in Pushes
  BY <1>0, <1>1 DEF Exchange, Logged
<1>3. lines' = Append(lines, "connected")
  BY <1>2 DEF Connected, Say
<1>4. /\ "connected" \in Lines /\ rbuf' = rbuf /\ "connected" \notin Replies
      /\ UNCHANGED <<pushed, result, allowFull>>
  BY <1>1 DEF Lines, Replies, drive
<1>5. Said("connected") /\ Streams' /\ Stream \in Seq(Lines)
  BY <1>0, <1>3, <1>4, SayShape, StreamTyped
<1>6. Grown /\ (Len(Stream') = Len(Stream) + 1 => Stream'[Len(Stream) + 1] \notin Replies)
  BY <1>4, <1>5, GrownBy DEF Said
<1>7. Flags'
  BY <1>0, <1>1 DEF Typed, Flags, drive
<1>8. Values'
  BY <1>0, <1>1, <1>2, <1>5 DEF Typed, Values, Streams, drive
<1>9. Answered'
  BY <1>0, <1>1, <1>6, AnsweredGrown DEF Exchange, drive
<1>10. Exchange'
  BY <1>0, <1>1, <1>2, <1>9 DEF Exchange, Waiting, InFlight, Logged, drive
<1>11. carried' # "none"
  BY <1>1, <1>2 DEF Pushes
<1>12. ASSUME result = "going"
       PROVE  \E i \in DOMAIN Stream' : /\ Stream'[i] = "connected"
                                        /\ \E p : p = carried' /\ LastBefore(i, p)'
                                        /\ \A m \in 1 .. i - 1 : Stream'[m] # "connected"
  <2>1. CASE carried # "none"
    BY <1>0, <1>1, <1>4, <1>6, <1>12, <2>1, FirstStands
  <2>2. CASE carried = "none"
    <3>1. PICK p : p = reply
      OBVIOUS
    <3>2. PICK n \in 1 .. Len(Stream) + 1 : n = Len(Stream) + 1
      BY <1>5
    <3>3. LastBefore(n, p)
      BY <1>0, <1>1, <1>12, <2>2, <3>1, <3>2 DEF Carries
    <3>4. LastBefore(n, p)'
      BY <1>0, <1>4, <1>6, <3>3, LastKept DEF Grown
    <3>5. n \in DOMAIN Stream' /\ Stream'[n] = "connected"
      BY <1>5, <3>2 DEF Said
    <3>6. \A m \in 1 .. n - 1 : Stream'[m] # "connected"
      BY <1>0, <1>5, <1>12, <2>2, <3>2 DEF Carries, Said
    <3>7. p = carried'
      BY <1>1, <2>2, <3>1
    <3> QED BY <3>4, <3>5, <3>6, <3>7
  <2> QED BY <2>1, <2>2
<1>13. result = "up" => pushed = carried'
  BY <1>0, <1>1 DEF Carries
<1>14. Carries'
  BY <1>0, <1>4, <1>11, <1>12, <1>13 DEF Carries
<1> QED BY <1>7, <1>8, <1>10, <1>14 DEF DriveInv, Typed

(* A hold is announced.                                                    *)
LEMMA SayHoldKeepsDrive ==
    ASSUME DriveInv, SayHold
    PROVE  DriveInv'
<1>1. Streams
  BY TypedStreams DEF DriveInv
<1>2. "hold" \in Lines /\ "hold" \notin Pushes \cup {"connected"} \cup Replies
  BY DEF Lines, Pushes, Replies
<1>3. Said("hold") /\ Streams'
  BY <1>1, <1>2, SayShape DEF SayHold, Say, drive
<1> QED BY <1>2, <1>3, SpeaksKeepsDrive DEF SayHold

(* The steps nobody is told of.                                            *)
LEMMA QuietKeepsDrive ==
    ASSUME DriveInv, StopChild \/ InstallRoutes \/ Restart
    PROVE  DriveInv'
<1>1. holdDue \in BOOLEAN /\ restarts \in 0 .. Restarts
  BY DEF DriveInv, Typed, Flags, Values
<1>2. /\ UNCHANGED <<pc, result, setupNext, awaitingAck, pushed, spoken, rbuf, allowFull>>
      /\ UNCHANGED <<lines, cmds, logging, reply, carried>>
  BY DEF StopChild, InstallRoutes, Restart, drive
<1>3. holdDue' \in BOOLEAN
  BY <1>1 DEF StopChild, InstallRoutes, Restart
<1>4. restarts' \in 0 .. Restarts
  <2>1. restarts' = restarts \/ (restarts < Restarts /\ restarts' = restarts + 1)
    BY DEF StopChild, InstallRoutes, Restart
  <2> QED BY <1>1, <2>1, DriveAssumption
<1> QED BY <1>2, <1>3, <1>4, StillKeepsDrive DEF StopChild, InstallRoutes, Restart

(* Every step keeps it.                                                    *)
LEMMA DriveNext ==
    ASSUME DriveInv, [Next]_vars
    PROVE  DriveInv'
<1>1. CASE Drive
  BY <1>1, TopKeepsDrive, TakeReplyKeepsDrive, TakePushKeepsDrive, TakeHoldKeepsDrive,
     TakeEndingKeepsDrive, TakeOtherKeepsDrive, SendSetupKeepsDrive, ReadKeepsDrive DEF Drive
<1>2. CASE Openvpn \/ StopChild
  BY <1>2, WakeKeepsDrive, SayHoldKeepsDrive, ReadCommandsKeepsDrive, PushKeepsDrive,
     QuietKeepsDrive, ConnectedKeepsDrive, GiveUpKeepsDrive DEF Openvpn
<1>3. CASE UNCHANGED vars
  <2>1. Stream' = Stream
    BY <1>3 DEF vars, Stream
  <2>2. Flags'
    BY <1>3 DEF DriveInv, Typed, Flags, vars
  <2>3. Values'
    BY <1>3 DEF DriveInv, Typed, Values, vars
  <2>4. Exchange'
    BY <1>3, <2>1 DEF DriveInv, Exchange, Waiting, InFlight, Answered, Logged, vars
  <2>5. Carries'
    BY <1>3, <2>1 DEF DriveInv, Carries, LastBefore, vars
  <2> QED BY <2>2, <2>3, <2>4, <2>5 DEF DriveInv, Typed
<1> QED BY <1>1, <1>2, <1>3 DEF Next, Over

(* Types; and drive waits for a reply whenever a command of its, or the    *)
(* reply to one, is under way.                                             *)
THEOREM DriveTypes == Spec => []TypeOK
BY InitDrive, DriveNext, TypeOKFollows, PTL DEF Spec

(* UpMeansPushed: a tunnel reported up carries the push openvpn connected  *)
(* with, also when an earlier attempt of the same openvpn was pushed       *)
(* something else, and a full one only if the request allowed it.          *)
THEOREM UpIsPushed == Spec => []UpMeansPushed
<1>1. DriveInv => UpMeansPushed
  BY DEF DriveInv, Carries, UpMeansPushed
<1> QED BY InitDrive, DriveNext, <1>1, PTL DEF Spec
====
