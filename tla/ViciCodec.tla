----------------------------- MODULE ViciCodec ------------------------------
(***************************************************************************)
(* The vici client's messages (message.rs): the encoding of one, and its   *)
(* reading back.                                                           *)
(*                                                                         *)
(* A message is a sequence of entries [key, is, str, items, sub], a text   *)
(* the sequence of its bytes, a byte a number below Byte (256 in the       *)
(* code), so that a length of one and of two bytes can run over.           *)
(***************************************************************************)
EXTENDS Naturals, Sequences, SequencesExt

CONSTANT Byte
ASSUME ByteAssumption == Byte \in Nat /\ Byte > 6

SECTION_START == 1
SECTION_END == 2
KEY_VALUE == 3
LIST_START == 4
LIST_ITEM == 5
LIST_END == 6

(***************************************************************************)
(* Writing.                                                                *)
(***************************************************************************)
PushName(name) == <<Len(name)>> \o name
PushValue(value) == <<Len(value) \div Byte, Len(value) % Byte>> \o value

RECURSIVE Fits(_)
Fits(msg) ==
    \A i \in DOMAIN msg :
        /\ Len(msg[i].key) < Byte
        /\ Len(msg[i].str) < Byte * Byte
        /\ \A k \in DOMAIN msg[i].items : Len(msg[i].items[k]) < Byte * Byte
        /\ Fits(msg[i].sub)

RECURSIVE EncodeInto(_)
EncodeInto(msg) ==
    LET entry(e) ==
            CASE e.is = "str" -> <<KEY_VALUE>> \o PushName(e.key) \o PushValue(e.str)
              [] e.is = "list" ->
                   <<LIST_START>> \o PushName(e.key) \o
                   FlattenSeq([k \in DOMAIN e.items |-> <<LIST_ITEM>> \o PushValue(e.items[k])])
                   \o <<LIST_END>>
              [] e.is = "section" ->
                   <<SECTION_START>> \o PushName(e.key) \o EncodeInto(e.sub) \o <<SECTION_END>>
    IN  FlattenSeq([i \in DOMAIN msg |-> entry(msg[i])])

Encode(msg) == IF Fits(msg) THEN [ok |-> TRUE, buf |-> EncodeInto(msg)] ELSE [ok |-> FALSE]

(***************************************************************************)
(* Reading, from position `pos` on.  A failure is NoRead.                  *)
(***************************************************************************)
NoRead == [ok |-> FALSE]

Taken(buf, from, len) ==
    IF from + len - 1 <= Len(buf)
    THEN [ok |-> TRUE, pos |-> from + len, text |-> SubSeq(buf, from, from + len - 1)]
    ELSE NoRead

ReadName(buf, pos) == IF pos > Len(buf) THEN NoRead ELSE Taken(buf, pos + 1, buf[pos])

ReadValue(buf, pos) ==
    IF pos + 1 > Len(buf) THEN NoRead
    ELSE Taken(buf, pos + 2, buf[pos] * Byte + buf[pos + 1])

RECURSIVE ReadItems(_, _, _)
ReadItems(buf, pos, items) ==
    IF pos > Len(buf) THEN NoRead
    ELSE IF buf[pos] = LIST_END THEN [ok |-> TRUE, pos |-> pos + 1, items |-> items]
    ELSE IF buf[pos] # LIST_ITEM THEN NoRead
    ELSE LET v == ReadValue(buf, pos + 1)
         IN  IF v.ok THEN ReadItems(buf, v.pos, Append(items, v.text)) ELSE NoRead

Str(key, text) == [key |-> key, is |-> "str", str |-> text, items |-> << >>, sub |-> << >>]
List(key, items) == [key |-> key, is |-> "list", str |-> << >>, items |-> items, sub |-> << >>]
Sect(key, sub) == [key |-> key, is |-> "section", str |-> << >>, items |-> << >>, sub |-> sub]

AtEnd_Lenient(top, msg, pos) == [ok |-> TRUE, pos |-> pos, msg |-> msg]

\* Where the bytes end: a message ends there, a section does not.
AtEnd(top, msg, pos) == IF top THEN [ok |-> TRUE, pos |-> pos, msg |-> msg] ELSE NoRead

RECURSIVE ParseFrom(_, _, _, _)
ParseFrom(buf, pos, top, msg) ==
    IF pos > Len(buf) THEN AtEnd(top, msg, pos)
    ELSE IF buf[pos] = SECTION_END
         THEN IF top THEN NoRead ELSE [ok |-> TRUE, pos |-> pos + 1, msg |-> msg]
    ELSE IF buf[pos] \notin {SECTION_START, KEY_VALUE, LIST_START} THEN NoRead
    ELSE LET name == ReadName(buf, pos + 1)
             rest == IF ~name.ok THEN NoRead
                     ELSE IF buf[pos] = SECTION_START
                          THEN ParseFrom(buf, name.pos, FALSE, << >>)
                     ELSE IF buf[pos] = KEY_VALUE THEN ReadValue(buf, name.pos)
                          ELSE ReadItems(buf, name.pos, << >>)
             entry == IF buf[pos] = SECTION_START THEN Sect(name.text, rest.msg)
                      ELSE IF buf[pos] = KEY_VALUE THEN Str(name.text, rest.text)
                           ELSE List(name.text, rest.items)
         IN  IF rest.ok THEN ParseFrom(buf, rest.pos, top, Append(msg, entry)) ELSE NoRead

Decode(buf) == ParseFrom(buf, 1, TRUE, << >>)

=============================================================================
