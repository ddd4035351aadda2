---------------------------- MODULE IniDocument -----------------------------
(***************************************************************************)
(* The ini dialect two importers share (ini.rs).  A value is the sequence  *)
(* of the words between its separators; keys and section names are in one  *)
(* case.                                                                   *)
(***************************************************************************)
EXTENDS Naturals, Sequences, SequencesExt

\* A value no entry holds: nothing is called so and no table lists it, so a
\* reader that requires a value fails on it.
Nothing == "(absent)"
Absent == <<Nothing>>

NoSection == [name |-> Nothing, begins |-> {}, entries |-> << >>]

Hits(s, key) == SelectSeq(s.entries, LAMBDA e : e.key = key)
Has(s, key) == Hits(s, key) # << >>

\* Of several entries under one key the last one counts.
Get(s, key) == Last(<<[key |-> key, value |-> Absent]>> \o Hits(s, key)).value

\* Of several sections with one name the first one counts.
Section(doc, name) == Head(SelectSeq(doc, LAMBDA s : s.name = name) \o <<NoSection>>)

SectionsLike(doc, prefix) == SelectSeq(doc, LAMBDA s : prefix \in s.begins)

\* The first of the alternatives a value lists, and the value taken whole.
First(value) == Head(value \o <<Nothing>>)
Whole(value) == IF Len(value) = 1 THEN value[1] ELSE Nothing

(***************************************************************************)
(* Reading the lines: [is, name, begins, key, value] with `is` one of      *)
(* "section", "pair", "comment" and "junk"; `begins` is the set of those   *)
(* prefixes a reader asks for that the name of the section begins with.    *)
(***************************************************************************)
Malformed(lines) ==
    \E i \in DOMAIN lines :
        \/ lines[i].is = "junk"
        \/ lines[i].is = "section" /\ lines[i].name = ""
        \/ lines[i].is = "pair" /\ (lines[i].key = "" \/ \A k \in 1 .. i - 1 : lines[k].is # "section")

AddLine(doc, line) ==
    IF line.is = "section"
    THEN Append(doc, [name |-> line.name, begins |-> line.begins, entries |-> << >>])
    ELSE IF line.is = "pair"
         THEN [doc EXCEPT ![Len(doc)].entries =
                   Append(@, [key |-> line.key, value |-> line.value])]
         ELSE doc

Parse(lines) ==
    IF Malformed(lines) THEN [ok |-> FALSE, doc |-> << >>]
    ELSE [ok |-> TRUE, doc |-> FoldLeft(AddLine, << >>, lines)]

=============================================================================
