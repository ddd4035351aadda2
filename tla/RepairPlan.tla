----------------------------- MODULE RepairPlan -----------------------------
(***************************************************************************)
(* Repairing a live tunnel network by network (vpn-control): reading       *)
(* charon's list of SAs, finding the CHILD_SAs that share a reqid, the     *)
(* plan of what is initiated, replaced and left alone, and the pass that   *)
(* carries the plan out.  A network is a selector, compared as it is       *)
(* written; an SA charon lists is a record.                                *)
(***************************************************************************)
EXTENDS CharonConfig, FiniteSets

CONSTANT MaxLogLines    \* the lines a pass's log takes of charon's

Unknown == 0        \* a version charon did not state

Installed(sas) == {c \in sas : c.state = "INSTALLED"}

Ts(c) == {c.remote_ts[i] : i \in DOMAIN c.remote_ts}

(***************************************************************************)
(* Reqids.  Of the CHILD_SAs on one reqid that carry different networks,   *)
(* the ones that sent less than the busiest are its victims.               *)
(***************************************************************************)
Sharers(sas, r) == {c \in Installed(sas) : c.reqid = r}

Collides(sas, r) == r # NoTerm /\ Cardinality({Ts(c) : c \in Sharers(sas, r)}) > 1

Victims(sas) ==
    {c \in Installed(sas) :
        /\ Collides(sas, c.reqid)
        /\ \E d \in Sharers(sas, c.reqid) : d.packets_out > c.packets_out}

(***************************************************************************)
(* The layout that runs: as charon states it, else as the SAs tell, else   *)
(* as the profile says.                                                    *)
(***************************************************************************)
LiveVersion_Profile(config, stated, live) == config.version

LiveVersion(config, stated, live) ==
    LET wanted == {config.nets[i] : i \in DOMAIN config.nets}
        up == Installed(live)
    IN  IF stated # Unknown THEN stated
        ELSE IF \E c \in up : Cardinality(Ts(c) \cap wanted) > 1 THEN 2
        ELSE IF Cardinality(up) > 1 THEN 1
        ELSE config.version

Step(entry, live, dead) ==
    LET wanted == {entry.nets[i] : i \in DOMAIN entry.nets}
        up     == {c \in Installed(live) : Ts(c) \cap wanted # {}}
        silent == wanted \cap dead
        carried == UNION {Ts(c) : c \in up}
    IN  [child |-> entry.child, wanted |-> wanted,
         action |-> IF up = {} THEN "initiate" ELSE IF silent # {} THEN "replace" ELSE "keep",
         stale  |-> IF silent # {} THEN {c.id : c \in up} \ {NoTerm} ELSE {},
         healthy |-> wanted \cap carried, narrowed |-> wanted \ carried]

PlanRepair(config, stated, live, dead) ==
    LET s == ChildSelectors(config, LiveVersion(config, stated, live))
    IN  [i \in DOMAIN s |-> Step(s[i], live, dead)]

(***************************************************************************)
(* Why a handshake failed, read from the transcript: a sequence of lines,  *)
(* each the set of the words in it that the client looks for.  The first   *)
(* reading that some line bears out counts, for a gateway that refuses a   *)
(* password also says that authentication failed, and one that answers and *)
(* refuses is sent retransmits as well.                                    *)
(***************************************************************************)
InteractiveAuthFailed(line) == "FAIL" \in line /\ line \cap {"XAUTH", "EAP"} # {}
PskAuthFailed(line) ==
    line \cap {"AUTHENTICATION_FAILED", "COULD NOT DECRYPT", "NO SHARED KEY FOUND"} # {}
NeverAnswered(line) ==
    line \cap {"PEER NOT RESPONDING", "GIVING UP AFTER", "RETRANSMIT"} # {}
IkeEstablished(line) == {"IKE_SA", "ESTABLISHED"} \subseteq line

Kinds == <<"user-credentials", "preshared-key", "no-proposal", "traffic-selectors",
           "no-virtual-ip", "gateway-unreachable", "child-sa">>

ClassifyFailure(log) ==
    LET says(Reads(_)) == \E i \in DOMAIN log : Reads(log[i])
        fits == <<says(InteractiveAuthFailed), says(PskAuthFailed),
                  says(LAMBDA line : "NO_PROP" \in line),
                  says(LAMBDA line : "TS_UNACCEP" \in line),
                  says(LAMBDA line : "INTERNAL_ADDR" \in line),
                  says(NeverAnswered), says(IkeEstablished)>>
        i == SelectInSeq(fits, LAMBDA fit : fit)
    IN  IF i = 0 THEN "unknown" ELSE Kinds[i]

(***************************************************************************)
(* The pass, one child after another.  A request r of one is the profile,  *)
(* the IKE_SA and every SA as charon lists them, the networks told dead,   *)
(* and what charon will do: the children it accepts, and what it says of   *)
(* each.  There is nothing to do without a live IKE_SA; the victims of a   *)
(* collision are dead too.                                                 *)
(***************************************************************************)
Live(r) == {c \in r.sas : c.conn = r.ike.name}
DeadNets(r) == r.told \cup UNION {Ts(c) : c \in Victims(r.sas)}

StepsOf(r) ==
    IF r.ike.up THEN PlanRepair(r.config, r.ike.version, Live(r), DeadNets(r)) ELSE << >>

Ours == {}              \* a line of the client's own
Verdict(kind) == IF kind = "child-sa" THEN {"IKE_SA", "ESTABLISHED"} ELSE Ours

NothingDone(r) ==
    LET reqids == {c.reqid : c \in Installed(r.sas)}
    IN  [terminated |-> {}, restored |-> {}, failed |-> {}, healthy |-> {}, narrowed |-> {},
         log |-> [i \in 1 .. Cardinality({q \in reqids : Collides(r.sas, q)}) |-> Ours]]

\* A replaced child's SAs are told to go before it is initiated anew.
TearDown(out, s) ==
    [out EXCEPT !.terminated = @ \cup s.stale,
                !.log = @ \o [i \in 1 .. 1 + Cardinality(s.stale) |-> Ours]]

\* The lines of charon's that the log still takes.
Heard(log, says) ==
    LET room == IF Len(log) < MaxLogLines THEN MaxLogLines - Len(log) ELSE 0
    IN  SubSeq(says, 1, IF Len(says) < room THEN Len(says) ELSE room)

Restored(out, s, heard) ==
    [out EXCEPT !.restored = @ \cup s.wanted, !.log = @ \o heard \o <<Ours>>]

NotRestored(out, s, heard, kind) ==
    [out EXCEPT !.failed = @ \cup {[net |-> n, child |-> s.child, reason |-> kind] : n \in s.wanted},
                !.log = @ \o heard \o <<Verdict(kind)>>]

Reinitiate_WholeLog(out, s, r) ==
    LET heard == Heard(out.log, r.says[s.child])
    IN  IF s.child \in r.accepts THEN Restored(out, s, heard)
        ELSE NotRestored(out, s, heard, ClassifyFailure(out.log \o heard))

\* Why it failed is read from the lines of this attempt alone.
Reinitiate(out, s, r) ==
    LET heard == Heard(out.log, r.says[s.child])
    IN  IF s.child \in r.accepts THEN Restored(out, s, heard)
        ELSE NotRestored(out, s, heard, ClassifyFailure(heard))

Keep(out, s) == [out EXCEPT !.healthy = @ \cup s.healthy, !.narrowed = @ \cup s.narrowed]

RunStep(out, s, r) ==
    IF s.action = "keep" THEN Keep(out, s) ELSE Reinitiate(TearDown(out, s), s, r)

\* Charon's socket fails under a step: the pass returns an error and reports
\* nothing, and some of the SAs may have been told to go.
BrokenOff(out, torn) == [out EXCEPT !.terminated = @ \cup torn]

=============================================================================
