------------------------- MODULE IkeConnect_proofs --------------------------
(***************************************************************************)
(* Proofs about IkeConnect for any profiles, networks, learned versions,   *)
(* any number of commands at once and any circumstances: types; no network *)
(* negotiated twice; one default route; DNS only with its tunnel; what a   *)
(* click may cost in rejected logins; and that both IKE versions are tried *)
(* before a connect gives up.                                              *)
(*                                                                         *)
(* None of these is inductive.  They rest on Sole and Alone (which         *)
(* commands may run at once), Loaded (charon has the version a command     *)
(* dials), Quiescent, and then each on what a command has made sure of at  *)
(* its place: ClearOf (nothing is up before the first child, nothing of    *)
(* the children left), RouteOf, DnsOf, ClearedBy, CostOf, TriedOf and      *)
(* HeardOf.  Sound is their conjunction.                                   *)
(*                                                                         *)
(* A command's step is first described by what it does to its own record   *)
(* (Walk: it ends, walks on, learns, loads, dials, completes or falls      *)
(* back) and to charon (CharonKept), and that nothing else changes         *)
(* (Apart); the invariants are proved from these descriptions.             *)
(***************************************************************************)
EXTENDS IkeConnect, TLAPS

(* Types. A job is a record; a profile has SA counts for its own networks. *)
Places == Connecting \cup Ending \cup {"idle"}
Looks == {"disconnected", "connecting", "established", "disconnecting"}
AllNets == UNION {Nets[p] : p \in Profiles}

JobRecs == [at : Places, prof : Profiles \cup {NoProfile}, ver : Versions \cup {0},
            alt : BOOLEAN, todo : SUBSET SUBSET AllNets, up : BOOLEAN,
            saw : SUBSET Words, good : BOOLEAN, rejected : [Versions -> Nat],
            moved : BOOLEAN]

JobsTyped == job \in [Jobs -> JobRecs]

(* What a command carries at each place. *)
Shaped(j) ==
    /\ job[j].at = "idle" <=> job[j].prof = NoProfile
    /\ job[j].at \in {"full", "adopt", "load", "dial", "rest", "judge", "remember"} =>
          job[j].ver \in Versions
    /\ job[j].at \in {"dial", "rest"} =>
          job[j].todo # {} /\ job[j].todo \subseteq Children(job[j].prof, job[j].ver)
    /\ job[j].at \in {"rest", "remember", "resolve"} => job[j].up
    /\ job[j].up => job[j].at \in {"rest", "judge", "remember", "wait", "resolve"}
    /\ job[j].alt => job[j].ver \in Versions

JobsShaped == \A j \in Jobs : Shaped(j)

(* charon, the gateways and DNS; nothing is loaded or up without charon.   *)
NetTyped ==
    /\ conn \in [Profiles -> Versions \cup {0}]
    /\ ike \in [Profiles -> SUBSET Versions]
    /\ gateway \in [Profiles -> SUBSET Versions]
    /\ sa = [p \in Profiles |-> sa[p]]
    /\ \A p \in Profiles : sa[p] \in [Nets[p] -> {0, 1, 2}]
    /\ \A p \in Profiles : Carried(p) => ike[p] # {}
    /\ redial \subseteq Profiles
    /\ dns \subseteq Profiles
    /\ ~daemon => /\ redial = {}
                  /\ \A p \in Profiles : conn[p] = 0 /\ ike[p] = {} /\ ~Carried(p)

(* The window, and the learned versions. *)
ShownTyped ==
    /\ setting \in Settings
    /\ shown \in [Profiles -> Looks]
    /\ poll.live \subseteq Profiles
    /\ learned \in [Profiles -> [ver : Versions \cup {0}, age : 0 .. TTL]]
    /\ \A p \in Profiles : learned[p].ver # Stated[p]

BoolsTyped == quiet \in BOOLEAN /\ daemon \in BOOLEAN

(* The window shows a spinner only while a command of that profile runs.   *)
ShownRuns ==
    \A p \in Profiles : shown[p] \in {"connecting", "disconnecting"} =>
       \E j \in Jobs : job[j].prof = p

Typed == JobsTyped /\ JobsShaped /\ NetTyped /\ ShownTyped /\ BoolsTyped /\ ShownRuns

-----------------------------------------------------------------------------
(* What a step of one command leaves alone: the other commands, the other  *)
(* profiles, and all of its own record but its place.                      *)
Others(j) == \A k \in Jobs \ {j} : job'[k] = job[k]
Elsewhere(p) ==
    \A q \in Profiles \ {p} : /\ conn'[q] = conn[q] /\ ike'[q] = ike[q] /\ sa'[q] = sa[q]
                              /\ (q \in dns') <=> (q \in dns)
Kept(j) ==
    /\ job'[j].prof = job[j].prof /\ job'[j].ver = job[j].ver /\ job'[j].alt = job[j].alt
    /\ job'[j].todo = job[j].todo /\ job'[j].up = job[j].up /\ job'[j].saw = job[j].saw
    /\ job'[j].good = job[j].good /\ job'[j].rejected = job[j].rejected
    /\ job'[j].moved = job[j].moved

(* A command at rest is typed. *)
LEMMA IdleTyped == Idle \in JobRecs
BY IkeAssumption DEF Idle, JobRecs, Places, Versions

(* A command that goes on keeps its record. *)
LEMMA GoesTo ==
    ASSUME JobsTyped, NEW j \in Jobs, NEW there \in Places, Goes(j, there)
    PROVE  /\ JobsTyped' /\ Others(j) /\ Kept(j) /\ job'[j].at = there /\ shown' = shown
BY DEF JobsTyped, Goes, Others, Kept, JobRecs

(* A command that answers is at rest, and the window shows how for its     *)
(* profile only.                                                           *)
LEMMA Answers ==
    ASSUME JobsTyped, NEW j \in Jobs, NEW how \in Looks, Answer(j, how),
           shown \in [Profiles -> Looks], job[j].prof \in Profiles
    PROVE  /\ JobsTyped' /\ Others(j) /\ job'[j] = Idle
           /\ shown' \in [Profiles -> Looks]
           /\ shown'[job[j].prof] = how
           /\ \A q \in Profiles \ {job[j].prof} : shown'[q] = shown[q]
BY IdleTyped DEF JobsTyped, Answer, Others

(* What a command notes of one initiate, field by field. *)
LEMMA Noting ==
    ASSUME JobsTyped, NEW j \in Jobs, NEW c, NEW word \in Words,
           word = "rejected" => conn[job[j].prof] \in Versions,
           NEW r, r = Noted(j, c, word)
    PROVE  /\ r \in JobRecs
           /\ r.at = job[j].at /\ r.prof = job[j].prof /\ r.ver = job[j].ver
           /\ r.alt = job[j].alt /\ r.good = job[j].good /\ r.moved = job[j].moved
           /\ r.todo = job[j].todo \ {c} /\ r.saw = job[j].saw \cup {word}
           /\ r.up = (job[j].up \/ word = "up")
           /\ word # "rejected" => r.rejected = job[j].rejected
           /\ word = "rejected" => r.rejected = OneMore(j)
<1>1. job[j] \in JobRecs
  BY DEF JobsTyped
<1>2. /\ job[j].rejected \in [Versions -> Nat]
      /\ job[j].todo \in SUBSET SUBSET AllNets /\ job[j].saw \in SUBSET Words
  BY <1>1 DEF JobRecs
<1>. DEFINE rej == IF word = "rejected" THEN OneMore(j) ELSE job[j].rejected
            upp == job[j].up \/ word = "up"
            tod == job[j].todo \ {c}
            sw  == job[j].saw \cup {word}
<1>4. rej \in [Versions -> Nat]
  BY <1>2 DEF OneMore
<1>5. upp \in BOOLEAN
  BY Zenon
<1>6. tod \in SUBSET SUBSET AllNets /\ sw \in SUBSET Words
  BY <1>2
<1>7. r = [job[j] EXCEPT !.todo = tod, !.up = upp, !.saw = sw, !.rejected = rej]
  <2>1. CASE word # "rejected"
    BY <2>1 DEF Noted
  <2>2. CASE word = "rejected"
    BY <2>2 DEF Noted
  <2>. QED  BY <2>1, <2>2
<1>8. /\ word # "rejected" => rej = job[j].rejected
      /\ word = "rejected" => rej = OneMore(j)
  OBVIOUS
<1>. HIDE DEF rej, upp, tod, sw
<1>9. /\ r \in JobRecs
      /\ r.at = job[j].at /\ r.prof = job[j].prof /\ r.ver = job[j].ver
      /\ r.alt = job[j].alt /\ r.good = job[j].good /\ r.moved = job[j].moved
      /\ r.todo = tod /\ r.saw = sw /\ r.rejected = rej /\ r.up = upp
  BY <1>1, <1>4, <1>5, <1>6, <1>7 DEF JobRecs
<1>. QED  BY <1>8, <1>9, Zenon DEF tod, sw, upp

(* What every step of a command comes to: it ends with an answer, or goes  *)
(* on for the same profile and the window sees nothing.                    *)
Result(j) ==
    /\ JobsTyped' /\ Others(j) /\ Shaped(j)' /\ shown' \in [Profiles -> Looks]
    /\ \/ /\ job'[j] = Idle
          /\ shown'[job[j].prof] \in {"disconnected", "established"}
          /\ \A q \in Profiles \ {job[j].prof} : shown'[q] = shown[q]
       \/ job'[j].prof = job[j].prof /\ shown' = shown

(* Going on to a place whose demands are met is such a result. *)
LEMMA GoesResult ==
    ASSUME JobsTyped, NEW j \in Jobs, NEW there \in Places, Goes(j, there), Shaped(j),
           shown \in [Profiles -> Looks], job[j].prof # NoProfile,
           there \notin {"idle", "dial", "rest"},
           there \in {"full", "adopt", "load", "judge", "remember"} => job[j].ver \in Versions,
           there \in {"remember", "resolve"} => job[j].up,
           job[j].up => there \in {"judge", "remember", "wait", "resolve"}
    PROVE  Result(j)
<1>1. JobsTyped' /\ Others(j) /\ Kept(j) /\ job'[j].at = there /\ shown' = shown
  BY GoesTo
<1>2. Shaped(j)'
  BY <1>1 DEF Shaped, Kept
<1>. QED  BY <1>1, <1>2 DEF Result, Kept

(* So is answering. *)
LEMMA AnswerResult ==
    ASSUME JobsTyped, NEW j \in Jobs, NEW how \in {"disconnected", "established"},
           Answer(j, how), shown \in [Profiles -> Looks], job[j].prof \in Profiles
    PROVE  Result(j)
<1>1. how \in Looks
  BY DEF Looks
<1>2. /\ JobsTyped' /\ Others(j) /\ job'[j] = Idle /\ shown' \in [Profiles -> Looks]
      /\ shown'[job[j].prof] = how
      /\ \A q \in Profiles \ {job[j].prof} : shown'[q] = shown[q]
  BY <1>1, Answers
<1>3. Shaped(j)'
  BY <1>2 DEF Shaped, Idle
<1>. QED  BY <1>2, <1>3 DEF Result

(* What charon's word means: a rejection, that a login was refused under a *)
(* version the gateway speaks; no proposal, that it does not speak it.     *)
LEMMA InitiateSays ==
    ASSUME NetTyped, NEW j \in Jobs, NEW p \in Profiles, p = job[j].prof, NEW c,
           NEW word \in Words, Initiate(j, c, word)
    PROVE  /\ word = "rejected" =>
                 conn[p] \in Versions /\ conn[p] \in gateway[p] \ ike[p] /\ ~job[j].good
           /\ word = "failed" => conn[p] = 0 \/ May("fails") \/ May("refuses")
           /\ word = "noprop" =>
                 May("refuses") \/ (conn[p] \in Versions /\ conn[p] \notin gateway[p])
<1>1. /\ conn[p] \in Versions \cup {0} /\ ike[p] \subseteq Versions
      /\ gateway[p] \subseteq Versions /\ 0 \notin Versions
  BY DEF NetTyped, Versions
<1>2. CASE (conn[p] = 0 \/ May("fails")) /\ word = "failed"
  BY <1>2
<1>3. CASE conn[p] # 0 /\ conn[p] \notin ike[p] \cup gateway[p] /\ word = "noprop"
  BY <1>1, <1>3
<1>4. CASE conn[p] \in gateway[p] \ ike[p] /\ ~job[j].good /\ word = "rejected"
  BY <1>1, <1>4
<1>5. CASE word = "up"
  BY <1>5
<1>6. CASE May("refuses") /\ word \in {"noprop", "failed"}
  BY <1>6
<1>. QED  BY <1>2, <1>3, <1>4, <1>5, <1>6 DEF Initiate

(* Learn settles on a version. *)
LEMMA LearnResult ==
    ASSUME JobsTyped, NEW j \in Jobs, Shaped(j), ShownTyped, job[j].prof \in Profiles, Learn(j)
    PROVE  Result(j)
<1>. DEFINE p == job[j].prof
            v == IF Fresh(p).ver = 0 THEN Stated[p] ELSE Fresh(p).ver
<1>1. v \in Versions
  <2>1. Fresh(p).ver \in Versions \cup {0}
    BY DEF Fresh, ShownTyped, Nothing
  <2>. QED  BY <2>1, IkeAssumption
<1>2. job' = [job EXCEPT ![j] = [@ EXCEPT !.at = "full", !.ver = v]]
  BY DEF Learn
<1>. HIDE DEF v
<1>3. JobsTyped' /\ Others(j)
  <2>1. "full" \in Places
    BY DEF Places, Connecting
  <2>2. [job[j] EXCEPT !.at = "full", !.ver = v] \in JobRecs
    BY <1>1, <2>1 DEF JobsTyped, JobRecs
  <2>. QED  BY <1>2, <2>2 DEF JobsTyped, Others
<1>4. /\ job'[j].at = "full" /\ job'[j].ver = v /\ job'[j].prof = job[j].prof
      /\ job'[j].up = job[j].up /\ job'[j].alt = job[j].alt
  BY <1>2 DEF JobsTyped, JobRecs
<1>5. shown' = shown /\ job[j].at = "learn"
  BY DEF Learn, window
<1>6. Shaped(j)'
  BY <1>1, <1>4, <1>5 DEF Shaped
<1>. QED  BY <1>3, <1>4, <1>5, <1>6 DEF Result, ShownTyped

(* A child is some of the networks of its profile, and there is at least   *)
(* one.                                                                    *)
LEMMA ChildrenTyped ==
    ASSUME NEW p \in Profiles, NEW v
    PROVE  /\ Children(p, v) # {}
           /\ \A c \in Children(p, v) : c # {} /\ c \subseteq Nets[p]
           /\ Children(p, v) \in SUBSET SUBSET AllNets
           /\ \A c, d \in Children(p, v) : c # d => c \cap d = {}
<1>1. Nets[p] # {} /\ Nets[p] \subseteq AllNets
  BY IkeAssumption DEF AllNets
<1>2. CASE v = 1
  BY <1>1, <1>2 DEF Children
<1>3. CASE v # 1
  BY <1>1, <1>3 DEF Children
<1>. QED  BY <1>2, <1>3

(* Load leaves the children to ask for. *)
LEMMA LoadResult ==
    ASSUME JobsTyped, NEW j \in Jobs, Shaped(j), ShownTyped, job[j].prof \in Profiles, Load(j)
    PROVE  Result(j)
<1>1. CASE Answer(j, "disconnected")
  BY <1>1, AnswerResult DEF ShownTyped
<1>2. CASE /\ job' = [job EXCEPT ![j] =
                [@ EXCEPT !.at = "dial", !.todo = Children(job[j].prof, job[j].ver)]]
           /\ shown' = shown
  <2>1. /\ Children(job[j].prof, job[j].ver) # {}
        /\ Children(job[j].prof, job[j].ver) \in SUBSET SUBSET AllNets
    BY ChildrenTyped
  <2>2. "dial" \in Places /\ job[j].at = "load"
    BY DEF Places, Connecting, Load
  <2>3. JobsTyped' /\ Others(j)
    <3>1. PICK kids \in SUBSET SUBSET AllNets : kids = Children(job[j].prof, job[j].ver)
      BY <2>1, Zenon
    <3>2. job[j] \in JobRecs
      BY DEF JobsTyped
    <3>3. [job[j] EXCEPT !.at = "dial", !.todo = kids] \in JobRecs
      BY <2>2, <3>2 DEF JobRecs
    <3>. QED  BY <1>2, <3>1, <3>3 DEF JobsTyped, Others
  <2>4. /\ job'[j].at = "dial" /\ job'[j].ver = job[j].ver /\ job'[j].prof = job[j].prof
        /\ job'[j].up = job[j].up /\ job'[j].alt = job[j].alt
        /\ job'[j].todo = Children(job[j].prof, job[j].ver)
    BY <1>2 DEF JobsTyped, JobRecs
  <2>5. Shaped(j)'
    BY <2>1, <2>2, <2>4 DEF Shaped
  <2>. QED  BY <1>2, <2>3, <2>4, <2>5 DEF Result, ShownTyped
<1>. QED  BY <1>1, <1>2 DEF Load

(* The part of Noted that the invariants speak of, and an initiate whether *)
(* or not charon runs.                                                     *)
Noticed(j, c, word) ==
    /\ job'[j].prof = job[j].prof /\ job'[j].ver = job[j].ver /\ job'[j].alt = job[j].alt
    /\ job'[j].good = job[j].good /\ job'[j].moved = job[j].moved
    /\ job'[j].todo = job[j].todo \ {c}
    /\ job'[j].up = (job[j].up \/ word = "up")
    /\ word # "rejected" => job'[j].rejected = job[j].rejected
    /\ word = "rejected" => job'[j].rejected = OneMore(j)

Asked(j, c, word) ==
    \/ daemon /\ Initiate(j, c, word)
    \/ ~daemon /\ word = "failed" /\ UNCHANGED <<ike, sa>>

(* InitiateSays, when charon may be gone. *)
LEMMA AskedSays ==
    ASSUME NetTyped, NEW j \in Jobs, NEW p \in Profiles, p = job[j].prof, NEW c,
           NEW word \in Words, Asked(j, c, word)
    PROVE  /\ word = "rejected" =>
                 daemon /\ conn[p] \in Versions /\ conn[p] \in gateway[p] \ ike[p] /\ ~job[j].good
           /\ word = "failed" => conn[p] = 0 \/ May("fails") \/ May("refuses")
           /\ word = "noprop" =>
                 May("refuses") \/ (conn[p] \in Versions /\ conn[p] \notin gateway[p])
<1>1. CASE daemon /\ Initiate(j, c, word)
  BY <1>1, InitiateSays, Zenon
<1>2. CASE ~daemon /\ word = "failed"
  <2>1. conn[p] = 0
    BY <1>2 DEF NetTyped
  <2>. QED  BY <1>2, <2>1
<1>. QED  BY <1>1, <1>2, Zenon DEF Asked

(* The effect of Dial on its command. *)
LEMMA DialTells ==
    ASSUME JobsTyped, NetTyped, NEW j \in Jobs, job[j].prof \in Profiles, Dial(j)
    PROVE  /\ JobsTyped' /\ Others(j) /\ shown' = shown
           /\ \E c \in job[j].todo, word \in Words :
                 /\ Asked(j, c, word) /\ Noticed(j, c, word)
                 /\ job'[j].saw = job[j].saw \cup {word}
                 /\ job'[j].at = IF job'[j].todo = {} \/ word = "rejected" THEN "judge"
                                 ELSE IF word = "up" THEN "rest" ELSE "dial"
<1>1. PICK c \in job[j].todo, word \in Words :
         /\ Initiate(j, c, word)
         /\ job' = [job EXCEPT ![j] =
               [Noted(j, c, word) EXCEPT
                  !.at = IF Noted(j, c, word).todo = {} \/ word = "rejected" THEN "judge"
                         ELSE IF word = "up" THEN "rest" ELSE "dial"]]
  BY DEF Dial, Words
<1>2. word = "rejected" => conn[job[j].prof] \in Versions
  BY <1>1, InitiateSays
<1>3. PICK r : r = Noted(j, c, word)
  OBVIOUS
<1>4. /\ r \in JobRecs
      /\ r.prof = job[j].prof /\ r.ver = job[j].ver
      /\ r.alt = job[j].alt /\ r.good = job[j].good /\ r.moved = job[j].moved
      /\ r.todo = job[j].todo \ {c} /\ r.saw = job[j].saw \cup {word}
      /\ r.up = (job[j].up \/ word = "up")
      /\ word # "rejected" => r.rejected = job[j].rejected
      /\ word = "rejected" => r.rejected = OneMore(j)
  BY <1>2, <1>3, Noting
<1>5. PICK there : there = IF r.todo = {} \/ word = "rejected" THEN "judge"
                           ELSE IF word = "up" THEN "rest" ELSE "dial"
  OBVIOUS
<1>6. there \in Places
  BY <1>5 DEF Places, Connecting
<1>7. PICK s : s = [r EXCEPT !.at = there]
  OBVIOUS
<1>8. s \in JobRecs
  BY <1>4, <1>6, <1>7 DEF JobRecs
<1>9. /\ s.at = there /\ s.prof = r.prof /\ s.ver = r.ver
      /\ s.alt = r.alt /\ s.good = r.good /\ s.moved = r.moved
      /\ s.todo = r.todo /\ s.saw = r.saw /\ s.up = r.up /\ s.rejected = r.rejected
  BY <1>4, <1>7 DEF JobRecs
<1>10. job' = [job EXCEPT ![j] = s]
  BY <1>1, <1>3, <1>5, <1>7, Zenon
<1>11. job'[j] = s /\ JobsTyped' /\ Others(j)
  BY <1>8, <1>10 DEF JobsTyped, Others
<1>12. Noticed(j, c, word) /\ job'[j].saw = job[j].saw \cup {word}
  BY <1>4, <1>9, <1>11, Zenon DEF Noticed
<1>13. job'[j].at = IF job'[j].todo = {} \/ word = "rejected" THEN "judge"
                    ELSE IF word = "up" THEN "rest" ELSE "dial"
  BY <1>5, <1>9, <1>11, Zenon
<1>14. Asked(j, c, word)
  BY <1>1, Zenon DEF Asked, Dial
<1>15. shown' = shown
  BY DEF Dial, window
<1>. QED  BY <1>11, <1>12, <1>13, <1>14, <1>15, Zenon

(* The effect of InitiateTogether on its command. *)
LEMMA RestTells ==
    ASSUME JobsTyped, NetTyped, NEW j \in Jobs, job[j].prof \in Profiles, InitiateTogether(j)
    PROVE  /\ JobsTyped' /\ Others(j) /\ shown' = shown
           /\ \E c \in job[j].todo, word \in Words :
                 /\ Asked(j, c, word) /\ Noticed(j, c, word)
                 /\ job'[j].saw = job[j].saw
                 /\ job'[j].at = IF job'[j].todo = {} THEN "judge" ELSE "rest"
<1>1. PICK c \in job[j].todo, word \in Words :
         /\ Asked(j, c, word)
         /\ LET now == [Noted(j, c, word) EXCEPT !.saw = job[j].saw]
            IN  job' = [job EXCEPT ![j] =
                          [now EXCEPT !.at = IF now.todo = {} THEN "judge" ELSE "rest"]]
  BY DEF InitiateTogether, Words, Asked
<1>2. word = "rejected" => conn[job[j].prof] \in Versions
  BY <1>1, AskedSays
<1>3. PICK q : q = Noted(j, c, word)
  OBVIOUS
<1>4. /\ q \in JobRecs
      /\ q.prof = job[j].prof /\ q.ver = job[j].ver
      /\ q.alt = job[j].alt /\ q.good = job[j].good /\ q.moved = job[j].moved
      /\ q.todo = job[j].todo \ {c}
      /\ q.up = (job[j].up \/ word = "up")
      /\ word # "rejected" => q.rejected = job[j].rejected
      /\ word = "rejected" => q.rejected = OneMore(j)
  BY <1>2, <1>3, Noting
<1>5. PICK r : r = [q EXCEPT !.saw = job[j].saw]
  OBVIOUS
<1>6. job[j].saw \in SUBSET Words
  BY DEF JobsTyped, JobRecs
<1>7. /\ r \in JobRecs
      /\ r.prof = q.prof /\ r.ver = q.ver /\ r.alt = q.alt /\ r.good = q.good
      /\ r.moved = q.moved /\ r.todo = q.todo /\ r.up = q.up /\ r.rejected = q.rejected
      /\ r.saw = job[j].saw
  BY <1>4, <1>5, <1>6 DEF JobRecs
<1>8. PICK there : there = IF r.todo = {} THEN "judge" ELSE "rest"
  OBVIOUS
<1>9. there \in Places
  BY <1>8 DEF Places, Connecting
<1>10. PICK s : s = [r EXCEPT !.at = there]
  OBVIOUS
<1>11. s \in JobRecs
  BY <1>7, <1>9, <1>10 DEF JobRecs
<1>12. /\ s.at = there /\ s.prof = r.prof /\ s.ver = r.ver
       /\ s.alt = r.alt /\ s.good = r.good /\ s.moved = r.moved
       /\ s.todo = r.todo /\ s.saw = r.saw /\ s.up = r.up /\ s.rejected = r.rejected
  BY <1>7, <1>10 DEF JobRecs
<1>13. job' = [job EXCEPT ![j] = s]
  BY <1>1, <1>3, <1>5, <1>8, <1>10, Zenon
<1>14. job'[j] = s /\ JobsTyped' /\ Others(j)
  BY <1>11, <1>13 DEF JobsTyped, Others
<1>15. Noticed(j, c, word) /\ job'[j].saw = job[j].saw
  BY <1>4, <1>7, <1>12, <1>14, Zenon DEF Noticed
<1>16. job'[j].at = IF job'[j].todo = {} THEN "judge" ELSE "rest"
  BY <1>8, <1>12, <1>14, Zenon
<1>. QED  BY <1>1, <1>14, <1>15, <1>16, Zenon DEF InitiateTogether, window

(* Dial keeps the shape of its command. *)
LEMMA DialResult ==
    ASSUME JobsTyped, NetTyped, ShownTyped, NEW j \in Jobs, Shaped(j), job[j].prof \in Profiles,
           Dial(j)
    PROVE  Result(j)
<1>1. /\ JobsTyped' /\ Others(j) /\ shown' = shown
      /\ \E c \in job[j].todo, word \in Words :
            /\ Asked(j, c, word) /\ Noticed(j, c, word)
            /\ job'[j].saw = job[j].saw \cup {word}
            /\ job'[j].at = IF job'[j].todo = {} \/ word = "rejected" THEN "judge"
                            ELSE IF word = "up" THEN "rest" ELSE "dial"
  BY DialTells
<1>2. PICK c \in job[j].todo, word \in Words :
        /\ Noticed(j, c, word)
        /\ job'[j].at = IF job'[j].todo = {} \/ word = "rejected" THEN "judge"
                        ELSE IF word = "up" THEN "rest" ELSE "dial"
  BY <1>1
<1>3. job[j].at = "dial"
  BY DEF Dial
<1>4. Shaped(j)'
  <2>1. /\ job'[j].prof = job[j].prof /\ job'[j].ver = job[j].ver /\ job'[j].alt = job[j].alt
        /\ job'[j].todo = job[j].todo \ {c}
    BY <1>2 DEF Noticed
  <2>2. job'[j].up <=> word = "up"
    BY <1>2, <1>3 DEF Noticed, Shaped
  <2>3. CASE job'[j].at = "judge"
    BY <1>3, <2>1, <2>3 DEF Shaped
  <2>4. CASE job'[j].at = "rest" /\ word = "up" /\ job'[j].todo # {}
    BY <1>3, <2>1, <2>2, <2>4 DEF Shaped
  <2>5. CASE job'[j].at = "dial" /\ word # "up" /\ job'[j].todo # {}
    BY <1>3, <2>1, <2>2, <2>5 DEF Shaped
  <2>. QED  BY <1>2, <2>3, <2>4, <2>5
<1>. QED  BY <1>1, <1>2, <1>4 DEF Result, Noticed, ShownTyped

(* So does InitiateTogether. *)
LEMMA RestResult ==
    ASSUME JobsTyped, NetTyped, ShownTyped, NEW j \in Jobs, Shaped(j), job[j].prof \in Profiles,
           InitiateTogether(j)
    PROVE  Result(j)
<1>1. /\ JobsTyped' /\ Others(j) /\ shown' = shown
      /\ \E c \in job[j].todo, word \in Words :
            /\ Asked(j, c, word) /\ Noticed(j, c, word)
            /\ job'[j].saw = job[j].saw
            /\ job'[j].at = IF job'[j].todo = {} THEN "judge" ELSE "rest"
  BY RestTells
<1>2. PICK c \in job[j].todo, word \in Words :
        /\ Noticed(j, c, word)
        /\ job'[j].at = IF job'[j].todo = {} THEN "judge" ELSE "rest"
  BY <1>1
<1>3. job[j].at = "rest"
  BY DEF InitiateTogether
<1>4. Shaped(j)'
  <2>1. /\ job'[j].prof = job[j].prof /\ job'[j].ver = job[j].ver /\ job'[j].alt = job[j].alt
        /\ job'[j].todo = job[j].todo \ {c}
    BY <1>2 DEF Noticed
  <2>2. job'[j].up
    BY <1>2, <1>3 DEF Noticed, Shaped
  <2>3. CASE job'[j].at = "judge"
    BY <1>3, <2>1, <2>2, <2>3 DEF Shaped
  <2>4. CASE job'[j].at = "rest" /\ job'[j].todo # {}
    BY <1>3, <2>1, <2>2, <2>4 DEF Shaped
  <2>. QED  BY <1>2, <2>3, <2>4
<1>. QED  BY <1>1, <1>2, <1>4 DEF Result, Noticed, ShownTyped

(* A command that falls back to the other version. *)
FellBack(j) ==
    /\ job'[j].at = "load" /\ job'[j].alt /\ job'[j].saw = {} /\ job'[j].ver = Other(job[j].ver)
    /\ job'[j].prof = job[j].prof /\ job'[j].todo = job[j].todo /\ ~job'[j].up
    /\ job'[j].good = job[j].good /\ job'[j].rejected = job[j].rejected
    /\ job'[j].moved = job[j].moved

(* The three outcomes of Judge. *)
LEMMA JudgeTells ==
    ASSUME JobsTyped, NEW j \in Jobs, Shaped(j), job[j].prof \in Profiles, Judge(j)
    PROVE  \/ job[j].up /\ Goes(j, "remember")
           \/ /\ FallsBack(j) /\ FellBack(j) /\ JobsTyped' /\ Others(j) /\ shown' = shown
              /\ job[j].ver \in Versions /\ Other(job[j].ver) \in Versions
           \/ ~job[j].up /\ ~FallsBack(j) /\ Answer(j, "disconnected")
<1>1. job[j].at = "judge" /\ job[j].ver \in Versions
  BY DEF Judge, Shaped
<1>2. Other(job[j].ver) \in Versions
  BY <1>1 DEF Other, Versions
<1>3. CASE /\ FallsBack(j)
           /\ job' = [job EXCEPT ![j] =
                         [@ EXCEPT !.at = "load", !.alt = TRUE, !.saw = {}, !.ver = Other(job[j].ver)]]
           /\ shown' = shown
  <2>1. PICK v \in Versions : v = Other(job[j].ver)
    BY <1>2, Zenon
  <2>2. PICK q \in JobRecs : q = job[j]
    BY DEF JobsTyped
  <2>3. PICK r : r = [job[j] EXCEPT !.at = "load", !.alt = TRUE, !.saw = {}, !.ver = Other(job[j].ver)]
    OBVIOUS
  <2>4. "load" \in Places
    BY DEF Places, Connecting
  <2>5. r \in JobRecs
    BY <2>1, <2>2, <2>3, <2>4 DEF JobRecs
  <2>6. /\ r.at = "load" /\ r.alt = TRUE /\ r.saw = {} /\ r.ver = v /\ r.prof = q.prof
        /\ r.todo = q.todo /\ r.up = q.up /\ r.good = q.good /\ r.rejected = q.rejected
        /\ r.moved = q.moved
    BY <2>1, <2>2, <2>3 DEF JobRecs
  <2>7. job' = [job EXCEPT ![j] = r]
    BY <1>3, <2>3, Zenon
  <2>8. job'[j] = r /\ JobsTyped' /\ Others(j)
    BY <2>5, <2>7 DEF JobsTyped, Others
  <2>9. ~job[j].up
    BY <1>3 DEF FallsBack
  <2>10. FellBack(j)
    BY <2>1, <2>2, <2>6, <2>8, <2>9, Zenon DEF FellBack
  <2>. QED  BY <1>1, <1>2, <1>3, <2>8, <2>10, Zenon
<1>. QED  BY <1>3 DEF Judge

(* Judge keeps the shape of its command. *)
LEMMA JudgeResult ==
    ASSUME JobsTyped, ShownTyped, NEW j \in Jobs, Shaped(j), job[j].prof \in Profiles, Judge(j)
    PROVE  Result(j)
<1>1. job[j].at = "judge" /\ job[j].ver \in Versions /\ job[j].prof # NoProfile
  BY IkeAssumption DEF Judge, Shaped
<1>2. shown \in [Profiles -> Looks]
  BY DEF ShownTyped
<1>3. CASE job[j].up /\ Goes(j, "remember")
  <2>1. "remember" \in Places
    BY DEF Places, Connecting
  <2>. QED  BY <1>1, <1>2, <1>3, <2>1, GoesResult
<1>4. CASE /\ FellBack(j) /\ JobsTyped' /\ Others(j) /\ shown' = shown
           /\ Other(job[j].ver) \in Versions
  <2>1. Shaped(j)'
    BY <1>1, <1>4 DEF FellBack, Shaped
  <2>. QED  BY <1>2, <1>4, <2>1 DEF Result, FellBack
<1>5. CASE Answer(j, "disconnected")
  BY <1>2, <1>5, AnswerResult
<1>. QED  BY <1>3, <1>4, <1>5, JudgeTells

(* Every step of a command has a Result. *)
LEMMA CommandResult ==
    ASSUME JobsTyped, NetTyped, ShownTyped, NEW j \in Jobs, Shaped(j), Command(j)
    PROVE  job[j].prof \in Profiles /\ Result(j)
<1>1. job[j].at # "idle"
  BY DEF Command, EnsureDaemon, Learn, CheckFull, Adopt, Load, Dial, DialLost, InitiateTogether,
         Judge, Remember, AwaitVip, ApplyDns, RevertDns, Terminate, Unload
<1>2. job[j].prof \in Profiles
  BY <1>1 DEF JobsTyped, JobRecs, Shaped
<1>3. shown \in [Profiles -> Looks] /\ job[j].prof # NoProfile
  BY <1>2, IkeAssumption DEF ShownTyped
<1>4. {"learn", "adopt", "load", "wait", "resolve", "terminate", "unload"} \subseteq Places
  BY DEF Places, Connecting, Ending
<1>5. CASE EnsureDaemon(j)
  <2>1. CASE Goes(j, "learn")
    BY <1>2, <1>3, <1>4, <1>5, <2>1, GoesResult DEF EnsureDaemon, Shaped
  <2>2. CASE Answer(j, "disconnected")
    BY <1>2, <1>3, <2>2, AnswerResult
  <2>. QED  BY <1>5, <2>1, <2>2 DEF EnsureDaemon
<1>6. CASE Learn(j)
  BY <1>2, <1>6, LearnResult
<1>7. CASE CheckFull(j)
  <2>1. CASE Goes(j, "adopt")
    BY <1>2, <1>3, <1>4, <1>7, <2>1, GoesResult DEF CheckFull, Shaped
  <2>2. CASE Answer(j, "disconnected")
    BY <1>2, <1>3, <2>2, AnswerResult
  <2>. QED  BY <1>7, <2>1, <2>2 DEF CheckFull
<1>8. CASE Adopt(j)
  <2>1. CASE Goes(j, "wait")
    BY <1>2, <1>3, <1>4, <1>8, <2>1, GoesResult DEF Adopt, Shaped
  <2>2. CASE Goes(j, "load")
    BY <1>2, <1>3, <1>4, <1>8, <2>2, GoesResult DEF Adopt, Shaped
  <2>. QED  BY <1>8, <2>1, <2>2 DEF Adopt
<1>9. CASE Load(j)
  BY <1>2, <1>9, LoadResult
<1>10. CASE Dial(j)
  BY <1>2, <1>10, DialResult
<1>11. CASE DialLost(j) \/ Unload(j)
  BY <1>2, <1>3, <1>11, AnswerResult DEF DialLost, Unload
<1>12. CASE InitiateTogether(j)
  BY <1>2, <1>12, RestResult
<1>13. CASE Judge(j)
  BY <1>2, <1>13, JudgeResult
<1>14. CASE Remember(j)
  BY <1>2, <1>3, <1>4, <1>14, GoesResult DEF Remember, Shaped
<1>15. CASE AwaitVip(j)
  <2>1. CASE job[j].up /\ Goes(j, "resolve")
    BY <1>2, <1>3, <1>4, <1>15, <2>1, GoesResult DEF AwaitVip, Shaped
  <2>2. CASE Answer(j, "established")
    BY <1>2, <1>3, <2>2, AnswerResult
  <2>. QED  BY <1>15, <2>1, <2>2 DEF AwaitVip
<1>16. CASE ApplyDns(j)
  BY <1>2, <1>3, <1>16, AnswerResult DEF ApplyDns
<1>17. CASE RevertDns(j)
  BY <1>2, <1>3, <1>4, <1>17, GoesResult DEF RevertDns, Shaped
<1>18. CASE Terminate(j)
  <2>1. CASE Goes(j, "unload")
    BY <1>2, <1>3, <1>4, <1>18, <2>1, GoesResult DEF Terminate, Shaped
  <2>2. CASE Answer(j, "disconnected")
    BY <1>2, <1>3, <2>2, AnswerResult
  <2>. QED  BY <1>18, <2>1, <2>2 DEF Terminate
<1>. QED  BY <1>2, <1>5, <1>6, <1>7, <1>8, <1>9, <1>10, <1>11, <1>12, <1>13, <1>14, <1>15, <1>16,
             <1>17, <1>18 DEF Command

(* SA counts: two stand for two or more. *)
SaCounts == {0, 1, 2}

(* What More does to the counts. *)
LEMMA MoreTyped ==
    ASSUME NEW p \in Profiles, sa[p] \in [Nets[p] -> SaCounts], NEW c
    PROVE  /\ More(p, c) \in [Nets[p] -> SaCounts]
           /\ \A n \in Nets[p] \ c : More(p, c)[n] = sa[p][n]
           /\ \A n \in Nets[p] : More(p, c)[n] >= sa[p][n]
           /\ \A n \in Nets[p] \cap c : More(p, c)[n] > 0
           /\ \A n \in Nets[p] \cap c : sa[p][n] = 0 => More(p, c)[n] = 1
BY DEF More, SaCounts

(* Silent has no SA. *)
LEMMA SilentTyped ==
    ASSUME NEW p \in Profiles
    PROVE  Silent(p) \in [Nets[p] -> SaCounts] /\ \A n \in Nets[p] : Silent(p)[n] = 0
BY DEF Silent, SaCounts

(* Setting one profile's counts keeps the others'. *)
LEMMA SaSet ==
    ASSUME sa = [p \in Profiles |-> sa[p]], \A p \in Profiles : sa[p] \in [Nets[p] -> SaCounts],
           NEW p \in Profiles, NEW f \in [Nets[p] -> SaCounts], sa' = [sa EXCEPT ![p] = f]
    PROVE  /\ sa' = [q \in Profiles |-> sa'[q]]
           /\ \A q \in Profiles : sa'[q] \in [Nets[q] -> SaCounts]
           /\ sa'[p] = f /\ \A q \in Profiles \ {p} : sa'[q] = sa[q]
<1>1. sa' = [q \in Profiles |-> IF q = p THEN f ELSE sa[q]]
  OBVIOUS
<1>. QED  BY <1>1

(* Whether a profile is carried depends on its own counts only.            *)
LEMMA CarriedSame ==
    ASSUME NEW p \in Profiles, sa'[p] = sa[p]
    PROVE  Carried(p)' <=> Carried(p)
BY DEF Carried

(* An initiate keeps the types of charon and touches one profile.          *)
LEMMA AskedNet ==
    ASSUME NetTyped, NEW j \in Jobs, NEW p \in Profiles, p = job[j].prof, NEW c,
           NEW word \in Words, Asked(j, c, word), UNCHANGED <<daemon, conn, redial, gateway, dns>>
    PROVE  /\ NetTyped' /\ Elsewhere(p)
           /\ ike[p] \subseteq ike'[p]
           /\ word # "up" => sa' = sa
           /\ word = "up" => daemon /\ conn[p] \in ike'[p] /\ sa'[p] = More(p, c)
<1>1. CASE UNCHANGED <<ike, sa>> /\ word # "up"
  <2>1. NetTyped'
    BY <1>1, CarriedSame DEF NetTyped
  <2>. QED  BY <1>1, <2>1 DEF Elsewhere
<1>2. CASE /\ daemon /\ conn[p] \in ike[p] \cup gateway[p]
           /\ ike' = [ike EXCEPT ![p] = @ \cup {conn[p]}]
           /\ \/ sa' = sa /\ word # "up"
              \/ sa' = [sa EXCEPT ![p] = More(p, c)] /\ word = "up"
  <2>1. /\ ike' \in [Profiles -> SUBSET Versions] /\ ike'[p] = ike[p] \cup {conn[p]}
        /\ \A q \in Profiles \ {p} : ike'[q] = ike[q]
    BY <1>2 DEF NetTyped
  <2>2. /\ sa' = [q \in Profiles |-> sa'[q]]
        /\ \A q \in Profiles : sa'[q] \in [Nets[q] -> SaCounts]
        /\ \A q \in Profiles \ {p} : sa'[q] = sa[q]
        /\ word = "up" => sa'[p] = More(p, c)
    <3>1. CASE sa' = sa /\ word # "up"
      BY <3>1 DEF NetTyped, SaCounts
    <3>2. CASE sa' = [sa EXCEPT ![p] = More(p, c)] /\ word = "up"
      <4>1. More(p, c) \in [Nets[p] -> SaCounts]
        BY MoreTyped DEF NetTyped, SaCounts
      <4>2. PICK f \in [Nets[p] -> SaCounts] : f = More(p, c)
        BY <4>1, Zenon
      <4>3. sa = [q \in Profiles |-> sa[q]] /\ \A q \in Profiles : sa[q] \in [Nets[q] -> SaCounts]
        BY DEF NetTyped, SaCounts
      <4>. QED  BY <3>2, <4>2, <4>3, SaSet
    <3>. QED  BY <1>2, <3>1, <3>2
  <2>3. \A q \in Profiles : Carried(q)' => ike'[q] # {}
    <3>1. TAKE q \in Profiles
    <3>2. CASE q = p
      BY <2>1, <3>2
    <3>3. CASE q # p
      BY <2>1, <2>2, <3>3, CarriedSame DEF NetTyped
    <3>. QED  BY <3>2, <3>3
  <2>4. NetTyped'
    BY <1>2, <2>1, <2>2, <2>3 DEF NetTyped, SaCounts
  <2>. QED  BY <1>2, <2>1, <2>2, <2>4 DEF Elsewhere
<1>. QED
  <2>1. CASE daemon /\ Initiate(j, c, word)
    <3>. QED  BY <1>1, <1>2, <2>1 DEF Initiate
  <2>. QED  BY <1>1, <2>1 DEF Asked

(* So does every step of a command. *)
LEMMA CommandNet ==
    ASSUME JobsTyped, NetTyped, NEW j \in Jobs, job[j].prof \in Profiles, Command(j)
    PROVE  /\ NetTyped' /\ Elsewhere(job[j].prof)
           /\ setting' = setting /\ gateway' = gateway /\ quiet' = quiet /\ poll' = poll
<1>. DEFINE p == job[j].prof
<1>1. CASE EnsureDaemon(j)
  <2>1. UNCHANGED <<poll, conn, ike, sa, redial, files, world>> /\ (daemon' = TRUE \/ daemon' = daemon)
    BY <1>1 DEF EnsureDaemon
  <2>2. NetTyped'
    BY <2>1, CarriedSame DEF NetTyped, files, world
  <2>. QED  BY <2>1, <2>2 DEF Elsewhere, files, world
<1>2. CASE UNCHANGED <<poll, charon, dns, world>>
  <2>1. NetTyped'
    BY <1>2, CarriedSame DEF NetTyped, charon, world
  <2>. QED  BY <1>2, <2>1 DEF Elsewhere, charon, world
<1>3. CASE Load(j)
  <2>1. /\ conn' = conn \/ (daemon /\ conn' = [conn EXCEPT ![p] = job[j].ver])
        /\ UNCHANGED <<poll, daemon, ike, sa, redial, files, world>>
    BY <1>3 DEF Load
  <2>2. conn' \in [Profiles -> Versions \cup {0}] /\ \A q \in Profiles \ {p} : conn'[q] = conn[q]
    BY <2>1 DEF NetTyped, JobsTyped, JobRecs
  <2>3. NetTyped'
    BY <2>1, <2>2, CarriedSame DEF NetTyped, files, world
  <2>. QED  BY <2>1, <2>2, <2>3 DEF Elsewhere, files, world
<1>4. CASE Dial(j)
  <2>1. UNCHANGED <<poll, daemon, conn, redial, files, world>>
    BY <1>4 DEF Dial, window
  <2>2. PICK c \in job[j].todo, word \in Words : Asked(j, c, word)
    BY <1>4, DialTells
  <2>. QED  BY <2>1, <2>2, AskedNet DEF files, world
<1>5. CASE InitiateTogether(j)
  <2>1. UNCHANGED <<poll, daemon, conn, redial, files, world>>
    BY <1>5 DEF InitiateTogether, window
  <2>2. PICK c \in job[j].todo, word \in Words : Asked(j, c, word)
    BY <1>5, RestTells
  <2>. QED  BY <2>1, <2>2, AskedNet DEF files, world
<1>6. CASE ApplyDns(j) \/ RevertDns(j)
  <2>1. /\ UNCHANGED <<poll, charon, world>>
        /\ dns' = dns \/ dns' = dns \cup {p} \/ dns' = dns \ {p}
    BY <1>6 DEF ApplyDns, RevertDns
  <2>2. NetTyped'
    BY <2>1, CarriedSame DEF NetTyped, charon, world
  <2>. QED  BY <2>1, <2>2 DEF Elsewhere, charon, world
<1>7. CASE Terminate(j)
  <2>1. UNCHANGED <<poll, daemon, conn, files, world>>
    BY <1>7 DEF Terminate
  <2>2. CASE UNCHANGED <<ike, sa, redial>>
    <3>1. NetTyped'
      BY <2>1, <2>2, CarriedSame DEF NetTyped, files, world
    <3>. QED  BY <2>1, <2>2, <3>1 DEF Elsewhere, files, world
  <2>3. CASE /\ daemon /\ redial' = redial \ {p}
             /\ ike' = [ike EXCEPT ![p] = {}] /\ sa' = [sa EXCEPT ![p] = Silent(p)]
    <3>1. /\ ike' \in [Profiles -> SUBSET Versions]
          /\ \A q \in Profiles \ {p} : ike'[q] = ike[q]
      BY <2>3 DEF NetTyped
    <3>2. PICK f \in [Nets[p] -> SaCounts] : f = Silent(p) /\ \A n \in Nets[p] : f[n] = 0
      BY SilentTyped
    <3>3. /\ sa' = [q \in Profiles |-> sa'[q]]
          /\ \A q \in Profiles : sa'[q] \in [Nets[q] -> SaCounts]
          /\ sa'[p] = f /\ \A q \in Profiles \ {p} : sa'[q] = sa[q]
      <4>1. sa = [q \in Profiles |-> sa[q]] /\ \A q \in Profiles : sa[q] \in [Nets[q] -> SaCounts]
        BY DEF NetTyped, SaCounts
      <4>. QED  BY <2>3, <3>2, <4>1, SaSet
    <3>4. \A q \in Profiles : Carried(q)' => ike'[q] # {}
      <4>1. TAKE q \in Profiles
      <4>2. CASE q = p
        BY <3>2, <3>3, <4>2 DEF Carried
      <4>3. CASE q # p
        BY <3>1, <3>3, <4>3, CarriedSame DEF NetTyped
      <4>. QED  BY <4>2, <4>3
    <3>5. NetTyped'
      BY <2>1, <2>3, <3>1, <3>3, <3>4 DEF NetTyped, files, world, SaCounts
    <3>. QED  BY <2>1, <3>1, <3>3, <3>5 DEF Elsewhere, files, world
  <2>. QED  BY <1>7, <2>2, <2>3 DEF Terminate
<1>8. CASE Unload(j)
  <2>1. conn' = [conn EXCEPT ![p] = 0] /\ UNCHANGED <<poll, daemon, ike, sa, redial, files, world>>
    BY <1>8 DEF Unload
  <2>2. conn' \in [Profiles -> Versions \cup {0}] /\ \A q \in Profiles \ {p} : conn'[q] = conn[q]
    BY <2>1 DEF NetTyped
  <2>3. ~daemon => \A q \in Profiles : conn'[q] = 0
    BY <2>1 DEF NetTyped
  <2>4. NetTyped'
    BY <2>1, <2>2, <2>3, CarriedSame DEF NetTyped, files, world
  <2>. QED  BY <2>1, <2>2, <2>4 DEF Elsewhere, files, world
<1>. QED
  BY <1>1, <1>2, <1>3, <1>4, <1>5, <1>6, <1>7, <1>8
  DEF Command, Learn, CheckFull, Adopt, DialLost, Judge, Remember, AwaitVip, files, window

(* A click starts command j for p. *)
Started(p, j) ==
    /\ p \in setting.users /\ shown[p] \in {"disconnected", "established"}
    /\ \A k \in Jobs : job[k].prof \in {NoProfile, p} \/ Usual("parallel")
    /\ job[j].prof = NoProfile /\ Others(j) /\ JobsTyped'
    /\ job'[j].at \in {"daemon", "revert"} /\ job'[j].prof = p /\ job'[j].ver = 0
    /\ ~job'[j].alt /\ job'[j].todo = {} /\ ~job'[j].up /\ job'[j].saw = {}
    /\ job'[j].rejected = [v \in Versions |-> 0] /\ ~job'[j].moved
    /\ \E how \in {"connecting", "disconnecting"} : shown' = [shown EXCEPT ![p] = how]
    /\ UNCHANGED <<poll, charon, files, world>>

(* Connecting and disconnecting start a command with nothing in hand.      *)
LEMMA ClickStarts ==
    ASSUME JobsTyped, NEW p \in Profiles, ClickConnect(p) \/ ClickDisconnect(p)
    PROVE  \E j \in Jobs : Started(p, j)
<1>1. PICK how \in {"connecting", "disconnecting"}, first \in JobRecs :
         /\ Begin(p, how, first)
         /\ shown[p] \in {"disconnected", "established"}
         /\ first.at \in {"daemon", "revert"} /\ first.prof = p /\ first.ver = 0
         /\ first.alt = FALSE /\ first.todo = {} /\ first.up = FALSE /\ first.saw = {}
         /\ first.rejected = [v \in Versions |-> 0] /\ first.moved = FALSE
  <2>1. "daemon" \in Places /\ "revert" \in Places
    BY DEF Places, Connecting, Ending
  <2>2. CASE ClickConnect(p)
    <3>1. PICK right \in BOOLEAN :
             Begin(p, "connecting", [Idle EXCEPT !.at = "daemon", !.prof = p, !.good = right])
      BY <2>2 DEF ClickConnect
    <3>2. PICK r : r = [Idle EXCEPT !.at = "daemon", !.prof = p, !.good = right]
      OBVIOUS
    <3>3. r \in JobRecs
      BY <2>1, <3>2, IdleTyped DEF JobRecs
    <3>4. /\ r.at = "daemon" /\ r.prof = p /\ r.ver = 0 /\ r.alt = FALSE /\ r.todo = {}
          /\ r.up = FALSE /\ r.saw = {} /\ r.rejected = [v \in Versions |-> 0] /\ r.moved = FALSE
      BY <3>2 DEF Idle
    <3>5. Begin(p, "connecting", r) /\ shown[p] = "disconnected"
      BY <2>2, <3>1, <3>2 DEF ClickConnect
    <3>. QED  BY <3>3, <3>4, <3>5
  <2>3. CASE ClickDisconnect(p)
    <3>2. PICK r : r = [Idle EXCEPT !.at = "revert", !.prof = p]
      OBVIOUS
    <3>3. r \in JobRecs
      BY <2>1, <3>2, IdleTyped DEF JobRecs
    <3>4. /\ r.at = "revert" /\ r.prof = p /\ r.ver = 0 /\ r.alt = FALSE /\ r.todo = {}
          /\ r.up = FALSE /\ r.saw = {} /\ r.rejected = [v \in Versions |-> 0] /\ r.moved = FALSE
      BY <3>2 DEF Idle
    <3>5. Begin(p, "disconnecting", r) /\ shown[p] = "established"
      BY <2>3, <3>2 DEF ClickDisconnect
    <3>. QED  BY <3>3, <3>4, <3>5
  <2>. QED  BY <2>2, <2>3
<1>2. PICK j \in Jobs : /\ job[j].prof = NoProfile
                        /\ job' = [job EXCEPT ![j] = first]
  <2>1. \E j \in Jobs : job[j].prof = NoProfile
    BY <1>1 DEF Begin, On
  <2>2. (CHOOSE j \in Jobs : job[j].prof = NoProfile) \in Jobs
        /\ job[CHOOSE j \in Jobs : job[j].prof = NoProfile].prof = NoProfile
    BY <2>1
  <2>. QED  BY <1>1, <2>2 DEF Begin
<1>3. job'[j] = first /\ JobsTyped' /\ Others(j)
  BY <1>2 DEF JobsTyped, Others
<1>4. /\ \A k \in Jobs : job[k].prof \in {NoProfile, p} \/ Usual("parallel")
      /\ p \in setting.users /\ shown' = [shown EXCEPT ![p] = how]
      /\ UNCHANGED <<poll, charon, files, world>>
  BY <1>1 DEF Begin
<1>5. Started(p, j)
  BY <1>1, <1>2, <1>3, <1>4, Zenon DEF Started
<1>. QED  BY <1>5

(* A step the commands and charon do not notice. *)
Rests ==
    /\ UNCHANGED <<job, charon, dns, gateway, setting>>
    /\ Calm({"cancel"}) => \A p \in Profiles :
          shown[p] \in {"connecting", "disconnecting"} => shown'[p] = shown[p]

(* What a calm setting excludes. *)
LEMMA CalmSays ==
    ASSUME NEW S, Calm(S), NEW u \in S
    PROVE  ~Usual(u) /\ ~May(u)
BY DEF Calm, Usual, May

(* Every step is of one of seven kinds. *)
LEMMA Steps ==
    ASSUME JobsTyped, shown \in [Profiles -> Looks], [Next]_vars
    PROVE  \/ \E j \in Jobs : Command(j)
           \/ \E p \in Profiles : \E j \in Jobs : Started(p, j)
           \/ Rests
           \/ \E p \in Profiles : Drop(p)
           \/ \E p \in Profiles : Redial(p)
           \/ \E p \in Profiles : GatewayChanges(p)
           \/ CharonDies
<1>1. CASE UNCHANGED vars
  BY <1>1 DEF vars, Rests, charon
<1>2. CASE \E p \in Profiles : ClickConnect(p) \/ ClickDisconnect(p)
  BY <1>2, ClickStarts
<1>3. CASE \E p \in Profiles : ClickCancel(p)
  <2>1. ~Calm({"cancel"})
    BY <1>3, CalmSays DEF ClickCancel
  <2>. QED  BY <1>3, <2>1 DEF ClickCancel, Rests, files, world
<1>4. CASE PollRead
  BY <1>4 DEF PollRead, Rests, files, world
<1>5. CASE Reconcile
  <2>1. shown' = [p \in Profiles |->
                    CASE shown[p] \in {"connecting", "disconnecting"} -> shown[p]
                      [] OTHER -> IF p \in poll.live THEN "established" ELSE "disconnected"]
    BY <1>5 DEF Reconcile
  <2>. QED  BY <1>5, <2>1 DEF Reconcile, Rests, files, world
<1>6. CASE Tick \/ ComeToRest
  BY <1>6 DEF Tick, ComeToRest, Rests, window, files, world
<1>. QED  BY <1>1, <1>2, <1>3, <1>4, <1>5, <1>6 DEF Next

(* What is lost is lost for one profile. *)
LEMMA DropTells ==
    ASSUME NetTyped, NEW p \in Profiles, Drop(p)
    PROVE  /\ May("drops") /\ UNCHANGED <<window, job, daemon, conn, files, world>>
           /\ NetTyped' /\ redial' \in {redial, redial \cup {p}}
           /\ Usual("redials") \/ redial' = redial
           /\ \A q \in Profiles \ {p} : ike'[q] = ike[q] /\ sa'[q] = sa[q]
           /\ \A q \in Profiles : \A n \in Nets[q] : sa'[q][n] \in {0, sa[q][n]}
<1>. DEFINE lost == /\ ike' = [ike EXCEPT ![p] = {}] /\ sa' = [sa EXCEPT ![p] = Silent(p)]
                    /\ redial' = IF Usual("redials") THEN redial \cup {p} ELSE redial
            one  == /\ \E n \in Nets[p] : sa' = [sa EXCEPT ![p][n] = 0]
                    /\ UNCHANGED <<ike, redial>>
<1>1. /\ May("drops") /\ ike[p] # {} /\ UNCHANGED <<window, job, daemon, conn, files, world>>
      /\ lost \/ one
  BY DEF Drop
<1>2. daemon
  BY <1>1 DEF NetTyped
<1>3. sa = [q \in Profiles |-> sa[q]] /\ \A q \in Profiles : sa[q] \in [Nets[q] -> SaCounts]
  BY DEF NetTyped, SaCounts
<1>4. CASE lost
  <2>1. /\ ike' \in [Profiles -> SUBSET Versions]
        /\ \A q \in Profiles \ {p} : ike'[q] = ike[q]
    BY <1>4 DEF NetTyped
  <2>2. PICK f \in [Nets[p] -> SaCounts] : f = Silent(p) /\ \A n \in Nets[p] : f[n] = 0
    BY SilentTyped
  <2>3. /\ sa' = [q \in Profiles |-> sa'[q]]
        /\ \A q \in Profiles : sa'[q] \in [Nets[q] -> SaCounts]
        /\ sa'[p] = f /\ \A q \in Profiles \ {p} : sa'[q] = sa[q]
    BY <1>3, <1>4, <2>2, SaSet
  <2>4. \A q \in Profiles : Carried(q)' => ike'[q] # {}
    <3>1. TAKE q \in Profiles
    <3>2. CASE q = p
      BY <2>2, <2>3, <3>2 DEF Carried
    <3>3. CASE q # p
      BY <2>1, <2>3, <3>3, CarriedSame DEF NetTyped
    <3>. QED  BY <3>2, <3>3
  <2>5. redial' \in {redial, redial \cup {p}} /\ (Usual("redials") \/ redial' = redial)
    BY <1>4
  <2>6. NetTyped'
    BY <1>1, <1>2, <2>1, <2>3, <2>4, <2>5 DEF NetTyped, files, world, SaCounts
  <2>7. \A q \in Profiles : \A n \in Nets[q] : sa'[q][n] \in {0, sa[q][n]}
    BY <2>2, <2>3
  <2>. QED  BY <1>1, <2>1, <2>3, <2>5, <2>6, <2>7
<1>5. CASE one
  <2>1. PICK n \in Nets[p] : sa' = [sa EXCEPT ![p] = [sa[p] EXCEPT ![n] = 0]]
    BY <1>5
  <2>2. PICK f \in [Nets[p] -> SaCounts] :
           f = [sa[p] EXCEPT ![n] = 0] /\ \A m \in Nets[p] : f[m] \in {0, sa[p][m]}
    <3>1. sa[p] \in [Nets[p] -> SaCounts] /\ 0 \in SaCounts
      BY <1>3 DEF SaCounts
    <3>2. [sa[p] EXCEPT ![n] = 0] \in [Nets[p] -> SaCounts]
      BY <3>1
    <3>3. \A m \in Nets[p] : [sa[p] EXCEPT ![n] = 0][m] \in {0, sa[p][m]}
      BY <3>1
    <3>. QED  BY <3>2, <3>3
  <2>3. /\ sa' = [q \in Profiles |-> sa'[q]]
        /\ \A q \in Profiles : sa'[q] \in [Nets[q] -> SaCounts]
        /\ sa'[p] = f /\ \A q \in Profiles \ {p} : sa'[q] = sa[q]
    BY <1>3, <2>1, <2>2, SaSet
  <2>4. \A q \in Profiles : Carried(q)' => ike'[q] # {}
    <3>1. TAKE q \in Profiles
    <3>2. CASE q = p
      BY <1>1, <1>5, <3>2
    <3>3. CASE q # p
      BY <1>5, <2>3, <3>3, CarriedSame DEF NetTyped
    <3>. QED  BY <3>2, <3>3
  <2>6. NetTyped'
    BY <1>1, <1>2, <1>5, <2>3, <2>4 DEF NetTyped, files, world, SaCounts
  <2>7. \A q \in Profiles : \A m \in Nets[q] : sa'[q][m] \in {0, sa[q][m]}
    BY <2>2, <2>3
  <2>. QED  BY <1>1, <1>5, <2>3, <2>6, <2>7
<1>. QED  BY <1>1, <1>4, <1>5

(* A redial adds to one profile, and takes nothing away. *)
LEMMA RedialTells ==
    ASSUME NetTyped, NEW p \in Profiles, Redial(p)
    PROVE  /\ p \in redial /\ UNCHANGED <<window, job, daemon, conn, files, world>>
           /\ NetTyped' /\ redial' \subseteq redial
           /\ \A q \in Profiles \ {p} : ike'[q] = ike[q] /\ sa'[q] = sa[q]
           /\ \A q \in Profiles : ike[q] \subseteq ike'[q]
           /\ \A q \in Profiles : \A n \in Nets[q] : sa'[q][n] >= sa[q][n]
<1>1. /\ p \in redial /\ redial' = redial \ {p}
      /\ UNCHANGED <<window, job, daemon, conn, files, world>>
  BY DEF Redial
<1>2. daemon
  BY <1>1 DEF NetTyped
<1>3. sa = [q \in Profiles |-> sa[q]] /\ \A q \in Profiles : sa[q] \in [Nets[q] -> SaCounts]
  BY DEF NetTyped, SaCounts
<1>4. CASE UNCHANGED <<ike, sa>>
  <2>1. NetTyped'
    BY <1>1, <1>2, <1>4, CarriedSame DEF NetTyped, files, world
  <2>2. \A q \in Profiles : \A n \in Nets[q] : sa'[q][n] >= sa[q][n]
    BY <1>3, <1>4 DEF SaCounts
  <2>. QED  BY <1>1, <1>4, <2>1, <2>2
<1>5. CASE /\ conn[p] \in gateway[p] /\ ike' = [ike EXCEPT ![p] = @ \cup {conn[p]}]
           /\ sa' = [sa EXCEPT ![p] = More(p, Nets[p])]
  <2>1. /\ ike' \in [Profiles -> SUBSET Versions] /\ ike'[p] = ike[p] \cup {conn[p]}
        /\ \A q \in Profiles \ {p} : ike'[q] = ike[q]
    BY <1>5 DEF NetTyped
  <2>2. PICK f \in [Nets[p] -> SaCounts] :
           f = More(p, Nets[p]) /\ \A n \in Nets[p] : f[n] >= sa[p][n]
    BY <1>3, MoreTyped
  <2>3. /\ sa' = [q \in Profiles |-> sa'[q]]
        /\ \A q \in Profiles : sa'[q] \in [Nets[q] -> SaCounts]
        /\ sa'[p] = f /\ \A q \in Profiles \ {p} : sa'[q] = sa[q]
    BY <1>3, <1>5, <2>2, SaSet
  <2>4. \A q \in Profiles : Carried(q)' => ike'[q] # {}
    <3>1. TAKE q \in Profiles
    <3>2. CASE q = p
      BY <2>1, <3>2
    <3>3. CASE q # p
      BY <2>1, <2>3, <3>3, CarriedSame DEF NetTyped
    <3>. QED  BY <3>2, <3>3
  <2>5. NetTyped'
    BY <1>1, <1>2, <2>1, <2>3, <2>4 DEF NetTyped, files, world, SaCounts
  <2>6. \A q \in Profiles : \A n \in Nets[q] : sa'[q][n] >= sa[q][n]
    BY <1>3, <2>2, <2>3 DEF SaCounts
  <2>. QED  BY <1>1, <2>1, <2>3, <2>5, <2>6
<1>. QED  BY <1>4, <1>5 DEF Redial

(* Without charon nothing is loaded or up. *)
LEMMA DiesTells ==
    ASSUME NetTyped, CharonDies
    PROVE  /\ May("dies") /\ daemon' = FALSE /\ UNCHANGED <<window, job, files, world>>
           /\ NetTyped' /\ redial' = {}
           /\ \A p \in Profiles : /\ conn'[p] = 0 /\ ike'[p] = {} /\ ~Carried(p)'
                                  /\ \A n \in Nets[p] : sa'[p][n] = 0
<1>1. /\ May("dies") /\ daemon' = FALSE /\ UNCHANGED <<window, job, files, world>>
      /\ redial' = {} /\ conn' = [p \in Profiles |-> 0] /\ ike' = [p \in Profiles |-> {}]
      /\ sa' = [p \in Profiles |-> Silent(p)]
  BY DEF CharonDies
<1>2. \A p \in Profiles : /\ sa'[p] \in [Nets[p] -> SaCounts] /\ ~Carried(p)'
                          /\ \A n \in Nets[p] : sa'[p][n] = 0
  BY <1>1, SilentTyped DEF Carried
<1>3. sa' = [p \in Profiles |-> sa'[p]]
  BY <1>1
<1>4. NetTyped'
  BY <1>1, <1>2, <1>3 DEF NetTyped, files, world, SaCounts
<1>. QED  BY <1>1, <1>2, <1>4

(* A gateway's change is noted by the commands of its profile and changes  *)
(* nothing else of them.                                                   *)
LEMMA ChangeTells ==
    ASSUME JobsTyped, NetTyped, NEW p \in Profiles, GatewayChanges(p)
    PROVE  /\ May("changes") /\ UNCHANGED <<window, charon, files, quiet, setting>>
           /\ NetTyped' /\ JobsTyped'
           /\ \A q \in Profiles \ {p} : gateway'[q] = gateway[q]
           /\ \A j \in Jobs :
                 /\ job'[j].at = job[j].at /\ job'[j].prof = job[j].prof
                 /\ job'[j].ver = job[j].ver /\ job'[j].alt = job[j].alt
                 /\ job'[j].todo = job[j].todo /\ job'[j].up = job[j].up
                 /\ job'[j].saw = job[j].saw /\ job'[j].good = job[j].good
                 /\ job'[j].rejected = job[j].rejected
           /\ \A j \in Jobs : job[j].prof = p => job'[j].moved
           /\ \A j \in Jobs : job[j].prof # p => job'[j] = job[j]
<1>1. /\ May("changes") /\ UNCHANGED <<window, charon, files, quiet, setting>>
      /\ \E S \in SUBSET Versions : gateway' = [gateway EXCEPT ![p] = S]
      /\ job' = [j \in Jobs |-> IF job[j].prof = p THEN [job[j] EXCEPT !.moved = TRUE]
                                ELSE job[j]]
  BY DEF GatewayChanges
<1>2. /\ gateway' \in [Profiles -> SUBSET Versions]
      /\ \A q \in Profiles \ {p} : gateway'[q] = gateway[q]
  BY <1>1 DEF NetTyped
<1>3. NetTyped'
  BY <1>1, <1>2, CarriedSame DEF NetTyped, charon, files
<1>4. \A j \in Jobs :
         /\ job'[j] \in JobRecs
         /\ job'[j].at = job[j].at /\ job'[j].prof = job[j].prof
         /\ job'[j].ver = job[j].ver /\ job'[j].alt = job[j].alt
         /\ job'[j].todo = job[j].todo /\ job'[j].up = job[j].up
         /\ job'[j].saw = job[j].saw /\ job'[j].good = job[j].good
         /\ job'[j].rejected = job[j].rejected
  <2>1. TAKE j \in Jobs
  <2>2. job[j] \in JobRecs
    BY DEF JobsTyped
  <2>3. CASE job[j].prof = p
    <3>1. job'[j] = [job[j] EXCEPT !.moved = TRUE]
      BY <1>1, <2>3
    <3>. QED  BY <2>2, <3>1 DEF JobRecs
  <2>4. CASE job[j].prof # p
    BY <1>1, <2>2, <2>4
  <2>. QED  BY <2>3, <2>4
<1>5. \A j \in Jobs : job[j].prof = p => job'[j].moved
  <2>1. SUFFICES ASSUME NEW j \in Jobs, job[j].prof = p PROVE job'[j].moved = TRUE
    OBVIOUS
  <2>2. job'[j] = [job[j] EXCEPT !.moved = TRUE] /\ job[j] \in JobRecs
    BY <1>1, <2>1 DEF JobsTyped
  <2>. QED  BY <2>2 DEF JobRecs
<1>6. \A j \in Jobs : job[j].prof # p => job'[j] = job[j]
  BY <1>1
<1>7. JobsTyped'
  <2>1. job' = [j \in Jobs |-> job'[j]]
    BY <1>1
  <2>. QED  BY <1>4, <2>1 DEF JobsTyped
<1>8. \A j \in Jobs : Kept(j) \/ (job[j].prof = p /\ job'[j].moved)
  BY <1>5, <1>6 DEF Kept
<1>. QED  BY <1>1, <1>2, <1>3, <1>4, <1>5, <1>6, <1>7, <1>8

-----------------------------------------------------------------------------
(* Every step keeps the commands typed and shaped. *)
LEMMA JobsStep ==
    ASSUME JobsTyped, JobsShaped, NetTyped, ShownTyped, [Next]_vars
    PROVE  JobsTyped' /\ JobsShaped' /\ NetTyped'
<1>1. CASE \E j \in Jobs : Command(j)
  <2>1. PICK j \in Jobs : Command(j)
    BY <1>1
  <2>2. Shaped(j)
    BY DEF JobsShaped
  <2>3. job[j].prof \in Profiles /\ JobsTyped' /\ Others(j) /\ Shaped(j)'
    BY <2>1, <2>2, CommandResult DEF Result
  <2>4. NetTyped'
    BY <2>1, <2>3, CommandNet
  <2>5. ASSUME NEW k \in Jobs \ {j} PROVE Shaped(k)'
    BY <2>3 DEF Others, JobsShaped, Shaped
  <2>. QED  BY <2>3, <2>4, <2>5 DEF JobsShaped
<1>2. CASE \E p \in Profiles : \E j \in Jobs : Started(p, j)
  <2>1. PICK p \in Profiles, j \in Jobs : Started(p, j)
    BY <1>2
  <2>2. NetTyped'
    BY <2>1, CarriedSame DEF Started, NetTyped, charon, files, world
  <2>3. Shaped(j)'
    BY <2>1, IkeAssumption DEF Started, Shaped
  <2>4. ASSUME NEW k \in Jobs \ {j} PROVE Shaped(k)'
    BY <2>1 DEF Started, Others, JobsShaped, Shaped
  <2>5. JobsTyped'
    BY <2>1 DEF Started
  <2>. QED  BY <2>2, <2>3, <2>4, <2>5 DEF JobsShaped
<1>3. CASE Rests
  BY <1>3, CarriedSame DEF Rests, charon, JobsTyped, JobsShaped, Shaped, NetTyped
<1>4. CASE UNCHANGED job /\ NetTyped'
  BY <1>4 DEF JobsTyped, JobsShaped, Shaped
<1>5. CASE \E p \in Profiles : GatewayChanges(p)
  <2>1. PICK p \in Profiles : GatewayChanges(p)
    BY <1>5
  <2>2. ASSUME NEW j \in Jobs PROVE Shaped(j)'
    BY <2>1, ChangeTells DEF JobsShaped, Shaped
  <2>. QED  BY <2>1, <2>2, ChangeTells DEF JobsShaped
<1>. QED
  BY <1>1, <1>2, <1>3, <1>4, <1>5, Steps, DropTells, RedialTells, DiesTells DEF window, ShownTyped

(* A learned version is never the profile's own. *)
LEMMA LearnedTyped ==
    ASSUME JobsTyped, JobsShaped, ShownTyped, [Next]_vars
    PROVE  /\ learned' \in [Profiles -> [ver : Versions \cup {0}, age : 0 .. TTL]]
           /\ \A p \in Profiles : learned'[p].ver # Stated[p]
<1>. DEFINE Entries == [ver : Versions \cup {0}, age : 0 .. TTL]
<1>1. /\ \A p \in Profiles : learned[p] \in Entries /\ learned[p].ver # Stated[p]
      /\ \A p \in Profiles : Stated[p] \in Versions
      /\ TTL \in Nat \ {0}
  BY IkeAssumption DEF ShownTyped
<1>2. Nothing \in Entries /\ \A p \in Profiles : Nothing.ver # Stated[p]
  BY <1>1 DEF Nothing, Versions
<1>3. \A p \in Profiles : Fresh(p) \in Entries /\ Fresh(p).ver # Stated[p]
  BY <1>1, <1>2 DEF Fresh
<1>4. SUFFICES /\ learned' = [p \in Profiles |-> learned'[p]]
               /\ \A p \in Profiles : learned'[p] \in Entries /\ learned'[p].ver # Stated[p]
  OBVIOUS
<1>. HIDE DEF Entries
<1>5. CASE UNCHANGED learned
  BY <1>1, <1>5 DEF ShownTyped
<1>6. CASE \E j \in Jobs : Learn(j)
  <2>1. PICK j \in Jobs : Learn(j)
    BY <1>6
  <2>2. learned' = [learned EXCEPT ![job[j].prof] = Fresh(job[j].prof)]
    BY <2>1 DEF Learn
  <2>. QED  BY <1>1, <1>3, <2>2 DEF ShownTyped
<1>7. CASE \E j \in Jobs : Remember(j)
  <2>1. PICK j \in Jobs : Remember(j)
    BY <1>7
  <2>2. PICK p, v : p = job[j].prof /\ v = job[j].ver
    OBVIOUS
  <2>3. v \in Versions
    BY <2>1, <2>2 DEF Remember, JobsShaped, Shaped
  <2>4. PICK e : e = IF v = Stated[p] THEN Nothing
                     ELSE IF Fresh(p).ver # v THEN [ver |-> v, age |-> 0] ELSE learned[p]
    OBVIOUS
  <2>5. learned' = [learned EXCEPT ![p] = e]
    BY <2>1, <2>2, <2>4 DEF Remember
  <2>6. p \in Profiles => e \in Entries /\ e.ver # Stated[p]
    <3>1. v # Stated[p] =>
             [ver |-> v, age |-> 0] \in Entries /\ [ver |-> v, age |-> 0].ver # Stated[p]
      BY <1>1, <2>3 DEF Entries
    <3>. QED  BY <1>1, <1>2, <2>4, <3>1
  <2>. QED  BY <1>1, <2>5, <2>6 DEF ShownTyped
<1>8. CASE Tick
  <2>1. learned' = [p \in Profiles |->
                     IF learned[p].ver # 0 /\ learned[p].age < TTL
                     THEN [learned[p] EXCEPT !.age = @ + 1] ELSE learned[p]]
    BY <1>8 DEF Tick
  <2>2. ASSUME NEW p \in Profiles
        PROVE  learned'[p] \in Entries /\ learned'[p].ver # Stated[p]
    <3>1. learned[p] \in Entries /\ learned[p].ver # Stated[p]
      BY <1>1
    <3>2. CASE learned[p].ver # 0 /\ learned[p].age < TTL
      <4>1. learned'[p] = [learned[p] EXCEPT !.age = @ + 1]
        BY <2>1, <3>2
      <4>. QED  BY <1>1, <3>1, <3>2, <4>1 DEF Entries
    <3>3. CASE ~(learned[p].ver # 0 /\ learned[p].age < TTL)
      BY <2>1, <3>1, <3>3
    <3>. QED  BY <3>2, <3>3
  <2>. QED  BY <2>1, <2>2
<1>. QED
  BY <1>5, <1>6, <1>7, <1>8
  DEF Next, vars, Command, EnsureDaemon, CheckFull, Adopt, Load, Dial, DialLost,
      InitiateTogether, Judge, AwaitVip, ApplyDns, RevertDns, Terminate, Unload,
      ClickConnect, ClickDisconnect, Begin, ClickCancel, PollRead, Reconcile, Drop, Redial,
      GatewayChanges, CharonDies, ComeToRest, files

(* Every step keeps the window and the files typed, and a spinner has a    *)
(* command.                                                                *)
LEMMA WindowStep ==
    ASSUME JobsTyped, JobsShaped, NetTyped, ShownTyped, BoolsTyped, ShownRuns, [Next]_vars
    PROVE  /\ setting' \in Settings /\ shown' \in [Profiles -> Looks]
           /\ poll'.live \subseteq Profiles /\ BoolsTyped' /\ ShownRuns'
<1>. DEFINE Goal == /\ setting' \in Settings /\ shown' \in [Profiles -> Looks]
                    /\ poll'.live \subseteq Profiles /\ BoolsTyped' /\ ShownRuns'
<1>0. /\ setting \in Settings /\ shown \in [Profiles -> Looks] /\ poll.live \subseteq Profiles
      /\ quiet \in BOOLEAN /\ daemon \in BOOLEAN
  BY DEF ShownTyped, BoolsTyped
<1>1. ASSUME NEW j \in Jobs, Command(j) PROVE Goal
  <2>1. Shaped(j)
    BY DEF JobsShaped
  <2>2. job[j].prof \in Profiles /\ Result(j)
    BY <1>1, <2>1, CommandResult
  <2>3. setting' = setting /\ quiet' = quiet /\ poll' = poll
    BY <1>1, <2>2, CommandNet
  <2>4. daemon' = TRUE \/ daemon' = daemon
    BY <1>1 DEF Command, EnsureDaemon, Learn, CheckFull, Adopt, Load, Dial, DialLost, charon,
                InitiateTogether, Judge, Remember, AwaitVip, ApplyDns, RevertDns, Terminate, Unload
  <2>5. BoolsTyped'
    BY <1>0, <2>3, <2>4, Zenon DEF BoolsTyped
  <2>6. ShownRuns'
    <3>1. SUFFICES ASSUME NEW q \in Profiles, shown'[q] \in {"connecting", "disconnecting"}
                   PROVE  \E k \in Jobs : job'[k].prof = q
      BY DEF ShownRuns
    <3>2. CASE job'[j].prof = job[j].prof /\ shown' = shown
      BY <2>2, <3>1, <3>2 DEF ShownRuns, Result, Others
    <3>3. CASE /\ shown'[job[j].prof] \in {"disconnected", "established"}
               /\ \A r \in Profiles \ {job[j].prof} : shown'[r] = shown[r]
      <4>1. q # job[j].prof /\ shown'[q] = shown[q]
        BY <3>1, <3>3
      <4>2. PICK k \in Jobs : job[k].prof = q
        BY <3>1, <4>1 DEF ShownRuns
      <4>. QED  BY <2>2, <4>1, <4>2 DEF Result, Others
    <3>. QED  BY <2>2, <3>2, <3>3 DEF Result
  <2>. QED  BY <1>0, <2>2, <2>3, <2>5, <2>6 DEF Result
<1>2. ASSUME NEW p \in Profiles, NEW j \in Jobs, Started(p, j) PROVE Goal
  <2>1. PICK how \in {"connecting", "disconnecting"} : shown' = [shown EXCEPT ![p] = how]
    BY <1>2 DEF Started
  <2>2. shown' \in [Profiles -> Looks] /\ \A q \in Profiles \ {p} : shown'[q] = shown[q]
    BY <1>0, <2>1 DEF Looks
  <2>3. ShownRuns'
    <3>1. SUFFICES ASSUME NEW q \in Profiles, shown'[q] \in {"connecting", "disconnecting"}
                   PROVE  \E k \in Jobs : job'[k].prof = q
      BY DEF ShownRuns
    <3>2. CASE q = p
      BY <1>2, <3>2 DEF Started
    <3>3. CASE q # p
      <4>1. PICK k \in Jobs : job[k].prof = q
        BY <2>2, <3>1, <3>3 DEF ShownRuns
      <4>. QED  BY <1>2, <4>1, IkeAssumption DEF Started, Others
    <3>. QED  BY <3>2, <3>3
  <2>4. UNCHANGED <<poll, daemon, quiet, setting>>
    BY <1>2 DEF Started, charon, world
  <2>5. BoolsTyped'
    BY <2>4 DEF BoolsTyped
  <2>. QED  BY <1>0, <2>2, <2>3, <2>4, <2>5
<1>3. ASSUME UNCHANGED <<shown, poll, setting>>, BoolsTyped', ShownRuns' PROVE Goal
  BY <1>0, <1>3
<1>4. CASE UNCHANGED vars
  <2>1. BoolsTyped' /\ ShownRuns'
    BY <1>4 DEF vars, BoolsTyped, ShownRuns
  <2>. QED  BY <1>3, <1>4, <2>1 DEF vars
<1>5. ASSUME UNCHANGED <<job, daemon, quiet, setting>>, shown' \in [Profiles -> Looks],
             poll'.live \subseteq Profiles,
             \A p \in Profiles : shown'[p] \in {"connecting", "disconnecting"} => shown'[p] = shown[p]
      PROVE  Goal
  <2>1. BoolsTyped' /\ ShownRuns'
    BY <1>5 DEF BoolsTyped, ShownRuns
  <2>. QED  BY <1>0, <1>5, <2>1
<1>6. ASSUME NEW p \in Profiles, ClickCancel(p) PROVE Goal
  <2>1. /\ UNCHANGED <<job, poll, daemon, quiet, setting>>
        /\ shown' = [shown EXCEPT ![p] = "disconnected"]
    BY <1>6 DEF ClickCancel, charon, world
  <2>2. shown' \in [Profiles -> Looks]
    BY <1>0, <2>1 DEF Looks
  <2>3. \A q \in Profiles : shown'[q] \in {"connecting", "disconnecting"} => shown'[q] = shown[q]
    BY <1>0, <2>1
  <2>. QED  BY <1>0, <1>5, <2>1, <2>2, <2>3
<1>7. CASE PollRead
  <2>1. UNCHANGED <<shown, job, daemon, quiet, setting>>
    BY <1>7 DEF PollRead, charon, world
  <2>2. poll'.live \subseteq Profiles
    <3>1. CASE UNCHANGED poll
      BY <1>0, <3>1
    <3>2. CASE \E also \in SUBSET (redial \cup {p \in Profiles : \E j \in On(p) : job[j].at = "dial"}) :
                 poll' = [busy |-> TRUE, live |-> also \cup {p \in Profiles : ike[p] # {}}]
      BY <3>2 DEF NetTyped
    <3>. QED  BY <1>7, <3>1, <3>2 DEF PollRead
  <2>. QED  BY <1>0, <1>5, <2>1, <2>2
<1>8. CASE Reconcile
  <2>1. /\ UNCHANGED <<job, daemon, quiet, setting>>
        /\ poll' = [busy |-> FALSE, live |-> {}]
        /\ shown' = [p \in Profiles |->
                       CASE shown[p] \in {"connecting", "disconnecting"} -> shown[p]
                         [] OTHER -> IF p \in poll.live THEN "established" ELSE "disconnected"]
    BY <1>8 DEF Reconcile, charon, world
  <2>2. ASSUME NEW p \in Profiles
        PROVE  /\ shown'[p] \in Looks
               /\ shown'[p] \in {"connecting", "disconnecting"} => shown'[p] = shown[p]
    BY <1>0, <2>1 DEF Looks
  <2>3. shown' \in [Profiles -> Looks]
    BY <2>1, <2>2
  <2>4. poll'.live \subseteq Profiles
    BY <2>1
  <2>. QED  BY <1>5, <2>1, <2>2, <2>3, <2>4
<1>9. ASSUME NEW p \in Profiles, Drop(p) \/ Redial(p) PROVE Goal
  BY <1>0, <1>5, <1>9, DropTells, RedialTells DEF window, world
<1>10. ASSUME NEW p \in Profiles, GatewayChanges(p) PROVE Goal
  <2>1. /\ UNCHANGED <<shown, poll, daemon, quiet, setting>>
        /\ \A j \in Jobs : job'[j].prof = job[j].prof
    BY <1>10, ChangeTells DEF window, charon
  <2>2. BoolsTyped' /\ ShownRuns'
    BY <2>1 DEF BoolsTyped, ShownRuns
  <2>. QED  BY <1>3, <2>1, <2>2
<1>11. CASE CharonDies
  <2>1. UNCHANGED <<shown, poll, job, quiet, setting>> /\ daemon' = FALSE
    BY <1>11, DiesTells DEF window, world
  <2>2. BoolsTyped'
    BY <1>0, <2>1, Zenon DEF BoolsTyped
  <2>3. ShownRuns'
    BY <2>1 DEF ShownRuns
  <2>. QED  BY <1>3, <2>1, <2>2, <2>3
<1>12. CASE Tick
  BY <1>0, <1>5, <1>12 DEF Tick, window, charon, world
<1>13. CASE ComeToRest
  <2>1. UNCHANGED <<shown, poll, job, daemon, setting>> /\ quiet' = TRUE
    BY <1>13 DEF ComeToRest, window, charon
  <2>2. BoolsTyped'
    BY <1>0, <2>1, Zenon DEF BoolsTyped
  <2>3. ShownRuns'
    BY <2>1 DEF ShownRuns
  <2>. QED  BY <1>3, <2>1, <2>2, <2>3
<1>14. CASE \E p \in Profiles : ClickConnect(p) \/ ClickDisconnect(p)
  <2>1. PICK p \in Profiles, j \in Jobs : Started(p, j)
    BY <1>14, ClickStarts
  <2>. QED  BY <1>2, <2>1, Zenon
<1>. HIDE DEF Goal
<1>. QED
  BY <1>1, <1>4, <1>6, <1>7, <1>8, <1>9, <1>10, <1>11, <1>12, <1>13, <1>14 DEF Next, Goal

(* The types hold at first. *)
LEMMA InitTyped ==
    ASSUME Init
    PROVE  Typed
<1>1. JobsTyped /\ JobsShaped
  BY IdleTyped DEF Init, JobsTyped, JobsShaped, Shaped, Idle
<1>2. \A p \in Profiles : sa[p] \in [Nets[p] -> SaCounts] /\ ~Carried(p)
  BY SilentTyped DEF Init, Carried
<1>3. sa = [p \in Profiles |-> sa[p]]
  BY DEF Init
<1>4. NetTyped
  <2>1. /\ conn \in [Profiles -> Versions \cup {0}] /\ ike \in [Profiles -> SUBSET Versions]
        /\ gateway \in [Profiles -> SUBSET Versions] /\ redial = {} /\ dns = {} /\ daemon
    BY DEF Init
  <2>. QED  BY <1>2, <1>3, <2>1 DEF NetTyped, SaCounts
<1>5. ShownTyped
  <2>1. /\ setting \in Settings /\ shown \in [Profiles -> Looks] /\ poll.live \subseteq Profiles
    BY DEF Init, Looks
  <2>2. /\ Nothing \in [ver : Versions \cup {0}, age : 0 .. TTL]
        /\ \A p \in Profiles : Nothing.ver # Stated[p]
    BY IkeAssumption DEF Nothing, Versions
  <2>3. learned = [p \in Profiles |-> Nothing]
    BY DEF Init
  <2>. QED  BY <2>1, <2>2, <2>3 DEF ShownTyped
<1>6. BoolsTyped
  BY DEF Init, BoolsTyped
<1>7. ShownRuns
  BY DEF Init, ShownRuns
<1>. QED  BY <1>1, <1>4, <1>5, <1>6, <1>7 DEF Typed

(* Every step keeps the types. *)
LEMMA TypedStep ==
    ASSUME Typed, [Next]_vars
    PROVE  Typed'
BY JobsStep, LearnedTyped, WindowStep DEF Typed, ShownTyped

(* They imply the type invariant of the model. *)
LEMMA TypedSuffices ==
    ASSUME Typed
    PROVE  TypeOK
<1>1. \A j \in Jobs :
         /\ job[j].at \in Connecting \cup Ending \cup {"idle"}
         /\ job[j].at = "idle" <=> job[j].prof = NoProfile
         /\ job[j].at \in {"dial", "rest"} => job[j].todo # {}
         /\ job[j].at \in {"rest", "remember", "resolve"} => job[j].up
  BY DEF Typed, JobsTyped, JobsShaped, Shaped, JobRecs, Places
<1>2. ASSUME NEW p \in Profiles
      PROVE  /\ conn[p] \in Versions \cup {0} /\ ike[p] \subseteq Versions
             /\ sa[p] \in [Nets[p] -> 0 .. 2] /\ (Carried(p) => ike[p] # {})
  <2>1. 0 .. 2 = {0, 1, 2}
    OBVIOUS
  <2>. QED  BY <2>1 DEF Typed, NetTyped
<1>3. ASSUME NEW p \in Profiles
      PROVE  learned[p].ver \in {0, 3 - Stated[p]} /\ learned[p].age \in 0 .. TTL
  <2>1. /\ learned[p].ver \in Versions \cup {0} /\ learned[p].age \in 0 .. TTL
        /\ learned[p].ver # Stated[p] /\ Stated[p] \in Versions
    BY IkeAssumption DEF Typed, ShownTyped
  <2>. QED  BY <2>1 DEF Versions
<1>4. ASSUME NEW p \in Profiles, shown[p] \in {"connecting", "disconnecting"}
      PROVE  On(p) # {}
  BY <1>4 DEF Typed, ShownRuns, On
<1>5. /\ setting \in Settings /\ quiet \in BOOLEAN /\ daemon \in BOOLEAN
      /\ shown \in [Profiles -> {"disconnected", "connecting", "established", "disconnecting"}]
      /\ poll.live \subseteq Profiles /\ dns \subseteq Profiles /\ redial \subseteq Profiles
  BY DEF Typed, ShownTyped, BoolsTyped, NetTyped, Looks
<1>. QED  BY <1>1, <1>2, <1>3, <1>4, <1>5, Zenon DEF TypeOK

(* Types; a command at work belongs to a profile and is up where it must   *)
(* be; a learned version differs from the profile's; SAs exist only under  *)
(* an IKE_SA; a spinner has a command behind it.                           *)
THEOREM CommandTypes == Spec => []TypeOK
<1>1. Init => Typed
  BY InitTyped
<1>2. Typed /\ [Next]_vars => Typed'
  BY TypedStep
<1>3. Typed => TypeOK
  BY TypedSuffices
<1>. QED  BY <1>1, <1>2, <1>3, PTL DEF Spec

-----------------------------------------------------------------------------
(* Calm of more is calm of less. *)
LEMMA CalmLess ==
    ASSUME NEW S, Calm(S), NEW T \in SUBSET S
    PROVE  Calm(T)
BY DEF Calm

(* The circumstances are chosen once. *)
LEMMA SettingKept ==
    ASSUME Typed, [Next]_vars
    PROVE  setting' = setting /\ \A S : Calm(S)' <=> Calm(S)
<1>1. ASSUME NEW j \in Jobs, Command(j) PROVE setting' = setting
  BY <1>1, CommandResult, CommandNet DEF Typed, JobsShaped
<1>2. ASSUME NEW p \in Profiles, NEW j \in Jobs, Started(p, j) PROVE setting' = setting
  BY <1>2 DEF Started, world
<1>3. setting' = setting
  BY <1>1, <1>2, Steps, DropTells, RedialTells, DiesTells, ChangeTells
  DEF Typed, ShownTyped, Rests, world
<1>. QED  BY <1>3 DEF Calm

Busy(j) == job[j].prof # NoProfile

(* Without cancels, a profile's commands run one after another: the        *)
(* spinner, which only a command's answer takes away, keeps the button     *)
(* from starting a second one.                                             *)
Sole ==
    Calm({"cancel"}) =>
       /\ \A j, k \in Jobs : Busy(j) /\ job[k].prof = job[j].prof => j = k
       /\ \A j \in Jobs : Busy(j) => shown[job[j].prof] \in {"connecting", "disconnecting"}

(* If commands of different profiles do not overlap either, one command    *)
(* runs at a time.                                                         *)
Alone == Calm({"parallel", "cancel"}) => \A j, k \in Jobs : Busy(j) /\ Busy(k) => j = k

(* A command that takes a step is busy, with its profile. *)
LEMMA CommandBusy ==
    ASSUME Typed, NEW j \in Jobs, Command(j)
    PROVE  /\ Shaped(j) /\ Busy(j) /\ job[j].prof \in Profiles /\ Result(j)
           /\ NetTyped' /\ Elsewhere(job[j].prof)
           /\ setting' = setting /\ gateway' = gateway
BY CommandResult, CommandNet, IkeAssumption DEF Typed, JobsShaped, Busy

(* Every step keeps Sole. *)
LEMMA SoleStep ==
    ASSUME Typed, [Next]_vars, Sole
    PROVE  Sole'
<1>1. SUFFICES ASSUME Calm({"cancel"})
               PROVE  /\ \A j, k \in Jobs : Busy(j)' /\ job'[k].prof = job'[j].prof => j = k
                      /\ \A j \in Jobs : Busy(j)' =>
                            shown'[job'[j].prof] \in {"connecting", "disconnecting"}
  BY SettingKept DEF Sole
<1>2. /\ \A j, k \in Jobs : Busy(j) /\ job[k].prof = job[j].prof => j = k
      /\ \A j \in Jobs : Busy(j) => shown[job[j].prof] \in {"connecting", "disconnecting"}
      /\ \A j \in Jobs : Busy(j) => job[j].prof \in Profiles
      /\ shown \in [Profiles -> Looks]
  BY <1>1 DEF Sole, Busy, Typed, JobsTyped, JobRecs, ShownTyped
<1>3. ASSUME NEW j \in Jobs, Command(j)
      PROVE  /\ \A i, k \in Jobs : Busy(i)' /\ job'[k].prof = job'[i].prof => i = k
             /\ \A i \in Jobs : Busy(i)' =>
                   shown'[job'[i].prof] \in {"connecting", "disconnecting"}
  <2>1. Busy(j) /\ Result(j) /\ job[j].prof \in Profiles
    BY <1>3, CommandBusy
  <2>2. CASE job'[j].prof = job[j].prof /\ shown' = shown
    BY <1>2, <2>1, <2>2 DEF Busy, Result, Others
  <2>3. CASE /\ job'[j] = Idle
             /\ \A q \in Profiles \ {job[j].prof} : shown'[q] = shown[q]
    <3>1. \A i \in Jobs : Busy(i)' => i # j /\ job'[i] = job[i] /\ job[i].prof # job[j].prof
      BY <1>2, <2>1, <2>3 DEF Busy, Result, Others, Idle
    <3>. QED  BY <1>2, <2>1, <2>3, <3>1 DEF Busy, Idle
  <2>. QED  BY <2>1, <2>2, <2>3 DEF Result
<1>4. ASSUME NEW p \in Profiles, NEW j \in Jobs, Started(p, j)
      PROVE  /\ \A i, k \in Jobs : Busy(i)' /\ job'[k].prof = job'[i].prof => i = k
             /\ \A i \in Jobs : Busy(i)' =>
                   shown'[job'[i].prof] \in {"connecting", "disconnecting"}
  <2>1. /\ shown[p] \in {"disconnected", "established"} /\ job'[j].prof = p /\ Others(j)
        /\ \E how \in {"connecting", "disconnecting"} : shown' = [shown EXCEPT ![p] = how]
    BY <1>4 DEF Started
  <2>2. \A k \in Jobs : job[k].prof # p
    BY <1>2, <2>1, IkeAssumption DEF Busy
  <2>3. shown'[p] \in {"connecting", "disconnecting"} /\ \A q \in Profiles \ {p} : shown'[q] = shown[q]
    BY <1>2, <2>1
  <2>. QED  BY <1>2, <2>1, <2>2, <2>3 DEF Busy, Others
<1>5. CASE Rests
  BY <1>1, <1>2, <1>5 DEF Rests, Busy
<1>6. CASE UNCHANGED <<job, shown>>
  BY <1>2, <1>6 DEF Busy
<1>7. ASSUME NEW p \in Profiles, GatewayChanges(p)
      PROVE  shown' = shown /\ \A j \in Jobs : job'[j].prof = job[j].prof
  BY <1>7, ChangeTells DEF Typed, window
<1>8. CASE \E p \in Profiles : GatewayChanges(p)
  BY <1>2, <1>7, <1>8 DEF Busy
<1>9. CASE \/ \E p \in Profiles : Drop(p) \/ Redial(p)
           \/ CharonDies
  BY <1>6, <1>9, DropTells, RedialTells, DiesTells DEF Typed, window
<1>. QED  BY <1>3, <1>4, <1>5, <1>8, <1>9, Steps DEF Typed, ShownTyped

(* Every step keeps Alone. *)
LEMMA AloneStep ==
    ASSUME Typed, [Next]_vars, Sole, Alone
    PROVE  Alone'
<1>1. SUFFICES ASSUME Calm({"parallel", "cancel"}), NEW i \in Jobs, NEW k \in Jobs,
                      Busy(i)', Busy(k)'
               PROVE  i = k
  BY SettingKept DEF Alone
<1>2. Calm({"cancel"}) /\ ~Usual("parallel")
  BY <1>1, CalmLess, CalmSays
<1>3. \A j, l \in Jobs : Busy(j) /\ Busy(l) => j = l
  BY <1>1 DEF Alone
<1>4. CASE \E j \in Jobs : Command(j)
  BY <1>1, <1>3, <1>4, CommandBusy DEF Busy, Result, Others, Idle
<1>5. CASE \E p \in Profiles : \E j \in Jobs : Started(p, j)
  <2>1. PICK p \in Profiles, j \in Jobs : Started(p, j)
    BY <1>5
  <2>2. \A l \in Jobs : ~Busy(l)
    BY <1>2, <2>1 DEF Started, Sole, Busy
  <2>. QED  BY <1>1, <2>1, <2>2 DEF Started, Others, Busy
<1>6. CASE \A j \in Jobs : job'[j].prof = job[j].prof
  BY <1>1, <1>3, <1>6 DEF Busy
<1>7. CASE \E p \in Profiles : GatewayChanges(p)
  BY <1>6, <1>7, ChangeTells DEF Typed
<1>8. CASE Rests \/ CharonDies \/ \E p \in Profiles : Drop(p) \/ Redial(p)
  BY <1>6, <1>8, DropTells, RedialTells, DiesTells DEF Typed, window, Rests
<1>. QED  BY <1>4, <1>5, <1>7, <1>8, Steps DEF Typed, ShownTyped

-----------------------------------------------------------------------------
(* A command's step touches neither another command nor another command's  *)
(* profile.                                                                *)
LEMMA Apart ==
    ASSUME Typed, Sole, Calm({"cancel"}), NEW j \in Jobs, Command(j), NEW k \in Jobs \ {j}
    PROVE  /\ job'[k] = job[k]
           /\ Busy(k) => \A q : q = job[k].prof =>
                            /\ q \in Profiles /\ q # job[j].prof
                            /\ conn'[q] = conn[q] /\ ike'[q] = ike[q] /\ sa'[q] = sa[q]
                            /\ q \in dns' <=> q \in dns
                            /\ Carried(q)' <=> Carried(q)
<1>1. Busy(j) /\ Result(j) /\ Elsewhere(job[j].prof)
  BY CommandBusy
<1>2. job'[k] = job[k]
  BY <1>1 DEF Result, Others
<1>3. ASSUME Busy(k) PROVE job[k].prof \in Profiles \ {job[j].prof}
  BY <1>1, <1>3 DEF Sole, Busy, Typed, JobsTyped, JobRecs
<1>. QED  BY <1>1, <1>2, <1>3, CarriedSame DEF Elsewhere

(* The kinds of step a command takes, by what becomes of its record.       *)
Walks(j) ==
    /\ Kept(j)
    /\ job'[j].at \in {"learn", "adopt", "load", "remember", "wait", "resolve", "terminate", "unload"}
    /\ job'[j].at = "learn" => EnsureDaemon(j)
    /\ job'[j].at = "adopt" => CheckFull(j) /\ (Rivals(job[j].prof) = {} \/ Unseen)
    /\ job'[j].at = "load" => Adopt(j) /\ (~Established(job[j].prof) \/ Unseen)
    /\ job'[j].at = "terminate" =>
          RevertDns(j) /\ (May("unresolved") \/ dns' = dns \ {job[j].prof})
    /\ job'[j].at = "unload" => Terminate(j)

Learns(j) ==
    /\ job[j].at = "learn" /\ job'[j].at = "full" /\ job'[j].prof = job[j].prof
    /\ job'[j].alt = job[j].alt /\ job'[j].up = job[j].up /\ job'[j].saw = job[j].saw
    /\ job'[j].rejected = job[j].rejected /\ job'[j].moved = job[j].moved

Loads(j) ==
    /\ job[j].at = "load" /\ job'[j].at = "dial" /\ daemon
    /\ conn'[job[j].prof] = job[j].ver
    /\ job'[j].prof = job[j].prof /\ job'[j].ver = job[j].ver /\ job'[j].alt = job[j].alt
    /\ job'[j].up = job[j].up /\ job'[j].saw = job[j].saw
    /\ job'[j].rejected = job[j].rejected /\ job'[j].moved = job[j].moved

Dials(j) ==
    /\ job[j].at = "dial" /\ UNCHANGED <<daemon, conn, redial, dns>>
    /\ \E c \in job[j].todo, word \in Words :
          /\ Asked(j, c, word) /\ Noticed(j, c, word)
          /\ job'[j].saw = job[j].saw \cup {word}
          /\ job'[j].at = IF job'[j].todo = {} \/ word = "rejected" THEN "judge"
                          ELSE IF word = "up" THEN "rest" ELSE "dial"

Completes(j) ==
    /\ job[j].at = "rest" /\ UNCHANGED <<daemon, conn, redial, dns>>
    /\ \E c \in job[j].todo, word \in Words :
          /\ Asked(j, c, word) /\ Noticed(j, c, word)
          /\ job'[j].saw = job[j].saw
          /\ job'[j].at = IF job'[j].todo = {} THEN "judge" ELSE "rest"

Retries(j) ==
    /\ job[j].at = "judge" /\ FallsBack(j) /\ FellBack(j)
    /\ job[j].ver \in Versions /\ Other(job[j].ver) \in Versions

(* Every step of a command is one of these or its end. *)
LEMMA Walk ==
    ASSUME Typed, NEW j \in Jobs, Command(j)
    PROVE  \/ job'[j] = Idle
           \/ Walks(j) \/ Learns(j) \/ Loads(j)
           \/ Dials(j) \/ Completes(j) \/ Retries(j)
<1>1. /\ Shaped(j) /\ job[j].prof \in Profiles /\ JobsTyped /\ NetTyped
      /\ shown \in [Profiles -> Looks]
  BY CommandBusy DEF Typed, ShownTyped
<1>2. {"learn", "adopt", "load", "remember", "wait", "resolve", "terminate", "unload"} \subseteq Places
  BY DEF Places, Connecting, Ending
<1>3. ASSUME NEW how \in {"disconnected", "established"}, Answer(j, how)
      PROVE  job'[j] = Idle
  BY <1>1, <1>3, Answers DEF Looks
<1>4. CASE EnsureDaemon(j)
  <2>1. CASE Goes(j, "learn")
    BY <1>1, <1>2, <1>4, <2>1, GoesTo DEF Walks
  <2>. QED  BY <1>3, <1>4, <2>1 DEF EnsureDaemon
<1>5. CASE Learn(j)
  <2>1. job[j].at = "learn" /\ job[j] \in JobRecs
    BY <1>1, <1>5 DEF Learn, JobsTyped
  <2>2. PICK v : job' = [job EXCEPT ![j] = [@ EXCEPT !.at = "full", !.ver = v]]
    BY <1>5 DEF Learn
  <2>3. job'[j] = [job[j] EXCEPT !.at = "full", !.ver = v]
    BY <1>1, <2>2 DEF JobsTyped
  <2>4. Learns(j)
    BY <2>1, <2>3 DEF JobRecs, Learns
  <2>. QED  BY <2>4
<1>6. CASE CheckFull(j)
  <2>1. CASE Goes(j, "adopt") /\ (Rivals(job[j].prof) = {} \/ Unseen)
    BY <1>1, <1>2, <1>6, <2>1, GoesTo DEF Walks
  <2>. QED  BY <1>3, <1>6, <2>1 DEF CheckFull
<1>7. CASE Adopt(j)
  <2>1. CASE Goes(j, "wait")
    BY <1>1, <1>2, <2>1, GoesTo DEF Walks
  <2>2. CASE Goes(j, "load") /\ (~Established(job[j].prof) \/ Unseen)
    BY <1>1, <1>2, <1>7, <2>2, GoesTo DEF Walks
  <2>. QED  BY <1>7, <2>1, <2>2 DEF Adopt
<1>8. CASE Load(j)
  <2>1. CASE /\ daemon /\ conn' = [conn EXCEPT ![job[j].prof] = job[j].ver]
             /\ job' = [job EXCEPT ![j] =
                           [@ EXCEPT !.at = "dial", !.todo = Children(job[j].prof, job[j].ver)]]
    <3>1. job[j].at = "load" /\ job[j] \in JobRecs
      BY <1>1, <1>8 DEF Load, JobsTyped
    <3>2. conn'[job[j].prof] = job[j].ver
      BY <1>1, <2>1 DEF NetTyped
    <3>3. job'[j] = [job[j] EXCEPT !.at = "dial", !.todo = Children(job[j].prof, job[j].ver)]
      BY <1>1, <2>1 DEF JobsTyped
    <3>4. PICK kids : kids = Children(job[j].prof, job[j].ver)
      OBVIOUS
    <3>5. job'[j] = [job[j] EXCEPT !.at = "dial", !.todo = kids]
      BY <3>3, <3>4
    <3>6. /\ job'[j].at = "dial" /\ job'[j].prof = job[j].prof /\ job'[j].ver = job[j].ver
          /\ job'[j].alt = job[j].alt /\ job'[j].up = job[j].up /\ job'[j].saw = job[j].saw
          /\ job'[j].rejected = job[j].rejected /\ job'[j].moved = job[j].moved
      BY <3>1, <3>5 DEF JobRecs
    <3>. QED  BY <2>1, <3>1, <3>2, <3>6, Zenon DEF Loads
  <2>. QED  BY <1>3, <1>8, <2>1 DEF Load
<1>9. CASE Dial(j)
  <2>1. job[j].at = "dial" /\ UNCHANGED <<daemon, conn, redial, dns>>
    BY <1>9 DEF Dial, files
  <2>2. Dials(j)
    BY <1>1, <1>9, <2>1, DialTells DEF Dials
  <2>. QED  BY <2>2
<1>10. CASE InitiateTogether(j)
  <2>1. job[j].at = "rest" /\ UNCHANGED <<daemon, conn, redial, dns>>
    BY <1>10 DEF InitiateTogether, files
  <2>2. Completes(j)
    BY <1>1, <1>10, <2>1, RestTells DEF Completes
  <2>. QED  BY <2>2
<1>11. CASE Judge(j)
  <2>1. CASE Goes(j, "remember")
    BY <1>1, <1>2, <2>1, GoesTo DEF Walks
  <2>2. CASE /\ FallsBack(j) /\ FellBack(j)
             /\ job[j].ver \in Versions /\ Other(job[j].ver) \in Versions
    BY <1>11, <2>2 DEF Retries, Judge
  <2>. QED  BY <1>1, <1>3, <1>11, <2>1, <2>2, JudgeTells
<1>12. CASE Remember(j)
  BY <1>1, <1>2, <1>12, GoesTo DEF Walks, Remember
<1>13. CASE AwaitVip(j)
  <2>1. CASE Goes(j, "resolve")
    BY <1>1, <1>2, <2>1, GoesTo DEF Walks
  <2>. QED  BY <1>3, <1>13, <2>1 DEF AwaitVip
<1>14. CASE RevertDns(j)
  BY <1>1, <1>2, <1>14, GoesTo DEF Walks, RevertDns
<1>15. CASE Terminate(j)
  <2>1. CASE Goes(j, "unload")
    BY <1>1, <1>2, <1>15, <2>1, GoesTo DEF Walks
  <2>. QED  BY <1>3, <1>15, <2>1 DEF Terminate
<1>16. CASE DialLost(j) \/ ApplyDns(j) \/ Unload(j)
  BY <1>3, <1>16 DEF DialLost, ApplyDns, Unload
<1>. QED
  BY <1>4, <1>5, <1>6, <1>7, <1>8, <1>9, <1>10, <1>11, <1>12, <1>13, <1>14, <1>15, <1>16
  DEF Command

(* Only initiates, and Terminate, change what charon has up; Terminate     *)
(* leaves nothing of its profile.                                          *)
LEMMA CharonKept ==
    ASSUME Typed, NEW j \in Jobs, Command(j), NEW p, p = job[j].prof
    PROVE  \/ Dials(j) \/ Completes(j)
           \/ UNCHANGED <<ike, sa, redial>>
           \/ /\ Terminate(j) /\ daemon /\ redial' \subseteq redial
              /\ ~Carried(p)'
              /\ \A n \in Nets[p] : sa'[p][n] = 0
<1>1. p \in Profiles /\ NetTyped /\ JobsTyped
  BY CommandBusy DEF Typed
<1>2. CASE Dial(j)
  <2>1. job[j].at = "dial" /\ UNCHANGED <<daemon, conn, redial, dns>>
    BY <1>2 DEF Dial, files
  <2>. QED  BY <1>1, <1>2, <2>1, DialTells DEF Dials
<1>3. CASE InitiateTogether(j)
  <2>1. job[j].at = "rest" /\ UNCHANGED <<daemon, conn, redial, dns>>
    BY <1>3 DEF InitiateTogether, files
  <2>. QED  BY <1>1, <1>3, <2>1, RestTells DEF Completes
<1>4. CASE Terminate(j)
  <2>1. CASE /\ daemon /\ redial' = redial \ {p}
             /\ sa' = [sa EXCEPT ![p] = Silent(p)]
    <3>1. sa'[p] = Silent(p)
      BY <1>1, <2>1 DEF NetTyped
    <3>2. \A n \in Nets[p] : Silent(p)[n] = 0
      BY <1>1, SilentTyped
    <3>3. \A n \in Nets[p] : sa'[p][n] = 0
      BY <3>1, <3>2, Zenon
    <3>4. ~Carried(p)'
      BY <3>3 DEF Carried
    <3>. QED  BY <1>4, <2>1, <3>3, <3>4
  <2>2. CASE UNCHANGED <<ike, sa, redial>>
    BY <2>2
  <2>. QED  BY <1>4, <2>1, <2>2 DEF Terminate
<1>5. CASE UNCHANGED <<ike, sa, redial>>
  BY <1>5
<1>. QED
  BY <1>2, <1>3, <1>4, <1>5
  DEF Command, EnsureDaemon, Learn, CheckFull, Adopt, Load, DialLost, charon,
      Judge, Remember, AwaitVip, ApplyDns, RevertDns, Unload

-----------------------------------------------------------------------------
(* While a command dials, its connection is loaded at the version it       *)
(* dials, or charon died and it is not loaded at all.                      *)
LoadedAt(j) ==
    job[j].at \in {"dial", "rest", "judge"} =>
       /\ conn[job[j].prof] \in {0, job[j].ver}
       /\ Calm({"dies"}) => conn[job[j].prof] = job[j].ver

Loaded == Calm({"cancel"}) => \A j \in Jobs : LoadedAt(j)

(* Every step keeps it. *)
LEMMA LoadedStep ==
    ASSUME Typed, [Next]_vars, Sole, Loaded
    PROVE  Loaded'
<1>1. SUFFICES ASSUME Calm({"cancel"}) PROVE \A j \in Jobs : LoadedAt(j)'
  BY SettingKept DEF Loaded
<1>2. \A j \in Jobs : LoadedAt(j)
  BY <1>1 DEF Loaded
<1>3. Calm({"dies"})' => Calm({"dies"})
  BY SettingKept
<1>4. ASSUME NEW j \in Jobs, Command(j) PROVE \A k \in Jobs : LoadedAt(k)'
  <2>1. ASSUME NEW k \in Jobs \ {j} PROVE LoadedAt(k)'
    <3>1. SUFFICES ASSUME job'[k].at \in {"dial", "rest", "judge"}
                   PROVE  /\ conn'[job'[k].prof] \in {0, job'[k].ver}
                          /\ Calm({"dies"})' => conn'[job'[k].prof] = job'[k].ver
      BY DEF LoadedAt
    <3>2. job'[k] = job[k] /\ Busy(k)
      BY <1>1, <1>4, <3>1, Apart DEF Busy, Typed, JobsShaped, Shaped
    <3>3. PICK q : q = job[k].prof
      OBVIOUS
    <3>4. conn'[q] = conn[q]
      BY <1>1, <1>4, <3>2, <3>3, Apart
    <3>. QED  BY <1>2, <1>3, <3>1, <3>2, <3>3, <3>4 DEF LoadedAt
  <2>2. LoadedAt(j)'
    <3>1. CASE job'[j] = Idle
      BY <3>1 DEF LoadedAt, Idle
    <3>2. CASE Walks(j) \/ Learns(j) \/ Retries(j)
      BY <3>2 DEF LoadedAt, Walks, Learns, Retries, FellBack
    <3>3. CASE Loads(j)
      BY <3>3 DEF LoadedAt, Loads
    <3>4. CASE Dials(j) \/ Completes(j)
      BY <1>2, <1>3, <3>4 DEF LoadedAt, Dials, Completes, Noticed
    <3>. QED  BY <1>4, <3>1, <3>2, <3>3, <3>4, Walk
  <2>. QED  BY <2>1, <2>2
<1>5. ASSUME NEW p \in Profiles, NEW j \in Jobs, Started(p, j) PROVE \A k \in Jobs : LoadedAt(k)'
  BY <1>2, <1>3, <1>5 DEF Started, Others, LoadedAt, charon
<1>6. CASE UNCHANGED <<job, conn>>
  BY <1>2, <1>3, <1>6 DEF LoadedAt
<1>7. ASSUME NEW p \in Profiles, GatewayChanges(p) PROVE \A k \in Jobs : LoadedAt(k)'
  <2>1. conn' = conn /\ \A k \in Jobs : /\ job'[k].at = job[k].at /\ job'[k].prof = job[k].prof
                                        /\ job'[k].ver = job[k].ver
    BY <1>7, ChangeTells DEF Typed, charon
  <2>. QED  BY <1>2, <1>3, <2>1 DEF LoadedAt
<1>8. CASE CharonDies
  <2>1. /\ ~Calm({"dies"}) /\ job' = job
        /\ \A p \in Profiles : conn'[p] = 0
    BY <1>8, DiesTells, CalmSays DEF Typed, window
  <2>2. \A k \in Jobs : job[k].at \in {"dial", "rest", "judge"} => job[k].prof \in Profiles
    BY DEF Typed, JobsTyped, JobRecs, JobsShaped, Shaped
  <2>. QED  BY <1>3, <2>1, <2>2 DEF LoadedAt
<1>9. CASE Rests \/ \E p \in Profiles : Drop(p) \/ Redial(p)
  BY <1>6, <1>9, DropTells, RedialTells DEF Typed, Rests, charon, window
<1>. QED  BY <1>4, <1>5, <1>7, <1>8, <1>9, Steps DEF Typed, ShownTyped

-----------------------------------------------------------------------------
(* Nothing is redialled, and charon lives, in a setting without it.        *)
Quiescent ==
    /\ Calm({"redials"}) => redial = {}
    /\ Calm({"dies"}) => daemon

(* Every step keeps that. *)
LEMMA QuiescentStep ==
    ASSUME Typed, [Next]_vars, Quiescent
    PROVE  Quiescent'
<1>1. Calm({"redials"})' <=> Calm({"redials"})
  BY SettingKept
<1>2. Calm({"dies"})' <=> Calm({"dies"})
  BY SettingKept
<1>3. ASSUME NEW j \in Jobs, Command(j) PROVE Quiescent'
  <2>1. redial' \subseteq redial
    BY <1>3, CharonKept DEF Dials, Completes
  <2>2. daemon => daemon'
    BY <1>3 DEF Command, EnsureDaemon, Learn, CheckFull, Adopt, Load, Dial, DialLost, charon,
                InitiateTogether, Judge, Remember, AwaitVip, ApplyDns, RevertDns, Terminate, Unload
  <2>. QED  BY <1>1, <1>2, <2>1, <2>2 DEF Quiescent
<1>4. ASSUME NEW p \in Profiles, Drop(p) PROVE Quiescent'
  <2>1. daemon' = daemon /\ (Usual("redials") \/ redial' = redial)
    BY <1>4, DropTells DEF Typed
  <2>2. Calm({"redials"}) => ~Usual("redials")
    BY CalmSays
  <2>. QED  BY <1>1, <1>2, <2>1, <2>2 DEF Quiescent
<1>5. ASSUME NEW p \in Profiles, Redial(p) PROVE Quiescent'
  <2>1. daemon' = daemon /\ redial' \subseteq redial
    BY <1>5, RedialTells DEF Typed
  <2>. QED  BY <1>1, <1>2, <2>1 DEF Quiescent
<1>6. CASE CharonDies
  <2>1. redial' = {} /\ ~Calm({"dies"})
    BY <1>6, DiesTells, CalmSays DEF Typed
  <2>. QED  BY <1>1, <1>2, <2>1 DEF Quiescent
<1>7. CASE UNCHANGED charon
  BY <1>1, <1>2, <1>7 DEF Quiescent, charon
<1>8. ASSUME NEW p \in Profiles, GatewayChanges(p) PROVE UNCHANGED charon
  BY <1>8, ChangeTells DEF Typed
<1>. QED  BY <1>3, <1>4, <1>5, <1>6, <1>7, <1>8, Steps DEF Typed, ShownTyped, Rests, Started

-----------------------------------------------------------------------------
(* Nothing of a profile is up when its connect loads and until its first   *)
(* child is up, and no network of a child is up that was not asked for     *)
(* yet.                                                                    *)
ClearOf(j) ==
    \A p \in Profiles : job[j].prof = p =>
       /\ job[j].at = "load" \/ (job[j].at \in {"dial", "judge"} /\ ~job[j].up) => ~Carried(p)
       /\ job[j].at = "rest" => \A c \in job[j].todo : \A n \in Nets[p] \cap c : sa[p][n] = 0

SingleSAs == \A p \in Profiles : \A n \in Nets[p] : sa[p][n] \in {0, 1}

Single ==
    Calm({"cancel", "redials", "fails"}) => SingleSAs /\ \A j \in Jobs : ClearOf(j)

(* A profile that is not carried has no SA. *)
LEMMA Uncarried ==
    ASSUME NetTyped, NEW p \in Profiles
    PROVE  ~Carried(p) <=> \A n \in Nets[p] : sa[p][n] = 0
<1>1. \A n \in Nets[p] : sa[p][n] \in {0, 1, 2}
  BY DEF NetTyped
<1>. QED  BY <1>1 DEF Carried

(* An initiate adds SAs for the networks of its child, and only if it      *)
(* comes up.                                                               *)
LEMMA AskedCounts ==
    ASSUME Typed, NEW j \in Jobs, NEW p, p = job[j].prof, Dials(j) \/ Completes(j), Command(j),
           NEW c \in job[j].todo, NEW word \in Words, Asked(j, c, word)
    PROVE  /\ p \in Profiles /\ ike[p] \subseteq ike'[p]
           /\ word # "up" => sa' = sa
           /\ word = "up" =>
                /\ daemon /\ conn[p] \in ike'[p]
                /\ c # {} /\ c \subseteq Nets[p]
                /\ \A n \in c : sa'[p][n] > 0 /\ (sa[p][n] = 0 => sa'[p][n] = 1)
                /\ \A n \in Nets[p] \ c : sa'[p][n] = sa[p][n]
                /\ Carried(p)'
<1>1. p \in Profiles /\ Shaped(j) /\ NetTyped /\ gateway' = gateway
  BY CommandBusy DEF Typed
<1>2. job[j].at \in {"dial", "rest"} /\ UNCHANGED <<daemon, conn, redial, gateway, dns>>
  BY <1>1 DEF Dials, Completes
<1>3. c # {} /\ c \subseteq Nets[p]
  BY <1>1, <1>2, ChildrenTyped DEF Shaped
<1>4. /\ ike[p] \subseteq ike'[p]
      /\ word # "up" => sa' = sa
      /\ word = "up" => daemon /\ conn[p] \in ike'[p] /\ sa'[p] = More(p, c)
  BY <1>1, <1>2, AskedNet
<1>5. ASSUME word = "up"
      PROVE  /\ \A n \in c : sa'[p][n] > 0 /\ (sa[p][n] = 0 => sa'[p][n] = 1)
             /\ \A n \in Nets[p] \ c : sa'[p][n] = sa[p][n]
             /\ Carried(p)'
  <2>1. sa[p] \in [Nets[p] -> SaCounts] /\ sa'[p] = More(p, c)
    BY <1>1, <1>4, <1>5 DEF NetTyped, SaCounts
  <2>2. /\ \A n \in Nets[p] \ c : More(p, c)[n] = sa[p][n]
        /\ \A n \in Nets[p] \cap c : More(p, c)[n] > 0
        /\ \A n \in Nets[p] \cap c : sa[p][n] = 0 => More(p, c)[n] = 1
    BY <1>1, <2>1, MoreTyped
  <2>. QED  BY <1>3, <2>1, <2>2 DEF Carried
<1>. QED  BY <1>1, <1>3, <1>4, <1>5

(* A command's own step keeps this: Adopt saw nothing up, and children are *)
(* disjoint.                                                               *)
LEMMA ClearStep ==
    ASSUME Typed, Quiescent, SingleSAs, NEW j \in Jobs, Command(j), ClearOf(j),
           Calm({"cancel", "redials", "fails"})
    PROVE  ClearOf(j)' /\ SingleSAs'
<1>. PICK p : p = job[j].prof
  OBVIOUS
<1>1. /\ Shaped(j) /\ p \in Profiles /\ NetTyped /\ NetTyped'
      /\ \A q \in Profiles \ {p} : sa'[q] = sa[q]
      /\ NoProfile \notin Profiles
  BY CommandBusy, IkeAssumption DEF Typed, Elsewhere
<1>2. ~May("fails")
  BY CalmSays
<1>3. \A q \in Profiles : ~Carried(q) <=> \A n \in Nets[q] : sa[q][n] = 0
  BY <1>1, Uncarried
<1>4. SUFFICES /\ \A n \in Nets[p] : sa'[p][n] \in {0, 1}
               /\ job'[j].prof = p => ClearOf(j)'
  <2>1. SingleSAs'
    BY <1>1, <1>4 DEF SingleSAs
  <2>2. job'[j].prof # p => ClearOf(j)'
    <3>1. job'[j] = Idle \/ job'[j].prof = p
      BY CommandBusy DEF Result
    <3>. QED  BY <1>1, <3>1 DEF ClearOf, Idle
  <2>. QED  BY <1>4, <2>1, <2>2
<1>5. CASE Dials(j)
  <2>1. PICK c \in job[j].todo, word \in Words :
           /\ Asked(j, c, word) /\ Noticed(j, c, word)
           /\ job'[j].at = IF job'[j].todo = {} \/ word = "rejected" THEN "judge"
                           ELSE IF word = "up" THEN "rest" ELSE "dial"
    BY <1>5 DEF Dials
  <2>2. job[j].at = "dial" /\ ~job[j].up
    BY <1>1, <1>5 DEF Dials, Shaped
  <2>3. ~Carried(p) /\ \A n \in Nets[p] : sa[p][n] = 0
    BY <1>1, <1>3, <2>2 DEF ClearOf
  <2>4. job'[j].prof = p /\ job'[j].todo = job[j].todo \ {c} /\ (job'[j].up <=> word = "up")
    BY <2>1, <2>2 DEF Noticed
  <2>5. CASE word = "up"
    <3>1. /\ \A n \in c : sa'[p][n] = 1
          /\ \A n \in Nets[p] \ c : sa'[p][n] = 0
          /\ c \subseteq Nets[p]
      BY <1>1, <1>5, <2>1, <2>3, <2>5, AskedCounts
    <3>2. \A d \in job'[j].todo : d \cap c = {}
      BY <1>1, <2>2, <2>4, ChildrenTyped DEF Shaped
    <3>3. job'[j].at \in {"judge", "rest"} /\ job'[j].up
      BY <2>1, <2>4, <2>5
    <3>4. \A d \in job'[j].todo : \A n \in Nets[p] \cap d : sa'[p][n] = 0
      BY <3>1, <3>2
    <3>5. ClearOf(j)'
      BY <2>4, <3>3, <3>4 DEF ClearOf
    <3>. QED  BY <3>1, <3>5
  <2>6. CASE word # "up"
    <3>1. sa' = sa
      BY <1>1, <1>5, <2>1, <2>6, AskedCounts
    <3>2. ~Carried(p)' /\ \A n \in Nets[p] : sa'[p][n] \in {0, 1}
      BY <2>3, <3>1 DEF Carried
    <3>3. job'[j].at # "rest"
      BY <2>1, <2>6
    <3>. QED  BY <2>4, <3>2, <3>3 DEF ClearOf
  <2>. QED  BY <2>5, <2>6
<1>6. CASE Completes(j)
  <2>1. PICK c \in job[j].todo, word \in Words :
           /\ Asked(j, c, word) /\ Noticed(j, c, word)
           /\ job'[j].at = IF job'[j].todo = {} THEN "judge" ELSE "rest"
    BY <1>6 DEF Completes
  <2>2. job[j].at = "rest" /\ job[j].up
    BY <1>1, <1>6 DEF Completes, Shaped
  <2>3. \A d \in job[j].todo : \A n \in Nets[p] \cap d : sa[p][n] = 0
    BY <1>1, <2>2 DEF ClearOf
  <2>4. /\ job'[j].prof = p /\ job'[j].todo = job[j].todo \ {c} /\ job'[j].up
        /\ job'[j].at \in {"judge", "rest"}
    BY <2>1, <2>2 DEF Noticed
  <2>5. \A n \in Nets[p] : sa[p][n] \in {0, 1}
    BY <1>1 DEF SingleSAs
  <2>6. CASE word = "up"
    <3>1. /\ \A n \in c : sa[p][n] = 0 => sa'[p][n] = 1
          /\ \A n \in Nets[p] \ c : sa'[p][n] = sa[p][n]
          /\ c \subseteq Nets[p]
      BY <1>1, <1>6, <2>1, <2>6, AskedCounts
    <3>2. \A d \in job'[j].todo : d \cap c = {}
      BY <1>1, <2>2, <2>4, ChildrenTyped DEF Shaped
    <3>3. \A n \in Nets[p] : sa'[p][n] \in {0, 1}
      BY <2>3, <2>5, <3>1
    <3>4. \A d \in job'[j].todo : \A n \in Nets[p] \cap d : sa'[p][n] = 0
      BY <2>3, <2>4, <3>1, <3>2
    <3>. QED  BY <2>4, <3>3, <3>4 DEF ClearOf
  <2>7. CASE word # "up"
    <3>1. sa' = sa
      BY <1>1, <1>6, <2>1, <2>7, AskedCounts
    <3>. QED  BY <2>3, <2>4, <2>5, <3>1 DEF ClearOf
  <2>. QED  BY <2>6, <2>7
<1>7. CASE sa' = sa
  <2>1. \A n \in Nets[p] : sa'[p][n] \in {0, 1}
    BY <1>1, <1>7 DEF SingleSAs
  <2>2. Carried(p)' <=> Carried(p)
    BY <1>7 DEF Carried
  <2>3. CASE job'[j] = Idle
    BY <1>1, <2>1, <2>3 DEF Idle
  <2>4. CASE Walks(j)
    <3>1. CASE job'[j].at = "load"
      <4>1. ~Established(p) \/ Unseen
        BY <2>4, <3>1 DEF Walks
      <4>2. ~Carried(p)
        BY <1>1, <1>2, <4>1 DEF Established, Unseen, NetTyped
      <4>. QED  BY <2>1, <2>2, <3>1, <4>2 DEF ClearOf
    <3>2. CASE job'[j].at # "load"
      BY <2>1, <2>4, <3>2 DEF ClearOf, Walks
    <3>. QED  BY <3>1, <3>2
  <2>5. CASE Learns(j)
    BY <2>1, <2>5 DEF ClearOf, Learns
  <2>6. CASE Loads(j)
    BY <1>1, <2>1, <2>2, <2>6 DEF ClearOf, Loads
  <2>7. CASE Retries(j)
    BY <1>1, <2>1, <2>2, <2>7 DEF ClearOf, Retries, FallsBack, FellBack
  <2>. QED  BY <1>5, <1>6, <2>3, <2>4, <2>5, <2>6, <2>7, Walk
<1>8. CASE Terminate(j) /\ ~Carried(p)' /\ \A n \in Nets[p] : sa'[p][n] = 0
  <2>1. \A n \in Nets[p] : sa'[p][n] \in {0, 1}
    BY <1>8
  <2>2. job'[j].at \in {"unload", "idle"}
    <3>1. CASE Goes(j, "unload")
      <4>1. "unload" \in Places
        BY DEF Places, Ending
      <4>. QED  BY <3>1, <4>1, GoesTo DEF Typed
    <3>2. CASE Answer(j, "disconnected")
      BY <1>1, <3>2, Answers DEF Typed, ShownTyped, Looks, Idle
    <3>. QED  BY <1>8, <3>1, <3>2 DEF Terminate
  <2>. QED  BY <2>1, <2>2 DEF ClearOf
<1>. QED  BY <1>5, <1>6, <1>7, <1>8, CharonKept

(* Every step keeps single SAs single. *)
LEMMA SingleStep ==
    ASSUME Typed, [Next]_vars, Sole, Quiescent, Single
    PROVE  Single'
<1>1. SUFFICES ASSUME Calm({"cancel", "redials", "fails"})
               PROVE  SingleSAs' /\ \A j \in Jobs : ClearOf(j)'
  BY SettingKept DEF Single
<1>2. /\ SingleSAs /\ \A j \in Jobs : ClearOf(j)
      /\ Calm({"cancel"}) /\ Calm({"redials"}) /\ redial = {}
  BY <1>1, CalmLess DEF Single, Quiescent
<1>3. ASSUME NEW j \in Jobs, Command(j) PROVE SingleSAs' /\ \A k \in Jobs : ClearOf(k)'
  <2>1. ASSUME NEW k \in Jobs \ {j} PROVE ClearOf(k)'
    <3>1. SUFFICES ASSUME NEW p \in Profiles, job'[k].prof = p
                   PROVE  /\ job'[k].at = "load" \/ (job'[k].at \in {"dial", "judge"} /\ ~job'[k].up)
                                => ~Carried(p)'
                          /\ job'[k].at = "rest" => \A c \in job'[k].todo :
                                \A n \in Nets[p] \cap c : sa'[p][n] = 0
      BY DEF ClearOf
    <3>2. job'[k] = job[k] /\ Busy(k) /\ p = job[k].prof
      BY <1>2, <1>3, <3>1, Apart, IkeAssumption DEF Busy
    <3>3. sa'[p] = sa[p] /\ (Carried(p)' <=> Carried(p))
      BY <1>2, <1>3, <3>2, Apart
    <3>. QED  BY <1>2, <3>1, <3>2, <3>3 DEF ClearOf
  <2>. QED  BY <1>1, <1>2, <1>3, <2>1, ClearStep
<1>4. ASSUME NEW p \in Profiles, NEW j \in Jobs, Started(p, j)
      PROVE  SingleSAs' /\ \A k \in Jobs : ClearOf(k)'
  <2>1. sa' = sa /\ \A q \in Profiles : Carried(q)' <=> Carried(q)
    BY <1>4 DEF Started, charon, Carried
  <2>2. job'[j].at \in {"daemon", "revert"} /\ Others(j)
    BY <1>4 DEF Started
  <2>3. ClearOf(j)'
    BY <2>2 DEF ClearOf
  <2>4. ASSUME NEW k \in Jobs \ {j} PROVE ClearOf(k)'
    BY <1>2, <2>1, <2>2 DEF ClearOf, Others
  <2>. QED  BY <1>2, <2>1, <2>3, <2>4 DEF SingleSAs
<1>5. ASSUME sa' = sa,
             \A k \in Jobs : /\ job'[k].at = job[k].at /\ job'[k].prof = job[k].prof
                             /\ job'[k].up = job[k].up /\ job'[k].todo = job[k].todo
      PROVE  SingleSAs' /\ \A k \in Jobs : ClearOf(k)'
  <2>1. \A q \in Profiles : Carried(q)' <=> Carried(q)
    BY <1>5 DEF Carried
  <2>. QED  BY <1>2, <1>5, <2>1 DEF SingleSAs, ClearOf
<1>6. ASSUME NEW p \in Profiles, GatewayChanges(p)
      PROVE  SingleSAs' /\ \A k \in Jobs : ClearOf(k)'
  BY <1>5, <1>6, ChangeTells DEF Typed, charon
<1>7. CASE Rests
  BY <1>5, <1>7 DEF Rests, charon
<1>8. ASSUME job' = job, \A q \in Profiles : \A n \in Nets[q] : sa'[q][n] \in {0, sa[q][n]}
      PROVE  SingleSAs' /\ \A k \in Jobs : ClearOf(k)'
  <2>1. SingleSAs'
    BY <1>2, <1>8 DEF SingleSAs
  <2>2. ASSUME NEW q \in Profiles, ~Carried(q) PROVE ~Carried(q)'
    <3>1. \A n \in Nets[q] : sa[q][n] = 0
      BY <2>2, Uncarried DEF Typed
    <3>2. \A n \in Nets[q] : sa'[q][n] = 0
      BY <1>8, <3>1
    <3>. QED  BY <3>2 DEF Carried
  <2>3. ASSUME NEW k \in Jobs PROVE ClearOf(k)'
    BY <1>2, <1>8, <2>2 DEF ClearOf
  <2>. QED  BY <2>1, <2>3
<1>9. ASSUME NEW p \in Profiles, Drop(p)
      PROVE  SingleSAs' /\ \A k \in Jobs : ClearOf(k)'
  BY <1>8, <1>9, DropTells DEF Typed, window
<1>10. CASE CharonDies
  BY <1>8, <1>10, DiesTells DEF Typed, window
<1>11. ~ \E p \in Profiles : Redial(p)
  BY <1>2 DEF Redial
<1>. QED  BY <1>3, <1>4, <1>6, <1>7, <1>9, <1>10, <1>11, Steps DEF Typed, ShownTyped

-----------------------------------------------------------------------------
(* From CheckFull until its children are up, a full tunnel has no rival.   *)
Unrivalled(p) == \A q \in Full \ {p} : ~Carried(q)

RouteOf(j) ==
    \A p \in Full :
       job[j].prof = p /\ job[j].at \in {"adopt", "load", "dial", "rest", "judge"} => Unrivalled(p)

OneRoute == \A p, q \in Full : Carried(p) /\ Carried(q) => p = q

Routed ==
    Calm({"parallel", "cancel", "redials", "fails"}) =>
       OneRoute /\ \A j \in Jobs : RouteOf(j)

(* A command's own step keeps that, and brings up no second full tunnel.   *)
LEMMA RouteStep ==
    ASSUME Typed, OneRoute, NEW j \in Jobs, Command(j), RouteOf(j), ~May("fails")
    PROVE  RouteOf(j)' /\ OneRoute'
<1>. PICK p : p = job[j].prof
  OBVIOUS
<1>1. /\ Shaped(j) /\ p \in Profiles /\ NetTyped /\ Full \subseteq Profiles
      /\ \A q \in Profiles \ {p} : Carried(q)' <=> Carried(q)
  BY CommandBusy, CarriedSame, IkeAssumption DEF Typed, Elsewhere
<1>2. Unrivalled(p)' <=> Unrivalled(p)
  BY <1>1 DEF Unrivalled
<1>3. RouteOf(j)'
  <2>1. SUFFICES ASSUME p \in Full, job'[j].prof = p,
                        job'[j].at \in {"adopt", "load", "dial", "rest", "judge"}
                 PROVE  Unrivalled(p)
    <3>1. job'[j] = Idle \/ job'[j].prof = p
      BY CommandBusy DEF Result
    <3>. QED  BY <1>2, <2>1, <3>1 DEF RouteOf, Idle
  <2>2. CASE job[j].at \in {"adopt", "load", "dial", "rest", "judge"}
    BY <2>1, <2>2 DEF RouteOf
  <2>3. CASE job[j].at \notin {"adopt", "load", "dial", "rest", "judge"}
    <3>1. Walks(j) /\ job'[j].at = "adopt"
      <4>1. job'[j] # Idle
        BY <2>1 DEF Idle
      <4>. QED  BY <2>1, <2>3, <4>1, Walk DEF Walks, Learns, Loads, Dials, Completes, Retries, Adopt
    <3>2. Rivals(p) = {} \/ Unseen
      BY <3>1 DEF Walks
    <3>3. CASE Rivals(p) = {}
      BY <2>1, <3>3 DEF Rivals, Unrivalled
    <3>4. CASE ~daemon
      BY <1>1, <3>4 DEF NetTyped, Unrivalled
    <3>. QED  BY <3>2, <3>3, <3>4 DEF Unseen
  <2>. QED  BY <2>2, <2>3
<1>4. OneRoute'
  <2>1. Carried(p)' => Carried(p) \/ job[j].at \in {"dial", "rest"}
    <3>1. CASE Dials(j) \/ Completes(j)
      BY <3>1 DEF Dials, Completes
    <3>2. CASE sa' = sa
      BY <3>2 DEF Carried
    <3>. QED  BY <3>1, <3>2, CharonKept
  <2>2. SUFFICES ASSUME NEW q \in Full, NEW r \in Full, Carried(q)', Carried(r)', q # r
                 PROVE  FALSE
    BY DEF OneRoute
  <2>3. ASSUME NEW s \in Full, s # p, Carried(s)', p \in Full, Carried(p)' PROVE FALSE
    <3>1. Carried(s)
      BY <1>1, <2>3
    <3>2. ~Carried(p)
      BY <2>3, <3>1 DEF OneRoute
    <3>3. Unrivalled(p)
      BY <1>1, <2>1, <2>3, <3>2 DEF RouteOf
    <3>. QED  BY <2>3, <3>1, <3>3 DEF Unrivalled
  <2>4. CASE q # p /\ r # p
    BY <1>1, <2>2, <2>4 DEF OneRoute
  <2>. QED  BY <2>2, <2>3, <2>4
<1>. QED  BY <1>3, <1>4

(* Every step keeps one default route. *)
LEMMA RoutedStep ==
    ASSUME Typed, [Next]_vars, Sole, Alone, Quiescent, Routed
    PROVE  Routed'
<1>1. SUFFICES ASSUME Calm({"parallel", "cancel", "redials", "fails"})
               PROVE  OneRoute' /\ \A j \in Jobs : RouteOf(j)'
  BY SettingKept DEF Routed
<1>2. /\ OneRoute /\ \A j \in Jobs : RouteOf(j)
      /\ Calm({"parallel", "cancel"}) /\ Calm({"cancel"}) /\ Calm({"redials"}) /\ redial = {}
      /\ ~May("fails") /\ Full \subseteq Profiles /\ NoProfile \notin Profiles
  BY <1>1, CalmLess, CalmSays, IkeAssumption DEF Routed, Quiescent
<1>3. ASSUME NEW j \in Jobs, Command(j) PROVE OneRoute' /\ \A k \in Jobs : RouteOf(k)'
  <2>1. ASSUME NEW k \in Jobs \ {j} PROVE RouteOf(k)'
    <3>1. job'[k] = job[k] /\ Busy(j)
      BY <1>2, <1>3, Apart, CommandBusy
    <3>2. ~Busy(k)
      BY <1>2, <3>1 DEF Alone
    <3>. QED  BY <1>2, <3>1, <3>2 DEF RouteOf, Busy
  <2>. QED  BY <1>2, <1>3, <2>1, RouteStep
<1>4. ASSUME NEW p \in Profiles, NEW j \in Jobs, Started(p, j)
      PROVE  OneRoute' /\ \A k \in Jobs : RouteOf(k)'
  <2>1. \A q \in Profiles : Carried(q)' <=> Carried(q)
    BY <1>4 DEF Started, charon, Carried
  <2>2. job'[j].at \in {"daemon", "revert"} /\ Others(j)
    BY <1>4 DEF Started
  <2>3. RouteOf(j)'
    BY <2>2 DEF RouteOf
  <2>4. ASSUME NEW k \in Jobs \ {j} PROVE RouteOf(k)'
    BY <1>2, <2>1, <2>2 DEF RouteOf, Others, Unrivalled
  <2>. QED  BY <1>2, <2>1, <2>3, <2>4 DEF OneRoute
<1>5. ASSUME \A q \in Profiles : Carried(q)' => Carried(q),
             \A k \in Jobs : job'[k].at = job[k].at /\ job'[k].prof = job[k].prof
      PROVE  OneRoute' /\ \A k \in Jobs : RouteOf(k)'
  BY <1>2, <1>5 DEF OneRoute, RouteOf, Unrivalled
<1>6. ASSUME NEW p \in Profiles, GatewayChanges(p)
      PROVE  OneRoute' /\ \A k \in Jobs : RouteOf(k)'
  <2>1. \A q \in Profiles : Carried(q)' => Carried(q)
    BY <1>6, ChangeTells DEF Typed, charon, Carried
  <2>. QED  BY <1>5, <1>6, <2>1, ChangeTells DEF Typed
<1>7. CASE Rests
  <2>1. \A q \in Profiles : Carried(q)' => Carried(q)
    BY <1>7 DEF Rests, charon, Carried
  <2>. QED  BY <1>5, <1>7, <2>1 DEF Rests
<1>8. ASSUME NEW p \in Profiles, Drop(p)
      PROVE  OneRoute' /\ \A k \in Jobs : RouteOf(k)'
  <2>1. ASSUME NEW q \in Profiles, ~Carried(q) PROVE ~Carried(q)'
    <3>1. \A n \in Nets[q] : sa[q][n] = 0
      BY <2>1, Uncarried DEF Typed
    <3>2. \A n \in Nets[q] : sa'[q][n] = 0
      BY <1>8, <3>1, DropTells DEF Typed
    <3>. QED  BY <3>2 DEF Carried
  <2>2. job' = job
    BY <1>8, DropTells DEF Typed
  <2>. QED  BY <1>5, <2>1, <2>2
<1>9. CASE CharonDies
  <2>1. job' = job /\ \A q \in Profiles : ~Carried(q)'
    BY <1>9, DiesTells DEF Typed
  <2>. QED  BY <1>5, <2>1
<1>10. ~ \E p \in Profiles : Redial(p)
  BY <1>2 DEF Redial
<1>. QED  BY <1>3, <1>4, <1>6, <1>7, <1>8, <1>9, <1>10, Steps DEF Typed, ShownTyped

-----------------------------------------------------------------------------
(* A command that says up has its tunnel, and one that terminates a tunnel *)
(* has taken its DNS away.                                                 *)
DnsOf(j) ==
    \A p \in Profiles : job[j].prof = p =>
       /\ job[j].up => Carried(p)
       /\ job[j].at = "terminate" => p \notin dns

DnsCarried == \A p \in Profiles : p \in dns => Carried(p)

Resolved ==
    Calm({"drops", "dies", "cancel", "unresolved"}) => DnsCarried /\ \A j \in Jobs : DnsOf(j)

(* A command's own step keeps that, and DNS with its tunnel. *)
LEMMA DnsStep ==
    ASSUME Typed, NEW j \in Jobs, Command(j), DnsCarried, DnsOf(j), daemon, ~May("unresolved")
    PROVE  DnsCarried' /\ DnsOf(j)'
<1>. PICK p : p = job[j].prof
  OBVIOUS
<1>1. /\ Shaped(j) /\ p \in Profiles /\ NetTyped
      /\ \A q \in Profiles \ {p} : (Carried(q)' <=> Carried(q)) /\ (q \in dns' <=> q \in dns)
  BY CommandBusy, CarriedSame DEF Typed, Elsewhere
<1>2. SUFFICES /\ p \in dns' => Carried(p)'
               /\ job'[j].prof = p => /\ job'[j].up => Carried(p)'
                                      /\ job'[j].at = "terminate" => p \notin dns'
  <2>1. job'[j] = Idle \/ job'[j].prof = p
    BY CommandBusy DEF Result
  <2>2. ~Idle.up /\ Idle.at # "terminate"
    BY DEF Idle
  <2>. QED  BY <1>1, <1>2, <2>1, <2>2 DEF DnsCarried, DnsOf
<1>3. (job[j].up => Carried(p)) /\ (p \in dns => Carried(p))
      /\ (job[j].at = "terminate" => p \notin dns)
  BY <1>1 DEF DnsOf, DnsCarried
<1>4. CASE Dials(j) \/ Completes(j)
  <2>1. PICK c \in job[j].todo, word \in Words :
           /\ Asked(j, c, word) /\ Noticed(j, c, word)
           /\ job'[j].at \in {"judge", "rest", "dial"}
    BY <1>4 DEF Dials, Completes
  <2>2. dns' = dns
    BY <1>4 DEF Dials, Completes
  <2>3. CASE word = "up"
    BY <1>4, <2>1, <2>2, <2>3, AskedCounts
  <2>4. CASE word # "up"
    <3>1. sa' = sa
      BY <1>4, <2>1, <2>4, AskedCounts
    <3>2. Carried(p)' <=> Carried(p)
      BY <3>1 DEF Carried
    <3>3. job'[j].up <=> job[j].up
      BY <2>1, <2>4 DEF Noticed
    <3>. QED  BY <1>3, <2>1, <2>2, <3>2, <3>3
  <2>. QED  BY <2>3, <2>4
<1>5. CASE ~(Dials(j) \/ Completes(j)) /\ sa' = sa
  <2>1. Carried(p)' <=> Carried(p)
    BY <1>5 DEF Carried
  <2>2. p \in dns' => p \in dns \/ Carried(p)
    <3>1. CASE dns' = dns \/ dns' = dns \ {p}
      BY <3>1
    <3>2. CASE ApplyDns(j)
      BY <1>1, <1>3, <3>2 DEF ApplyDns, Shaped
    <3>. QED  BY <3>1, <3>2 DEF Command, EnsureDaemon, Learn, CheckFull, Adopt, Load, Dial, DialLost,
                InitiateTogether, Judge, Remember, AwaitVip, RevertDns, Terminate, Unload, files
  <2>3. job'[j].prof = p => (job'[j].up => job[j].up)
    <3>1. CASE job'[j] = Idle
      BY <3>1 DEF Idle
    <3>. QED  BY <1>5, <3>1, Walk DEF Walks, Kept, Learns, Loads, Retries, FellBack
  <2>4. job'[j].at = "terminate" => p \notin dns'
    <3>1. SUFFICES ASSUME job'[j].at = "terminate" PROVE p \notin dns'
      OBVIOUS
    <3>2. Walks(j)
      <4>1. job'[j] # Idle
        BY <3>1 DEF Idle
      <4>2. ~Learns(j) /\ ~Loads(j) /\ ~Retries(j)
        BY <3>1 DEF Learns, Loads, Retries, FellBack
      <4>. QED  BY <1>5, <4>1, <4>2, Walk
    <3>. QED  BY <3>1, <3>2 DEF Walks
  <2>. QED  BY <1>3, <2>1, <2>2, <2>3, <2>4
<1>6. CASE Terminate(j) /\ ~Carried(p)'
  <2>1. job[j].at = "terminate" /\ dns' = dns
    BY <1>6 DEF Terminate, files
  <2>2. p \notin dns'
    BY <1>3, <2>1
  <2>3. ~job[j].up
    BY <1>1, <2>1 DEF Shaped
  <2>4. job'[j].at \in {"unload", "idle"} /\ ~job'[j].up
    <3>1. CASE Goes(j, "unload")
      <4>1. "unload" \in Places
        BY DEF Places, Ending
      <4>. QED  BY <2>3, <3>1, <4>1, GoesTo DEF Typed, Kept
    <3>2. CASE Answer(j, "disconnected")
      BY <1>1, <3>2, Answers DEF Typed, ShownTyped, Looks, Idle
    <3>. QED  BY <1>6, <3>1, <3>2 DEF Terminate
  <2>. QED  BY <2>2, <2>4
<1>. QED  BY <1>4, <1>5, <1>6, CharonKept

(* Every step keeps DNS with its tunnel. *)
LEMMA ResolvedStep ==
    ASSUME Typed, [Next]_vars, Sole, Quiescent, Resolved
    PROVE  Resolved'
<1>1. SUFFICES ASSUME Calm({"drops", "dies", "cancel", "unresolved"})
               PROVE  DnsCarried' /\ \A j \in Jobs : DnsOf(j)'
  BY SettingKept DEF Resolved
<1>2. /\ DnsCarried /\ \A j \in Jobs : DnsOf(j)
      /\ Calm({"cancel"}) /\ Calm({"dies"}) /\ daemon
      /\ ~May("unresolved") /\ ~May("drops") /\ ~May("dies")
  BY <1>1, CalmLess, CalmSays DEF Resolved, Quiescent
<1>3. ASSUME NEW j \in Jobs, Command(j) PROVE DnsCarried' /\ \A k \in Jobs : DnsOf(k)'
  <2>1. ASSUME NEW k \in Jobs \ {j} PROVE DnsOf(k)'
    <3>1. SUFFICES ASSUME NEW p \in Profiles, job'[k].prof = p
                   PROVE  /\ job'[k].up => Carried(p)'
                          /\ job'[k].at = "terminate" => p \notin dns'
      BY DEF DnsOf
    <3>2. job'[k] = job[k] /\ Busy(k) /\ p = job[k].prof
      BY <1>2, <1>3, <3>1, Apart, IkeAssumption DEF Busy
    <3>3. (p \in dns' <=> p \in dns) /\ (Carried(p)' <=> Carried(p))
      BY <1>2, <1>3, <3>2, Apart
    <3>. QED  BY <1>2, <3>1, <3>2, <3>3 DEF DnsOf
  <2>. QED  BY <1>2, <1>3, <2>1, DnsStep
<1>4. ASSUME NEW p \in Profiles, NEW j \in Jobs, Started(p, j)
      PROVE  DnsCarried' /\ \A k \in Jobs : DnsOf(k)'
  <2>1. dns' = dns /\ \A q \in Profiles : Carried(q)' <=> Carried(q)
    BY <1>4 DEF Started, charon, files, Carried
  <2>2. job'[j].at \in {"daemon", "revert"} /\ ~job'[j].up /\ Others(j)
    BY <1>4 DEF Started
  <2>3. DnsOf(j)'
    BY <2>2 DEF DnsOf
  <2>4. ASSUME NEW k \in Jobs \ {j} PROVE DnsOf(k)'
    BY <1>2, <2>1, <2>2 DEF DnsOf, Others
  <2>. QED  BY <1>2, <2>1, <2>3, <2>4 DEF DnsCarried
<1>5. ASSUME \A q \in Profiles : Carried(q) => Carried(q)', dns' = dns,
             \A k \in Jobs : /\ job'[k].at = job[k].at /\ job'[k].prof = job[k].prof
                             /\ job'[k].up = job[k].up
      PROVE  DnsCarried' /\ \A k \in Jobs : DnsOf(k)'
  BY <1>2, <1>5 DEF DnsCarried, DnsOf
<1>6. ASSUME NEW p \in Profiles, GatewayChanges(p)
      PROVE  DnsCarried' /\ \A k \in Jobs : DnsOf(k)'
  <2>1. \A q \in Profiles : Carried(q) => Carried(q)'
    BY <1>6, ChangeTells DEF Typed, charon, Carried
  <2>. QED  BY <1>5, <1>6, <2>1, ChangeTells DEF Typed, files
<1>7. CASE Rests
  <2>1. \A q \in Profiles : Carried(q) => Carried(q)'
    BY <1>7 DEF Rests, charon, Carried
  <2>. QED  BY <1>5, <1>7, <2>1 DEF Rests
<1>8. ASSUME NEW p \in Profiles, Redial(p)
      PROVE  DnsCarried' /\ \A k \in Jobs : DnsOf(k)'
  <2>1. ASSUME NEW q \in Profiles, Carried(q) PROVE Carried(q)'
    <3>1. PICK n \in Nets[q] : sa[q][n] > 0
      BY <2>1 DEF Carried
    <3>2. sa'[q][n] >= sa[q][n] /\ sa[q][n] \in {0, 1, 2} /\ sa'[q][n] \in {0, 1, 2}
      BY <1>8, RedialTells DEF Typed, NetTyped
    <3>3. sa'[q][n] > 0
      BY <3>1, <3>2
    <3>. QED  BY <3>3 DEF Carried
  <2>2. job' = job /\ dns' = dns
    BY <1>8, RedialTells DEF Typed, files
  <2>. QED  BY <1>5, <2>1, <2>2
<1>9. ~CharonDies /\ ~ \E p \in Profiles : Drop(p)
  BY <1>2 DEF CharonDies, Drop
<1>. QED  BY <1>3, <1>4, <1>6, <1>7, <1>8, <1>9, Steps DEF Typed, ShownTyped

(* A disconnect that turns to charon has taken its DNS back, whatever is   *)
(* lost and whichever requests fail.                                       *)
ClearedBy(j) == job[j].at \in {"terminate", "unload"} => job[j].prof \notin dns

Cleared == Calm({"cancel", "unresolved"}) => \A j \in Jobs : ClearedBy(j)

(* Every step keeps that. *)
LEMMA ClearedStep ==
    ASSUME Typed, [Next]_vars, Sole, Cleared
    PROVE  Cleared'
<1>1. SUFFICES ASSUME Calm({"cancel", "unresolved"}) PROVE \A k \in Jobs : ClearedBy(k)'
  BY SettingKept DEF Cleared
<1>2. (\A k \in Jobs : ClearedBy(k)) /\ Calm({"cancel"}) /\ ~May("unresolved")
  BY <1>1, CalmLess, CalmSays DEF Cleared
<1>3. ASSUME NEW j \in Jobs, Command(j) PROVE \A k \in Jobs : ClearedBy(k)'
  <2>1. ASSUME NEW k \in Jobs \ {j} PROVE ClearedBy(k)'
    <3>1. job'[k] = job[k] /\ ClearedBy(k)
      BY <1>2, <1>3, <2>1, Apart
    <3>2. CASE Busy(k)
      BY <1>2, <1>3, <3>1, <3>2, Apart DEF ClearedBy
    <3>3. CASE ~Busy(k)
      <4>1. job[k].at = "idle"
        BY <3>3 DEF Busy, Typed, JobsShaped, Shaped
      <4>. QED  BY <3>1, <4>1 DEF ClearedBy
    <3>. QED  BY <3>2, <3>3
  <2>2. ClearedBy(j)'
    <3>1. SUFFICES ASSUME job'[j].at \in {"terminate", "unload"} PROVE job'[j].prof \notin dns'
      BY DEF ClearedBy
    <3>2. Walks(j)
      <4>1. job'[j] # Idle
        BY <3>1 DEF Idle
      <4>2. ~Learns(j) /\ ~Loads(j) /\ ~Retries(j) /\ ~Dials(j) /\ ~Completes(j)
        BY <3>1 DEF Learns, Loads, Retries, FellBack, Dials, Completes
      <4>. QED  BY <1>3, <4>1, <4>2, Walk
    <3>3. job'[j].prof = job[j].prof
      BY <3>2 DEF Walks, Kept
    <3>4. CASE job'[j].at = "terminate"
      BY <1>2, <3>2, <3>3, <3>4 DEF Walks
    <3>5. CASE job'[j].at = "unload"
      <4>1. job[j].at = "terminate" /\ dns' = dns
        BY <3>2, <3>5 DEF Walks, Terminate, files
      <4>. QED  BY <1>2, <3>3, <4>1 DEF ClearedBy
    <3>. QED  BY <3>1, <3>4, <3>5
  <2>. QED  BY <2>1, <2>2
<1>4. ASSUME NEW p \in Profiles, NEW j \in Jobs, Started(p, j)
      PROVE  \A k \in Jobs : ClearedBy(k)'
  BY <1>2, <1>4 DEF Started, Others, files, ClearedBy
<1>5. ASSUME dns' = dns,
             \A k \in Jobs : job'[k].at = job[k].at /\ job'[k].prof = job[k].prof
      PROVE  \A k \in Jobs : ClearedBy(k)'
  BY <1>2, <1>5 DEF ClearedBy
<1>6. ASSUME NEW p \in Profiles, GatewayChanges(p) PROVE \A k \in Jobs : ClearedBy(k)'
  BY <1>5, <1>6, ChangeTells DEF Typed, files
<1>7. CASE Rests \/ CharonDies \/ \E p \in Profiles : Drop(p) \/ Redial(p)
  BY <1>5, <1>7, DropTells, RedialTells, DiesTells DEF Typed, Rests, files, window
<1>. QED  BY <1>3, <1>4, <1>6, <1>7, Steps DEF Typed, ShownTyped

-----------------------------------------------------------------------------
(* A version that was not tried yet was not rejected; a rejection ends the *)
(* dialling; and once a child is up, an IKE_SA spares the others a login   *)
(* unless it is lost.                                                      *)
CostOf(j) ==
    /\ job[j].ver \notin Versions \/ ~job[j].alt =>
          \A v \in Versions : v # job[j].ver => job[j].rejected[v] = 0
    /\ job[j].at \in {"idle", "daemon", "learn", "full", "adopt"} =>
          \A v \in Versions : job[j].rejected[v] = 0
    /\ job[j].at \in {"load", "dial"} =>
          \A v \in Versions : v = job[j].ver => job[j].rejected[v] = 0
    /\ Calm({"drops"}) \/ ~job[j].up => \A v \in Versions : job[j].rejected[v] \in {0, 1}
    /\ job[j].at = "rest" /\ Calm({"drops"}) =>
          \A p \in Profiles : job[j].prof = p => conn[p] = 0 \/ conn[p] \in ike[p]

Counts == Calm({"cancel"}) => \A j \in Jobs : CostOf(j)

(* One initiate counts at most one rejection, for the version being tried. *)
LEMMA RejectedCounts ==
    ASSUME Typed, NEW j \in Jobs, Command(j), Dials(j) \/ Completes(j), LoadedAt(j),
           NEW p, p = job[j].prof, NEW c, NEW word \in Words,
           Asked(j, c, word), Noticed(j, c, word)
    PROVE  IF word = "rejected"
           THEN /\ conn[p] = job[j].ver /\ conn[p] \in Versions
                /\ conn[p] \in gateway[p] /\ conn[p] \notin ike[p] /\ ~job[j].good
                /\ \A v \in Versions : v # job[j].ver => job'[j].rejected[v] = job[j].rejected[v]
                /\ job[j].rejected[job[j].ver] = 0 => job'[j].rejected[job[j].ver] = 1
           ELSE job'[j].rejected = job[j].rejected
<1>1. p \in Profiles /\ NetTyped /\ job[j].at \in {"dial", "rest"}
  BY CommandBusy DEF Typed, Dials, Completes
<1>2. word # "rejected" => job'[j].rejected = job[j].rejected
  BY DEF Noticed
<1>3. ASSUME word = "rejected"
      PROVE  /\ conn[p] = job[j].ver /\ conn[p] \in Versions
             /\ conn[p] \in gateway[p] /\ conn[p] \notin ike[p] /\ ~job[j].good
             /\ \A v \in Versions : v # job[j].ver => job'[j].rejected[v] = job[j].rejected[v]
             /\ job[j].rejected[job[j].ver] = 0 => job'[j].rejected[job[j].ver] = 1
  <2>1. /\ conn[p] \in Versions /\ conn[p] \in gateway[p] /\ conn[p] \notin ike[p]
        /\ ~job[j].good
    BY <1>1, <1>3, AskedSays
  <2>2. conn[p] = job[j].ver
    <3>1. conn[p] # 0
      BY <2>1 DEF Versions
    <3>. QED  BY <1>1, <3>1 DEF LoadedAt
  <2>3. PICK r : r = job[j].rejected
    OBVIOUS
  <2>4. r \in [Versions -> Nat]
    BY <2>3 DEF Typed, JobsTyped, JobRecs
  <2>5. PICK v0 : v0 = job[j].ver
    OBVIOUS
  <2>6. job'[j].rejected = [r EXCEPT ![v0] = @ + 1]
    BY <1>3, <2>2, <2>3, <2>5 DEF Noticed, OneMore
  <2>7. v0 \in Versions
    BY <2>1, <2>2, <2>5
  <2>. QED  BY <2>1, <2>2, <2>3, <2>4, <2>5, <2>6, <2>7
<1>. QED  BY <1>2, <1>3

(* A command's own step keeps CostOf. *)
LEMMA CostStep ==
    ASSUME Typed, NEW j \in Jobs, Command(j), LoadedAt(j), CostOf(j), Calm({"drops"})' <=> Calm({"drops"})
    PROVE  CostOf(j)'
<1>. PICK p : p = job[j].prof
  OBVIOUS
<1>1. p \in Profiles /\ Shaped(j) /\ NetTyped
  BY CommandBusy DEF Typed
<1>2. CASE job'[j] = Idle
  BY <1>2 DEF CostOf, Idle
<1>3. CASE Walks(j)
  <2>1. job'[j].at \in {"learn", "adopt", "load"} => job[j].at \in {"daemon", "full", "adopt"}
    BY <1>3 DEF Walks, EnsureDaemon, CheckFull, Adopt
  <2>2. /\ job'[j].ver = job[j].ver /\ job'[j].alt = job[j].alt /\ job'[j].up = job[j].up
        /\ job'[j].rejected = job[j].rejected
        /\ job'[j].at \in {"learn", "adopt", "load", "remember", "wait", "resolve", "terminate",
                           "unload"}
    BY <1>3 DEF Walks, Kept
  <2>. QED  BY <2>1, <2>2 DEF CostOf
<1>4. CASE Learns(j)
  BY <1>4 DEF CostOf, Learns
<1>5. CASE Loads(j)
  BY <1>5 DEF CostOf, Loads
<1>6. CASE Retries(j)
  <2>1. /\ ~job[j].alt /\ ~job[j].up /\ Other(job[j].ver) # job[j].ver
        /\ Other(job[j].ver) \in Versions
    BY <1>6 DEF Retries, FallsBack, Other, Versions
  <2>2. /\ job'[j].ver = Other(job[j].ver) /\ job'[j].alt /\ ~job'[j].up
        /\ job'[j].rejected = job[j].rejected /\ job'[j].at = "load"
    BY <1>6 DEF Retries, FellBack
  <2>. QED  BY <2>1, <2>2 DEF CostOf
<1>7. CASE Dials(j)
  <2>1. /\ job[j].at = "dial" /\ conn' = conn
        /\ \E c \in job[j].todo, word \in Words :
              /\ Asked(j, c, word) /\ Noticed(j, c, word)
              /\ job'[j].at \in {"judge", "rest", "dial"}
              /\ job'[j].at = "dial" => word # "rejected"
              /\ job'[j].at = "rest" => word = "up"
    BY <1>7 DEF Dials
  <2>2. PICK c \in job[j].todo, word \in Words :
           /\ Asked(j, c, word) /\ Noticed(j, c, word)
           /\ job'[j].at \in {"judge", "rest", "dial"}
           /\ job'[j].at = "dial" => word # "rejected"
           /\ job'[j].at = "rest" => word = "up"
    BY <2>1
  <2>3. /\ job'[j].ver = job[j].ver /\ job'[j].alt = job[j].alt /\ job'[j].prof = p /\ ~job[j].up
    BY <1>1, <2>1, <2>2 DEF Noticed, Shaped
  <2>4. job'[j].at = "rest" => conn'[p] \in ike'[p]
    BY <1>7, <2>1, <2>2, AskedCounts
  <2>5. CASE word = "rejected"
    BY <1>7, <2>1, <2>2, <2>3, <2>4, <2>5, RejectedCounts DEF CostOf
  <2>6. CASE word # "rejected"
    <3>1. job'[j].rejected = job[j].rejected
      BY <1>7, <2>2, <2>6, RejectedCounts
    <3>. QED  BY <2>1, <2>2, <2>3, <2>4, <3>1 DEF CostOf
  <2>. QED  BY <2>5, <2>6
<1>8. CASE Completes(j)
  <2>1. PICK c \in job[j].todo, word \in Words :
           /\ Asked(j, c, word) /\ Noticed(j, c, word)
           /\ job'[j].at \in {"judge", "rest"}
    BY <1>8 DEF Completes
  <2>2. /\ job[j].at = "rest" /\ conn' = conn /\ job[j].up
        /\ job'[j].ver = job[j].ver /\ job'[j].alt = job[j].alt /\ job'[j].prof = p /\ job'[j].up
    BY <1>1, <1>8, <2>1 DEF Completes, Noticed, Shaped
  <2>3. ike[p] \subseteq ike'[p]
    BY <1>8, <2>1, AskedCounts
  <2>4. CASE word = "rejected"
    <3>1. ~Calm({"drops"})
      <4>1. conn[p] \in Versions /\ conn[p] \notin ike[p]
        BY <1>8, <2>1, <2>4, RejectedCounts
      <4>2. conn[p] # 0
        BY <4>1 DEF Versions
      <4>. QED  BY <1>1, <2>2, <4>1, <4>2 DEF CostOf
    <3>2. \A v \in Versions : v # job[j].ver => job'[j].rejected[v] = job[j].rejected[v]
      BY <1>8, <2>1, <2>4, RejectedCounts
    <3>. QED  BY <2>1, <2>2, <3>1, <3>2 DEF CostOf
  <2>5. CASE word # "rejected"
    <3>1. job'[j].rejected = job[j].rejected
      BY <1>8, <2>1, <2>5, RejectedCounts
    <3>. QED  BY <2>1, <2>2, <2>3, <3>1 DEF CostOf
  <2>. QED  BY <2>4, <2>5
<1>. QED  BY <1>2, <1>3, <1>4, <1>5, <1>6, <1>7, <1>8, Walk

(* Every step keeps the counts of rejections. *)
LEMMA CountsStep ==
    ASSUME Typed, [Next]_vars, Sole, Loaded, Counts
    PROVE  Counts'
<1>1. SUFFICES ASSUME Calm({"cancel"}) PROVE \A j \in Jobs : CostOf(j)'
  BY SettingKept DEF Counts
<1>2. \A j \in Jobs : CostOf(j) /\ LoadedAt(j)
  BY <1>1 DEF Counts, Loaded
<1>3. Calm({"drops"})' <=> Calm({"drops"})
  BY SettingKept
<1>4. ASSUME NEW j \in Jobs, Command(j) PROVE \A k \in Jobs : CostOf(k)'
  <2>1. ASSUME NEW k \in Jobs \ {j} PROVE CostOf(k)'
    <3>1. job'[k] = job[k]
      BY <1>1, <1>4, Apart
    <3>2. ASSUME job[k].at = "rest", NEW q \in Profiles, job[k].prof = q
          PROVE  conn'[q] = conn[q] /\ ike'[q] = ike[q]
      <4>1. Busy(k)
        BY <3>2, IkeAssumption DEF Busy
      <4>. QED  BY <1>1, <1>4, <3>2, <4>1, Apart
    <3>. QED  BY <1>2, <1>3, <3>1, <3>2 DEF CostOf
  <2>. QED  BY <1>2, <1>3, <1>4, <2>1, CostStep
<1>5. ASSUME NEW p \in Profiles, NEW j \in Jobs, Started(p, j) PROVE \A k \in Jobs : CostOf(k)'
  <2>1. CostOf(j)'
    BY <1>5 DEF Started, CostOf
  <2>2. ASSUME NEW k \in Jobs \ {j} PROVE CostOf(k)'
    <3>1. job'[k] = job[k] /\ conn' = conn /\ ike' = ike
      BY <1>5 DEF Started, Others, charon
    <3>. QED  BY <1>2, <1>3, <3>1 DEF CostOf
  <2>. QED  BY <2>1, <2>2
<1>6. ASSUME \A k \in Jobs : /\ job'[k].at = job[k].at /\ job'[k].prof = job[k].prof
                             /\ job'[k].ver = job[k].ver /\ job'[k].alt = job[k].alt
                             /\ job'[k].up = job[k].up /\ job'[k].rejected = job[k].rejected,
             Calm({"drops"}) => \A p \in Profiles : conn[p] = 0 \/ conn[p] \in ike[p] =>
                                                    conn'[p] = 0 \/ conn'[p] \in ike'[p]
      PROVE  \A k \in Jobs : CostOf(k)'
  BY <1>2, <1>3, <1>6 DEF CostOf
<1>7. ASSUME NEW p \in Profiles, GatewayChanges(p) PROVE \A k \in Jobs : CostOf(k)'
  <2>1. conn' = conn /\ ike' = ike
    BY <1>7, ChangeTells DEF Typed, charon
  <2>. QED  BY <1>6, <1>7, <2>1, ChangeTells DEF Typed
<1>8. CASE Rests
  BY <1>6, <1>8 DEF Rests, charon
<1>9. ASSUME NEW p \in Profiles, Drop(p) PROVE \A k \in Jobs : CostOf(k)'
  <2>1. job' = job /\ ~Calm({"drops"})
    BY <1>9, DropTells, CalmSays DEF Typed, window
  <2>. QED  BY <1>6, <2>1
<1>10. ASSUME NEW p \in Profiles, Redial(p) PROVE \A k \in Jobs : CostOf(k)'
  <2>1. job' = job /\ conn' = conn /\ \A q \in Profiles : ike[q] \subseteq ike'[q]
    BY <1>10, RedialTells DEF Typed, window
  <2>. QED  BY <1>6, <2>1
<1>11. CASE CharonDies
  <2>1. job' = job /\ \A q \in Profiles : conn'[q] = 0
    BY <1>11, DiesTells DEF Typed, window
  <2>. QED  BY <1>6, <2>1
<1>. QED  BY <1>4, <1>5, <1>7, <1>8, <1>9, <1>10, <1>11, Steps DEF Typed, ShownTyped

-----------------------------------------------------------------------------
(* While the gateway stays as it is, the transcript tells which versions   *)
(* it speaks: what was rejected it speaks; what brought no proposal, and   *)
(* what was given up in the fallback, it does not.                         *)
TriedOf(j) ==
    ~job[j].moved => \A p \in Profiles : job[j].prof = p =>
       /\ job[j].at \in {"daemon", "learn"} => job[j].saw = {} /\ ~job[j].alt
       /\ "noprop" \in job[j].saw => job[j].ver \notin gateway[p]
       /\ \A v \in Versions : job[j].rejected[v] # 0 => v \in gateway[p]
       /\ job[j].alt => Other(job[j].ver) \notin gateway[p]

Tries == Calm({"cancel", "refuses"}) => \A j \in Jobs : TriedOf(j)

(* A command's own step keeps TriedOf. *)
LEMMA TriedStep ==
    ASSUME Typed, NEW j \in Jobs, Command(j), LoadedAt(j), TriedOf(j), ~May("refuses")
    PROVE  TriedOf(j)'
<1>. PICK p : p = job[j].prof
  OBVIOUS
<1>1. p \in Profiles /\ Shaped(j) /\ NetTyped /\ gateway' = gateway
  BY CommandBusy DEF Typed
<1>2. SUFFICES ASSUME ~job'[j].moved, job'[j].prof = p
               PROVE  /\ job'[j].at \in {"daemon", "learn"} => job'[j].saw = {} /\ ~job'[j].alt
                      /\ "noprop" \in job'[j].saw => job'[j].ver \notin gateway[p]
                      /\ \A v \in Versions : job'[j].rejected[v] # 0 => v \in gateway[p]
                      /\ job'[j].alt => Other(job'[j].ver) \notin gateway[p]
  <2>1. job'[j] = Idle \/ job'[j].prof = p
    BY CommandBusy DEF Result
  <2>2. Idle.prof \notin Profiles
    BY IkeAssumption DEF Idle
  <2>. QED  BY <1>1, <1>2, <2>1, <2>2 DEF TriedOf
<1>3. job'[j] # Idle
  BY <1>1, <1>2, IkeAssumption DEF Idle
<1>4. ~job[j].moved =>
         /\ job[j].at \in {"daemon", "learn"} => job[j].saw = {} /\ ~job[j].alt
         /\ "noprop" \in job[j].saw => job[j].ver \notin gateway[p]
         /\ \A v \in Versions : job[j].rejected[v] # 0 => v \in gateway[p]
         /\ job[j].alt => Other(job[j].ver) \notin gateway[p]
  BY <1>1 DEF TriedOf
<1>5. CASE Walks(j)
  <2>1. job'[j].at = "learn" => job[j].at = "daemon"
    BY <1>5 DEF Walks, EnsureDaemon
  <2>2. job'[j].at # "daemon" /\ Kept(j)
    BY <1>5 DEF Walks
  <2>. QED  BY <1>2, <1>4, <2>1, <2>2 DEF Kept
<1>6. CASE Learns(j)
  BY <1>2, <1>4, <1>6 DEF Learns
<1>7. CASE Loads(j)
  BY <1>2, <1>4, <1>7 DEF Loads
<1>8. CASE Retries(j)
  <2>1. /\ "noprop" \in job[j].saw /\ Other(Other(job[j].ver)) = job[j].ver
    BY <1>8 DEF Retries, FallsBack, Other, Versions
  <2>2. /\ job'[j].ver = Other(job[j].ver) /\ job'[j].saw = {} /\ job'[j].at = "load"
        /\ job'[j].rejected = job[j].rejected /\ job'[j].moved = job[j].moved
    BY <1>8 DEF Retries, FellBack
  <2>. QED  BY <1>2, <1>4, <2>1, <2>2
<1>9. CASE Dials(j) \/ Completes(j)
  <2>1. PICK c \in job[j].todo, word \in Words :
           /\ Asked(j, c, word) /\ Noticed(j, c, word)
           /\ job'[j].at \in {"judge", "rest", "dial"}
           /\ job'[j].saw \subseteq job[j].saw \cup {word}
    BY <1>9 DEF Dials, Completes
  <2>2. /\ job'[j].ver = job[j].ver /\ job'[j].alt = job[j].alt /\ job'[j].moved = job[j].moved
    BY <2>1 DEF Noticed
  <2>3. word = "noprop" => job[j].ver \notin gateway[p]
    <3>1. word = "noprop" => conn[p] \in Versions /\ conn[p] \notin gateway[p]
      BY <1>1, <2>1, AskedSays
    <3>2. job[j].at \in {"dial", "rest"} /\ 0 \notin Versions
      BY <1>9 DEF Dials, Completes, Versions
    <3>. QED  BY <3>1, <3>2 DEF LoadedAt
  <2>4. ASSUME NEW v \in Versions, job'[j].rejected[v] # 0
        PROVE  job[j].rejected[v] # 0 \/ v \in gateway[p]
    <3>1. CASE word = "rejected"
      BY <1>9, <2>1, <2>4, <3>1, RejectedCounts
    <3>2. CASE word # "rejected"
      <4>1. job'[j].rejected = job[j].rejected
        BY <1>9, <2>1, <3>2, RejectedCounts
      <4>. QED  BY <2>4, <4>1
    <3>. QED  BY <3>1, <3>2
  <2>. QED  BY <1>2, <1>4, <2>1, <2>2, <2>3, <2>4
<1>. QED  BY <1>3, <1>5, <1>6, <1>7, <1>8, <1>9, Walk

(* Every step keeps it. *)
LEMMA TriesStep ==
    ASSUME Typed, [Next]_vars, Sole, Loaded, Tries
    PROVE  Tries'
<1>1. SUFFICES ASSUME Calm({"cancel", "refuses"}) PROVE \A j \in Jobs : TriedOf(j)'
  BY SettingKept DEF Tries
<1>2. Calm({"cancel"}) /\ ~May("refuses")
  BY <1>1, CalmLess, CalmSays
<1>3. \A j \in Jobs : TriedOf(j) /\ LoadedAt(j)
  BY <1>1, <1>2 DEF Tries, Loaded
<1>4. ASSUME NEW j \in Jobs, Command(j) PROVE \A k \in Jobs : TriedOf(k)'
  <2>1. ASSUME NEW k \in Jobs \ {j} PROVE TriedOf(k)'
    <3>1. job'[k] = job[k] /\ gateway' = gateway
      BY <1>2, <1>4, Apart, CommandBusy
    <3>. QED  BY <1>3, <3>1 DEF TriedOf
  <2>. QED  BY <1>2, <1>3, <1>4, <2>1, TriedStep
<1>5. ASSUME NEW p \in Profiles, NEW j \in Jobs, Started(p, j) PROVE \A k \in Jobs : TriedOf(k)'
  <2>1. TriedOf(j)'
    BY <1>5 DEF Started, TriedOf
  <2>2. ASSUME NEW k \in Jobs \ {j} PROVE TriedOf(k)'
    <3>1. job'[k] = job[k] /\ gateway' = gateway
      BY <1>5 DEF Started, Others, world
    <3>. QED  BY <1>3, <3>1 DEF TriedOf
  <2>. QED  BY <2>1, <2>2
<1>6. CASE job' = job /\ gateway' = gateway
  BY <1>3, <1>6 DEF TriedOf
<1>7. ASSUME NEW p \in Profiles, GatewayChanges(p) PROVE \A k \in Jobs : TriedOf(k)'
  <2>1. /\ \A q \in Profiles \ {p} : gateway'[q] = gateway[q]
        /\ \A k \in Jobs : job[k].prof # p => job'[k] = job[k]
    BY <1>7, ChangeTells DEF Typed
  <2>2. ASSUME NEW k \in Jobs, job[k].prof # p PROVE TriedOf(k)'
    BY <1>3, <2>1, <2>2 DEF TriedOf
  <2>3. ASSUME NEW k \in Jobs, job'[k].moved PROVE TriedOf(k)'
    BY <2>3 DEF TriedOf
  <2>4. ASSUME NEW k \in Jobs, job[k].prof = p PROVE job'[k].moved
    BY <1>7, <2>4, ChangeTells DEF Typed
  <2>. QED  BY <2>1, <2>2, <2>3, <2>4
<1>8. CASE Rests \/ CharonDies \/ \E p \in Profiles : Drop(p) \/ Redial(p)
  BY <1>6, <1>8, DropTells, RedialTells, DiesTells DEF Typed, Rests, window, world
<1>. QED  BY <1>4, <1>5, <1>7, <1>8, Steps DEF Typed, ShownTyped

-----------------------------------------------------------------------------
(* With the right login and a gateway within reach, a try fails only for   *)
(* want of a proposal.                                                     *)
HeardOf(j) ==
    job[j].good /\ ~job[j].moved /\ job[j].at = "judge" /\ ~job[j].up => "noprop" \in job[j].saw

Reach == Calm({"cancel", "fails", "refuses", "dies"}) => \A j \in Jobs : HeardOf(j)

(* Every step keeps that. *)
LEMMA ReachStep ==
    ASSUME Typed, [Next]_vars, Sole, Loaded, Reach
    PROVE  Reach'
<1>1. SUFFICES ASSUME Calm({"cancel", "fails", "refuses", "dies"}) PROVE \A j \in Jobs : HeardOf(j)'
  BY SettingKept DEF Reach
<1>2. Calm({"cancel"}) /\ Calm({"dies"}) /\ ~May("fails") /\ ~May("refuses")
  BY <1>1, CalmLess, CalmSays
<1>3. \A j \in Jobs : HeardOf(j) /\ LoadedAt(j)
  BY <1>1, <1>2 DEF Reach, Loaded
<1>4. ASSUME NEW j \in Jobs, Command(j) PROVE \A k \in Jobs : HeardOf(k)'
  <2>1. ASSUME NEW k \in Jobs \ {j} PROVE HeardOf(k)'
    BY <1>2, <1>3, <1>4, Apart DEF HeardOf
  <2>2. HeardOf(j)'
    <3>1. CASE job'[j] = Idle \/ Walks(j) \/ Learns(j) \/ Loads(j) \/ Retries(j)
      BY <3>1 DEF HeardOf, Idle, Walks, Learns, Loads, Retries, FellBack
    <3>2. CASE Completes(j)
      <4>1. job'[j].up
        BY <1>4, <3>2, CommandBusy DEF Completes, Noticed, Shaped
      <4>. QED  BY <4>1 DEF HeardOf
    <3>3. CASE Dials(j)
      <4>1. PICK p : p = job[j].prof
        OBVIOUS
      <4>2. p \in Profiles /\ Shaped(j) /\ NetTyped /\ job[j].at = "dial"
        BY <1>4, <3>3, <4>1, CommandBusy DEF Typed, Dials
      <4>3. conn[p] # 0
        BY <1>2, <1>3, <4>1, <4>2 DEF LoadedAt, Shaped, Versions
      <4>4. \E c \in job[j].todo, word \in Words :
               /\ Asked(j, c, word) /\ Noticed(j, c, word)
               /\ job'[j].saw = job[j].saw \cup {word}
        BY <3>3 DEF Dials
      <4>5. PICK c \in job[j].todo, word \in Words :
               /\ Asked(j, c, word) /\ Noticed(j, c, word)
               /\ job'[j].saw = job[j].saw \cup {word}
        BY <4>4
      <4>6. word # "failed" /\ (word = "rejected" => ~job[j].good)
        BY <1>2, <4>1, <4>2, <4>3, <4>5, AskedSays
      <4>7. word = "up" => job'[j].up
        BY <4>5 DEF Noticed
      <4>8. job'[j].good = job[j].good
        BY <4>5 DEF Noticed
      <4>. QED  BY <4>5, <4>6, <4>7, <4>8 DEF HeardOf, Words
    <3>. QED  BY <1>4, <3>1, <3>2, <3>3, Walk
  <2>. QED  BY <2>1, <2>2
<1>5. ASSUME NEW p \in Profiles, NEW j \in Jobs, Started(p, j) PROVE \A k \in Jobs : HeardOf(k)'
  BY <1>3, <1>5 DEF Started, Others, HeardOf
<1>6. CASE job' = job
  BY <1>3, <1>6 DEF HeardOf
<1>7. ASSUME NEW p \in Profiles, GatewayChanges(p) PROVE \A k \in Jobs : HeardOf(k)'
  BY <1>3, <1>7, ChangeTells DEF Typed, HeardOf
<1>8. CASE Rests \/ CharonDies \/ \E p \in Profiles : Drop(p) \/ Redial(p)
  BY <1>6, <1>8, DropTells, RedialTells, DiesTells DEF Typed, Rests, window
<1>. QED  BY <1>4, <1>5, <1>7, <1>8, Steps DEF Typed, ShownTyped

-----------------------------------------------------------------------------
(* The inductive invariant. *)
Sound ==
    /\ Typed /\ Sole /\ Alone /\ Loaded /\ Quiescent
    /\ Single /\ Routed /\ Resolved /\ Cleared
    /\ Counts /\ Tries /\ Reach

(* It holds at first. *)
LEMMA InitSound ==
    ASSUME Init
    PROVE  Sound
<1>1. Typed
  BY InitTyped
<1>2. /\ \A j \in Jobs : job[j] = Idle
      /\ daemon = TRUE /\ redial = {} /\ dns = {}
      /\ \A p \in Profiles : shown[p] = "disconnected"
  BY DEF Init
<1>3. \A p \in Profiles : ~Carried(p) /\ \A n \in Nets[p] : sa[p][n] = 0
  BY <1>1, SilentTyped, Uncarried DEF Init, Typed
<1>4. Sole /\ Alone /\ Loaded /\ Quiescent
  BY <1>2 DEF Sole, Alone, Loaded, LoadedAt, Quiescent, Busy, Idle
<1>5. Single
  BY <1>2, <1>3 DEF Single, SingleSAs, ClearOf, Idle
<1>6. Routed
  <2>1. OneRoute
    BY <1>3, IkeAssumption DEF OneRoute
  <2>. QED  BY <1>2, <2>1 DEF Routed, RouteOf, Idle
<1>7. Resolved /\ Cleared
  BY <1>2 DEF Resolved, DnsCarried, DnsOf, Cleared, ClearedBy, Idle
<1>8. Counts
  BY <1>2 DEF Counts, CostOf, Idle
<1>9. Tries /\ Reach
  BY <1>2 DEF Tries, TriedOf, Reach, HeardOf, Idle
<1>. QED  BY <1>1, <1>4, <1>5, <1>6, <1>7, <1>8, <1>9 DEF Sound

(* Every step keeps it. *)
LEMMA SoundStep ==
    ASSUME Sound, [Next]_vars
    PROVE  Sound'
<1>1. Typed' /\ Sole' /\ Alone' /\ Loaded' /\ Quiescent'
  BY TypedStep, SoleStep, AloneStep, LoadedStep, QuiescentStep DEF Sound
<1>2. Single' /\ Routed' /\ Resolved' /\ Cleared'
  BY SingleStep, RoutedStep, ResolvedStep, ClearedStep DEF Sound
<1>3. Counts' /\ Tries' /\ Reach'
  BY CountsStep, TriesStep, ReachStep DEF Sound
<1>. QED  BY <1>1, <1>2, <1>3 DEF Sound

(* No network is negotiated twice, whatever is lost or refused and         *)
(* whatever versions gateways speak, if connects are not cancelled, charon *)
(* does not redial and status requests do not fail.                        *)
THEOREM NetworksAreSingle == Spec => []NoDoubledNetwork
<1>1. Sound => NoDoubledNetwork
  BY DEF Sound, Single, SingleSAs, NoDoubledNetwork
<1>. QED  BY <1>1, InitSound, SoundStep, PTL DEF Spec

(* Two full tunnels are never up together, if commands do not overlap and  *)
(* the status request that would show the first does not fail.             *)
THEOREM FullTunnelIsAlone == Spec => []OneFullTunnel
<1>1. Sound => OneFullTunnel
  BY DEF Sound, Routed, OneRoute, OneFullTunnel
<1>. QED  BY <1>1, InitSound, SoundStep, PTL DEF Spec

(* A disconnect has taken its DNS back by the time it turns to charon,     *)
(* whatever is lost, dies or fails besides; and DNS is applied without its *)
(* tunnel only while a command of its profile runs, whichever requests     *)
(* fail, if tunnels are not lost and charon lives.  Both if commands do    *)
(* not overlap after a cancel and DNS itself can be changed.               *)
THEOREM DnsFollowsTunnel == Spec => []DnsWithTunnel
<1>1. Sound => DnsWithTunnel
  BY DEF Sound, Resolved, DnsCarried, Cleared, ClearedBy, DnsWithTunnel, Typed, NetTyped
<1>. QED  BY <1>1, InitSound, SoundStep, PTL DEF Spec

(* One click costs at most one rejected login for each version, and one in *)
(* all while the gateway stays as it is and refuses no network, unless a   *)
(* tunnel is lost while the networks after the first are asked for.        *)
THEOREM LoginsAreSpared == Spec => []OneRejectedLogin
<1>1. ASSUME Sound, NEW j \in Jobs, NEW r, r = job[j].rejected,
             Calm({"cancel"}), Calm({"drops"}) \/ ~job[j].up
      PROVE  /\ r[1] <= 1 /\ r[2] <= 1
             /\ Calm({"refuses"}) /\ ~job[j].moved => r[1] + r[2] <= 1
  <2>1. CostOf(j) /\ job[j] \in JobRecs /\ Shaped(j) /\ NetTyped
    BY <1>1 DEF Sound, Counts, Typed, JobsTyped, JobsShaped
  <2>2. r[1] \in {0, 1} /\ r[2] \in {0, 1}
    BY <1>1, <2>1 DEF CostOf, Versions
  <2>3. ASSUME Calm({"refuses"}), ~job[j].moved PROVE r[1] = 0 \/ r[2] = 0
    <3>1. CASE job[j].ver \notin Versions \/ ~job[j].alt
      BY <1>1, <2>1, <3>1 DEF CostOf, Versions
    <3>2. CASE job[j].ver \in Versions /\ job[j].alt /\ Busy(j)
      <4>1. PICK p \in Profiles : p = job[j].prof
        BY <2>1, <3>2 DEF JobRecs, Busy
      <4>2. TriedOf(j)
        BY <1>1, <2>3 DEF Sound, Tries, Calm
      <4>3. /\ Other(job[j].ver) \notin gateway[p]
            /\ \A v \in Versions : r[v] # 0 => v \in gateway[p]
        BY <1>1, <2>3, <3>2, <4>1, <4>2 DEF TriedOf
      <4>4. Other(job[j].ver) \in {1, 2}
        BY <3>2 DEF Versions, Other
      <4>. QED  BY <4>3, <4>4 DEF Versions
    <3>3. CASE ~Busy(j)
      <4>1. job[j].at = "idle"
        BY <2>1, <3>3 DEF Shaped, Busy
      <4>. QED  BY <1>1, <2>1, <4>1 DEF CostOf, Versions
    <3>. QED  BY <3>1, <3>2, <3>3
  <2>. QED  BY <2>2, <2>3
<1>2. Sound => OneRejectedLogin
  BY <1>1 DEF OneRejectedLogin
<1>. QED  BY <1>2, InitSound, SoundStep, PTL DEF Spec

(* A connect that Judge gives up has neither a child up nor a version left *)
(* to try.                                                                 *)
LEMMA JudgeEnds ==
    ASSUME Typed, NEW j \in Jobs, job[j].at = "judge", Command(j), job'[j].at = "idle"
    PROVE  ~job[j].up /\ ~FallsBack(j)
<1>1. /\ Shaped(j) /\ job[j].prof \in Profiles /\ JobsTyped /\ Judge(j)
  BY CommandBusy
  DEF Typed, Command, EnsureDaemon, Learn, CheckFull, Adopt, Load, Dial, DialLost, InitiateTogether,
      Remember, AwaitVip, ApplyDns, RevertDns, Terminate, Unload
<1>2. ~Goes(j, "remember")
  <2>1. SUFFICES ASSUME Goes(j, "remember") PROVE job'[j].at = "remember"
    OBVIOUS
  <2>2. "remember" \in Places
    BY DEF Places, Connecting
  <2>. QED  BY <1>1, <2>1, <2>2, GoesTo
<1>3. ~FellBack(j)
  BY DEF FellBack
<1>. QED  BY <1>1, <1>2, <1>3, JudgeTells

(* Such a connect contradicts a gateway that speaks either version.        *)
LEMMA TriesBoth ==
    ASSUME Sound, [Next]_vars, NEW p \in Profiles, NEW j \in Jobs, job[j].prof = p,
           job[j].good, gateway[p] # {}, ~job[j].moved,
           Calm({"cancel", "fails", "refuses", "dies"}), job[j].at = "judge", job'[j].at = "idle"
    PROVE  FALSE
<1>1. /\ Typed /\ Sole /\ Shaped(j) /\ NetTyped
      /\ Calm({"cancel"}) /\ Calm({"cancel", "refuses"})
  BY CalmLess DEF Sound, Typed, JobsShaped
<1>2. Command(j)
  <2>1. ASSUME NEW k \in Jobs, Command(k) PROVE k = j
    BY <1>1, <2>1, Apart
  <2>2. ~ \E q \in Profiles, k \in Jobs : Started(q, k)
    <3>1. SUFFICES ASSUME NEW q \in Profiles, NEW k \in Jobs, Started(q, k) PROVE FALSE
      OBVIOUS
    <3>. QED  BY <3>1, IkeAssumption DEF Started, Others
  <2>3. ~(job' = job)
    OBVIOUS
  <2>4. ASSUME NEW q \in Profiles, GatewayChanges(q) PROVE FALSE
    BY <1>1, <2>4, ChangeTells DEF Typed
  <2>. QED
    BY <1>1, <2>1, <2>2, <2>3, <2>4, Steps, DropTells, RedialTells, DiesTells
    DEF Typed, ShownTyped, Rests, window
<1>3. ~job[j].up /\ ~FallsBack(j)
  BY <1>1, <1>2, JudgeEnds
<1>4. HeardOf(j) /\ TriedOf(j)
  BY <1>1 DEF Sound, Reach, Tries
<1>5. "noprop" \in job[j].saw /\ job[j].alt
  BY <1>3, <1>4 DEF HeardOf, FallsBack
<1>6. job[j].ver \notin gateway[p] /\ Other(job[j].ver) \notin gateway[p]
  BY <1>4, <1>5 DEF TriedOf
<1>7. job[j].ver \in {1, 2} /\ gateway[p] \subseteq {1, 2}
  BY <1>1 DEF Shaped, NetTyped, Versions
<1>8. {job[j].ver, Other(job[j].ver)} = {1, 2}
  BY <1>7 DEF Other
<1>. QED  BY <1>6, <1>7, <1>8

(* A connect with the right login to a gateway within reach that speaks    *)
(* either version is not given up.                                         *)
THEOREM BothVersionsAreTried == Spec => EitherVersionConnects
<1>1. ASSUME Sound, [Next]_vars
      PROVE  \A p \in Profiles : \A j \in On(p) :
                /\ job[j].good /\ gateway[p] # {} /\ ~job[j].moved
                /\ Calm({"cancel", "fails", "refuses", "dies"})
                => ~(job[j].at = "judge" /\ job'[j].at = "idle")
  BY <1>1, TriesBoth DEF On
<1>. QED  BY <1>1, InitSound, SoundStep, PTL DEF Spec, EitherVersionConnects

=============================================================================
