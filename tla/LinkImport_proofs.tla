-------------------------- MODULE LinkImport_proofs --------------------------
(***************************************************************************)
(* Proofs about LinkImport for any links and files, whatever their ids and *)
(* formats: where dialogs are drawn in the order of their links, no link's *)
(* profile reaches the disk without a click on its own dialog, and in any  *)
(* order one click lets at most one of them in.                            *)
(*                                                                         *)
(* Neither follows from the slot alone.  A click is told from every other  *)
(* by the link on screen, which has not been decided before and is decided *)
(* by it (ClicksDiffer); and of the links one click accepted, once one has *)
(* passed, no other is or will be the staged one (SlotSpent), because only *)
(* a link that is new gets into the slot.                                  *)
(***************************************************************************)
EXTENDS LinkImport, TLAPS

Accepted == {"confirm", "check", "write", "saved", "refused"}
Landed == {"check", "write", "saved"}

(* What at says of the history.                                            *)
UnderTellsAccepted == \A l \in Links : under[l] # Nothing <=> at[l] \in Accepted
ClicksDiffer == \A l \in Links : under[l] # Nothing => under[under[l]] # Nothing
DiskFromSaved == \A d \in Dests : disk[d] \in Links => at[disk[d]] = "saved"
SlotSpent ==
    \A l, m \in Links :
        l # m /\ under[l] # Nothing /\ under[l] = under[m] /\ at[l] \in Landed
            => at[m] \notin Landed /\ staged # m

LinkInv == TypeOK /\ UnderTellsAccepted /\ ClicksDiffer /\ DiskFromSaved /\ SlotSpent

(* The application starts with nothing staged and nothing written. *)
LEMMA InitLinkInv ==
    ASSUME Init
    PROVE  LinkInv
BY LinkAssumption
   DEF Init, LinkInv, TypeOK, UnderTellsAccepted, ClicksDiffer, DiskFromSaved, SlotSpent,
       Accepted, Landed, OpenLinks, Requests, Stages

(* A step that moves one request between two stages before the dialog, or  *)
(* past the disk, changes nothing that is proved here.                     *)
LEMMA StageLinkKeepsInv ==
    ASSUME LinkInv, NEW l \in Links, StageLink(l)
    PROVE  LinkInv'
<1> USE LinkAssumption DEF LinkInv, StageLink, MoveTo, Requests
<1>1. Collision(l) \in {"none", "replace", "refuse"}
  BY DEF Collision
<1>2. TypeOK'
  BY <1>1 DEF TypeOK, Stages, OpenLinks
<1>3. UnderTellsAccepted' /\ ClicksDiffer' /\ DiskFromSaved'
  BY DEF TypeOK, UnderTellsAccepted, ClicksDiffer, DiskFromSaved, Accepted
<1>4. SlotSpent'
  BY DEF TypeOK, UnderTellsAccepted, SlotSpent, Accepted, Landed
<1> QED BY <1>2, <1>3, <1>4

(* A request that reaches the window, or is parked for it, keeps the invariant. *)
LEMMA ArrivalKeepsInv ==
    ASSUME LinkInv, NEW r \in Requests, Deliver(r) \/ Park(r)
    PROVE  LinkInv'
<1> USE LinkAssumption DEF LinkInv, MoveTo, Requests
<1>1. CASE Deliver(r)
  <2> USE <1>1 DEF Deliver
  <2>1. TypeOK'
    BY DEF TypeOK, Stages, OpenLinks
  <2>2. UnderTellsAccepted' /\ ClicksDiffer' /\ DiskFromSaved' /\ SlotSpent'
    BY DEF TypeOK, UnderTellsAccepted, ClicksDiffer, DiskFromSaved, SlotSpent, Accepted, Landed
  <2> QED BY <2>1, <2>2
<1>2. CASE Park(r)
  <2> USE <1>2 DEF Park
  <2>1. TypeOK'
    BY DEF TypeOK, Stages, OpenLinks
  <2>2. UnderTellsAccepted' /\ ClicksDiffer' /\ DiskFromSaved' /\ SlotSpent'
    BY DEF TypeOK, UnderTellsAccepted, ClicksDiffer, DiskFromSaved, SlotSpent, Accepted, Landed
  <2> QED BY <2>1, <2>2
<1> QED BY <1>1, <1>2

(* The window taking the parked request keeps the invariant. *)
LEMMA TakeLinkRequestKeepsInv ==
    ASSUME LinkInv, TakeLinkRequest
    PROVE  LinkInv'
<1> USE LinkAssumption DEF LinkInv, TakeLinkRequest, Requests
<1>1. TypeOK'
  BY DEF TypeOK, Stages, OpenLinks
<1>2. UnderTellsAccepted' /\ ClicksDiffer' /\ DiskFromSaved' /\ SlotSpent'
  BY DEF TypeOK, UnderTellsAccepted, ClicksDiffer, DiskFromSaved, SlotSpent, Accepted, Landed
<1> QED BY <1>1, <1>2

(* Showing a link leaves the click open; a notice is a file's.             *)
LEMMA ShowKeepsInv ==
    ASSUME LinkInv, NEW l \in Links, Show(l)
    PROVE  LinkInv'
<1> USE LinkAssumption DEF LinkInv, Show, MoveTo, Requests
<1>1. TypeOK'
  BY DEF TypeOK, Stages, OpenLinks
<1>2. UnderTellsAccepted' /\ ClicksDiffer' /\ DiskFromSaved' /\ SlotSpent'
  BY DEF TypeOK, UnderTellsAccepted, ClicksDiffer, DiskFromSaved, SlotSpent, Accepted, Landed
<1> QED BY <1>1, <1>2

(* A profile file opened or noticed keeps the invariant. *)
LEMMA FileKeepsInv ==
    ASSUME LinkInv, NEW f \in Files, OpenFile(f) \/ Notice(f)
    PROVE  LinkInv'
<1> USE LinkAssumption DEF LinkInv, OpenFile, Notice, MoveTo, Requests
<1>1. TypeOK'
  BY DEF TypeOK, Stages, OpenLinks
<1>2. UnderTellsAccepted' /\ ClicksDiffer' /\ DiskFromSaved' /\ SlotSpent'
  BY DEF TypeOK, UnderTellsAccepted, ClicksDiffer, DiskFromSaved, SlotSpent, Accepted, Landed
<1> QED BY <1>1, <1>2

(* The click: the links it accepts get the one on screen for their mark,   *)
(* which no earlier click has given, and none of them has passed yet.      *)
LEMMA AcceptKeepsInv ==
    ASSUME LinkInv, Accept
    PROVE  LinkInv'
<1> USE LinkAssumption DEF LinkInv, Accept, Requests
<1>1. overlay \in Links /\ overlay \in OpenLinks /\ under[overlay] = Nothing
  BY DEF TypeOK, OpenLinks, UnderTellsAccepted, Accepted
<1>2. TypeOK'
  BY <1>1 DEF TypeOK, Stages, OpenLinks
<1>3. UnderTellsAccepted'
  BY <1>1 DEF TypeOK, UnderTellsAccepted, OpenLinks, Accepted
<1>4. ClicksDiffer'
  BY <1>1 DEF TypeOK, ClicksDiffer, OpenLinks
<1>5. DiskFromSaved'
  BY DEF TypeOK, DiskFromSaved, OpenLinks
<1>6. SlotSpent'
  <2> SUFFICES ASSUME NEW l \in Links, NEW m \in Links, l # m,
                      under'[l] # Nothing, under'[l] = under'[m], at'[l] \in Landed
               PROVE  at'[m] \notin Landed /\ staged' # m
    BY DEF SlotSpent
  <2>1. l \notin OpenLinks
    BY DEF TypeOK, OpenLinks, Landed
  <2>2. under[l] # Nothing /\ under'[l] = under[l] /\ at[l] \in Landed
    BY <2>1 DEF TypeOK
  <2>3. m \notin OpenLinks
    BY <1>1, <2>2 DEF TypeOK, ClicksDiffer
  <2>4. under[l] = under[m] /\ at'[m] = at[m]
    BY <2>2, <2>3 DEF TypeOK
  <2> QED BY <2>2, <2>4 DEF SlotSpent
<1> QED BY <1>2, <1>3, <1>4, <1>5, <1>6

(* Declining the request that is shown keeps the invariant. *)
LEMMA DeclineKeepsInv ==
    ASSUME LinkInv, Decline
    PROVE  LinkInv'
<1> USE LinkAssumption DEF LinkInv, Decline, Requests
<1>1. TypeOK'
  BY DEF TypeOK, Stages, OpenLinks
<1>2. UnderTellsAccepted' /\ ClicksDiffer' /\ DiskFromSaved' /\ SlotSpent'
  BY DEF TypeOK, UnderTellsAccepted, ClicksDiffer, DiskFromSaved, SlotSpent, OpenLinks,
         Accepted, Landed
<1> QED BY <1>1, <1>2

(* The staged link passes and empties the slot; every other is refused.    *)
LEMMA CommitKeepsInv ==
    ASSUME LinkInv, NEW l \in Links, Commit(l)
    PROVE  LinkInv'
<1> USE LinkAssumption DEF LinkInv, Commit, MoveTo, Requests
<1>1. TypeOK'
  BY DEF TypeOK, Stages, OpenLinks
<1>2. UnderTellsAccepted' /\ ClicksDiffer' /\ DiskFromSaved'
  BY DEF TypeOK, UnderTellsAccepted, ClicksDiffer, DiskFromSaved, Accepted
<1>3. SlotSpent'
  BY DEF TypeOK, SlotSpent, Landed
<1> QED BY <1>1, <1>2, <1>3

(* Cancelling a staged link keeps the invariant. *)
LEMMA CancelKeepsInv ==
    ASSUME LinkInv, NEW l \in Links, Cancel(l)
    PROVE  LinkInv'
<1> USE LinkAssumption DEF LinkInv, Cancel, Requests
<1>1. TypeOK'
  BY DEF TypeOK, Stages, OpenLinks
<1>2. UnderTellsAccepted' /\ ClicksDiffer' /\ DiskFromSaved' /\ SlotSpent'
  BY DEF TypeOK, UnderTellsAccepted, ClicksDiffer, DiskFromSaved, SlotSpent, Accepted, Landed
<1> QED BY <1>1, <1>2

(* What passed the slot is checked against the folder, and written.        *)
LEMMA SaveKeepsInv ==
    ASSUME LinkInv, NEW r \in Requests, SaveCheck(r) \/ SaveWrite(r)
    PROVE  LinkInv'
<1> USE LinkAssumption DEF LinkInv, MoveTo, Requests
<1>1. CASE SaveCheck(r)
  <2> USE <1>1 DEF SaveCheck
  <2>1. TypeOK'
    BY DEF TypeOK, Stages, OpenLinks
  <2>2. UnderTellsAccepted' /\ ClicksDiffer' /\ DiskFromSaved' /\ SlotSpent'
    BY DEF TypeOK, UnderTellsAccepted, ClicksDiffer, DiskFromSaved, SlotSpent, Accepted, Landed
  <2> QED BY <2>1, <2>2
<1>2. CASE SaveWrite(r)
  <2> USE <1>2 DEF SaveWrite
  <2>1. TypeOK'
    BY DEF TypeOK, Stages, OpenLinks, Dests
  <2>2. UnderTellsAccepted' /\ ClicksDiffer' /\ SlotSpent'
    BY DEF TypeOK, UnderTellsAccepted, ClicksDiffer, SlotSpent, Accepted, Landed
  <2>3. DiskFromSaved'
    BY DEF TypeOK, DiskFromSaved
  <2> QED BY <2>1, <2>2, <2>3
<1> QED BY <1>1, <1>2

(* Every step keeps the invariant: one case for each action. *)
LEMMA NextKeepsLinkInv ==
    ASSUME LinkInv, [Next]_vars
    PROVE  LinkInv'
<1>1. CASE UNCHANGED vars
  BY <1>1
     DEF vars, LinkInv, TypeOK, UnderTellsAccepted, ClicksDiffer, DiskFromSaved, SlotSpent,
         OpenLinks
<1> QED BY <1>1, StageLinkKeepsInv, ArrivalKeepsInv, TakeLinkRequestKeepsInv, ShowKeepsInv,
           FileKeepsInv, AcceptKeepsInv, DeclineKeepsInv, CommitKeepsInv, CancelKeepsInv,
           SaveKeepsInv
        DEF Next

(* In every reachable state the slots and the dialogs agree: LinkInv is inductive. *)
THEOREM LinkInvariance == Spec => []LinkInv
<1> QED BY InitLinkInv, NextKeepsLinkInv, PTL DEF Spec

(* Of the links a click reached, only the one it was given for may still   *)
(* pass the slot, or has passed it.                                        *)
OnlyShownPasses ==
    \A l \in Links :
       under[l] # Nothing /\ (staged = l \/ at[l] \in Landed) => under[l] = l

(* The click is where it is decided: an open link under another dialog is  *)
(* not the staged one, and no later step stages a link that is decided.    *)
LEMMA NextKeepsOnlyShown ==
    ASSUME LinkInv, OnlyShownPasses, NewestOnTop, [Next]_vars
    PROVE  OnlyShownPasses'
<1> USE LinkAssumption DEF LinkInv, OnlyShownPasses, Requests
<1>1. CASE Accept
  <2> SUFFICES ASSUME NEW l \in Links, under'[l] # Nothing,
                      staged' = l \/ at'[l] \in Landed
               PROVE  under'[l] = l
    OBVIOUS
  <2>1. CASE l \in OpenLinks
    <3>1. at'[l] \notin Landed /\ under'[l] = overlay
      BY <1>1, <2>1 DEF Accept, TypeOK, Landed
    <3>2. staged = l
      BY <1>1, <3>1 DEF Accept
    <3> QED BY <2>1, <3>1, <3>2 DEF NewestOnTop
  <2>2. CASE l \notin OpenLinks
    BY <1>1, <2>2 DEF Accept, TypeOK
  <2> QED BY <2>1, <2>2
<1>2. CASE \E l \in Links : StageLink(l)
  BY <1>2 DEF StageLink, MoveTo, TypeOK, UnderTellsAccepted, Accepted, Landed
<1>3. CASE \E l \in Links : Commit(l)
  BY <1>3 DEF Commit, MoveTo, TypeOK, Landed
<1>4. CASE \E l \in Links : Show(l) \/ Cancel(l)
  BY <1>4 DEF Show, Cancel, MoveTo, TypeOK, Landed
<1>5. CASE \E r \in Requests : Deliver(r) \/ Park(r) \/ SaveCheck(r) \/ SaveWrite(r)
  BY <1>5 DEF Deliver, Park, SaveCheck, SaveWrite, MoveTo, TypeOK, Landed
<1>6. CASE \E f \in Files : OpenFile(f) \/ Notice(f)
  BY <1>6 DEF OpenFile, Notice, MoveTo, TypeOK, Landed
<1>7. CASE TakeLinkRequest \/ Decline
  BY <1>7 DEF TakeLinkRequest, Decline, TypeOK, OpenLinks, Landed
<1>8. CASE UNCHANGED vars
  BY <1>8 DEF vars
<1> QED BY <1>1, <1>2, <1>3, <1>4, <1>5, <1>6, <1>7, <1>8 DEF Next

(* Where dialogs are drawn in the order of their links, what a link brought *)
(* is on disk only by a click on its own dialog.                            *)
THEOREM NothingSlipsPast == Spec => WrittenWasShown
<1>1. Init => OnlyShownPasses
  BY LinkAssumption DEF Init, OnlyShownPasses
<1>2. LinkInv /\ OnlyShownPasses => OnlyTheShownLands
  BY DEF LinkInv, OnlyShownPasses, UnderTellsAccepted, DiskFromSaved, OnlyTheShownLands,
         Accepted, Landed
<1>3. LinkInv /\ OnlyShownPasses /\ NewestOnTop /\ [Next]_vars => OnlyShownPasses'
  BY NextKeepsOnlyShown
<1> QED BY <1>1, <1>2, <1>3, LinkInvariance, PTL DEF Spec, WrittenWasShown

(* One click lets at most one link's profile in.                           *)
THEOREM OneClickOneImport == Spec => []OneLandsPerClick
<1>1. LinkInv => OneLandsPerClick
  <2> SUFFICES ASSUME LinkInv, NEW l \in Links, NEW m \in Links, l # m,
                      {at[l], at[m]} \subseteq Landed
               PROVE  under[l] # under[m]
    BY DEF OneLandsPerClick, Landed
  <2>1. under[l] # Nothing /\ at[l] \in Landed /\ at[m] \in Landed
    BY DEF LinkInv, UnderTellsAccepted, Accepted, Landed
  <2> QED BY <2>1 DEF LinkInv, SlotSpent
<1> QED BY <1>1, LinkInvariance, PTL

(* The slot agrees with where the requests are: what is staged has not     *)
(* been decided, and what is on screen is open.                            *)
THEOREM SlotAgrees == Spec => []TypeOK
<1>1. LinkInv => TypeOK
  BY DEF LinkInv
<1> QED BY <1>1, LinkInvariance, PTL
=============================================================================
