----------------------------- MODULE LinkImport -----------------------------
(***************************************************************************)
(* A profile that arrives over an itmvpn:// link: staged in memory, told   *)
(* to the window (or parked until the window listens), shown in a dialog,  *)
(* and written to the profile folder once it is confirmed; beside it the   *)
(* profile files opened from the shell, which are written at once          *)
(* (backend.rs, deeplink.rs, fileopen.rs, ui/index.html).                  *)
(*                                                                         *)
(* Each link comes once, so a link is its own token.  Links are handled    *)
(* one after the other by the event loop; the commands of the window run   *)
(* on threads of their own.  So does the import of a file that is dropped  *)
(* or picked; one the shell opens is not told apart from those.            *)
(***************************************************************************)
CONSTANTS
    Links, Files, Nothing,
    Id,         \* the profile id a request would land under
    Ext         \* and the format of its file

Requests == Links \cup Files
Dest(r) == <<Id[r], Ext[r]>>
Dests == {Dest(r) : r \in Requests}

ASSUME LinkAssumption ==
    /\ Links \cap Files = {} /\ Nothing \notin Links \cup Files
    /\ DOMAIN Id = Links \cup Files /\ DOMAIN Ext = Links \cup Files

VARIABLES
    staged,     \* Staged.profile: the link whose profile waits for a yes
    parked,     \* Staged.undelivered
    ready,      \* Staged.ui_ready
    loaded,     \* whether the window has loaded and collected its request
    at,         \* where each request is
    overlay,    \* the link the dialog on screen describes
    said,       \* the collision each link's preview announces
    disk,       \* whose text each profile file holds
    under       \* history: the link on screen when a link was accepted

vars == <<staged, parked, ready, loaded, at, overlay, said, disk, under>>

Stages == {"new", "deliver", "park", "parked", "lost", "sent", "open",
           "confirm", "cancel", "check", "write", "saved", "refused", "done"}

Init ==
    /\ staged = Nothing /\ parked = Nothing
    /\ ready = FALSE /\ loaded = FALSE
    /\ at = [r \in Requests |-> "new"]
    /\ overlay = Nothing
    /\ said = [l \in Links |-> "none"]
    /\ disk = [d \in Dests |-> Nothing]
    /\ under = [l \in Links |-> Nothing]

(* A definition named X_Something is X with a plausible bug, kept to show   *)
(* which property notices it; the specification never uses one.            *)

Installed(r) == {d \in Dests : d[1] = Id[r] /\ disk[d] # Nothing}

Collision(l) ==
    IF Installed(l) = {} THEN "none"
    ELSE IF Installed(l) = {Dest(l)} THEN "replace" ELSE "refuse"

MoveTo(r, stage) == at' = [at EXCEPT ![r] = stage]

-----------------------------------------------------------------------------
(* Arrival.                                                                *)

(* stage_link_import: whatever was staged before is replaced.              *)
StageLink(l) ==
    /\ at[l] = "new"
    /\ \A m \in Links : at[m] \notin {"deliver", "park"}
    /\ staged' = l
    /\ said' = [said EXCEPT ![l] = Collision(l)]
    /\ MoveTo(l, "deliver")
    /\ UNCHANGED <<parked, ready, loaded, overlay, disk, under>>

OpenFile(f) ==
    /\ at[f] = "new"
    /\ MoveTo(f, "check")
    /\ UNCHANGED <<staged, parked, ready, loaded, overlay, said, disk, under>>

(* deliver asks whether the window listens, and lets go of the slot.       *)
Deliver(r) ==
    /\ at[r] = "deliver"
    /\ MoveTo(r, IF ready THEN "sent" ELSE "park")
    /\ UNCHANGED <<staged, parked, ready, loaded, overlay, said, disk, under>>

(* defer_link_request: there is room for one, an earlier one is forgotten. *)
Park(r) ==
    /\ at[r] = "park"
    /\ parked' = r
    /\ at' = [q \in Requests |-> IF q = r THEN "parked"
                                 ELSE IF q = parked THEN "lost" ELSE at[q]]
    /\ UNCHANGED <<staged, ready, loaded, overlay, said, disk, under>>

TakeLinkRequest_NotReady ==
    /\ ~loaded
    /\ loaded' = TRUE
    /\ parked' = Nothing
    /\ at' = [q \in Requests |-> IF q = parked THEN "sent" ELSE at[q]]
    /\ UNCHANGED <<staged, ready, overlay, said, disk, under>>

(* take_link_request, which the window calls once, when it has loaded.     *)
TakeLinkRequest ==
    /\ ~loaded
    /\ loaded' = TRUE /\ ready' = TRUE
    /\ parked' = Nothing
    /\ at' = [q \in Requests |-> IF q = parked THEN "sent" ELSE at[q]]
    /\ UNCHANGED <<staged, overlay, said, disk, under>>

-----------------------------------------------------------------------------
(* The window.                                                             *)

(***************************************************************************)
(* handleLinkImport.  A link told to a compact window waits for the resize *)
(* first, and one that was parked for the command's answer, so a later     *)
(* link may be shown before it; the dialog on screen is overwritten, and   *)
(* stays open underneath.                                                  *)
(***************************************************************************)
Show(l) ==
    /\ at[l] = "sent" /\ loaded
    /\ overlay' = l
    /\ MoveTo(l, "open")
    /\ UNCHANGED <<staged, parked, ready, loaded, said, disk, under>>

(* The notice that a file was imported, or was not.                        *)
Notice(f) ==
    /\ at[f] = "sent" /\ loaded
    /\ MoveTo(f, "done")
    /\ UNCHANGED <<staged, parked, ready, loaded, overlay, said, disk, under>>

(* A click reaches every dialog that is open: each has its listeners.      *)
OpenLinks == {l \in Links : at[l] = "open"}

Accept ==
    /\ overlay # Nothing
    /\ overlay' = Nothing
    /\ at' = [r \in Requests |-> IF r \in OpenLinks THEN "confirm" ELSE at[r]]
    /\ under' = [l \in Links |-> IF l \in OpenLinks THEN overlay ELSE under[l]]
    /\ UNCHANGED <<staged, parked, ready, loaded, said, disk>>

Decline ==
    /\ overlay # Nothing
    /\ overlay' = Nothing
    /\ at' = [r \in Requests |-> IF r \in OpenLinks THEN "cancel" ELSE at[r]]
    /\ UNCHANGED <<staged, parked, ready, loaded, said, disk, under>>

-----------------------------------------------------------------------------
(* The commands.                                                           *)

Commit_AnyStaged(l) ==
    /\ at[l] = "confirm"
    /\ IF staged # Nothing
       THEN /\ at' = [at EXCEPT ![l] = IF staged = l THEN "check" ELSE "refused",
                                ![staged] = "check"]
            /\ staged' = Nothing
       ELSE MoveTo(l, "refused") /\ UNCHANGED staged
    /\ UNCHANGED <<parked, ready, loaded, overlay, said, disk, under>>

Commit_NoToken(l) ==
    /\ at[l] = "confirm"
    /\ MoveTo(l, IF staged # Nothing THEN "check" ELSE "refused")
    /\ UNCHANGED <<staged, parked, ready, loaded, overlay, said, disk, under>>

(* commit_link_import up to where it lets go of the slot.                  *)
Commit(l) ==
    /\ at[l] = "confirm"
    /\ \/ staged = l /\ staged' = Nothing /\ MoveTo(l, "check")
       \/ staged # l /\ MoveTo(l, "refused") /\ UNCHANGED staged
    /\ UNCHANGED <<parked, ready, loaded, overlay, said, disk, under>>

(* cancel_link_import resets the whole slot, whichever link it was for.    *)
Cancel(l) ==
    /\ at[l] = "cancel"
    /\ staged' = Nothing /\ parked' = Nothing /\ ready' = FALSE
    /\ at' = [r \in Requests |-> IF r = l THEN "done"
                                 ELSE IF r = parked THEN "lost" ELSE at[r]]
    /\ UNCHANGED <<loaded, overlay, said, disk, under>>

(* save_imported_text: a profile of this id in another format refuses it.  *)
(* A file's outcome, either way, is a request for the window.              *)
SaveCheck(r) ==
    /\ at[r] = "check"
    /\ MoveTo(r, IF Installed(r) \subseteq {Dest(r)} THEN "write"
                 ELSE IF r \in Links THEN "refused" ELSE "deliver")
    /\ UNCHANGED <<staged, parked, ready, loaded, overlay, said, disk, under>>

SaveWrite(r) ==
    /\ at[r] = "write"
    /\ disk' = [disk EXCEPT ![Dest(r)] = r]
    /\ MoveTo(r, IF r \in Links THEN "saved" ELSE "deliver")
    /\ UNCHANGED <<staged, parked, ready, loaded, overlay, said, under>>

-----------------------------------------------------------------------------

Next ==
    \/ \E l \in Links : StageLink(l) \/ Show(l) \/ Commit(l) \/ Cancel(l)
    \/ \E f \in Files : OpenFile(f) \/ Notice(f)
    \/ \E r \in Requests : Deliver(r) \/ Park(r) \/ SaveCheck(r) \/ SaveWrite(r)
    \/ TakeLinkRequest \/ Accept \/ Decline

Spec == Init /\ [][Next]_vars

(* Threads that have begun go on; the window loads and handles its events. *)
(* Nobody obliges the user to answer or a link to come.                    *)
Fairness ==
    /\ WF_vars(TakeLinkRequest)
    /\ \A r \in Requests : WF_vars(Deliver(r)) /\ WF_vars(Park(r))
    /\ \A r \in Requests : WF_vars(SaveCheck(r)) /\ WF_vars(SaveWrite(r))
    /\ \A l \in Links : WF_vars(Show(l)) /\ WF_vars(Commit(l)) /\ WF_vars(Cancel(l))
    /\ \A f \in Files : WF_vars(Notice(f))

FairSpec == Spec /\ Fairness

-----------------------------------------------------------------------------
(* Properties.                                                             *)

(***************************************************************************)
(* Types, and how the slot agrees with the requests: what is parked knows  *)
(* it is, what is staged has not been decided, and the dialog on screen is *)
(* one of the open ones and there is one exactly when a link is open.      *)
(***************************************************************************)
TypeOK ==
    /\ staged \in Links \cup {Nothing}
    /\ parked \in Requests \cup {Nothing}
    /\ ready \in BOOLEAN /\ loaded \in BOOLEAN /\ (ready => loaded)
    /\ at \in [Requests -> Stages]
    /\ \A r \in Requests : at[r] = "parked" <=> parked = r
    /\ staged # Nothing => at[staged] \notin {"new", "check", "write", "saved", "refused"}
    /\ overlay = Nothing <=> OpenLinks = {}
    /\ overlay # Nothing => overlay \in OpenLinks
    /\ said \in [Links -> {"none", "replace", "refuse"}]
    /\ disk \in [Dests -> Requests \cup {Nothing}]
    /\ under \in [Links -> Links \cup {Nothing}]

(***************************************************************************)
(* What a link brought is on disk only by a click given while the dialog   *)
(* of that very link was the one on screen (backend.rs:940-942,            *)
(* commit_link_import: "a link that arrived while the dialog was open      *)
(* cannot slip its own profile past a confirmation meant for another").    *)
(***************************************************************************)
OnlyTheShownLands ==
    \A l \in Links : l \in {disk[d] : d \in Dests} => under[l] = l

(***************************************************************************)
(* That much holds where dialogs are drawn in the order of their links: as *)
(* long as the dialog of the staged link, once open, is the one on screen, *)
(* the token lets nothing else through, though a click reaches all that    *)
(* are open and links go on arriving around it.                            *)
(***************************************************************************)
NewestOnTop == staged \in OpenLinks => overlay = staged

WrittenWasShown == []NewestOnTop => []OnlyTheShownLands

(***************************************************************************)
(* One click imports one profile at the most, however many dialogs lie on  *)
(* top of each other when it comes.                                        *)
(***************************************************************************)
OneLandsPerClick ==
    \A l, m \in Links :
       l # m /\ {at[l], at[m]} \subseteq {"check", "write", "saved"} => under[l] # under[m]

(***************************************************************************)
(* In a session where nothing is declined, every link that comes after the *)
(* window has loaded is shown, whatever else arrives or is imported        *)
(* meanwhile (fileopen.rs, deliver).                                       *)
(***************************************************************************)
LinkIsShown ==
    [](\A l \in Links : at[l] # "cancel") =>
       \A l \in Links : (loaded /\ at[l] = "deliver") ~> (at[l] = "open")

(***************************************************************************)
(* Once the window has said it listens, it is never again taken for one    *)
(* that does not (backend.rs:926-927: "it calls this on load, so           *)
(* everything after it can be emitted rather than parked").                *)
(***************************************************************************)
StaysReady == [][ready => ready']_vars
=============================================================================
