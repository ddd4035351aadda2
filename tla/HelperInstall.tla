--------------------------- MODULE HelperInstall ---------------------------
(***************************************************************************)
(* What of the macOS app lies in /Library, outside the bundle the updater  *)
(* swaps: the helper, charon and openvpn, copied there part by part by an  *)
(* elevated install, and the version stamp the app judges them by          *)
(* (launchd.rs install, helper.rs is_stale).  Any copy may fail and leave  *)
(* the install there; what was copied stays, and so does the old stamp.    *)
(***************************************************************************)
EXTENDS Naturals, Sequences

CONSTANTS
    MaxVersion,  \* bound: versions of the app, 1 the first
    SslVersions  \* those whose bundle has openvpn, which is optional

ASSUME InstallAssumption ==
    MaxVersion \in Nat \ {0} /\ SslVersions \subseteq 1 .. MaxVersion

VARIABLES
    app,        \* the version of the bundle that runs
    parts,      \* of each part in /Library, the versions its files are of;
                \* a file that no bundle brings any more is not counted
    stamp,      \* the version file: a version, Unstamped or Nothing
    installing  \* the step an install is at, or Nothing

installVars == <<app, parts, stamp, installing>>

(* No version file, no install running; a stamp that names no version.      *)
Nothing == 0
Unstamped == MaxVersion + 1
Order == <<"helper", "charon", "openvpn">>
Parts == {Order[i] : i \in DOMAIN Order}
Stamping == Len(Order) + 1
Starting == Len(Order) + 2

(* The parts the running bundle brings.                                      *)
Brought == IF app \in SslVersions THEN Parts ELSE Parts \ {"openvpn"}

InstallInit ==
    /\ app = 1 /\ stamp = app /\ installing = Nothing
    /\ parts = [p \in Parts |-> IF p \in Brought THEN {app} ELSE {}]

(* The updater swaps the bundle and nothing else.                            *)
Updates ==
    /\ installing = Nothing /\ app < MaxVersion
    /\ app' = app + 1
    /\ UNCHANGED <<parts, stamp, installing>>

(* The stamp written before the parts it speaks of are there.                *)
InstallStarts_Stamped ==
    /\ installing = Nothing /\ installing' = 1
    /\ stamp' = app
    /\ UNCHANGED <<app, parts>>

InstallStarts ==
    /\ installing = Nothing /\ installing' = 1
    /\ UNCHANGED <<app, parts, stamp>>

(* A part's files are replaced one by one; a failure ends the install.       *)
Copies ==
    /\ installing \in DOMAIN Order
    /\ LET p == Order[installing]
       IN  \/ /\ parts' = [parts EXCEPT ![p] = IF p \in Brought THEN {app} ELSE @]
              /\ installing' = installing + 1
           \/ /\ p \in Brought
              /\ \E left \in SUBSET (parts[p] \cup {app}) :
                    parts' = [parts EXCEPT ![p] = left]
              /\ installing' = Nothing
    /\ UNCHANGED <<app, stamp>>

(* The bundle may not tell its version, the file may not be writable.        *)
Stampable == {app, Unstamped, Nothing}

(* The old stamp goes first.                                                 *)
Stamps ==
    /\ installing = Stamping /\ installing' = Starting
    /\ stamp' \in Stampable
    /\ UNCHANGED <<app, parts>>

InstallEnds ==
    /\ installing = Starting /\ installing' = Nothing
    /\ UNCHANGED <<app, parts, stamp>>

InstallRemoved ==
    /\ parts' = [p \in Parts |-> {}] /\ stamp' = Nothing
    /\ UNCHANGED <<app, installing>>

(* is_stale, for an installed helper: no stamp is as bad as another's.       *)
Stale == stamp \notin {app, Unstamped}
=============================================================================
