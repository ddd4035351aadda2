----------------------------- MODULE MacHelper -----------------------------
(***************************************************************************)
(* The privileged half on macOS: a launchd daemon that runs charon and the *)
(* openvpn processes and writes the resolver files (privileged.rs,         *)
(* launchd.rs, unix_ipc.rs), and the app that installs it, asks it, works  *)
(* around it when it does not answer, and removes it (helper.rs,           *)
(* daemon.rs, dns.rs).                                                     *)
(*                                                                         *)
(* Every request is a thread of the helper and takes no lock, so starts,   *)
(* stops, applies and reverts interleave, with each other and with the     *)
(* uninstall, which is another root process.  The helper may die and be    *)
(* brought back; what it forgot is on disk or lost.                        *)
(***************************************************************************)
EXTENDS MacDns, HelperInstall

CONSTANTS
    Charons,     \* charon processes
    SslNames,    \* names of SSL tunnels, one openvpn each
    MaxRequests  \* bound: what users ask for, and crashes, over a behaviour

ASSUME HelperAssumption == None \notin Charons /\ MaxRequests \in Nat

VARIABLES
    charon,     \* each charon: not running, coming up or listening, or
                \* running without the socket; and whose child it is
    vici,       \* the charon behind the vici socket
    starting,   \* charon_start by the helper's boot thread and by the app
    stopping,   \* the app saw no tunnel and is about to stop charon
    ssl,        \* the registry of openvpn tunnels, with those in a handler
    orphans,    \* openvpn processes a former helper left running
    removal,    \* how far an uninstall has come
    loose,      \* processes that slipped past the uninstall, or it left
    requests

helperVars == <<charon, vici, starting, stopping, ssl, orphans, removal, loose>>
vars == <<dnsVars, helperVars, installVars, requests>>

(* A definition named X_Something is X with a plausible bug, kept to show   *)
(* which property notices it; the specification never uses one.            *)

Starters == {"boot", "app"}
Stopped == [at |-> "none"]
Alive(p) == charon[p] # Stopped

Init ==
    /\ DnsInit
    /\ InstallInit
    /\ charon = [p \in Charons |-> Stopped]
    /\ vici = None
    /\ starting = [s \in Starters |-> IF s = "boot" THEN "asked" ELSE "idle"]
    /\ stopping = FALSE
    /\ ssl = [n \in SslNames |-> "none"]
    /\ orphans = {}
    /\ removal = "none"
    /\ loose = {}
    /\ requests = 0

Ask == requests < MaxRequests /\ requests' = requests + 1
Free == requests' = requests

(***************************************************************************)
(* charon.  A start looks for the socket, then launches, with nothing in   *)
(* between to keep another start out; without a helper the app does the    *)
(* same in an elevated shell.                                              *)
(***************************************************************************)
AskForCharon ==
    /\ starting["app"] = "idle" /\ vici = None
    /\ starting' = [starting EXCEPT !["app"] = "asked"]
    /\ UNCHANGED <<charon, vici, stopping, ssl, orphans, removal, loose>>

StartCheck(s) ==
    /\ starting[s] = "asked"
    /\ starting' = [starting EXCEPT ![s] =
         IF vici # None THEN "idle"
         ELSE IF Serving THEN "launch" ELSE "prompt"]
    /\ UNCHANGED <<charon, vici, stopping, ssl, orphans, removal, loose>>

(* A charon launched beside another, or behind the back of an uninstall, may *)
(* never be the one the socket leads to.                                     *)
Launch(s, parent) ==
    /\ starting' = [starting EXCEPT ![s] = "idle"]
    /\ \/ \E p \in Charons :
            LET others == {q \in Charons : Alive(q)}
            IN  /\ ~Alive(p)
                /\ charon' = [charon EXCEPT ![p] = [at |-> "coming", by |-> parent]]
                /\ loose' = IF others # {} \/ removal # "none"
                            THEN loose \cup others \cup {p} ELSE loose
       \/ UNCHANGED <<charon, loose>>     \* it could not be launched
    /\ UNCHANGED <<vici, stopping, ssl, orphans, removal>>

HelperLaunches(s) == starting[s] = "launch" /\ Launch(s, "helper")

(* The prompt may be declined, which is as if nothing was launched.          *)
ShellLaunches(s) == starting[s] = "prompt" /\ Launch(s, "shell")

(* charon will not bind over a socket that is in use.                        *)
Binds(p) ==
    /\ Alive(p) /\ charon[p].at = "coming"
    /\ \/ /\ vici = None /\ vici' = p
          /\ charon' = [charon EXCEPT ![p].at = "listening"]
       \/ /\ vici # None /\ UNCHANGED vici
          /\ charon' \in {[charon EXCEPT ![p] = Stopped],
                          [charon EXCEPT ![p].at = "deaf"]}
    /\ UNCHANGED <<starting, stopping, ssl, orphans, removal, loose>>

(* SIGTERM to whoever holds the socket: it takes its tunnels with it.        *)
Terminated == charon' = [charon EXCEPT ![vici] = Stopped] /\ vici' = None

(* release_daemon_when_idle: the status is read in one call and the stop     *)
(* made in another.                                                          *)
SeenIdle ==
    /\ Serving /\ vici # None /\ ~stopping
    /\ \A c \in Conns : tunnel[c] = None
    /\ stopping' = TRUE
    /\ UNCHANGED <<charon, vici, starting, ssl, orphans, removal, loose>>

StopIdle ==
    /\ stopping
    /\ stopping' = FALSE
    /\ IF vici # None /\ Serving
       THEN \/ Terminated /\ tunnel' = [c \in Conns |-> None]
            \/ UNCHANGED <<charon, vici, tunnel>>  \* not identified, or slow
       ELSE UNCHANGED <<charon, vici, tunnel>>
    /\ UNCHANGED <<starting, ssl, orphans, removal, loose>>

(***************************************************************************)
(* openvpn.  A tunnel is in the registry between the end of its connect    *)
(* and the start of its teardown.                                          *)
(***************************************************************************)
SslConnect(n) ==
    /\ Serving /\ ssl[n] \in {"none", "listed"}
    /\ ssl' = [ssl EXCEPT ![n] = IF @ = "none" THEN "launching" ELSE "replacing"]
    /\ loose' = IF removal = "none" THEN loose ELSE loose \cup {n}
    /\ UNCHANGED <<charon, vici, starting, stopping, orphans, removal>>

SslMoves(n) ==
    /\ \/ ssl[n] = "replacing" /\ ssl' = [ssl EXCEPT ![n] = "launching"]
       \/ ssl[n] = "launching" /\ \E s \in {"listed", "none"} :
                                    ssl' = [ssl EXCEPT ![n] = s]
       \/ ssl[n] \in {"listed", "closing"} /\ ssl' = [ssl EXCEPT ![n] = "none"]
    /\ UNCHANGED <<charon, vici, starting, stopping, orphans, removal, loose>>

SslDisconnect(n) ==
    /\ Serving /\ ssl[n] = "listed"
    /\ ssl' = [ssl EXCEPT ![n] = "closing"]
    /\ UNCHANGED <<charon, vici, starting, stopping, orphans, removal, loose>>

(***************************************************************************)
(* The helper's life.  Its children do not reliably go with it, and the    *)
(* next helper's registry is empty.                                        *)
(***************************************************************************)
HelperGone(state, recs) ==
    /\ HelperStops(state, recs)
    /\ \E left \in SUBSET {n \in SslNames : ssl[n] # "none"} :
          orphans' = orphans \cup left
    /\ ssl' = [n \in SslNames |-> "none"]
    /\ starting' = [s \in Starters |->
                      IF starting[s] = "launch" \/ s = "boot"
                      THEN "idle" ELSE starting[s]]

HelperCrashes ==
    /\ helper = "up" /\ HelperGone("down", hrec)
    /\ UNCHANGED <<charon, vici, stopping, removal, loose>>

(* launchd brings it back, or starts what was just installed; charon_start    *)
(* runs in a thread of its own from the first moment.                        *)
HelperRuns(from) ==
    /\ helper \in from /\ helper' = "up" /\ removal = "none"
    /\ starting' = [starting EXCEPT !["boot"] = "asked"]
    /\ UNCHANGED <<tunnel, op, files, hrec, grec, servers, stray, taken>>
    /\ UNCHANGED <<charon, vici, stopping, ssl, orphans, removal, loose>>

(***************************************************************************)
(* launchd::install: bootout, the copies, the stamp, then the plist and     *)
(* bootstrap, either of which may fail.  The app shows one prompt at a time.*)
(***************************************************************************)
InstallBegins ==
    /\ removal = "none" /\ InstallStarts
    /\ IF helper \in {"up", "down"} THEN HelperGone("out", hrec)
       ELSE UNCHANGED <<dnsVars, ssl, orphans, starting>>
    /\ UNCHANGED <<charon, vici, stopping, removal, loose>>

InstallFinishes ==
    /\ InstallEnds
    /\ \/ HelperRuns({"out", "gone"})
       \/ helper' \in {helper, "out"} /\ UNCHANGED <<tunnel, op, files, hrec, grec,
                                servers, stray, taken, helperVars>>

(***************************************************************************)
(* launchd::uninstall: the daemons, then the resolver files, then the      *)
(* helper itself, which answers until then, and the records with it.       *)
(***************************************************************************)
(* Only what the running helper still lists.                                 *)
KillOurOpenvpn_Listed(left) ==
    /\ ssl' = [n \in SslNames |-> IF n \in left THEN ssl[n] ELSE "none"]
    /\ UNCHANGED orphans

(* kill_our_openvpn goes by the executable's path: orphans are found too.    *)
(* What pgrep, ps or kill failed at is left.                                 *)
KillOurOpenvpn(left) ==
    /\ ssl' = [n \in SslNames |-> IF n \in left THEN ssl[n] ELSE "none"]
    /\ orphans' = orphans \cap left

RemoveOpenvpn ==
    /\ removal = "none" /\ helper # "gone" /\ installing = Nothing
    /\ removal' = "openvpn"
    /\ \E left \in SUBSET {n \in SslNames : ssl[n] # "none" \/ n \in orphans} :
          /\ KillOurOpenvpn(left)
          /\ loose' = (loose \ SslNames) \cup left
    /\ UNCHANGED <<charon, vici, starting, stopping>>

(* Only the charon behind the socket is asked to go, and it may not in time. *)
RemoveCharon ==
    /\ removal = "openvpn" /\ removal' = "charon"
    /\ \/ vici # None /\ Terminated /\ tunnel' = [c \in Conns |-> None]
       \/ UNCHANGED <<charon, vici, tunnel>>
    /\ loose' = loose \cup {p \in Charons : charon'[p] # Stopped}
    /\ UNCHANGED <<starting, stopping, ssl, orphans>>

(* purge_dns goes by the records, and misses a file whose record is not yet. *)
(* The record of a file that cannot be removed goes all the same.            *)
PurgeDns ==
    /\ removal = "charon" /\ removal' = "files"
    /\ \E kept \in SUBSET {d \in Recorded(hrec) : files[d] # None} :
          /\ files' = [d \in Domains |->
                         IF d \in Recorded(hrec) \ kept THEN None ELSE files[d]]
          /\ stray' = (stray \ Recorded(hrec)) \cup kept
    /\ hrec' = [c \in Conns |-> None]
    /\ UNCHANGED <<helper, tunnel, op, grec, servers, taken>>
    /\ UNCHANGED <<charon, vici, starting, stopping, ssl, orphans, loose>>

(* bootout, then the run directory with whatever was recorded since.         *)
Bootout ==
    /\ removal = "files" /\ removal' = "none"
    /\ HelperGone("gone", [c \in Conns |-> None])
    /\ InstallRemoved
    /\ UNCHANGED <<charon, vici, stopping, loose>>

(***************************************************************************)
Users ==
    \/ /\ \/ /\ vici # None
             /\ \E c \in Conns, d \in Domains \cup {None}, full \in BOOLEAN :
                   Connect(c, d, full)
             /\ UNCHANGED helperVars
          \/ (\E c \in Conns : Dropped(c) \/ Disconnect(c)) /\ UNCHANGED helperVars
          \/ AppDies /\ UNCHANGED helperVars
          \/ AskForCharon /\ UNCHANGED dnsVars
          \/ (\E n \in SslNames : SslConnect(n) \/ SslDisconnect(n))
             /\ UNCHANGED dnsVars
          \/ HelperCrashes
          \/ RemoveOpenvpn /\ UNCHANGED dnsVars
       /\ UNCHANGED installVars
    \/ Updates /\ UNCHANGED <<dnsVars, helperVars>>
    \/ InstallBegins

Steps ==
    \/ /\ \/ DnsStep /\ UNCHANGED helperVars
          \/ /\ \E s \in Starters : StartCheck(s) \/ HelperLaunches(s) \/ ShellLaunches(s)
             /\ UNCHANGED dnsVars
          \/ (\E p \in Charons : Binds(p)) /\ UNCHANGED dnsVars
          \/ SeenIdle /\ UNCHANGED dnsVars
          \/ /\ StopIdle
             /\ UNCHANGED <<helper, op, files, hrec, grec, servers, stray, taken>>
          \/ (\E n \in SslNames : SslMoves(n)) /\ UNCHANGED dnsVars
          \/ HelperRuns({"down"})
          \/ /\ RemoveCharon
             /\ UNCHANGED <<helper, op, files, hrec, grec, servers, stray, taken>>
          \/ PurgeDns
       /\ UNCHANGED installVars
    \/ Bootout
    \/ (Copies \/ Stamps) /\ UNCHANGED <<dnsVars, helperVars>>
    \/ InstallFinishes

Next == (Ask /\ Users) \/ (Free /\ Steps)
Spec == Init /\ [][Next]_vars

-----------------------------------------------------------------------------
(***************************************************************************)
(* A resolver file the helper wrote always has an account: a record, a     *)
(* request about to write one, or one of the ways it is known to get lost  *)
(* (a helper killed between file and record, a record that could not be    *)
(* written, another domain applied over one never reverted, an uninstall   *)
(* that swept before the record or could not remove the file).  And when   *)
(* an uninstall is through, nothing is left of what it was to remove: no   *)
(* such file, no openvpn, orphaned by earlier crashes or not, no charon of *)
(* the helper's, but for what could not be killed and what came up behind  *)
(* its sweep or beside another charon (privileged::apply_dns, revert_dns,  *)
(* purge_dns, kill_our_openvpn, charon_stop, launchd::uninstall).          *)
(***************************************************************************)
NothingOutlivesUninstall ==
    /\ \A d \in Domains : files[d] = "helper" =>
          d \in Recorded(hrec) \cup Recording \cup stray
    /\ helper = "gone" =>
         /\ orphans \subseteq loose
         /\ \A p \in Charons : Alive(p) =>
               charon[p].by = "shell" \/ p \in loose

(***************************************************************************)
(* Whenever the primary service does not have the user's own servers, one  *)
(* connection holds what it takes to bring them back: a record, or one     *)
(* about to be written, naming them, unless they were lost in one of the   *)
(* ways there are: taken over a takeover that was not reverted, a record   *)
(* written over or not written, a restore declined, an app killed before   *)
(* its record (dns.rs apply and revert).                                   *)
(***************************************************************************)
ServersComeBack ==
    servers # None =>
        \/ taken
        \/ \E c \in Conns :
             \/ grec[c].kind = "service" /\ grec[c].what = None
             \/ op[c].at = "note" /\ op[c].what = Record("service", None)

(***************************************************************************)
(* The app never takes the parts in /Library for its own when some are of  *)
(* another version: whatever updates, failed and repeated installs and     *)
(* removals went before, a stamp with the app's version means that of all  *)
(* the bundle brings, no file there is of another (launchd::install stamps *)
(* only after the last copy, is_stale).                                    *)
(***************************************************************************)
NotStaleMeansCurrent ==
    ~Stale /\ stamp # Unstamped =>
        \A p \in Brought : parts[p] \subseteq {app}
=============================================================================
