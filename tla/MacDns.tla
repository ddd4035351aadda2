------------------------------- MODULE MacDns -------------------------------
(***************************************************************************)
(* How the macOS app points name resolution at a tunnel and back again     *)
(* (vpn-desktop/src/dns.rs, vpn-broker/src/privileged.rs).                 *)
(*                                                                         *)
(* A tunnel with a DNS domain gets a file in /etc/resolver, a full tunnel  *)
(* without one takes over the servers of the primary network service, and  *)
(* any other leaves resolution alone.  The file is written by the root     *)
(* helper when it answers, else by an elevated shell the user has to allow.*)
(* Two processes keep records: the helper which file belongs to which      *)
(* connection, the app what it has to undo.  Every change and the record   *)
(* of it are two steps, and either process may die between them; a record  *)
(* that cannot be written goes unnoticed, and leaves the old one or none.  *)
(***************************************************************************)
EXTENDS Naturals, FiniteSets

CONSTANTS
    Conns,      \* connection names, as their records are named
    Domains,    \* split-DNS domains
    None

Everything == "everything"
LeaveAlone == "leave alone"
ASSUME DnsAssumption ==
    None \notin Conns \cup Domains \cup {Everything, LeaveAlone, "helper", "shell"}

VARIABLES
    helper,     \* the launchd helper: "up", "down" (launchd brings it back),
                \* "out" (booted out by an install) or "gone" (not installed)
    tunnel,     \* the scope each established connection resolves by
    op,         \* what the app is doing to each connection's DNS
    files,      \* who wrote /etc/resolver/<domain>: None, "helper", "shell"
    hrec,       \* the helper's dns-<conn>.record: a domain or None
    grec,       \* the app's vpn-dns-<conn>.macos
    servers,    \* whose servers the primary service has: None, the user's own
    stray,      \* domains whose file lost its account, see HelperRecords,
                \* HelperStops and PurgeDns
    taken       \* the user's own servers were lost

dnsVars == <<helper, tunnel, op, files, hrec, grec, servers, stray, taken>>

(* dns_scope: what a tunnel with this domain and these subnets may change.   *)
DnsScope(domain, full) ==
    IF domain # None THEN domain ELSE IF full THEN Everything ELSE LeaveAlone

(* An operation and what it carries; unheard once the app that asked died.   *)
Idle == [at |-> "idle"]
Op(at, what) == [at |-> at, what |-> what, heard |-> TRUE]
Then(c, next) == [op EXCEPT ![c] = IF op[c].heard THEN next ELSE Idle]
NoRecord == [kind |-> "none"]
Record(kind, what) == [kind |-> kind, what |-> what]

DnsInit ==
    /\ helper = "up"
    /\ tunnel = [c \in Conns |-> None]
    /\ op = [c \in Conns |-> Idle]
    /\ files = [d \in Domains |-> None]
    /\ hrec = [c \in Conns |-> None]
    /\ grec = [c \in Conns |-> NoRecord]
    /\ servers = None
    /\ stray = {}
    /\ taken = FALSE

(* The helper's socket is there, and each request gets a thread.             *)
Serving == helper = "up"

(* Files being accounted for: written, their record not yet.                 *)
Recording == {op[c].what : c \in {c \in Conns : op[c].at = "recording"}}

(* The domains a record that is kept names.                                  *)
Recorded(recs) == {recs[c] : c \in Conns} \ {None}

(* dns::apply for a scope: whom it asks, with what it read beforehand.       *)
FirstStep(scope) ==
    IF scope = LeaveAlone THEN Idle
    ELSE IF scope = Everything THEN Op("takeover", servers)
    ELSE Op(IF Serving THEN "request" ELSE "shell", scope)

(***************************************************************************)
(* Establishing a tunnel.  Another full tunnel is refused by connect; the  *)
(* record of an earlier tunnel of this name may still be there.            *)
(***************************************************************************)
Connect(c, domain, full) ==
    LET scope == DnsScope(domain, full)
    IN  /\ op[c] = Idle /\ tunnel[c] = None
        /\ \A o \in Conns : full => tunnel[o] # Everything
        /\ tunnel' = [tunnel EXCEPT ![c] = scope]
        /\ op' = [op EXCEPT ![c] = FirstStep(scope)]
        /\ taken' = (taken \/ (scope = Everything /\ servers # None))
        /\ UNCHANGED <<helper, files, hrec, grec, servers, stray>>

(* The helper answered the ping and is gone when the request comes.          *)
Unreachable(c) ==
    /\ op[c].at \in {"request", "unrequest"} /\ ~Serving
    /\ op' = [op EXCEPT ![c] = Idle]
    /\ tunnel' = [tunnel EXCEPT ![c] =
                    IF op[c].at = "request" THEN @ ELSE None]
    /\ UNCHANGED <<helper, files, hrec, grec, servers, stray, taken>>

(* privileged::apply_dns, first the file, then the record of it.             *)
HelperWrites(c) ==
    /\ op[c].at = "request" /\ Serving
    /\ \/ /\ files' = [files EXCEPT ![op[c].what] = "helper"]
          /\ op' = [op EXCEPT ![c].at = "recording"]
       \/ /\ op' = [op EXCEPT ![c] = Idle]   \* the file cannot be written
          /\ UNCHANGED files
    /\ UNCHANGED <<helper, tunnel, hrec, grec, servers, stray, taken>>

(* The record of another domain, of a tunnel never reverted, is written over;*)
(* one that cannot be written is answered like one that was.                 *)
HelperRecords(c) ==
    /\ op[c].at = "recording"
    /\ \E kept \in {op[c].what, hrec[c], None} :
          /\ hrec' = [hrec EXCEPT ![c] = kept]
          /\ stray' = (stray \cup {hrec[c], op[c].what}) \ {None, kept}
    /\ op' = Then(c, Op("note", Record("helper", op[c].what)))
    /\ UNCHANGED <<helper, tunnel, files, grec, servers, taken>>

(* The list of servers asked for after the change.                           *)
ShellWrites_AsksAfter(c) ==
    /\ op[c].at = "takeover"
    /\ servers' = c
    /\ op' = Then(c, Op("note", Record("service", c)))
    /\ UNCHANGED <<helper, tunnel, files, hrec, grec, stray, taken>>

(* dns::apply behind the authorization prompt, allowed or declined.          *)
ShellWrites(c) ==
    /\ \/ /\ op[c].at = "shell"
          /\ files' = [files EXCEPT ![op[c].what] = "shell"]
          /\ op' = Then(c, Op("note", Record("resolver", op[c].what)))
          /\ UNCHANGED <<servers, taken>>
       \/ /\ op[c].at = "takeover"
          /\ servers' = c
          /\ op' = Then(c, Op("note", Record("service", op[c].what)))
          /\ taken' = (taken \/ ~op[c].heard)
          /\ UNCHANGED files
       \/ /\ op[c].at \in {"shell", "takeover"}
          /\ op' = [op EXCEPT ![c] = Idle]
          /\ UNCHANGED <<files, servers, taken>>
    /\ UNCHANGED <<helper, tunnel, hrec, grec, stray>>

(* The app's own record: what a revert will have to undo.  The servers of a  *)
(* record written over, or not written, are lost.                            *)
Note(c) ==
    /\ op[c].at = "note"
    /\ \E kept \in {op[c].what, grec[c], NoRecord} :
          /\ grec' = [grec EXCEPT ![c] = kept]
          /\ taken' = (taken \/ \E r \in {op[c].what, grec[c]} \ {kept} :
                                   r.kind = "service")
    /\ op' = [op EXCEPT ![c] = Idle]
    /\ UNCHANGED <<helper, tunnel, files, hrec, servers, stray>>

(***************************************************************************)
(* A tunnel that goes down on its own is not reverted; one that is         *)
(* disconnected is, and goes down whatever the revert did.                 *)
(***************************************************************************)
Dropped(c) ==
    /\ tunnel[c] # None /\ op[c] = Idle
    /\ tunnel' = [tunnel EXCEPT ![c] = None]
    /\ UNCHANGED <<helper, op, files, hrec, grec, servers, stray, taken>>

Disconnect(c) ==
    /\ op[c] = Idle
    /\ \/ /\ grec[c] = NoRecord /\ tunnel[c] # None
          /\ tunnel' = [tunnel EXCEPT ![c] = None]
          /\ UNCHANGED op
       \/ /\ grec[c] # NoRecord
          /\ op' = [op EXCEPT ![c] =
               Op(IF grec[c].kind = "helper" THEN "unrequest" ELSE "undo", None)]
          /\ UNCHANGED tunnel
    /\ UNCHANGED <<helper, files, hrec, grec, servers, stray, taken>>

(* The app hears the end of a revert: its record goes, the tunnel goes.      *)
Reverted(c) ==
    /\ op' = [op EXCEPT ![c] = Idle]
    /\ grec' = IF op[c].heard THEN [grec EXCEPT ![c] = NoRecord] ELSE grec
    /\ tunnel' = IF op[c].heard THEN [tunnel EXCEPT ![c] = None] ELSE tunnel

(* privileged::revert_dns: a file that cannot be removed keeps its record.   *)
(* The app forgets its own on any answer.                                    *)
HelperReverts(c) ==
    /\ op[c].at = "unrequest" /\ Serving
    /\ \/ /\ hrec[c] # None
          /\ files' = [files EXCEPT ![hrec[c]] = None]
          /\ stray' = stray \ {hrec[c]}
          /\ op' = [op EXCEPT ![c].at = "unrecord"]
          /\ UNCHANGED <<grec, tunnel>>
       \/ /\ Reverted(c)
          /\ UNCHANGED <<files, stray>>
    /\ UNCHANGED <<helper, hrec, servers, taken>>

HelperUnrecords(c) ==
    /\ op[c].at = "unrecord"
    /\ hrec' = [hrec EXCEPT ![c] = None]
    /\ Reverted(c)
    /\ UNCHANGED <<helper, files, servers, stray, taken>>

(* revert behind the prompt: the record goes even when the user declined.    *)
ShellReverts(c) ==
    /\ op[c].at = "undo"
    /\ \/ /\ grec[c].kind = "resolver"
          /\ files' = [files EXCEPT ![grec[c].what] = None]
          /\ UNCHANGED <<servers, taken>>
       \/ /\ grec[c].kind = "service"
          /\ servers' = grec[c].what
          /\ UNCHANGED <<files, taken>>
       \/ /\ taken' = (taken \/ (op[c].heard /\ grec[c].kind = "service"))
          /\ UNCHANGED <<files, servers>>
    /\ Reverted(c)
    /\ UNCHANGED <<helper, hrec, stray>>

DnsStep ==
    \E c \in Conns :
        \/ Unreachable(c) \/ HelperWrites(c) \/ HelperRecords(c)
        \/ ShellWrites(c) \/ Note(c) \/ HelperReverts(c) \/ HelperUnrecords(c)
        \/ ShellReverts(c)

(***************************************************************************)
(* The two processes dying.  The helper's threads go with it, unanswered.  *)
(* What the app asked for goes on without it, and its records are files.   *)
(* The helper's are too, of which `recs` are what is left.                 *)
(***************************************************************************)
HelperStops(state, recs) ==
    /\ helper' = state /\ hrec' = recs
    /\ op' = [c \in Conns |->
                IF op[c].at \in {"recording", "unrecord"} THEN Idle ELSE op[c]]
    /\ tunnel' = [c \in Conns |->
                    IF op[c].at = "unrecord" /\ op[c].heard
                    THEN None ELSE tunnel[c]]
    /\ stray' = stray \cup Recording \cup (Recorded(hrec) \ Recorded(recs))
    /\ UNCHANGED <<files, grec, servers, taken>>

AppDies ==
    /\ op' = [c \in Conns |->
                IF op[c].at \in {"idle", "note"} THEN Idle
                ELSE [op[c] EXCEPT !.heard = FALSE]]
    /\ op' # op
    /\ taken' = (taken \/ \E c \in Conns :
                            op[c].at = "note" /\ op[c].what.kind = "service")
    /\ UNCHANGED <<helper, tunnel, files, hrec, grec, servers, stray>>
=============================================================================
