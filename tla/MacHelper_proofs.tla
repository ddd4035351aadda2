-------------------------- MODULE MacHelper_proofs --------------------------
(***************************************************************************)
(* The macOS helper, for any number of connections, domains, charons,      *)
(* tunnels and versions, under all that requests, crashes, installs and    *)
(* removals may do meanwhile.                                              *)
(*                                                                         *)
(* That a stamp with the app's version vouches for the parts is not        *)
(* inductive: it rests on stamps never naming a version to come, so that   *)
(* an update always outdates them, and on the parts an install has passed  *)
(* being the app's when it comes to the stamp (InstallInv).                *)
(* That the user's servers come back rests on what each operation read     *)
(* before it changed anything (Restorable); that every file has an account *)
(* on a revert's record no longer counting once its file is gone           *)
(* (FilesAccounted); that an uninstall is thorough on what its stages      *)
(* establish one by one while the helper goes on serving (Sweeping).       *)
(***************************************************************************)
EXTENDS MacHelper, TLAPS

InstallTypeOK ==
    /\ app \in 1 .. MaxVersion
    /\ stamp \in 0 .. app \cup {Unstamped}
    /\ installing \in 0 .. Starting
    /\ parts \in [Parts -> SUBSET Nat]

PassedAreCurrent ==
    \A i \in DOMAIN Order :
        i < installing /\ Order[i] \in Brought => parts[Order[i]] \subseteq {app}

StampVouches == stamp = app => \A p \in Brought : parts[p] \subseteq {app}

InstallInv == InstallTypeOK /\ PassedAreCurrent /\ StampVouches

(* The three parts, and the steps after the last of them.                  *)
LEMMA OrderFacts ==
    /\ DOMAIN Order = 1 .. 3
    /\ Stamping = 4 /\ Starting = 5
    /\ Parts = {Order[1], Order[2], Order[3]}
    /\ Brought \subseteq Parts
<1>1. Order \in Seq({"helper", "charon", "openvpn"}) /\ Len(Order) = 3
  BY DEF Order
<1>2. DOMAIN Order = 1 .. 3
  BY <1>1
<1> QED BY <1>1, <1>2 DEF Stamping, Starting, Parts, Brought

(* Before the first install nothing is copied, so no stamp vouches for anything. *)
LEMMA InstallInitInv ==
    ASSUME InstallInit
    PROVE  InstallInv
<1>1. InstallTypeOK
  BY InstallAssumption, OrderFacts DEF InstallInit, InstallTypeOK, Nothing
<1>2. \A p \in Brought : parts[p] \subseteq {app}
  BY OrderFacts DEF InstallInit
<1> QED BY <1>1, <1>2, OrderFacts DEF InstallInv, PassedAreCurrent, StampVouches

(* An update outdates every stamp there is.                                *)
LEMMA UpdatesKeepsInv ==
    ASSUME InstallInv, Updates
    PROVE  InstallInv'
<1>1. InstallTypeOK'
  BY InstallAssumption, OrderFacts
     DEF InstallInv, InstallTypeOK, Updates, Unstamped, Nothing, Starting
<1>2. stamp' # app'
  BY InstallAssumption DEF InstallInv, InstallTypeOK, Updates, Unstamped
<1>3. \A i \in DOMAIN Order : ~(i < installing')
  BY OrderFacts DEF Updates, Nothing
<1> QED BY <1>1, <1>2, <1>3 DEF InstallInv, PassedAreCurrent, StampVouches

(* A copy makes a part the app's, or leaves at most the app's beside what  *)
(* was there.                                                              *)
LEMMA CopiesKeepsInv ==
    ASSUME InstallInv, Copies
    PROVE  InstallInv'
<1> DEFINE p == Order[installing]
<1>1. p \in Parts /\ installing \in 1 .. 3 /\ Brought' = Brought
  BY OrderFacts DEF Copies, Brought
<1>2. CASE /\ parts' = [parts EXCEPT ![p] = IF p \in Brought THEN {app} ELSE @]
           /\ installing' = installing + 1
  <2>1. InstallTypeOK'
    BY <1>1, <1>2, OrderFacts, InstallAssumption DEF InstallInv, InstallTypeOK, Copies, Starting
  <2>2. \A q \in Brought : parts'[q] = parts[q] \/ parts'[q] = {app}
    BY <1>1, <1>2, OrderFacts DEF InstallInv, InstallTypeOK
  <2>3. p \in Brought => parts'[p] = {app}
    BY <1>1, <1>2 DEF InstallInv, InstallTypeOK
  <2>4. PassedAreCurrent'
    <3> SUFFICES ASSUME NEW i \in DOMAIN Order, i < installing + 1, Order[i] \in Brought
                 PROVE  parts'[Order[i]] \subseteq {app}
      BY <1>1, <1>2 DEF PassedAreCurrent, Copies
    <3>1. CASE i = installing
      BY <2>3, <3>1
    <3>2. CASE i < installing
      BY <2>2, <3>2 DEF InstallInv, PassedAreCurrent
    <3> QED BY <1>1, <3>1, <3>2, OrderFacts
  <2>5. StampVouches'
    BY <1>1, <2>2 DEF InstallInv, StampVouches, Copies
  <2> QED BY <2>1, <2>4, <2>5 DEF InstallInv
<1>3. ASSUME NEW left \in SUBSET (parts[p] \cup {app}),
             parts' = [parts EXCEPT ![p] = left], installing' = Nothing
      PROVE  InstallInv'
  <2>1. InstallTypeOK'
    BY <1>1, <1>3, OrderFacts, InstallAssumption
       DEF InstallInv, InstallTypeOK, Copies, Nothing, Starting
  <2>2. \A i \in DOMAIN Order : ~(i < installing')
    BY <1>3, OrderFacts DEF Nothing
  <2>3. \A q \in Brought : parts[q] \subseteq {app} => parts'[q] \subseteq {app}
    BY <1>1, <1>3, OrderFacts DEF InstallInv, InstallTypeOK
  <2>4. StampVouches'
    BY <1>1, <2>3 DEF InstallInv, StampVouches, Copies
  <2> QED BY <2>1, <2>2, <2>4 DEF InstallInv, PassedAreCurrent
<1> QED BY <1>2, <1>3 DEF Copies

(* The stamp comes when every part has been passed.                        *)
LEMMA StampsKeepsInv ==
    ASSUME InstallInv, Stamps
    PROVE  InstallInv'
<1>1. Brought' = Brought
  BY DEF Stamps, Brought
<1>2. InstallTypeOK'
  BY InstallAssumption, OrderFacts
     DEF InstallInv, InstallTypeOK, Stamps, Stampable, Unstamped, Nothing
<1>3. \A q \in Brought : parts[q] \subseteq {app}
  <2>1. \A i \in DOMAIN Order : i < installing
    BY OrderFacts DEF Stamps
  <2> QED BY <2>1, OrderFacts DEF InstallInv, PassedAreCurrent
<1> QED BY <1>1, <1>2, <1>3, OrderFacts
        DEF InstallInv, PassedAreCurrent, StampVouches, Stamps

(* An install that begins or ends, and a removal, take nothing for granted.*)
LEMMA InstallEdgesKeepInv ==
    ASSUME InstallInv, InstallStarts \/ InstallEnds \/ InstallRemoved
    PROVE  InstallInv'
<1>1. app' = app /\ Brought' = Brought
  BY DEF InstallStarts, InstallEnds, InstallRemoved, Brought
<1>2. CASE InstallStarts \/ InstallEnds
  <2>1. InstallTypeOK'
    BY <1>2, OrderFacts DEF InstallInv, InstallTypeOK, InstallStarts, InstallEnds, Nothing
  <2>2. \A i \in DOMAIN Order : ~(i < installing')
    BY <1>2, OrderFacts DEF InstallStarts, InstallEnds, Nothing
  <2>3. parts' = parts /\ stamp' = stamp
    BY <1>2 DEF InstallStarts, InstallEnds
  <2> QED BY <1>1, <2>1, <2>2, <2>3 DEF InstallInv, PassedAreCurrent, StampVouches
<1>3. CASE InstallRemoved
  <2>1. InstallTypeOK'
    BY <1>3, InstallAssumption DEF InstallInv, InstallTypeOK, InstallRemoved, Nothing
  <2>2. \A p \in Brought : parts'[p] = {}
    BY <1>3, OrderFacts DEF InstallRemoved
  <2> QED BY <1>1, <2>1, <2>2 DEF InstallInv, PassedAreCurrent, StampVouches
<1> QED BY <1>2, <1>3

(* What no install does leaves the parts and the stamp alone.              *)
LEMMA InstallUntouched ==
    ASSUME InstallInv, UNCHANGED installVars
    PROVE  InstallInv'
BY DEF InstallInv, InstallTypeOK, PassedAreCurrent, StampVouches, Brought, installVars

(* Every step of the helper, of the app and of an uninstall keeps it.      *)
LEMMA InstallNext ==
    ASSUME InstallInv, [Next]_vars
    PROVE  InstallInv'
<1>1. CASE Users
  BY <1>1, UpdatesKeepsInv, InstallEdgesKeepInv, InstallUntouched DEF Users, InstallBegins
<1>2. CASE Steps
  BY <1>2, CopiesKeepsInv, StampsKeepsInv, InstallEdgesKeepInv, InstallUntouched
     DEF Steps, Bootout, InstallFinishes
<1>3. CASE UNCHANGED vars
  BY <1>3, InstallUntouched DEF vars
<1> QED BY <1>1, <1>2, <1>3 DEF Next

(* The app never takes the parts in /Library for its own when some are of  *)
(* another version, whatever installs, updates and removals failed.        *)
THEOREM StampIsTrusted == Spec => []NotStaleMeansCurrent
<1>1. Init => InstallInv
  BY InstallInitInv DEF Init
<1>2. InstallInv => NotStaleMeansCurrent
  BY DEF InstallInv, StampVouches, NotStaleMeansCurrent, Stale
<1> QED BY <1>1, <1>2, InstallNext, PTL DEF Spec

-----------------------------------------------------------------------------
(* The DNS of the connections: the inductive invariant.                    *)

(* What a record, an operation or the primary service may name.            *)
Scopes == Conns \cup Domains \cup {None}
Records == {NoRecord} \cup [kind : {"helper", "resolver", "service"}, what : Scopes]
(* An operation under way names a domain, or servers that were read; one   *)
(* that is to be noted carries the record itself.                          *)
Places == {"request", "recording", "shell", "takeover", "unrequest", "unrecord", "undo"}
Notes == [at : {"note"}, what : Records \ {NoRecord}, heard : BOOLEAN]
Ops == {Idle} \cup [at : Places, what : Scopes, heard : BOOLEAN] \cup Notes
DnsTypeOK ==
    /\ op \in [Conns -> Ops]
    /\ files \in [Domains -> {None, "helper", "shell"}]
    /\ hrec \in [Conns -> Scopes]
    /\ grec \in [Conns -> Records]
    /\ servers \in Scopes

(* A connection answers for a file: a request has written it and will      *)
(* record it, or the record stands and no revert has just taken the file   *)
(* away.                                                                   *)
AccountsFor(c, d) ==
    \/ op[c].at = "recording" /\ op[c].what = d
    \/ op[c].at # "unrecord" /\ hrec[c] = d
(* The file half of NothingOutlivesUninstall, without the record of a      *)
(* revert that is between the file and its record: such a record names no  *)
(* file.                                                                   *)
FilesAccounted ==
    \A d \in Domains : files[d] = "helper" =>
        d \in stray \/ \E c \in Conns : AccountsFor(c, d)

(* What each place of an operation knows of the servers: those a takeover  *)
(* read, those a note names and those a record names are the user's own,   *)
(* or it is known that they were lost. A revert asked of the helper is of  *)
(* a record the helper stands for.                                         *)
Restorable(c) ==
    /\ op[c].at = "takeover" => op[c].what = None \/ taken
    /\ op[c].at = "note" /\ op[c].what.kind = "service" => op[c].what.what = None \/ taken
    /\ grec[c].kind = "service" => grec[c].what = None \/ taken
    /\ op[c].at \in {"unrequest", "unrecord"} => grec[c].kind = "helper"

(* The connection holds what brings the user's own servers back.           *)
Restores(c) ==
    \/ grec[c].kind = "service" /\ grec[c].what = None
    \/ op[c].at = "note" /\ op[c].what = Record("service", None)

ServersInv == ServersComeBack /\ \A c \in Conns : Restorable(c)
DnsInv == DnsTypeOK /\ FilesAccounted /\ ServersInv

(* The operations and records the actions build are of their types.        *)
LEMMA OpFacts ==
    /\ Idle \in Ops /\ Idle.at = "idle"
    /\ \A at \in Places, what \in Scopes :
          /\ Op(at, what) \in Ops
          /\ Op(at, what).at = at /\ Op(at, what).what = what /\ Op(at, what).heard
    /\ \A kind \in {"helper", "resolver", "service"}, what \in Scopes :
          /\ Record(kind, what) \in Records
          /\ Op("note", Record(kind, what)) \in Ops
          /\ Op("note", Record(kind, what)).at = "note"
          /\ Op("note", Record(kind, what)).what = Record(kind, what)
          /\ Record(kind, what).kind = kind /\ Record(kind, what).what = what
    /\ NoRecord \in Records /\ NoRecord.kind = "none"
BY DEF Idle, Ops, Op, Places, Notes, Record, Records, NoRecord

(* What an operation carries, by its place.                                *)
LEMMA OpKinds ==
    ASSUME NEW o \in Ops
    PROVE  /\ o.at \in Places => /\ o.what \in Scopes /\ o.heard \in BOOLEAN
                                 /\ \A p \in Places : /\ [o EXCEPT !.at = p] \in Ops
                                                      /\ [o EXCEPT !.at = p].at = p
                                                      /\ [o EXCEPT !.at = p].what = o.what
                                 /\ [o EXCEPT !.heard = FALSE] \in Ops
                                 /\ [o EXCEPT !.heard = FALSE].at = o.at
                                 /\ [o EXCEPT !.heard = FALSE].what = o.what
           /\ o.at = "note" => /\ o.what \in Records /\ o.heard \in BOOLEAN
                               /\ o.what # NoRecord
           /\ o.at \in Places \cup {"idle", "note"}
           /\ o.at = "idle" <=> o = Idle
<1>1. CASE o = Idle
  BY <1>1, OpFacts DEF Places
<1>2. CASE o \in [at : Places, what : Scopes, heard : BOOLEAN]
  <2>1. o.at # "idle" /\ o.at # "note"
    BY <1>2 DEF Places
  <2> QED BY <1>2, <2>1, OpFacts DEF Ops
<1>3. CASE o \in Notes
  BY <1>3, OpFacts DEF Notes, Places
<1> QED BY <1>1, <1>2, <1>3 DEF Ops

(* What a record names.                                                    *)
LEMMA RecordKinds ==
    ASSUME NEW r \in Records, r.kind # "none"
    PROVE  r.what \in Scopes /\ r.kind \in {"helper", "resolver", "service"}
BY DEF Records, NoRecord

(* Nothing is pointed anywhere at first.                                   *)
LEMMA InitDns == DnsInit => DnsInv
<1> SUFFICES ASSUME DnsInit PROVE DnsInv
  OBVIOUS
<1> USE OpFacts, DnsAssumption
<1>1. DnsTypeOK
  BY DEF DnsInit, DnsTypeOK, Scopes
<1>2. FilesAccounted
  BY DEF DnsInit, FilesAccounted
<1>3. ServersInv
  BY DEF DnsInit, ServersInv, ServersComeBack, Restorable
<1> QED BY <1>1, <1>2, <1>3 DEF DnsInv

(* Of the operations and records, at most this connection's change.        *)
Else(c) ==
    /\ \A e \in Conns : e # c => /\ op'[e] = op[e]
                                 /\ hrec'[e] = hrec[e] /\ grec'[e] = grec[e]

(* A step of one connection: it is enough to look at the files it had to   *)
(* answer for.                                                             *)
LEMMA FilesStep ==
    ASSUME FilesAccounted, NEW c \in Conns, Else(c),
           \A d \in Domains : files'[d] = "helper" =>
               \/ d \in stray' \/ AccountsFor(c, d)'
               \/ files[d] = "helper" /\ d \notin stray /\ ~AccountsFor(c, d)
    PROVE  FilesAccounted'
<1> SUFFICES ASSUME NEW d \in Domains, files'[d] = "helper"
             PROVE  d \in stray' \/ \E e \in Conns : AccountsFor(e, d)'
  BY DEF FilesAccounted
<1>1. CASE d \in stray' \/ AccountsFor(c, d)'
  BY <1>1
<1>2. CASE files[d] = "helper" /\ d \notin stray /\ ~AccountsFor(c, d)
  <2>1. PICK e \in Conns : AccountsFor(e, d)
    BY <1>2 DEF FilesAccounted
  <2>2. AccountsFor(e, d)'
    BY <1>2, <2>1 DEF Else, AccountsFor
  <2> QED BY <2>2
<1> QED BY <1>1, <1>2

(* A step of one connection: it is enough to see that it does not let go   *)
(* of what brings the servers back.                                        *)
LEMMA ServersStep ==
    ASSUME ServersInv, NEW c \in Conns, Else(c), taken => taken', Restorable(c)',
           servers' # None => \/ taken' \/ Restores(c)'
                              \/ servers # None /\ ~taken /\ ~Restores(c)
    PROVE  ServersInv'
<1>1. \A e \in Conns : Restorable(e)'
  BY DEF ServersInv, Else, Restorable
<1>2. ServersComeBack'
  <2> SUFFICES ASSUME servers' # None, ~taken'
               PROVE  \E e \in Conns : Restores(e)'
    BY DEF ServersComeBack, Restores
  <2>1. CASE Restores(c)'
    BY <2>1
  <2>2. CASE servers # None /\ ~taken /\ ~Restores(c)
    <3>1. PICK e \in Conns : Restores(e)
      BY <2>2 DEF ServersInv, ServersComeBack, Restores
    <3>2. Restores(e)'
      BY <2>2, <3>1 DEF Else, Restores
    <3> QED BY <3>2
  <2> QED BY <2>1, <2>2
<1> QED BY <1>1, <1>2 DEF ServersInv

(* dns::apply begins with what it read.                                    *)
LEMMA ConnectKeepsDns ==
    ASSUME DnsInv, NEW c \in Conns, NEW d \in Domains \cup {None}, NEW full \in BOOLEAN,
           Connect(c, d, full)
    PROVE  DnsInv'
<1> DEFINE scope == DnsScope(d, full)
           o == FirstStep(scope)
<1>1. /\ op' = [op EXCEPT ![c] = o] /\ op[c] = Idle
      /\ taken' = (taken \/ (scope = Everything /\ servers # None))
      /\ UNCHANGED <<files, hrec, grec, servers, stray>>
  BY DEF Connect
<1>2. scope \in Domains \cup {Everything, LeaveAlone}
  BY DEF DnsScope
<1>3. DnsTypeOK /\ servers \in Scopes
  BY DEF DnsInv, DnsTypeOK
<1>4. \/ o = Idle
      \/ o = Op("takeover", servers) /\ scope = Everything
      \/ o = Op("request", scope) /\ scope \in Domains
      \/ o = Op("shell", scope) /\ scope \in Domains
  BY <1>2 DEF FirstStep
<1>5. /\ o \in Ops
      /\ o.at \in {"idle", "takeover", "request", "shell"}
      /\ o.at = "takeover" => o.what = servers /\ scope = Everything
  BY <1>3, <1>4, OpFacts DEF Places, Scopes
<1> HIDE DEF scope, o
<1>6. Else(c) /\ op'[c] = o
  BY <1>1, <1>3 DEF Else, DnsTypeOK
<1>7. DnsTypeOK'
  BY <1>1, <1>3, <1>5 DEF DnsTypeOK
<1>8. FilesAccounted'
  <2>1. \A e \in Domains : AccountsFor(c, e) => AccountsFor(c, e)'
    BY <1>1, <1>5, <1>6, OpFacts DEF AccountsFor
  <2> QED BY <1>1, <1>6, <2>1, FilesStep DEF DnsInv, FilesAccounted
<1>9. ServersInv'
  <2>1. Restorable(c)'
    BY <1>1, <1>5, <1>6 DEF Restorable, DnsInv, ServersInv
  <2>2. Restores(c) => Restores(c)'
    BY <1>1, <1>6, OpFacts DEF Restores
  <2> QED BY <1>1, <1>6, <2>1, <2>2, ServersStep DEF DnsInv
<1> QED BY <1>7, <1>8, <1>9 DEF DnsInv

(* What leaves operations, files, records and servers alone.               *)
LEMMA DnsUntouched ==
    ASSUME DnsInv, UNCHANGED <<op, files, hrec, grec, servers, stray, taken>>
    PROVE  DnsInv'
<1>1. DnsTypeOK'
  BY DEF DnsInv, DnsTypeOK
<1>2. FilesAccounted'
  BY DEF DnsInv, FilesAccounted, AccountsFor
<1>3. ServersInv'
  BY DEF DnsInv, ServersInv, ServersComeBack, Restorable
<1> QED BY <1>1, <1>2, <1>3 DEF DnsInv

(* OpKinds for the operation of a connection.                              *)
LEMMA InHand ==
    ASSUME DnsTypeOK, NEW c \in Conns
    PROVE  /\ op[c].at \in Places => /\ op[c].what \in Scopes /\ op[c].heard \in BOOLEAN
                                     /\ \A p \in Places : /\ [op[c] EXCEPT !.at = p] \in Ops
                                                          /\ [op[c] EXCEPT !.at = p].at = p
                                                          /\ [op[c] EXCEPT !.at = p].what = op[c].what
                                     /\ [op[c] EXCEPT !.heard = FALSE] \in Ops
                                     /\ [op[c] EXCEPT !.heard = FALSE].at = op[c].at
                                     /\ [op[c] EXCEPT !.heard = FALSE].what = op[c].what
           /\ op[c].at = "note" => /\ op[c].what \in Records /\ op[c].heard \in BOOLEAN
                                   /\ op[c].what # NoRecord
           /\ op[c].at \in Places \cup {"idle", "note"}
           /\ op[c].at = "idle" <=> op[c] = Idle
<1>1. op[c] \in Ops
  BY DEF DnsTypeOK
<1> QED BY <1>1, OpKinds

(* One operation is replaced.                                              *)
LEMMA OpStep ==
    ASSUME DnsTypeOK, NEW c \in Conns, NEW o \in Ops, op' = [op EXCEPT ![c] = o]
    PROVE  /\ op' \in [Conns -> Ops] /\ op'[c] = o
           /\ \A e \in Conns : e # c => op'[e] = op[e]
BY DEF DnsTypeOK

(* One operation goes on, or ends when nobody hears it.                    *)
LEMMA ThenStep ==
    ASSUME DnsTypeOK, NEW c \in Conns, NEW o \in Ops, op' = Then(c, o)
    PROVE  /\ op' \in [Conns -> Ops] /\ op'[c] = IF op[c].heard THEN o ELSE Idle
           /\ \A e \in Conns : e # c => op'[e] = op[e]
<1> DEFINE p == IF op[c].heard THEN o ELSE Idle
<1>1. p \in Ops /\ op' = [op EXCEPT ![c] = p]
  BY OpFacts DEF Then
<1> HIDE DEF p
<1>2. op' \in [Conns -> Ops] /\ op'[c] = p /\ \A e \in Conns : e # c => op'[e] = op[e]
  BY <1>1, OpStep
<1> QED BY <1>2 DEF p

(* A revert begins by the kind of the record.                              *)
LEMMA DisconnectKeepsDns ==
    ASSUME DnsInv, NEW c \in Conns, Disconnect(c)
    PROVE  DnsInv'
<1>1. CASE UNCHANGED op
  BY <1>1, DnsUntouched DEF Disconnect
<1>2. ASSUME ~UNCHANGED op PROVE DnsInv'
  <2> DEFINE o == Op(IF grec[c].kind = "helper" THEN "unrequest" ELSE "undo", None)
  <2>1. /\ op' = [op EXCEPT ![c] = o] /\ op[c] = Idle
        /\ UNCHANGED <<files, hrec, grec, servers, stray, taken>>
    BY <1>2 DEF Disconnect
  <2>2. /\ o \in Ops /\ o.at \in {"unrequest", "undo"}
        /\ o.at = "unrequest" => grec[c].kind = "helper"
    BY OpFacts DEF Places, Scopes
  <2> HIDE DEF o
  <2>3. DnsTypeOK
    BY DEF DnsInv
  <2>4. op' \in [Conns -> Ops] /\ op'[c] = o /\ Else(c)
    BY <2>1, <2>2, <2>3, OpStep DEF Else
  <2>5. DnsTypeOK'
    BY <2>1, <2>3, <2>4 DEF DnsTypeOK
  <2>6. FilesAccounted'
    <3>1. \A d \in Domains : AccountsFor(c, d) => AccountsFor(c, d)'
      BY <2>1, <2>2, <2>4, OpFacts DEF AccountsFor
    <3> QED BY <2>1, <2>4, <3>1, FilesStep DEF DnsInv, FilesAccounted
  <2>7. ServersInv'
    <3>1. Restorable(c)'
      BY <2>1, <2>2, <2>4 DEF Restorable, DnsInv, ServersInv
    <3>2. Restores(c) => Restores(c)'
      BY <2>1, <2>4, OpFacts DEF Restores
    <3> QED BY <2>1, <2>4, <3>1, <3>2, ServersStep DEF DnsInv
  <2> QED BY <2>5, <2>6, <2>7 DEF DnsInv
<1> QED BY <1>1, <1>2

(* The request is given up, with nothing changed.                          *)
LEMMA UnreachableKeepsDns ==
    ASSUME DnsInv, NEW c \in Conns, Unreachable(c)
    PROVE  DnsInv'
<1>1. /\ op' = [op EXCEPT ![c] = Idle] /\ op[c].at \in {"request", "unrequest"}
      /\ UNCHANGED <<files, hrec, grec, servers, stray, taken>>
  BY DEF Unreachable
<1>2. DnsTypeOK
  BY DEF DnsInv
<1>3. op' \in [Conns -> Ops] /\ op'[c] = Idle /\ Else(c)
  BY <1>1, <1>2, OpFacts, OpStep DEF Else
<1>4. DnsTypeOK'
  BY <1>1, <1>2, <1>3 DEF DnsTypeOK
<1>5. FilesAccounted'
  <2>1. \A d \in Domains : AccountsFor(c, d) => AccountsFor(c, d)'
    BY <1>1, <1>3, OpFacts DEF AccountsFor
  <2> QED BY <1>1, <1>3, <2>1, FilesStep DEF DnsInv, FilesAccounted
<1>6. ServersInv'
  <2>1. Restorable(c)'
    BY <1>1, <1>3, OpFacts DEF Restorable, DnsInv, ServersInv
  <2>2. Restores(c) => Restores(c)'
    BY <1>1, <1>3, OpFacts DEF Restores
  <2> QED BY <1>1, <1>3, <2>1, <2>2, ServersStep DEF DnsInv
<1> QED BY <1>4, <1>5, <1>6 DEF DnsInv

(* The file comes with a request that will record it.                      *)
LEMMA HelperWritesKeepsDns ==
    ASSUME DnsInv, NEW c \in Conns, HelperWrites(c)
    PROVE  DnsInv'
<1>1. PICK o \in {[op[c] EXCEPT !.at = "recording"], Idle} :
        /\ op' = [op EXCEPT ![c] = o] /\ op[c].at = "request"
        /\ files' = IF o = Idle THEN files ELSE [files EXCEPT ![op[c].what] = "helper"]
        /\ UNCHANGED <<hrec, grec, servers, stray, taken>>
  <2>1. CASE op' = [op EXCEPT ![c] = Idle] /\ UNCHANGED files
    BY <2>1 DEF HelperWrites
  <2>2. CASE /\ op' = [op EXCEPT ![c].at = "recording"]
             /\ files' = [files EXCEPT ![op[c].what] = "helper"]
    <3>1. [op[c] EXCEPT !.at = "recording"] # Idle
      BY InHand, OpFacts DEF HelperWrites, DnsInv, Places
    <3> QED BY <2>2, <3>1 DEF HelperWrites
  <2> QED BY <2>1, <2>2 DEF HelperWrites
<1>2. DnsTypeOK
  BY DEF DnsInv
<1>3. /\ o \in Ops /\ o.at \in {"idle", "recording"}
      /\ o.at = "recording" => o.what = op[c].what /\ o # Idle
      /\ o.at = "idle" => o = Idle
  <2>1. "request" \in Places /\ "recording" \in Places
    BY DEF Places
  <2>2. CASE o = Idle
    BY <2>2, OpFacts
  <2>3. CASE o = [op[c] EXCEPT !.at = "recording"]
    <3>1. o \in Ops /\ o.at = "recording" /\ o.what = op[c].what
      BY <1>1, <1>2, <2>1, <2>3, InHand
    <3> QED BY <3>1, OpFacts
  <2> QED BY <1>1, <2>2, <2>3
<1>4. op' \in [Conns -> Ops] /\ op'[c] = o /\ Else(c)
  BY <1>1, <1>2, <1>3, OpStep DEF Else
<1>5. DnsTypeOK'
  BY <1>1, <1>2, <1>4 DEF DnsTypeOK
<1>6. FilesAccounted'
  <2> SUFFICES ASSUME NEW d \in Domains, files'[d] = "helper"
               PROVE  \/ d \in stray' \/ AccountsFor(c, d)'
                      \/ files[d] = "helper" /\ d \notin stray /\ ~AccountsFor(c, d)
    BY <1>4, FilesStep DEF DnsInv
  <2>1. AccountsFor(c, d) => AccountsFor(c, d)'
    BY <1>1, <1>3, <1>4, OpFacts DEF AccountsFor
  <2>2. CASE files[d] = "helper"
    BY <1>1, <2>1, <2>2
  <2>3. CASE files[d] # "helper"
    <3>1. o # Idle /\ d = op[c].what
      BY <1>1, <1>2, <2>3 DEF DnsTypeOK
    <3> QED BY <1>3, <1>4, <3>1 DEF AccountsFor
  <2> QED BY <2>2, <2>3
<1>7. ServersInv'
  <2>1. Restorable(c)'
    BY <1>1, <1>3, <1>4, OpFacts DEF Restorable, DnsInv, ServersInv
  <2>2. Restores(c) => Restores(c)'
    BY <1>1, <1>4, OpFacts DEF Restores
  <2> QED BY <1>1, <1>4, <2>1, <2>2, ServersStep DEF DnsInv
<1> QED BY <1>5, <1>6, <1>7 DEF DnsInv

(* The record takes over from the request; of its domain and the one that  *)
(* was recorded, what the record does not name then is a stray.            *)
LEMMA HelperRecordsKeepsDns ==
    ASSUME DnsInv, NEW c \in Conns, HelperRecords(c)
    PROVE  DnsInv'
<1> DEFINE o == Op("note", Record("helper", op[c].what))
<1>1. /\ op' = Then(c, o) /\ op[c].at = "recording"
      /\ UNCHANGED <<files, grec, servers, taken>>
  BY DEF HelperRecords
<1>0. PICK kept \in {op[c].what, hrec[c], None} :
           /\ hrec' = [hrec EXCEPT ![c] = kept]
           /\ stray' = (stray \cup {hrec[c], op[c].what}) \ {None, kept}
  BY DEF HelperRecords
<1>2. DnsTypeOK /\ op[c].what \in Scopes /\ kept \in Scopes
  <2>1. DnsTypeOK /\ op[c].what \in Scopes
    BY <1>1, InHand DEF DnsInv, Places
  <2>2. hrec[c] \in Scopes /\ None \in Scopes
    BY <2>1 DEF DnsTypeOK, Scopes
  <2> QED BY <2>1, <2>2
<1>3. /\ o \in Ops /\ o.at = "note"
      /\ o.what.kind = "helper"
  BY <1>2, OpFacts
<1> HIDE DEF o
<1>4. /\ op' \in [Conns -> Ops] /\ op'[c] \in {o, Idle}
      /\ \A e \in Conns : e # c => op'[e] = op[e]
  BY <1>1, <1>2, <1>3, ThenStep
<1>5. Else(c) /\ hrec'[c] = kept
  BY <1>1, <1>0, <1>2, <1>4 DEF Else, DnsTypeOK
<1>6. DnsTypeOK'
  BY <1>1, <1>0, <1>2, <1>4 DEF DnsTypeOK
<1>7. FilesAccounted'
  <2> SUFFICES ASSUME NEW d \in Domains, files[d] = "helper"
               PROVE  \/ d \in stray' \/ AccountsFor(c, d)'
                      \/ d \notin stray /\ ~AccountsFor(c, d)
    BY <1>1, <1>5, FilesStep DEF DnsInv
  <2>1. d # None
    BY DnsAssumption
  <2>2. CASE d = kept
    BY <1>3, <1>4, <1>5, <2>2, OpFacts DEF AccountsFor
  <2>3. CASE d # kept
    BY <1>1, <1>0, <2>1, <2>3 DEF AccountsFor
  <2> QED BY <2>2, <2>3
<1>8. ServersInv'
  <2>1. Restorable(c)'
    BY <1>1, <1>3, <1>4, OpFacts DEF Restorable, DnsInv, ServersInv
  <2>2. Restores(c) => Restores(c)'
    BY <1>1, <1>4 DEF Restores
  <2> QED BY <1>1, <1>5, <2>1, <2>2, ServersStep DEF DnsInv
<1> QED BY <1>6, <1>7, <1>8 DEF DnsInv

(* The note takes over from the operation; a takeover written over, or not *)
(* written, loses the servers.                                             *)
LEMMA NoteKeepsDns ==
    ASSUME DnsInv, NEW c \in Conns, Note(c)
    PROVE  DnsInv'
<1>1. /\ op' = [op EXCEPT ![c] = Idle] /\ op[c].at = "note"
      /\ UNCHANGED <<files, hrec, servers, stray>>
  BY DEF Note
<1>0. PICK kept \in {op[c].what, grec[c], NoRecord} :
           /\ grec' = [grec EXCEPT ![c] = kept]
           /\ taken' = (taken \/ \E r \in {op[c].what, grec[c]} \ {kept} : r.kind = "service")
  BY DEF Note
<1>2. DnsTypeOK /\ op[c].what \in Records /\ kept \in Records
  <2>1. DnsTypeOK /\ op[c].what \in Records
    BY <1>1, InHand DEF DnsInv
  <2>2. grec[c] \in Records /\ NoRecord \in Records
    BY <2>1, OpFacts DEF DnsTypeOK
  <2> QED BY <2>1, <2>2
<1>3. op' \in [Conns -> Ops] /\ op'[c] = Idle /\ Else(c) /\ grec'[c] = kept
  BY <1>1, <1>0, <1>2, OpFacts, OpStep DEF Else, DnsTypeOK
<1>4. DnsTypeOK'
  BY <1>1, <1>0, <1>2, <1>3 DEF DnsTypeOK
<1>5. FilesAccounted'
  <2>1. \A d \in Domains : AccountsFor(c, d) => AccountsFor(c, d)'
    BY <1>1, <1>3, OpFacts DEF AccountsFor
  <2> QED BY <1>1, <1>3, <2>1, FilesStep DEF DnsInv, FilesAccounted
<1>6. ServersInv'
  <2>1. /\ taken => taken'
        /\ grec[c].kind = "service" => taken' \/ kept = grec[c]
        /\ op[c].what.kind = "service" => taken' \/ kept = op[c].what
    BY <1>0
  <2>2. op'[c].at = "idle" /\ grec'[c] = kept
    BY <1>3, OpFacts
  <2>3. kept.kind = "service" => kept.what = None \/ taken
    BY <1>1, OpFacts DEF DnsInv, ServersInv, Restorable
  <2>4. Restorable(c)'
    BY <2>1, <2>2, <2>3 DEF Restorable
  <2>5. op[c].what = Record("service", None) => taken' \/ Restores(c)'
    BY <2>1, <2>2, OpFacts DEF Restores, Scopes
  <2>6. Restores(c) => taken' \/ Restores(c)'
    BY <2>1, <2>2, <2>5 DEF Restores
  <2>7. servers' # None => taken' \/ Restores(c)' \/ (servers # None /\ ~taken /\ ~Restores(c))
    BY <1>1, <2>1, <2>6
  <2> QED BY <1>3, <2>1, <2>4, <2>7, ServersStep DEF DnsInv
<1> QED BY <1>4, <1>5, <1>6 DEF DnsInv

(* The takeover carries the servers it read into the note, or nobody hears *)
(* of it and they are lost.                                                *)
LEMMA ShellWritesKeepsDns ==
    ASSUME DnsInv, NEW c \in Conns, ShellWrites(c)
    PROVE  DnsInv'
<1>1. DnsTypeOK /\ UNCHANGED <<hrec, grec, stray>> /\ (taken => taken')
  <2>1. DnsTypeOK /\ UNCHANGED <<hrec, grec, stray>>
    BY DEF DnsInv, ShellWrites
  <2>2. UNCHANGED taken \/ taken' = (taken \/ ~op[c].heard)
    BY DEF ShellWrites
  <2>3. ASSUME taken PROVE taken'
    <3>1. CASE UNCHANGED taken
      BY <2>3, <3>1, Zenon
    <3>2. CASE taken' = (taken \/ ~op[c].heard)
      BY <2>3, <3>2, Zenon
    <3> QED BY <2>2, <3>1, <3>2
  <2> QED BY <2>1, <2>3
<1>2. CASE /\ op[c].at = "shell"
           /\ files' = [files EXCEPT ![op[c].what] = "shell"]
           /\ op' = Then(c, Op("note", Record("resolver", op[c].what)))
           /\ UNCHANGED <<servers, taken>>
  <2> DEFINE o == Op("note", Record("resolver", op[c].what))
  <2>1. o \in Ops /\ o.at = "note" /\ o.what.kind = "resolver"
    <3>1. op[c].what \in Scopes
      BY <1>1, <1>2, InHand DEF Places
    <3> QED BY <3>1, OpFacts
  <2>2. op' = Then(c, o)
    BY <1>2
  <2> HIDE DEF o
  <2>3. /\ op' \in [Conns -> Ops] /\ op'[c] \in {o, Idle}
        /\ \A e \in Conns : e # c => op'[e] = op[e]
    BY <1>1, <2>1, <2>2, ThenStep
  <2>4. Else(c)
    BY <1>1, <2>3 DEF Else
  <2>5. DnsTypeOK'
    BY <1>1, <1>2, <2>3 DEF DnsTypeOK
  <2>6. FilesAccounted'
    <3>1. \A d \in Domains : AccountsFor(c, d) => AccountsFor(c, d)'
      BY <1>1, <1>2, <2>1, <2>3, OpFacts DEF AccountsFor
    <3>2. \A d \in Domains : files'[d] = "helper" => files[d] = "helper"
      BY <1>1, <1>2 DEF DnsTypeOK
    <3> QED BY <1>1, <2>4, <3>1, <3>2, FilesStep DEF DnsInv, FilesAccounted
  <2>7. ServersInv'
    <3>1. Restorable(c)'
      BY <1>1, <1>2, <2>1, <2>3, OpFacts DEF Restorable, DnsInv, ServersInv
    <3>2. Restores(c) => Restores(c)'
      BY <1>1, <1>2 DEF Restores
    <3> QED BY <1>1, <1>2, <2>4, <3>1, <3>2, ServersStep DEF DnsInv
  <2> QED BY <2>5, <2>6, <2>7 DEF DnsInv
<1>3. CASE /\ op[c].at = "takeover"
           /\ servers' = c
           /\ op' = Then(c, Op("note", Record("service", op[c].what)))
           /\ taken' = (taken \/ ~op[c].heard)
           /\ UNCHANGED files
  <2> DEFINE r == Record("service", op[c].what)
             o == Op("note", r)
  <2>1. /\ o \in Ops /\ o.at = "note" /\ o.what = r
        /\ r.kind = "service" /\ r.what = op[c].what
    <3>1. op[c].what \in Scopes
      BY <1>1, <1>3, InHand DEF Places
    <3> QED BY <3>1, OpFacts
  <2>2. op' = Then(c, o) /\ (op[c].what = None => r = Record("service", None))
    BY <1>3
  <2>3. op[c].what = None \/ taken
    BY <1>3 DEF DnsInv, ServersInv, Restorable
  <2> HIDE DEF o, r
  <2>4. /\ op' \in [Conns -> Ops] /\ op'[c] = (IF op[c].heard THEN o ELSE Idle)
        /\ \A e \in Conns : e # c => op'[e] = op[e]
    BY <1>1, <2>1, <2>2, ThenStep
  <2>5. Else(c) /\ op'[c] \in {o, Idle}
    BY <1>1, <2>4 DEF Else
  <2>6. DnsTypeOK'
    BY <1>1, <1>3, <2>4 DEF DnsTypeOK, Scopes
  <2>7. FilesAccounted'
    <3>1. \A d \in Domains : AccountsFor(c, d) => AccountsFor(c, d)'
      BY <1>1, <1>3, <2>1, <2>5, OpFacts DEF AccountsFor
    <3> QED BY <1>1, <1>3, <2>5, <3>1, FilesStep DEF DnsInv, FilesAccounted
  <2>8. ServersInv'
    <3>1. Restorable(c)'
      BY <1>1, <2>1, <2>3, <2>5, OpFacts DEF Restorable, DnsInv, ServersInv
    <3>2. taken' \/ Restores(c)'
      <4>1. CASE ~op[c].heard
        BY <1>3, <4>1
      <4>2. CASE op[c].heard
        BY <1>1, <2>1, <2>2, <2>3, <2>4, <4>2 DEF Restores
      <4> QED BY <4>1, <4>2
    <3> QED BY <1>1, <2>5, <3>1, <3>2, ServersStep DEF DnsInv
  <2> QED BY <2>6, <2>7, <2>8 DEF DnsInv
<1>4. CASE /\ op[c].at \in {"shell", "takeover"}
           /\ op' = [op EXCEPT ![c] = Idle]
           /\ UNCHANGED <<files, servers, taken>>
  <2>1. op' \in [Conns -> Ops] /\ op'[c] = Idle /\ Else(c)
    BY <1>1, <1>4, OpFacts, OpStep DEF Else
  <2>2. DnsTypeOK'
    BY <1>1, <1>4, <2>1 DEF DnsTypeOK
  <2>3. FilesAccounted'
    <3>1. \A d \in Domains : AccountsFor(c, d) => AccountsFor(c, d)'
      BY <1>1, <1>4, <2>1, OpFacts DEF AccountsFor
    <3> QED BY <1>1, <1>4, <2>1, <3>1, FilesStep DEF DnsInv, FilesAccounted
  <2>4. ServersInv'
    <3>1. Restorable(c)'
      BY <1>1, <1>4, <2>1, OpFacts DEF Restorable, DnsInv, ServersInv
    <3>2. Restores(c) => Restores(c)'
      BY <1>1, <1>4, <2>1 DEF Restores
    <3> QED BY <1>1, <1>4, <2>1, <3>1, <3>2, ServersStep DEF DnsInv
  <2> QED BY <2>2, <2>3, <2>4 DEF DnsInv
<1> QED BY <1>2, <1>3, <1>4 DEF ShellWrites

(* Reverted, field by field.                                               *)
LEMMA RevertedShape ==
    ASSUME DnsTypeOK, NEW c \in Conns, Reverted(c), UNCHANGED hrec
           \/ hrec' = [hrec EXCEPT ![c] = None]
    PROVE  /\ op' \in [Conns -> Ops] /\ op'[c] = Idle /\ Else(c)
           /\ grec' \in [Conns -> Records]
           /\ grec'[c] = IF op[c].heard THEN NoRecord ELSE grec[c]
<1>1. op' \in [Conns -> Ops] /\ op'[c] = Idle
      /\ \A e \in Conns : e # c => op'[e] = op[e]
  BY OpFacts, OpStep DEF Reverted
<1>2. /\ grec' \in [Conns -> Records]
      /\ grec'[c] = IF op[c].heard THEN NoRecord ELSE grec[c]
      /\ \A e \in Conns : e # c => grec'[e] = grec[e]
  BY OpFacts DEF Reverted, DnsTypeOK
<1>3. \A e \in Conns : e # c => hrec'[e] = hrec[e]
  BY DEF DnsTypeOK
<1> QED BY <1>1, <1>2, <1>3 DEF Else

(* The file goes before its record.                                        *)
LEMMA HelperRevertsKeepsDns ==
    ASSUME DnsInv, NEW c \in Conns, HelperReverts(c)
    PROVE  DnsInv'
<1>1. DnsTypeOK /\ UNCHANGED <<hrec, servers, taken>> /\ op[c].at = "unrequest"
  BY DEF DnsInv, HelperReverts
<1>2. grec[c].kind = "helper"
  BY <1>1 DEF DnsInv, ServersInv, Restorable
<1>3. CASE /\ hrec[c] # None
           /\ files' = [files EXCEPT ![hrec[c]] = None]
           /\ stray' = stray \ {hrec[c]}
           /\ op' = [op EXCEPT ![c].at = "unrecord"]
           /\ UNCHANGED <<grec, tunnel>>
  <2> DEFINE o == [op[c] EXCEPT !.at = "unrecord"]
  <2>1. o \in Ops /\ o.at = "unrecord"
    <3>1. "unrequest" \in Places /\ "unrecord" \in Places
      BY DEF Places
    <3> QED BY <1>1, <3>1, InHand
  <2>2. op' = [op EXCEPT ![c] = o]
    BY <1>3
  <2> HIDE DEF o
  <2>3. op' \in [Conns -> Ops] /\ op'[c] = o /\ Else(c)
    BY <1>1, <1>3, <2>1, <2>2, OpStep DEF Else
  <2>4. DnsTypeOK'
    BY <1>1, <1>3, <2>3 DEF DnsTypeOK
  <2>5. FilesAccounted'
    <3> SUFFICES ASSUME NEW d \in Domains, files'[d] = "helper"
                 PROVE  \/ d \in stray' \/ AccountsFor(c, d)'
                        \/ files[d] = "helper" /\ d \notin stray /\ ~AccountsFor(c, d)
      BY <2>3, FilesStep DEF DnsInv
    <3>1. d # hrec[c]
      BY <1>1, <1>3, DnsAssumption DEF DnsTypeOK
    <3>2. files[d] = "helper"
      BY <1>1, <1>3, <3>1 DEF DnsTypeOK
    <3>3. ~AccountsFor(c, d)
      BY <1>1, <3>1 DEF AccountsFor
    <3> QED BY <1>3, <3>1, <3>2, <3>3
  <2>6. ServersInv'
    <3>1. Restorable(c)'
      BY <1>1, <1>2, <1>3, <2>1, <2>3 DEF Restorable
    <3>2. ~Restores(c)
      BY <1>1, <1>2 DEF Restores
    <3> QED BY <1>1, <2>3, <3>1, <3>2, ServersStep DEF DnsInv, ServersInv, ServersComeBack
  <2> QED BY <2>4, <2>5, <2>6 DEF DnsInv
<1>4. CASE Reverted(c) /\ UNCHANGED <<files, stray>>
  <2>1. /\ op' \in [Conns -> Ops] /\ op'[c] = Idle /\ Else(c)
        /\ grec' \in [Conns -> Records]
        /\ grec'[c] = IF op[c].heard THEN NoRecord ELSE grec[c]
    BY <1>1, <1>4, RevertedShape
  <2>2. DnsTypeOK'
    BY <1>1, <1>4, <2>1 DEF DnsTypeOK
  <2>3. FilesAccounted'
    <3>1. \A d \in Domains : AccountsFor(c, d) => AccountsFor(c, d)'
      BY <1>1, <2>1, OpFacts DEF AccountsFor
    <3> QED BY <1>1, <1>4, <2>1, <3>1, FilesStep DEF DnsInv, FilesAccounted
  <2>4. ServersInv'
    <3>1. Restorable(c)'
      BY <1>1, <1>2, <2>1, OpFacts DEF Restorable
    <3>2. ~Restores(c)
      BY <1>1, <1>2 DEF Restores
    <3> QED BY <1>1, <2>1, <3>1, <3>2, ServersStep DEF DnsInv
  <2> QED BY <2>2, <2>3, <2>4 DEF DnsInv
<1> QED BY <1>3, <1>4 DEF HelperReverts

(* The record of a file that is gone.                                      *)
LEMMA HelperUnrecordsKeepsDns ==
    ASSUME DnsInv, NEW c \in Conns, HelperUnrecords(c)
    PROVE  DnsInv'
<1>1. /\ DnsTypeOK /\ UNCHANGED <<files, servers, stray, taken>> /\ op[c].at = "unrecord"
      /\ hrec' = [hrec EXCEPT ![c] = None]
  BY DEF DnsInv, HelperUnrecords
<1>2. grec[c].kind = "helper"
  BY <1>1 DEF DnsInv, ServersInv, Restorable
<1>3. /\ op' \in [Conns -> Ops] /\ op'[c] = Idle /\ Else(c)
      /\ grec' \in [Conns -> Records]
      /\ grec'[c] = IF op[c].heard THEN NoRecord ELSE grec[c]
  BY <1>1, RevertedShape DEF HelperUnrecords
<1>4. DnsTypeOK'
  BY <1>1, <1>3 DEF DnsTypeOK, Scopes
<1>5. FilesAccounted'
  <2>1. \A d \in Domains : ~AccountsFor(c, d)
    BY <1>1 DEF AccountsFor
  <2> QED BY <1>1, <1>3, <2>1, FilesStep DEF DnsInv
<1>6. ServersInv'
  <2>1. Restorable(c)'
    BY <1>1, <1>2, <1>3, OpFacts DEF Restorable
  <2>2. ~Restores(c)
    BY <1>1, <1>2 DEF Restores
  <2> QED BY <1>1, <1>3, <2>1, <2>2, ServersStep DEF DnsInv
<1> QED BY <1>4, <1>5, <1>6 DEF DnsInv

(* The servers come back, or are lost with the record when the user        *)
(* declines.                                                               *)
LEMMA ShellRevertsKeepsDns ==
    ASSUME DnsInv, NEW c \in Conns, ShellReverts(c)
    PROVE  DnsInv'
<1>1. /\ DnsTypeOK /\ UNCHANGED <<hrec, stray>> /\ op[c].at = "undo"
      /\ (taken => taken')
  <2>1. DnsTypeOK /\ UNCHANGED <<hrec, stray>> /\ op[c].at = "undo"
    BY DEF DnsInv, ShellReverts
  <2>2. \/ UNCHANGED taken
        \/ taken' = (taken \/ (op[c].heard /\ grec[c].kind = "service"))
    BY DEF ShellReverts
  <2>3. ASSUME taken PROVE taken'
    <3>1. CASE UNCHANGED taken
      BY <2>3, <3>1, Zenon
    <3>2. CASE taken' = (taken \/ (op[c].heard /\ grec[c].kind = "service"))
      BY <2>3, <3>2, Zenon
    <3> QED BY <2>2, <3>1, <3>2
  <2> QED BY <2>1, <2>3
<1>2. grec[c].kind = "service" => /\ grec[c].what = None \/ taken
                                  /\ grec[c].what \in Scopes
  BY <1>1, RecordKinds DEF DnsInv, DnsTypeOK, ServersInv, Restorable
<1>3. /\ op' \in [Conns -> Ops] /\ op'[c] = Idle /\ Else(c)
      /\ grec' \in [Conns -> Records]
      /\ grec'[c] = IF op[c].heard THEN NoRecord ELSE grec[c]
  BY <1>1, RevertedShape DEF ShellReverts
<1>4. /\ files' \in [Domains -> {None, "helper", "shell"}]
      /\ \A d \in Domains : files'[d] = "helper" => files[d] = "helper"
  BY <1>1, DnsAssumption DEF ShellReverts, DnsTypeOK
<1>5. servers' \in Scopes
  BY <1>1, <1>2 DEF ShellReverts, DnsTypeOK
<1>6. DnsTypeOK'
  BY <1>1, <1>3, <1>4, <1>5 DEF DnsTypeOK
<1>7. FilesAccounted'
  <2>1. \A d \in Domains : AccountsFor(c, d) => AccountsFor(c, d)'
    BY <1>1, <1>3, OpFacts DEF AccountsFor
  <2> QED BY <1>1, <1>3, <1>4, <2>1, FilesStep DEF DnsInv, FilesAccounted
<1>8. ServersInv'
  <2>1. Restorable(c)'
    BY <1>1, <1>2, <1>3, OpFacts DEF Restorable
  <2>2. servers' # None => \/ taken' \/ Restores(c)'
                           \/ servers # None /\ ~taken /\ ~Restores(c)
    <3>1. CASE grec[c].kind = "resolver" /\ UNCHANGED <<servers, taken>>
      BY <1>1, <3>1 DEF Restores
    <3>2. CASE grec[c].kind = "service" /\ servers' = grec[c].what
      BY <1>1, <1>2, <3>2
    <3>3. CASE /\ taken' = (taken \/ (op[c].heard /\ grec[c].kind = "service"))
               /\ UNCHANGED servers
      <4>1. op[c].heard /\ grec[c].kind = "service" => taken'
        BY <3>3
      <4>2. ~op[c].heard /\ Restores(c) => Restores(c)'
        BY <1>1, <1>3 DEF Restores
      <4>3. Restores(c) => taken' \/ Restores(c)'
        BY <1>1, <4>1, <4>2 DEF Restores
      <4> QED BY <1>1, <3>3, <4>3
    <3> QED BY <3>1, <3>2, <3>3 DEF ShellReverts
  <2> QED BY <1>1, <1>3, <2>1, <2>2, ServersStep DEF DnsInv
<1> QED BY <1>6, <1>7, <1>8 DEF DnsInv

(* A request killed between file and record, and a record removed with the *)
(* run directory, leave strays; nothing else loses its account.            *)
LEMMA HelperStopsKeepsDns ==
    ASSUME DnsInv, NEW state, NEW recs \in {hrec, [c \in Conns |-> None]},
           HelperStops(state, recs)
    PROVE  DnsInv'
<1>1. /\ DnsTypeOK /\ UNCHANGED <<files, grec, servers, taken>> /\ hrec' = recs
      /\ stray' = stray \cup Recording \cup (Recorded(hrec) \ Recorded(recs))
      /\ op' = [c \in Conns |->
                  IF op[c].at \in {"recording", "unrecord"} THEN Idle ELSE op[c]]
  BY DEF DnsInv, HelperStops
<1>2. /\ op' \in [Conns -> Ops]
      /\ \A c \in Conns : op'[c] = IF op[c].at \in {"recording", "unrecord"}
                                   THEN Idle ELSE op[c]
  BY <1>1, OpFacts DEF DnsTypeOK
<1>3. /\ recs \in [Conns -> Scopes]
      /\ recs = hrec \/ Recorded(recs) = {}
  BY <1>1 DEF DnsTypeOK, Scopes, Recorded
<1>4. DnsTypeOK'
  BY <1>1, <1>2, <1>3 DEF DnsTypeOK
<1>5. FilesAccounted'
  <2> SUFFICES ASSUME NEW d \in Domains, files[d] = "helper"
               PROVE  d \in stray' \/ \E c \in Conns : AccountsFor(c, d)'
    BY <1>1 DEF FilesAccounted
  <2>1. CASE d \in stray
    BY <1>1, <2>1
  <2>2. CASE d \notin stray
    <3>1. PICK c \in Conns : AccountsFor(c, d)
      BY <2>2 DEF DnsInv, FilesAccounted
    <3>2. CASE op[c].at = "recording" /\ op[c].what = d
      BY <1>1, <3>2 DEF Recording
    <3>3. CASE op[c].at \notin {"recording", "unrecord"} /\ hrec[c] = d
      <4>1. CASE recs = hrec
        BY <1>1, <1>2, <3>3, <4>1 DEF AccountsFor
      <4>2. CASE Recorded(recs) = {}
        <5>1. d \in Recorded(hrec)
          BY <3>3, DnsAssumption DEF Recorded
        <5> QED BY <1>1, <4>2, <5>1
      <4> QED BY <1>3, <4>1, <4>2
    <3>4. CASE op[c].at = "recording" /\ hrec[c] = d
      <4>1. CASE recs = hrec
        BY <1>1, <1>2, <3>4, <4>1, OpFacts DEF AccountsFor
      <4>2. CASE Recorded(recs) = {}
        <5>1. d \in Recorded(hrec)
          BY <3>4, DnsAssumption DEF Recorded
        <5> QED BY <1>1, <4>2, <5>1
      <4> QED BY <1>3, <4>1, <4>2
    <3> QED BY <3>1, <3>2, <3>3, <3>4 DEF AccountsFor
  <2> QED BY <2>1, <2>2
<1>6. ServersInv'
  <2>1. ASSUME NEW c \in Conns PROVE Restorable(c)'
    BY <1>1, <1>2, OpFacts DEF Restorable, DnsInv, ServersInv
  <2>2. ServersComeBack'
    BY <1>1, <1>2 DEF ServersComeBack, DnsInv, ServersInv
  <2> QED BY <2>1, <2>2 DEF ServersInv
<1> QED BY <1>4, <1>5, <1>6 DEF DnsInv

(* A note that dies with the app loses the servers it names.               *)
LEMMA AppDiesKeepsDns ==
    ASSUME DnsInv, AppDies
    PROVE  DnsInv'
<1>1. /\ DnsTypeOK /\ UNCHANGED <<files, hrec, grec, servers, stray>>
      /\ taken' = (taken \/ \E c \in Conns :
                            op[c].at = "note" /\ op[c].what.kind = "service")
      /\ op' = [c \in Conns |-> IF op[c].at \in {"idle", "note"} THEN Idle
                                ELSE [op[c] EXCEPT !.heard = FALSE]]
  BY DEF DnsInv, AppDies
<1>2. (taken => taken') /\ \A c \in Conns : op[c].at = "note" /\ op[c].what.kind = "service" => taken'
  BY <1>1
<1>3. ASSUME NEW c \in Conns
      PROVE  /\ op'[c] \in Ops
             /\ \/ op[c].at \in {"idle", "note"} /\ op'[c].at = "idle"
                \/ op[c].at \in Places /\ op'[c].at = op[c].at /\ op'[c].what = op[c].what
  <2>1. CASE op[c].at \in {"idle", "note"}
    BY <1>1, <2>1, OpFacts
  <2>2. CASE op[c].at \notin {"idle", "note"}
    <3>1. op[c].at \in Places /\ op'[c] = [op[c] EXCEPT !.heard = FALSE]
      BY <1>1, <2>2, InHand
    <3> QED BY <1>1, <3>1, InHand
  <2> QED BY <2>1, <2>2
<1>4. DnsTypeOK'
  <2>1. op' \in [Conns -> Ops]
    BY <1>1, <1>3
  <2> QED BY <1>1, <2>1 DEF DnsTypeOK
<1>5. FilesAccounted'
  <2>1. ASSUME NEW c \in Conns, NEW d \in Domains, AccountsFor(c, d)
        PROVE  AccountsFor(c, d)'
    BY <1>1, <1>3, <2>1 DEF AccountsFor
  <2> QED BY <1>1, <2>1 DEF FilesAccounted, DnsInv
<1>6. ServersInv'
  <2>1. ASSUME NEW c \in Conns PROVE Restorable(c)'
    <3>1. Restorable(c)
      BY DEF DnsInv, ServersInv
    <3>2. op[c].at \in Places => op[c].at # "note"
      BY DEF Places
    <3> QED BY <1>1, <1>2, <1>3, <3>1, <3>2 DEF Restorable
  <2>2. ServersComeBack'
    <3> SUFFICES ASSUME servers # None, ~taken'
                 PROVE  \E c \in Conns : Restores(c)'
      BY <1>1 DEF ServersComeBack, Restores
    <3>1. PICK c \in Conns : Restores(c)
      BY <1>2 DEF DnsInv, ServersInv, ServersComeBack, Restores
    <3>2. ~(op[c].at = "note" /\ op[c].what = Record("service", None))
      BY <1>2 DEF Record
    <3> QED BY <1>1, <3>1, <3>2 DEF Restores
  <2> QED BY <2>1, <2>2 DEF ServersInv
<1> QED BY <1>4, <1>5, <1>6 DEF DnsInv

(* Only files the records name go with the records; one that stays is a    *)
(* stray.                                                                  *)
LEMMA PurgeDnsKeepsDns ==
    ASSUME DnsInv, PurgeDns
    PROVE  DnsInv'
<1>1. /\ DnsTypeOK /\ UNCHANGED <<op, grec, servers, taken>>
      /\ hrec' = [c \in Conns |-> None]
  BY DEF DnsInv, PurgeDns
<1>0. PICK kept \in SUBSET {d \in Recorded(hrec) : files[d] # None} :
           /\ files' = [d \in Domains |->
                           IF d \in Recorded(hrec) \ kept THEN None ELSE files[d]]
           /\ stray' = (stray \ Recorded(hrec)) \cup kept
  BY DEF PurgeDns
<1>2. DnsTypeOK'
  BY <1>1, <1>0 DEF DnsTypeOK, Scopes
<1>3. FilesAccounted'
  <2> SUFFICES ASSUME NEW d \in Domains, files'[d] = "helper", d \notin stray'
               PROVE  \E c \in Conns : AccountsFor(c, d)'
    BY DEF FilesAccounted
  <2>1. d \notin Recorded(hrec) /\ files[d] = "helper" /\ d \notin stray
    BY <1>0, DnsAssumption
  <2>2. PICK c \in Conns : AccountsFor(c, d)
    BY <2>1 DEF DnsInv, FilesAccounted
  <2>3. hrec[c] # d
    BY <2>1, DnsAssumption DEF Recorded
  <2> QED BY <1>1, <2>2, <2>3 DEF AccountsFor
<1>4. ServersInv'
  BY <1>1 DEF ServersInv, ServersComeBack, Restorable, DnsInv
<1> QED BY <1>2, <1>3, <1>4 DEF DnsInv

(* One step of one connection's operation.                                 *)
LEMMA DnsStepKeepsDns ==
    ASSUME DnsInv, DnsStep
    PROVE  DnsInv'
BY UnreachableKeepsDns, HelperWritesKeepsDns, HelperRecordsKeepsDns, ShellWritesKeepsDns,
   NoteKeepsDns, HelperRevertsKeepsDns, HelperUnrecordsKeepsDns, ShellRevertsKeepsDns
   DEF DnsStep

(* Every step of the system keeps it.                                      *)
LEMMA DnsNext ==
    ASSUME DnsInv, [Next]_vars
    PROVE  DnsInv'
<1>1. CASE UNCHANGED <<op, files, hrec, grec, servers, stray, taken>>
  BY <1>1, DnsUntouched
<1>2. CASE Users
  <2>1. ASSUME NEW c \in Conns, NEW d \in Domains \cup {None}, NEW full \in BOOLEAN,
               Connect(c, d, full)
        PROVE  DnsInv'
    BY <2>1, ConnectKeepsDns
  <2>2. ASSUME NEW c \in Conns, Dropped(c) \/ Disconnect(c)
        PROVE  DnsInv'
    BY <2>2, DnsUntouched, DisconnectKeepsDns DEF Dropped
  <2>3. CASE HelperCrashes
    BY <2>3, HelperStopsKeepsDns DEF HelperCrashes, HelperGone
  <2>4. CASE InstallBegins
    BY <1>1, <2>4, HelperStopsKeepsDns DEF InstallBegins, HelperGone, dnsVars
  <2>5. CASE AppDies
    BY <2>5, AppDiesKeepsDns
  <2> QED BY <1>1, <1>2, <2>1, <2>2, <2>3, <2>4, <2>5 DEF Users, dnsVars
<1>3. CASE Steps
  <2>1. CASE DnsStep
    BY <2>1, DnsStepKeepsDns
  <2>2. CASE PurgeDns
    BY <2>2, PurgeDnsKeepsDns
  <2>3. CASE Bootout
    BY <2>3, HelperStopsKeepsDns DEF Bootout, HelperGone
  <2>4. CASE HelperRuns({"down"})
    BY <1>1, <2>4 DEF HelperRuns
  <2>5. CASE InstallFinishes
    BY <1>1, <2>5 DEF InstallFinishes, HelperRuns
  <2> QED BY <1>1, <1>3, <2>1, <2>2, <2>3, <2>4, <2>5 DEF Steps, dnsVars
<1>4. CASE UNCHANGED vars
  BY <1>1, <1>4 DEF vars, dnsVars
<1> QED BY <1>2, <1>3, <1>4 DEF Next

-----------------------------------------------------------------------------
(* The sweep of an uninstall, and the theorems.                            *)

(* A charon that runs, and whose child it is.                              *)
Running == [at : {"coming", "listening", "deaf"}, by : {"helper", "shell"}]
HelperTypeOK ==
    /\ charon \in [Charons -> {Stopped} \cup Running]
    /\ vici \in Charons \cup {None}
    /\ ssl \in [SslNames -> {"none", "launching", "replacing", "listed", "closing"}]
    /\ starting \in [Starters -> {"idle", "asked", "launch", "prompt"}]

(* Every openvpn there is slipped past the sweep.                          *)
SslSwept ==
    /\ orphans \subseteq loose
    /\ \A n \in SslNames : ssl[n] # "none" => n \in loose

(* So did every charon, but those of the app's own shell.                  *)
CharonSwept == \A p \in Charons : Alive(p) => charon[p].by = "shell" \/ p \in loose

(* What each stage of the uninstall has established and the later ones     *)
(* keep, with the helper still serving requests until it is booted out.    *)
Sweeping ==
    /\ removal # "none" => SslSwept
    /\ removal \in {"charon", "files"} => CharonSwept
    /\ helper = "gone" =>
         /\ removal = "none"
         /\ orphans \subseteq loose /\ CharonSwept
         /\ \A n \in SslNames : ssl[n] = "none"
         /\ \A s \in Starters : starting[s] # "launch"

HelperInv == HelperTypeOK /\ Sweeping

(* Nothing runs at first and nothing is being removed.                     *)
LEMMA InitHelper == Init => HelperInv
<1> SUFFICES ASSUME Init PROVE HelperInv
  OBVIOUS
<1>1. HelperTypeOK
  BY DEF Init, HelperTypeOK, Stopped, Starters
<1>2. Sweeping
  BY DEF Init, DnsInit, Sweeping
<1> QED BY <1>1, <1>2 DEF HelperInv

(* What leaves the processes alone and does not remove the helper.         *)
LEMMA HelperUntouched ==
    ASSUME HelperInv, UNCHANGED helperVars, helper' = "gone" => helper = "gone"
    PROVE  HelperInv'
BY DEF HelperInv, HelperTypeOK, Sweeping, SslSwept, CharonSwept, Alive, helperVars

(* A start moves on; only a helper that serves lets it launch.             *)
LEMMA StartsKeepHelper ==
    ASSUME HelperInv, UNCHANGED helper,
           NEW s \in Starters, NEW place \in {"idle", "asked", "launch", "prompt"},
           starting' = [starting EXCEPT ![s] = place], place = "launch" => Serving,
           UNCHANGED <<charon, vici, stopping, ssl, orphans, removal, loose>>
    PROVE  HelperInv'
<1>1. HelperTypeOK'
  BY DEF HelperInv, HelperTypeOK
<1>2. SslSwept' = SslSwept /\ CharonSwept' = CharonSwept
  BY DEF SslSwept, CharonSwept, Alive
<1>3. helper = "gone" => \A t \in Starters : starting'[t] # "launch"
  BY DEF HelperInv, HelperTypeOK, Sweeping, Serving
<1>4. Sweeping'
  BY <1>2, <1>3 DEF HelperInv, Sweeping
<1> QED BY <1>1, <1>4 DEF HelperInv

(* A charon launched during an uninstall is behind its back.               *)
LEMMA LaunchKeepsHelper ==
    ASSUME HelperInv, UNCHANGED helper, NEW s \in Starters, NEW parent \in {"helper", "shell"},
           Launch(s, parent), parent = "helper" => starting[s] = "launch"
    PROVE  HelperInv'
<1>1. CASE UNCHANGED <<charon, loose>>
  BY <1>1, StartsKeepHelper DEF Launch
<1>2. ASSUME NEW p \in Charons, ~Alive(p),
             charon' = [charon EXCEPT ![p] = [at |-> "coming", by |-> parent]],
             loose' = IF {q \in Charons : Alive(q)} # {} \/ removal # "none"
                      THEN loose \cup {q \in Charons : Alive(q)} \cup {p} ELSE loose
      PROVE  HelperInv'
  <2>1. /\ starting' = [starting EXCEPT ![s] = "idle"]
        /\ UNCHANGED <<vici, stopping, ssl, orphans, removal>>
    BY DEF Launch
  <2>2. [at |-> "coming", by |-> parent] \in Running
    BY DEF Running
  <2>3. HelperTypeOK'
    BY <1>2, <2>1, <2>2 DEF HelperInv, HelperTypeOK
  <2>4. loose \subseteq loose' /\ (removal # "none" => p \in loose')
    BY <1>2
  <2>5. SslSwept => SslSwept'
    BY <2>1, <2>4 DEF SslSwept
  <2>6. /\ charon'[p].by = parent
        /\ \A q \in Charons : q # p => charon'[q] = charon[q]
    BY <1>2 DEF HelperInv, HelperTypeOK
  <2>7. CharonSwept /\ (parent = "shell" \/ p \in loose') => CharonSwept'
    BY <2>4, <2>6 DEF CharonSwept, Alive
  <2>8. helper = "gone" => parent = "shell"
    BY DEF HelperInv, Sweeping
  <2>9. \A t \in Starters : starting'[t] = starting[t] \/ starting'[t] = "idle"
    BY <2>1 DEF HelperInv, HelperTypeOK
  <2>10. Sweeping'
    BY <2>1, <2>4, <2>5, <2>7, <2>8, <2>9 DEF HelperInv, Sweeping
  <2> QED BY <2>3, <2>10 DEF HelperInv
<1> QED BY <1>1, <1>2 DEF Launch

(* A charon changes its state, not its parent.                             *)
LEMMA CharonStep ==
    ASSUME HelperInv, NEW p \in Charons, NEW q \in {Stopped} \cup Running,
           charon' = [charon EXCEPT ![p] = q], q # Stopped => Alive(p) /\ q.by = charon[p].by
    PROVE  /\ charon' \in [Charons -> {Stopped} \cup Running]
           /\ \A r \in Charons : charon'[r] # Stopped =>
                 Alive(r) /\ charon'[r].by = charon[r].by
BY DEF HelperInv, HelperTypeOK, Alive

(* No charon that was not there, and none of another parent.               *)
LEMMA CharonKeepsHelper ==
    ASSUME HelperInv, UNCHANGED <<helper, ssl, orphans, removal, loose, starting>>,
           vici' \in Charons \cup {None},
           charon' \in [Charons -> {Stopped} \cup Running],
           \A r \in Charons : charon'[r] # Stopped =>
              Alive(r) /\ charon'[r].by = charon[r].by
    PROVE  HelperInv'
<1>1. HelperTypeOK'
  BY DEF HelperInv, HelperTypeOK
<1>2. CharonSwept => CharonSwept'
  BY DEF CharonSwept, Alive
<1>3. SslSwept => SslSwept'
  BY DEF SslSwept
<1>4. Sweeping'
  BY <1>2, <1>3 DEF HelperInv, Sweeping
<1> QED BY <1>1, <1>4 DEF HelperInv

(* SIGTERM stops the charon behind the socket.                             *)
LEMMA TerminatedShape ==
    ASSUME HelperInv, vici # None, Terminated
    PROVE  /\ vici' \in Charons \cup {None}
           /\ charon' \in [Charons -> {Stopped} \cup Running]
           /\ \A r \in Charons : charon'[r] # Stopped =>
                 Alive(r) /\ charon'[r].by = charon[r].by
<1>1. vici \in Charons
  BY DEF HelperInv, HelperTypeOK
<1>2. PICK v \in Charons : v = vici
  BY <1>1
<1>3. charon' = [charon EXCEPT ![v] = Stopped]
  BY <1>2 DEF Terminated
<1> QED BY <1>3, CharonStep DEF Terminated

(* A charon that comes up listens, is deaf or ends.                        *)
LEMMA BindsKeepsHelper ==
    ASSUME HelperInv, UNCHANGED helper, NEW p \in Charons, Binds(p)
    PROVE  HelperInv'
<1>1. charon[p] \in Running /\ Alive(p)
  BY DEF HelperInv, HelperTypeOK, Binds, Alive
<1>2. \A at \in {"listening", "deaf"} :
         /\ [charon[p] EXCEPT !.at = at] \in Running
         /\ [charon[p] EXCEPT !.at = at].by = charon[p].by
  BY <1>1 DEF Running
<1>3. PICK q \in {Stopped} \cup Running :
         /\ charon' = [charon EXCEPT ![p] = q]
         /\ q # Stopped => q.by = charon[p].by
  <2>1. \/ charon' = [charon EXCEPT ![p] = Stopped]
        \/ \E at \in {"listening", "deaf"} : charon' = [charon EXCEPT ![p].at = at]
    BY DEF Binds
  <2> QED BY <1>2, <2>1
<1>4. vici' \in Charons \cup {None}
  BY DEF Binds, HelperInv, HelperTypeOK
<1> QED BY <1>1, <1>3, <1>4, CharonStep, CharonKeepsHelper DEF Binds

(* release_daemon_when_idle stops at most one charon.                      *)
LEMMA StopIdleKeepsHelper ==
    ASSUME HelperInv, UNCHANGED helper, StopIdle
    PROVE  HelperInv'
<1>1. UNCHANGED <<starting, ssl, orphans, removal, loose>>
  BY DEF StopIdle
<1>2. CASE vici # None /\ Terminated
  BY <1>1, <1>2, TerminatedShape, CharonKeepsHelper
<1>3. CASE UNCHANGED <<charon, vici>>
  BY <1>1, <1>3, CharonKeepsHelper DEF HelperInv, HelperTypeOK, Alive
<1> QED BY <1>2, <1>3 DEF StopIdle

(* An openvpn that is started during an uninstall is behind its back.      *)
LEMMA SslKeepsHelper ==
    ASSUME HelperInv, UNCHANGED helper, NEW n \in SslNames,
           SslConnect(n) \/ SslMoves(n) \/ SslDisconnect(n)
    PROVE  HelperInv'
<1>1. PICK s \in {"none", "launching", "replacing", "listed", "closing"} :
         ssl' = [ssl EXCEPT ![n] = s]
  <2>1. CASE SslConnect(n)
    BY <2>1 DEF SslConnect
  <2>2. CASE SslMoves(n)
    BY <2>2 DEF SslMoves
  <2>3. CASE SslDisconnect(n)
    BY <2>3 DEF SslDisconnect
  <2> QED BY <2>1, <2>2, <2>3
<1>2. UNCHANGED <<charon, vici, starting, stopping, orphans, removal>>
  BY DEF SslConnect, SslMoves, SslDisconnect
<1>3. /\ loose \subseteq loose'
      /\ removal # "none" => ssl[n] # "none" \/ n \in loose'
      /\ helper = "gone" => ssl[n] # "none"
  BY DEF SslConnect, SslMoves, SslDisconnect, Serving
<1>4. /\ ssl' \in [SslNames -> {"none", "launching", "replacing", "listed", "closing"}]
      /\ \A m \in SslNames : m # n => ssl'[m] = ssl[m]
  BY <1>1 DEF HelperInv, HelperTypeOK
<1>5. HelperTypeOK'
  BY <1>2, <1>4 DEF HelperInv, HelperTypeOK
<1>6. removal # "none" /\ SslSwept => SslSwept'
  BY <1>2, <1>3, <1>4 DEF SslSwept
<1>7. CharonSwept => CharonSwept'
  BY <1>2, <1>3 DEF CharonSwept, Alive
<1>8. helper # "gone"
  BY <1>3 DEF HelperInv, Sweeping
<1>9. Sweeping'
  BY <1>2, <1>6, <1>7, <1>8 DEF HelperInv, Sweeping
<1> QED BY <1>5, <1>9 DEF HelperInv

(* The helper stops: what its crash orphans it had listed, and what the    *)
(* last stage of an uninstall leaves was swept.                            *)
LEMMA HelperGoneKeepsHelper ==
    ASSUME HelperInv, NEW state, NEW recs, HelperGone(state, recs),
           UNCHANGED <<charon, vici, loose>>,
           \/ removal' = removal /\ state # "gone"
           \/ removal = "files" /\ removal' = "none"
    PROVE  HelperInv'
<1>1. /\ helper' = state
      /\ ssl' = [n \in SslNames |-> "none"]
      /\ starting' = [s \in Starters |-> IF starting[s] = "launch" \/ s = "boot"
                                         THEN "idle" ELSE starting[s]]
  BY DEF HelperGone, HelperStops
<1>2. HelperTypeOK'
  BY <1>1 DEF HelperInv, HelperTypeOK
<1>3. CharonSwept' = CharonSwept
  BY DEF CharonSwept, Alive
<1>4. \A n \in SslNames : ssl'[n] = "none"
  BY <1>1
<1>5. \A s \in Starters : starting'[s] # "launch"
  BY <1>1
<1>6. SslSwept => SslSwept'
  <2> SUFFICES ASSUME SslSwept PROVE orphans' \subseteq loose
    BY <1>4 DEF SslSwept
  <2> QED BY DEF HelperGone, SslSwept
<1>7. Sweeping'
  <2>1. CASE removal' = removal /\ state # "gone"
    BY <1>1, <1>3, <1>6, <2>1 DEF HelperInv, Sweeping
  <2>2. CASE removal = "files" /\ removal' = "none"
    <3>1. SslSwept' /\ CharonSwept'
      BY <1>3, <1>6, <2>2 DEF HelperInv, Sweeping
    <3> QED BY <1>4, <1>5, <2>2, <3>1 DEF Sweeping, SslSwept
  <2> QED BY <2>1, <2>2
<1> QED BY <1>2, <1>7 DEF HelperInv

(* A helper comes back only when nothing is being removed.                 *)
LEMMA HelperRunsKeepsHelper ==
    ASSUME HelperInv, NEW from, HelperRuns(from)
    PROVE  HelperInv'
<1>1. HelperTypeOK'
  BY DEF HelperInv, HelperTypeOK, HelperRuns, Starters
<1>2. Sweeping'
  BY DEF HelperRuns, Sweeping
<1> QED BY <1>1, <1>2 DEF HelperInv

(* kill_our_openvpn and charon_stop establish the two sweeps.              *)
LEMMA RemovalKeepsHelper ==
    ASSUME HelperInv, UNCHANGED helper, RemoveOpenvpn \/ RemoveCharon
    PROVE  HelperInv'
<1>1. CASE RemoveOpenvpn
  <2>1. PICK left \in SUBSET SslNames :
          /\ ssl' = [n \in SslNames |-> IF n \in left THEN ssl[n] ELSE "none"]
          /\ orphans' = orphans \cap left
          /\ loose' = (loose \ SslNames) \cup left
    BY <1>1 DEF RemoveOpenvpn, KillOurOpenvpn
  <2>2. HelperTypeOK'
    BY <1>1, <2>1 DEF HelperInv, HelperTypeOK, RemoveOpenvpn
  <2>3. SslSwept'
    BY <2>1 DEF SslSwept
  <2> QED BY <1>1, <2>2, <2>3 DEF HelperInv, Sweeping, RemoveOpenvpn
<1>2. CASE RemoveCharon
  <2>1. /\ removal = "openvpn" /\ removal' = "charon"
        /\ loose' = loose \cup {p \in Charons : charon'[p] # Stopped}
        /\ UNCHANGED <<starting, stopping, ssl, orphans>>
    BY <1>2 DEF RemoveCharon
  <2>2. vici' \in Charons \cup {None} /\ charon' \in [Charons -> {Stopped} \cup Running]
    BY <1>2, TerminatedShape DEF RemoveCharon, HelperInv, HelperTypeOK
  <2>3. HelperTypeOK'
    BY <2>1, <2>2 DEF HelperInv, HelperTypeOK
  <2>4. SslSwept' /\ CharonSwept' /\ helper # "gone"
    BY <2>1 DEF HelperInv, Sweeping, SslSwept, CharonSwept, Alive
  <2> QED BY <2>1, <2>3, <2>4 DEF HelperInv, Sweeping
<1> QED BY <1>1, <1>2

(* purge_dns keeps them.                                                   *)
LEMMA PurgeKeepsHelper ==
    ASSUME HelperInv, PurgeDns
    PROVE  HelperInv'
<1>1. /\ removal = "charon" /\ removal' = "files"
      /\ UNCHANGED <<helper, charon, vici, starting, stopping, ssl, orphans, loose>>
  BY DEF PurgeDns
<1> QED BY <1>1 DEF HelperInv, HelperTypeOK, Sweeping, SslSwept, CharonSwept, Alive

(* No operation on a connection's DNS changes the helper's own state.      *)
LEMMA DnsLeavesHelper ==
    ASSUME \/ DnsStep \/ AppDies
           \/ \E c \in Conns : Dropped(c) \/ Disconnect(c)
           \/ \E c \in Conns, d \in Domains \cup {None}, full \in BOOLEAN : Connect(c, d, full)
    PROVE  UNCHANGED helper
BY DEF DnsStep, AppDies, Dropped, Disconnect, Connect, Unreachable, HelperWrites,
       HelperRecords, ShellWrites, Note, HelperReverts, HelperUnrecords, ShellReverts

(* Every step of the system keeps it.                                      *)
LEMMA HelperNext ==
    ASSUME HelperInv, [Next]_vars
    PROVE  HelperInv'
<1>1. CASE UNCHANGED <<dnsVars, helperVars>>
  BY <1>1, HelperUntouched DEF dnsVars
<1>2. CASE Users
  <2>1. ASSUME UNCHANGED helperVars,
               \/ AppDies
               \/ \E c \in Conns : Dropped(c) \/ Disconnect(c)
               \/ \E c \in Conns, d \in Domains \cup {None}, full \in BOOLEAN :
                     Connect(c, d, full)
        PROVE  HelperInv'
    BY <2>1, DnsLeavesHelper, HelperUntouched
  <2>2. ASSUME AskForCharon, UNCHANGED helper PROVE HelperInv'
    BY <2>2, StartsKeepHelper DEF AskForCharon, Starters
  <2>3. ASSUME NEW n \in SslNames, SslConnect(n) \/ SslDisconnect(n), UNCHANGED helper
        PROVE  HelperInv'
    BY <2>3, SslKeepsHelper
  <2>4. CASE HelperCrashes
    BY <2>4, HelperGoneKeepsHelper DEF HelperCrashes
  <2>5. CASE InstallBegins
    <3>1. CASE HelperGone("out", hrec)
      BY <2>5, <3>1, HelperGoneKeepsHelper DEF InstallBegins
    <3>2. CASE UNCHANGED <<dnsVars, ssl, orphans, starting>>
      BY <1>1, <2>5, <3>2 DEF InstallBegins, helperVars
    <3> QED BY <2>5, <3>1, <3>2 DEF InstallBegins
  <2>6. ASSUME RemoveOpenvpn, UNCHANGED helper PROVE HelperInv'
    BY <2>6, RemovalKeepsHelper
  <2> QED BY <1>1, <1>2, <2>1, <2>2, <2>3, <2>4, <2>5, <2>6 DEF Users, dnsVars
<1>3. CASE Steps
  <2>1. CASE DnsStep /\ UNCHANGED helperVars
    BY <2>1, DnsLeavesHelper, HelperUntouched
  <2>2. ASSUME NEW s \in Starters, StartCheck(s) \/ HelperLaunches(s) \/ ShellLaunches(s),
               UNCHANGED helper
        PROVE  HelperInv'
    <3>1. CASE StartCheck(s)
      BY <2>2, <3>1, StartsKeepHelper DEF StartCheck
    <3>2. CASE HelperLaunches(s) \/ ShellLaunches(s)
      BY <2>2, <3>2, LaunchKeepsHelper DEF HelperLaunches, ShellLaunches
    <3> QED BY <2>2, <3>1, <3>2
  <2>3. ASSUME NEW p \in Charons, Binds(p), UNCHANGED helper PROVE HelperInv'
    BY <2>3, BindsKeepsHelper
  <2>4. ASSUME SeenIdle, UNCHANGED helper PROVE HelperInv'
    BY <2>4 DEF SeenIdle, HelperInv, HelperTypeOK, Sweeping, SslSwept, CharonSwept, Alive
  <2>5. ASSUME StopIdle, UNCHANGED helper PROVE HelperInv'
    BY <2>5, StopIdleKeepsHelper
  <2>6. ASSUME NEW n \in SslNames, SslMoves(n), UNCHANGED helper PROVE HelperInv'
    BY <2>6, SslKeepsHelper
  <2>7. CASE HelperRuns({"down"})
    BY <2>7, HelperRunsKeepsHelper
  <2>8. ASSUME RemoveCharon, UNCHANGED helper PROVE HelperInv'
    BY <2>8, RemovalKeepsHelper
  <2>9. CASE PurgeDns
    BY <2>9, PurgeKeepsHelper
  <2>10. CASE Bootout
    BY <2>10, HelperGoneKeepsHelper DEF Bootout
  <2>11. CASE InstallFinishes
    BY <2>11, HelperRunsKeepsHelper, HelperUntouched DEF InstallFinishes
  <2> QED BY <1>1, <1>3, <2>1, <2>2, <2>3, <2>4, <2>5, <2>6, <2>7, <2>8, <2>9, <2>10, <2>11
          DEF Steps, dnsVars
<1>4. CASE UNCHANGED vars
  BY <1>1, <1>4 DEF vars
<1> QED BY <1>2, <1>3, <1>4 DEF Next

(* NothingOutlivesUninstall, for any number of connections, domains,       *)
(* charons and tunnels and whatever crashes and requests come in between.  *)
THEOREM UninstallIsThorough == Spec => []NothingOutlivesUninstall
<1>1. Init => DnsInv /\ HelperInv
  BY InitDns, InitHelper DEF Init
<1>2. DnsInv /\ HelperInv => NothingOutlivesUninstall
  <2> SUFFICES ASSUME DnsInv, HelperInv PROVE NothingOutlivesUninstall
    OBVIOUS
  <2>1. ASSUME NEW d \in Domains, files[d] = "helper"
        PROVE  d \in Recorded(hrec) \cup Recording \cup stray
    <3>1. CASE d \in stray
      BY <3>1
    <3>2. CASE \E c \in Conns : AccountsFor(c, d)
      BY <3>2, DnsAssumption DEF AccountsFor, Recorded, Recording
    <3> QED BY <2>1, <3>1, <3>2 DEF DnsInv, FilesAccounted
  <2> QED BY <2>1 DEF NothingOutlivesUninstall, HelperInv, Sweeping, CharonSwept
<1>3. DnsInv /\ HelperInv /\ [Next]_vars => (DnsInv /\ HelperInv)'
  BY DnsNext, HelperNext
<1> QED BY <1>1, <1>2, <1>3, PTL DEF Spec

(* ServersComeBack, under the same.                                        *)
THEOREM ServersAreRestorable == Spec => []ServersComeBack
<1>1. Init => DnsInv
  BY InitDns DEF Init
<1>2. DnsInv => ServersComeBack
  BY DEF DnsInv, ServersInv
<1> QED BY <1>1, <1>2, DnsNext, PTL DEF Spec
=============================================================================
