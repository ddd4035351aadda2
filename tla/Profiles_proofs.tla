-------------------------- MODULE Profiles_proofs --------------------------
(***************************************************************************)
(* What the client keeps of a profile, for any files, edits and lives.     *)
(*                                                                         *)
(* That nothing is inherited rests on the order of a removal: what it has  *)
(* passed is empty, or excused (Passed), and of the app's removal that the *)
(* keychain, which the directories' removal does not look at, went first   *)
(* (KeychainFirst). That edits stand and fields left alone follow the file *)
(* rests on the sidecar being the difference the last save made            *)
(* (EditKept), and on two facts of the edits' algebra: normalizing a host  *)
(* list twice is normalizing it once (NormalizeTwice), and an edit that is *)
(* applied is read back from the configuration (AppliedReads).             *)
(***************************************************************************)
EXTENDS Profiles, FiniteSetTheorems, TLAPS

(* The stores a removal that runs has yet to come to.                      *)
Pending ==
    [idle |-> {}, file |-> {}, sidecar |-> Stores,
     version |-> {"version", "key", "login"}, key |-> {"key", "login"},
     login |-> {"login"}, directories |-> {"sidecar", "version"}]

Typed ==
    /\ file \in Files \cup {None}
    /\ version \in BOOLEAN /\ login \in BOOLEAN
    /\ delete \in DOMAIN Pending
    /\ DOMAIN owner = Stores

(* What a removal has passed is empty, the present life's, or excused.     *)
Passed ==
    \A s \in Stores \ Pending[delete] :
       Filled(s) /\ (file = None \/ owner[s] # life) => s \in excused

(* The keychain was emptied before the directories, or excused.            *)
KeychainFirst ==
    delete = "directories" =>
       /\ key # None => "key" \in excused
       /\ login => "login" \in excused

(* The sidecar is what the last save kept of its edit.                     *)
EditKept ==
    lastEdit # None =>
       /\ lastEdit.file \in Files /\ lastEdit.edit \in Edits
       /\ Saved(lastEdit.edit, lastEdit.file.config, Companion)
            = [ok |-> TRUE, over |-> over]

Kept == Typed /\ Passed /\ KeychainFirst /\ EditKept

-----------------------------------------------------------------------------
(* What it is for a store to be filled, before and after a step.           *)

(* What each store holds when it is filled.                                *)
LEMMA FilledStores ==
    /\ Filled("sidecar") <=> over # NoOverrides
    /\ Filled("version") <=> version
    /\ Filled("key") <=> key # None
    /\ Filled("login") <=> login
BY DEF Filled

(* The same in the next state.                                             *)
LEMMA FilledStoresNext ==
    /\ Filled("sidecar")' <=> over' # NoOverrides
    /\ Filled("version")' <=> version'
    /\ Filled("key")' <=> key' # None
    /\ Filled("login")' <=> login'
BY DEF Filled

(* The stores a delete has still to pass, at each of its places.           *)
LEMMA PendingStores ==
    /\ DOMAIN Pending = {"idle", "file", "sidecar", "version", "key", "login", "directories"}
    /\ Pending["idle"] = {} /\ Pending["file"] = {} /\ Pending["sidecar"] = Stores
    /\ Pending["version"] = {"version", "key", "login"}
    /\ Pending["key"] = {"key", "login"} /\ Pending["login"] = {"login"}
    /\ Pending["directories"] = {"sidecar", "version"}
BY DEF Pending

(* A store's account is settled, at any place of a removal.                *)
Settled(s) == Filled(s) /\ (file = None \/ owner[s] # life) => s \in excused

(* The invariant holds before the first step.                              *)
LEMMA InitKept ==
    ASSUME ProfilesAssumption, Init
    PROVE  Kept
<1>1. Typed
  BY PendingStores DEF Init, Typed
<1>2. Passed
  BY FilledStores DEF Init, Passed, Stores
<1>3. KeychainFirst /\ EditKept
  BY DEF Init, KeychainFirst, EditKept
<1>4. QED
  BY <1>1, <1>2, <1>3 DEF Kept

(* Writing or clearing a store settles it and touches no other.            *)
LEMMA WroteSettles ==
    ASSUME Typed, NEW s \in Stores, NEW during, Wrote(s, during),
           file' = file, life' = life
    PROVE  /\ DOMAIN owner' = Stores
           /\ Settled(s)'
           /\ delete = "directories" => s \in excused'
           /\ \A t \in Stores \ {s} : owner'[t] = owner[t] /\ (t \in excused' <=> t \in excused)
<1>1. DOMAIN owner' = Stores /\ owner'[s] = during
      /\ \A t \in Stores \ {s} : owner'[t] = owner[t]
  BY DEF Typed, Wrote
<1>2. s \in excused' \/ ~(file = None \/ during # life \/ delete = "directories")
  BY DEF Wrote, Behind
<1>3. \A t \in Stores \ {s} : t \in excused' <=> t \in excused
  BY DEF Wrote
<1>4. QED
  BY <1>1, <1>2, <1>3 DEF Settled

(* Clearing a store changes no other store's owner or excuse.              *)
LEMMA ClearedSettles ==
    ASSUME Typed, NEW s \in Stores, Cleared(s)
    PROVE  /\ DOMAIN owner' = Stores
           /\ \A t \in Stores \ {s} : owner'[t] = owner[t] /\ (t \in excused' <=> t \in excused)
BY DEF Typed, Cleared

(* A step of no removal leaves a store settled if it leaves it alone, and  *)
(* settles those it writes.                                                *)
LEMMA OneStore ==
    ASSUME Kept, NEW s \in Stores, DOMAIN owner' = Stores,
           \A t \in Stores \ {s} : /\ owner'[t] = owner[t]
                                   /\ t \in excused' <=> t \in excused
                                   /\ Filled(t)' <=> Filled(t),
           Settled(s)', file' = file, life' = life, delete' = delete,
           delete = "directories" /\ s \in {"key", "login"} => (Filled(s)' => s \in excused')
    PROVE  Passed' /\ KeychainFirst' /\ DOMAIN owner' = Stores
<1>1. Passed'
  <2>1. SUFFICES ASSUME NEW t \in Stores \ Pending[delete]
                 PROVE  Settled(t)'
    BY DEF Passed, Settled
  <2>2. CASE t = s
    BY <2>2
  <2>3. CASE t # s
    BY <2>3 DEF Kept, Passed, Settled
  <2>4. QED
    BY <2>2, <2>3
<1>2. KeychainFirst'
  <2>1. SUFFICES ASSUME delete = "directories"
                 PROVE  (key' # None => "key" \in excused') /\ (login' => "login" \in excused')
    BY DEF KeychainFirst
  <2>2. \A t \in {"key", "login"} : Filled(t) => t \in excused
    BY <2>1, FilledStores DEF Kept, KeychainFirst
  <2>3. \A t \in {"key", "login"} : Filled(t)' => t \in excused'
    <3>1. SUFFICES ASSUME NEW t \in {"key", "login"}, Filled(t)' PROVE t \in excused'
      OBVIOUS
    <3>2. CASE t = s
      BY <2>1, <3>1, <3>2
    <3>3. CASE t # s
      <4>1. t \in Stores \ {s}
        BY <3>1, <3>3 DEF Stores
      <4>2. QED
        BY <2>2, <3>1, <4>1
    <3>4. QED
      BY <3>2, <3>3
  <2>4. QED
    BY <2>3, FilledStoresNext
<1>3. QED
  BY <1>1, <1>2

(* No store, record or removal is touched.                                 *)
LEMMA NothingWritten ==
    ASSUME Kept, UNCHANGED <<stores, delete, history>>
    PROVE  Kept'
<1>1. Typed'
  BY DEF Kept, Typed, stores, history
<1>2. Passed' /\ KeychainFirst'
  BY DEF Kept, Passed, KeychainFirst, stores, history, Filled
<1>3. EditKept'
  BY DEF Kept, EditKept, stores, history
<1>4. QED
  BY <1>1, <1>2, <1>3 DEF Kept

-----------------------------------------------------------------------------
(* What a save answers.                                                    *)

(* Applying an edit answers yes or no.                                     *)
LEMMA ApplyShape ==
    ASSUME NEW e, NEW config
    PROVE  ApplyTo(e, config).ok \in BOOLEAN
<1>1. NormalizeHosts(e.hosts).ok \in BOOLEAN
  BY DEF NormalizeHosts
<1>2. QED
  BY <1>1, Zenon DEF ApplyTo

(* A save that is accepted is the edits it keeps.                          *)
LEMMA SavedShape ==
    ASSUME NEW e, NEW config, NEW companion, Saved(e, config, companion).ok
    PROVE  Saved(e, config, companion)
             = [ok |-> TRUE, over |-> Saved(e, config, companion).over]
<1> DEFINE applied == ApplyTo(e, config)
           norm == FromConfig(applied.config, NormalizeHosts(e.hosts).hosts)
           kept == Diff(FromConfig(config, companion), norm)
<1>1. Saved(e, config, companion) = [ok |-> applied.ok, over |-> kept]
  BY Zenon DEF Saved
<1>2. applied.ok \in BOOLEAN
  BY ApplyShape
<1> HIDE DEF applied, norm, kept
<1>3. QED
  BY <1>1, <1>2

-----------------------------------------------------------------------------
(* Each action keeps the invariant.                                        *)

(* The next file finds settled what an unfinished removal has passed.      *)
LEMMA ImportKeeps ==
    ASSUME ProfilesAssumption, Kept, NEW f \in Files, ImportPath(f) \/ ImportFromPortal(f)
    PROVE  Kept'
<1>1. SaveImported(f)
  BY DEF ImportPath, ImportFromPortal
<1>2. Typed'
  BY <1>1 DEF SaveImported, Kept, Typed
<1>3. f # None
  BY DEF ProfilesAssumption
<1>4. Passed'
  <2>1. SUFFICES ASSUME NEW s \in Stores \ Pending[delete]
                 PROVE  Settled(s)'
    BY <1>1 DEF SaveImported, Passed, Settled
  <2>2. Filled(s)' <=> Filled(s)
    BY <1>1 DEF SaveImported, Filled
  <2>3. Settled(s)
    BY DEF Kept, Passed, Settled
  <2>4. file' # None /\ owner' = owner /\ excused' = excused
    BY <1>1, <1>3 DEF SaveImported
  <2>5. CASE file = None
    BY <2>2, <2>3, <2>4, <2>5 DEF Settled
  <2>6. CASE file # None
    <3>1. life' = life
      BY <1>1, <2>6 DEF SaveImported
    <3>2. QED
      BY <2>2, <2>3, <2>4, <2>6, <3>1 DEF Settled
  <2>7. QED
    BY <2>5, <2>6
<1>5. KeychainFirst' /\ EditKept'
  BY <1>1 DEF SaveImported, Kept, KeychainFirst, EditKept
<1>6. QED
  BY <1>2, <1>4, <1>5 DEF Kept

(* The stores a step leaves filled as they were.                           *)
LEMMA FilledAs ==
    /\ over' = over => (Filled("sidecar")' <=> Filled("sidecar"))
    /\ version' = version => (Filled("version")' <=> Filled("version"))
    /\ key' = key => (Filled("key")' <=> Filled("key"))
    /\ login' = login => (Filled("login")' <=> Filled("login"))
BY FilledStores, FilledStoresNext

(* A save fills or clears the sidecar, with its own difference.            *)
LEMMA SaveEditKeeps ==
    ASSUME ProfilesAssumption, Kept, NEW e \in Edits, SaveEdit(e)
    PROVE  Kept'
<1>1. PICK s : /\ s = Saved(e, file.config, Companion) /\ s.ok
               /\ over' = s.over
               /\ IF s.over = NoOverrides THEN Cleared("sidecar") ELSE Wrote("sidecar", life)
               /\ lastEdit' = [file |-> file, edit |-> e]
               /\ UNCHANGED <<file, version, key, login, connect, delete, life>>
  BY Zenon DEF SaveEdit
<1>2. file # None
  BY DEF SaveEdit, Listed
<1>3. "sidecar" \in Stores
  BY DEF Stores
<1>4. Typed
  BY DEF Kept
<1>5. /\ DOMAIN owner' = Stores /\ Settled("sidecar")'
      /\ \A t \in Stores \ {"sidecar"} : owner'[t] = owner[t] /\ (t \in excused' <=> t \in excused)
  <2>1. CASE s.over = NoOverrides
    <3>1. Cleared("sidecar") /\ over' = NoOverrides
      BY <1>1, <2>1
    <3>2. Settled("sidecar")'
      BY <3>1, FilledStoresNext DEF Settled
    <3>3. QED
      BY <1>3, <1>4, <3>1, <3>2, ClearedSettles
  <2>2. CASE s.over # NoOverrides
    <3>1. Wrote("sidecar", life)
      BY <1>1, <2>2
    <3>2. QED
      BY <1>1, <1>3, <1>4, <3>1, WroteSettles
  <2>3. QED
    BY <2>1, <2>2
<1>6. \A t \in Stores \ {"sidecar"} : Filled(t)' <=> Filled(t)
  BY <1>1, FilledAs DEF Stores
<1>7. Passed' /\ KeychainFirst'
  BY <1>1, <1>2, <1>3, <1>5, <1>6, OneStore
<1>8. Typed'
  BY <1>1, <1>4, <1>5 DEF Typed
<1>9. EditKept'
  <2>1. s = [ok |-> TRUE, over |-> over']
    BY <1>1, SavedShape
  <2>2. lastEdit'.file = file /\ lastEdit'.edit = e
    BY <1>1
  <2>3. file \in Files
    BY <1>2, <1>4 DEF Typed
  <2>4. QED
    BY <1>1, <2>1, <2>2, <2>3 DEF EditKept
<1>10. QED
  BY <1>7, <1>8, <1>9 DEF Kept

(* Resetting the edit (the sidecar goes) keeps the invariant.              *)
LEMMA ResetEditKeeps ==
    ASSUME ProfilesAssumption, Kept, ResetEdit
    PROVE  Kept'
<1>1. /\ over' = NoOverrides /\ lastEdit' = None /\ Cleared("sidecar")
      /\ UNCHANGED <<file, version, key, login, connect, delete, life>>
  BY DEF ResetEdit
<1>2. delete' = delete
  BY <1>1
<1>3. "sidecar" \in Stores /\ Typed
  BY DEF Stores, Kept
<1>4. /\ DOMAIN owner' = Stores
      /\ \A t \in Stores \ {"sidecar"} : owner'[t] = owner[t] /\ (t \in excused' <=> t \in excused)
  BY <1>1, <1>3, ClearedSettles
<1>5. Settled("sidecar")'
  BY <1>1, FilledStoresNext DEF Settled
<1>6. \A t \in Stores \ {"sidecar"} : Filled(t)' <=> Filled(t)
  BY <1>1, FilledAs DEF Stores
<1>7. Passed' /\ KeychainFirst'
  BY <1>1, <1>2, <1>3, <1>4, <1>5, <1>6, OneStore
<1>8. Typed' /\ EditKept'
  BY <1>1, <1>3, <1>4 DEF Typed, EditKept
<1>9. QED
  BY <1>7, <1>8 DEF Kept

(* Saving, setting or forgetting the key keeps the invariant.              *)
LEMMA KeyKeeps ==
    ASSUME ProfilesAssumption, Kept, SaveCredentials \/ SetCredentials \/ ForgetCredentials
    PROVE  Kept'
<1>1. /\ Wrote("key", life) \/ (Cleared("key") /\ key' = None)
      /\ UNCHANGED <<file, over, version, login, connect, delete, life, lastEdit>>
  BY DEF SaveCredentials, SetCredentials, ForgetCredentials
<1>2. delete = "directories" => (Filled("key")' => "key" \in excused')
  BY <1>1, WroteSettles, FilledStoresNext DEF Stores, Kept
<1>3. "key" \in Stores /\ Typed
  BY DEF Stores, Kept
<1>4. /\ DOMAIN owner' = Stores /\ Settled("key")'
      /\ \A t \in Stores \ {"key"} : owner'[t] = owner[t] /\ (t \in excused' <=> t \in excused)
  <2>1. CASE Wrote("key", life)
    BY <1>1, <1>3, <2>1, WroteSettles
  <2>2. CASE Cleared("key") /\ key' = None
    <3>1. Settled("key")'
      BY <2>2, FilledStoresNext DEF Settled
    <3>2. QED
      BY <1>3, <2>2, <3>1, ClearedSettles
  <2>3. QED
    BY <1>1, <2>1, <2>2
<1>5. \A t \in Stores \ {"key"} : Filled(t)' <=> Filled(t)
  BY <1>1, FilledAs DEF Stores
<1>6. Passed' /\ KeychainFirst'
  BY <1>1, <1>2, <1>3, <1>4, <1>5, OneStore
<1>7. Typed' /\ EditKept'
  BY <1>1, <1>3, <1>4 DEF Typed, EditKept, Kept
<1>8. QED
  BY <1>6, <1>7 DEF Kept

(* A connect may keep the login that was typed.                            *)
LEMMA LoginKeeps ==
    ASSUME ProfilesAssumption, Kept, ForgetUserLogin \/ (\E save \in BOOLEAN : ConnectStart(save))
    PROVE  Kept'
<1>1. /\ \/ Wrote("login", life) /\ login' = TRUE
         \/ Cleared("login") /\ login' = FALSE
         \/ UNCHANGED <<login, owner, excused>>
      /\ UNCHANGED <<file, over, version, key, delete, life, lastEdit>>
  BY DEF ForgetUserLogin, ConnectStart
<1>2. CASE UNCHANGED <<login, owner, excused>>
  BY <1>1, <1>2, NothingWritten DEF stores, history
<1>3. CASE \/ Wrote("login", life) /\ login' = TRUE
           \/ Cleared("login") /\ login' = FALSE
  <2>1. "login" \in Stores /\ Typed
    BY DEF Stores, Kept
  <2>2. /\ DOMAIN owner' = Stores /\ Settled("login")'
        /\ delete = "directories" => (Filled("login")' => "login" \in excused')
        /\ \A t \in Stores \ {"login"} : owner'[t] = owner[t] /\ (t \in excused' <=> t \in excused)
    <3>1. CASE Wrote("login", life)
      BY <1>1, <2>1, <3>1, WroteSettles
    <3>2. CASE Cleared("login") /\ login' = FALSE
      <4>1. ~Filled("login")'
        BY <3>2, FilledStoresNext
      <4>2. Settled("login")'
        BY <4>1 DEF Settled
      <4>3. QED
        BY <2>1, <3>2, <4>1, <4>2, ClearedSettles
    <3>3. QED
      BY <1>3, <3>1, <3>2
  <2>3. \A t \in Stores \ {"login"} : Filled(t)' <=> Filled(t)
    BY <1>1, FilledAs DEF Stores
  <2>4. Passed' /\ KeychainFirst'
    BY <1>1, <2>1, <2>2, <2>3, OneStore
  <2>5. Typed' /\ EditKept'
    BY <1>1, <1>3, <2>1, <2>2 DEF Typed, EditKept, Kept
  <2>6. QED
    BY <2>4, <2>5 DEF Kept
<1>4. QED
  BY <1>1, <1>2, <1>3

(* A connect in flight may write its version at any place of a removal.    *)
LEMMA VersionKeeps ==
    ASSUME ProfilesAssumption, Kept, RememberVersion \/ VersionExpires
    PROVE  Kept'
<1>1. /\ \/ Wrote("version", connect.life) /\ version' = TRUE
         \/ Cleared("version") /\ version' = FALSE
         \/ UNCHANGED <<owner, excused>> /\ version /\ version' = TRUE
      /\ UNCHANGED <<file, over, key, login, delete, life, lastEdit>>
  BY DEF RememberVersion, VersionExpires
<1>2. CASE UNCHANGED <<owner, excused>> /\ version /\ version' = TRUE
  <2>1. version = TRUE
    BY <1>2 DEF Kept, Typed
  <2>2. QED
    BY <1>1, <1>2, <2>1, NothingWritten DEF stores, history
<1>3. CASE \/ Wrote("version", connect.life) /\ version' = TRUE
           \/ Cleared("version") /\ version' = FALSE
  <2>1. "version" \in Stores /\ Typed
    BY DEF Stores, Kept
  <2>2. /\ DOMAIN owner' = Stores /\ Settled("version")'
        /\ \A t \in Stores \ {"version"} :
              owner'[t] = owner[t] /\ (t \in excused' <=> t \in excused)
    <3>1. CASE Wrote("version", connect.life)
      BY <1>1, <2>1, <3>1, WroteSettles
    <3>2. CASE Cleared("version") /\ version' = FALSE
      <4>1. Settled("version")'
        BY <3>2, FilledStoresNext DEF Settled
      <4>2. QED
        BY <2>1, <3>2, <4>1, ClearedSettles
    <3>3. QED
      BY <1>3, <3>1, <3>2
  <2>3. \A t \in Stores \ {"version"} : Filled(t)' <=> Filled(t)
    BY <1>1, FilledAs DEF Stores
  <2>4. Passed' /\ KeychainFirst'
    BY <1>1, <2>1, <2>2, <2>3, OneStore
  <2>5. version' \in BOOLEAN
    BY <1>3
  <2>6. Typed' /\ EditKept'
    BY <1>1, <2>1, <2>2, <2>5 DEF Typed, EditKept, Kept
  <2>7. QED
    BY <2>4, <2>6 DEF Kept
<1>4. QED
  BY <1>1, <1>2, <1>3

(* The end of a connect's dialling writes no store: the invariant stays.   *)
LEMMA TunnelKeeps ==
    ASSUME Kept, ConnectUp \/ ConnectFails
    PROVE  Kept'
<1>1. UNCHANGED <<stores, delete, history>>
  BY DEF ConnectUp, ConnectFails
<1>2. QED
  BY <1>1, NothingWritten

(* A delete gives up the file first.                                       *)
LEMMA DeleteBegins ==
    ASSUME Kept, DeleteTearsDown \/ DeleteFile
    PROVE  Kept'
<1>1. /\ UNCHANGED <<over, version, key, login, life, owner, excused, lastEdit>>
      /\ \/ delete' = "file" /\ file' = file /\ delete = "idle"
         \/ delete' = "sidecar" /\ file' = None
         \/ delete' = "idle" /\ file' = file /\ delete = "file"
  BY DEF DeleteTearsDown, DeleteFile, stores, history
<1>2. Typed'
  BY <1>1, PendingStores DEF Kept, Typed
<1>3. Passed'
  <2>1. SUFFICES ASSUME NEW s \in Stores, s \notin Pending[delete']
                 PROVE  Settled(s)'
    BY DEF Passed, Settled
  <2>2. delete' # "sidecar"
    BY <2>1, PendingStores
  <2>3. UNCHANGED file /\ delete \in {"idle", "file"}
    BY <1>1, <2>2
  <2>4. Settled(s)
    BY <2>3, PendingStores DEF Kept, Passed, Settled
  <2>5. QED
    BY <1>1, <2>3, <2>4 DEF Settled, Filled
<1>4. KeychainFirst' /\ EditKept'
  BY <1>1 DEF Kept, KeychainFirst, EditKept
<1>5. QED
  BY <1>2, <1>3, <1>4 DEF Kept

(* The order in which a delete passes the stores.                          *)
LEMMA AfterStores ==
    /\ After["sidecar"] = "version" /\ After["version"] = "key"
    /\ After["key"] = "login" /\ After["login"] = "idle"
BY DEF After

(* A step of a delete passes one store.                                    *)
LEMMA PendingAfter ==
    \A s \in Stores : /\ After[s] \in {"version", "key", "login", "idle"}
                      /\ Stores \ Pending[After[s]] = (Stores \ Pending[s]) \cup {s}
<1>1. SUFFICES ASSUME NEW s \in {"sidecar", "version", "key", "login"}
               PROVE  /\ After[s] \in {"version", "key", "login", "idle"}
                      /\ Stores \ Pending[After[s]] = (Stores \ Pending[s]) \cup {s}
  BY DEF Stores
<1>2. CASE s = "sidecar"
  BY <1>2, AfterStores, PendingStores DEF Stores
<1>3. CASE s = "version"
  BY <1>3, AfterStores, PendingStores DEF Stores
<1>4. CASE s = "key"
  BY <1>4, AfterStores, PendingStores DEF Stores
<1>5. CASE s = "login"
  BY <1>5, AfterStores, PendingStores DEF Stores
<1>6. QED
  BY <1>1, <1>2, <1>3, <1>4, <1>5

(* The store that is passed is empty.                                      *)
LEMMA DeleteStoreKeeps ==
    ASSUME Kept, NEW s \in Stores, DeleteStore(s)
    PROVE  Kept'
<1>1. /\ delete = s /\ delete' = After[s] /\ Cleared(s)
      /\ lastEdit' = IF s = "sidecar" THEN None ELSE lastEdit
      /\ UNCHANGED <<file, life>>
  BY DEF DeleteStore
<1>2. After[s] \in {"version", "key", "login", "idle"}
      /\ Stores \ Pending[After[s]] = (Stores \ Pending[s]) \cup {s}
  BY PendingAfter
<1>3. ~Filled(s)'
  <2>1. Clear(s)
    BY DEF DeleteStore
  <2>2. s \in {"sidecar", "version", "key", "login"}
    BY DEF Stores
  <2>3. QED
    BY <2>1, <2>2, FilledStoresNext DEF Clear
<1>4. \A t \in Stores \ {s} : Filled(t)' <=> Filled(t)
  <2>1. Clear(s)
    BY DEF DeleteStore
  <2>2. s \in {"sidecar", "version", "key", "login"}
    BY DEF Stores
  <2>3. SUFFICES ASSUME NEW t \in {"sidecar", "version", "key", "login"}, t # s
                 PROVE  Filled(t)' <=> Filled(t)
    BY DEF Stores
  <2>4. CASE t = "sidecar"
    BY <2>1, <2>3, <2>4, FilledAs DEF Clear
  <2>5. CASE t = "version"
    BY <2>1, <2>3, <2>5, FilledAs DEF Clear
  <2>6. CASE t = "key"
    BY <2>1, <2>3, <2>6, FilledAs DEF Clear
  <2>7. CASE t = "login"
    BY <2>1, <2>3, <2>7, FilledAs DEF Clear
  <2>8. QED
    BY <2>3, <2>4, <2>5, <2>6, <2>7
<1>5. /\ DOMAIN owner' = Stores
      /\ \A t \in Stores \ {s} : owner'[t] = owner[t] /\ (t \in excused' <=> t \in excused)
  BY <1>1, ClearedSettles DEF Kept
<1>6. Passed'
  <2>1. SUFFICES ASSUME NEW t \in (Stores \ Pending[s]) \cup {s}
                 PROVE  Settled(t)'
    BY <1>1, <1>2 DEF Passed, Settled
  <2>2. CASE t = s
    BY <1>3, <2>2 DEF Settled
  <2>3. CASE t # s
    <3>1. Settled(t)
      BY <1>1, <2>1, <2>3 DEF Kept, Passed, Settled
    <3>2. QED
      BY <1>1, <1>4, <1>5, <2>1, <2>3, <3>1 DEF Settled
  <2>4. QED
    BY <2>2, <2>3
<1>7. Typed'
  <2>1. version' \in BOOLEAN /\ login' \in BOOLEAN
    BY DEF DeleteStore, Clear, Kept, Typed
  <2>2. QED
    BY <1>1, <1>2, <1>5, <2>1, PendingStores DEF Kept, Typed
<1>8. KeychainFirst' /\ EditKept'
  <2>1. delete' # "directories"
    BY <1>1, <1>2
  <2>2. s # "sidecar" => over' = over
    BY DEF DeleteStore, Clear
  <2>3. QED
    BY <1>1, <2>1, <2>2 DEF KeychainFirst, EditKept, Kept
<1>9. QED
  BY <1>6, <1>7, <1>8 DEF Kept

(* A step that fails excuses what it leaves.                               *)
LEMMA DeleteStoreFailsKeeps ==
    ASSUME Kept, NEW s \in Stores, DeleteStoreFails(s)
    PROVE  Kept'
<1>1. /\ delete = s
      /\ UNCHANGED <<file, over, version, key, login, life, owner, lastEdit>>
      /\ delete' = IF s = "version" THEN After[s] ELSE "idle"
      /\ excused' = excused \cup
                    {t \in (IF s = "version" THEN {s} ELSE Remaining[s]) : Filled(t)}
  BY DEF DeleteStoreFails, stores
<1>2. \A t \in Stores : Filled(t)' <=> Filled(t)
  BY <1>1 DEF Filled
<1>3. Passed'
  <2>1. SUFFICES ASSUME NEW t \in Stores, t \notin Pending[delete']
                 PROVE  Settled(t)'
    BY DEF Passed, Settled
  <2>2. CASE t \notin Pending[s]
    <3>1. Settled(t)
      BY <1>1, <2>2 DEF Kept, Passed, Settled
    <3>2. QED
      BY <1>1, <1>2, <3>1 DEF Settled
  <2>3. CASE t \in Pending[s]
    <3>1. t \in IF s = "version" THEN {s} ELSE Remaining[s]
      <4>1. CASE s = "version"
        BY <1>1, <2>1, <2>3, <4>1, PendingStores, AfterStores
      <4>2. CASE s # "version"
        <5>1. Remaining["sidecar"] = Stores /\ Remaining["key"] = {"key", "login"}
              /\ Remaining["login"] = {"login"}
          BY DEF Remaining
        <5>2. s \in {"sidecar", "key", "login"}
          BY <4>2 DEF Stores
        <5>3. QED
          BY <2>3, <4>2, <5>1, <5>2, PendingStores
      <4>3. QED
        BY <4>1, <4>2
    <3>2. QED
      BY <1>1, <1>2, <3>1 DEF Settled
  <2>4. QED
    BY <2>2, <2>3
<1>4. delete' \in {"idle", "key"}
  BY <1>1, AfterStores
<1>5. Typed' /\ KeychainFirst'
  BY <1>1, <1>4, PendingStores DEF Kept, Typed, KeychainFirst
<1>6. EditKept'
  BY <1>1 DEF Kept, EditKept
<1>7. QED
  BY <1>3, <1>5, <1>6 DEF Kept

(* Removing the app: the keychain, then the directories.                   *)
LEMMA RemovalKeeps ==
    ASSUME Kept, RemoveKeychain \/ RemoveDirectories
    PROVE  Kept'
<1>1. CASE RemoveKeychain
  <2>1. PICK kept \in SUBSET {s \in {"key", "login"} : Filled(s)} :
          /\ key'   = IF "key" \in kept THEN key ELSE None
          /\ login' = ("login" \in kept)
          /\ excused' = excused \cup kept
    BY <1>1 DEF RemoveKeychain
  <2>2. /\ delete = "idle" /\ delete' = "directories"
        /\ UNCHANGED <<file, over, version, life, owner, lastEdit>>
    BY <1>1 DEF RemoveKeychain
  <2>3. login' \in BOOLEAN
    BY <2>1
  <2>4. Typed'
    BY <2>2, <2>3, PendingStores DEF Kept, Typed
  <2>5. (key' # None => "key" \in excused') /\ (login' => "login" \in excused')
    BY <2>1
  <2>6. Passed'
    <3>1. SUFFICES ASSUME NEW s \in {"key", "login"} PROVE Settled(s)'
      BY <2>2, PendingStores DEF Passed, Settled, Stores
    <3>2. QED
      BY <2>5, <3>1, FilledStoresNext DEF Settled
  <2>7. KeychainFirst'
    BY <2>5 DEF KeychainFirst
  <2>8. EditKept'
    BY <2>2 DEF Kept, EditKept
  <2>9. QED
    BY <2>4, <2>6, <2>7, <2>8 DEF Kept
<1>2. CASE RemoveDirectories
  <2>1. PICK left \in SUBSET {s \in {"sidecar", "version"} : Filled(s)} :
          /\ over'     = IF "sidecar" \in left THEN over ELSE NoOverrides
          /\ lastEdit' = IF "sidecar" \in left THEN lastEdit ELSE None
          /\ version'  = ("version" \in left)
          /\ excused'  = excused \cup left
    BY <1>2 DEF RemoveDirectories
  <2>2. /\ delete = "directories" /\ delete' = "idle" /\ file' \in {file, None}
        /\ UNCHANGED <<key, login, life, owner>>
    BY <1>2 DEF RemoveDirectories
  <2>3. version' \in BOOLEAN
    BY <2>1
  <2>4. Typed'
    BY <2>2, <2>3, PendingStores DEF Kept, Typed
  <2>5. Passed'
    <3>1. SUFFICES ASSUME NEW s \in {"sidecar", "version", "key", "login"}, Filled(s)'
                   PROVE  s \in excused'
      BY DEF Passed, Stores
    <3>2. (key # None => "key" \in excused) /\ (login => "login" \in excused)
      BY <2>2 DEF Kept, KeychainFirst
    <3>3. CASE s \in {"key", "login"}
      BY <2>1, <2>2, <3>1, <3>2, <3>3, FilledStoresNext
    <3>4. CASE s \in {"sidecar", "version"}
      BY <2>1, <3>1, <3>4, FilledStoresNext
    <3>5. QED
      BY <3>1, <3>3, <3>4
  <2>6. KeychainFirst' /\ EditKept'
    BY <2>1, <2>2 DEF KeychainFirst, EditKept, Kept
  <2>7. QED
    BY <2>4, <2>5, <2>6 DEF Kept
<1>3. QED
  BY <1>1, <1>2

(* The inductive invariant.                                                *)
THEOREM KeptAlways == Spec => []Kept
<1>1. Init => Kept
  BY InitKept, ProfilesAssumption
<1>2. Kept /\ [Next]_vars => Kept'
  <2>1. SUFFICES ASSUME Kept, [Next]_vars PROVE Kept'
    OBVIOUS
  <2>2. CASE \E f \in Files : ImportPath(f) \/ ImportFromPortal(f)
    BY <2>1, <2>2, ImportKeeps, ProfilesAssumption
  <2>3. CASE \E e \in Edits : SaveEdit(e)
    BY <2>1, <2>3, SaveEditKeeps, ProfilesAssumption
  <2>4. CASE ResetEdit
    BY <2>1, <2>4, ResetEditKeeps, ProfilesAssumption
  <2>5. CASE SaveCredentials \/ SetCredentials \/ ForgetCredentials
    BY <2>1, <2>5, KeyKeeps, ProfilesAssumption
  <2>6. CASE ForgetUserLogin \/ \E save \in BOOLEAN : ConnectStart(save)
    BY <2>1, <2>6, LoginKeeps, ProfilesAssumption
  <2>7. CASE RememberVersion \/ VersionExpires
    BY <2>1, <2>7, VersionKeeps, ProfilesAssumption
  <2>8. CASE ConnectUp \/ ConnectFails
    BY <2>1, <2>8, TunnelKeeps
  <2>9. CASE DeleteTearsDown \/ DeleteFile
    BY <2>1, <2>9, DeleteBegins
  <2>10. CASE \E s \in Stores : DeleteStore(s) \/ DeleteStoreFails(s)
    BY <2>1, <2>10, DeleteStoreKeeps, DeleteStoreFailsKeeps
  <2>11. CASE RemoveKeychain \/ RemoveDirectories
    BY <2>1, <2>11, RemovalKeeps
  <2>12. CASE UNCHANGED vars
    BY <2>1, <2>12, NothingWritten DEF vars, stores, history
  <2>13. QED
    BY <2>1, <2>2, <2>3, <2>4, <2>5, <2>6, <2>7, <2>8, <2>9, <2>10, <2>11, <2>12 DEF Next
<1>3. QED
  BY <1>1, <1>2, PTL DEF Spec

(* Deleting a profile or the app leaves no sidecar, version, key or login  *)
(* that the next profile of that name would take for its own, except where *)
(* a removal failed, a connect wrote behind it, or the profile could not   *)
(* be listed (delete_profile, uninstall_app).                              *)
THEOREM NothingIsInherited == Spec => []NothingInherited
<1>1. Kept => NothingInherited
  <2>1. SUFFICES ASSUME Kept, delete = "idle", NEW s \in Stores,
                        Filled(s), file = None \/ owner[s] # life
                 PROVE  s \in excused
    BY DEF NothingInherited
  <2>2. Pending[delete] = {}
    BY <2>1, PendingStores
  <2>3. QED
    BY <2>1, <2>2 DEF Kept, Passed
<1>2. QED
  BY <1>1, KeptAlways, PTL

-----------------------------------------------------------------------------
(* Of a file's configuration, an edit makes another login only where the   *)
(* file has none.                                                          *)

(* A stored file's configuration has these fields and a login or none.     *)
LEMMA ConfigsHave ==
    ASSUME ProfilesAssumption, NEW f \in Files
    PROVE  DOMAIN f.config = {"name", "cipher", "free", "dns", "domain", "login", "psk"}
           /\ f.config.login \in Logins \cup {NoLogin}
BY DEF ProfilesAssumption, Fields

(* The login of an edited configuration: the file's, none, or a new one    *)
(* where the file has none.                                                *)
MadeOf(login2, login1) ==
    \/ login2 \in {login1, NoLogin}
    \/ login1 = NoLogin /\ login2 = FreshLogin

(* An edit leaves the login, takes it away, or makes one where none was.   *)
LEMMA ApplyMakes ==
    ASSUME NEW config, NEW e,
           DOMAIN config = {"name", "cipher", "free", "dns", "domain", "login", "psk"}
    PROVE  MadeOf(ApplyTo(e, config).config.login, config.login)
<1>1. CASE e.name \in {Blank, "bad"}
  BY <1>1 DEF ApplyTo, MadeOf
<1>2. CASE e.name \notin {Blank, "bad"} /\ ~FieldsStand(e)
  BY <1>2 DEF ApplyTo, MadeOf
<1>3. CASE e.name \notin {Blank, "bad"} /\ FieldsStand(e)
  <2>1. ApplyTo(e, config).config.login = LoginOf(e, config)
    BY <1>3 DEF ApplyTo
  <2>2. MadeOf(LoginOf(e, config), config.login)
    BY DEF LoginOf, MadeOf
  <2>3. QED
    BY <2>1, <2>2
<1>4. QED
  BY <1>1, <1>2, <1>3

(* So does what is in effect: the file under its overrides.                *)
LEMMA LoginInEffect ==
    ASSUME ProfilesAssumption, file \in Files
    PROVE  MadeOf(Effective.config.login, file.config.login)
<1>1. PICK config : config = file.config
  OBVIOUS
<1>2. DOMAIN config = {"name", "cipher", "free", "dns", "domain", "login", "psk"}
  BY <1>1, ConfigsHave
<1>3. \A e : MadeOf(ApplyTo(e, config).config.login, config.login)
  BY <1>2, ApplyMakes
<1>4. MadeOf(Loaded(config, Companion, over).config.login, config.login)
  <2> DEFINE base == FromConfig(config, Companion)
             edited == Overlay(over, base)
             names == Changed(over, base)
  <2>1. Loaded(config, Companion, over).config
          = IF names = {} THEN config ELSE ApplyTo(edited, config).config
    BY Zenon DEF Loaded
  <2> HIDE DEF base, edited, names
  <2>2. QED
    BY <1>3, <2>1 DEF MadeOf
<1>5. QED
  BY <1>1, <1>4 DEF Effective

(* No connect puts a login in the keychain that the file says must not be  *)
(* saved or holds a one-time code, whatever is edited (resolve_user_login).*)
THEOREM KeepableLoginsOnly == Spec => OnlyKeepableLogins
<1>1. Kept /\ [Next]_vars /\ login' /\ ~login
         => IsSsl \/ file.config.login \in {NoLogin, FreshLogin}
  <2>1. SUFFICES ASSUME Kept, [Next]_vars, login', ~login, ~IsSsl
                 PROVE  file.config.login \in {NoLogin, FreshLogin}
    OBVIOUS
  <2>2. PICK save \in BOOLEAN : ConnectStart(save)
    <3>1. login = FALSE
      BY <2>1 DEF Kept, Typed
    <3>2. ~UNCHANGED login
      BY <2>1
    <3>3. ~UNCHANGED vars
      BY <3>2 DEF vars
    <3>4. ~RemoveKeychain
      <4>1. SUFFICES ASSUME RemoveKeychain PROVE FALSE
        OBVIOUS
      <4>2. PICK kept \in SUBSET {s \in {"key", "login"} : Filled(s)} :
              login' = ("login" \in kept)
        BY <4>1 DEF RemoveKeychain
      <4>3. Filled("login")
        BY <2>1, <4>2
      <4>4. QED
        BY <2>1, <4>3, FilledStores
    <3>5. \A s \in Stores : ~DeleteStore(s)
      <4>1. \A s : ~Clear(s)
        BY <2>1, <3>2 DEF Clear
      <4>2. QED
        BY <4>1 DEF DeleteStore
    <3>6. ~(\E f \in Files : ImportPath(f) \/ ImportFromPortal(f))
      BY <3>2 DEF ImportPath, ImportFromPortal, SaveImported
    <3>7. ~(\E e \in Edits : SaveEdit(e))
      BY <3>2 DEF SaveEdit
    <3>8. ~(ResetEdit \/ SaveCredentials \/ SetCredentials \/ ForgetCredentials)
      BY <3>2 DEF ResetEdit, SaveCredentials, SetCredentials, ForgetCredentials
    <3>9. ~ForgetUserLogin
      BY <2>1 DEF ForgetUserLogin
    <3>10. ~(ConnectUp \/ ConnectFails \/ RememberVersion \/ VersionExpires)
      BY <3>2 DEF ConnectUp, ConnectFails, RememberVersion, VersionExpires, stores
    <3>11. ~(DeleteTearsDown \/ DeleteFile)
      BY <3>2 DEF DeleteTearsDown, DeleteFile, stores
    <3>12. ~RemoveDirectories
      BY <3>2 DEF RemoveDirectories
    <3>13. \A s \in Stores : ~DeleteStoreFails(s)
      BY <3>2 DEF DeleteStoreFails, stores
    <3>14. QED
      BY <2>1, <3>3, <3>4, <3>5, <3>6, <3>7, <3>8, <3>9, <3>10, <3>11, <3>12, <3>13 DEF Next
  <2>3. ResolveUserLogin(save)
    BY <2>1, <2>2 DEF ConnectStart
  <2>4. Effective.config.login # NoLogin /\ Keepable(Effective.config)
    BY <2>1, <2>3 DEF ResolveUserLogin
  <2>5. file \in Files
    BY <2>1, <2>2 DEF ConnectStart, Listed, Kept, Typed
  <2>6. PICK given : given = file.config.login /\ given \in Logins \cup {NoLogin}
    BY <2>5, ConfigsHave, ProfilesAssumption
  <2>7. PICK used : used = Effective.config.login /\ MadeOf(used, given)
    BY <2>5, <2>6, LoginInEffect, ProfilesAssumption
  <2>8. used # NoLogin /\ used.can_save /\ ~used.otp
    BY <2>4, <2>7 DEF Keepable
  <2>9. CASE used = given
    <3>1. given \in Logins
      BY <2>6, <2>8, <2>9
    <3>2. given = FreshLogin
      BY <2>8, <2>9, <3>1 DEF Logins, FreshLogin
    <3>3. QED
      BY <2>6, <3>2
  <2>10. CASE given = NoLogin
    BY <2>6, <2>10
  <2>11. QED
    BY <2>7, <2>8, <2>9, <2>10 DEF MadeOf
<1>2. Kept /\ [Next]_vars
         => [login' /\ ~login => IsSsl \/ file.config.login \in {NoLogin, FreshLogin}]_vars
  BY <1>1
<1>3. QED
  BY <1>2, KeptAlways, PTL DEF Spec, OnlyKeepableLogins

-----------------------------------------------------------------------------
(* Normalizing a host list that is normalized changes nothing.             *)

RowsOf(h) == {i \in DOMAIN h : h[i].name # Blank \/ h[i].addr # Blank}
KeptOf(h) == {i \in RowsOf(h) : \A k \in RowsOf(h) : k < i => h[k] # h[i]}
Below(K, i) == {k \in K : k < i}
NthOf(K, n) == CHOOSE i \in K : Cardinality(Below(K, i)) = n - 1

(* Normalising keeps the wanted rows, renumbered by rank, unless one is bad. *)
LEMMA NormalizeIs ==
    ASSUME NEW h
    PROVE  NormalizeHosts(h) =
             IF (\E i \in RowsOf(h) : BadRow(h[i])) \/ Cardinality(KeptOf(h)) > MaxHosts
             THEN [ok |-> FALSE, hosts |-> << >>]
             ELSE [ok |-> TRUE,
                   hosts |-> [n \in 1 .. Cardinality(KeptOf(h)) |-> h[NthOf(KeptOf(h), n)]]]
BY Zenon DEF NormalizeHosts, RowsOf, KeptOf, NthOf, Below

(* In a finite set of numbers every rank is some member's, and one's only. *)
LEMMA RanksAreTaken ==
    ASSUME NEW K, IsFiniteSet(K), K \subseteq Nat
    PROVE  /\ Cardinality(K) \in Nat
           /\ \A i, j \in K : Cardinality(Below(K, i)) = Cardinality(Below(K, j)) => i = j
           /\ \A n \in 1 .. Cardinality(K) : \E i \in K : Cardinality(Below(K, i)) = n - 1
<1>1. Cardinality(K) \in Nat
  BY FS_CardinalityType
<1>2. \A i \in K : /\ IsFiniteSet(Below(K, i)) /\ Cardinality(Below(K, i)) \in Nat
                   /\ Cardinality(Below(K, i)) < Cardinality(K)
  <2>1. SUFFICES ASSUME NEW i \in K
                 PROVE  /\ IsFiniteSet(Below(K, i)) /\ Cardinality(Below(K, i)) \in Nat
                        /\ Cardinality(Below(K, i)) < Cardinality(K)
    OBVIOUS
  <2>2. Below(K, i) \in SUBSET K /\ Below(K, i) # K
    BY DEF Below
  <2>3. /\ IsFiniteSet(Below(K, i)) /\ Cardinality(Below(K, i)) <= Cardinality(K)
        /\ Cardinality(K) = Cardinality(Below(K, i)) => K = Below(K, i)
    BY <2>2, FS_Subset
  <2>4. Cardinality(Below(K, i)) \in Nat
    BY <2>3, FS_CardinalityType
  <2>5. QED
    BY <1>1, <2>2, <2>3, <2>4
<1>3. \A i, j \in K : i < j => Cardinality(Below(K, i)) # Cardinality(Below(K, j))
  <2>1. SUFFICES ASSUME NEW i \in K, NEW j \in K, i < j
                 PROVE  Cardinality(Below(K, i)) # Cardinality(Below(K, j))
    OBVIOUS
  <2>2. Below(K, i) \in SUBSET Below(K, j)
    <3>1. SUFFICES ASSUME NEW k \in K, k < i PROVE k < j
      BY DEF Below
    <3>2. i \in Nat /\ j \in Nat /\ k \in Nat
      OBVIOUS
    <3>3. QED
      BY <2>1, <3>1, <3>2
  <2>3. i \in Below(K, j) /\ i \notin Below(K, i)
    BY <2>1 DEF Below
  <2>4. QED
    BY <1>2, <2>2, <2>3, FS_Subset
<1>4. \A i, j \in K : Cardinality(Below(K, i)) = Cardinality(Below(K, j)) => i = j
  <2>1. \A i, j \in K : i = j \/ i < j \/ j < i
    OBVIOUS
  <2>2. QED
    BY <1>3, <2>1
<1>5. \A n \in 1 .. Cardinality(K) : \E i \in K : Cardinality(Below(K, i)) = n - 1
  <2> DEFINE rank == [i \in K |-> Cardinality(Below(K, i)) + 1]
             ranks == 1 .. Cardinality(K)
  <2>1. rank \in Injection(K, ranks)
    <3>1. \A i \in K : rank[i] \in ranks
      BY <1>1, <1>2
    <3>2. \A i, j \in K : rank[i] = rank[j] => i = j
      BY <1>2, <1>4
    <3>3. rank \in [K -> ranks]
      BY <3>1
    <3> HIDE DEF rank, ranks
    <3>4. QED
      BY <3>2, <3>3 DEF Injection, IsInjective
  <2>2. IsFiniteSet(ranks) /\ Cardinality(ranks) = Cardinality(K)
    BY <1>1, FS_Interval
  <2> HIDE DEF ranks
  <2>3. rank \in Surjection(K, ranks)
    <3> HIDE DEF rank
    <3>1. QED
      BY <2>1, <2>2, FS_Injection
  <2>4. \A n \in ranks : \E i \in K : rank[i] = n
    <3> HIDE DEF rank
    <3>1. QED
      BY <2>3 DEF Surjection
  <2>5. \A n \in ranks : \E i \in K : Cardinality(Below(K, i)) + 1 = n
    BY <2>4
  <2>6. \A n \in ranks : n \in Nat
    BY <1>1 DEF ranks
  <2>7. QED
    BY <1>2, <2>5, <2>6 DEF ranks
<1>6. QED
  BY <1>1, <1>4, <1>5

(* The n-th member of a finite set of numbers exists.                      *)
LEMMA NthOfRank ==
    ASSUME NEW K, IsFiniteSet(K), K \subseteq Nat
    PROVE  \A n \in 1 .. Cardinality(K) :
              NthOf(K, n) \in K /\ Cardinality(Below(K, NthOf(K, n))) = n - 1
<1>1. SUFFICES ASSUME NEW n \in 1 .. Cardinality(K)
               PROVE  NthOf(K, n) \in K /\ Cardinality(Below(K, NthOf(K, n))) = n - 1
  OBVIOUS
<1>2. \E i \in K : Cardinality(Below(K, i)) = n - 1
  BY RanksAreTaken
<1>3. QED
  BY <1>2, Zenon DEF NthOf

(* Counting an interval from one, a number's rank is itself.               *)
LEMMA NthOfInterval ==
    ASSUME NEW c \in Nat
    PROVE  \A n \in 1 .. c : NthOf(1 .. c, n) = n
<1>1. SUFFICES ASSUME NEW n \in 1 .. c PROVE NthOf(1 .. c, n) = n
  OBVIOUS
<1>2. IsFiniteSet(1 .. c) /\ Cardinality(1 .. c) = c /\ 1 .. c \subseteq Nat
  BY FS_Interval
<1>3. NthOf(1 .. c, n) \in 1 .. c /\ Cardinality(Below(1 .. c, NthOf(1 .. c, n))) = n - 1
  BY <1>1, <1>2, NthOfRank
<1>4. Cardinality(Below(1 .. c, n)) = n - 1
  <2>1. Below(1 .. c, n) = 1 .. n - 1
    BY <1>1 DEF Below
  <2>2. QED
    BY <1>1, <2>1, FS_Interval
<1>5. QED
  BY <1>1, <1>2, <1>3, <1>4, RanksAreTaken

(* The rows kept of a list are distinct, filled in and few enough, so all  *)
(* of them are kept again, in their order.                                 *)
LEMMA NormalizeTwice ==
    ASSUME NEW h, IsFiniteSet(DOMAIN h), DOMAIN h \subseteq Nat, NormalizeHosts(h).ok
    PROVE  NormalizeHosts(NormalizeHosts(h).hosts) = NormalizeHosts(h)
<1> DEFINE K == KeptOf(h)
           c == Cardinality(K)
           nth(n) == NthOf(K, n)
           out == [n \in 1 .. c |-> h[nth(n)]]
<1>1. IsFiniteSet(K) /\ K \subseteq Nat /\ K \subseteq RowsOf(h) /\ c \in Nat
  <2>1. K \in SUBSET DOMAIN h /\ K \subseteq RowsOf(h)
    BY DEF KeptOf, RowsOf
  <2>2. IsFiniteSet(K)
    BY <2>1, FS_Subset
  <2>3. c \in Nat
    BY <2>2, FS_CardinalityType
  <2>4. QED
    BY <2>1, <2>2, <2>3
<1>2. /\ \A i \in RowsOf(h) : ~BadRow(h[i])
      /\ ~(c > MaxHosts)
      /\ NormalizeHosts(h) = [ok |-> TRUE, hosts |-> out]
  BY NormalizeIs
<1>3. \A n \in 1 .. c : nth(n) \in K
  BY <1>1, NthOfRank
<1>4. \A m, n \in 1 .. c : m # n => nth(m) # nth(n)
  <2>1. SUFFICES ASSUME NEW m \in 1 .. c, NEW n \in 1 .. c, nth(m) = nth(n)
                 PROVE  m = n
    OBVIOUS
  <2>2. Cardinality(Below(K, nth(m))) = m - 1 /\ Cardinality(Below(K, nth(n))) = n - 1
    BY <1>1, NthOfRank
  <2>3. m - 1 = n - 1
    BY <2>1, <2>2
  <2>4. QED
    BY <1>1, <2>3
<1>5. \A i, j \in K : i # j => h[i] # h[j]
  <2>1. SUFFICES ASSUME NEW i \in K, NEW j \in K, i < j PROVE h[i] # h[j]
    BY <1>1
  <2>2. QED
    BY <1>1, <2>1 DEF KeptOf
<1>6. DOMAIN out = 1 .. c /\ \A n \in 1 .. c : out[n] = h[nth(n)]
  OBVIOUS
<1> HIDE DEF K, c, nth, out
<1>7. RowsOf(out) = 1 .. c
  BY <1>1, <1>3, <1>6 DEF RowsOf
<1>8. KeptOf(out) = 1 .. c
  <2>1. \A m, n \in 1 .. c : m # n => out[m] # out[n]
    BY <1>3, <1>4, <1>5, <1>6
  <2>2. \A m, n \in 1 .. c : m < n => m # n
    BY <1>1
  <2>3. QED
    BY <1>7, <2>1, <2>2 DEF KeptOf
<1>9. Cardinality(KeptOf(out)) = c
  BY <1>1, <1>8, FS_Interval
<1>10. \A i \in RowsOf(out) : ~BadRow(out[i])
  BY <1>1, <1>2, <1>3, <1>6, <1>7
<1>11. NormalizeHosts(out) = [ok |-> TRUE, hosts |-> [n \in 1 .. c |-> out[NthOf(1 .. c, n)]]]
  <2>1. ~(Cardinality(KeptOf(out)) > MaxHosts)
    BY <1>2, <1>9
  <2>2. QED
    BY <1>8, <1>9, <1>10, <2>1, NormalizeIs, Zenon
<1>12. [n \in 1 .. c |-> out[NthOf(1 .. c, n)]] = [n \in 1 .. c |-> out[n]]
  BY <1>1, NthOfInterval
<1>13. [n \in 1 .. c |-> out[n]] = out
  BY <1>6 DEF out
<1>14. NormalizeHosts(out) = NormalizeHosts(h)
  BY <1>2, <1>11, <1>12, <1>13, Zenon
<1>15. NormalizeHosts(h).hosts = out
  BY <1>2
<1>16. QED
  BY <1>14, <1>15, Zenon

-----------------------------------------------------------------------------
(* An edit that is applied is read back from the configuration.            *)

ConfigFields == {"name", "cipher", "free", "dns", "domain", "login", "psk"}

(* What an edit is: all fields, the login round on or off.                 *)
WithHosts(e, h) == [e EXCEPT !.hosts = h]
IsEdit(e) == e = [g \in Fields |-> e[g]] /\ e.user_auth \in BOOLEAN

(* An edit given other hosts is the same edit but for these.               *)
LEMMA EditShape ==
    ASSUME NEW e, IsEdit(e), NEW h
    PROVE  WithHosts(e, h)
             = [name |-> e.name, user_auth |-> e.user_auth, cipher |-> e.cipher,
                free |-> e.free, dns |-> e.dns, domain |-> e.domain, hosts |-> h]
<1>1. DOMAIN e = {"name", "user_auth", "cipher", "free", "dns", "domain", "hosts"}
  BY DEF IsEdit, Fields
<1>2. QED
  BY <1>1 DEF WithHosts

(* The edited login says whether the edit asks for one.                    *)
LEMMA LoginTells ==
    ASSUME NEW e, NEW config, e.user_auth \in BOOLEAN, ProfilesAssumption
    PROVE  (LoginOf(e, config) # NoLogin) = e.user_auth
<1>1. FreshLogin # NoLogin
  <2>1. FreshLogin \in Logins
    BY DEF Logins, FreshLogin
  <2>2. NoLogin \notin Logins
    BY Zenon DEF ProfilesAssumption
  <2>3. QED
    BY <2>1, <2>2
<1>2. CASE e.user_auth = TRUE
  BY <1>1, <1>2 DEF LoginOf
<1>3. CASE e.user_auth = FALSE
  BY <1>3 DEF LoginOf
<1>4. QED
  BY <1>2, <1>3

(* An accepted edit, read back from its configuration, is the edit.        *)
LEMMA AppliedReads ==
    ASSUME ProfilesAssumption, NEW e, NEW config, NEW h, IsEdit(e),
           DOMAIN config = ConfigFields, ApplyTo(e, config).ok
    PROVE  /\ FromConfig(ApplyTo(e, config).config, h) = WithHosts(e, h)
           /\ NormalizeHosts(e.hosts).ok
<1>1. e.name \notin {Blank, "bad"} /\ FieldsStand(e)
  BY DEF ApplyTo
<1>2. ApplyTo(e, config)
        = [ok |-> NormalizeHosts(e.hosts).ok,
           config |-> [config EXCEPT !.name = e.name, !.login = LoginOf(e, config),
                                     !.cipher = e.cipher, !.free = e.free,
                                     !.dns = e.dns, !.domain = e.domain]]
  BY <1>1, Zenon DEF ApplyTo
<1>3. NormalizeHosts(e.hosts).ok
  BY <1>2
<1>4. PICK made : made = ApplyTo(e, config).config
  OBVIOUS
<1>5. /\ made.name = e.name /\ made.login = LoginOf(e, config) /\ made.cipher = e.cipher
      /\ made.free = e.free /\ made.dns = e.dns /\ made.domain = e.domain
  <2>1. PICK asked : asked = LoginOf(e, config)
    OBVIOUS
  <2>2. made = [config EXCEPT !.name = e.name, !.login = asked, !.cipher = e.cipher,
                              !.free = e.free, !.dns = e.dns, !.domain = e.domain]
    BY <1>2, <1>4, <2>1
  <2>3. /\ made.name = e.name /\ made.login = asked /\ made.cipher = e.cipher
        /\ made.free = e.free /\ made.dns = e.dns /\ made.domain = e.domain
    BY <2>2 DEF ConfigFields
  <2>4. QED
    BY <2>1, <2>3
<1>6. (made.login # NoLogin) = e.user_auth
  <2>1. e.user_auth \in BOOLEAN
    BY DEF IsEdit
  <2>2. (LoginOf(e, config) # NoLogin) = e.user_auth
    BY <2>1, LoginTells
  <2>3. made.login = LoginOf(e, config)
    BY <1>5
  <2>4. QED
    BY <2>2, <2>3, Zenon
<1>7. FromConfig(made, h)
        = [name |-> e.name, user_auth |-> e.user_auth, cipher |-> e.cipher,
           free |-> e.free, dns |-> e.dns, domain |-> e.domain, hosts |-> h]
  BY <1>5, <1>6, Zenon DEF FromConfig
<1>8. FromConfig(made, h) = WithHosts(e, h)
  BY <1>7, EditShape, Zenon
<1>9. QED
  BY <1>3, <1>4, <1>8

(* The check of an edit looks at the hosts only to normalize them.         *)
LEMMA ApplyAgain ==
    ASSUME NEW e, NEW n, NEW config, IsEdit(e), NEW h, n = WithHosts(e, h),
           NormalizeHosts(h) = NormalizeHosts(e.hosts)
    PROVE  ApplyTo(n, config) = ApplyTo(e, config)
<1>1. /\ n.name = e.name /\ n.user_auth = e.user_auth /\ n.cipher = e.cipher
      /\ n.free = e.free /\ n.dns = e.dns /\ n.domain = e.domain /\ n.hosts = h
  <2>1. n = [name |-> e.name, user_auth |-> e.user_auth, cipher |-> e.cipher,
             free |-> e.free, dns |-> e.dns, domain |-> e.domain, hosts |-> h]
    BY EditShape
  <2>2. QED
    BY <2>1
<1>2. FieldsStand(n) <=> FieldsStand(e)
  BY <1>1, Zenon DEF FieldsStand
<1>3. LoginOf(n, config) = LoginOf(e, config)
  BY <1>1, Zenon DEF LoginOf
<1>4. CASE e.name \in {Blank, "bad"}
  BY <1>1, <1>4, Zenon DEF ApplyTo
<1>5. CASE e.name \notin {Blank, "bad"} /\ ~FieldsStand(e)
  BY <1>1, <1>2, <1>5, Zenon DEF ApplyTo
<1>6. CASE e.name \notin {Blank, "bad"} /\ FieldsStand(e)
  BY <1>1, <1>2, <1>3, <1>6, Zenon DEF ApplyTo
<1>7. QED
  BY <1>4, <1>5, <1>6

(* The difference to one file laid over another: what differed is the      *)
(* edit's, the rest is the other file's.                                   *)
LEMMA OverlayOfDiff ==
    ASSUME NEW base, NEW e, NEW now
    PROVE  /\ \A f \in Fields : Overlay(Diff(base, e), now)[f]
                                  = IF base[f] = e[f] THEN now[f] ELSE e[f]
           /\ Overlay(Diff(base, e), now)
                = [f \in Fields |-> Overlay(Diff(base, e), now)[f]]
<1>1. \A f \in Fields : Diff(base, e)[f] = IF base[f] = e[f] THEN << >> ELSE <<e[f]>>
  BY DEF Diff
<1>2. \A f \in Fields : Overlay(Diff(base, e), now)[f]
        = IF Diff(base, e)[f] = << >> THEN now[f] ELSE Diff(base, e)[f][1]
  BY DEF Overlay
<1>3. Overlay(Diff(base, e), now) = [f \in Fields |-> Overlay(Diff(base, e), now)[f]]
  BY Zenon DEF Overlay
<1>4. \A x : <<x>> # << >> /\ <<x>>[1] = x
  OBVIOUS
<1>5. \A f \in Fields : Overlay(Diff(base, e), now)[f]
                          = IF base[f] = e[f] THEN now[f] ELSE e[f]
  BY <1>1, <1>2, <1>4
<1>6. QED
  BY <1>3, <1>5

-----------------------------------------------------------------------------
(* The profile as it is used.                                              *)

(* A load uses the file as it is when no field differs, the edit otherwise. *)
LEMMA LoadedIs ==
    ASSUME NEW config, NEW companion, NEW o, NEW base, base = FromConfig(config, companion),
           NEW edited, edited = Overlay(o, base)
    PROVE  LET used == Loaded(config, companion, o)
               norm == NormalizeHosts(edited.hosts)
           IN  /\ (\A f \in Fields : edited[f] = base[f]) =>
                     /\ used.config = config /\ ~used.dropped
                     /\ used.hosts = IF norm.ok THEN norm.hosts ELSE companion
               /\ ~(\A f \in Fields : edited[f] = base[f]) =>
                     /\ used.config = ApplyTo(edited, config).config
                     /\ used.dropped = ~ApplyTo(edited, config).ok
                     /\ used.hosts = IF ApplyTo(edited, config).ok /\ norm.ok
                                     THEN norm.hosts ELSE companion
<1> DEFINE names == Changed(o, base)
           norm == NormalizeHosts(edited.hosts)
           applied == ApplyTo(edited, config)
<1>1. Loaded(config, companion, o) =
        IF names = {}
        THEN [config |-> config, names |-> {}, dropped |-> FALSE,
              hosts |-> IF norm.ok THEN norm.hosts ELSE companion]
        ELSE [config  |-> applied.config,
              names   |-> IF applied.ok THEN names ELSE {},
              dropped |-> ~applied.ok,
              hosts   |-> IF applied.ok /\ norm.ok THEN norm.hosts ELSE companion]
  BY Zenon DEF Loaded
<1>2. names = {} <=> \A f \in Fields : edited[f] = base[f]
  BY DEF Changed
<1>3. PICK used : used = Loaded(config, companion, o)
  OBVIOUS
<1>4. PICK ok, made : ok = applied.ok /\ made = applied.config
  OBVIOUS
<1>5. PICK good, rows : good = norm.ok /\ rows = norm.hosts
  OBVIOUS
<1> HIDE DEF names, norm, applied
<1>6. CASE names = {}
  <2>1. used = [config |-> config, names |-> {}, dropped |-> FALSE,
                hosts |-> IF good THEN rows ELSE companion]
    BY <1>1, <1>3, <1>5, <1>6, Zenon
  <2>2. used.config = config /\ ~used.dropped
        /\ used.hosts = IF good THEN rows ELSE companion
    BY <2>1
  <2>3. QED
    BY <1>2, <1>3, <1>5, <1>6, <2>2, Zenon DEF norm
<1>7. CASE names # {}
  <2>1. used = [config |-> made, names |-> IF ok THEN names ELSE {}, dropped |-> ~ok,
                hosts |-> IF ok /\ good THEN rows ELSE companion]
    BY <1>1, <1>3, <1>4, <1>5, <1>7, Zenon
  <2>2. used.config = made /\ used.dropped = ~ok
        /\ used.hosts = IF ok /\ good THEN rows ELSE companion
    BY <2>1
  <2>3. QED
    BY <1>2, <1>3, <1>4, <1>5, <1>7, <2>2, Zenon DEF norm, applied
<1>8. QED
  BY <1>6, <1>7

(* An edit in effect is the file's profile with it laid over, but for a    *)
(* host list that is normalized.                                           *)
LEMMA UsedReads ==
    ASSUME ProfilesAssumption, NEW config, DOMAIN config = ConfigFields, NEW companion,
           NEW o, NEW edited, edited = Overlay(o, FromConfig(config, companion)),
           IsEdit(edited), ~Loaded(config, companion, o).dropped
    PROVE  LET used == Loaded(config, companion, o)
               norm == NormalizeHosts(edited.hosts)
           IN  /\ FromConfig(used.config, used.hosts) = WithHosts(edited, used.hosts)
               /\ used.hosts = IF norm.ok THEN norm.hosts ELSE companion
<1>1. PICK base : base = FromConfig(config, companion)
  OBVIOUS
<1>2. PICK used : used = Loaded(config, companion, o)
  OBVIOUS
<1>3. PICK norm : norm = NormalizeHosts(edited.hosts)
  OBVIOUS
<1>4. CASE \A f \in Fields : edited[f] = base[f]
  <2>1. used.config = config /\ used.hosts = IF norm.ok THEN norm.hosts ELSE companion
    BY <1>1, <1>2, <1>3, <1>4, LoadedIs
  <2>2. /\ base.name = config.name /\ base.user_auth = (config.login # NoLogin)
        /\ base.cipher = config.cipher /\ base.free = config.free /\ base.dns = config.dns
        /\ base.domain = config.domain
    BY <1>1 DEF FromConfig
  <2>3. /\ edited.name = base.name /\ edited.user_auth = base.user_auth
        /\ edited.cipher = base.cipher /\ edited.free = base.free
        /\ edited.dns = base.dns /\ edited.domain = base.domain
    BY <1>4 DEF Fields
  <2>4. FromConfig(config, used.hosts) = WithHosts(edited, used.hosts)
    <3>1. PICK rows : rows = used.hosts
      OBVIOUS
    <3>2. FromConfig(config, rows)
            = [name |-> edited.name, user_auth |-> edited.user_auth, cipher |-> edited.cipher,
               free |-> edited.free, dns |-> edited.dns, domain |-> edited.domain,
               hosts |-> rows]
      BY <2>2, <2>3, Zenon DEF FromConfig
    <3>3. WithHosts(edited, rows)
            = [name |-> edited.name, user_auth |-> edited.user_auth, cipher |-> edited.cipher,
               free |-> edited.free, dns |-> edited.dns, domain |-> edited.domain,
               hosts |-> rows]
      BY EditShape
    <3>4. QED
      BY <3>1, <3>2, <3>3
  <2>5. QED
    BY <1>2, <1>3, <2>1, <2>4
<1>5. CASE ~(\A f \in Fields : edited[f] = base[f])
  <2>1. /\ used.config = ApplyTo(edited, config).config
        /\ used.dropped = ~ApplyTo(edited, config).ok
        /\ used.hosts = IF ApplyTo(edited, config).ok /\ norm.ok THEN norm.hosts ELSE companion
    BY <1>1, <1>2, <1>3, <1>5, LoadedIs
  <2>2. ApplyTo(edited, config).ok
    BY <1>2, <2>1, ApplyShape
  <2>3. FromConfig(ApplyTo(edited, config).config, used.hosts)
          = WithHosts(edited, used.hosts)
    <3>1. PICK rows : rows = used.hosts
      OBVIOUS
    <3>2. FromConfig(ApplyTo(edited, config).config, rows) = WithHosts(edited, rows)
      BY <2>2, AppliedReads
    <3>3. QED
      BY <3>1, <3>2
  <2>4. QED
    BY <1>2, <1>3, <2>1, <2>2, <2>3
<1>6. QED
  BY <1>4, <1>5

-----------------------------------------------------------------------------
(* The last edit, as saved, over the file that is in place.                *)

\* An edit as it is saved: its hosts normalized.
Normal(e) == WithHosts(e, NormalizeHosts(e.hosts).hosts)

\* A save accepted the edit and keeps o of it.
KeptAs(e, config, o) == Saved(e, config, Companion) = [ok |-> TRUE, over |-> o]

(* Every edit is an edit record with finitely many numbered hosts.         *)
LEMMA EditsAre ==
    ASSUME ProfilesAssumption, NEW e \in Edits
    PROVE  IsEdit(e) /\ DOMAIN e.hosts \subseteq Nat /\ IsFiniteSet(DOMAIN e.hosts)
BY Zenon DEF ProfilesAssumption, IsEdit

(* Giving an edit other hosts changes no other field.                      *)
LEMMA WithHostsIs ==
    ASSUME NEW e, IsEdit(e), NEW h
    PROVE  /\ IsEdit(WithHosts(e, h)) /\ WithHosts(e, h).hosts = h
           /\ \A f \in Fields \ {"hosts"} : WithHosts(e, h)[f] = e[f]
<1>1. DOMAIN e = Fields
  BY DEF IsEdit
<1>2. WithHosts(e, h) = [f \in Fields |-> IF f = "hosts" THEN h ELSE e[f]]
  BY <1>1, Zenon DEF WithHosts
<1>3. "hosts" \in Fields /\ "user_auth" \in Fields /\ "user_auth" # "hosts"
  BY DEF Fields
<1>4. PICK n : n = WithHosts(e, h)
  OBVIOUS
<1>5. n.hosts = h /\ (\A f \in Fields \ {"hosts"} : n[f] = e[f]) /\ n = [f \in Fields |-> n[f]]
  BY <1>2, <1>3, <1>4
<1>6. n.user_auth \in BOOLEAN
  BY <1>3, <1>5 DEF IsEdit
<1>7. QED
  BY <1>4, <1>5, <1>6 DEF IsEdit

(* What a save keeps is the difference between the file and the edit with  *)
(* its hosts normalized, which applies again as it did.                    *)
LEMMA SavedIs ==
    ASSUME ProfilesAssumption, NEW e \in Edits, NEW config, DOMAIN config = ConfigFields,
           NEW o, KeptAs(e, config, o)
    PROVE  /\ o = Diff(FromConfig(config, Companion), Normal(e))
           /\ ApplyTo(Normal(e), config).ok
           /\ NormalizeHosts(Normal(e).hosts) = NormalizeHosts(e.hosts)
           /\ NormalizeHosts(e.hosts).ok
           /\ IsEdit(Normal(e))
<1> DEFINE applied == ApplyTo(e, config)
           rows == NormalizeHosts(e.hosts).hosts
           norm == FromConfig(applied.config, rows)
           kept == Diff(FromConfig(config, Companion), norm)
<1>1. Saved(e, config, Companion) = [ok |-> applied.ok, over |-> kept]
  BY Zenon DEF Saved
<1>2. applied.ok /\ o = kept
  <2> HIDE DEF applied, kept
  <2>1. [ok |-> applied.ok, over |-> kept] = [ok |-> TRUE, over |-> o]
    BY <1>1 DEF KeptAs
  <2>2. QED
    BY <2>1
<1>3. IsEdit(e) /\ DOMAIN e.hosts \subseteq Nat /\ IsFiniteSet(DOMAIN e.hosts)
  BY EditsAre
<1>4. norm = WithHosts(e, rows) /\ NormalizeHosts(e.hosts).ok
  BY <1>2, <1>3, AppliedReads
<1>5. norm = Normal(e)
  BY <1>4, Zenon DEF Normal
<1>6. NormalizeHosts(rows) = NormalizeHosts(e.hosts)
  BY <1>3, <1>4, NormalizeTwice
<1> HIDE DEF rows, applied, norm, kept
<1>7. IsEdit(Normal(e)) /\ Normal(e).hosts = rows
  BY <1>3, WithHostsIs DEF Normal, rows
<1>8. ApplyTo(Normal(e), config) = ApplyTo(e, config)
  BY <1>3, <1>6, ApplyAgain DEF Normal, rows
<1>9. o = Diff(FromConfig(config, Companion), Normal(e))
  BY <1>2, <1>5, Zenon DEF kept
<1>10. ApplyTo(Normal(e), config).ok
  BY <1>2, <1>8 DEF applied
<1>11. NormalizeHosts(Normal(e).hosts) = NormalizeHosts(e.hosts)
  BY <1>6, <1>7
<1>12. QED
  BY <1>4, <1>7, <1>9, <1>10, <1>11

(* What is known of the last edit while its profile is listed.             *)
LEMMA LastEdit ==
    ASSUME ProfilesAssumption, Kept, Listed, lastEdit # None
    PROVE  /\ file \in Files /\ DOMAIN file.config = ConfigFields
           /\ lastEdit.edit \in Edits
           /\ DOMAIN lastEdit.file.config = ConfigFields
           /\ KeptAs(lastEdit.edit, lastEdit.file.config, over)
<1>1. file \in Files
  BY DEF Kept, Typed, Listed
<1>2. \A f \in Files : DOMAIN f.config = ConfigFields
  BY ConfigsHave DEF ConfigFields
<1>3. QED
  BY <1>1, <1>2 DEF Kept, EditKept, KeptAs

(* Over the file it was made for, a saved edit is read back whole.         *)
LEMMA SavedEditStands ==
    ASSUME ProfilesAssumption, NEW config, DOMAIN config = ConfigFields, NEW e \in Edits,
           NEW o, KeptAs(e, config, o)
    PROVE  LET used == Loaded(config, Companion, o)
           IN  ~used.dropped /\ FromConfig(used.config, used.hosts) = Normal(e)
<1>1. PICK base : base = FromConfig(config, Companion)
  OBVIOUS
<1>2. PICK n : n = Normal(e)
  OBVIOUS
<1>3. PICK used : used = Loaded(config, Companion, o)
  OBVIOUS
<1>4. /\ o = Diff(base, n) /\ ApplyTo(n, config).ok /\ IsEdit(n)
      /\ NormalizeHosts(n.hosts).ok
      /\ NormalizeHosts(n.hosts).hosts = n.hosts
  <2>1. /\ o = Diff(base, n) /\ ApplyTo(n, config).ok /\ IsEdit(n)
        /\ NormalizeHosts(n.hosts) = NormalizeHosts(e.hosts)
        /\ NormalizeHosts(e.hosts).ok
    BY <1>1, <1>2, SavedIs
  <2>2. n.hosts = NormalizeHosts(e.hosts).hosts
    BY <1>2, EditsAre, WithHostsIs DEF Normal
  <2>3. QED
    BY <2>1, <2>2
<1>5. Overlay(o, base) = n
  <2>1. \A f \in Fields : Overlay(o, base)[f] = n[f]
    BY <1>4, OverlayOfDiff
  <2>2. Overlay(o, base) = [f \in Fields |-> Overlay(o, base)[f]]
    BY <1>4, OverlayOfDiff
  <2>3. n = [f \in Fields |-> n[f]]
    BY <1>4 DEF IsEdit
  <2>4. QED
    BY <2>1, <2>2, <2>3
<1>6. ~used.dropped
  BY <1>1, <1>3, <1>4, <1>5, LoadedIs
<1>7. used.hosts = n.hosts /\ FromConfig(used.config, used.hosts) = WithHosts(n, used.hosts)
  BY <1>1, <1>3, <1>4, <1>5, <1>6, UsedReads
<1>8. WithHosts(n, n.hosts) = n
  <2>1. PICK rows : rows = n.hosts
    OBVIOUS
  <2>2. /\ WithHosts(n, rows).hosts = rows /\ IsEdit(WithHosts(n, rows))
        /\ \A f \in Fields \ {"hosts"} : WithHosts(n, rows)[f] = n[f]
    BY <1>4, WithHostsIs
  <2>3. \A f \in Fields : WithHosts(n, rows)[f] = n[f]
    BY <2>1, <2>2
  <2>4. QED
    BY <1>4, <2>1, <2>2, <2>3 DEF IsEdit
<1>9. QED
  BY <1>2, <1>3, <1>6, <1>7, <1>8

(* A saved edit is in effect, whole and without a warning, whenever the    *)
(* file it was made for is in place (save_profile_edit, load).             *)
THEOREM EditsStand == Spec => []SavedEditsStand
<1>1. Kept => SavedEditsStand
  <2>1. SUFFICES ASSUME Kept, Listed, lastEdit # None, file = lastEdit.file
                 PROVE  /\ ~Effective.dropped
                        /\ ProfileEdit = Normal(lastEdit.edit)
    BY DEF SavedEditsStand, Normal, WithHosts
  <2>2. PICK config, e : config = file.config /\ e = lastEdit.edit
    OBVIOUS
  <2>3. /\ DOMAIN config = ConfigFields /\ e \in Edits
        /\ KeptAs(e, config, over)
    BY <2>1, <2>2, LastEdit, ProfilesAssumption
  <2>4. PICK used : used = Loaded(config, Companion, over)
    OBVIOUS
  <2>5. ~used.dropped /\ FromConfig(used.config, used.hosts) = Normal(e)
    BY <2>3, <2>4, SavedEditStands, ProfilesAssumption
  <2>6. Effective = used
    BY <2>2, <2>4 DEF Effective
  <2>7. QED
    BY <2>2, <2>5, <2>6 DEF ProfileEdit
<1>2. QED
  BY <1>1, KeptAlways, PTL

(* Over another file, a field that was left alone is that file's.          *)
LEMMA UntouchedFollows ==
    ASSUME ProfilesAssumption, NEW config, DOMAIN config = ConfigFields, NEW e \in Edits,
           NEW o, KeptAs(e, config, o),
           NEW other, DOMAIN other = ConfigFields,
           ~Loaded(other, Companion, o).dropped,
           NEW f \in Fields, Normal(e)[f] = FromConfig(config, Companion)[f]
    PROVE  LET used == Loaded(other, Companion, o)
           IN  FromConfig(used.config, used.hosts)[f] = FromConfig(other, Companion)[f]
<1>1. PICK base, now, n : /\ base = FromConfig(config, Companion)
                          /\ now = FromConfig(other, Companion) /\ n = Normal(e)
  OBVIOUS
<1>2. PICK used : used = Loaded(other, Companion, o)
  OBVIOUS
<1>3. PICK edited : edited = Overlay(o, now)
  OBVIOUS
<1>4. o = Diff(base, n) /\ IsEdit(n)
  <2>1. o = Diff(FromConfig(config, Companion), Normal(e)) /\ IsEdit(Normal(e))
    BY SavedIs
  <2>2. QED
    BY <1>1, <2>1
<1>5. /\ \A g \in Fields : edited[g] = IF base[g] = n[g] THEN now[g] ELSE n[g]
      /\ edited = [g \in Fields |-> edited[g]]
  BY <1>3, <1>4, OverlayOfDiff
<1>6. edited[f] = now[f]
  BY <1>1, <1>5
<1>7. now.user_auth \in BOOLEAN /\ now.hosts = Companion
  BY <1>1, Zenon DEF FromConfig
<1>8. IsEdit(edited)
  <2>1. "user_auth" \in Fields
    BY DEF Fields
  <2>2. CASE base.user_auth = n.user_auth
    BY <1>5, <1>7, <2>1, <2>2 DEF IsEdit
  <2>3. CASE base.user_auth # n.user_auth
    BY <1>4, <1>5, <2>1, <2>3 DEF IsEdit
  <2>4. QED
    BY <2>2, <2>3
<1>9. PICK norm : norm = NormalizeHosts(edited.hosts)
  OBVIOUS
<1>10. /\ FromConfig(used.config, used.hosts) = WithHosts(edited, used.hosts)
       /\ used.hosts = IF norm.ok THEN norm.hosts ELSE Companion
  BY <1>1, <1>2, <1>3, <1>8, <1>9, UsedReads
<1>11. CASE f # "hosts"
  <2>1. PICK rows : rows = used.hosts
    OBVIOUS
  <2>2. WithHosts(edited, rows)[f] = edited[f]
    BY <1>8, <1>11, WithHostsIs
  <2>3. QED
    BY <1>1, <1>2, <1>6, <1>10, <2>1, <2>2
<1>12. CASE f = "hosts"
  <2>1. edited.hosts = Companion
    BY <1>6, <1>7, <1>12
  <2>2. NormalizeHosts(Companion) = [ok |-> TRUE, hosts |-> Companion]
    BY Zenon DEF ProfilesAssumption
  <2>3. used.hosts = Companion
    BY <1>9, <1>10, <2>1, <2>2
  <2>4. WithHosts(edited, Companion).hosts = Companion
    BY <1>8, WithHostsIs
  <2>5. QED
    BY <1>1, <1>2, <1>7, <1>10, <1>12, <2>3, <2>4
<1>13. QED
  BY <1>11, <1>12

(* A field the user left alone follows whatever file is in place           *)
(* (Overrides::diff, overlay).                                             *)
THEOREM UntouchedFieldsFollow == Spec => []UntouchedFollowsFile
<1>1. Kept => UntouchedFollowsFile
  <2>1. SUFFICES ASSUME Kept, Listed, lastEdit # None, ~Effective.dropped, NEW f \in Fields,
                        Normal(lastEdit.edit)[f]
                          = FromConfig(lastEdit.file.config, Companion)[f]
                 PROVE  ProfileEdit[f] = FromConfig(file.config, Companion)[f]
    BY DEF UntouchedFollowsFile, Normal, WithHosts
  <2>2. PICK config, e, other : /\ config = lastEdit.file.config /\ e = lastEdit.edit
                                /\ other = file.config
    OBVIOUS
  <2>3. /\ DOMAIN config = ConfigFields /\ e \in Edits /\ DOMAIN other = ConfigFields
        /\ KeptAs(e, config, over)
    BY <2>1, <2>2, LastEdit, ProfilesAssumption
  <2>4. PICK used : used = Loaded(other, Companion, over)
    OBVIOUS
  <2>5. Effective = used
    BY <2>2, <2>4 DEF Effective
  <2>6. FromConfig(used.config, used.hosts)[f] = FromConfig(other, Companion)[f]
    <3>1. ~used.dropped /\ Normal(e)[f] = FromConfig(config, Companion)[f]
      BY <2>1, <2>2, <2>5
    <3>2. QED
      BY <2>3, <2>4, <3>1, UntouchedFollows, ProfilesAssumption
  <2>7. QED
    BY <2>2, <2>5, <2>6 DEF ProfileEdit
<1>2. QED
  BY <1>1, KeptAlways, PTL
=============================================================================
