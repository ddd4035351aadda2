------------------------------ MODULE Profiles ------------------------------
(***************************************************************************)
(* What the desktop client keeps of one profile: the imported file, the    *)
(* sidecar of edits, the learned IKE version, and in the keychain the key  *)
(* and the login (backend.rs, overrides.rs, creds.rs), with the commands   *)
(* that write them.                                                        *)
(*                                                                         *)
(* Every store is keyed by the profile's id and no command here touches    *)
(* the stores of two ids, so one id stands for all.  Commands run on the   *)
(* blocking pool (main.rs), each when the window asks and beside others    *)
(* that run; connect and the removals are the ones that write several      *)
(* stores, and take a step for each.  The check and the write of one       *)
(* import are one step; one connect and one removal run at a time.  Which  *)
(* tunnels are up is the matter of IkeConnect and SslBroker.               *)
(***************************************************************************)
EXTENDS ProfileEdits

CONSTANTS
    None,
    Files,      \* the profile files that may be imported under this id
    Edits,      \* the edits the window may send
    Companion,  \* the host list shipped beside the profile
    MaxLife     \* bound: how often the id is imported afresh

Logins == [can_save : BOOLEAN, otp : BOOLEAN]

\* Edits come from a form, and the companion list is normalized as it is read.
ASSUME ProfilesAssumption ==
    /\ None \notin Files /\ MaxLife \in Nat \ {0}
    /\ NoLogin \notin Logins
    /\ \A f \in Files : /\ f.ext \in {"ini", "scx", "tgb", "mobileconfig", "ovpn"}
                        /\ DOMAIN f.config = (Fields \ {"user_auth", "hosts"})
                                                \cup {"login", "psk"}
                        /\ f.config.login \in Logins \cup {NoLogin}
    /\ \A e \in Edits : /\ e = [g \in Fields |-> e[g]]
                        /\ e.user_auth \in BOOLEAN
                        /\ DOMAIN e.hosts \subseteq Nat /\ IsFiniteSet(DOMAIN e.hosts)
    /\ NormalizeHosts(Companion) = [ok |-> TRUE, hosts |-> Companion]

Stores == {"sidecar", "version", "key", "login"}

VARIABLES
    file,       \* the file imported, or None
    over,       \* the edits in the sidecar
    version,    \* the .ikever file: whether a version is learned
    key,        \* the key in the keychain, or None
    login,      \* whether a login is in the keychain
    connect,    \* the connect that runs
    delete,     \* where the removal that runs stands, or "idle"
    life,       \* history: how often the id was imported afresh
    owner,      \* history: the life each store was last written in
    excused,    \* history: stores a removal could not clear, or written behind it
    lastEdit    \* history: the last edit saved, and the file it was made for

stores  == <<file, over, version, key, login>>
history == <<life, owner, excused, lastEdit>>
vars    == <<file, over, version, key, login, connect, delete,
             life, owner, excused, lastEdit>>

IsSsl == file # None /\ file.ext = "ovpn"

\* A file that does not parse, which a portal may have sent, is not listed.
Listed == file # None /\ (IsSsl \/ file.valid)

Effective == Loaded(file.config, Companion, over)

\* What the edit dialog opens on.
ProfileEdit == FromConfig(Effective.config, Effective.hosts)

NoConnect == [at |-> "idle", ssl |-> FALSE, life |-> 0]

Init ==
    /\ file = None /\ over = NoOverrides /\ version = FALSE
    /\ key = None /\ login = FALSE
    /\ connect = NoConnect /\ delete = "idle"
    /\ life = 0 /\ owner = [s \in Stores |-> 0] /\ excused = {}
    /\ lastEdit = None

-----------------------------------------------------------------------------
(* History: a store written while its profile is gone, or is going with    *)
(* the app, is written behind a removal.                                   *)

Behind(during) == file = None \/ during # life \/ delete = "directories"

Wrote(s, during) ==
    /\ owner' = [owner EXCEPT ![s] = during]
    /\ excused' = IF Behind(during) THEN excused \cup {s} ELSE excused \ {s}

Cleared(s) == excused' = excused \ {s} /\ owner' = [owner EXCEPT ![s] = 0]

(* The window sends a command for a profile it lists, and lists afresh     *)
(* only when a removal has ended; a command that does not read the file    *)
(* asks no more.                                                           *)
Ask == Listed \/ delete # "idle"

-----------------------------------------------------------------------------
(* Importing, from a file, a portal or a link: the same name in the same   *)
(* format is replaced, in another format refused.                          *)

SaveImported(f) ==
    /\ file # None => file.ext = f.ext
    /\ file' = f
    /\ IF file = None THEN life < MaxLife /\ life' = life + 1 ELSE life' = life
    /\ UNCHANGED <<over, version, key, login, connect, delete, owner,
                   excused, lastEdit>>

ImportPath(f) == f.valid /\ SaveImported(f)

\* A provisioning file names a portal; what that serves is stored unread.
ImportFromPortal(f) == f.ext \in {"ovpn", "mobileconfig"} /\ SaveImported(f)

-----------------------------------------------------------------------------
(* The edit dialog.                                                        *)

SaveEdit(e) ==
    /\ Listed /\ ~IsSsl
    /\ LET s == Saved(e, file.config, Companion)
       IN  /\ s.ok
           /\ over' = s.over
           /\ IF s.over = NoOverrides THEN Cleared("sidecar") ELSE Wrote("sidecar", life)
    /\ lastEdit' = [file |-> file, edit |-> e]
    /\ UNCHANGED <<file, version, key, login, connect, delete, life>>

ResetEdit ==
    /\ Ask
    /\ over' = NoOverrides /\ lastEdit' = None /\ Cleared("sidecar")
    /\ UNCHANGED <<file, version, key, login, connect, delete, life>>

-----------------------------------------------------------------------------
(* The keychain.                                                           *)

SaveCredentials ==
    /\ Listed /\ ~IsSsl
    /\ key' = file.config.psk /\ Wrote("key", life)
    /\ UNCHANGED <<file, over, version, login, connect, delete, life, lastEdit>>

SetCredentials ==
    /\ Ask
    /\ key' = "typed" /\ Wrote("key", life)
    /\ UNCHANGED <<file, over, version, login, connect, delete, life, lastEdit>>

ForgetCredentials ==
    /\ Ask
    /\ key' = None /\ Cleared("key")
    /\ UNCHANGED <<file, over, version, login, connect, delete, life, lastEdit>>

ForgetUserLogin ==
    /\ Ask
    /\ login' = FALSE /\ Cleared("login")
    /\ UNCHANGED <<file, over, version, key, connect, delete, life, lastEdit>>

NeedsUserLogin ==
    /\ Listed /\ ~login
    /\ IF IsSsl THEN file.config.login # NoLogin ELSE Effective.config.login # NoLogin

-----------------------------------------------------------------------------
(* Connecting.  The prompt comes first when a login is needed; a login     *)
(* typed is kept if the box is ticked and the profile lets it.             *)

Keepable(config) == config.login.can_save /\ ~config.login.otp

ResolveUserLogin_Blind(save) ==
    save /\ (IsSsl \/ (Effective.config.login # NoLogin /\ Effective.config.login.can_save))

ResolveUserLogin(save) ==
    IF NeedsUserLogin \/ save
    THEN save /\ (IsSsl \/ (Effective.config.login # NoLogin /\ Keepable(Effective.config)))
    ELSE FALSE

ConnectStart(save) ==
    /\ Listed /\ connect = NoConnect
    /\ connect' = [at |-> "dialling", ssl |-> IsSsl, life |-> life]
    /\ IF ResolveUserLogin(save)
       THEN login' = TRUE /\ Wrote("login", life)
       ELSE UNCHANGED <<login, owner, excused>>
    /\ UNCHANGED <<file, over, version, key, delete, life, lastEdit>>

ConnectUp ==
    /\ connect.at = "dialling"
    /\ connect' = IF connect.ssl THEN NoConnect ELSE [connect EXCEPT !.at = "up"]
    /\ UNCHANGED <<stores, delete, history>>

ConnectFails ==
    /\ connect.at = "dialling"
    /\ connect' = NoConnect
    /\ UNCHANGED <<stores, delete, history>>

\* It came up at the profile's own version, or at the other one.
RememberVersion ==
    /\ connect.at = "up"
    /\ \/ version' = FALSE /\ Cleared("version")
       \/ /\ version' = TRUE
          /\ IF version THEN UNCHANGED <<owner, excused>> ELSE Wrote("version", connect.life)
    /\ connect' = NoConnect
    /\ UNCHANGED <<file, over, key, login, delete, life, lastEdit>>

VersionExpires ==
    /\ version /\ version' = FALSE /\ Cleared("version")
    /\ UNCHANGED <<file, over, key, login, connect, delete, life, lastEdit>>

-----------------------------------------------------------------------------
(* Deleting: the tunnel, the file, and then each store in turn.  Whether   *)
(* the tunnel went down holds nothing up and writes no store.  A step      *)
(* that fails ends the command, and with the file gone it cannot be asked  *)
(* for again.                                                              *)

DeleteTearsDown ==
    /\ Listed /\ delete = "idle"
    /\ delete' = "file"
    /\ UNCHANGED <<stores, connect, history>>

DeleteFile ==
    /\ delete = "file"
    /\ \/ file' = None /\ delete' = "sidecar"
       \/ file' = file /\ delete' = "idle"
    /\ UNCHANGED <<over, version, key, login, connect, history>>

After == [sidecar |-> "version", version |-> "key", key |-> "login", login |-> "idle"]

Filled(s) == CASE s = "sidecar" -> over # NoOverrides
               [] s = "version" -> version
               [] s = "key"     -> key # None
               [] s = "login"   -> login

\* The delete has no login to remove of a profile that keeps the key alone.
Clear_KeyOnly(s) ==
    /\ over'    = IF s = "sidecar" THEN NoOverrides ELSE over
    /\ version' = IF s = "version" THEN FALSE ELSE version
    /\ key'     = IF s = "key" THEN None ELSE key
    /\ login'   = login

Clear(s) ==
    /\ over'    = IF s = "sidecar" THEN NoOverrides ELSE over
    /\ version' = IF s = "version" THEN FALSE ELSE version
    /\ key'     = IF s = "key" THEN None ELSE key
    /\ login'   = IF s = "login" THEN FALSE ELSE login

DeleteStore(s) ==
    /\ delete = s
    /\ Clear(s) /\ Cleared(s)
    /\ delete' = After[s]
    /\ lastEdit' = IF s = "sidecar" THEN None ELSE lastEdit
    /\ UNCHANGED <<file, connect, life>>

Remaining == [sidecar |-> Stores, key |-> {"key", "login"}, login |-> {"login"}]

\* The learned version is removed as well as may be, and holds nothing up.
DeleteStoreFails(s) ==
    /\ delete = s /\ Filled(s)
    /\ delete' = IF s = "version" THEN After[s] ELSE "idle"
    /\ excused' = excused \cup
                    {t \in (IF s = "version" THEN {s} ELSE Remaining[s]) : Filled(t)}
    /\ UNCHANGED <<stores, connect, life, owner, lastEdit>>

-----------------------------------------------------------------------------
(* Removing the app.  The keychain goes first, while the profiles still    *)
(* tell which entries there are, then the directories with all the rest;   *)
(* what cannot be removed is reported and holds nothing up.                *)

RemoveKeychain ==
    /\ delete = "idle" /\ file # None
    /\ \E kept \in SUBSET {s \in {"key", "login"} : Filled(s)} :
          /\ ~Listed => kept = {s \in {"key", "login"} : Filled(s)}
          /\ key'   = IF "key" \in kept THEN key ELSE None
          /\ login' = ("login" \in kept)
          /\ excused' = excused \cup kept
    /\ delete' = "directories"
    /\ UNCHANGED <<file, over, version, connect, life, owner, lastEdit>>

\* A directory that cannot be removed may have lost some of its files.
RemoveDirectories ==
    /\ delete = "directories" /\ delete' = "idle"
    /\ \E left \in SUBSET {s \in {"sidecar", "version"} : Filled(s)} :
          /\ over'     = IF "sidecar" \in left THEN over ELSE NoOverrides
          /\ lastEdit' = IF "sidecar" \in left THEN lastEdit ELSE None
          /\ version'  = ("version" \in left)
          /\ excused'  = excused \cup left
    /\ file' \in {file, None}
    /\ UNCHANGED <<key, login, connect, life, owner>>

-----------------------------------------------------------------------------
Next ==
    \/ \E f \in Files : ImportPath(f) \/ ImportFromPortal(f)
    \/ \E e \in Edits : SaveEdit(e)
    \/ ResetEdit \/ SaveCredentials \/ SetCredentials
    \/ ForgetCredentials \/ ForgetUserLogin
    \/ \E save \in BOOLEAN : ConnectStart(save)
    \/ ConnectUp \/ ConnectFails \/ RememberVersion \/ VersionExpires
    \/ DeleteTearsDown \/ DeleteFile \/ RemoveKeychain \/ RemoveDirectories
    \/ \E s \in Stores : DeleteStore(s) \/ DeleteStoreFails(s)

Spec == Init /\ [][Next]_vars

-----------------------------------------------------------------------------
(* Deleting a profile, or the app, leaves nothing behind that the next     *)
(* profile imported under its name would take for its own: a store is      *)
(* filled only from the present profile's life, unless the removal failed  *)
(* at the store or before it came to it, a command wrote to the store      *)
(* behind it, or the app was removed while the profile was one that could  *)
(* not be listed (delete_profile, uninstall_app).                          *)
NothingInherited ==
    delete = "idle" =>
        \A s \in Stores : Filled(s) /\ (file = None \/ owner[s] # life) => s \in excused

(* An edit that was saved is in effect, whole and without a warning, as    *)
(* long as the file it was made for is the one in place and no reset or    *)
(* removal took it, also when another file was there in between.           *)
SavedEditsStand ==
    Listed /\ lastEdit # None =>
        (file = lastEdit.file =>
            /\ ~Effective.dropped
            /\ ProfileEdit = [lastEdit.edit EXCEPT !.hosts = NormalizeHosts(@).hosts])

(* A field the user left alone follows the file: importing the profile     *)
(* again changes it, whatever edits are kept beside it.                    *)
UntouchedFollowsFile ==
    Listed /\ lastEdit # None =>
        LET then == FromConfig(lastEdit.file.config, Companion)
            now  == FromConfig(file.config, Companion)
            used == ProfileEdit
            left == [lastEdit.edit EXCEPT !.hosts = NormalizeHosts(@).hosts]
        IN  ~Effective.dropped =>
                \A f \in Fields : left[f] = then[f] => used[f] = now[f]

(* A login a gateway says must not be kept, or that holds a one-time code, *)
(* is never put in the keychain by a connect, whatever was edited and      *)
(* whatever file was imported since.                                       *)
OnlyKeepableLogins ==
    [][login' /\ ~login => IsSsl \/ file.config.login \in {NoLogin, FreshLogin}]_vars

=============================================================================
