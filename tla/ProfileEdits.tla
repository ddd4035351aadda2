---------------------------- MODULE ProfileEdits ----------------------------
(***************************************************************************)
(* The edits a user lays over an imported profile, as functions: what an   *)
(* edit is, how one is checked and applied to a configuration, how the     *)
(* difference to the file is kept and replayed (overrides.rs), and the     *)
(* profile that comes out of a file and its saved edits (load in           *)
(* backend.rs).                                                            *)
(*                                                                         *)
(* The twenty-one fields of an edit fall into classes, and a class stands  *)
(* for its fields: `name` is checked before the login round is looked at,  *)
(* `cipher` after it, `dns` and `domain` are checked together, `free` is   *)
(* never checked, `hosts` is not part of the configuration.  Values are    *)
(* trimmed; "bad" is a value the field's own check refuses.                *)
(***************************************************************************)
EXTENDS Naturals, FiniteSets

CONSTANT NoLogin    \* a configuration whose gateway asks for no login

Fields == {"name", "user_auth", "cipher", "free", "dns", "domain", "hosts"}

\* What the gateway says of a login that is asked for.
FreshLogin == [can_save |-> TRUE, otp |-> FALSE]

FromConfig(config, hosts) ==
    [name |-> config.name, user_auth |-> config.login # NoLogin,
     cipher |-> config.cipher, free |-> config.free, dns |-> config.dns,
     domain |-> config.domain, hosts |-> hosts]

(***************************************************************************)
(* Checking a host list: rows that are half filled, too long, doubled or   *)
(* beyond the limit.  A list is a sequence of rows [name, addr, port].     *)
(***************************************************************************)
MaxHosts == 64
Blank == ""

BadRow(h) == (h.name = Blank) # (h.addr = Blank) \/ h.port = 0

NormalizeHosts(hosts) ==
    LET rows == {i \in DOMAIN hosts : hosts[i].name # Blank \/ hosts[i].addr # Blank}
        kept == {i \in rows : \A k \in rows : k < i => hosts[k] # hosts[i]}
        nth(n) == CHOOSE i \in kept : Cardinality({k \in kept : k < i}) = n - 1
    IN  IF (\E i \in rows : BadRow(hosts[i])) \/ Cardinality(kept) > MaxHosts
        THEN [ok |-> FALSE, hosts |-> << >>]
        ELSE [ok |-> TRUE, hosts |-> [n \in 1 .. Cardinality(kept) |-> hosts[nth(n)]]]

(***************************************************************************)
(* Applying an edit.  A refusal leaves the configuration as far changed as *)
(* the code had come: a field refused after the login round was looked at  *)
(* has already taken the login out, and the hosts are checked when all is  *)
(* applied.                                                                *)
(***************************************************************************)
LoginOf(e, config) ==
    IF ~e.user_auth THEN NoLogin
    ELSE IF config.login = NoLogin THEN FreshLogin ELSE config.login

FieldsStand_ServersAlways(e) ==
    e.cipher # "bad" /\ e.dns \notin {"bad", Blank} /\ e.domain # "bad"

FieldsStand(e) ==
    /\ e.cipher # "bad" /\ e.dns # "bad" /\ e.domain # "bad"
    /\ e.domain = Blank \/ e.dns # Blank

ApplyTo(e, config) ==
    IF e.name \in {Blank, "bad"} THEN [ok |-> FALSE, config |-> config]
    ELSE IF ~FieldsStand(e)
         THEN [ok |-> FALSE, config |-> [config EXCEPT !.login = NoLogin]]
         ELSE [ok |-> NormalizeHosts(e.hosts).ok,
               config |-> [config EXCEPT !.name = e.name, !.login = LoginOf(e, config),
                                         !.cipher = e.cipher, !.free = e.free,
                                         !.dns = e.dns, !.domain = e.domain]]

Diff_KeepsAll(base, edited) == [f \in Fields |-> <<edited[f]>>]

Diff(base, edited) ==
    [f \in Fields |-> IF base[f] = edited[f] THEN << >> ELSE <<edited[f]>>]

\* A kept field is a sequence of one value; an empty sidecar holds none.
NoOverrides == [f \in Fields |-> << >>]

Overlay(over, base) ==
    [f \in Fields |-> IF over[f] = << >> THEN base[f] ELSE over[f][1]]

Changed(over, base) == {f \in Fields : Overlay(over, base)[f] # base[f]}

(***************************************************************************)
(* The profile as it is used: the file with the saved edits replayed.  An  *)
(* edit that no longer applies is dropped.                                 *)
(***************************************************************************)
Loaded(config, companion, over) ==
    LET base    == FromConfig(config, companion)
        edited  == Overlay(over, base)
        names   == Changed(over, base)
        norm    == NormalizeHosts(edited.hosts)
        applied == ApplyTo(edited, config)
    IN  IF names = {}
        THEN [config |-> config, names |-> {}, dropped |-> FALSE,
              hosts |-> IF norm.ok THEN norm.hosts ELSE companion]
        ELSE [config  |-> applied.config,
              names   |-> IF applied.ok THEN names ELSE {},
              dropped |-> ~applied.ok,
              hosts   |-> IF applied.ok /\ norm.ok THEN norm.hosts ELSE companion]

(***************************************************************************)
(* What a save keeps of an edit: nothing unless it applies to the file.    *)
(***************************************************************************)
Saved_Unchecked(e, config, companion) ==
    [ok |-> TRUE, over |-> Diff(FromConfig(config, companion), e)]

Saved(e, config, companion) ==
    LET applied == ApplyTo(e, config)
        norm == FromConfig(applied.config, NormalizeHosts(e.hosts).hosts)
    IN  [ok |-> applied.ok, over |-> Diff(FromConfig(config, companion), norm)]

=============================================================================
