---------------------------- MODULE CharonConfig ----------------------------
(***************************************************************************)
(* What charon is told of a profile: the proposals offered (model.rs), the *)
(* connection with its rounds and children, the secrets and whom they      *)
(* belong to (bridge.rs), and the same profile as a swanctl.conf           *)
(* (swanctl.rs).  Algorithms and identities are values, a proposal is the  *)
(* record of its terms; NoTerm is a term that is left out.                 *)
(***************************************************************************)
EXTENDS Naturals, Sequences, SequencesExt

CONSTANT NoLogin        \* the gateway asks for no login

NoTerm == "none"

IntegStrength == [sha1 |-> 160, sha256 |-> 256, sha384 |-> 384, sha512 |-> 512]
DhStrength == [modp1024 |-> 1024, modp1536 |-> 1536, modp2048 |-> 2048, ecp256 |-> 3072,
               modp3072 |-> 3072, ecp384 |-> 4096, modp4096 |-> 4096]
MatchingPrf == [sha1 |-> "prfsha1", sha256 |-> "prfsha256", sha384 |-> "prfsha384",
                sha512 |-> "prfsha512"]
AtLeastSha256 == <<"sha512", "sha384", "sha256">>

Once(s) == FoldLeft(LAMBDA out, x : IF Contains(out, x) THEN out ELSE Append(out, x),
                    << >>, s)

(***************************************************************************)
(* Proposals.  IKEv1 has no term for the PRF.  Beside the profile's own,   *)
(* variants with a stronger integrity algorithm or group are offered.      *)
(***************************************************************************)
Proposal(config, integ, prf, dh) ==
    [enc |-> config.ike_enc, integ |-> integ, dh |-> dh,
     prf |-> IF config.version = 1 THEN NoTerm ELSE prf]

IkeProposal(config) == Proposal(config, config.ike_integ, config.ike_prf, config.ike_dh)

NoWeaker(config, integ, dh) ==
    /\ DhStrength[dh] >= DhStrength[config.ike_dh]
    /\ IntegStrength[integ] >= IntegStrength[config.ike_integ]

IkeProposals(config) ==
    LET groups == <<config.ike_dh, "modp3072", "modp2048">>
        variant(k) == <<AtLeastSha256[((k - 1) \div 3) + 1], groups[((k - 1) % 3) + 1]>>
        stronger == SelectSeq([k \in 1 .. 9 |-> variant(k)],
                        LAMBDA v : /\ v # <<config.ike_integ, config.ike_dh>>
                                   /\ NoWeaker(config, v[1], v[2]))
    IN  Once(<<IkeProposal(config)>> \o
             [k \in DOMAIN stronger |->
                Proposal(config, stronger[k][1], MatchingPrf[stronger[k][1]], stronger[k][2])])

EspProposal(config) == [enc |-> config.esp_enc, integ |-> config.esp_integ, pfs |-> config.pfs]

EspProposals(config) ==
    LET stronger == SelectSeq(AtLeastSha256,
                        LAMBDA i : /\ i # config.esp_integ
                                   /\ IntegStrength[i] >= IntegStrength[config.esp_integ])
    IN  <<EspProposal(config)>> \o
        [k \in DOMAIN stronger |-> [EspProposal(config) EXCEPT !.integ = stronger[k]]]

(***************************************************************************)
(* The connection.  A child is its number, 0 for the one named after the   *)
(* connection; under IKEv1 each of several networks needs its own.         *)
(***************************************************************************)
ChildSelectors(config, version) ==
    IF version = 1 /\ Len(config.nets) > 1
    THEN [i \in 1 .. Len(config.nets) |-> [child |-> i, nets |-> <<config.nets[i]>>]]
    ELSE <<[child |-> 0, nets |-> config.nets]>>

UserAuthMethod(version) == IF version = 1 THEN "xauth" ELSE "eap-mschapv2"

LocalId(config) ==
    [type |-> IF config.local_id = NoTerm \/ config.local_id_type = "ipv4" THEN NoTerm
              ELSE config.local_id_type, id |-> config.local_id]

LoadConn(config, version) ==
    [version   |-> version,
     remote    |-> config.gateway,
     proposals |-> IkeProposals(config),
     rounds    |-> <<[auth |-> "psk", id |-> LocalId(config)]>> \o
                   IF config.login = NoLogin THEN << >>
                   ELSE <<[auth |-> UserAuthMethod(version), id |-> config.user]>>,
     children  |-> LET s == ChildSelectors(config, version)
                   IN  [i \in DOMAIN s |->
                         [child |-> s[i].child, esp |-> EspProposals(config),
                          dpd |-> IF config.redial THEN "restart" ELSE "clear",
                          close |-> IF config.redial THEN "restart" ELSE "none",
                          start |-> "none", ipcomp |-> config.compression,
                          remote_ts |-> s[i].nets]],
     dpd_delay |-> config.dpd_delay,
     vips      |-> config.vip]

(***************************************************************************)
(* Secrets.  Charon looks one up by the identities of both ends, the far   *)
(* end first; "%any" matches whoever is there, worse than by name.         *)
(***************************************************************************)
SecretOwners_LocalOnly(locals, peers) ==
    LET named == locals \ {NoTerm, ""}
    IN  IF named = {} THEN {"%any"} ELSE named

SecretOwners(locals, peers) ==
    LET named == (locals \cup peers) \ {NoTerm, ""}
    IN  IF named = {} THEN {"%any"} ELSE named

LoadShared(config, name, peers) ==
    [id |-> <<"ike", name>>, type |-> "IKE", data |-> config.psk,
     owners |-> SecretOwners({config.local_id}, peers)]

LoadSharedUserAuth(config, name, password, version, peers) ==
    [id |-> <<"user", name>>, type |-> IF version = 1 THEN "XAUTH" ELSE "EAP",
     data |-> password, owners |-> SecretOwners({config.user}, peers)]

Match(secret, id) ==
    IF id \in secret.owners THEN 2 ELSE IF "%any" \in secret.owners THEN 1 ELSE 0

\* The secrets charon may take for an exchange between `me` and `peer`.
Chosen(loaded, type, me, peer) ==
    LET rank(s) == 3 * Match(s, peer) + Match(s, me)
        fit == {s \in loaded : s.type = type /\ rank(s) > 0}
    IN  {s \in fit : \A t \in fit : rank(t) <= rank(s)}

(***************************************************************************)
(* The same as a file for swanctl, which the command line tool prints.     *)
(***************************************************************************)
Render(config, redact) ==
    [version |-> config.version, remote |-> config.gateway, vips |-> config.vip,
     proposals |-> <<IkeProposal(config)>>,
     rounds |-> LoadConn(config, config.version).rounds,
     children |-> <<[child |-> 0, remote_ts |-> config.nets,
                     esp |-> <<EspProposal(config)>>, ipcomp |-> config.compression,
                     start |-> "none"]>>,
     secret |-> [owner |-> LocalId(config),
                 data |-> IF redact THEN "redacted" ELSE config.psk]]

=============================================================================
