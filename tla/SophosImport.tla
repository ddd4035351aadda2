---------------------------- MODULE SophosImport ----------------------------
(***************************************************************************)
(* The importers of a Sophos firewall's files (sophos-profile): the legacy *)
(* .tgb, the .scx, the portal's .mobileconfig and the .pro that only       *)
(* points at a portal.  An import is refused whole or yields a             *)
(* configuration; its warnings are left out.                               *)
(***************************************************************************)
EXTENDS IniDocument, Ipv4, CharonConfig

\* A table of words and what each stands for.
Table(pairs) == [w \in {p[1] : p \in pairs} |-> (CHOOSE p \in pairs : p[1] = w)[2]]
Lookup(table, word) == IF word \in DOMAIN table THEN table[word] ELSE NoTerm

\* Characters a host name may hold, and 1 to 255 of them.
ValidGateway(text) == text \notin {"", "bad host", Nothing}

\* A file is refused whole, or it is imported.
Refused == [ok |-> FALSE]
Imported(config) == [ok |-> TRUE, config |-> config]

(***************************************************************************)
(* .tgb: algorithms behind a chain of references.                          *)
(***************************************************************************)
AesKey == Table({<<"128", "aes128">>, <<"192", "aes192">>, <<"256", "aes256">>})
OtherLengths == {"64", "512"}

\* An AES without a readable key length is taken for the longest.
EncAlg(cipher, length) ==
    IF cipher \notin {"AES", "AES_CBC"} \/ length \in OtherLengths THEN NoTerm
    ELSE IF length \in DOMAIN AesKey THEN AesKey[length] ELSE "aes256"

IntegNames == [SHA |-> "sha1", SHA2_256 |-> "sha256", SHA2_384 |-> "sha384",
               SHA2_512 |-> "sha512"]

IntegAlg(word) == Lookup(IntegNames, word)

GroupNames == [MODP_1024 |-> "modp1024", MODP_1536 |-> "modp1536", MODP_2048 |-> "modp2048",
               MODP_3072 |-> "modp3072", MODP_4096 |-> "modp4096", ECP_256 |-> "ecp256",
               ECP_384 |-> "ecp384"]
DhGroup(word) == Lookup(GroupNames, word)

IdTypes == [IPV4_ADDR |-> "ipv4", FQDN |-> "fqdn", USER_FQDN |-> "rfc822", KEY_ID |-> "keyid"]

\* A peer's section is called after its connection, with this at its end.
WithoutP1(name) == IF name = "corp-P1" THEN "corp" ELSE name

Seconds == Table({<<"60", 60>>})
DefaultDelay == 30

FirstEntry(s) == IF s.entries = << >> THEN Absent ELSE s.entries[1].value
Follow(doc, s, key) == Section(doc, First(Get(s, key)))

\* The peer through the first connection, else the first phase 1 names.
IsakmpPeer(doc) ==
    LET first == FirstEntry(Section(doc, "Phase 2"))
        conn  == Section(doc, First(first))
    IN  IF first # Absent /\ conn = NoSection THEN NoSection
        ELSE IF Has(conn, "ISAKMP-peer") THEN Section(doc, Whole(Get(conn, "ISAKMP-peer")))
        ELSE Section(doc, Whole(FirstEntry(Section(doc, "Phase 1"))))

Connection(doc) == Section(doc, First(FirstEntry(Section(doc, "Phase 2"))))

\* No remote id leaves the choice of networks to the gateway.
RemoteSelectors(doc, conn) ==
    LET id == Section(doc, Whole(Get(conn, "Remote-ID")))
        of(key) == Whole(Get(id, key))
    IN  IF ~Has(conn, "Remote-ID") THEN << >>
        ELSE IF of("ID-Type") = "IPV4_ADDR_SUBNET"
             THEN <<FromAddrAndMask(of("Network"), of("Netmask"))>>
        ELSE IF of("ID-Type") = "IPV4_ADDR"
             THEN <<FromText([addr |-> of("Address"), len |-> -1])>>
             ELSE <<NoNet>>

LocalIdentity(doc, peer) ==
    LET id == Section(doc, Whole(Get(peer, "ID")))
        keys == <<"Address", "Value", "FQDN", "Email", "ID">>
        held == SelectInSeq(keys, LAMBDA k : Has(id, k))
        value == IF held = 0 THEN "" ELSE Whole(Get(id, keys[held]))
    IN  IF ~Has(peer, "ID") \/ value \in {"", Nothing}
        THEN [ok |-> ~Has(peer, "ID") \/ id # NoSection, id |-> NoTerm, type |-> NoTerm]
        ELSE [ok |-> TRUE, id |-> value,
              type |-> Lookup(IdTypes, Whole(Get(id, "ID-Type")))]

\* Two values may be left out, and if they stand they must say this.
Unstated(s, key, only) == Has(s, key) => Whole(Get(s, key)) = only

Word(s, key) == Whole(Get(s, key))
TransformEnc(s, key) == EncAlg(Word(s, key), First(Get(s, "KEY_LENGTH")))

Phase1(doc, peer) ==
    LET mode == Section(doc, Word(peer, "Configuration"))
        t    == Follow(doc, mode, "Transforms")
    IN  [enc |-> TransformEnc(t, "ENCRYPTION_ALGORITHM"),
         integ |-> IntegAlg(Word(t, "HASH_ALGORITHM")),
         dh |-> DhGroup(Word(t, "GROUP_DESCRIPTION")),
         ok |-> /\ Word(mode, "EXCHANGE_TYPE") = "ID_PROT"
                /\ Word(t, "AUTHENTICATION_METHOD") \in
                     {"PRE_SHARED", "XAUTH_INIT_PRE_SHARED"}]

Phase2(doc, conn) ==
    LET suite == Follow(doc, Section(doc, Word(conn, "Configuration")), "Suites")
        proto == Follow(doc, suite, "Protocols")
        t     == Follow(doc, proto, "Transforms")
        pfs   == DhGroup(Word(t, "GROUP_DESCRIPTION"))
        asked == Has(t, "GROUP_DESCRIPTION") /\ Get(t, "GROUP_DESCRIPTION") # << >>
    IN  [enc |-> TransformEnc(t, "TRANSFORM_ID"),
         integ |-> IntegAlg(Word(t, "AUTHENTICATION_ALGORITHM")),
         pfs |-> IF asked THEN pfs ELSE NoTerm,
         nets |-> RemoteSelectors(doc, conn),
         ok |-> /\ suite # NoSection /\ proto # NoSection
                /\ Unstated(proto, "PROTOCOL_ID", "IPSEC_ESP")
                /\ Unstated(t, "ENCAPSULATION_MODE", "TUNNEL")
                /\ asked => pfs # NoTerm]

\* A file that says there is no XAuth is believed, with a warning.
TgbLogin(peer) ==
    IF Has(peer, "Xauth") /\ Word(peer, "Xauth") # "0"
    THEN [can_save |-> TRUE, otp |-> FALSE] ELSE NoLogin

TgbDelay(doc) ==
    LET delay == Word(Section(doc, "General"), "DPD-interval")
    IN  IF delay \in DOMAIN Seconds THEN Seconds[delay] ELSE DefaultDelay

ImportTgb(doc) ==
    LET peer  == IsakmpPeer(doc)
        conn  == Connection(doc)
        local == LocalIdentity(doc, peer)
        p1    == Phase1(doc, peer)
        p2    == Phase2(doc, conn)
    IN  IF /\ peer # NoSection /\ conn # NoSection
           /\ ValidGateway(Word(peer, "Address"))
           /\ Get(peer, "Authentication") \notin {Absent, << >>}
           /\ local.ok /\ p1.ok /\ p2.ok
           /\ NoTerm \notin {p1.enc, p1.integ, p1.dh, p2.enc, p2.integ}
           /\ NoNet \notin Range(p2.nets)
        THEN Imported(
            [version |-> 1, name |-> WithoutP1(peer.name), gateway |-> Word(peer, "Address"),
             psk |-> Word(peer, "Authentication"), local_id |-> local.id,
             local_id_type |-> local.type, login |-> TgbLogin(peer),
             ike_enc |-> p1.enc, ike_integ |-> p1.integ, ike_prf |-> MatchingPrf[p1.integ],
             ike_dh |-> p1.dh, esp_enc |-> p2.enc, esp_integ |-> p2.integ, pfs |-> p2.pfs,
             nets |-> p2.nets, vip |-> TRUE, dpd_delay |-> TgbDelay(doc), redial |-> TRUE,
             compression |-> FALSE, dns |-> {}, domain |-> "", user |-> NoTerm])
        ELSE Refused

(***************************************************************************)
(* .scx: a record, with an empty value for every field left out.           *)
(***************************************************************************)
EncTokens == [aes128 |-> "aes128", aes |-> "aes128", aes192 |-> "aes192", aes256 |-> "aes256"]
PrfTokens == [p \in {MatchingPrf[i] : i \in DOMAIN MatchingPrf} |-> p]
IntegTokens == [sha1 |-> "sha1", sha256 |-> "sha256", sha384 |-> "sha384", sha512 |-> "sha512",
                sha2_256 |-> "sha256", sha2_512 |-> "sha512"]
DhTokens == [g \in DOMAIN DhStrength |-> g]

Known(words) ==
    Range(words) \subseteq {""} \cup UNION {DOMAIN t : t \in {EncTokens, PrfTokens, IntegTokens, DhTokens}}

\* Of the words of one category the first counts.
FirstOf(table, words) ==
    LET own == SelectSeq(words, LAMBDA w : w \in DOMAIN table)
    IN  IF own = << >> THEN NoTerm ELSE Lookup(table, own[1])

ParseProposal(words) ==
    LET integ == FirstOf(IntegTokens, words)
        prf   == FirstOf(PrfTokens, words)
    IN  [enc |-> FirstOf(EncTokens, words), integ |-> integ, dh |-> FirstOf(DhTokens, words),
         prf |-> IF prf # NoTerm \/ integ = NoTerm THEN prf ELSE MatchingPrf[integ]]

FirstProposal(proposals) ==
    LET filled == SelectSeq(proposals, LAMBDA p : p # << >>)
    IN  IF filled = << >> THEN << >> ELSE filled[1]

\* A number, or a text that reads as one; any other delay counts as left out.
FlexibleU32(raw) == IF raw \in DOMAIN Seconds THEN Seconds[raw] ELSE DefaultDelay

PickName(scx) ==
    IF scx.display_name # "" THEN scx.display_name
    ELSE IF scx.name # "" THEN scx.name ELSE "Sophos VPN"

ScxIdentity(id) ==
    IF id \in {"", "%any", "0.0.0.0", "::"} THEN [id |-> NoTerm, type |-> NoTerm]
    ELSE [id |-> id, type |-> IF IsAddress(id) THEN "ipv4"
                              ELSE IF id = "user@corp" THEN "rfc822" ELSE "fqdn"]

\* The first proposals of the two rounds, each word of them known.
ScxSuites(scx) ==
    LET ike == FirstProposal(scx.proposals)
        esp == FirstProposal(scx.esp)
        i   == ParseProposal(ike)
        e   == ParseProposal(esp)
    IN  [ike |-> i, esp |-> e,
         ok |-> /\ Known(ike) /\ Known(esp)
                /\ NoTerm \notin {i.enc, i.integ, i.dh, e.enc, e.integ}]

RemoteTs(scx) == [n \in DOMAIN scx.remote_ts |-> FromText(scx.remote_ts[n])]

\* The key, asked for of a profile whose gateway name will do.
ScxSecret(scx) == IF ValidGateway(scx.gateway) THEN scx.secret ELSE ""

ScxLogin(scx) ==
    IF scx.xauth = NoLogin THEN NoLogin ELSE [can_save |-> scx.xauth.can_save, otp |-> scx.otp]

\* The gateway assigns address and servers: the file asks, and names a domain.
ImportScx(scx) ==
    LET suites == ScxSuites(scx)
        local  == ScxIdentity(scx.local_id)
    IN  IF ScxSecret(scx) # "" /\ suites.ok /\ NoNet \notin Range(RemoteTs(scx))
        THEN Imported(
            [version |-> 2, name |-> PickName(scx), gateway |-> scx.gateway,
             psk |-> ScxSecret(scx), local_id |-> local.id, local_id_type |-> local.type,
             ike_enc |-> suites.ike.enc, ike_integ |-> suites.ike.integ,
             ike_prf |-> suites.ike.prf, ike_dh |-> suites.ike.dh,
             esp_enc |-> suites.esp.enc, esp_integ |-> suites.esp.integ,
             pfs |-> suites.esp.dh, nets |-> RemoteTs(scx),
             dpd_delay |-> FlexibleU32(scx.dpd_delay), redial |-> TRUE, compression |-> FALSE,
             login |-> ScxLogin(scx), vip |-> scx.vip # "", dns |-> {},
             domain |-> scx.domain_suffix, user |-> NoTerm])
        ELSE Refused

(***************************************************************************)
(* .mobileconfig: states no algorithms and no networks.                    *)
(***************************************************************************)
FindVpnPayload(payloads) ==
    SelectInSeq(payloads, LAMBDA p : p.type = "vpn.managed" /\ p.vpn_type = "IPSec")

ImportMobileconfig(payloads) ==
    LET k == FindVpnPayload(payloads)
        p == payloads[k]
    IN  IF /\ k # 0
           /\ ValidGateway(p.address)
           /\ p.method = "SharedSecret"
           /\ p.secret \notin {"", "binary"}
        THEN Imported(
            [version |-> 1, name |-> IF p.name = "" THEN "Sophos VPN" ELSE p.name,
             gateway |-> p.address, psk |-> p.secret,
             user |-> IF p.xauth_enabled # 0 /\ p.xauth_name # "" THEN p.xauth_name ELSE NoTerm,
             login |-> IF p.xauth_enabled # 0 THEN [can_save |-> TRUE, otp |-> FALSE] ELSE NoLogin,
             ike_enc |-> "aes256", ike_integ |-> "sha256", ike_prf |-> "prfsha256",
             ike_dh |-> "modp2048", esp_enc |-> "aes256", esp_integ |-> "sha256",
             pfs |-> "modp2048", nets |-> << >>, vip |-> TRUE, dpd_delay |-> DefaultDelay,
             redial |-> TRUE, compression |-> FALSE, dns |-> {}, domain |-> "",
             local_id |-> NoTerm, local_id_type |-> NoTerm])
        ELSE Refused

(***************************************************************************)
(* .pro, and which of the formats a text is.  A text is known by what it   *)
(* would be read as: `reads` holds the formats whose marks it bears.       *)
(***************************************************************************)
ParsePro(entries) == SelectSeq(entries, LAMBDA e : e.gateway # "")

PortalUrl(e) ==
    [scheme |-> "https", host |-> e.gateway, port |-> IF e.port = NoTerm THEN "443" ELSE e.port]
Label(e) == IF e.display_name = "" THEN e.gateway ELSE e.display_name

Detect(reads) ==
    LET i == SelectInSeq(<<"pro", "scx", "mobileconfig", "tgb">>, LAMBDA f : f \in reads)
    IN  IF i = 0 THEN NoTerm ELSE <<"pro", "scx", "mobileconfig", "tgb">>[i]

\* What a file holds is read as its format says, whatever it is called.
ImportSophos(file) ==
    LET format == Detect(file.reads)
    IN  IF format = "scx" THEN ImportScx(file.holds)
        ELSE IF format = "mobileconfig" THEN ImportMobileconfig(file.holds)
        ELSE IF format = "tgb" /\ Parse(file.holds).ok THEN ImportTgb(Parse(file.holds).doc)
        ELSE Refused

=============================================================================
