------------------------------ MODULE NcpImport -----------------------------
(***************************************************************************)
(* The importer of an NCP .ini export (ncp-profile): numeric codes, and    *)
(* policies found by their names.  The confidence of a code only words a   *)
(* warning and is left out.                                                *)
(***************************************************************************)
EXTENDS SophosImport

PrfCodes == Table({<<"2", "prfsha1">>, <<"5", "prfsha256">>, <<"6", "prfsha384">>,
                   <<"7", "prfsha512">>})
IkeIntegCodes == Table({<<"2", "sha1">>, <<"12", "sha256">>, <<"13", "sha384">>,
                        <<"14", "sha512">>})
EncCodes == Table({<<"6", "aes256">>})
EspIntegCodes == Table({<<"5", "sha256">>})
DhCodes == Table({<<"2", "modp1024">>, <<"5", "modp1536">>, <<"14", "modp2048">>,
                  <<"15", "modp3072">>, <<"16", "modp4096">>, <<"19", "ecp256">>,
                  <<"20", "ecp384">>})
IdTypeCodes == Table({<<"1", "ipv4">>, <<"2", "fqdn">>, <<"3", "rfc822">>, <<"11", "keyid">>})

\* Words that read as a number.
Numbers == DOMAIN DhCodes \cup DOMAIN PrfCodes \cup DOMAIN IkeIntegCodes
             \cup DOMAIN IdTypeCodes \cup {"0", "34", "99"}

FindPolicy(doc, kind, field, wanted) ==
    LET policies == SectionsLike(doc, kind)
        i == SelectInSeq(policies, LAMBDA s : Get(s, field) = wanted)
    IN  IF i = 0 \/ wanted = Absent THEN NoSection ELSE policies[i]

\* Network1, Network2 and so on up to the first that is missing.
NetworkKeys == <<"Network1", "Network2", "Network3">>
MaskKeys == <<"SubMask1", "SubMask2", "SubMask3">>

Networks(profile) ==
    LET n == CHOOSE n \in 0 .. Len(NetworkKeys) :
                 /\ \A i \in 1 .. n : Has(profile, NetworkKeys[i])
                 /\ n < Len(NetworkKeys) => ~Has(profile, NetworkKeys[n + 1])
    IN  [i \in 1 .. n |-> FromAddrAndMask(Whole(Get(profile, NetworkKeys[i])),
                                          Whole(Get(profile, MaskKeys[i])))]

\* Empty and unreadable servers are passed over.
DnsServers(profile) ==
    {w \in {Whole(Get(profile, k)) : k \in {"DNS1", "DNS2", "DNS3", "DNS4"}} :
        IsAddress(w) /\ w # "0.0.0.0"}

Code(table, s, key) == Lookup(table, Word(s, key))

\* The policies a profile names, and its own groups.
IkeSuite(doc, profile) ==
    LET policy == FindPolicy(doc, "IKEV2POLICY", "Ikev2Name", Get(profile, "IKEv2Policy"))
    IN  [enc |-> Code(EncCodes, policy, "Ikev2Crypt"),
         integ |-> Code(IkeIntegCodes, policy, "Ikev2IntAlgo"),
         prf |-> Code(PrfCodes, policy, "Ikev2PRF"),
         dh |-> Code(DhCodes, profile, "IkeDhGroup")]

EspSuite(doc, profile) ==
    LET policy == FindPolicy(doc, "IPSECPOLICY", "IPSecName", Get(profile, "IPSEC-Policy"))
    IN  [enc |-> Code(EncCodes, policy, "IpsecCrypt"),
         integ |-> Code(EspIntegCodes, policy, "IpsecAuth")]

Pfs(profile) == Code(DhCodes, profile, "PFS")

\* IKEv2 with a shared key; the key itself is not looked at.
Supported(profile) ==
    /\ Has(profile, "Name") /\ ValidGateway(Word(profile, "Gateway"))
    /\ Word(profile, "ExchMode") = "34"
    /\ Word(profile, "IKEv2Auth") = "2"
    /\ Has(profile, "Secret")
    /\ \A key \in {"IkeIdType", "IpAddrAssign"} :
          Has(profile, key) => Word(profile, key) \in Numbers

NcpLogin(profile) ==
    IF Word(profile, "UseXAUTH") = "1" THEN [can_save |-> TRUE, otp |-> FALSE] ELSE NoLogin

ImportNcp(doc) ==
    LET profiles == SectionsLike(doc, "PROFILE")
        profile == IF profiles = << >> THEN NoSection ELSE profiles[1]
        ike == IkeSuite(doc, profile)
        esp == EspSuite(doc, profile)
        text(key) == IF Has(profile, key) /\ Get(profile, key) # << >>
                     THEN Word(profile, key) ELSE ""
    IN  IF /\ Supported(profile)
           /\ NoTerm \notin {ike.enc, ike.integ, ike.prf, ike.dh, esp.enc, esp.integ}
           /\ Pfs(profile) # NoTerm \/ Word(profile, "PFS") = "0"
           /\ NoNet \notin Range(Networks(profile))
        THEN Imported(
            [version |-> 2, name |-> text("Name"), gateway |-> Word(profile, "Gateway"),
             psk |-> text("Secret"),
             local_id |-> IF Has(profile, "IkeIdStr") THEN text("IkeIdStr") ELSE NoTerm,
             local_id_type |-> Code(IdTypeCodes, profile, "IkeIdType"),
             login |-> NcpLogin(profile),
             ike_enc |-> ike.enc, ike_integ |-> ike.integ, ike_prf |-> ike.prf,
             ike_dh |-> ike.dh, esp_enc |-> esp.enc, esp_integ |-> esp.integ,
             pfs |-> Pfs(profile), nets |-> Networks(profile), vip |-> TRUE,
             compression |-> Word(profile, "UseComp") = "1", dpd_delay |-> DefaultDelay,
             dns |-> DnsServers(profile), domain |-> text("DomainName"), redial |-> TRUE,
             user |-> NoTerm])
        ELSE Refused

=============================================================================
