---------------------------- MODULE MCConversions ---------------------------
(***************************************************************************)
(* Inputs for the conversions.  Addresses have eight bits: the first four  *)
(* are the network 10.N of the texts.  A byte has eight values, so a name  *)
(* may be 7 and a value 63 bytes long.                                     *)
(***************************************************************************)
EXTENDS Conversions, TLC

MCAddress ==
    ("0.0.0.0" :> 0) @@ ("10.1.0.0" :> 16) @@ ("10.1.0.9" :> 25) @@ ("10.2.0.0" :> 32)
      @@ ("255.255.0.0" :> 240) @@ ("255.0.255.0" :> 204)

(***************************************************************************)
(* Files.                                                                  *)
(***************************************************************************)
Sec(name, begins) == [is |-> "section", name |-> name, begins |-> begins]
Header(name) == Sec(name, {})
Pair(key, value) == [is |-> "pair", key |-> key, value |-> value]
P(key, word) == Pair(key, <<word>>)

Transform(name, cipher, hash, auth) ==
    <<Header(name), P(cipher, "AES"), Pair("KEY_LENGTH", <<"256", "128">>), P(hash, "SHA2_256"),
      P("GROUP_DESCRIPTION", "MODP_2048")>> \o auth

Tgb ==
    <<[is |-> "comment"], Header("General"), P("DPD-interval", "60"),
      Header("Phase 1"), P("203.0.113.1", "corp-P1"),
      Header("Phase 2"), P("Connections", "corp-P2"),
      Header("corp-P1"), P("Address", "gw1"), P("Authentication", "psk"), P("ID", "me"),
      P("Configuration", "main"), P("Xauth", "0"),
      Header("me"), P("ID-Type", "USER_FQDN"), P("Email", "user@corp"),
      Header("main"), P("EXCHANGE_TYPE", "ID_PROT"), Pair("Transforms", <<"t1", "t3">>)>>
    \o Transform("t1", "ENCRYPTION_ALGORITHM", "HASH_ALGORITHM",
                 <<P("AUTHENTICATION_METHOD", "PRE_SHARED")>>) \o
    <<Header("corp-P2"), P("ISAKMP-peer", "corp-P1"), P("Remote-ID", "lan"),
      P("Configuration", "quick"),
      Header("lan"), P("ID-Type", "IPV4_ADDR_SUBNET"), P("Network", "10.1.0.0"),
      P("Netmask", "255.255.0.0"),
      Header("quick"), P("Suites", "suite"), Header("suite"), P("Protocols", "esp"),
      Header("esp"), P("PROTOCOL_ID", "IPSEC_ESP"), P("Transforms", "t2")>>
    \o Transform("t2", "TRANSFORM_ID", "AUTHENTICATION_ALGORITHM",
                 <<P("ENCAPSULATION_MODE", "TUNNEL")>>)

Ncp ==
    <<Sec("PROFILE1", {"PROFILE"}), P("Name", "corp"), P("Gateway", "gw1"), P("ExchMode", "34"),
      P("IKEv2Auth", "2"), P("Secret", "psk"), P("IkeIdStr", "user@corp"), P("IkeIdType", "3"),
      P("IKEv2Policy", "pol"), P("IPSEC-Policy", "pol"), P("IkeDhGroup", "15"), P("PFS", "15"),
      P("Network1", "10.1.0.0"), P("SubMask1", "255.255.0.0"), P("Network2", "10.2.0.0"),
      P("SubMask2", "255.255.0.0"), P("IpAddrAssign", "0"), P("UseComp", "1"),
      P("DNS1", "10.1.0.9"), P("DNS2", "0.0.0.0"), P("DomainName", "corp.lan"),
      P("UseXAUTH", "1"),
      Sec("IKEV2POLICY1", {"IKEV2POLICY"}), P("Ikev2Name", "other"), P("Ikev2Crypt", "6"),
      P("Ikev2PRF", "2"), P("Ikev2IntAlgo", "2"),
      Sec("IKEV2POLICY2", {"IKEV2POLICY"}), P("Ikev2Name", "pol"), P("Ikev2Crypt", "6"),
      P("Ikev2PRF", "5"), P("Ikev2IntAlgo", "12"),
      Sec("IPSECPOLICY1", {"IPSECPOLICY"}), P("IPSecName", "pol"), P("IpsecCrypt", "6"),
      P("IpsecAuth", "5")>>

Scx(suffix, xauth) ==
    [display_name |-> "", name |-> "corp", gateway |-> "gw1", secret |-> "psk",
     local_id |-> "0.0.0.0", proposals |-> <<<<"aes256", "sha2_256", "modp2048">>,
                                             <<"aes128", "sha1", "modp1024">>>>,
     esp |-> <<<<"aes256", "sha2_256", "modp2048">>>>,
     remote_ts |-> <<[addr |-> "10.1.0.0", len |-> 4], [addr |-> "10.2.0.0", len |-> -1]>>,
     xauth |-> xauth, otp |-> TRUE, vip |-> "0.0.0.0", dpd_delay |-> "60",
     domain_suffix |-> suffix]

Payload(type, vpn_type) ==
    [type |-> type, vpn_type |-> vpn_type, name |-> "corp", address |-> "gw1",
     method |-> "SharedSecret", secret |-> "psk", xauth_enabled |-> 1, xauth_name |-> "me"]

Mobileconfig ==
    [reads |-> {"mobileconfig"}, status |-> 200,
     holds |-> <<Payload("wifi", ""), Payload("vpn.managed", "IPSec")>>]

MCFiles ==
    {[reads |-> {"tgb"}, holds |-> Tgb], [reads |-> {}, holds |-> Ncp],
     [reads |-> {"scx", "tgb"}, holds |-> Scx("", [can_save |-> FALSE])],
     [reads |-> {"scx"}, holds |-> Scx("corp.lan", NoLogin)]}

Html == [reads |-> {}, status |-> 200, holds |-> << >>]

\* Of a portal's answers each may be the one that fails.
Entry(gateway, port) ==
    [display_name |-> "", gateway |-> gateway, port |-> port, otp |-> FALSE]

MCPortals ==
    {[points |-> e, at |-> [scheme |-> "https", host |-> "fw", port |-> "443"],
      login |-> [user |-> "u", password |-> "p"],
      login_status |-> s, config_status |-> 200, csrf |-> "t", readable |-> TRUE,
      services |-> [ipsec |-> i, sslvpn |-> v], ipsecauthtype |-> a, ipsec |-> Mobileconfig,
      ssl |-> d] :
        e \in {<<Entry("", NoTerm), Entry("fw", NoTerm)>>, <<Entry("fw", "4443")>>, << >>},
        s \in {200, 299}, i \in {"on", "off"}, v \in {"on", "off"},
        a \in {NoTerm, "psk", "cert"},
        d \in {Html, [reads |-> {"remote", "client marker"}, status |-> 200]}}

\* A file that was opened, and a link; one launch may hand both.
MCLinks ==
    {<<[scheme |-> "file"],
       [scheme |-> s, verb |-> "import", encoded |-> 2, name |-> "", ext |-> e,
        data |-> <<[chars |-> <<"junk">>, decoded |-> 1, utf8 |-> TRUE],
                   [chars |-> <<"a", c>>, decoded |-> n, utf8 |-> TRUE]>>,
        carries |-> [reads |-> {"scx"}, holds |-> Scx("", NoLogin)]]>> :
        s \in {"itmvpn", "file"},
        e \in {NoTerm, "scx", "exe"}, c \in {"-", "=", "junk"}, n \in {0, 1, 300}}

(***************************************************************************)
(* Secrets, repairs, messages, packets and sweeps.                         *)
(***************************************************************************)
Conn(n, id, gw, user, v) ==
    [name |-> n, local_id |-> id, gateway |-> gw, user |-> user, version |-> v,
     psk |-> <<"key", n>>, password |-> <<"password", n>>]

\* A connection before and after an edit and another one, whose identities may
\* be those of the first, or its gateway.
MCLoads ==
    {{Conn("a", i, "gw1", u, 1), [Conn("a", "x", g, v, 2) EXCEPT !.psk = <<"new key", "a">>],
      Conn("b", j, h, "x", 2)} :
        i \in {NoTerm, "x"}, j \in {NoTerm, "x", "gw1"}, g \in {"gw1", "gw2"},
        h \in {"gw1", "gw3"}, u, v \in {NoTerm, "x"}}

Sa(id, conn, reqid, out, nets) ==
    [id |-> id, conn |-> conn, reqid |-> reqid, packets_out |-> out, state |-> "INSTALLED",
     remote_ts |-> nets]

MCSas ==
    {Sa("1", "c", "r1", 0, <<"n1">>), Sa("2", "c", "r1", 5, <<"n2">>),
     Sa("3", "c", "r2", 5, <<"n2">>), Sa("4", "c", "r3", 1, <<"n1", "n2">>),
     Sa("5", "d", "r1", 9, <<"n3">>),
     [Sa("6", "c", "r4", 2, <<"n1">>) EXCEPT !.state = "REKEYING"]}

\* What charon says of a child that is refused: a password, a network, nothing.
Refusals ==
    {<<{"XAUTH", "FAIL"}, {"AUTHENTICATION_FAILED"}>>, <<{"IKE_SA", "ESTABLISHED"}, {"TS_UNACCEP"}>>,
     <<{"RETRANSMIT"}, {"GIVING UP AFTER"}>>}

MCRepairs ==
    {[config |-> [version |-> v, nets |-> <<"n1", "n2">>],
      ike |-> [name |-> "c", up |-> up, version |-> s], sas |-> sas, told |-> t,
      accepts |-> a, says |-> (0 :> l) @@ (1 :> l) @@ (2 :> <<{"NO_PROP"}>>)] :
        v \in {1, 2}, up \in BOOLEAN, s \in {Unknown, 1, 2},
        sas \in {x \in SUBSET MCSas : Cardinality(x) <= 3},
        t \in SUBSET {"n1", "n2"}, a \in {{}, {0}, {1}, {1, 2}},
        l \in Refusals}

Bytes(n) == [i \in 1 .. n |-> (i + 1) % Byte]

\* A message that also carries what follows it, nested and in a list.
MCMessages ==
    LET texts == {Bytes(n) : n \in {0, 2, 7, 8, 9, Byte * Byte - 1, Byte * Byte}}
        keys  == {Bytes(n) : n \in {0, 1, Byte - 1, Byte}}
        flat  == UNION {{Str(k, t), List(k, <<t, Bytes(1)>>)} : k \in keys, t \in texts}
    IN  {<<f, Str(Bytes(1), Bytes(1))>> : f \in flat}
          \cup {<<Sect(Bytes(2), <<f>>), Sect(Bytes(1), << >>)>> : f \in flat} \cup {<< >>}

Packet(type, event, ok) ==
    [type |-> type, event |-> event, size |-> 1, body |-> [ok |-> ok, of |-> event]]

\* Events of an earlier registration and late ones beside those of the command,
\* and one cut off in its name.
MCExchanges ==
    LET event == {Packet("EVENT", e, ok) : e \in {"list-sa", "log"}, ok \in BOOLEAN}
                   \cup {Packet("EVENT", CutOff, TRUE)}
        confirm == Packet("EVENT_CONFIRM", "", TRUE)
        stale == Packet("EVENT", "list-sa", TRUE)
        end(answer, ok) == <<[Packet(answer, "", ok) EXCEPT !.body.of = "answer"], stale, confirm>>
        too_large == <<[confirm EXCEPT !.size = MaxPacket + 1]>>
    IN  {first \o <<x, y>> \o end(answer, ok) :
            first \in {<<confirm>>, <<stale, confirm>>, <<Packet("EVENT_UNKNOWN", "", TRUE)>>},
            x, y \in event \cup {confirm}, answer \in {"CMD_RESPONSE", "CMD_UNKNOWN"},
            ok \in BOOLEAN}
          \cup {<<confirm, x>> \o too_large : x \in event}

Host(n, ip, port) ==
    [literal |-> n = "", name |-> n, ip |-> ip, port |-> port, domain |-> "corp.lan"]

Reply(ip, sweep, place, at) ==
    [source |-> ip, token |-> <<sweep, place>>, at |-> at, type |-> 0]

\* Every socket is handed every echo reply, with the ident rewritten.  A host
\* that answered the first sweep late, after the second had begun, may be dead.
MCSweeps ==
    {[hosts |-> <<Host("", 17, p), Host("printer", 0, 0), Host("", 33, 0)>>,
      ctx |-> [remote |-> nets, connected |-> TRUE, domain |-> "corp.lan"],
      manual |-> m, alive |-> alive,
      net |-> [names |-> [printer |-> i],
                   listening |-> IF 17 \in alive THEN {<<17, 443>>} ELSE {},
                   sweep |-> 2,
                   replies |-> SelectSeq(<<Reply(33, 1, 3, 1), Reply(17, 2, 1, 1),
                                           Reply(18, 2, 2, t[1]), Reply(33, 2, 3, t[2])>>,
                                         LAMBDA r : r.token[1] = 1 \/ r.source \in alive)]] :
        p \in {0, 443}, nets \in {<<[addr |-> 16, len |-> 4]>>, << >>}, m \in BOOLEAN,
        alive \in SUBSET {17, 18, 33}, i \in {18, -1}, t \in {<<1, 3>>, <<3, 4>>}}

=============================================================================
