----------------------------- MODULE MCProfiles -----------------------------
(***************************************************************************)
(* Four files under one name: a gateway that asks for no login, its later  *)
(* export that asks for a one-time code and names no DNS server, one from  *)
(* a portal that does not parse, and an SSL profile.                       *)
(***************************************************************************)
EXTENDS Profiles

Config(asks, cipher, servers) ==
    [name |-> "a", login |-> asks, cipher |-> cipher, free |-> "f", dns |-> servers,
     domain |-> Blank, psk |-> "p"]

Code == [can_save |-> TRUE, otp |-> TRUE]

MCFiles ==
    {[ext |-> "mobileconfig", valid |-> TRUE, config |-> Config(NoLogin, "c1", "s")],
     [ext |-> "mobileconfig", valid |-> TRUE, config |-> Config(Code, "c2", Blank)],
     [ext |-> "mobileconfig", valid |-> FALSE, config |-> Config(NoLogin, "c1", Blank)],
     [ext |-> "ovpn", valid |-> TRUE, config |-> Config(Code, "c1", Blank)]}

Host(n) == [name |-> n, addr |-> "x", port |-> 1]
MCCompanion == <<Host("h1")>>

Untouched ==
    [name |-> "a", user_auth |-> FALSE, cipher |-> "c1", free |-> "f", dns |-> "s",
     domain |-> Blank, hosts |-> MCCompanion]

\* Edits of the classes that no other depends on, of each that another does
\* depend on, and of the two that are checked together.
Classes ==
    {{}, {"name", "cipher", "hosts"}, {"user_auth"}, {"dns"}, {"domain"}, {"dns", "domain"}}

MCEdits ==
    {e \in [name : {"a", "b", Blank}, user_auth : BOOLEAN, cipher : {"c1", "c2"},
            free : {"f"}, dns : {Blank, "s"}, domain : {Blank, "d", "bad"},
            hosts : {MCCompanion, <<Host("h2"), Host("h2")>>, <<Host(Blank)>>}] :
        {f \in Fields : e[f] # Untouched[f]} \in Classes}

=============================================================================
