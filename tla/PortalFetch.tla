----------------------------- MODULE PortalFetch ----------------------------
(***************************************************************************)
(* Where a profile comes from when it is no file: a firewall's user portal *)
(* (portal.rs) and an itmvpn:// link (deeplink.rs).  A portal is the       *)
(* record of its answers, a link that of its parts; a text is what it can  *)
(* be read as, as in SophosImport.                                         *)
(***************************************************************************)
EXTENDS SophosImport

NoText == [ok |-> FALSE]
Text(t) == [ok |-> TRUE, text |-> t]

\* A portal's address, the name its profile gets, and whether a code is asked for.
Target(entries) ==
    LET kept == ParsePro(entries)
    IN  IF kept = << >> THEN << >>
        ELSE <<[url |-> PortalUrl(kept[1]), name |-> Label(kept[1]), otp |-> kept[1].otp]>>

\* Of 300 characters at most.
NormalizedBase(url) == url.scheme = "https" /\ url.host # "too long"

ValidateCredentials(login) == login.user # "" /\ login.password # ""

\* 200 signs in; 299 asks for a one-time code, which there is no answer to.
SignIn(portal) == portal.login_status = 200

SessionConfig(portal) ==
    portal.config_status = 200 /\ portal.csrf # NoTerm /\ portal.readable

Session(url, login, portal) ==
    NormalizedBase(url) /\ ValidateCredentials(login) /\ SignIn(portal) /\ SessionConfig(portal)

\* A service is off only if the portal says so.
Off(portal, service) == portal.services[service] = "off"

FetchIpsec(portal) ==
    IF /\ ~Off(portal, "ipsec")
       /\ portal.ipsecauthtype \in {NoTerm, "psk"}
       /\ portal.ipsec.status \in 200 .. 299
       /\ Detect(portal.ipsec.reads) = "mobileconfig"
    THEN Text(portal.ipsec) ELSE NoText

LooksLikeOvpn(reads) == {"remote", "client marker"} \subseteq reads

FetchSsl(portal) ==
    IF /\ ~Off(portal, "sslvpn")
       /\ portal.ssl.status \in 200 .. 299
       /\ LooksLikeOvpn(portal.ssl.reads)
    THEN Text(portal.ssl) ELSE NoText

\* SSL first, IPsec where SSL is off or failed.
DownloadPreferred(url, login, portal) ==
    LET ssl == FetchSsl(portal)
    IN  IF ~Session(url, login, portal) THEN NoText
        ELSE IF ssl.ok THEN [ok |-> TRUE, ext |-> "ovpn", text |-> ssl.text]
        ELSE IF FetchIpsec(portal).ok
             THEN [ok |-> TRUE, ext |-> "mobileconfig", text |-> FetchIpsec(portal).text]
             ELSE NoText

(***************************************************************************)
(* Links.  The payload is base64 in any of its spellings: two alphabets,   *)
(* "+" read as a space, padding and blanks thrown in.                      *)
(***************************************************************************)
KnownExtensions == {"ini", "scx", "tgb", "mobileconfig", "ovpn", "pro"}
MaxEncoded == 1024      \* in KiB
MaxDecoded == 256

Normalized(chars) ==
    LET plain == [i \in DOMAIN chars |-> IF chars[i] \in {" ", "-"} THEN "+"
                                         ELSE IF chars[i] = "_" THEN "/" ELSE chars[i]]
    IN  SelectSeq(plain, LAMBDA c : c \notin {"=", "newline"})

DecodeLink(payload) ==
    IF /\ \A i \in DOMAIN Normalized(payload.chars) : Normalized(payload.chars)[i] # "junk"
       /\ payload.decoded \in 1 .. MaxDecoded
       /\ payload.utf8
    THEN Text(Normalized(payload.chars)) ELSE NoText

\* Of several data parameters the last one counts.
ParseLink(url) ==
    IF /\ url.scheme = "itmvpn" /\ url.verb = "import"
       /\ url.encoded <= MaxEncoded
       /\ url.data # << >> /\ DecodeLink(Last(url.data)).ok
       /\ url.ext \in KnownExtensions \cup {NoTerm}
    THEN [ok |-> TRUE, ext |-> IF url.ext = NoTerm THEN "ini" ELSE url.ext,
          name |-> IF url.name = "" THEN NoTerm ELSE url.name,
          text |-> DecodeLink(Last(url.data)).text]
    ELSE NoText

\* Of the URLs of one launch the first of this scheme is acted on.
Ours(urls) ==
    LET i == SelectInSeq(urls, LAMBDA u : u.scheme = "itmvpn")
    IN  IF i = 0 THEN << >> ELSE <<urls[i]>>

=============================================================================
