------------------------------- MODULE Intake -------------------------------
(***************************************************************************)
(* A profile on its way in: a file read as its format says, served by a    *)
(* portal or carried by a link, intact or damaged, and opened in the edit  *)
(* dialog.  `work` holds the last one, what the intact file is read as     *)
(* beside what this one is.                                                *)
(***************************************************************************)
EXTENDS NcpImport

CONSTANTS Files,        \* files as they were exported
          Portals,      \* portals that serve them
          Links         \* links that carry them

VARIABLE work

Edits == INSTANCE ProfileEdits
Portal == INSTANCE PortalFetch

NoWork == [kind |-> "none"]

IntakeInit == work = NoWork

(***************************************************************************)
(* A profile's text, whichever format it is in.                            *)
(***************************************************************************)
ParseText(file) ==
    IF Detect(file.reads) # NoTerm THEN ImportSophos(file)
    ELSE LET ini == Parse(file.holds) IN IF ini.ok THEN ImportNcp(ini.doc) ELSE Refused

(***************************************************************************)
(* What may have happened to a file on its way: cut off, any line lost or  *)
(* garbled, a value emptied or overwritten.  Nobody can tell one key from  *)
(* another, so keys are lost and emptied, never overwritten.               *)
(***************************************************************************)
Garbled == [is |-> "junk"]
Opaque == {"Authentication", "Secret"}

DamagedLines(lines) ==
    LET pairs == {i \in DOMAIN lines : lines[i].is = "pair"}
    IN  {SubSeq(lines, 1, n) : n \in 0 .. Len(lines) - 1}
          \cup {SubSeq(lines, 1, i - 1) \o SubSeq(lines, i + 1, Len(lines)) : i \in DOMAIN lines}
          \cup {[lines EXCEPT ![i] = Garbled] : i \in DOMAIN lines}
          \cup {[lines EXCEPT ![i].value = << >>] : i \in pairs}
          \cup {[lines EXCEPT ![i].value = <<"bad host">>] :
                  i \in {k \in pairs : lines[k].key \notin Opaque}}

DamagedWords(words) ==
    UNION {{[words EXCEPT ![i] = "unheard-of"], SubSeq(words, 1, i)} : i \in DOMAIN words}

DamagedScx(scx) ==
    {[scx EXCEPT ![f] = ""] : f \in {"gateway", "secret", "local_id", "vip", "name"}}
      \cup {[scx EXCEPT !.gateway = "bad host"]}
      \cup UNION {{[scx EXCEPT ![f][1] = p] : p \in DamagedWords(scx[f][1])} :
                    f \in {"proposals", "esp"}}

DamagedPayloads(payloads) ==
    UNION {{[payloads EXCEPT ![i][f] = ""] :
               f \in {"type", "vpn_type", "address", "method", "secret"}} : i \in DOMAIN payloads}

Damaged(file) ==
    {[file EXCEPT !.holds = h] :
        h \in CASE Detect(file.reads) = "scx" -> DamagedScx(file.holds)
                [] Detect(file.reads) = "mobileconfig" -> DamagedPayloads(file.holds)
                [] OTHER -> DamagedLines(file.holds)}

(***************************************************************************)
(* The dialog an import opens in, over the fields ProfileEdits knows.  No  *)
(* importer looks at a domain, so it may hold what the dialog refuses.     *)
(***************************************************************************)
View(config) ==
    [name |-> config.name, login |-> config.login, cipher |-> config.ike_enc,
     free |-> config.gateway, dns |-> IF config.dns = {} THEN "" ELSE "some",
     domain |-> IF config.domain = "bad host" THEN "bad" ELSE config.domain]

Untouched(config) == Edits!Saved(Edits!FromConfig(View(config), << >>), View(config), << >>)

Take(w) == work' = w

ReadIn(intact, file) ==
    Take([kind |-> "import", format |-> Detect(file.reads),
          intact |-> ParseText(intact), result |-> ParseText(file)])

ImportFile ==
    /\ work = NoWork
    /\ \E f \in Files : \E d \in Damaged(f) \cup {f} : ReadIn(f, d)

Download ==
    /\ work = NoWork
    /\ \E p \in Portals :
           LET target == Portal!Target(p.points)
               got == Portal!DownloadPreferred(target[1].url, p.login, p)
           IN  /\ target # << >> /\ target[1].url = p.at
               /\ got.ok
               /\ got.ext = "mobileconfig"
               /\ ReadIn(p.ipsec, got.text)

OpenLink ==
    /\ work = NoWork
    /\ \E urls \in Links :
           LET ours == Portal!Ours(urls)
           IN  /\ ours # << >>
               /\ Portal!ParseLink(ours[1]).ok
               /\ ReadIn(ours[1].carries, ours[1].carries)

PutAside == work # NoWork /\ work' = NoWork

IntakeNext == ImportFile \/ Download \/ OpenLink \/ PutAside

IntakeSpec == IntakeInit /\ [][IntakeNext]_work

(***************************************************************************)
(* Properties.                                                             *)
(***************************************************************************)
\* A profile that arrives damaged is refused, or it names the intact one's
\* gateway, key, version and algorithms: none is made up for a lost one ("a
\* half-read profile would otherwise silently negotiate defaults"), and no
\* proposal is weaker than the profile's own.  Three terms may go: the PFS group,
\* the length of an AES key, for the longest, and the key of an .ini, which is
\* required but may be empty.  Networks may be lost, none is new.  Of identity,
\* login and servers nothing is said: the importers accept a file without them.
\* The file printed of a profile offers the first of charon's proposals, for all
\* of charon's networks.
Told(config) == LoadConn(config, config.version)

Esp(config) == {Told(config).children[i].esp[1] : i \in DOMAIN Told(config).children}


\* A profile just imported opens in the edit dialog, and saved as it stands
\* nothing is changed and nothing left behind; or the save is refused, for a name
\* or a domain the dialog refuses or a domain without a server, which is what
\* every .scx with a domain suffix meets, and for no other reason.
Editable(config) ==
    /\ config.name \notin {Edits!Blank, "bad"} /\ View(config).domain # "bad"
    /\ config.domain # Edits!Blank => config.dns # {}

SurvivesEditing(config) ==
    /\ Untouched(config).ok
    /\ Untouched(config).over = Edits!NoOverrides
    /\ Edits!ApplyTo(Edits!FromConfig(View(config), << >>), View(config)).config = View(config)
    /\ \A i \in DOMAIN config.nets : FromText(ToText(config.nets[i])) = config.nets[i]

ImportSurvivesEditing ==
    work.kind = "import" /\ work.result.ok =>
        LET c == work.result.config
        IN  IF Editable(c) THEN SurvivesEditing(c) ELSE ~Untouched(c).ok

=============================================================================
