---------------------------- MODULE MCLinkImport ----------------------------
(* Two links and a file: one link and the file land on the same profile    *)
(* file, the other link on the same id in another format.                  *)
EXTENDS LinkImport, TLC

CONSTANTS l1, l2, f, site, scx, ovpn

Ids == [r \in {l1, l2, f} |-> site]
Exts == [r \in {l1, l2, f} |-> IF r = l2 THEN ovpn ELSE scx]
=============================================================================
