------------------------------ MODULE MCUpgrade -----------------------------
(* Upgrade with two commits; the second has a new version or has not. *)
EXTENDS Upgrade

Versions == <<1, 2>>
OneVersion == <<1, 1>>

=============================================================================
