--------------------------- MODULE MCRunRegistry ----------------------------
(* Two daemons, and a few calls of any kind over what earlier daemons left. *)
EXTENDS RunRegistry
=============================================================================
