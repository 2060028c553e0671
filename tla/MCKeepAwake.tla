---------------------------- MODULE MCKeepAwake ----------------------------
(* Three clients: enough for one to release while two others race to hold. *)
EXTENDS KeepAwake

CONSTANTS c1, c2, c3

MCClients == {c1, c2, c3}
=============================================================================
