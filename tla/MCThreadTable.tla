--------------------------- MODULE MCThreadTable ---------------------------
(* Three sessions race for one thread while the sweeper unloads it.        *)
EXTENDS ThreadTable
=============================================================================
