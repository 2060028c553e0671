----------------------------- MODULE MCLogStore -----------------------------
(* Two processes, one of them with two handles on the log, as the daemon   *)
(* has when it opens a thread a run is on; or a handle each; or one        *)
(* process alone.                                                          *)
EXTENDS LogStore

CONSTANTS a, b, c

SharedPair == [h \in Handles |-> IF h = c THEN c ELSE a]
TwoProcesses == [h \in Handles |-> h]
OneProcess == [h \in Handles |-> a]
=============================================================================
