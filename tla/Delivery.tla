------------------------------ MODULE Delivery ------------------------------
(***************************************************************************)
(* What a thread promises about the messages posted to it, with nothing of *)
(* how: a message is accepted into memory, reaches the log once, is read   *)
(* by a model call only from there, and is lost only with the process that *)
(* held it.                                                                *)
(***************************************************************************)
EXTENDS Naturals

CONSTANT Messages

VARIABLES
  memory,   \* accepted, not in the log yet
  logged,   \* in the log
  seen,     \* shown to a model call that came to its end
  dropped   \* gone with a process that died

vars == <<memory, logged, seen, dropped>>

Init == memory = {} /\ logged = {} /\ seen = {} /\ dropped = {}

Accept(m) ==
  /\ m \notin memory \union logged \union dropped
  /\ memory' = memory \union {m}
  /\ UNCHANGED <<logged, seen, dropped>>

Record(m) ==
  /\ m \in memory
  /\ memory' = memory \ {m}
  /\ logged' = logged \union {m}
  /\ UNCHANGED <<seen, dropped>>

Show(ms) ==
  /\ ms \subseteq logged
  /\ seen' = seen \union ms
  /\ UNCHANGED <<memory, logged, dropped>>

Die ==
  /\ dropped' = dropped \union memory
  /\ memory' = {}
  /\ UNCHANGED <<logged, seen>>

Next ==
  \/ \E m \in Messages : Accept(m) \/ Record(m)
  \/ \E ms \in SUBSET Messages : Show(ms)
  \/ Die

Spec == Init /\ [][Next]_vars
=============================================================================
