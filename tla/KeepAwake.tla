----------------------------- MODULE KeepAwake -----------------------------
(***************************************************************************)
(* The daemon's keep-awake guard (server/src/awake.rs).  One ProcessGuard  *)
(* is shared by every thread's actor and every run task; each client takes *)
(* a hold when it starts working and gives it back when it stops.  `holds' *)
(* is an atomic counter and the child process sits behind a mutex, so a    *)
(* hold or a release is two steps that other clients may come between:     *)
(* the counter's, and the one under the lock.                              *)
(***************************************************************************)
EXTENDS Naturals, FiniteSets

CONSTANT Clients      \* the actors and run tasks sharing the guard

ASSUME ClientsFinite == IsFiniteSet(Clients)

VARIABLES
  holds,      \* ProcessGuard::holds
  child,      \* Inner::child.is_some()
  failure,    \* Inner::failure.is_some()
  warnings,   \* Inner::warnings
  inert,      \* Inner::inert.is_some(): off, or no program on this machine
  pc          \* where each client is in hold() or release()

vars == <<holds, child, failure, warnings, inert, pc>>

(* idle: no hold taken.  starting: fetch_add returned 0, the lock is next. *)
(* working: hold() returned.  stopping: the counter went 1 -> 0, the lock  *)
(* is next.  killing: the child was taken out, stop() is running.          *)
Places == {"idle", "starting", "working", "stopping", "killing"}

Init ==
  /\ holds = 0
  /\ child = FALSE
  /\ failure = FALSE
  /\ warnings = 0
  /\ inert \in BOOLEAN
  /\ pc = [c \in Clients |-> "idle"]

-----------------------------------------------------------------------------
(* Variants with a plausible bug, for the mutation runs only: only the     *)
(* first hold is counted; the last release is tested against the new       *)
(* count; a release takes off both the hold's count and its drop's, with   *)
(* no floor; a failed spawn is tried again.                                *)
HoldCountFirstOnly(c) ==
  /\ pc[c] = "idle"
  /\ holds' = 1
  /\ pc' = [pc EXCEPT ![c] = IF holds > 0 THEN "working" ELSE "starting"]
  /\ UNCHANGED <<child, failure, warnings, inert>>

ReleaseCountLate(c) ==
  /\ pc[c] = "working"
  /\ holds' = IF holds > 0 THEN holds - 1 ELSE 0
  /\ pc' = [pc EXCEPT ![c] = IF holds = 2 THEN "stopping" ELSE "idle"]
  /\ UNCHANGED <<child, failure, warnings, inert>>

-----------------------------------------------------------------------------
(* hold(): the first outstanding hold goes on to the lock, others return.  *)
HoldCount(c) ==
  /\ pc[c] = "idle"
  /\ holds' = holds + 1
  /\ pc' = [pc EXCEPT ![c] = IF holds > 0 THEN "working" ELSE "starting"]
  /\ UNCHANGED <<child, failure, warnings, inert>>

(* Under the lock: nothing to do when a child lives, the guard is inert or *)
(* an earlier spawn failed.                                                *)
HoldNothing(c) ==
  /\ pc[c] = "starting"
  /\ child \/ inert \/ failure
  /\ pc' = [pc EXCEPT ![c] = "working"]
  /\ UNCHANGED <<holds, child, failure, warnings, inert>>

HoldSpawn(c) ==
  /\ pc[c] = "starting"
  /\ ~child /\ ~inert /\ ~failure
  /\ child' = TRUE
  /\ pc' = [pc EXCEPT ![c] = "working"]
  /\ UNCHANGED <<holds, failure, warnings, inert>>

HoldSpawnFails(c) ==
  /\ pc[c] = "starting"
  /\ ~child /\ ~inert /\ ~failure
  /\ failure' = TRUE
  /\ warnings' = warnings + 1
  /\ pc' = [pc EXCEPT ![c] = "working"]
  /\ UNCHANGED <<holds, child, inert>>

(* release(): the compare-and-swap loop takes one off, never below zero;   *)
(* only the step from one to none goes on to the lock.                     *)
ReleaseCount(c) ==
  /\ pc[c] = "working"
  /\ holds' = IF holds > 0 THEN holds - 1 ELSE 0
  /\ pc' = [pc EXCEPT ![c] = IF holds = 1 THEN "stopping" ELSE "idle"]
  /\ UNCHANGED <<child, failure, warnings, inert>>

(* Under the lock the child is taken, whoever holds it by then.            *)
ReleaseTake(c) ==
  /\ pc[c] = "stopping"
  /\ child' = FALSE
  /\ pc' = [pc EXCEPT ![c] = IF child THEN "killing" ELSE "idle"]
  /\ UNCHANGED <<holds, failure, warnings, inert>>

(* Outside the lock: stop() kills the group and waits for the child.       *)
ReleaseStop(c) ==
  /\ pc[c] = "killing"
  /\ pc' = [pc EXCEPT ![c] = "idle"]
  /\ UNCHANGED <<holds, child, failure, warnings, inert>>

Step(c) ==
  \/ HoldNothing(c) \/ HoldSpawn(c) \/ HoldSpawnFails(c)
  \/ ReleaseTake(c) \/ ReleaseStop(c)

Next ==
  \E c \in Clients : HoldCount(c) \/ ReleaseCount(c) \/ Step(c)

Spec == Init /\ [][Next]_vars

(* A call that passed the counter runs to its end: nothing in it waits but *)
(* for a lock held for a few instructions.  No client is obliged to start  *)
(* or to stop working.                                                     *)
FairSpec == Spec /\ \A c \in Clients : WF_vars(Step(c))

-----------------------------------------------------------------------------
Holding == {c \in Clients : pc[c] \in {"starting", "working"}}

(* Whether no hold() or release() is under way.                            *)
Quiet == \A c \in Clients : pc[c] \in {"idle", "working"}

(* Each variable has its type (the counter is a usize, never negative).    *)
TypeOK ==
  /\ holds \in Nat
  /\ child \in BOOLEAN
  /\ failure \in BOOLEAN
  /\ warnings \in Nat
  /\ inert \in BOOLEAN
  /\ pc \in [Clients -> Places]

(* The atomic counter is exactly the number of clients that hold: no       *)
(* interleaving of hold and release loses a count or takes one too many.   *)
HoldsCounted == holds = Cardinality(Holding)

(* Once every call returned, a guard nobody holds has no child left: a     *)
(* daemon that stopped working lets the machine sleep.                     *)
NoChildLeft == (Quiet /\ Holding = {}) => ~child

(* A child that lives is owed: somebody holds, or is on the way to stop    *)
(* it.  What NoChildLeft rests on.                                         *)
ChildOwed == child => (holds > 0 \/ \E c \in Clients : pc[c] = "stopping")

(* Once no client holds any more, the child goes away for good and the     *)
(* machine may sleep.                                                      *)
SleepsAgain == (<>[](Holding = {})) => <>[](~child)

(* What the documentation of KeepAwake::hold promises of a guard that says *)
(* "on": with every call returned, any working client means a live child.  *)
OnWhileWorking ==
  (Quiet /\ Holding /= {} /\ ~failure /\ ~inert) => child
=============================================================================
