--------------------------- MODULE KeepAwakeProofs ---------------------------
(***************************************************************************)
(* What holds of the keep-awake guard for any number of clients: the       *)
(* counter is exact, and a guard nobody holds leaves no child behind.      *)
(***************************************************************************)
EXTENDS KeepAwake, FiniteSetTheorems, TLAPS

(* Every variable keeps its type: no interleaving takes the counter below  *)
(* zero (awake.rs, the checked_sub of release).                            *)
THEOREM TypeCorrect == Spec => []TypeOK
<1>1. Init => TypeOK
  <2> SUFFICES ASSUME Init PROVE TypeOK
    OBVIOUS
  <2>1. pc \in [Clients -> Places]
    BY DEF Init, Places
  <2>2. holds \in Nat /\ child \in BOOLEAN /\ failure \in BOOLEAN /\ warnings \in Nat
    BY DEF Init
  <2>3. inert \in BOOLEAN
    BY Zenon DEF Init
  <2> QED
    BY <2>1, <2>2, <2>3, Zenon DEF TypeOK
<1>2. TypeOK /\ [Next]_vars => TypeOK'
  <2> SUFFICES ASSUME TypeOK, [Next]_vars PROVE TypeOK'
    OBVIOUS
  <2> USE DEF TypeOK, Places
  <2>1. ASSUME NEW c \in Clients, HoldCount(c) PROVE TypeOK'
    BY <2>1 DEF HoldCount
  <2>2. ASSUME NEW c \in Clients, ReleaseCount(c) PROVE TypeOK'
    BY <2>2 DEF ReleaseCount
  <2>3. ASSUME NEW c \in Clients, HoldNothing(c) PROVE TypeOK'
    BY <2>3 DEF HoldNothing
  <2>4. ASSUME NEW c \in Clients, HoldSpawn(c) PROVE TypeOK'
    BY <2>4 DEF HoldSpawn
  <2>5. ASSUME NEW c \in Clients, HoldSpawnFails(c) PROVE TypeOK'
    BY <2>5 DEF HoldSpawnFails
  <2>6. ASSUME NEW c \in Clients, ReleaseTake(c) PROVE TypeOK'
    BY <2>6 DEF ReleaseTake
  <2>7. ASSUME NEW c \in Clients, ReleaseStop(c) PROVE TypeOK'
    BY <2>7 DEF ReleaseStop
  <2>8. CASE UNCHANGED vars
    BY <2>8 DEF vars
  <2> QED
    BY <2>1, <2>2, <2>3, <2>4, <2>5, <2>6, <2>7, <2>8 DEF Next, Step
<1> QED
  BY <1>1, <1>2, PTL DEF Spec

-----------------------------------------------------------------------------
(* Taking a client into, or out of, the set that holds changes its size by *)
(* one.                                                                    *)
LEMMA HoldingFinite ==
  IsFiniteSet(Holding) /\ Cardinality(Holding) \in Nat
<1>1. Holding \subseteq Clients
  BY DEF Holding
<1> QED
  BY <1>1, ClientsFinite, FS_Subset, FS_CardinalityType

(* The counter of holds is the number of clients that hold, whatever the   *)
(* order in which hold() and release() interleave (awake.rs hold/release). *)
THEOREM CountExact == Spec => []HoldsCounted
<1>1. Init => HoldsCounted
  <2> SUFFICES ASSUME Init PROVE HoldsCounted
    OBVIOUS
  <2>1. Holding = {}
    BY DEF Init, Holding
  <2> QED
    BY <2>1, FS_EmptySet DEF Init, HoldsCounted
<1>2. TypeOK /\ TypeOK' /\ HoldsCounted /\ [Next]_vars => HoldsCounted'
  <2> SUFFICES ASSUME TypeOK, TypeOK', HoldsCounted, [Next]_vars
               PROVE  HoldsCounted'
    OBVIOUS
  <2>0. IsFiniteSet(Holding) /\ Cardinality(Holding) \in Nat
    BY HoldingFinite
  <2>1. ASSUME NEW c \in Clients, HoldCount(c) PROVE HoldsCounted'
    <3>1. c \notin Holding
      BY <2>1 DEF HoldCount, Holding
    <3>2. Holding' = Holding \union {c}
      BY <2>1 DEF HoldCount, Holding, TypeOK, Places
    <3>3. Cardinality(Holding') = Cardinality(Holding) + 1
      BY <3>1, <3>2, <2>0, FS_AddElement
    <3> QED
      BY <3>3, <2>1 DEF HoldCount, HoldsCounted
  <2>2. ASSUME NEW c \in Clients, ReleaseCount(c) PROVE HoldsCounted'
    <3>1. c \in Holding
      BY <2>2 DEF ReleaseCount, Holding
    <3>2. Holding' = Holding \ {c}
      BY <2>2 DEF ReleaseCount, Holding, TypeOK, Places
    <3>3. Cardinality(Holding') = Cardinality(Holding) - 1
      BY <3>1, <3>2, <2>0, FS_RemoveElement
    <3>4. Cardinality(Holding) > 0
      BY <3>1, <2>0, FS_EmptySet
    <3> QED
      BY <3>3, <3>4, <2>0, <2>2 DEF ReleaseCount, HoldsCounted
  <2>3. ASSUME NEW c \in Clients, Step(c) PROVE HoldsCounted'
    <3>1. Holding' = Holding
      BY <2>3 DEF Step, HoldNothing, HoldSpawn, HoldSpawnFails, ReleaseTake,
                  ReleaseStop, Holding, TypeOK, Places
    <3>2. holds' = holds
      BY <2>3 DEF Step, HoldNothing, HoldSpawn, HoldSpawnFails, ReleaseTake,
                  ReleaseStop
    <3> QED
      BY <3>1, <3>2 DEF HoldsCounted
  <2>4. CASE UNCHANGED vars
    BY <2>4 DEF vars, HoldsCounted, Holding
  <2> QED
    BY <2>1, <2>2, <2>3, <2>4 DEF Next
<1> QED
  BY <1>1, <1>2, TypeCorrect, PTL DEF Spec

-----------------------------------------------------------------------------
(* A child that lives is owed to a holder or to a client about to stop it. *)
(* Inductive together with the exact count: only a client that holds       *)
(* spawns, and the one that takes the count to zero goes on to the lock.   *)
LEMMA ChildOwedInvariant == Spec => []ChildOwed
<1>1. Init => ChildOwed
  BY DEF Init, ChildOwed
<1>2. TypeOK /\ HoldsCounted /\ ChildOwed /\ [Next]_vars => ChildOwed'
  <2> SUFFICES ASSUME TypeOK, HoldsCounted, ChildOwed, [Next]_vars
               PROVE  ChildOwed'
    OBVIOUS
  <2> USE DEF TypeOK, Places
  <2>1. ASSUME NEW c \in Clients, HoldCount(c) PROVE ChildOwed'
    BY <2>1 DEF HoldCount, ChildOwed
  <2>2. ASSUME NEW c \in Clients, ReleaseCount(c) PROVE ChildOwed'
    <3>1. CASE holds = 1
      <4>1. pc'[c] = "stopping"
        BY <3>1, <2>2 DEF ReleaseCount
      <4> QED
        BY <4>1 DEF ChildOwed
    <3>2. CASE holds # 1
      BY <3>2, <2>2 DEF ReleaseCount, ChildOwed
    <3> QED
      BY <3>1, <3>2
  <2>3. ASSUME NEW c \in Clients, HoldNothing(c) PROVE ChildOwed'
    BY <2>3 DEF HoldNothing, ChildOwed
  <2>4. ASSUME NEW c \in Clients, HoldSpawn(c) PROVE ChildOwed'
    <3>1. c \in Holding
      BY <2>4 DEF HoldSpawn, Holding
    <3>2. holds > 0
      BY <3>1, HoldingFinite, FS_EmptySet DEF HoldsCounted
    <3> QED
      BY <3>2, <2>4 DEF HoldSpawn, ChildOwed
  <2>5. ASSUME NEW c \in Clients, HoldSpawnFails(c) PROVE ChildOwed'
    BY <2>5 DEF HoldSpawnFails, ChildOwed
  <2>6. ASSUME NEW c \in Clients, ReleaseTake(c) PROVE ChildOwed'
    BY <2>6 DEF ReleaseTake, ChildOwed
  <2>7. ASSUME NEW c \in Clients, ReleaseStop(c) PROVE ChildOwed'
    BY <2>7 DEF ReleaseStop, ChildOwed
  <2>8. CASE UNCHANGED vars
    BY <2>8 DEF vars, ChildOwed
  <2> QED
    BY <2>1, <2>2, <2>3, <2>4, <2>5, <2>6, <2>7, <2>8 DEF Next, Step
<1> QED
  BY <1>1, <1>2, TypeCorrect, CountExact, PTL DEF Spec

(* Once every call returned, a guard nobody holds has no child: a daemon   *)
(* that stopped working lets the machine sleep (awake.rs release).         *)
THEOREM NoChildLeftInvariant == Spec => []NoChildLeft
<1>1. HoldsCounted /\ ChildOwed => NoChildLeft
  <2> SUFFICES ASSUME HoldsCounted, ChildOwed, Quiet, Holding = {}, child
               PROVE  FALSE
    BY DEF NoChildLeft
  <2>1. holds = 0
    BY FS_EmptySet DEF HoldsCounted
  <2>2. \E c \in Clients : pc[c] = "stopping"
    BY <2>1 DEF ChildOwed
  <2> QED
    BY <2>2 DEF Quiet
<1> QED
  BY <1>1, CountExact, ChildOwedInvariant, PTL
=============================================================================
