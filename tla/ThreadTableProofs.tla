------------------------- MODULE ThreadTableProofs -------------------------
(***************************************************************************)
(* What holds of the table for any number of sessions, actors and turns:   *)
(* its count is exact, and all who have the thread open talk to one actor  *)
(* that is alive.                                                          *)
(***************************************************************************)
EXTENDS ThreadTable, FiniteSetTheorems, TLAPS

Alive(a) == a \in 1 .. built /\ state[a] \notin {"unborn", "gone"}

(* No mailbox leads to an actor that has not begun or has ended.           *)
HeldAlive ==
  /\ entry /= 0 => Alive(entry)
  /\ \A s \in Sessions : mailbox[s] /= 0 => Alive(mailbox[s])

(* A session that inserts or borrows has a mailbox; one that has the       *)
(* thread open has the table's.                                            *)
PlacesTrue ==
  \A s \in Sessions :
    /\ place[s] \in {"inserting", "borrowed"} => mailbox[s] /= 0
    /\ place[s] = "in" => mailbox[s] = entry /\ entry /= 0

TInv == TypeOK /\ CountExact /\ HeldAlive /\ PlacesTrue

-----------------------------------------------------------------------------
(* A session more, a session less, and a session that moves elsewhere.     *)
LEMMA InFinite == IsFiniteSet(SessionsIn) /\ Cardinality(SessionsIn) \in Nat
BY FS_Subset, FS_CardinalityType, TableConstants DEF SessionsIn

LEMMA OneMore ==
  ASSUME TypeOK, NEW s \in Sessions, place[s] /= "in",
         place' = [place EXCEPT ![s] = "in"]
  PROVE  Cardinality(SessionsIn') = Cardinality(SessionsIn) + 1
<1>1. SessionsIn' = SessionsIn \union {s} /\ s \notin SessionsIn
  BY DEF SessionsIn, TypeOK
<1> QED BY <1>1, InFinite, FS_AddElement

LEMMA OneLess ==
  ASSUME TypeOK, NEW s \in Sessions, place[s] = "in", NEW p, p /= "in",
         place' = [place EXCEPT ![s] = p]
  PROVE  /\ Cardinality(SessionsIn') = Cardinality(SessionsIn) - 1
         /\ Cardinality(SessionsIn) /= 0
<1>1. SessionsIn' = SessionsIn \ {s} /\ s \in SessionsIn
  BY DEF SessionsIn, TypeOK
<1>2. Cardinality(SessionsIn) /= 0
  BY <1>1, InFinite, FS_EmptySet
<1> QED BY <1>1, <1>2, InFinite, FS_RemoveElement

LEMMA NoneIn ==
  ASSUME TypeOK, NEW s \in Sessions, place[s] /= "in", NEW p, p /= "in",
         place' = [place EXCEPT ![s] = p]
  PROVE  SessionsIn' = SessionsIn
BY DEF SessionsIn, TypeOK

(* With no thread in the table nobody is counted, and with nobody counted  *)
(* nobody has it open.                                                     *)
LEMMA Unused ==
  ASSUME TInv
  PROVE  /\ entry = 0 => open = 0
         /\ open = 0 => SessionsIn = {}
<1>1. entry = 0 => SessionsIn = {}
  BY DEF TInv, PlacesTrue, SessionsIn
<1> QED BY <1>1, InFinite, FS_EmptySet DEF TInv, CountExact

-----------------------------------------------------------------------------
LEMMA TInvInit == Init => TInv
<1> SUFFICES ASSUME Init PROVE TInv
  OBVIOUS
<1>1. TypeOK
  <2>1. /\ place \in [Sessions -> {"out", "building", "inserting", "in", "borrowed"}]
        /\ mailbox \in [Sessions -> 0 .. MaxActors]
        /\ state \in [Actors -> {"unborn", "pending", "idle", "turn", "asking", "gone"}]
    BY TableConstants DEF Init
  <2>2. /\ entry \in 0 .. MaxActors /\ candidate \in 0 .. MaxActors
        /\ open \in Nat /\ built \in 0 .. MaxActors /\ turns \in 0 .. MaxTurns
        /\ sweeper \in {"asleep", "asked", "told"}
    BY TableConstants DEF Init
  <2>3. logOpen \in BOOLEAN
    BY DEF Init
  <2> QED BY <2>1, <2>2, <2>3 DEF TypeOK
<1>2. SessionsIn = {}
  BY DEF Init, SessionsIn
<1>3. CountExact
  BY <1>2, FS_EmptySet DEF Init, CountExact
<1>4. HeldAlive /\ PlacesTrue
  BY DEF Init, HeldAlive, PlacesTrue
<1> QED BY <1>1, <1>3, <1>4 DEF TInv

(* The steps of a session that opens, closes or borrows.                   *)
LEMMA OpenStep ==
  ASSUME TInv, NEW s \in Sessions,
         OpenFound(s) \/ OpenMissed(s) \/ Build(s) \/ BuildFails(s)
  PROVE  TInv'
<1> USE TableConstants DEF TInv, Actors
<1>1. CASE OpenFound(s)
  <2>1. TypeOK'
    BY <1>1 DEF TypeOK, OpenFound, sweepVars
  <2>2. CountExact'
    BY <1>1, OneMore, InFinite DEF CountExact, OpenFound
  <2>3. HeldAlive' /\ PlacesTrue'
    BY <1>1 DEF TypeOK, HeldAlive, PlacesTrue, Alive, OpenFound
  <2> QED BY <2>1, <2>2, <2>3
<1>2. CASE OpenMissed(s)
  <2>1. TypeOK'
    BY <1>2 DEF TypeOK, OpenMissed, sweepVars
  <2>2. CountExact'
    BY <1>2, NoneIn DEF CountExact, OpenMissed
  <2>3. HeldAlive' /\ PlacesTrue'
    BY <1>2 DEF TypeOK, HeldAlive, PlacesTrue, Alive, OpenMissed
  <2> QED BY <2>1, <2>2, <2>3
<1>3. CASE Build(s)
  <2>1. TypeOK'
    BY <1>3 DEF TypeOK, Build, sweepVars
  <2>2. CountExact'
    BY <1>3, NoneIn DEF CountExact, Build
  <2>3. \A a \in 1 .. built : a \in 1 .. built' /\ state'[a] = state[a]
    BY <1>3 DEF TypeOK, Build
  <2>4. \A a : a = built + 1 => Alive(a)'
    <3>1. built + 1 \in Actors /\ built' = built + 1
      BY <1>3 DEF TypeOK, Build
    <3>2. state'[built + 1] \in {"pending", "idle"}
      BY <1>3, <3>1 DEF TypeOK, Build
    <3>3. built + 1 \in 1 .. (built + 1)
      BY DEF TypeOK
    <3> QED BY <3>1, <3>2, <3>3 DEF Alive
  <2>5. \A a : Alive(a) => Alive(a)'
    BY <2>3 DEF Alive
  <2>6. HeldAlive'
    <3>1. \A r \in Sessions : r /= s => mailbox'[r] = mailbox[r]
      BY <1>3 DEF TypeOK, Build
    <3>2. mailbox'[s] = built + 1 /\ entry' = entry
      BY <1>3 DEF TypeOK, Build
    <3> QED BY <3>1, <3>2, <2>4, <2>5 DEF HeldAlive
  <2>7. PlacesTrue'
    BY <1>3 DEF TypeOK, PlacesTrue, Build
  <2> QED BY <2>1, <2>2, <2>6, <2>7
<1>4. CASE BuildFails(s)
  <2>1. TypeOK'
    BY <1>4 DEF TypeOK, BuildFails, sweepVars
  <2>2. CountExact'
    BY <1>4, NoneIn DEF CountExact, BuildFails
  <2>3. HeldAlive' /\ PlacesTrue'
    BY <1>4 DEF TypeOK, HeldAlive, PlacesTrue, Alive, BuildFails
  <2> QED BY <2>1, <2>2, <2>3
<1> QED BY <1>1, <1>2, <1>3, <1>4

LEMMA CountStep ==
  ASSUME TInv, NEW s \in Sessions, Insert(s) \/ Close(s) \/ Borrow(s)
  PROVE  TInv'
<1> USE TableConstants DEF TInv, Actors
<1>1. CASE Insert(s)
  <2>1. TypeOK'
    BY <1>1 DEF TypeOK, Insert, sweepVars
  <2>2. CountExact'
    <3>1. Cardinality(SessionsIn)' = open + 1
      BY <1>1, OneMore DEF CountExact, Insert
    <3>2. open' = open + 1
      BY <1>1, Unused DEF Insert
    <3> QED BY <3>1, <3>2 DEF CountExact
  <2>3. HeldAlive'
    BY <1>1 DEF TypeOK, HeldAlive, PlacesTrue, Alive, Insert
  <2>4. PlacesTrue'
    BY <1>1 DEF TypeOK, PlacesTrue, Insert
  <2> QED BY <2>1, <2>2, <2>3, <2>4
<1>2. CASE Close(s)
  <2>1. TypeOK'
    BY <1>2 DEF TypeOK, Close, sweepVars
  <2>2. CountExact'
    BY <1>2, OneLess, InFinite DEF CountExact, PlacesTrue, Close
  <2>3. HeldAlive' /\ PlacesTrue'
    BY <1>2 DEF TypeOK, HeldAlive, PlacesTrue, Alive, Close
  <2> QED BY <2>1, <2>2, <2>3
<1>3. CASE Borrow(s)
  <2>1. TypeOK'
    BY <1>3 DEF TypeOK, Borrow, sweepVars
  <2>2. CountExact'
    BY <1>3, OneLess, NoneIn, InFinite DEF CountExact, PlacesTrue, Borrow
  <2>3. HeldAlive' /\ PlacesTrue'
    BY <1>3 DEF TypeOK, HeldAlive, PlacesTrue, Alive, Borrow
  <2> QED BY <2>1, <2>2, <2>3
<1> QED BY <1>1, <1>2, <1>3

(* What an actor does leaves it alive, and ends only one nobody holds.     *)
LEMMA TurnStep ==
  ASSUME TInv, NEW s \in Sessions, Request(s) \/ Post(s) \/ Answer(s)
  PROVE  TInv'
<1> USE TableConstants DEF TInv, Actors
<1>1. CASE Request(s)
  <2>1. mailbox[s] \in Actors
    BY <1>1 DEF TypeOK, PlacesTrue, Request
  <2>2. TypeOK'
    <3>1. CASE Starts(s)
      BY <1>1, <2>1, <3>1 DEF TypeOK, Request, Starts, sweepVars
    <3>2. CASE UNCHANGED <<turns, state, logOpen>>
      BY <1>1, <3>2 DEF TypeOK, Request, sweepVars
    <3> QED BY <1>1, <3>1, <3>2 DEF Request
  <2>3. CountExact'
    BY <1>1, NoneIn DEF CountExact, Request
  <2>4. HeldAlive' /\ PlacesTrue'
    BY <1>1, <2>1 DEF TypeOK, HeldAlive, PlacesTrue, Alive, Request, Starts
  <2> QED BY <2>2, <2>3, <2>4
<1>2. CASE Post(s)
  <2>1. mailbox[s] \in Actors
    BY <1>2 DEF TypeOK, PlacesTrue, Post
  <2>2. TypeOK'
    BY <1>2, <2>1 DEF TypeOK, Post, Starts, sweepVars
  <2>3. CountExact'
    BY <1>2 DEF CountExact, SessionsIn, Post
  <2>4. HeldAlive' /\ PlacesTrue'
    BY <1>2, <2>1 DEF TypeOK, HeldAlive, PlacesTrue, Alive, Post, Starts
  <2> QED BY <2>2, <2>3, <2>4
<1>3. CASE Answer(s)
  <2>1. TypeOK'
    BY <1>3 DEF TypeOK, Answer, sweepVars
  <2>2. CountExact'
    BY <1>3 DEF CountExact, SessionsIn, Answer
  <2>3. HeldAlive' /\ PlacesTrue'
    BY <1>3 DEF TypeOK, HeldAlive, PlacesTrue, Alive, Answer
  <2> QED BY <2>1, <2>2, <2>3
<1> QED BY <1>1, <1>2, <1>3

LEMMA ActorStep ==
  ASSUME TInv, NEW a \in Actors, Actor(a)
  PROVE  TInv'
<1> USE TableConstants DEF TInv, Actors
<1> DEFINE Untouched == UNCHANGED <<entry, open, place, mailbox, built, turns, sweeper, candidate>>
<1>1. Untouched
  BY DEF Actor, Works, ResumeTurn, TurnOver, End, Ask, sweepVars
<1>2. TypeOK'
  BY DEF TypeOK, Actor, Works, ResumeTurn, TurnOver, End, Ask, sweepVars
<1>3. CountExact' /\ PlacesTrue'
  BY <1>1 DEF CountExact, SessionsIn, PlacesTrue
<1>4. CASE End(a)
  <2>1. \A b : b /= a /\ Alive(b) => Alive(b)'
    BY <1>4 DEF TypeOK, Alive, End
  <2>2. HeldAlive'
    BY <1>1, <1>4, <2>1 DEF HeldAlive, End, Held
  <2> QED BY <1>2, <1>3, <2>2
<1>5. CASE ~End(a)
  <2>1. \A b : Alive(b) => Alive(b)'
    BY <1>5 DEF TypeOK, Alive, Actor, Works, ResumeTurn, TurnOver, Ask
  <2>2. HeldAlive'
    BY <1>1, <2>1 DEF HeldAlive
  <2> QED BY <1>2, <1>3, <2>2
<1> QED BY <1>4, <1>5

LEMMA SweepStep ==
  ASSUME TInv, Sweep
  PROVE  TInv'
<1> USE TableConstants DEF TInv
<1>1. TypeOK'
  BY DEF TypeOK, Sweep, SweepAsk, SweepTold, SweepUnload
<1>2. CountExact'
  BY DEF CountExact, SessionsIn, Sweep, SweepAsk, SweepTold, SweepUnload
<1>3. HeldAlive'
  BY DEF HeldAlive, Alive, Sweep, SweepAsk, SweepTold, SweepUnload
<1>4. PlacesTrue'
  BY Unused DEF PlacesTrue, SessionsIn, Sweep, SweepAsk, SweepTold, SweepUnload
<1> QED BY <1>1, <1>2, <1>3, <1>4

LEMMA TInvStep == TInv /\ [Next]_vars => TInv'
<1> SUFFICES ASSUME TInv, [Next]_vars PROVE TInv'
  OBVIOUS
<1>1. CASE UNCHANGED vars
  BY <1>1 DEF vars, TInv, TypeOK, CountExact, SessionsIn, HeldAlive, Alive, PlacesTrue
<1>2. ASSUME NEW s \in Sessions, Session(s) PROVE TInv'
  BY <1>2, OpenStep, CountStep, TurnStep DEF Session
<1>3. ASSUME NEW a \in Actors, Actor(a) PROVE TInv'
  BY <1>3, ActorStep
<1>4. CASE Sweep
  BY <1>4, SweepStep
<1> QED BY <1>1, <1>2, <1>3, <1>4 DEF Next

-----------------------------------------------------------------------------
(* However many sessions race to open, close, borrow and use the thread    *)
(* while the sweeper unloads it: the count is the number that have it      *)
(* open, and they share one actor that is alive.                           *)
THEOREM TableCorrect == Spec => []TableSound
<1>1. TInv => TableSound
  <2> SUFFICES ASSUME TInv PROVE TableSound
    OBVIOUS
  <2>1. SessionsShareActor
    BY DEF TInv, PlacesTrue, HeldAlive, Alive, SessionsShareActor, SessionsIn
  <2> QED BY <2>1 DEF TInv, TableSound
<1> QED BY <1>1, TInvInit, TInvStep, PTL DEF Spec
=============================================================================
