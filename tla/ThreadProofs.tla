---------------------------- MODULE ThreadProofs ----------------------------
(***************************************************************************)
(* Theorems about the thread actor, for any number of messages, calls,     *)
(* interrupts, crashes, job returns and moves: first what is asked,        *)
(* answered and shown; then where a message is, how often, who has read it *)
(* and what a request to the model shows; then where the runtime works and *)
(* what a resting thread leaves.                                           *)
(***************************************************************************)
EXTENDS ThreadProperties, Integers, FiniteSetTheorems, WellFoundedInduction, TLAPS

-----------------------------------------------------------------------------
(* The inductive invariant.                                                *)

(* At these places the turn looks at the head of the batch.                *)
AtCall ==
  {"length", "calls", "granted", "tool", "ask", "refused", "said", "switched",
   "siblings"}

BatchAtHand == pc \in AtCall => batch /= <<>>

(* A model call goes out only while the budget lasts.                      *)
BudgetLasts == pc \in {"compact", "stream"} => spent < MaxIterations

TypeInv == TypeOK /\ BatchAtHand /\ BudgetLasts

(* The state shown and the hold, at every place they depend on.            *)
Asleep == {"ask", "idle", "idle_switched", "by_hand", "startup_ask"}

ShownInv ==
  /\ pc \in WorkingPlaces \union {"start"} => shared.held /\ shared.state = "Running"
  /\ pc \in {"ask", "switched"} => shared.state \in Asked
  /\ pc \in Asleep => ~shared.held
  /\ waiting /= 0 => pc = "ask" /\ waiting = Head(batch).id

(* Outside a turn the log is one of closed turns.                          *)
TurnClosed == pc \in OutOfTurn \union {"clean"} => ~TurnIsOpen(log)

IInv == TypeInv /\ ShownInv /\ TurnClosed /\ JobsNoted /\ CrashNotedOnce

-----------------------------------------------------------------------------
(* Logs.                                                                   *)

(* Every inhabited set of places in a log has a last one.                  *)
LEMMA LastPlace ==
  ASSUME NEW n \in Nat, NEW S \in SUBSET (1 .. n), S /= {}
  PROVE  Max(S) \in S /\ \A i \in S : i <= Max(S)
<1> DEFINE T == {n - i : i \in S}
<1>1. T \subseteq Nat
  OBVIOUS
<1>2. T /= {}
  OBVIOUS
<1>3. PICK t \in T : \A u \in T : ~ (<<u, t>> \in OpToRel(<, Nat))
  <2> HIDE DEF T
  <2> QED BY <1>1, <1>2, NatLessThanWellFounded, WFMin
<1>4. \A u \in T : ~ (u < t)
  BY <1>1, <1>3 DEF OpToRel
<1>5. PICK m \in S : t = n - m
  OBVIOUS
<1>6. \A i \in S : m >= i
  <2> SUFFICES ASSUME NEW i \in S PROVE m >= i
    OBVIOUS
  <2>1. n - i \in T
    OBVIOUS
  <2>2. ~ (n - i < n - m)
    BY <1>4, <1>5, <2>1
  <2> QED BY <2>2
<1>7. Max(S) \in S /\ \A i \in S : Max(S) >= i
  BY <1>6 DEF Max
<1>8. \A i \in S : i <= Max(S)
  BY <1>7
<1> QED BY <1>7, <1>8

(* The last end of a turn is one, and none is behind it.                   *)
LEMMA LastEndIsLast ==
  ASSUME NEW l, l \in Seq(Event)
  PROVE  /\ LastEnd(l) \in 0 .. Len(l)
         /\ \A i \in LastEnd(l) + 1 .. Len(l) : l[i].kind /= "turn_ended"
         /\ LastEnd(l) /= 0 => l[LastEnd(l)].kind = "turn_ended"
<1> DEFINE ends == {i \in 1 .. Len(l) : l[i].kind = "turn_ended"}
<1>1. LastEnd(l) = IF ends /= {} THEN Max(ends) ELSE 0
  BY DEF LastEnd, SelectLastInSeq
<1>2. Len(l) \in Nat
  OBVIOUS
<1>3. CASE ends = {}
  BY <1>1, <1>2, <1>3
<1>4. CASE ends /= {}
  <2> DEFINE m == Max(ends)
  <2>1. m \in ends /\ \A i \in ends : i <= m
    <3>1. ends \in SUBSET (1 .. Len(l))
      OBVIOUS
    <3> HIDE DEF ends
    <3> QED BY <1>2, <1>4, <3>1, LastPlace
  <2>2. LastEnd(l) = m
    BY <1>1, <1>4
  <2> HIDE DEF m
  <2>3. m \in 1 .. Len(l) /\ l[m].kind = "turn_ended"
    BY <2>1
  <2>4. \A i \in m + 1 .. Len(l) : i \notin ends
    BY <1>2, <2>1, <2>3
  <2>5. \A i \in m + 1 .. Len(l) : l[i].kind /= "turn_ended"
    BY <1>2, <2>3, <2>4
  <2> QED BY <1>2, <2>2, <2>3, <2>5
<1> QED BY <1>3, <1>4

(* A turn is open when an event of its own has no end behind it.           *)
LEMMA OpenTurn ==
  ASSUME NEW l, l \in Seq(Event)
  PROVE  TurnIsOpen(l) <=>
           \E i \in 1 .. Len(l) :
              IsTurnEvent(l[i]) /\ \A j \in i .. Len(l) : l[j].kind /= "turn_ended"
<1>1. /\ LastEnd(l) \in 0 .. Len(l)
      /\ \A i \in LastEnd(l) + 1 .. Len(l) : l[i].kind /= "turn_ended"
      /\ LastEnd(l) /= 0 => l[LastEnd(l)].kind = "turn_ended"
  BY LastEndIsLast
<1> QED BY <1>1 DEF TurnIsOpen, Open

(* What an append leaves in place.                                         *)
LEMMA Appended ==
  ASSUME NEW l, l \in Seq(Event), NEW e \in Event
  PROVE  /\ Append(l, e) \in Seq(Event)
         /\ Len(l) \in Nat /\ Len(Append(l, e)) = Len(l) + 1
         /\ Append(l, e)[Len(l) + 1] = e
         /\ \A i \in 1 .. Len(l) : Append(l, e)[i] = l[i]
OBVIOUS

(* An event that is no turn's own opens none, and an end closes whatever   *)
(* was open.                                                               *)
LEMMA AppendedTurn ==
  ASSUME NEW l, l \in Seq(Event), NEW e \in Event,
         \/ e.kind = "turn_ended"
         \/ ~TurnIsOpen(l) /\ ~IsTurnEvent(e)
  PROVE  ~TurnIsOpen(Append(l, e))
<1> DEFINE ll == Append(l, e)
<1>1. /\ ll \in Seq(Event) /\ Len(l) \in Nat /\ Len(ll) = Len(l) + 1
      /\ ll[Len(l) + 1] = e /\ \A i \in 1 .. Len(l) : ll[i] = l[i]
  BY Appended
<1> HIDE DEF ll
<1> SUFFICES ASSUME NEW i \in 1 .. Len(ll), IsTurnEvent(ll[i]),
                    \A j \in i .. Len(ll) : ll[j].kind /= "turn_ended"
             PROVE  FALSE
  BY <1>1, OpenTurn DEF ll
<1>2. e.kind /= "turn_ended"
  BY <1>1
<1>3. i /= Len(l) + 1
  BY <1>1, <1>2
<1>4. i \in 1 .. Len(l) /\ IsTurnEvent(l[i])
  BY <1>1, <1>3
<1>5. \A j \in i .. Len(l) : l[j].kind /= "turn_ended"
  BY <1>1, <1>4
<1> QED BY <1>2, <1>4, <1>5, OpenTurn

-----------------------------------------------------------------------------
(* Events and the observer.                                                *)

LEMMA EventTypes ==
  /\ \A p \in Nat, m, s \in BOOLEAN : UserMessage(p, m, s) \in Event
  /\ \A calls \in Seq(Call) : AssistantMessage(calls) \in Event
  /\ \A c \in 1 .. MaxCalls, o \in Origins : ToolResult(c, o) \in Event
  /\ \A c \in 1 .. MaxCalls : PermissionRequested(c) \in Event
  /\ \A c \in 1 .. MaxCalls, a \in BOOLEAN, b \in Deciders :
        PermissionDecided(c, a, b) \in Event
  /\ \A c \in 0 .. MaxCalls, b \in {"turn", "startup", "ask"} :
        DecisionProposed(b, c) \in Event
  /\ \A i \in Nat, a \in {"yes", "no", "corrected", "withdrawn"} :
        DecisionAnswered(i, a) \in Event
  /\ \A to \in {Home, Away} : ProjectSwitched(to) \in Event
  /\ ProviderRetried \in Event
  /\ \A c \in 1 .. MaxCalls : JobFinished(c) \in Event
  /\ \A b \in {"person", "crash"} : Interrupted(b) \in Event
  /\ \A r \in Reasons : TurnEnded(r) \in Event
<1>1. \A p \in Nat, m, s \in BOOLEAN : UserMessage(p, m, s) \in Event
  BY DEF Event, UserMessage
<1>2. \A calls \in Seq(Call) : AssistantMessage(calls) \in Event
  BY DEF Event, AssistantMessage
<1>3. \A c \in 1 .. MaxCalls, o \in Origins : ToolResult(c, o) \in Event
  BY DEF Event, ToolResult
<1>4. \A c \in 1 .. MaxCalls : PermissionRequested(c) \in Event
  BY DEF Event, PermissionRequested
<1>5. \A c \in 1 .. MaxCalls, a \in BOOLEAN, b \in Deciders :
        PermissionDecided(c, a, b) \in Event
  BY DEF Event, PermissionDecided
<1>6. \A c \in 0 .. MaxCalls, b \in {"turn", "startup", "ask"} :
        DecisionProposed(b, c) \in Event
  BY DEF Event, DecisionProposed
<1>7. \A i \in Nat, a \in {"yes", "no", "corrected", "withdrawn"} :
        DecisionAnswered(i, a) \in Event
  BY DEF Event, DecisionAnswered
<1>8. \A to \in {Home, Away} : ProjectSwitched(to) \in Event
  BY DEF Event, ProjectSwitched
<1>9. ProviderRetried \in Event
  BY DEF Event, ProviderRetried
<1>10. \A c \in 1 .. MaxCalls : JobFinished(c) \in Event
  BY DEF Event, JobFinished
<1>11. \A b \in {"person", "crash"} : Interrupted(b) \in Event
  BY DEF Event, Interrupted
<1>12. \A r \in Reasons : TurnEnded(r) \in Event
  BY DEF Event, TurnEnded
<1> QED
  BY <1>1, <1>2, <1>3, <1>4, <1>5, <1>6, <1>7, <1>8, <1>9, <1>10, <1>11, <1>12

(* The observer keeps the shape of what it shows, and never counts more    *)
(* steered messages than queued ones.                                      *)
LEMMA ObservedShared ==
  ASSUME NEW s \in Shared, s.steered <= s.queued, NEW e \in Event
  PROVE  /\ Observed(s, e) \in Shared
         /\ Observed(s, e).steered <= Observed(s, e).queued
<1> DEFINE counted == [s EXCEPT !.queued = @ + 1,
                                !.steered = IF e.steer THEN @ + 1 ELSE @]
           cleared == [s EXCEPT !.steered = 0, !.queued = @ - s.steered]
<1>0. s.queued \in Nat /\ s.steered \in Nat
  BY DEF Shared
<1>1. counted \in Shared /\ counted.steered <= counted.queued
  <2>1. counted.queued = s.queued + 1
    BY DEF Shared
  <2>2. counted.steered \in {s.steered, s.steered + 1}
    BY DEF Shared
  <2>3. counted.queued \in Nat /\ counted.steered \in Nat
    BY <1>0, <2>1, <2>2
  <2>4. counted \in Shared
    BY <2>3 DEF Shared
  <2> QED BY <1>0, <2>1, <2>2, <2>4
<1>2. cleared \in Shared /\ cleared.steered <= cleared.queued
  <2>1. cleared.queued = s.queued - s.steered /\ cleared.steered = 0
    BY DEF Shared
  <2>2. cleared.queued \in Nat
    BY <1>0, <2>1
  <2>3. cleared \in Shared
    BY <2>1, <2>2 DEF Shared
  <2> QED BY <2>1, <2>2, <2>3
<1>3. \A t \in Shared : Working(t) \in Shared /\ Working(t).steered = t.steered
                        /\ Working(t).queued = t.queued
  BY DEF Working, Shared
<1>4. Observed(s, e) \in {s, Working(s), counted, Working(counted), Working(cleared)}
  BY DEF Observed
<1> HIDE DEF counted, cleared
<1> QED BY <1>1, <1>2, <1>3, <1>4

(* A running turn that is held awake stays so, whatever is appended.       *)
LEMMA ObservedRunning ==
  ASSUME NEW s \in Shared, s.held, s.state = "Running", NEW e
  PROVE  Observed(s, e).held /\ Observed(s, e).state = "Running"
BY DEF Observed, Shared, Working

(* What settles a question ends the wait.                                  *)
LEMMA ObservedSettles ==
  ASSUME NEW s \in Shared, s.state /= "Running", NEW e, e.kind \in EndsAWait
  PROVE  Observed(s, e).held /\ Observed(s, e).state = "Running"
BY DEF Observed, Shared, Working, EndsAWait

(* Most events change nothing of what is shown.                            *)
LEMMA ObservedNothing ==
  ASSUME NEW s, NEW e,
         e.kind \notin EndsAWait \union {"user_message", "assistant_message"}
  PROVE  Observed(s, e) = s
BY DEF Observed, EndsAWait

LEMMA WriteTyped ==
  ASSUME TypeOK, NEW e \in Event, Write(e)
  PROVE  /\ log' \in Seq(Event) /\ Len(log') = Len(log) + 1 /\ Len(log) \in Nat
         /\ shared' \in Shared /\ shared'.steered <= shared'.queued
BY Appended, ObservedShared DEF Write, TypeOK

-----------------------------------------------------------------------------
(* Types.                                                                  *)

LEMMA HeadOfBatch ==
  ASSUME TypeOK, batch /= <<>>
  PROVE  /\ Head(batch).id \in 1 .. MaxCalls /\ Head(batch).tool \in Tools
         /\ Tail(batch) \in Seq(Call)
<1>1. Head(batch) \in Call /\ Tail(batch) \in Seq(Call)
  BY DEF TypeOK
<1> QED BY <1>1 DEF Call

LEMMA QueuedPost ==
  ASSUME TypeOK, NEW q \in {inbox, held}, q /= <<>>
  PROVE  /\ Head(q) \in 1 .. posts /\ Head(q) \in Nat
         /\ Tail(q) \in Seq(1 .. posts)
<1>1. inbox \in Seq(1 .. posts) /\ held \in Seq(1 .. posts) /\ posts \in Nat
  BY DEF TypeOK
<1> QED BY <1>1

LEMMA TypeLoop ==
  ASSUME TypeInv, Loop, UNCHANGED <<actorVars, bookVars>>
  PROVE  TypeInv'
<1> USE DEF mailVars, batchVars, loopVars, askVars, threadVars, actorVars, bookVars
<1>1. ASSUME NEW place \in {"loop", "calls", "tool", "after_calls"}, DrainAt(place)
      PROVE  TypeInv'
  <2>1. UserMessage(Head(inbox), TRUE, TRUE) \in Event /\ Tail(inbox) \in Seq(1 .. posts)
    BY <1>1, QueuedPost, EventTypes DEF DrainAt, TypeInv
  <2>2. Write(UserMessage(Head(inbox), TRUE, TRUE))
    BY <1>1 DEF DrainAt, AppendQueued
  <2>3. /\ log' \in Seq(Event) /\ Len(log') = Len(log) + 1 /\ Len(log) \in Nat
        /\ shared' \in Shared /\ shared'.steered <= shared'.queued
    BY <2>1, <2>2, WriteTyped DEF TypeInv
  <2> QED BY <1>1, <2>1, <2>3 DEF DrainAt, TypeInv, TypeOK, BatchAtHand, BudgetLasts
<1>2. CASE InterruptedAtTop
  BY <1>2 DEF InterruptedAtTop, TypeInv, TypeOK, BatchAtHand, BudgetLasts, AtCall, Places
<1>3. CASE BudgetSpent
  BY <1>3 DEF BudgetSpent, TypeInv, Reasons, TypeOK, BatchAtHand, BudgetLasts, AtCall, Places
<1>4. CASE Compact
  <2>1. BudgetLasts'
    BY <1>4 DEF Compact, BudgetLasts
  <2>2. TypeOK' /\ BatchAtHand'
    BY <1>4 DEF Compact, TypeInv, TypeOK, BatchAtHand, AtCall, Places
  <2> QED BY <2>1, <2>2 DEF TypeInv
<1>5. CASE CompactionFails
  BY <1>5 DEF CompactionFails, TypeInv, Reasons, TypeOK, BatchAtHand, BudgetLasts, AtCall, Places
<1>6. CASE Request
  <2>1. BudgetLasts'
    BY <1>6 DEF Request, TypeInv, BudgetLasts
  <2>2. TypeOK' /\ BatchAtHand'
    BY <1>6 DEF Request, TypeInv, TypeOK, BatchAtHand, AtCall, Places
  <2> QED BY <2>1, <2>2 DEF TypeInv
<1>7. CASE FlushHeld
  <2>1. UserMessage(Head(held), TRUE, TRUE) \in Event /\ Tail(held) \in Seq(1 .. posts)
    BY <1>7, QueuedPost, EventTypes DEF FlushHeld, TypeInv
  <2>2. Write(UserMessage(Head(held), TRUE, TRUE))
    BY <1>7 DEF FlushHeld, AppendQueued
  <2>3. /\ log' \in Seq(Event) /\ Len(log') = Len(log) + 1 /\ Len(log) \in Nat
        /\ shared' \in Shared /\ shared'.steered <= shared'.queued
    BY <2>1, <2>2, WriteTyped DEF TypeInv
  <2> QED BY <1>7, <2>1, <2>3 DEF FlushHeld, TypeInv, TypeOK, BatchAtHand, BudgetLasts
<1> QED BY <1>1, <1>2, <1>3, <1>4, <1>5, <1>6, <1>7 DEF Loop

(* A log holds finitely many calls.                                        *)
LEMMA FiniteCalls ==
  ASSUME NEW l, l \in Seq(Event)
  PROVE  IsFiniteSet(CallsOf(l)) /\ Cardinality(CallsOf(l)) \in Nat
<1> DEFINE replies == Events(l, "assistant_message")
           callsAt == [i \in replies |-> ToSet(l[i].calls)]
           each == {callsAt[i] : i \in replies}
<1>1. IsFiniteSet(replies)
  <2>1. Len(l) \in Nat /\ replies \subseteq 1 .. Len(l)
    BY DEF Events
  <2>2. IsFiniteSet(1 .. Len(l))
    BY <2>1, FS_Interval
  <2> HIDE DEF replies
  <2> QED BY <2>1, <2>2, FS_Subset
<1>2. \A i \in replies : IsFiniteSet(callsAt[i])
  <2> SUFFICES ASSUME NEW i \in replies PROVE IsFiniteSet(ToSet(l[i].calls))
    OBVIOUS
  <2> DEFINE calls == l[i].calls
             f == [k \in 1 .. Len(calls) |-> calls[k]]
  <2>1. i \in 1 .. Len(l) /\ l[i] \in Event /\ l[i].kind = "assistant_message"
    BY DEF Events
  <2>2. calls \in Seq(Call)
    BY <2>1 DEF Event
  <2>3. Len(calls) \in Nat /\ DOMAIN calls = 1 .. Len(calls)
    BY <2>2
  <2>4. f \in Surjection(1 .. Len(calls), ToSet(calls))
    BY <2>3 DEF Surjection, ToSet, Range
  <2>5. IsFiniteSet(1 .. Len(calls))
    BY <2>3, FS_Interval
  <2> QED BY <2>4, <2>5, FS_Surjection
<1>3. IsFiniteSet(each)
  <2>1. callsAt \in Surjection(replies, each)
    BY DEF Surjection
  <2> QED BY <1>1, <2>1, FS_Surjection
<1>4. CallsOf(l) = UNION each
  BY DEF CallsOf
<1>5. \A S \in each : IsFiniteSet(S)
  BY <1>2
<1> HIDE DEF each
<1> QED BY <1>3, <1>4, <1>5, FS_UNION, FS_CardinalityType

(* The calls of a reply.                                                   *)
LEMMA BatchTyped ==
  ASSUME TypeOK, NEW calls \in Batches
  PROVE  calls \in Seq(Call)
<1> DEFINE made == Cardinality(CallsOf(log))
           Lengths == {k \in 0 .. MaxBatch : made + k <= MaxCalls}
           Numbered(tools) == [i \in DOMAIN tools |-> [id |-> made + i, tool |-> tools[i]]]
<1>1. made \in Nat
  BY FiniteCalls DEF TypeOK
<1>2. PICK tools \in UNION {[1 .. n -> Tools] : n \in Lengths} : calls = Numbered(tools)
  BY DEF Batches
<1> HIDE DEF made
<1>3. PICK n \in Lengths : tools \in [1 .. n -> Tools]
  BY <1>2
<1>4. n \in Nat /\ made + n <= MaxCalls
  BY TurnConstants
<1>5. \A i \in 1 .. n : [id |-> made + i, tool |-> tools[i]] \in Call
  BY <1>1, <1>3, <1>4, TurnConstants DEF Call
<1>6. calls \in [1 .. n -> Call]
  BY <1>2, <1>3, <1>5
<1> QED BY <1>4, <1>6
(* What a result, a result of a call not run, a question and its record    *)
(* leave behind.                                                           *)
LEMMA TypeResult ==
  ASSUME TypeInv, batch /= <<>>, NEW origin \in Origins, Result(origin),
         UNCHANGED <<actorVars, bookVars>>
  PROVE  TypeInv'
<1> USE DEF mailVars, loopVars, threadVars, actorVars, bookVars
<1>1. ToolResult(Head(batch).id, origin) \in Event /\ Tail(batch) \in Seq(Call)
  BY HeadOfBatch, EventTypes DEF TypeInv
<1>2. /\ log' \in Seq(Event) /\ Len(log') = Len(log) + 1 /\ Len(log) \in Nat
      /\ shared' \in Shared /\ shared'.steered <= shared'.queued
  BY <1>1, WriteTyped DEF Result, TypeInv
<1>3. asked' \in BOOLEAN
  BY DEF Result, TypeInv, TypeOK
<1>4. /\ pc' \in {"after_calls", "siblings", "calls"}
      /\ Tail(batch) = <<>> => pc' = "after_calls"
      /\ batch' = Tail(batch)
  BY DEF Result
<1>5. TypeOK'
  BY <1>1, <1>2, <1>3, <1>4, TurnConstants DEF Result, TypeInv, TypeOK, Places
<1>6. BatchAtHand' /\ BudgetLasts'
  BY <1>4 DEF BatchAtHand, AtCall, BudgetLasts
<1> QED BY <1>5, <1>6 DEF TypeInv

LEMMA TypeNotRun ==
  ASSUME TypeInv, pc \in {"length", "siblings", "after_calls"},
         NEW next \in {"end", "after_calls", "interrupt"},
         NotRun("not_run", next), UNCHANGED <<actorVars, bookVars>>
  PROVE  TypeInv'
<1> USE DEF mailVars, loopVars, askVars, threadVars, actorVars, bookVars
<1>1. ToolResult(Head(batch).id, "not_run") \in Event /\ Tail(batch) \in Seq(Call)
  BY HeadOfBatch, EventTypes DEF NotRun, TypeInv, Origins
<1>2. /\ log' \in Seq(Event) /\ Len(log') = Len(log) + 1 /\ Len(log) \in Nat
      /\ shared' \in Shared /\ shared'.steered <= shared'.queued
  BY <1>1, WriteTyped DEF NotRun, TypeInv
<1>3. /\ pc' \in {pc, next} /\ batch' = Tail(batch)
      /\ Tail(batch) = <<>> => pc' = next
  BY DEF NotRun
<1>4. TypeOK'
  BY <1>1, <1>2, <1>3 DEF NotRun, TypeInv, TypeOK, Places
<1>5. BatchAtHand' /\ BudgetLasts'
  BY <1>3 DEF BatchAtHand, AtCall, BudgetLasts
<1> QED BY <1>4, <1>5 DEF TypeInv

LEMMA TypeSettle ==
  ASSUME TypeInv, batch /= <<>>, NEW e \in Event,
         NEW next \in {"refused", "tool", "said", "switched"}, Settle(e, next),
         grant' \in BOOLEAN, project' \in {Home, Away}, jobs' \subseteq 1 .. MaxCalls,
         UNCHANGED <<actorVars, bookVars>>
  PROVE  TypeInv'
<1> USE DEF mailVars, batchVars, loopVars, actorVars, bookVars
<1>1. /\ log' \in Seq(Event) /\ Len(log') = Len(log) + 1 /\ Len(log) \in Nat
      /\ shared' \in Shared /\ shared'.steered <= shared'.queued
  BY WriteTyped DEF Settle, TypeInv
<1>2. TypeOK'
  BY <1>1, TurnConstants DEF Settle, TypeInv, TypeOK, Places
<1>3. BatchAtHand' /\ BudgetLasts'
  BY DEF Settle, BatchAtHand, AtCall, BudgetLasts
<1> QED BY <1>2, <1>3 DEF TypeInv

LEMMA TypeRegister ==
  ASSUME TypeInv, batch /= <<>>, NEW s \in Shared, s.steered <= s.queued,
         NEW state \in Asked, Register(s, state),
         log' \in Seq(Event), Len(log') >= Len(log),
         UNCHANGED <<actorVars, bookVars>>
  PROVE  TypeInv'
<1> USE DEF mailVars, batchVars, loopVars, threadVars, actorVars, bookVars
<1>1. Waits(s, state) \in Shared /\ Waits(s, state).steered <= Waits(s, state).queued
  BY DEF Waits, Shared, Asked
<1>2. Head(batch).id \in 0 .. MaxCalls
  BY HeadOfBatch, TurnConstants DEF TypeInv
<1>3. idleSwitch \in 0 .. Len(log')
  BY DEF TypeInv, TypeOK
<1>4. TypeOK'
  BY <1>1, <1>2, <1>3 DEF Register, TypeInv, TypeOK, Places
<1>5. BatchAtHand' /\ BudgetLasts'
  BY DEF Register, BatchAtHand, AtCall, BudgetLasts
<1> QED BY <1>4, <1>5 DEF TypeInv

LEMMA TypeStream ==
  ASSUME TypeInv, Stream, UNCHANGED <<actorVars, bookVars>>
  PROVE  TypeInv'
<1> USE DEF mailVars, batchVars, askVars, threadVars, actorVars, bookVars
<1>0. /\ inbox \in Seq(1 .. posts) /\ held \in Seq(1 .. posts)
      /\ held \o inbox \in Seq(1 .. posts) /\ <<>> \in Seq(1 .. posts)
  BY DEF TypeInv, TypeOK
<1>1. CASE StreamHolds
  <2>1. Head(inbox) \in 1 .. posts /\ Tail(inbox) \in Seq(1 .. posts)
    BY <1>1, QueuedPost DEF StreamHolds, TypeInv
  <2>2. Append(held, Head(inbox)) \in Seq(1 .. posts)
    BY <1>0, <2>1
  <2> QED BY <1>1, <2>1, <2>2 DEF StreamHolds, loopVars, TypeInv, TypeOK, BatchAtHand, BudgetLasts
<1>2. CASE StreamInterrupted
  BY <1>0, <1>2 DEF StreamInterrupted, loopVars, TypeInv, TypeOK, BatchAtHand, BudgetLasts,
     AtCall, Places
<1>3. CASE StreamRetried
  <2>1. /\ log' \in Seq(Event) /\ Len(log') = Len(log) + 1 /\ Len(log) \in Nat
        /\ shared' \in Shared /\ shared'.steered <= shared'.queued
    BY <1>3, EventTypes, WriteTyped DEF StreamRetried, TypeInv
  <2> QED BY <1>0, <1>3, <2>1 DEF StreamRetried, StreamOver, TypeInv, TypeOK, BatchAtHand,
          BudgetLasts
<1>4. CASE StreamFails
  <2>1. spent' \in 0 .. MaxIterations
    BY <1>4, TurnConstants DEF StreamFails, StreamOver, TypeInv, TypeOK, BudgetLasts
  <2> QED BY <1>0, <1>4, <2>1 DEF StreamFails, StreamOver, TypeInv, TypeOK, BatchAtHand,
          BudgetLasts, AtCall, Places, Reasons
<1>5. CASE StreamReplies
  <2>1. PICK calls \in Batches, short \in {FALSE, "length" \in Faults} :
          /\ Write(AssistantMessage(calls))
          /\ batch' = calls
          /\ pc' = IF calls = <<>> THEN "end" ELSE IF short THEN "length" ELSE "calls"
          /\ reason' = IF short THEN "length" ELSE "done"
    BY <1>5 DEF StreamReplies
  <2>2. calls \in Seq(Call)
    BY BatchTyped DEF TypeInv
  <2>3. /\ log' \in Seq(Event) /\ Len(log') = Len(log) + 1 /\ Len(log) \in Nat
        /\ shared' \in Shared /\ shared'.steered <= shared'.queued
    BY <2>1, <2>2, EventTypes, WriteTyped DEF TypeInv
  <2>4. spent' \in 0 .. MaxIterations
    BY <1>5, TurnConstants DEF StreamReplies, StreamOver, TypeInv, TypeOK, BudgetLasts
  <2>5. /\ pc' \in {"end", "length", "calls"} /\ reason' \in {"length", "done"}
        /\ batch' = <<>> => pc' = "end"
    BY <2>1
  <2>6. /\ held' = held \o inbox /\ inbox' = <<>> /\ cancel' = cancel /\ asked' = FALSE
        /\ UNCHANGED <<retried, context, askVars, threadVars>>
    BY <1>5 DEF StreamReplies, StreamOver
  <2>7. batch' \in Seq(Call) /\ pc' \in Places /\ reason' \in Reasons
    BY <2>1, <2>2, <2>5 DEF Places, Reasons
  <2>8. idleSwitch' \in 0 .. Len(log')
    BY <2>3 DEF TypeInv, TypeOK
  <2>9. /\ inbox' \in Seq(1 .. posts') /\ held' \in Seq(1 .. posts')
         /\ notes' \in Seq(1 .. MaxCalls) /\ cancel' \in BOOLEAN
    BY <1>0, <2>6 DEF TypeInv, TypeOK
  <2>10. TypeOK'
    BY <2>3, <2>4, <2>6, <2>7, <2>8, <2>9 DEF TypeInv, TypeOK
  <2>11. BatchAtHand' /\ BudgetLasts'
    BY <2>5 DEF BatchAtHand, AtCall, BudgetLasts
  <2> QED BY <2>10, <2>11 DEF TypeInv
<1> QED BY <1>1, <1>2, <1>3, <1>4, <1>5 DEF Stream

LEMMA TypeCalls ==
  ASSUME TypeInv, Calls, UNCHANGED <<actorVars, bookVars>>
  PROVE  TypeInv'
<1> USE DEF mailVars, batchVars, loopVars, askVars, threadVars, actorVars, bookVars
<1>0. pc \in AtCall => batch /= <<>>
  BY DEF TypeInv, BatchAtHand
<1>1. CASE LengthStop
  BY <1>1, TypeNotRun DEF LengthStop
<1>2. CASE Siblings
  BY <1>2, TypeNotRun DEF Siblings
<1>3. CASE RunPlain
  BY <1>3 DEF RunPlain, NextCall, TypeInv, TypeOK, BatchAtHand, BudgetLasts, AtCall, Places
<1>4. CASE AskPermission
  <2> DEFINE e == PermissionRequested(Head(batch).id)
  <2>1. batch /= <<>>
    BY <1>0, <1>4 DEF AskPermission, NextCall, AtCall
  <2>2. e \in Event
    BY <2>1, HeadOfBatch, EventTypes DEF TypeInv
  <2>3. /\ log' = Append(log, e)
        /\ Register(Observed(shared, e), "AwaitingApproval")
    BY <1>4 DEF AskPermission
  <2> HIDE DEF e
  <2>4. log' \in Seq(Event) /\ Len(log') >= Len(log)
    BY <2>2, <2>3, Appended DEF TypeInv, TypeOK
  <2>5. Observed(shared, e) \in Shared /\ Observed(shared, e).steered <= Observed(shared, e).queued
    BY <2>2, ObservedShared DEF TypeInv, TypeOK
  <2> QED BY <2>1, <2>3, <2>4, <2>5, TypeRegister DEF Asked
<1>5. CASE RequestGranted
  <2>1. batch /= <<>>
    BY <1>0, <1>5 DEF RequestGranted, NextCall, AtCall
  <2>2. PermissionRequested(Head(batch).id) \in Event
    BY <2>1, HeadOfBatch, EventTypes DEF TypeInv
  <2>3. /\ log' \in Seq(Event) /\ Len(log') = Len(log) + 1 /\ Len(log) \in Nat
        /\ shared' \in Shared /\ shared'.steered <= shared'.queued
    BY <1>5, <2>2, WriteTyped DEF RequestGranted, TypeInv
  <2> QED BY <1>5, <2>1, <2>3 DEF RequestGranted, TypeInv, TypeOK, BatchAtHand, BudgetLasts,
          AtCall, Places
<1>6. CASE Granted
  <2>1. batch /= <<>>
    BY <1>0, <1>6 DEF Granted, AtCall
  <2>2. PermissionDecided(Head(batch).id, TRUE, "grant") \in Event
    BY <2>1, HeadOfBatch, EventTypes DEF TypeInv, Deciders
  <2>3. /\ log' \in Seq(Event) /\ Len(log') = Len(log) + 1 /\ Len(log) \in Nat
        /\ shared' \in Shared /\ shared'.steered <= shared'.queued
    BY <1>6, <2>2, WriteTyped DEF Granted, TypeInv
  <2> QED BY <1>6, <2>1, <2>3 DEF Granted, TypeInv, TypeOK, BatchAtHand, BudgetLasts,
          AtCall, Places
<1>7. CASE AskHuman
  <2>1. batch /= <<>>
    BY <1>0, <1>7 DEF AskHuman, NextCall, AtCall
  <2>2. log' \in Seq(Event) /\ Len(log') >= Len(log)
    BY <1>7 DEF AskHuman, TypeInv, TypeOK
  <2>3. shared \in Shared /\ shared.steered <= shared.queued
    BY DEF TypeInv, TypeOK
  <2>4. Register(shared, "AwaitingHuman")
    BY <1>7 DEF AskHuman
  <2> QED BY <2>1, <2>2, <2>3, <2>4, TypeRegister DEF Asked
<1>8. CASE Propose
  <2> DEFINE e == DecisionProposed("turn", Head(batch).id)
  <2>1. batch /= <<>>
    BY <1>0, <1>8 DEF Propose, NextCall, AtCall
  <2>2. e \in Event
    <3>1. Head(batch).id \in 0 .. MaxCalls
      BY <2>1, HeadOfBatch, TurnConstants DEF TypeInv
    <3> QED BY <3>1, EventTypes
  <2>3. /\ log' = Append(log, e)
        /\ Register(Observed(shared, e), "AwaitingSwitch")
    BY <1>8 DEF Propose
  <2> HIDE DEF e
  <2>4. log' \in Seq(Event) /\ Len(log') >= Len(log)
    BY <2>2, <2>3, Appended DEF TypeInv, TypeOK
  <2>5. Observed(shared, e) \in Shared /\ Observed(shared, e).steered <= Observed(shared, e).queued
    BY <2>2, ObservedShared DEF TypeInv, TypeOK
  <2> QED BY <2>1, <2>3, <2>4, <2>5, TypeRegister DEF Asked
<1>9. CASE ToolDone
  BY <1>0, <1>9, TypeResult DEF ToolDone, AtCall, Origins
<1>10. CASE ToolKilled
  BY <1>0, <1>10, TypeResult DEF ToolKilled, AtCall, Origins
<1> QED BY <1>1, <1>2, <1>3, <1>4, <1>5, <1>6, <1>7, <1>8, <1>9, <1>10 DEF Calls

(* The proposal of the waiting call is a place of the log.                 *)
LEMMA ProposalPlace ==
  ASSUME TypeOK
  PROVE  Proposal \in 0 .. Len(log)
<1> DEFINE places == {i \in 1 .. Len(log) : log[i].kind = "decision_proposed"}
<1>1. Proposal = IF places /= {} THEN Max(places) ELSE 0
  BY DEF Proposal, SelectLastInSeq
<1>2. Len(log) \in Nat /\ places \in SUBSET (1 .. Len(log))
  BY DEF TypeOK
<1>3. places /= {} => Max(places) \in places
  <2> HIDE DEF places
  <2> QED BY <1>2, LastPlace
<1> QED BY <1>1, <1>2, <1>3

LEMMA TypeWait ==
  ASSUME TypeInv, Wait, UNCHANGED <<actorVars, bookVars>>
  PROVE  TypeInv'
<1>1. pc \in {"ask", "switched", "said", "refused"} => batch /= <<>>
  BY DEF TypeInv, BatchAtHand, AtCall
<1>2. pc \in {"ask", "switched", "said", "refused"}
  BY DEF Wait, PermissionInterrupted, HumanInterrupted, ProposalInterrupted, Interrupts,
     PermissionAllowed, PermissionDenied, HumanAnswered, Declined, SwitchAgreed,
     SwitchRecorded, SwitchFails, JobApproved, Answers, Said, Refused
<1>3. batch /= <<>> /\ Head(batch).id \in 1 .. MaxCalls
  BY <1>1, <1>2, HeadOfBatch DEF TypeInv
<1>4. /\ \A a \in BOOLEAN, b \in Deciders : PermissionDecided(Head(batch).id, a, b) \in Event
      /\ ProjectSwitched(Away) \in Event
  BY <1>3, EventTypes
<1>5. \A a \in {"yes", "no", "withdrawn"} : DecisionAnswered(Proposal, a) \in Event
  <2>1. Proposal \in Nat
    BY ProposalPlace DEF TypeInv
  <2> QED BY <2>1, EventTypes
<1>6. grant \in BOOLEAN /\ project \in {Home, Away} /\ jobs \subseteq 1 .. MaxCalls
  BY DEF TypeInv, TypeOK
<1>7. CASE PermissionInterrupted
  <2>1. Settle(PermissionDecided(Head(batch).id, FALSE, "interrupter"), "refused")
    BY <1>7 DEF PermissionInterrupted
  <2>2. grant' = grant /\ project' = project /\ jobs' = jobs
    BY <1>7 DEF PermissionInterrupted, threadVars
  <2> QED BY <1>3, <1>4, <1>6, <2>1, <2>2, TypeSettle DEF Deciders
<1>8. CASE HumanInterrupted
  BY <1>3, <1>8, TypeResult DEF HumanInterrupted, Origins
<1>9. CASE ProposalInterrupted
  <2>1. Settle(DecisionAnswered(Proposal, "withdrawn"), "refused")
    BY <1>9 DEF ProposalInterrupted
  <2>2. grant' = grant /\ project' = project /\ jobs' = jobs
    BY <1>9 DEF ProposalInterrupted, threadVars
  <2> QED BY <1>3, <1>5, <1>6, <2>1, <2>2, TypeSettle
<1>10. CASE PermissionAllowed
  <2>1. Settle(PermissionDecided(Head(batch).id, TRUE, "person"), "tool")
    BY <1>10 DEF PermissionAllowed
  <2>2. grant' \in BOOLEAN /\ project' = project /\ jobs' = jobs
    BY <1>10 DEF PermissionAllowed, threadVars
  <2> QED BY <1>3, <1>4, <1>6, <2>1, <2>2, TypeSettle DEF Deciders
<1>11. CASE PermissionDenied
  <2>1. Settle(PermissionDecided(Head(batch).id, FALSE, "person"), "refused")
    BY <1>11 DEF PermissionDenied
  <2>2. grant' = grant /\ project' = project /\ jobs' = jobs
    BY <1>11 DEF PermissionDenied, threadVars
  <2> QED BY <1>3, <1>4, <1>6, <2>1, <2>2, TypeSettle DEF Deciders
<1>12. CASE HumanAnswered
  BY <1>3, <1>12, TypeResult DEF HumanAnswered, Origins
<1>13. CASE Declined
  <2>1. Settle(DecisionAnswered(Proposal, "no"), "said")
    BY <1>13 DEF Declined
  <2>2. grant' = grant /\ project' = project /\ jobs' = jobs
    BY <1>13 DEF Declined, threadVars
  <2> QED BY <1>3, <1>5, <1>6, <2>1, <2>2, TypeSettle
<1>14. CASE SwitchAgreed
  <2>1. Settle(ProjectSwitched(Away), "switched")
    BY <1>14 DEF SwitchAgreed
  <2>2. grant' = FALSE /\ project' = Away /\ jobs' = jobs
    BY <1>14 DEF SwitchAgreed
  <2> QED BY <1>3, <1>4, <1>6, <2>1, <2>2, TypeSettle
<1>15. CASE SwitchRecorded
  <2>1. Settle(DecisionAnswered(Proposal, "yes"), "said")
    BY <1>15 DEF SwitchRecorded
  <2>2. grant' = grant /\ project' = project /\ jobs' = jobs
    BY <1>15 DEF SwitchRecorded, threadVars
  <2> QED BY <1>3, <1>5, <1>6, <2>1, <2>2, TypeSettle
<1>16. CASE SwitchFails
  <2>1. Settle(DecisionAnswered(Proposal, "withdrawn"), "refused")
    BY <1>16 DEF SwitchFails
  <2>2. grant' = FALSE /\ project' = Away /\ jobs' = jobs
    BY <1>16 DEF SwitchFails
  <2> QED BY <1>3, <1>5, <1>6, <2>1, <2>2, TypeSettle
<1>17. CASE JobApproved
  <2>1. Settle(DecisionAnswered(Proposal, "yes"), "said")
    BY <1>17 DEF JobApproved
  <2>2. grant' = grant /\ project' = project /\ jobs' \subseteq 1 .. MaxCalls
    BY <1>3, <1>6, <1>17 DEF JobApproved
  <2> QED BY <1>3, <1>5, <1>6, <2>1, <2>2, TypeSettle
<1>18. CASE Said
  BY <1>3, <1>18, TypeResult DEF Said, Origins
<1>19. CASE Refused
  BY <1>3, <1>19, TypeResult DEF Refused, Origins
<1> QED
  BY <1>7, <1>8, <1>9, <1>10, <1>11, <1>12, <1>13, <1>14, <1>15, <1>16, <1>17, <1>18, <1>19
  DEF Wait

LEMMA TypeEnding ==
  ASSUME TypeInv, Ending, UNCHANGED <<actorVars, bookVars>>
  PROVE  TypeInv'
<1> USE DEF mailVars, batchVars, loopVars, askVars, threadVars, actorVars, bookVars
<1>1. CASE Synthetic
  BY <1>1, TypeNotRun DEF Synthetic, AfterCalls
<1>2. CASE BatchOver
  BY <1>2 DEF BatchOver, AfterCalls, TypeInv, TypeOK, BatchAtHand, BudgetLasts, AtCall,
     Places, Reasons
<1>3. CASE FlushLast
  <2>1. UserMessage(Head(held), TRUE, FALSE) \in Event /\ Tail(held) \in Seq(1 .. posts)
    BY <1>3, QueuedPost, EventTypes DEF FlushLast, TypeInv
  <2>2. /\ log' \in Seq(Event) /\ Len(log') = Len(log) + 1 /\ Len(log) \in Nat
        /\ shared' \in Shared /\ shared'.steered <= shared'.queued
    BY <1>3, <2>1, WriteTyped DEF FlushLast, AppendQueued, TypeInv
  <2> QED BY <1>3, <2>1, <2>2 DEF FlushLast, TypeInv, TypeOK, BatchAtHand, BudgetLasts
<1>4. CASE NoteInterrupt
  <2>1. /\ log' \in Seq(Event) /\ Len(log') = Len(log) + 1 /\ Len(log) \in Nat
        /\ shared' \in Shared /\ shared'.steered <= shared'.queued
    BY <1>4, EventTypes, WriteTyped DEF NoteInterrupt, TypeInv
  <2> QED BY <1>4, <2>1 DEF NoteInterrupt, TypeInv, TypeOK, BatchAtHand, BudgetLasts, AtCall,
          Places, Reasons
<1>5. CASE EndTurn
  <2>1. TurnEnded(reason) \in Event
    BY EventTypes DEF TypeInv, TypeOK
  <2>2. /\ log' \in Seq(Event) /\ Len(log') = Len(log) + 1 /\ Len(log) \in Nat
        /\ shared' \in Shared /\ shared'.steered <= shared'.queued
    BY <1>5, <2>1, WriteTyped DEF EndTurn, TypeInv
  <2>3. <<>> \in Seq(1 .. posts)
    OBVIOUS
  <2> QED BY <1>5, <2>2, <2>3 DEF EndTurn, TypeInv, TypeOK, BatchAtHand, BudgetLasts, AtCall,
          OutOfTurn
<1> QED BY <1>1, <1>2, <1>3, <1>4, <1>5 DEF Ending

(* The project the log names is one of the two.                            *)
LEMMA LoggedProjectTyped ==
  ASSUME NEW l, l \in Seq(Event)
  PROVE  LoggedProject(l, Home) \in {Home, Away}
<1> DEFINE moves == {i \in 1 .. Len(l) : l[i].kind = "project_switched"}
<1>1. LastSwitch(l) = IF moves /= {} THEN Max(moves) ELSE 0
  BY DEF LastSwitch, SelectLastInSeq
<1>2. Len(l) \in Nat /\ moves \in SUBSET (1 .. Len(l))
  OBVIOUS
<1>3. moves /= {} => Max(moves) \in moves
  <2> HIDE DEF moves
  <2> QED BY <1>2, LastPlace
<1>4. \A i \in moves : l[i].to \in {Home, Away}
  <2> SUFFICES ASSUME NEW i \in moves PROVE l[i].to \in {Home, Away}
    OBVIOUS
  <2>1. l[i] \in Event /\ l[i].kind = "project_switched"
    OBVIOUS
  <2> QED BY <2>1 DEF Event
<1> HIDE DEF moves
<1> QED BY <1>1, <1>3, <1>4 DEF LoggedProject

(* What a turn begins with.                                                *)
LEMMA TypeBegin ==
  ASSUME TypeOK, NEW s \in Shared, NEW place \in {"loop", "start"}, Begin(s, place)
  PROVE  /\ pc' = place /\ shared' \in Shared /\ shared'.steered <= shared'.queued
         /\ shared'.held /\ shared'.state = "Running"
         /\ inbox' = <<>> /\ held' = <<>> /\ cancel' = FALSE
         /\ batch' = <<>> /\ asked' = FALSE
         /\ spent' \in 0 .. MaxIterations /\ reason' \in Reasons /\ retried' = FALSE
<1> DEFINE emptied == [s EXCEPT !.queued = 0, !.steered = 0]
<1>1. emptied \in Shared /\ emptied.queued = 0 /\ emptied.steered = 0
  BY DEF Shared
<1>2. shared' = Working(emptied) /\ spent' = 0 /\ reason' = "done"
  BY DEF Begin
<1> HIDE DEF emptied
<1>3. /\ shared' \in Shared /\ shared'.queued = 0 /\ shared'.steered = 0
      /\ shared'.held /\ shared'.state = "Running"
  BY <1>1, <1>2 DEF Working, Shared
<1> QED BY <1>2, <1>3, TurnConstants DEF Begin, Reasons

(* The actor's own appends.                                                *)
LEMMA TypeAppend ==
  ASSUME TypeOK, NEW e \in Event, log' = Append(log, e)
  PROVE  log' \in Seq(Event) /\ Len(log') = Len(log) + 1 /\ Len(log) \in Nat
BY Appended DEF TypeOK

LEMMA TypeIdled ==
  ASSUME TypeOK
  PROVE  /\ Idled(shared) \in Shared /\ Idled(shared).steered <= Idled(shared).queued
         /\ ~Idled(shared).held /\ Idled(shared).state = "Idle"
BY DEF Idled, TypeOK, Shared

LEMMA IdleEvents ==
  ASSUME TypeOK
  PROVE  /\ \A a \in {"yes", "no", "withdrawn"} : DecisionAnswered(idleSwitch, a) \in Event
         /\ Withdrawn \in Event
<1>1. idleSwitch \in Nat
  BY DEF TypeOK
<1> QED BY <1>1, EventTypes DEF Withdrawn

LEMMA TypeMail ==
  ASSUME TypeInv, Mail
  PROVE  TypeInv'
<1> USE DEF mailVars, batchVars, loopVars, askVars, threadVars, actorVars, bookVars
<1>0. TypeOK
  BY DEF TypeInv
<1>1. CASE PostIdle
  <2>1. log' \in Seq(Event) /\ 0 \in 0 .. Len(log')
    BY <1>0, <1>1, IdleEvents, TypeAppend DEF PostIdle, TypeOK
  <2>2. posts' \in 0 .. MaxPosts /\ starting' \in 0 .. posts'
    BY <1>0, <1>1, ActorConstants DEF PostIdle, TypeOK
  <2>3. /\ pc' = "start" /\ shared' \in Shared /\ shared'.steered <= shared'.queued
        /\ inbox' = <<>> /\ held' = <<>> /\ cancel' = FALSE
        /\ batch' = <<>> /\ asked' = FALSE
        /\ spent' \in 0 .. MaxIterations /\ reason' \in Reasons /\ retried' = FALSE
    BY <1>0, <1>1, TypeBegin DEF PostIdle, TypeOK
  <2>4. idleSwitch' = 0 /\ UNCHANGED <<askVars, threadVars, notes>>
    BY <1>1 DEF PostIdle
  <2>5. <<>> \in Seq(1 .. posts') /\ <<>> \in Seq(Call) /\ "start" \in OutOfTurn
    BY DEF OutOfTurn
  <2>6. TypeOK'
    BY <1>0, <2>1, <2>2, <2>3, <2>4, <2>5 DEF TypeOK
  <2> QED BY <2>3, <2>6 DEF TypeInv, BatchAtHand, AtCall, BudgetLasts
<1>2. CASE PostRunning
  <2>1. posts' \in 0 .. MaxPosts /\ posts + 1 = posts' /\ 1 .. posts \subseteq 1 .. posts'
    BY <1>0, <1>2, ActorConstants DEF PostRunning, TypeOK
  <2>2. posts + 1 \in 1 .. posts'
    BY <1>0, <2>1 DEF TypeOK
  <2>3. inbox \in Seq(1 .. posts') /\ held \in Seq(1 .. posts')
    BY <1>0, <2>1 DEF TypeOK
  <2>4. inbox' \in Seq(1 .. posts') /\ held' \in Seq(1 .. posts') /\ starting' \in 0 .. posts'
    BY <1>0, <1>2, <2>1, <2>2, <2>3 DEF PostRunning, TypeOK
  <2>5. cancel' \in BOOLEAN
    BY <1>0, <1>2 DEF PostRunning, TypeOK
  <2>6. UNCHANGED <<log, pc, batchVars, loopVars, askVars, threadVars, shared, idleSwitch, notes>>
    BY <1>2 DEF PostRunning
  <2>7. TypeOK'
    BY <1>0, <2>1, <2>4, <2>5, <2>6 DEF TypeOK
  <2> QED BY <2>6, <2>7 DEF TypeInv, BatchAtHand, BudgetLasts
<1>3. CASE Interrupt
  BY <1>3 DEF Interrupt, TypeInv, TypeOK, BatchAtHand, BudgetLasts
<1>4. CASE Decide
  <2>1. answer' \in {Nothing, "allow", "session", "deny", "text", "yes", "no"}
    BY <1>4 DEF Decide, AnswersFor
  <2>2. waiting' \in 0 .. MaxCalls
    BY <1>4, TurnConstants DEF Decide
  <2> QED BY <1>4, <2>1, <2>2 DEF Decide, TypeInv, TypeOK, BatchAtHand, BudgetLasts
<1>5. CASE JobReturns
  <2>1. PICK j \in jobs :
          IF Running
          THEN notes' = Append(notes, j) /\ UNCHANGED <<log, shared>>
          ELSE /\ UNCHANGED notes
               /\ IF JobReturned(log, j) THEN UNCHANGED <<log, shared>>
                                         ELSE Write(JobFinished(j))
    BY <1>5 DEF JobReturns
  <2>2. j \in 1 .. MaxCalls
    BY <1>0 DEF TypeOK
  <2>3. notes' \in Seq(1 .. MaxCalls)
    <3>1. notes \in Seq(1 .. MaxCalls) /\ Append(notes, j) \in Seq(1 .. MaxCalls)
      BY <1>0, <2>2 DEF TypeOK
    <3>2. notes' \in {notes, Append(notes, j)}
      BY <2>1
    <3> QED BY <3>1, <3>2
  <2>4. /\ log' \in Seq(Event) /\ idleSwitch \in 0 .. Len(log')
        /\ shared' \in Shared /\ shared'.steered <= shared'.queued
    <3>1. CASE Write(JobFinished(j))
      BY <1>0, <2>2, <3>1, EventTypes, WriteTyped DEF TypeOK
    <3> QED BY <1>0, <2>1, <3>1 DEF TypeOK
  <2>5. UNCHANGED <<pc, mailVars, batchVars, loopVars, askVars, threadVars,
                    idleSwitch, starting, posts>>
    BY <1>5 DEF JobReturns
  <2>6. TypeOK'
    BY <1>0, <2>3, <2>4, <2>5 DEF TypeOK
  <2> QED BY <2>5, <2>6 DEF TypeInv, BatchAtHand, BudgetLasts
<1>6. CASE ProposeIdle
  <2>1. log' \in Seq(Event) /\ idleSwitch' \in 0 .. Len(log')
    <3>1. DecisionProposed("startup", 0) \in Event
      BY EventTypes, TurnConstants
    <3> QED BY <1>0, <1>6, <3>1, TypeAppend DEF ProposeIdle
  <2>2. shared' \in Shared /\ shared'.steered <= shared'.queued
    BY <1>0, <1>6 DEF ProposeIdle, TypeOK, Shared, Asked
  <2> QED BY <1>6, <2>1, <2>2 DEF ProposeIdle, TypeInv, TypeOK, BatchAtHand, BudgetLasts
<1>7. ASSUME NEW e \in Event, AnswerIdle(e), pc' \in {"idle", "idle_switched"},
             shared' \in Shared, shared'.steered <= shared'.queued,
             idleSwitch' \in {0, idleSwitch}, project' \in {Home, Away}, grant' \in BOOLEAN
      PROVE  TypeInv'
  <2>1. log' \in Seq(Event) /\ Len(log') = Len(log) + 1 /\ Len(log) \in Nat
    BY <1>0, <1>7, TypeAppend DEF AnswerIdle
  <2>2. UNCHANGED <<mailVars, batchVars, loopVars, waiting, answer, jobs, notes, starting, posts>>
    BY <1>7 DEF AnswerIdle
  <2>3. TypeOK'
    BY <1>0, <1>7, <2>1, <2>2 DEF TypeOK, OutOfTurn
  <2> QED BY <1>7, <2>3 DEF TypeInv, BatchAtHand, AtCall, BudgetLasts
<1>8. CASE DeclineIdle
  <2>1. DecisionAnswered(idleSwitch, "no") \in Event /\ pc' = "idle"
    BY <1>0, <1>8, IdleEvents DEF DeclineIdle, AnswerIdle
  <2> QED BY <1>0, <1>7, <1>8, <2>1, TypeIdled DEF DeclineIdle, TypeOK
<1>9. CASE FailIdle
  <2>1. Withdrawn \in Event /\ pc' = "idle"
    BY <1>0, <1>9, IdleEvents DEF FailIdle, AnswerIdle
  <2> QED BY <1>0, <1>7, <1>9, <2>1, TypeIdled DEF FailIdle
<1>10. CASE AgreeIdle
  <2>1. ProjectSwitched(Away) \in Event /\ shared \in Shared /\ shared.steered <= shared.queued
    BY <1>0, EventTypes DEF TypeOK
  <2> QED BY <1>7, <1>10, <2>1 DEF AgreeIdle
<1>11. CASE WithdrawByHand
  <2>1. log' \in Seq(Event) /\ 0 \in 0 .. Len(log')
    BY <1>0, <1>11, IdleEvents, TypeAppend DEF WithdrawByHand, TypeOK
  <2>2. shared' \in Shared /\ shared'.steered <= shared'.queued
    BY <1>0, <1>11, TypeIdled DEF WithdrawByHand, TypeOK
  <2> QED BY <1>11, <2>1, <2>2 DEF WithdrawByHand, TypeInv, TypeOK, BatchAtHand, AtCall,
          BudgetLasts, OutOfTurn
<1>12. CASE StartupAsk
  <2>1. DecisionProposed("ask", 0) \in Event
    BY EventTypes, TurnConstants
  <2>2. /\ log' \in Seq(Event) /\ Len(log') = Len(log) + 1 /\ Len(log) \in Nat
        /\ shared' \in Shared /\ shared'.steered <= shared'.queued
    BY <1>0, <1>12, <2>1, WriteTyped DEF StartupAsk
  <2> QED BY <1>12, <2>2 DEF StartupAsk, TypeInv, TypeOK, BatchAtHand, AtCall, BudgetLasts,
          OutOfTurn
<1> QED
  BY <1>1, <1>2, <1>3, <1>4, <1>5, <1>6, <1>8, <1>9, <1>10, <1>11, <1>12 DEF Mail

(* What a resume finds to answer is of the log: its proposals by their     *)
(* place, its calls by their ids.                                          *)
LEMMA OpenTyped ==
  ASSUME NEW l, l \in Seq(Event)
  PROVE  OpenProposals(l) \subseteq Nat /\ Unanswered(l) \subseteq Call
<1>0. LastEnd(l) \in 0 .. Len(l) /\ Len(l) \in Nat
  BY LastEndIsLast
<1>1. OpenProposals(l) \subseteq Nat
  BY <1>0 DEF OpenProposals, Open
<1> DEFINE replies == {i \in LastEnd(l) + 1 .. Len(l) : l[i].kind = "assistant_message"}
<1>2. LastReply(l) = IF replies /= {} THEN Max(replies) ELSE 0
  BY DEF LastReply, SelectLastInSubSeq
<1>3. replies \in SUBSET (1 .. Len(l))
  BY <1>0
<1>4. replies /= {} => Max(replies) \in replies
  <2> HIDE DEF replies
  <2> QED BY <1>0, <1>3, LastPlace
<1>5. \A i \in replies : ToSet(l[i].calls) \subseteq Call
  <2> SUFFICES ASSUME NEW i \in replies PROVE ToSet(l[i].calls) \subseteq Call
    OBVIOUS
  <2>1. l[i] \in Event /\ l[i].kind = "assistant_message"
    BY <1>3
  <2>2. l[i].calls \in Seq(Call)
    BY <2>1 DEF Event
  <2> QED BY <2>2 DEF ToSet, Range
<1>6. LastReply(l) /= 0 => ToSet(l[LastReply(l)].calls) \subseteq Call
  <2> HIDE DEF replies
  <2> QED BY <1>2, <1>4, <1>5
<1>7. Unanswered(l) \subseteq Call
  BY <1>6 DEF Unanswered
<1> QED BY <1>1, <1>7

LEMMA TypeRepair ==
  ASSUME TypeInv, NEW e \in Event, Repair(e), pc' \in {pc, "clean", "interrupted"}
  PROVE  TypeInv'
<1> USE DEF mailVars, batchVars, loopVars, askVars, threadVars, actorVars, bookVars
<1>1. /\ log' \in Seq(Event) /\ Len(log') = Len(log) + 1 /\ Len(log) \in Nat
      /\ shared' \in Shared /\ shared'.steered <= shared'.queued
  BY WriteTyped DEF Repair, TypeInv
<1>2. TypeOK'
  BY <1>1 DEF Repair, TypeInv, TypeOK, Booting
<1>3. BatchAtHand' /\ BudgetLasts'
  BY DEF Repair, TypeInv, BatchAtHand, AtCall, BudgetLasts
<1> QED BY <1>2, <1>3 DEF TypeInv

LEMMA TypeActor ==
  ASSUME TypeInv, ActorStep
  PROVE  TypeInv'
<1> USE DEF mailVars, batchVars, loopVars, askVars, threadVars, actorVars, bookVars
<1>0. TypeOK
  BY DEF TypeInv
<1>1. CASE StartTurn
  <2>0. starting \in Nat
    BY <1>0 DEF TypeOK
  <2>1. UserMessage(starting, FALSE, FALSE) \in Event
    BY <2>0, EventTypes
  <2>2. /\ log' \in Seq(Event) /\ Len(log') = Len(log) + 1 /\ Len(log) \in Nat
        /\ shared' \in Shared /\ shared'.steered <= shared'.queued
    BY <1>0, <1>1, <2>1, WriteTyped DEF StartTurn
  <2> QED BY <1>1, <2>2 DEF StartTurn, TypeInv, TypeOK, BatchAtHand, AtCall, BudgetLasts, Places
<1>2. CASE RunTurn
  <2>1. UNCHANGED <<actorVars, bookVars>>
    BY <1>2 DEF RunTurn
  <2>2. Loop \/ Stream \/ Calls \/ Wait \/ Ending
    BY <1>2 DEF RunTurn, TurnStep
  <2> QED BY <2>1, <2>2, TypeLoop, TypeStream, TypeCalls, TypeWait, TypeEnding
<1>3. CASE WriteNote
  <2>0. notes \in Seq(1 .. MaxCalls) /\ notes /= <<>>
    BY <1>0, <1>3 DEF WriteNote, TypeOK
  <2>1. Head(notes) \in 1 .. MaxCalls /\ Tail(notes) \in Seq(1 .. MaxCalls)
    BY <2>0, TurnConstants
  <2>2. /\ log' \in Seq(Event) /\ idleSwitch \in 0 .. Len(log')
        /\ shared' \in Shared /\ shared'.steered <= shared'.queued
    <3>1. CASE Write(JobFinished(Head(notes)))
      BY <1>0, <2>1, <3>1, EventTypes, WriteTyped DEF TypeOK
    <3>2. CASE UNCHANGED <<log, shared>>
      BY <1>0, <3>2 DEF TypeOK
    <3> QED BY <1>3, <3>1, <3>2 DEF WriteNote
  <2> QED BY <1>3, <2>1, <2>2 DEF WriteNote, TypeInv, TypeOK, BatchAtHand, BudgetLasts
<1>4. ASSUME NEW s \in Shared, Begin(s, "loop"),
             UNCHANGED <<log, askVars, threadVars, actorVars, bookVars>>
      PROVE  TypeInv'
  <2>1. /\ pc' = "loop" /\ shared' \in Shared /\ shared'.steered <= shared'.queued
        /\ inbox' = <<>> /\ held' = <<>> /\ cancel' = FALSE
        /\ batch' = <<>> /\ asked' = FALSE
        /\ spent' \in 0 .. MaxIterations /\ reason' \in Reasons /\ retried' = FALSE
    BY <1>0, <1>4, TypeBegin
  <2>2. <<>> \in Seq(1 .. posts') /\ <<>> \in Seq(Call) /\ "loop" \in Places
    BY DEF Places
  <2>3. TypeOK'
    BY <1>0, <1>4, <2>1, <2>2 DEF TypeOK
  <2> QED BY <2>1, <2>3 DEF TypeInv, BatchAtHand, AtCall, BudgetLasts
<1>5. CASE Continue
  BY <1>0, <1>4, <1>5 DEF Continue, TypeOK
<1>6. CASE GoIdle
  BY <1>6 DEF GoIdle, TypeInv, TypeOK, Shared, BatchAtHand, AtCall, BudgetLasts, OutOfTurn
<1>7. CASE SideJobs
  BY <1>7 DEF SideJobs, TypeInv, TypeOK, Shared, BatchAtHand, AtCall, BudgetLasts, OutOfTurn
<1>8. CASE RecordIdle
  <2>1. log' \in Seq(Event) /\ 0 \in 0 .. Len(log')
    BY <1>0, <1>8, IdleEvents, TypeAppend DEF RecordIdle
  <2> QED BY <1>0, <1>8, <2>1, TypeIdled DEF RecordIdle, TypeInv, TypeOK, BatchAtHand, AtCall,
          BudgetLasts, OutOfTurn
<1>9. ASSUME NEW to \in {Home, Away}, Move(to),
             log' \in Seq(Event), Len(log') >= Len(log),
             shared' \in Shared, shared'.steered <= shared'.queued
      PROVE  TypeInv'
  <2>1. idleSwitch \in 0 .. Len(log')
    BY <1>0, <1>9 DEF TypeOK
  <2> QED BY <1>9, <2>1 DEF Move, TypeInv, TypeOK, BatchAtHand, AtCall, BudgetLasts, OutOfTurn
<1>10. CASE SwitchByHand
  <2>1. PICK to \in {Home, Away} : Move(to) /\ Write(ProjectSwitched(to))
    BY <1>10 DEF SwitchByHand
  <2>2. /\ log' \in Seq(Event) /\ Len(log') = Len(log) + 1 /\ Len(log) \in Nat
        /\ shared' \in Shared /\ shared'.steered <= shared'.queued
    BY <1>0, <2>1, EventTypes, WriteTyped
  <2> QED BY <1>9, <2>1, <2>2
<1>11. CASE SwitchByHandFails
  <2>1. PICK to \in {Home, Away} : Move(to)
    BY <1>11 DEF SwitchByHandFails
  <2>2. /\ log' \in Seq(Event) /\ Len(log') >= Len(log)
        /\ shared' \in Shared /\ shared'.steered <= shared'.queued
    BY <1>0, <1>11 DEF SwitchByHandFails, TypeOK
  <2> QED BY <1>9, <2>1, <2>2
<1>12. CASE RecordStartupAsk
  <2>1. PICK a \in {"yes", "corrected"} : log' = Append(log, DecisionAnswered(Len(log), a))
    BY <1>12 DEF RecordStartupAsk
  <2>2. DecisionAnswered(Len(log), a) \in Event
    <3>1. Len(log) \in Nat
      BY <1>0 DEF TypeOK
    <3> QED BY <3>1, EventTypes
  <2>3. log' \in Seq(Event) /\ Len(log') = Len(log) + 1 /\ Len(log) \in Nat
    BY <1>0, <2>1, <2>2, TypeAppend
  <2> QED BY <1>0, <1>12, <2>3, TypeIdled DEF RecordStartupAsk, TypeInv, TypeOK, BatchAtHand,
          AtCall, BudgetLasts, OutOfTurn
<1>13. CASE WithdrawOpen
  <2>1. PICK i \in OpenProposals(log) : Repair(DecisionAnswered(i, "withdrawn"))
    BY <1>13 DEF WithdrawOpen
  <2>2. i \in Nat
    BY <1>0, OpenTyped DEF TypeOK
  <2>3. DecisionAnswered(i, "withdrawn") \in Event
    BY <2>2, EventTypes
  <2> QED BY <1>13, <2>1, <2>3, TypeRepair DEF WithdrawOpen
<1>14. CASE RestoreTurnEnded
  <2>1. TurnEnded("resumed") \in Event
    BY EventTypes DEF Reasons
  <2> QED BY <1>14, <2>1, TypeRepair DEF RestoreTurnEnded
<1>15. CASE AnswerUnanswered
  <2>1. PICK c \in Unanswered(log) : Repair(ToolResult(c.id, "unknown"))
    BY <1>15 DEF AnswerUnanswered
  <2>2. c.id \in 1 .. MaxCalls
    BY <1>0, OpenTyped DEF TypeOK, Call
  <2>3. ToolResult(c.id, "unknown") \in Event
    BY <2>2, EventTypes DEF Origins
  <2> QED BY <1>15, <2>1, <2>3, TypeRepair DEF AnswerUnanswered
<1>16. CASE NoteCrash
  BY <1>16, EventTypes, TypeRepair DEF NoteCrash
<1>17. ASSUME NEW place \in {"clean", "interrupted"}, Resumed(place)
       PROVE  TypeInv'
  BY <1>17 DEF Resumed, TypeInv, TypeOK, BatchAtHand, AtCall, BudgetLasts, Booting
<1>18. CASE NothingOpen
  BY <1>17, <1>18 DEF NothingOpen
<1>19. CASE AlreadyNoted
  BY <1>17, <1>19 DEF AlreadyNoted
<1>20. CASE Boot
  <2> DEFINE s == [shared EXCEPT !.held = FALSE, !.waiting = FALSE]
  <2>1. s \in Shared /\ s.steered <= s.queued
    BY <1>0 DEF TypeOK, Shared
  <2>2. /\ \/ Begin(s, "loop")
           \/ pc' = "idle" /\ shared' = s /\ UNCHANGED <<mailVars, batchVars, loopVars>>
        /\ UNCHANGED <<log, askVars, threadVars, actorVars, bookVars>>
    BY <1>20 DEF Boot
  <2> HIDE DEF s
  <2>3. CASE Begin(s, "loop")
    BY <1>4, <2>1, <2>2, <2>3
  <2>4. CASE pc' = "idle" /\ shared' = s /\ UNCHANGED <<mailVars, batchVars, loopVars>>
    BY <1>0, <2>1, <2>2, <2>4 DEF TypeInv, TypeOK, BatchAtHand, AtCall, BudgetLasts, OutOfTurn
  <2> QED BY <2>2, <2>3, <2>4
<1> QED
  BY <1>1, <1>2, <1>3, <1>5, <1>6, <1>7, <1>8, <1>10, <1>11, <1>12, <1>13, <1>14, <1>15,
     <1>16, <1>18, <1>19, <1>20
  DEF ActorStep

LEMMA TypeCrash ==
  ASSUME TypeInv, Crash
  PROVE  TypeInv'
<1>1. log' \in Seq(Event) /\ project' \in {Home, Away} /\ 0 \in 0 .. Len(log')
  BY LoggedProjectTyped DEF Crash, TypeInv, TypeOK
<1>2. shared' \in Shared /\ shared'.steered <= shared'.queued
  BY DEF Crash, Fresh, Shared
<1>3. /\ \A S : <<>> \in Seq(S)
      /\ "resume" \in Booting /\ "done" \in Reasons
      /\ 0 \in 0 .. MaxIterations /\ 0 \in 0 .. MaxCalls
      /\ Nothing \in {Nothing, "allow", "session", "deny", "text", "yes", "no"}
  BY TurnConstants DEF Booting, Reasons
<1>4. posts' = posts /\ posts \in 0 .. MaxPosts /\ 0 \in 0 .. posts
      /\ jobs' = jobs /\ jobs \subseteq 1 .. MaxCalls
  BY DEF Crash, TypeInv, TypeOK
<1>5. TypeOK'
  BY <1>1, <1>2, <1>3, <1>4 DEF Crash, TypeOK
<1> QED BY <1>5 DEF Crash, TypeInv, BatchAtHand, AtCall, BudgetLasts

LEMMA TypeInit ==
  ASSUME Init
  PROVE  TypeInv
<1>1. log \in Seq(Event) /\ 0 \in 0 .. Len(log) /\ shared \in Shared /\ shared.steered <= shared.queued
  BY DEF Init, Fresh, Shared
<1>2. /\ \A S : <<>> \in Seq(S)
      /\ "idle" \in OutOfTurn /\ "done" \in Reasons
      /\ 0 \in 0 .. MaxIterations /\ 0 \in 0 .. MaxCalls /\ 0 \in 0 .. MaxPosts
      /\ Nothing \in {Nothing, "allow", "session", "deny", "text", "yes", "no"}
  BY TurnConstants, ActorConstants DEF OutOfTurn, Reasons
<1>3. TypeOK
  BY <1>1, <1>2 DEF Init, TypeOK
<1> QED BY <1>3 DEF Init, TypeInv, BatchAtHand, AtCall, BudgetLasts

LEMMA TypeStep ==
  ASSUME TypeInv, [Next]_vars
  PROVE  TypeInv'
<1>1. CASE UNCHANGED vars
  BY <1>1 DEF vars, turnVars, mailVars, batchVars, loopVars, askVars, threadVars, actorVars,
     bookVars, TypeInv, TypeOK, BatchAtHand, BudgetLasts
<1> QED BY <1>1, TypeActor, TypeMail, TypeCrash DEF Next

-----------------------------------------------------------------------------
(* What is shown and held.                                                 *)

(* A working turn goes on, or ends: it stays shown and held.               *)
Goes ==
  /\ pc \in WorkingPlaces /\ pc' \in WorkingPlaces \union {"after"}
  /\ waiting' \in {0, waiting}
  /\ shared' = shared \/ \E e : shared' = Observed(shared, e)

LEMMA ShownGoes ==
  ASSUME TypeOK, ShownInv, Goes
  PROVE  ShownInv'
<1>1. shared \in Shared /\ shared.held /\ shared.state = "Running" /\ waiting = 0
  BY DEF Goes, ShownInv, WorkingPlaces, TypeOK
<1>2. shared'.held /\ shared'.state = "Running"
  BY <1>1, ObservedRunning DEF Goes
<1>3. waiting' = 0 /\ pc' \notin {"ask", "switched"} \union Asleep
  BY <1>1 DEF Goes, WorkingPlaces, Asleep, Places
<1> QED BY <1>2, <1>3 DEF ShownInv

(* What is recorded of an answer, or the result, ends the wait.            *)
LEMMA ShownSettles ==
  ASSUME TypeOK, ShownInv, pc \in {"ask", "switched"},
         NEW e, e.kind \in EndsAWait, Write(e),
         pc' \in WorkingPlaces, waiting' = 0
  PROVE  ShownInv'
<1>1. shared \in Shared /\ shared.state /= "Running"
  BY DEF ShownInv, Asked, TypeOK
<1>2. shared'.held /\ shared'.state = "Running"
  BY <1>1, ObservedSettles DEF Write
<1> QED BY <1>2 DEF ShownInv, WorkingPlaces, Asleep, Places

LEMMA ShownAsks ==
  ASSUME NEW s \in Shared, NEW state \in Asked, Register(s, state)
  PROVE  ShownInv'
<1>1. ~Waits(s, state).held /\ Waits(s, state).state = state
  BY DEF Waits, Shared
<1> QED BY <1>1 DEF Register, batchVars, ShownInv, WorkingPlaces, Asleep, Asked

LEMMA ShownTurn ==
  ASSUME TypeInv, ShownInv, TurnStep
  PROVE  ShownInv'
<1> USE DEF askVars
<1>0. TypeOK /\ shared \in Shared
  BY DEF TypeInv, TypeOK
<1>1. CASE Loop
  <2>1. pc \in WorkingPlaces /\ pc' \in WorkingPlaces /\ waiting' = waiting
    BY <1>1
    DEF Loop, DrainAt, InterruptedAtTop, BudgetSpent, FlushHeld, Compact, CompactionFails,
        Request, AtTop, WorkingPlaces, Places
  <2>2. shared' = shared \/ \E e : shared' = Observed(shared, e)
    BY <1>1
    DEF Loop, DrainAt, InterruptedAtTop, BudgetSpent, FlushHeld, Compact, CompactionFails,
        Request, AppendQueued, Write
  <2> QED BY <1>0, <2>1, <2>2, ShownGoes DEF Goes
<1>2. CASE Stream
  <2>1. pc \in WorkingPlaces /\ pc' \in WorkingPlaces /\ waiting' = waiting
    BY <1>2
    DEF Stream, StreamHolds, StreamInterrupted, StreamRetried, StreamFails, StreamReplies,
        StreamOver, WorkingPlaces, Places
  <2>2. shared' = shared \/ \E e : shared' = Observed(shared, e)
    BY <1>2
    DEF Stream, StreamHolds, StreamInterrupted, StreamRetried, StreamFails, StreamReplies,
        Write
  <2> QED BY <1>0, <2>1, <2>2, ShownGoes DEF Goes
<1>3. CASE Calls
  <2>1. CASE AskPermission
    <3>1. PICK e : e = PermissionRequested(Head(batch).id)
      OBVIOUS
    <3>2. Observed(shared, e) = shared
      BY <3>1, ObservedNothing DEF PermissionRequested, EndsAWait
    <3> QED BY <1>0, <2>1, <3>1, <3>2, ShownAsks DEF AskPermission, Asked
  <2>2. CASE AskHuman
    BY <1>0, <2>2, ShownAsks DEF AskHuman, Asked
  <2>3. CASE Propose
    <3>1. PICK e : e = DecisionProposed("turn", Head(batch).id)
      OBVIOUS
    <3>2. Observed(shared, e) = shared
      BY <3>1, ObservedNothing DEF DecisionProposed, EndsAWait
    <3> QED BY <1>0, <2>3, <3>1, <3>2, ShownAsks DEF Propose, Asked
  <2>4. CASE LengthStop \/ Siblings \/ RunPlain \/ RequestGranted \/ Granted
             \/ ToolDone \/ ToolKilled
    <3>1. pc \in WorkingPlaces /\ pc' \in WorkingPlaces /\ waiting' \in {0, waiting}
      BY <2>4
      DEF LengthStop, Siblings, NotRun, RunPlain, NextCall, RequestGranted, Granted,
          ToolDone, ToolKilled, Result, WorkingPlaces, Places
    <3>2. shared' = shared \/ \E e : shared' = Observed(shared, e)
      BY <2>4
      DEF LengthStop, Siblings, NotRun, RunPlain, RequestGranted, Granted,
          ToolDone, ToolKilled, Result, Write
    <3> QED BY <1>0, <3>1, <3>2, ShownGoes DEF Goes
  <2> QED BY <1>3, <2>1, <2>2, <2>3, <2>4 DEF Calls
<1>4. CASE Wait
  <2>1. CASE SwitchAgreed
    <3>1. shared' = Observed(shared, ProjectSwitched(Away)) /\ waiting' = 0
          /\ pc = "ask" /\ pc' = "switched"
      BY <2>1 DEF SwitchAgreed, Answers, Settle, Write
    <3>2. shared' = shared
      BY <3>1, ObservedNothing DEF ProjectSwitched, EndsAWait
    <3> QED BY <3>1, <3>2 DEF ShownInv, WorkingPlaces, Asleep
  <2>2. CASE Said \/ Refused
    <3>1. pc \in WorkingPlaces /\ pc' \in WorkingPlaces /\ waiting' = 0
      BY <2>2 DEF Said, Refused, Result, WorkingPlaces, Places
    <3>2. \E e : shared' = Observed(shared, e)
      BY <2>2 DEF Said, Refused, Result, Write
    <3> QED BY <1>0, <3>1, <3>2, ShownGoes DEF Goes
  <2>3. CASE HumanInterrupted \/ HumanAnswered
    <3>1. PICK origin : pc = "ask" /\ Result(origin)
      BY <2>3 DEF HumanInterrupted, Interrupts, HumanAnswered, Answers
    <3>2. Write(ToolResult(Head(batch).id, origin)) /\ waiting' = 0 /\ pc' \in WorkingPlaces
      BY <3>1 DEF Result, WorkingPlaces, Places
    <3>3. ToolResult(Head(batch).id, origin).kind \in EndsAWait
      BY DEF ToolResult, EndsAWait
    <3> QED BY <1>0, <3>1, <3>2, <3>3, ShownSettles
  <2>4. ASSUME NEW e, e.kind \in EndsAWait, pc \in {"ask", "switched"},
               NEW next \in {"refused", "tool", "said"}, Settle(e, next)
        PROVE  ShownInv'
    BY <1>0, <2>4, ShownSettles DEF Settle, WorkingPlaces, Places
  <2>5. \A a, b : PermissionDecided(Head(batch).id, a, b).kind \in EndsAWait
    BY DEF PermissionDecided, EndsAWait
  <2>6. \A a : DecisionAnswered(Proposal, a).kind \in EndsAWait
    BY DEF DecisionAnswered, EndsAWait
  <2>7. CASE PermissionInterrupted
    BY <2>4, <2>5, <2>7 DEF PermissionInterrupted, Interrupts
  <2>8. CASE ProposalInterrupted
    BY <2>4, <2>6, <2>8 DEF ProposalInterrupted, Interrupts
  <2>9. CASE PermissionAllowed
    BY <2>4, <2>5, <2>9 DEF PermissionAllowed, Answers
  <2>10. CASE PermissionDenied
    BY <2>4, <2>5, <2>10 DEF PermissionDenied, Answers
  <2>11. CASE Declined
    BY <2>4, <2>6, <2>11 DEF Declined, Answers
  <2>12. CASE SwitchRecorded
    BY <2>4, <2>6, <2>12 DEF SwitchRecorded
  <2>13. CASE SwitchFails
    BY <2>4, <2>6, <2>13 DEF SwitchFails, Answers
  <2>14. CASE JobApproved
    BY <2>4, <2>6, <2>14 DEF JobApproved, Answers
  <2> QED
    BY <1>4, <2>1, <2>2, <2>3, <2>7, <2>8, <2>9, <2>10, <2>11, <2>12, <2>13, <2>14 DEF Wait
<1>5. CASE Ending
  <2>1. pc \in WorkingPlaces /\ pc' \in WorkingPlaces \union {"after"} /\ waiting' = waiting
    BY <1>5
    DEF Ending, Synthetic, NotRun, BatchOver, AfterCalls, FlushLast, NoteInterrupt, EndTurn,
        WorkingPlaces, Places
  <2>2. shared' = shared \/ \E e : shared' = Observed(shared, e)
    BY <1>5
    DEF Ending, Synthetic, NotRun, BatchOver, FlushLast, NoteInterrupt, EndTurn,
        AppendQueued, Write
  <2> QED BY <1>0, <2>1, <2>2, ShownGoes DEF Goes
<1> QED BY <1>1, <1>2, <1>3, <1>4, <1>5 DEF TurnStep

(* At these places nothing is shown that depends on a turn.                *)
Unshown == {"after", "side", "resume", "clean", "interrupted"}

LEMMA ShownNext ==
  ASSUME TypeInv, ShownInv, Next
  PROVE  ShownInv'
<1> USE DEF askVars
<1>0. TypeOK /\ shared \in Shared
  BY DEF TypeInv, TypeOK
<1>1. pc /= "ask" => waiting = 0
  BY DEF ShownInv
<1>2. ASSUME pc' \in Unshown, waiting' = 0
      PROVE  ShownInv'
  BY <1>2 DEF ShownInv, Unshown, WorkingPlaces, Asleep, Places
<1>3. ASSUME pc' \in Asleep \ {"ask"}, ~shared'.held, waiting' = 0
      PROVE  ShownInv'
  BY <1>3 DEF ShownInv, WorkingPlaces, Asleep, Places
<1>4. ASSUME NEW s \in Shared, NEW place \in {"loop", "start"}, Begin(s, place), waiting' = 0
      PROVE  ShownInv'
  <2>1. pc' = place /\ shared'.held /\ shared'.state = "Running"
    BY <1>0, <1>4, TypeBegin
  <2> QED BY <1>4, <2>1 DEF ShownInv, Asleep
<1>5. CASE RunTurn
  BY <1>5, ShownTurn DEF RunTurn
<1>6. CASE StartTurn
  <2>1. shared' = Observed(shared, UserMessage(starting, FALSE, FALSE)) /\ pc = "start"
        /\ pc' = "loop" /\ waiting' = waiting
    BY <1>6 DEF StartTurn, Write
  <2>2. shared'.held /\ shared'.state = "Running"
    BY <1>0, <2>1, ObservedRunning DEF ShownInv
  <2> QED BY <1>1, <2>1, <2>2 DEF ShownInv, Asleep
<1>7. CASE WriteNote
  BY <1>1, <1>2, <1>7 DEF WriteNote, Unshown
<1>8. CASE Continue
  BY <1>0, <1>1, <1>4, <1>8 DEF Continue
<1>9. CASE GoIdle
  BY <1>1, <1>2, <1>9 DEF GoIdle, Unshown
<1>10. CASE SideJobs
  <2>1. ~shared'.held
    BY <1>0, <1>10 DEF SideJobs, Shared
  <2> QED BY <1>1, <1>3, <1>10, <2>1 DEF SideJobs, Asleep
<1>11. CASE RecordIdle \/ RecordStartupAsk
  <2>1. ~shared'.held
    BY <1>0, <1>11, TypeIdled DEF RecordIdle, RecordStartupAsk
  <2> QED BY <1>1, <1>3, <1>11, <2>1 DEF RecordIdle, RecordStartupAsk, Asleep
<1>12. CASE SwitchByHand
  <2>1. PICK to : Move(to) /\ Write(ProjectSwitched(to))
    BY <1>12 DEF SwitchByHand
  <2>2. shared' = shared
    BY <2>1, ObservedNothing DEF Write, ProjectSwitched, EndsAWait
  <2>3. ~shared.held /\ pc = "by_hand" /\ pc' = "idle" /\ waiting' = waiting
    BY <2>1 DEF Move, ShownInv, Asleep
  <2> QED BY <1>1, <1>3, <2>2, <2>3 DEF Asleep
<1>13. CASE SwitchByHandFails
  <2>1. pc = "by_hand" /\ pc' = "idle" /\ waiting' = waiting /\ shared' = shared
    BY <1>13 DEF SwitchByHandFails, Move
  <2> QED BY <1>1, <1>3, <2>1 DEF ShownInv, Asleep
<1>14. CASE WithdrawOpen \/ AnswerUnanswered
  BY <1>1, <1>2, <1>14 DEF WithdrawOpen, AnswerUnanswered, Repair, Unshown
<1>15. CASE RestoreTurnEnded \/ NoteCrash
  BY <1>1, <1>2, <1>15 DEF RestoreTurnEnded, NoteCrash, Repair, Unshown
<1>16. CASE NothingOpen \/ AlreadyNoted
  BY <1>1, <1>2, <1>16 DEF NothingOpen, AlreadyNoted, Resumed, Unshown
<1>17. CASE Boot
  <2> DEFINE s == [shared EXCEPT !.held = FALSE, !.waiting = FALSE]
  <2>1. s \in Shared /\ ~s.held
    BY <1>0 DEF Shared
  <2>2. /\ Begin(s, "loop") \/ (pc' = "idle" /\ shared' = s)
        /\ waiting' = 0
    BY <1>1, <1>17 DEF Boot
  <2> HIDE DEF s
  <2> QED BY <1>3, <1>4, <2>1, <2>2 DEF Asleep
<1>18. CASE PostIdle
  BY <1>0, <1>1, <1>4, <1>18 DEF PostIdle
<1>19. CASE PostRunning \/ Interrupt
  BY <1>19 DEF PostRunning, Interrupt, batchVars, ShownInv
<1>20. CASE Decide
  BY <1>20 DEF Decide, batchVars, ShownInv
<1>21. CASE JobReturns
  <2>1. shared' = shared \/ \E j : shared' = Observed(shared, JobFinished(j))
    BY <1>21 DEF JobReturns, Write
  <2>2. shared' = shared
    BY <2>1, ObservedNothing DEF JobFinished, EndsAWait
  <2> QED BY <1>21, <2>2 DEF JobReturns, batchVars, ShownInv
<1>22. CASE ProposeIdle
  <2>1. ~shared'.held
    BY <1>0, <1>22 DEF ProposeIdle, ShownInv, Asleep, Shared
  <2> QED BY <1>1, <1>3, <1>22, <2>1 DEF ProposeIdle, Asleep
<1>23. CASE DeclineIdle \/ FailIdle
  <2>1. ~shared'.held /\ pc = "idle" /\ pc' = pc /\ waiting' = waiting
    BY <1>0, <1>23, TypeIdled DEF DeclineIdle, FailIdle, AnswerIdle
  <2> QED BY <1>1, <1>3, <2>1 DEF Asleep
<1>24. CASE AgreeIdle
  BY <1>1, <1>3, <1>24 DEF AgreeIdle, AnswerIdle, ShownInv, Asleep
<1>25. CASE WithdrawByHand
  <2>1. ~shared'.held
    BY <1>0, <1>25, TypeIdled DEF WithdrawByHand, ShownInv, Asleep
  <2> QED BY <1>1, <1>3, <1>25, <2>1 DEF WithdrawByHand, Asleep
<1>26. CASE StartupAsk
  <2>1. shared' = shared
    BY <1>26, ObservedNothing DEF StartupAsk, Write, DecisionProposed, EndsAWait
  <2> QED BY <1>1, <1>3, <1>26, <2>1 DEF StartupAsk, ShownInv, Asleep
<1>27. CASE Crash
  BY <1>2, <1>27 DEF Crash, Unshown
<1> QED
  BY <1>5, <1>6, <1>7, <1>8, <1>9, <1>10, <1>11, <1>12, <1>13, <1>14, <1>15, <1>16, <1>17,
     <1>18, <1>19, <1>20, <1>21, <1>22, <1>23, <1>24, <1>25, <1>26, <1>27
  DEF Next, ActorStep, Mail

LEMMA ShownStep ==
  ASSUME TypeInv, ShownInv, [Next]_vars
  PROVE  ShownInv'
<1>1. CASE UNCHANGED vars
  BY <1>1 DEF vars, turnVars, batchVars, askVars, ShownInv
<1> QED BY <1>1, ShownNext

LEMMA ShownInit ==
  ASSUME Init
  PROVE  ShownInv
BY DEF Init, Fresh, ShownInv, WorkingPlaces, Places

-----------------------------------------------------------------------------
(* What is appended.                                                       *)

(* Most events are neither a job's return nor the note of a crash.         *)
Ordinary(e) == e.kind /= "job_finished" /\ e /= Interrupted("crash")

Appends == log' = log \/ \E e : log' = Append(log, e) /\ Ordinary(e)

LEMMA OrdinaryEvents ==
  /\ \A p, m, s : Ordinary(UserMessage(p, m, s))
  /\ \A calls : Ordinary(AssistantMessage(calls))
  /\ \A c, o : Ordinary(ToolResult(c, o))
  /\ \A c : Ordinary(PermissionRequested(c))
  /\ \A c, a, b : Ordinary(PermissionDecided(c, a, b))
  /\ \A b, c : Ordinary(DecisionProposed(b, c))
  /\ \A i, a : Ordinary(DecisionAnswered(i, a))
  /\ \A to : Ordinary(ProjectSwitched(to))
  /\ Ordinary(ProviderRetried) /\ Ordinary(Interrupted("person"))
  /\ \A r : Ordinary(TurnEnded(r))
<1>1. Interrupted("crash").kind = "interrupted" /\ Interrupted("crash").by = "crash"
  BY DEF Interrupted
<1>2. \A e : e.kind \notin {"job_finished", "interrupted"} => Ordinary(e)
  BY <1>1 DEF Ordinary
<1>3. Ordinary(Interrupted("person"))
  <2>1. Interrupted("person").by = "person" /\ Interrupted("person").kind = "interrupted"
    BY DEF Interrupted
  <2> QED BY <1>1, <2>1 DEF Ordinary
<1> QED
  BY <1>2, <1>3
  DEF UserMessage, AssistantMessage, ToolResult, PermissionRequested, PermissionDecided,
      DecisionProposed, DecisionAnswered, ProjectSwitched, ProviderRetried, TurnEnded

LEMMA TurnAppends ==
  ASSUME TurnStep
  PROVE  Appends
<1>1. \A e : Write(e) /\ Ordinary(e) => Appends
  BY DEF Write, Appends
<1>2. CASE Loop
  BY <1>1, <1>2, OrdinaryEvents
  DEF Loop, DrainAt, InterruptedAtTop, BudgetSpent, FlushHeld, Compact, CompactionFails,
      Request, AppendQueued, Appends
<1>3. CASE Stream
  BY <1>1, <1>3, OrdinaryEvents
  DEF Stream, StreamHolds, StreamInterrupted, StreamRetried, StreamFails, StreamReplies,
      Appends
<1>4. CASE Calls
  BY <1>1, <1>4, OrdinaryEvents
  DEF Calls, LengthStop, Siblings, NotRun, RunPlain, AskPermission, RequestGranted, Granted,
      AskHuman, Propose, ToolDone, ToolKilled, Result, Appends
<1>5. CASE Wait
  BY <1>1, <1>5, OrdinaryEvents
  DEF Wait, PermissionInterrupted, HumanInterrupted, ProposalInterrupted, PermissionAllowed,
      PermissionDenied, HumanAnswered, Declined, SwitchAgreed, SwitchRecorded, SwitchFails,
      JobApproved, Said, Refused, Settle, Result
<1>6. CASE Ending
  BY <1>1, <1>6, OrdinaryEvents
  DEF Ending, Synthetic, NotRun, BatchOver, FlushLast, NoteInterrupt, EndTurn, AppendQueued,
      Appends
<1> QED BY <1>2, <1>3, <1>4, <1>5, <1>6 DEF TurnStep

(* A job's return is written only where no turn is open and only if the    *)
(* log lacks it; the note of a crash only by a resume that finds none.     *)
ReturnNoted(j) ==
  /\ pc \in {"idle", "after"}
  /\ ~JobReturned(log, j) /\ log' = Append(log, JobFinished(j))

CrashNoted ==
  Last(log).kind /= "interrupted" /\ log' = Append(log, Interrupted("crash"))

LEMMA NextAppends ==
  ASSUME Next
  PROVE  Appends \/ (\E j : ReturnNoted(j)) \/ CrashNoted
<1>1. CASE RunTurn
  BY <1>1, TurnAppends DEF RunTurn
<1>2. CASE WriteNote
  BY <1>2 DEF WriteNote, ReturnNoted, Write, Appends
<1>3. CASE JobReturns
  <2>1. PICK j \in jobs :
          \/ log' = log
          \/ ~Running /\ ~JobReturned(log, j) /\ Write(JobFinished(j))
    BY <1>3 DEF JobReturns
  <2>2. Running \/ pc = "idle"
    BY <1>3 DEF JobReturns
  <2> QED BY <2>1, <2>2 DEF ReturnNoted, Write, Appends
<1>4. CASE NoteCrash
  BY <1>4 DEF NoteCrash, Repair, Write, CrashNoted
<1>5. CASE StartTurn \/ SwitchByHand \/ StartupAsk \/ WithdrawOpen \/ RestoreTurnEnded
           \/ AnswerUnanswered
  <2>1. \A e : Write(e) /\ Ordinary(e) => Appends
    BY DEF Write, Appends
  <2> QED
    BY <1>5, <2>1, OrdinaryEvents
    DEF StartTurn, SwitchByHand, StartupAsk, WithdrawOpen, RestoreTurnEnded, AnswerUnanswered,
        Repair
<1>6. CASE PostIdle \/ ProposeIdle \/ DeclineIdle \/ FailIdle \/ AgreeIdle \/ RecordIdle
           \/ WithdrawByHand \/ RecordStartupAsk
  BY <1>6, OrdinaryEvents
  DEF PostIdle, ProposeIdle, DeclineIdle, FailIdle, AgreeIdle, AnswerIdle, RecordIdle,
      WithdrawByHand, RecordStartupAsk, Withdrawn, Appends
<1>7. CASE \/ Continue \/ GoIdle \/ SideJobs \/ SwitchByHandFails \/ NothingOpen
           \/ AlreadyNoted \/ Boot \/ PostRunning \/ Interrupt \/ Decide \/ Crash
  BY <1>7
  DEF Continue, GoIdle, SideJobs, SwitchByHandFails, NothingOpen, AlreadyNoted, Resumed, Boot,
      PostRunning, Interrupt, Decide, Crash, Appends
<1> QED BY <1>1, <1>2, <1>3, <1>4, <1>5, <1>6, <1>7 DEF Next, ActorStep, Mail

-----------------------------------------------------------------------------
(* Outside a turn the log is closed.                                       *)

LEMMA ClosedTurnStep ==
  ASSUME TypeInv, TypeInv', TurnClosed, TurnStep
  PROVE  TurnClosed'
<1>1. CASE EndTurn
  <2>1. log' = Append(log, TurnEnded(reason)) /\ TurnEnded(reason).kind = "turn_ended"
    BY <1>1 DEF EndTurn, Write, TurnEnded
  <2>2. TurnEnded(reason) \in Event
    BY EventTypes DEF TypeInv, TypeOK
  <2>3. ~TurnIsOpen(log')
    BY <2>1, <2>2, AppendedTurn DEF TypeInv, TypeOK
  <2> QED BY <2>3 DEF TurnClosed
<1>2. ASSUME pc' \in Places
      PROVE  TurnClosed'
  BY <1>2 DEF TurnClosed, Places, OutOfTurn
<1>3. CASE Loop
  <2>1. pc' \in {pc, "interrupt", "end", "compact", "stream"} /\ pc \in Places
    BY <1>3
    DEF Loop, DrainAt, InterruptedAtTop, BudgetSpent, FlushHeld, Compact, CompactionFails,
        Request, AtTop, Places
  <2> QED BY <1>2, <2>1 DEF Places
<1>4. CASE Stream
  <2>1. pc' \in Places
    BY <1>4
    DEF Stream, StreamHolds, StreamInterrupted, StreamRetried, StreamFails, StreamReplies,
        StreamOver, Places
  <2> QED BY <1>2, <2>1
<1>5. CASE Calls
  <2>1. pc' \in Places
    BY <1>5
    DEF Calls, LengthStop, Siblings, NotRun, RunPlain, AskPermission, RequestGranted, Granted,
        AskHuman, Propose, Register, ToolDone, ToolKilled, Result, Places
  <2> QED BY <1>2, <2>1
<1>6. CASE Wait
  <2>1. pc' \in Places
    BY <1>6
    DEF Wait, PermissionInterrupted, HumanInterrupted, ProposalInterrupted, PermissionAllowed,
        PermissionDenied, HumanAnswered, Declined, SwitchAgreed, SwitchRecorded, SwitchFails,
        JobApproved, Said, Refused, Settle, Result, Places
  <2> QED BY <1>2, <2>1
<1>7. CASE Synthetic \/ BatchOver \/ FlushLast \/ NoteInterrupt
  <2>1. pc' \in Places
    BY <1>7 DEF Synthetic, NotRun, BatchOver, AfterCalls, FlushLast, NoteInterrupt, Places
  <2> QED BY <1>2, <2>1
<1> QED BY <1>1, <1>3, <1>4, <1>5, <1>6, <1>7 DEF TurnStep, Ending

LEMMA ClosedNext ==
  ASSUME TypeInv, TypeInv', TurnClosed, Next
  PROVE  TurnClosed'
<1>0. log \in Seq(Event)
  BY DEF TypeInv, TypeOK
<1>1. ASSUME pc \in OutOfTurn \union {"clean"}, NEW e, log' = Append(log, e), ~IsTurnEvent(e)
      PROVE  TurnClosed'
  <2>1. e \in Event
    <3>1. log' \in Seq(Event) /\ Len(log') = Len(log) + 1 /\ Len(log) \in Nat
      BY <1>0, <1>1 DEF TypeInv, TypeOK
    <3>2. log'[Len(log) + 1] = e
      BY <1>0, <1>1
    <3> QED BY <3>1, <3>2
  <2>2. ~TurnIsOpen(log')
    BY <1>0, <1>1, <2>1, AppendedTurn DEF TurnClosed
  <2> QED BY <2>2 DEF TurnClosed
<1>2. ASSUME pc \in OutOfTurn \union {"clean"}, log' = log
      PROVE  TurnClosed'
  BY <1>2 DEF TurnClosed
<1>3. ASSUME pc' \notin OutOfTurn \union {"clean"}
      PROVE  TurnClosed'
  BY <1>3 DEF TurnClosed
<1>4. CASE RunTurn
  BY <1>4, ClosedTurnStep DEF RunTurn
<1>5. CASE WriteNote \/ JobReturns
  <2>1. CASE pc \in {"idle", "after"}
    <3>1. log' = log \/ \E j : log' = Append(log, JobFinished(j))
      BY <1>5 DEF WriteNote, JobReturns, Write
    <3>2. \A j : ~IsTurnEvent(JobFinished(j))
      BY DEF IsTurnEvent, JobFinished
    <3>3. pc \in OutOfTurn \union {"clean"}
      BY <2>1 DEF OutOfTurn
    <3> QED BY <1>1, <1>2, <3>1, <3>2, <3>3
  <2>2. CASE pc \notin {"idle", "after"}
    <3>1. pc' = pc /\ pc \in AwaitPoints
      BY <1>5, <2>2 DEF WriteNote, JobReturns, Running
    <3> QED BY <1>3, <3>1 DEF AwaitPoints, OutOfTurn
  <2> QED BY <2>1, <2>2
<1>6. CASE \/ PostIdle \/ ProposeIdle \/ DeclineIdle \/ FailIdle \/ AgreeIdle \/ RecordIdle
           \/ WithdrawByHand \/ SwitchByHand \/ SwitchByHandFails \/ StartupAsk
           \/ RecordStartupAsk
  <2>1. pc \in {"idle", "idle_switched", "by_hand", "startup_ask"}
    BY <1>6
    DEF PostIdle, ProposeIdle, DeclineIdle, FailIdle, AgreeIdle, AnswerIdle, RecordIdle,
        WithdrawByHand, SwitchByHand, SwitchByHandFails, Move, StartupAsk, RecordStartupAsk
  <2>2. \/ log' = log
        \/ \E i, a : log' = Append(log, DecisionAnswered(i, a))
        \/ \E b, c : log' = Append(log, DecisionProposed(b, c))
        \/ \E to : log' = Append(log, ProjectSwitched(to))
    BY <1>6
    DEF PostIdle, ProposeIdle, DeclineIdle, FailIdle, AgreeIdle, AnswerIdle, RecordIdle,
        WithdrawByHand, SwitchByHand, SwitchByHandFails, Move, StartupAsk, RecordStartupAsk,
        Withdrawn, Write
  <2>3. /\ \A i, a : ~IsTurnEvent(DecisionAnswered(i, a))
        /\ \A b, c : ~IsTurnEvent(DecisionProposed(b, c))
        /\ \A to : ~IsTurnEvent(ProjectSwitched(to))
    BY DEF IsTurnEvent, DecisionAnswered, DecisionProposed, ProjectSwitched
  <2>4. pc \in OutOfTurn \union {"clean"}
    BY <2>1 DEF OutOfTurn
  <2> QED BY <1>1, <1>2, <2>2, <2>3, <2>4
<1>7. CASE GoIdle \/ SideJobs
  BY <1>2, <1>7 DEF GoIdle, SideJobs, OutOfTurn
<1>8. CASE Boot
  <2>1. CASE pc = "clean"
    BY <1>2, <1>8, <2>1 DEF Boot
  <2>2. CASE pc /= "clean"
    <3>1. pc' = "loop"
      BY <1>8, <2>2 DEF Boot, Begin
    <3> QED BY <1>3, <3>1 DEF OutOfTurn
  <2> QED BY <2>1, <2>2
<1>9. CASE RestoreTurnEnded
  <2>1. log' = Append(log, TurnEnded("resumed")) /\ TurnEnded("resumed").kind = "turn_ended"
    BY <1>9 DEF RestoreTurnEnded, Repair, Write, TurnEnded
  <2>2. TurnEnded("resumed") \in Event
    BY EventTypes DEF Reasons
  <2>3. ~TurnIsOpen(log')
    BY <1>0, <2>1, <2>2, AppendedTurn
  <2> QED BY <2>3 DEF TurnClosed
<1>10. CASE NothingOpen
  <2>1. ~TurnIsOpen(log')
    BY <1>10 DEF NothingOpen, Resumed
  <2> QED BY <2>1 DEF TurnClosed
<1>11. CASE \/ StartTurn \/ Continue \/ WithdrawOpen \/ AnswerUnanswered \/ NoteCrash
            \/ AlreadyNoted \/ PostRunning \/ Interrupt \/ Decide \/ Crash
  <2>1. pc' \in {"loop", "resume", "interrupted"} \union AwaitPoints
    BY <1>11
    DEF StartTurn, Continue, Begin, WithdrawOpen, AnswerUnanswered, NoteCrash, Repair,
        AlreadyNoted, Resumed, PostRunning, Interrupt, Running, Decide, Crash, AwaitPoints
  <2> QED BY <1>3, <2>1 DEF AwaitPoints, OutOfTurn
<1> QED
  BY <1>4, <1>5, <1>6, <1>7, <1>8, <1>9, <1>10, <1>11 DEF Next, ActorStep, Mail

LEMMA ClosedStep ==
  ASSUME TypeInv, TypeInv', TurnClosed, [Next]_vars
  PROVE  TurnClosed'
<1>1. CASE UNCHANGED vars
  BY <1>1 DEF vars, turnVars, TurnClosed
<1> QED BY <1>1, ClosedNext

LEMMA ClosedInit ==
  ASSUME Init
  PROVE  TurnClosed
<1>1. log \in Seq(Event) /\ 1 .. Len(log) = {}
  BY DEF Init
<1>2. ~TurnIsOpen(log)
  BY <1>1, OpenTurn
<1> QED BY <1>2 DEF TurnClosed

-----------------------------------------------------------------------------
(* Job returns and the notes of crashes.                                   *)

LEMMA JobsAppended ==
  ASSUME JobsNoted, log \in Seq(Event), NEW e \in Event, log' = Append(log, e),
         e.kind = "job_finished" => ~JobReturned(log, e.job) /\ ~TurnIsOpen(log)
  PROVE  JobsNoted'
<1>1. /\ Len(log) \in Nat /\ Len(log') = Len(log) + 1
      /\ log'[Len(log) + 1] = e /\ \A i \in 1 .. Len(log) : log'[i] = log[i]
      /\ log' \in Seq(Event)
  BY Appended
<1>2. DOMAIN log = 1 .. Len(log) /\ DOMAIN log' = 1 .. Len(log) + 1
  BY <1>1
<1>3. \A i \in Events(log', "job_finished") :
        \/ i \in Events(log, "job_finished") /\ log'[i] = log[i]
        \/ i = Len(log) + 1 /\ e.kind = "job_finished" /\ log'[i] = e
  BY <1>1, <1>2 DEF Events
<1>4. \A i \in 1 .. Len(log) + 1 : SubSeq(log', 1, i - 1) = SubSeq(log, 1, i - 1)
  <2> SUFFICES ASSUME NEW i \in 1 .. Len(log) + 1
               PROVE  SubSeq(log', 1, i - 1) = SubSeq(log, 1, i - 1)
    OBVIOUS
  <2>1. \A k \in 1 .. i - 1 : log'[k] = log[k]
    BY <1>1
  <2> QED BY <1>1, <2>1
<1>5. SubSeq(log, 1, Len(log)) = log
  OBVIOUS
<1>6. SUFFICES ASSUME NEW i \in Events(log', "job_finished")
               PROVE  /\ \A j \in Events(log', "job_finished") :
                            log'[i].job = log'[j].job => i = j
                      /\ ~TurnIsOpen(SubSeq(log', 1, i - 1))
  BY DEF JobsNoted
<1>7. i \in 1 .. Len(log) + 1
  BY <1>2 DEF Events
<1>8. ~TurnIsOpen(SubSeq(log', 1, i - 1))
  <2>1. CASE i \in Events(log, "job_finished")
    BY <1>4, <1>7, <2>1 DEF JobsNoted
  <2>2. CASE i = Len(log) + 1 /\ e.kind = "job_finished"
    <3>1. i - 1 = Len(log)
      BY <1>1, <2>2
    <3>2. SubSeq(log', 1, i - 1) = log
      BY <1>4, <1>5, <1>7, <3>1
    <3> QED BY <2>2, <3>2
  <2> QED BY <1>3, <2>1, <2>2
<1>9. ASSUME NEW j \in Events(log', "job_finished"), log'[i].job = log'[j].job
      PROVE  i = j
  <2>1. CASE i \in Events(log, "job_finished") /\ j \in Events(log, "job_finished")
    <3>1. log'[i] = log[i] /\ log'[j] = log[j]
      BY <1>1, <1>2, <2>1 DEF Events
    <3> QED BY <1>9, <2>1, <3>1 DEF JobsNoted
  <2>2. CASE e.kind = "job_finished"
    <3>1. \A k \in Events(log, "job_finished") : log[k].job /= e.job
      BY <2>2 DEF JobReturned
    <3> QED BY <1>3, <1>9, <2>1, <3>1
  <2> QED BY <1>3, <2>1, <2>2
<1> QED BY <1>8, <1>9

LEMMA AppendedEvent ==
  ASSUME TypeInv, TypeInv', NEW e, log' = Append(log, e)
  PROVE  e \in Event
<1>1. log \in Seq(Event) /\ log' \in Seq(Event)
  BY DEF TypeInv, TypeOK
<1>2. Len(log') = Len(log) + 1 /\ Len(log) \in Nat /\ log'[Len(log) + 1] = e
  BY <1>1
<1> QED BY <1>1, <1>2

LEMMA JobsStep ==
  ASSUME TypeInv, TypeInv', TurnClosed, JobsNoted, [Next]_vars
  PROVE  JobsNoted'
<1>0. log \in Seq(Event)
  BY DEF TypeInv, TypeOK
<1>1. ASSUME log' = log
      PROVE  JobsNoted'
  BY <1>1 DEF JobsNoted
<1>2. CASE UNCHANGED vars
  BY <1>1, <1>2 DEF vars, turnVars
<1>3. CASE \E e : log' = Append(log, e) /\ Ordinary(e)
  <2>1. PICK e : log' = Append(log, e) /\ e.kind /= "job_finished"
    BY <1>3 DEF Ordinary
  <2> QED BY <1>0, <2>1, AppendedEvent, JobsAppended
<1>4. CASE \E j : ReturnNoted(j)
  <2>1. PICK j : ReturnNoted(j)
    BY <1>4
  <2>2. JobFinished(j).job = j
    BY DEF JobFinished
  <2>3. ~TurnIsOpen(log) /\ ~JobReturned(log, j) /\ log' = Append(log, JobFinished(j))
    BY <2>1 DEF ReturnNoted, TurnClosed, OutOfTurn
  <2> QED BY <1>0, <2>2, <2>3, AppendedEvent, JobsAppended
<1>5. CASE CrashNoted
  <2>1. log' = Append(log, Interrupted("crash")) /\ Interrupted("crash").kind /= "job_finished"
    BY <1>5 DEF CrashNoted, Interrupted
  <2> QED BY <1>0, <2>1, AppendedEvent, JobsAppended
<1> QED BY <1>1, <1>2, <1>3, <1>4, <1>5, NextAppends DEF Appends

LEMMA CrashStep ==
  ASSUME TypeInv, TypeInv', CrashNotedOnce, [Next]_vars
  PROVE  CrashNotedOnce'
<1>0. log \in Seq(Event)
  BY DEF TypeInv, TypeOK
<1>1. ASSUME log' = log
      PROVE  CrashNotedOnce'
  BY <1>1 DEF CrashNotedOnce
<1>2. ASSUME NEW e, log' = Append(log, e),
             e = Interrupted("crash") => Last(log).kind /= "interrupted"
      PROVE  CrashNotedOnce'
  <2>1. /\ Len(log) \in Nat /\ Len(log') = Len(log) + 1
        /\ log'[Len(log) + 1] = e /\ \A i \in 1 .. Len(log) : log'[i] = log[i]
    BY <1>0, <1>2, AppendedEvent, Appended
  <2> SUFFICES ASSUME NEW i \in 2 .. Len(log'), log'[i] = Interrupted("crash")
               PROVE  log'[i - 1].kind /= "interrupted"
    BY DEF CrashNotedOnce
  <2>2. CASE i = Len(log) + 1
    <3>1. log'[i - 1] = log[Len(log)]
      BY <2>1, <2>2
    <3> QED BY <1>2, <2>1, <2>2, <3>1 DEF Last
  <2>3. CASE i \in 2 .. Len(log)
    <3>1. log'[i] = log[i] /\ log'[i - 1] = log[i - 1]
      BY <2>1, <2>3
    <3> QED BY <2>3, <3>1 DEF CrashNotedOnce
  <2> QED BY <2>1, <2>2, <2>3
<1>3. CASE UNCHANGED vars
  BY <1>1, <1>3 DEF vars, turnVars
<1> QED BY <1>1, <1>2, <1>3, NextAppends DEF Appends, Ordinary, ReturnNoted, CrashNoted,
        JobFinished, Interrupted

LEMMA NotedInit ==
  ASSUME Init
  PROVE  JobsNoted /\ CrashNotedOnce
<1>1. DOMAIN log = {} /\ 2 .. Len(log) = {}
  BY DEF Init
<1> QED BY <1>1 DEF JobsNoted, Events, CrashNotedOnce

-----------------------------------------------------------------------------
(* The theorems.                                                           *)

LEMMA IInvInit == Init => IInv
BY TypeInit, ShownInit, ClosedInit, NotedInit DEF IInv

LEMMA IInvStep == IInv /\ [Next]_vars => IInv'
BY TypeStep, ShownStep, ClosedStep, JobsStep, CrashStep DEF IInv

(* However many messages, answers, interrupts, job returns, moves and      *)
(* crashes there are, and in whatever order, the state keeps its shape.    *)
THEOREM TypeCorrect == Spec => []TypeOK
<1>1. IInv => TypeOK
  BY DEF IInv, TypeInv
<1> QED BY <1>1, IInvInit, IInvStep, PTL DEF Spec

(* The machine is kept awake while a turn works, and neither while a       *)
(* person is asked nor while the thread is idle.                           *)
THEOREM AwakeCorrect == Spec => []AwakeWhileWorking
<1>1. IInv => AwakeWhileWorking
  BY DEF IInv, ShownInv, AwakeWhileWorking, Asleep
<1> QED BY <1>1, IInvInit, IInvStep, PTL DEF Spec

(* A working turn is shown running; a wait is shown exactly while the turn *)
(* is at it, and only the call at the head of the batch is waited for.     *)
THEOREM WaitCorrect == Spec => []WaitShown
<1>1. IInv => WaitShown
  BY DEF IInv, TypeInv, BatchAtHand, AtCall, ShownInv, WaitShown
<1> QED BY <1>1, IInvInit, IInvStep, PTL DEF Spec

(* What clients see and the machine's hold follow the open question.       *)
THEOREM ShownCorrect == Spec => []ShownTrue
<1>1. AwakeWhileWorking /\ WaitShown => ShownTrue
  BY DEF ShownTrue
<1> QED BY <1>1, AwakeCorrect, WaitCorrect, PTL

(* However often and whenever a job's return is delivered, and whatever    *)
(* crashes come between, the log notes it once and never inside a turn.    *)
THEOREM JobsCorrect == Spec => []JobsNoted
<1>1. IInv => JobsNoted
  BY DEF IInv
<1> QED BY <1>1, IInvInit, IInvStep, PTL DEF Spec

(* A crash during the repair of a crash, however many there are, leaves    *)
(* one note.                                                               *)
THEOREM CrashCorrect == Spec => []CrashNotedOnce
<1>1. IInv => CrashNotedOnce
  BY DEF IInv
<1> QED BY <1>1, IInvInit, IInvStep, PTL DEF Spec

-----------------------------------------------------------------------------
(* Calls, results and decisions in a log.                                  *)

Results(l) == Events(l, "tool_result")
Decided(l) == Events(l, "permission_decided")
Replies(l) == Events(l, "assistant_message")

Decisions(l, id) == {i \in Decided(l) : l[i].call = id}

(* The calls no result answers yet.                                        *)
Hanging(l) == {c \in CallsOf(l) : ResultsOf(l, c.id) = {}}

(* Ids are given out in order and once, results and decisions are of calls *)
(* made, and each call has at most one of both.                            *)
IdsMade(l) == \A c \in CallsOf(l) : c.id \in 1 .. Cardinality(CallsOf(l))
IdsApart(l) == \A c, d \in CallsOf(l) : c.id = d.id => c = d
ConcernsKnown(l) ==
  \A r \in Results(l) \union Decided(l) : l[r].call \in 1 .. Cardinality(CallsOf(l))
ResultsOnce(l) == \A r, s \in Results(l) : l[r].call = l[s].call => r = s
DecidedOnce(l) == \A r, s \in Decided(l) : l[r].call = l[s].call => r = s

(* A gated call that ran was allowed before.                               *)
AllowedFirst(l) ==
  \A r \in Results(l) : \A c \in CallsOf(l) :
     c.id = l[r].call /\ c.tool = "gated" /\ l[r].origin \in {"ran", "killed"} =>
       \E d \in Decisions(l, c.id) : d < r /\ l[d].allow

(* A result stands behind its reply, and a reply or the end of a turn      *)
(* behind it finds all its calls answered.                                 *)
ResultAfter(l) ==
  \A i \in Replies(l), r \in Results(l) :
     (\E c \in ToSet(l[i].calls) : c.id = l[r].call) => i < r
ClosedAnswered(l) ==
  \A i \in Replies(l) : \A j \in Replies(l) \union Events(l, "turn_ended") :
     j > i => ToSet(l[i].calls) \intersect Hanging(l) = {}

CallLog(l) ==
  /\ IdsMade(l) /\ IdsApart(l) /\ ConcernsKnown(l) /\ ResultsOnce(l) /\ DecidedOnce(l)
  /\ AllowedFirst(l) /\ ResultAfter(l) /\ ClosedAnswered(l)

(* The events that may follow.                                             *)
Fits(l, e) ==
  /\ e.kind \in {"assistant_message", "turn_ended"} => Hanging(l) = {}
  /\ e.kind = "assistant_message" =>
       \A k \in 1 .. Len(e.calls) : e.calls[k].id = Cardinality(CallsOf(l)) + k
  /\ e.kind = "tool_result" =>
       \E c \in Hanging(l) :
          /\ c.id = e.call
          /\ c.tool = "gated" /\ e.origin \in {"ran", "killed"} =>
               \E d \in Decisions(l, c.id) : l[d].allow
  /\ e.kind = "permission_decided" =>
       Decisions(l, e.call) = {} /\ \E c \in CallsOf(l) : c.id = e.call

(* A log and the same log with one event more.                             *)
Grows(l, ll, e) == l \in Seq(Event) /\ e \in Event /\ ll = Append(l, e)

(* What an append adds to each.                                            *)
LEMMA Grown ==
  ASSUME NEW l, NEW ll, NEW e, Grows(l, ll, e)
  PROVE  /\ ll \in Seq(Event) /\ Len(l) \in Nat /\ Len(ll) = Len(l) + 1
         /\ ll[Len(l) + 1] = e /\ \A i \in 1 .. Len(l) : ll[i] = l[i]
         /\ \A k : Events(l, k) \subseteq 1 .. Len(l)
         /\ \A k : Events(ll, k) = Events(l, k) \union (IF e.kind = k THEN {Len(l) + 1} ELSE {})
<1>1. /\ ll \in Seq(Event) /\ Len(l) \in Nat /\ Len(ll) = Len(l) + 1
      /\ ll[Len(l) + 1] = e /\ \A i \in 1 .. Len(l) : ll[i] = l[i]
  BY Appended DEF Grows
<1>2. DOMAIN l = 1 .. Len(l) /\ DOMAIN ll = 1 .. Len(l) + 1
  BY <1>1
<1>3. \A k : Events(l, k) \subseteq 1 .. Len(l)
  BY <1>2 DEF Events
<1>4. \A i : i \in DOMAIN ll <=> i \in 1 .. Len(l) \/ i = Len(l) + 1
  BY <1>1, <1>2
<1>5. \A k : Events(ll, k) = Events(l, k) \union (IF e.kind = k THEN {Len(l) + 1} ELSE {})
  <2> SUFFICES ASSUME NEW k
               PROVE  Events(ll, k) = Events(l, k) \union (IF e.kind = k THEN {Len(l) + 1} ELSE {})
    OBVIOUS
  <2>1. \A i : i \in Events(ll, k) <=> i \in DOMAIN ll /\ ll[i].kind = k
    BY DEF Events
  <2>2. \A i : i \in Events(l, k) <=> i \in 1 .. Len(l) /\ l[i].kind = k
    BY <1>2 DEF Events
  <2>3. \A i : i \in Events(ll, k) <=> i \in Events(l, k) \/ (i = Len(l) + 1 /\ e.kind = k)
    BY <1>1, <1>4, <2>1, <2>2
  <2> QED BY <2>3
<1> QED BY <1>1, <1>3, <1>5

(* An append adds to the calls only by a reply, and to what a call has only*)
(* by an event of its own.                                                 *)
LEMMA GrownCalls ==
  ASSUME NEW l, NEW ll, NEW e, Grows(l, ll, e)
  PROVE  /\ CallsOf(ll) =
              CallsOf(l) \union
                (IF e.kind = "assistant_message" THEN ToSet(e.calls) ELSE {})
         /\ \A id : ResultsOf(ll, id) =
              ResultsOf(l, id) \union
                (IF e.kind = "tool_result" /\ e.call = id THEN {Len(l) + 1} ELSE {})
         /\ \A id : Decisions(ll, id) =
              Decisions(l, id) \union
                (IF e.kind = "permission_decided" /\ e.call = id THEN {Len(l) + 1} ELSE {})
         /\ \A i : AnswersTo(ll, i) =
              AnswersTo(l, i) \union
                (IF e.kind = "decision_answered" /\ e.proposal = i THEN {Len(l) + 1} ELSE {})
<1>1. /\ Len(l) \in Nat
      /\ ll[Len(l) + 1] = e /\ \A i \in 1 .. Len(l) : ll[i] = l[i]
      /\ \A k : Events(l, k) \subseteq 1 .. Len(l)
      /\ \A k : Events(ll, k) = Events(l, k) \union (IF e.kind = k THEN {Len(l) + 1} ELSE {})
  BY Grown
<1>2. \A k : \A i \in Events(l, k) : ll[i] = l[i]
  BY <1>1
<1>3. CallsOf(ll) = CallsOf(l) \union (IF e.kind = "assistant_message" THEN ToSet(e.calls) ELSE {})
  <2>1. \A c : c \in CallsOf(ll) <=> \E i \in Replies(ll) : c \in ToSet(ll[i].calls)
    BY DEF CallsOf, Replies
  <2>2. \A c : c \in CallsOf(l) <=> \E i \in Replies(l) : c \in ToSet(l[i].calls)
    BY DEF CallsOf, Replies
  <2>3. \A i \in Replies(l) : ll[i] = l[i]
    BY <1>2 DEF Replies
  <2>4. Replies(ll) = Replies(l) \union (IF e.kind = "assistant_message" THEN {Len(l) + 1} ELSE {})
    BY <1>1 DEF Replies
  <2> QED BY <1>1, <2>1, <2>2, <2>3, <2>4
<1>4. \A id : ResultsOf(ll, id) =
        ResultsOf(l, id) \union
          (IF e.kind = "tool_result" /\ e.call = id THEN {Len(l) + 1} ELSE {})
  BY <1>1, <1>2 DEF ResultsOf
<1>5. \A id : Decisions(ll, id) =
        Decisions(l, id) \union
          (IF e.kind = "permission_decided" /\ e.call = id THEN {Len(l) + 1} ELSE {})
  BY <1>1, <1>2 DEF Decisions, Decided
<1>6. \A i : AnswersTo(ll, i) =
        AnswersTo(l, i) \union
          (IF e.kind = "decision_answered" /\ e.proposal = i THEN {Len(l) + 1} ELSE {})
  BY <1>1, <1>2 DEF AnswersTo
<1> QED BY <1>3, <1>4, <1>5, <1>6

(* Counting calls by their numbers.                                        *)
LEMMA NumberedCount ==
  ASSUME NEW C, IsFiniteSet(C), NEW calls \in Seq(Call),
         \A c \in C : c.id \in 1 .. Cardinality(C),
         \A k \in 1 .. Len(calls) : calls[k].id = Cardinality(C) + k
  PROVE  Cardinality(C \union ToSet(calls)) = Cardinality(C) + Len(calls)
<1> DEFINE n == Cardinality(C)
           N == ToSet(calls)
<1>1. n \in Nat /\ Len(calls) \in Nat
  BY FS_CardinalityType
<1>2. DOMAIN calls = 1 .. Len(calls)
  OBVIOUS
<1>3. N = {calls[k] : k \in 1 .. Len(calls)}
  BY <1>2 DEF ToSet, Range
<1>4. calls \in Bijection(1 .. Len(calls), N)
  <2>1. calls \in [1 .. Len(calls) -> N]
    <3>1. \A k \in 1 .. Len(calls) : calls[k] \in N
      BY <1>3
    <3>2. calls = [k \in 1 .. Len(calls) |-> calls[k]]
      BY <1>2
    <3> QED BY <3>1, <3>2
  <2>2. \A j, k \in 1 .. Len(calls) : calls[j] = calls[k] => j = k
    <3> SUFFICES ASSUME NEW j \in 1 .. Len(calls), NEW k \in 1 .. Len(calls), calls[j] = calls[k]
                 PROVE  j = k
      OBVIOUS
    <3>1. calls[j].id = n + j /\ calls[k].id = n + k
      OBVIOUS
    <3>2. j \in Nat /\ k \in Nat
      BY <1>1
    <3> HIDE DEF n
    <3> QED BY <1>1, <3>1, <3>2
  <2>3. \A m \in N : \E k \in 1 .. Len(calls) : calls[k] = m
    BY <1>3
  <2> HIDE DEF N
  <2>4. calls \in Injection(1 .. Len(calls), N)
    BY <1>2, <2>1, <2>2, Zenon DEF Injection, IsInjective
  <2>5. calls \in Surjection(1 .. Len(calls), N)
    BY <2>1, <2>3, Zenon DEF Surjection
  <2> QED BY <2>4, <2>5, Zenon DEF Bijection
<1>5. IsFiniteSet(1 .. Len(calls)) /\ Cardinality(1 .. Len(calls)) = Len(calls)
  <2> DEFINE m == Len(calls)
  <2>1. m \in Nat
    OBVIOUS
  <2> HIDE DEF m
  <2>2. IsFiniteSet(1 .. m) /\ Cardinality(1 .. m) = IF 1 > m THEN 0 ELSE m - 1 + 1
    BY <2>1, FS_Interval
  <2>3. Cardinality(1 .. m) = m
    BY <2>1, <2>2
  <2> QED BY <2>2, <2>3 DEF m
<1>6. IsFiniteSet(N) /\ Cardinality(N) = Len(calls)
  <2>1. ExistsBijection(1 .. Len(calls), N)
    BY <1>4, Zenon DEF ExistsBijection
  <2> HIDE DEF N
  <2> QED BY <1>5, <2>1, FS_Bijection
<1>7. C \intersect N = {}
  <2> SUFFICES ASSUME NEW c \in C, NEW k \in 1 .. Len(calls), c = calls[k] PROVE FALSE
    BY <1>3
  <2>1. c.id \in 1 .. n /\ calls[k].id = n + k /\ k \in 1 .. Len(calls)
    OBVIOUS
  <2> HIDE DEF n
  <2> QED BY <1>1, <2>1
<1>8. Cardinality(C \intersect N) = 0
  BY <1>7, FS_EmptySet
<1> HIDE DEF N
<1>9. Cardinality(C \union N) = Cardinality(C) + Cardinality(N) - Cardinality(C \intersect N)
  BY <1>6, FS_Union
<1>10. Cardinality(C \union N) = Cardinality(C) + Len(calls)
  BY <1>1, <1>6, <1>8, <1>9
<1> QED BY <1>10 DEF N

(* The kinds of event that concern the calls.                              *)
CallKinds == {"assistant_message", "turn_ended", "tool_result", "permission_decided"}

(* What every append leaves of the log's calls.                            *)
LEMMA GrownFacts ==
  ASSUME NEW l, NEW ll, NEW e, Grows(l, ll, e)
  PROVE  /\ Len(l) \in Nat /\ ll[Len(l) + 1] = e
         /\ \A i \in Results(l) \union Decided(l) \union Replies(l) :
              ll[i] = l[i] /\ i \in 1 .. Len(l)
         /\ \A k : e.kind /= k => Events(ll, k) = Events(l, k)
         /\ Events(ll, e.kind) = Events(l, e.kind) \union {Len(l) + 1}
<1>1. /\ Len(l) \in Nat
      /\ ll[Len(l) + 1] = e /\ \A i \in 1 .. Len(l) : ll[i] = l[i]
      /\ \A k : Events(l, k) \subseteq 1 .. Len(l)
      /\ \A k : Events(ll, k) = Events(l, k) \union (IF e.kind = k THEN {Len(l) + 1} ELSE {})
  BY Grown
<1>2. \A k : e.kind /= k => Events(ll, k) = Events(l, k)
  BY <1>1
<1>3. Events(ll, e.kind) = Events(l, e.kind) \union {Len(l) + 1}
  BY <1>1
<1>4. \A i \in Results(l) \union Decided(l) \union Replies(l) :
        ll[i] = l[i] /\ i \in 1 .. Len(l)
  BY <1>1 DEF Results, Decided, Replies
<1> QED BY <1>1, <1>2, <1>3, <1>4

(* What it adds to the calls and to what concerns them.                    *)
LEMMA GrownConcerns ==
  ASSUME NEW l, NEW ll, NEW e, Grows(l, ll, e)
  PROVE  /\ e.kind /= "assistant_message" => CallsOf(ll) = CallsOf(l)
         /\ e.kind = "assistant_message" => CallsOf(ll) = CallsOf(l) \union ToSet(e.calls)
         /\ e.kind /= "tool_result" => \A id : ResultsOf(ll, id) = ResultsOf(l, id)
         /\ \A id : e.call /= id => ResultsOf(ll, id) = ResultsOf(l, id)
         /\ e.kind = "tool_result" => ResultsOf(ll, e.call) /= {}
         /\ e.kind /= "permission_decided" => \A id : Decisions(ll, id) = Decisions(l, id)
         /\ \A id : Decisions(l, id) \subseteq Decisions(ll, id)
         /\ \A id : e.call /= id => Decisions(ll, id) = Decisions(l, id)
         /\ e.kind = "permission_decided" => Len(l) + 1 \in Decisions(ll, e.call)
<1>1. CallsOf(ll) = CallsOf(l) \union (IF e.kind = "assistant_message" THEN ToSet(e.calls) ELSE {})
  BY GrownCalls
<1>2. \A id : ResultsOf(ll, id) =
        ResultsOf(l, id) \union
          (IF e.kind = "tool_result" /\ e.call = id THEN {Len(l) + 1} ELSE {})
  BY GrownCalls
<1>3. \A id : Decisions(ll, id) =
        Decisions(l, id) \union
          (IF e.kind = "permission_decided" /\ e.call = id THEN {Len(l) + 1} ELSE {})
  BY GrownCalls
<1>4. /\ e.kind /= "assistant_message" => CallsOf(ll) = CallsOf(l)
      /\ e.kind = "assistant_message" => CallsOf(ll) = CallsOf(l) \union ToSet(e.calls)
  BY <1>1
<1>5. /\ e.kind /= "tool_result" => \A id : ResultsOf(ll, id) = ResultsOf(l, id)
      /\ \A id : e.call /= id => ResultsOf(ll, id) = ResultsOf(l, id)
      /\ e.kind = "tool_result" => ResultsOf(ll, e.call) /= {}
  BY <1>2
<1>6. /\ e.kind /= "permission_decided" => \A id : Decisions(ll, id) = Decisions(l, id)
      /\ \A id : Decisions(l, id) \subseteq Decisions(ll, id)
      /\ \A id : e.call /= id => Decisions(ll, id) = Decisions(l, id)
      /\ e.kind = "permission_decided" => Len(l) + 1 \in Decisions(ll, e.call)
  BY <1>3
<1> QED BY <1>4, <1>5, <1>6

(* An event that is no call's own, nor the end of a turn, changes none of  *)
(* this.                                                                   *)
LEMMA QuietGrows ==
  ASSUME NEW l, NEW ll, NEW e, Grows(l, ll, e), CallLog(l), e.kind \notin CallKinds
  PROVE  CallLog(ll) /\ Hanging(ll) = Hanging(l)
<1>1. /\ Results(ll) = Results(l) /\ Decided(ll) = Decided(l) /\ Replies(ll) = Replies(l)
      /\ \A i \in Results(l) \union Decided(l) \union Replies(l) : ll[i] = l[i]
  BY GrownFacts DEF CallKinds, Results, Decided, Replies
<1>2. /\ CallsOf(ll) = CallsOf(l)
      /\ \A id : ResultsOf(ll, id) = ResultsOf(l, id)
      /\ \A id : Decisions(ll, id) = Decisions(l, id)
  BY GrownConcerns DEF CallKinds
<1>3. Hanging(ll) = Hanging(l)
  BY <1>2 DEF Hanging
<1>4. Events(ll, "turn_ended") = Events(l, "turn_ended")
  BY GrownFacts DEF CallKinds
<1>5. IdsMade(ll) /\ IdsApart(ll) /\ ConcernsKnown(ll)
  BY <1>1, <1>2 DEF CallLog, IdsMade, IdsApart, ConcernsKnown
<1>6. ResultsOnce(ll) /\ DecidedOnce(ll)
  BY <1>1 DEF CallLog, ResultsOnce, DecidedOnce
<1>7. AllowedFirst(ll)
  <2>1. \A id : \A d \in Decisions(l, id) : ll[d] = l[d]
    BY <1>1 DEF Decisions
  <2> QED BY <1>1, <1>2, <2>1 DEF CallLog, AllowedFirst
<1>8. ResultAfter(ll)
  BY <1>1 DEF CallLog, ResultAfter
<1>9. ClosedAnswered(ll)
  BY <1>1, <1>3, <1>4 DEF CallLog, ClosedAnswered
<1> QED BY <1>3, <1>5, <1>6, <1>7, <1>8, <1>9 DEF CallLog

(* A turn ends when nothing hangs.                                         *)
LEMMA EndGrows ==
  ASSUME NEW l, NEW ll, NEW e, Grows(l, ll, e), CallLog(l), Fits(l, e),
         e.kind = "turn_ended"
  PROVE  CallLog(ll) /\ Hanging(ll) = Hanging(l)
<1>1. /\ Results(ll) = Results(l) /\ Decided(ll) = Decided(l) /\ Replies(ll) = Replies(l)
      /\ \A i \in Results(l) \union Decided(l) \union Replies(l) : ll[i] = l[i]
  BY GrownFacts DEF Results, Decided, Replies
<1>2. /\ CallsOf(ll) = CallsOf(l)
      /\ \A id : ResultsOf(ll, id) = ResultsOf(l, id)
      /\ \A id : Decisions(ll, id) = Decisions(l, id)
  BY GrownConcerns
<1>3. Hanging(ll) = Hanging(l) /\ Hanging(l) = {}
  BY <1>2 DEF Hanging, Fits
<1>5. IdsMade(ll) /\ IdsApart(ll) /\ ConcernsKnown(ll)
  BY <1>1, <1>2 DEF CallLog, IdsMade, IdsApart, ConcernsKnown
<1>6. ResultsOnce(ll) /\ DecidedOnce(ll)
  BY <1>1 DEF CallLog, ResultsOnce, DecidedOnce
<1>7. AllowedFirst(ll)
  <2>1. \A id : \A d \in Decisions(l, id) : ll[d] = l[d]
    BY <1>1 DEF Decisions
  <2> QED BY <1>1, <1>2, <2>1 DEF CallLog, AllowedFirst
<1>8. ResultAfter(ll)
  BY <1>1 DEF CallLog, ResultAfter
<1>9. ClosedAnswered(ll)
  BY <1>3 DEF ClosedAnswered
<1> QED BY <1>3, <1>5, <1>6, <1>7, <1>8, <1>9 DEF CallLog

(* A decision is of a call nobody decided.                                 *)
LEMMA DecisionGrows ==
  ASSUME NEW l, NEW ll, NEW e, Grows(l, ll, e), CallLog(l), Fits(l, e),
         e.kind = "permission_decided"
  PROVE  CallLog(ll) /\ Hanging(ll) = Hanging(l)
<1>1. /\ Results(ll) = Results(l) /\ Replies(ll) = Replies(l)
      /\ Decided(ll) = Decided(l) \union {Len(l) + 1}
      /\ \A i \in Results(l) \union Decided(l) \union Replies(l) :
           ll[i] = l[i] /\ i \in 1 .. Len(l)
      /\ Len(l) \in Nat /\ ll[Len(l) + 1] = e
  BY GrownFacts DEF Results, Decided, Replies
<1>2. /\ CallsOf(ll) = CallsOf(l)
      /\ \A id : ResultsOf(ll, id) = ResultsOf(l, id)
      /\ \A id : Decisions(l, id) \subseteq Decisions(ll, id)
  BY GrownConcerns
<1>3. Hanging(ll) = Hanging(l)
  BY <1>2 DEF Hanging
<1>4. Events(ll, "turn_ended") = Events(l, "turn_ended")
  BY GrownFacts
<1>5. PICK c \in CallsOf(l) : c.id = e.call
  BY DEF Fits
<1>6. \A d \in Decided(l) : l[d].call /= e.call
  BY DEF Fits, Decisions
<1>7. IdsMade(ll) /\ IdsApart(ll)
  BY <1>2 DEF CallLog, IdsMade, IdsApart
<1>8. ConcernsKnown(ll)
  BY <1>1, <1>2, <1>5 DEF CallLog, IdsMade, ConcernsKnown
<1>9. ResultsOnce(ll)
  BY <1>1 DEF CallLog, ResultsOnce
<1>10. DecidedOnce(ll)
  BY <1>1, <1>6 DEF CallLog, DecidedOnce
<1>11. AllowedFirst(ll)
  <2>1. \A id : \A d \in Decisions(l, id) : ll[d] = l[d]
    BY <1>1 DEF Decisions
  <2> QED BY <1>1, <1>2, <2>1 DEF CallLog, AllowedFirst
<1>12. ResultAfter(ll)
  BY <1>1 DEF CallLog, ResultAfter
<1>13. ClosedAnswered(ll)
  BY <1>1, <1>3, <1>4 DEF CallLog, ClosedAnswered
<1> QED BY <1>3, <1>7, <1>8, <1>9, <1>10, <1>11, <1>12, <1>13 DEF CallLog

(* A result is of a call that hangs.                                       *)
LEMMA ResultGrows ==
  ASSUME NEW l, NEW ll, NEW e, Grows(l, ll, e), CallLog(l), Fits(l, e),
         e.kind = "tool_result"
  PROVE  CallLog(ll) /\ Hanging(ll) = {c \in Hanging(l) : c.id /= e.call}
<1>1. /\ Decided(ll) = Decided(l) /\ Replies(ll) = Replies(l)
      /\ Results(ll) = Results(l) \union {Len(l) + 1}
      /\ \A i \in Results(l) \union Decided(l) \union Replies(l) :
           ll[i] = l[i] /\ i \in 1 .. Len(l)
      /\ Len(l) \in Nat /\ ll[Len(l) + 1] = e
  BY GrownFacts DEF Results, Decided, Replies
<1>2. /\ CallsOf(ll) = CallsOf(l)
      /\ \A id : e.call /= id => ResultsOf(ll, id) = ResultsOf(l, id)
      /\ ResultsOf(ll, e.call) /= {}
      /\ \A id : Decisions(ll, id) = Decisions(l, id)
  BY GrownConcerns
<1>3. Hanging(ll) = {c \in Hanging(l) : c.id /= e.call}
  BY <1>2 DEF Hanging
<1>4. Events(ll, "turn_ended") = Events(l, "turn_ended")
  BY GrownFacts
<1>5. PICK c \in Hanging(l) :
        /\ c.id = e.call
        /\ c.tool = "gated" /\ e.origin \in {"ran", "killed"} =>
             \E d \in Decisions(l, c.id) : l[d].allow
  BY DEF Fits
<1>6. c \in CallsOf(l) /\ \A r \in Results(l) : l[r].call /= e.call
  BY <1>5 DEF Hanging, Results, ResultsOf
<1>7. IdsMade(ll) /\ IdsApart(ll)
  BY <1>2 DEF CallLog, IdsMade, IdsApart
<1>8. ConcernsKnown(ll)
  BY <1>1, <1>2, <1>5, <1>6 DEF CallLog, IdsMade, ConcernsKnown
<1>9. ResultsOnce(ll)
  BY <1>1, <1>6 DEF CallLog, ResultsOnce
<1>10. DecidedOnce(ll)
  BY <1>1 DEF CallLog, DecidedOnce
<1>11. AllowedFirst(ll)
  <2>1. \A id : \A d \in Decisions(l, id) : ll[d] = l[d] /\ d \in 1 .. Len(l)
    BY <1>1 DEF Decisions
  <2>2. \A b \in CallsOf(l) : b.id = e.call => b = c
    BY <1>5, <1>6 DEF CallLog, IdsApart
  <2> SUFFICES ASSUME NEW r \in Results(ll), NEW b \in CallsOf(ll),
                      b.id = ll[r].call, b.tool = "gated", ll[r].origin \in {"ran", "killed"}
               PROVE  \E d \in Decisions(ll, b.id) : d < r /\ ll[d].allow
    BY DEF AllowedFirst
  <2>3. CASE r \in Results(l)
    BY <1>1, <1>2, <2>1, <2>3 DEF CallLog, AllowedFirst
  <2>4. CASE r = Len(l) + 1
    <3>1. b = c /\ b.id = e.call /\ e.origin \in {"ran", "killed"}
      BY <1>1, <1>2, <2>2, <2>4
    <3>2. PICK d \in Decisions(l, c.id) : l[d].allow
      BY <1>5, <3>1
    <3>3. ll[d] = l[d] /\ d < r
      BY <1>1, <2>1, <2>4
    <3> QED BY <1>2, <3>1, <3>2, <3>3
  <2> QED BY <1>1, <2>3, <2>4
<1>12. ResultAfter(ll)
  BY <1>1 DEF CallLog, ResultAfter
<1>13. ClosedAnswered(ll)
  BY <1>1, <1>3, <1>4 DEF CallLog, ClosedAnswered
<1> QED BY <1>3, <1>7, <1>8, <1>9, <1>10, <1>11, <1>12, <1>13 DEF CallLog

(* A reply goes out when nothing hangs, and its calls follow the log's.    *)
LEMMA ReplyGrows ==
  ASSUME NEW l, NEW ll, NEW e, Grows(l, ll, e), CallLog(l), Fits(l, e),
         e.kind = "assistant_message"
  PROVE  CallLog(ll) /\ Hanging(ll) = ToSet(e.calls)
<1> DEFINE n == Cardinality(CallsOf(l))
           new == ToSet(e.calls)
<1>1. /\ Decided(ll) = Decided(l) /\ Results(ll) = Results(l)
      /\ Replies(ll) = Replies(l) \union {Len(l) + 1}
      /\ \A i \in Results(l) \union Decided(l) \union Replies(l) :
           ll[i] = l[i] /\ i \in 1 .. Len(l)
      /\ Len(l) \in Nat /\ ll[Len(l) + 1] = e
  BY GrownFacts DEF Results, Decided, Replies
<1>2. /\ CallsOf(ll) = CallsOf(l) \union new
      /\ \A id : ResultsOf(ll, id) = ResultsOf(l, id)
      /\ \A id : Decisions(ll, id) = Decisions(l, id)
  BY GrownConcerns
<1>3. /\ Events(ll, "turn_ended") = Events(l, "turn_ended")
      /\ \A i \in Events(l, "turn_ended") : i \in 1 .. Len(l)
  <2>1. Events(ll, "turn_ended") = Events(l, "turn_ended")
    BY GrownFacts
  <2>2. \A i \in Events(l, "turn_ended") : i \in 1 .. Len(l)
    BY Grown
  <2> QED BY <2>1, <2>2
<1>4. l \in Seq(Event) /\ e.calls \in Seq(Call)
  <2>1. e \in Event
    BY DEF Grows
  <2> QED BY <2>1 DEF Grows, Event
<1>5. \A k \in 1 .. Len(e.calls) : e.calls[k].id = n + k
  BY DEF Fits
<1>6. IsFiniteSet(CallsOf(l)) /\ n \in Nat
  BY <1>4, FiniteCalls
<1>7. Cardinality(CallsOf(ll)) = n + Len(e.calls) /\ Len(e.calls) \in Nat
  <2>1. \A c \in CallsOf(l) : c.id \in 1 .. Cardinality(CallsOf(l))
    BY DEF CallLog, IdsMade
  <2>2. Cardinality(CallsOf(l) \union new) = Cardinality(CallsOf(l)) + Len(e.calls)
    BY <1>4, <1>5, <1>6, <2>1, NumberedCount
  <2> QED BY <1>2, <1>4, <2>2
<1>8. \A c \in new : \E k \in 1 .. Len(e.calls) : c = e.calls[k] /\ c.id = n + k
  <2>1. DOMAIN e.calls = 1 .. Len(e.calls)
    BY <1>4
  <2> QED BY <1>5, <2>1 DEF ToSet, Range
<1> HIDE DEF n, new
<1>9. \A c \in new : c.id \in n + 1 .. n + Len(e.calls)
  BY <1>6, <1>7, <1>8
<1>10. \A c \in CallsOf(l) : c.id \in 1 .. n
  BY DEF CallLog, IdsMade, n
<1>11. \A r \in Results(l) \union Decided(l) : l[r].call \in 1 .. n
  BY DEF CallLog, ConcernsKnown, n
<1>12. \A c \in new : ResultsOf(ll, c.id) = {}
  <2> SUFFICES ASSUME NEW c \in new PROVE ResultsOf(l, c.id) = {}
    BY <1>2
  <2>1. \A r \in Results(l) : l[r].call /= c.id
    BY <1>6, <1>7, <1>9, <1>11
  <2> QED BY <2>1 DEF ResultsOf, Results
<1>13. Hanging(ll) = new
  <2>1. \A c \in CallsOf(l) : ResultsOf(ll, c.id) /= {}
    BY <1>2 DEF Fits, Hanging
  <2> QED BY <1>2, <1>12, <2>1 DEF Hanging
<1>14. IdsMade(ll)
  <2> SUFFICES ASSUME NEW c \in CallsOf(ll) PROVE c.id \in 1 .. n + Len(e.calls)
    BY <1>7 DEF IdsMade
  <2> QED BY <1>2, <1>6, <1>7, <1>9, <1>10
<1>15. IdsApart(ll)
  <2> SUFFICES ASSUME NEW c \in CallsOf(ll), NEW d \in CallsOf(ll), c.id = d.id
               PROVE  c = d
    BY DEF IdsApart
  <2>1. CASE c \in CallsOf(l) /\ d \in CallsOf(l)
    BY <2>1 DEF CallLog, IdsApart
  <2>2. CASE c \in new /\ d \in new
    <3>1. PICK j \in 1 .. Len(e.calls) : c = e.calls[j] /\ c.id = n + j
      BY <1>8, <2>2
    <3>2. PICK k \in 1 .. Len(e.calls) : d = e.calls[k] /\ d.id = n + k
      BY <1>8, <2>2
    <3>3. j = k
      BY <1>6, <1>7, <3>1, <3>2
    <3> QED BY <3>1, <3>2, <3>3
  <2>3. CASE c \in CallsOf(l) /\ d \in new
    BY <1>6, <1>7, <1>9, <1>10, <2>3
  <2>4. CASE c \in new /\ d \in CallsOf(l)
    BY <1>6, <1>7, <1>9, <1>10, <2>4
  <2> QED BY <1>2, <2>1, <2>2, <2>3, <2>4
<1>16. ConcernsKnown(ll)
  <2> SUFFICES ASSUME NEW r \in Results(l) \union Decided(l)
               PROVE  l[r].call \in 1 .. n + Len(e.calls)
    BY <1>1, <1>7 DEF ConcernsKnown
  <2> QED BY <1>6, <1>7, <1>11
<1>17. ResultsOnce(ll) /\ DecidedOnce(ll)
  BY <1>1 DEF CallLog, ResultsOnce, DecidedOnce
<1>18. \A c \in CallsOf(ll), r \in Results(l) : c.id = l[r].call => c \in CallsOf(l)
  <2> SUFFICES ASSUME NEW c \in new, NEW r \in Results(l), c.id = l[r].call PROVE FALSE
    BY <1>2
  <2> QED BY <1>6, <1>7, <1>9, <1>11
<1>19. AllowedFirst(ll)
  <2>1. \A id : \A d \in Decisions(l, id) : ll[d] = l[d]
    BY <1>1 DEF Decisions
  <2> QED BY <1>1, <1>2, <1>18, <2>1 DEF CallLog, AllowedFirst
<1>20. ResultAfter(ll)
  <2> SUFFICES ASSUME NEW i \in Replies(ll), NEW r \in Results(ll),
                      NEW c \in ToSet(ll[i].calls), c.id = ll[r].call
               PROVE  i < r
    BY DEF ResultAfter
  <2>1. CASE i \in Replies(l)
    BY <1>1, <2>1 DEF CallLog, ResultAfter
  <2>2. CASE i = Len(l) + 1
    <3>1. c \in new /\ r \in Results(l) /\ c.id = l[r].call
      BY <1>1, <2>2 DEF new
    <3> QED BY <1>6, <1>7, <1>9, <1>11, <3>1
  <2> QED BY <1>1, <2>1, <2>2
<1>21. ClosedAnswered(ll)
  <2> SUFFICES ASSUME NEW i \in Replies(ll), NEW j \in Replies(ll) \union Events(ll, "turn_ended"),
                      j > i, NEW c \in ToSet(ll[i].calls), c \in new
               PROVE  FALSE
    BY <1>13 DEF ClosedAnswered
  <2>1. i \in Replies(l)
    BY <1>1, <1>3
  <2>2. c \in CallsOf(l)
    BY <1>1, <2>1 DEF CallsOf, Replies
  <2> QED BY <1>6, <1>7, <1>9, <1>10, <2>2
<1> QED BY <1>13, <1>14, <1>15, <1>16, <1>17, <1>19, <1>20, <1>21 DEF CallLog, new

(* The log stays sound, whatever fits is appended.                         *)
LEMMA CallLogGrows ==
  ASSUME NEW l, NEW ll, NEW e, Grows(l, ll, e), CallLog(l), Fits(l, e)
  PROVE  CallLog(ll)
BY QuietGrows, EndGrows, DecisionGrows, ResultGrows, ReplyGrows DEF CallKinds

-----------------------------------------------------------------------------
(* The batch and the calls that hang.                                      *)

BatchSound ==
  /\ pc \notin AtCall \union {"after_calls"} => batch = <<>>
  /\ pc /= "resume" => Hanging(log) = ToSet(batch)
  /\ \A i, k \in DOMAIN batch : batch[i].id = batch[k].id => i = k
  /\ \A i \in DOMAIN batch :
       Decisions(log, batch[i].id) = {} \/ (i = 1 /\ pc \in {"tool", "refused"})
  /\ pc = "tool" /\ Head(batch).tool = "gated" =>
       \E d \in Decisions(log, Head(batch).id) : log[d].allow

CallsInv == CallLog(log) /\ BatchSound

(* Nothing is appended that concerns a call.                               *)
Quietly == log' = log \/ \E e : Grows(log, log', e) /\ e.kind \notin CallKinds

(* Then the calls stand as they did.                                       *)
LEMMA QuietCalls ==
  ASSUME CallLog(log), Quietly
  PROVE  /\ CallLog(log') /\ Hanging(log') = Hanging(log)
         /\ \A id : Decisions(log', id) = Decisions(log, id)
         /\ \A id : \A d \in Decisions(log, id) : log'[d] = log[d]
<1>1. CASE log' = log
  BY <1>1
<1>2. CASE \E e : Grows(log, log', e) /\ e.kind \notin CallKinds
  <2>1. PICK e : Grows(log, log', e) /\ e.kind \notin CallKinds
    BY <1>2
  <2>2. PICK l, ll : l = log /\ ll = log'
    OBVIOUS
  <2>3. Grows(l, ll, e) /\ CallLog(l)
    BY <2>1, <2>2
  <2>4. CallLog(ll) /\ Hanging(ll) = Hanging(l)
    BY <2>1, <2>3, QuietGrows
  <2>5. \A id : Decisions(ll, id) = Decisions(l, id)
    BY <2>1, <2>3, GrownConcerns DEF CallKinds
  <2>6. \A id : \A d \in Decisions(l, id) : ll[d] = l[d]
    BY <2>3, GrownFacts DEF Decisions
  <2> QED BY <2>2, <2>4, <2>5, <2>6
<1> QED BY <1>1, <1>2 DEF Quietly

(* The batch is kept, and the place goes nowhere it could not from there.  *)
LEMMA BatchKept ==
  ASSUME CallsInv, Quietly, batch' = batch,
         pc' \notin AtCall \union {"after_calls"} => batch = <<>>,
         pc = "resume" => pc' = "resume",
         pc \in {"tool", "refused"} => pc' = pc \/ batch = <<>>,
         pc' = "tool" => pc = "tool" \/ Head(batch).tool /= "gated"
  PROVE  CallsInv'
<1>1. /\ CallLog(log') /\ Hanging(log') = Hanging(log)
      /\ \A id : Decisions(log', id) = Decisions(log, id)
      /\ \A id : \A d \in Decisions(log, id) : log'[d] = log[d]
  BY QuietCalls DEF CallsInv
<1>2. PICK p, pp, b, l, ll : p = pc /\ pp = pc' /\ b = batch /\ l = log /\ ll = log'
  OBVIOUS
<1>3. /\ p \notin AtCall \union {"after_calls"} => b = <<>>
      /\ p /= "resume" => Hanging(l) = ToSet(b)
      /\ \A i, k \in DOMAIN b : b[i].id = b[k].id => i = k
      /\ \A i \in DOMAIN b :
           Decisions(l, b[i].id) = {} \/ (i = 1 /\ p \in {"tool", "refused"})
      /\ p = "tool" /\ Head(b).tool = "gated" =>
           \E d \in Decisions(l, Head(b).id) : l[d].allow
  BY <1>2 DEF CallsInv, BatchSound
<1>4. /\ Hanging(ll) = Hanging(l)
      /\ \A id : Decisions(ll, id) = Decisions(l, id)
      /\ \A id : \A d \in Decisions(l, id) : ll[d] = l[d]
  BY <1>1, <1>2
<1>5. /\ pp \notin AtCall \union {"after_calls"} => b = <<>>
      /\ p = "resume" => pp = "resume"
      /\ p \in {"tool", "refused"} => pp = p \/ b = <<>>
      /\ pp = "tool" => p = "tool" \/ Head(b).tool /= "gated"
  BY <1>2
<1>6. pp /= "resume" => Hanging(ll) = ToSet(b)
  BY <1>3, <1>4, <1>5
<1>7. \A i \in DOMAIN b :
        Decisions(ll, b[i].id) = {} \/ (i = 1 /\ pp \in {"tool", "refused"})
  <2>1. b = <<>> => DOMAIN b = {}
    OBVIOUS
  <2> QED BY <1>3, <1>4, <1>5, <2>1
<1>8. pp = "tool" /\ Head(b).tool = "gated" =>
        \E d \in Decisions(ll, Head(b).id) : ll[d].allow
  BY <1>3, <1>4, <1>5
<1>9. BatchSound'
  BY <1>2, <1>3, <1>5, <1>6, <1>7, <1>8 DEF BatchSound
<1> QED BY <1>1, <1>9 DEF CallsInv

(* The head of a batch and the rest.                                       *)
LEMMA HeadAndTail ==
  ASSUME NEW b \in Seq(Call), b /= <<>>
  PROVE  /\ Head(b) = b[1] /\ 1 \in DOMAIN b /\ Head(b) \in ToSet(b)
         /\ \A i \in DOMAIN Tail(b) : i + 1 \in DOMAIN b /\ i + 1 /= 1 /\ Tail(b)[i] = b[i + 1]
         /\ ToSet(b) = {Head(b)} \union ToSet(Tail(b))
         /\ \A i, k \in DOMAIN Tail(b) : i + 1 = k + 1 => i = k
<1>1. Len(b) \in Nat /\ DOMAIN b = 1 .. Len(b) /\ Len(b) >= 1
  OBVIOUS
<1>2. Head(b) = b[1]
  OBVIOUS
<1>3. /\ Len(Tail(b)) = Len(b) - 1 /\ DOMAIN Tail(b) = 1 .. Len(b) - 1
      /\ \A i \in 1 .. Len(b) - 1 : Tail(b)[i] = b[i + 1]
  BY <1>1
<1>4. \A i \in DOMAIN Tail(b) : i + 1 \in DOMAIN b /\ i + 1 /= 1 /\ Tail(b)[i] = b[i + 1]
  BY <1>1, <1>3
<1>5. \A m \in DOMAIN b : m = 1 \/ (m - 1 \in DOMAIN Tail(b) /\ Tail(b)[m - 1] = b[m])
  BY <1>1, <1>3
<1>6. ToSet(b) = {Head(b)} \union ToSet(Tail(b))
  <2>1. /\ \A c : c \in ToSet(b) <=> \E m \in DOMAIN b : c = b[m]
        /\ \A c : c \in ToSet(Tail(b)) <=> \E m \in DOMAIN Tail(b) : c = Tail(b)[m]
    BY DEF ToSet, Range
  <2>2. 1 \in DOMAIN b
    BY <1>1
  <2> QED BY <1>2, <1>4, <1>5, <2>1, <2>2
<1>7. \A i, k \in DOMAIN Tail(b) : i + 1 = k + 1 => i = k
  BY <1>1, <1>3
<1>8. 1 \in DOMAIN b /\ Head(b) \in ToSet(b)
  BY <1>1, <1>6
<1> QED BY <1>2, <1>4, <1>6, <1>7, <1>8

(* The head's result takes it off the batch and off what hangs.            *)
LEMMA BatchPopped ==
  ASSUME TypeOK, TypeOK', CallsInv, batch /= <<>>, pc /= "resume",
         NEW origin \in Origins, Write(ToolResult(Head(batch).id, origin)),
         batch' = Tail(batch),
         origin \in {"ran", "killed"} => pc = "tool",
         pc' \notin {"tool", "refused"},
         pc' \notin AtCall \union {"after_calls"} => Tail(batch) = <<>>
  PROVE  CallsInv'
<1>0. PICK l, ll, e, b, h, p, pp :
        /\ l = log /\ ll = log' /\ e = ToolResult(Head(batch).id, origin)
        /\ b = batch /\ h = Head(batch) /\ p = pc /\ pp = pc'
  OBVIOUS
<1>1. e.kind = "tool_result" /\ e.call = h.id /\ e.origin = origin
  BY <1>0 DEF ToolResult
<1>2. Grows(l, ll, e)
  <2>1. e \in Event
    BY <1>0, HeadOfBatch, EventTypes
  <2> QED BY <1>0, <2>1 DEF Write, TypeOK, Grows
<1>3. /\ CallLog(l) /\ Hanging(l) = ToSet(b)
      /\ \A i, k \in DOMAIN b : b[i].id = b[k].id => i = k
      /\ \A i \in DOMAIN b :
           Decisions(l, b[i].id) = {} \/ (i = 1 /\ p \in {"tool", "refused"})
      /\ p = "tool" /\ h.tool = "gated" => \E d \in Decisions(l, h.id) : l[d].allow
  BY <1>0 DEF CallsInv, BatchSound
<1>4. b \in Seq(Call) /\ b /= <<>> /\ h = Head(b)
  BY <1>0 DEF TypeOK
<1>5. /\ h = b[1] /\ 1 \in DOMAIN b /\ h \in ToSet(b)
      /\ \A i \in DOMAIN Tail(b) : i + 1 \in DOMAIN b /\ i + 1 /= 1 /\ Tail(b)[i] = b[i + 1]
      /\ ToSet(b) = {h} \union ToSet(Tail(b))
      /\ \A i, k \in DOMAIN Tail(b) : i + 1 = k + 1 => i = k
  BY <1>4, HeadAndTail
<1>6. Fits(l, e)
  BY <1>0, <1>1, <1>3, <1>5 DEF Fits
<1>7. CallLog(ll) /\ Hanging(ll) = {c \in Hanging(l) : c.id /= e.call}
  BY <1>1, <1>2, <1>3, <1>6, ResultGrows
<1>8. \A id : Decisions(ll, id) = Decisions(l, id)
  BY <1>1, <1>2, GrownConcerns
<1>9. \A i \in DOMAIN Tail(b) : Tail(b)[i].id /= h.id
  BY <1>3, <1>5
<1>10. \A c : c \in ToSet(Tail(b)) <=> \E m \in DOMAIN Tail(b) : c = Tail(b)[m]
  BY DEF ToSet, Range
<1>11. Hanging(ll) = ToSet(Tail(b))
  BY <1>1, <1>3, <1>5, <1>7, <1>9, <1>10
<1>12. \A i, k \in DOMAIN Tail(b) : Tail(b)[i].id = Tail(b)[k].id => i = k
  BY <1>3, <1>5
<1>13. \A i \in DOMAIN Tail(b) : Decisions(ll, Tail(b)[i].id) = {}
  <2> SUFFICES ASSUME NEW i \in DOMAIN Tail(b)
               PROVE  Decisions(l, Tail(b)[i].id) = {}
    BY <1>8, Zenon
  <2>1. PICK m \in DOMAIN b : m /= 1 /\ Tail(b)[i] = b[m]
    BY <1>5, Zenon
  <2> QED BY <1>3, <2>1, Zenon
<1>14. batch' = Tail(b) /\ pp \notin {"tool", "refused"}
       /\ (pp \notin AtCall \union {"after_calls"} => Tail(b) = <<>>)
  BY <1>0
<1>15. BatchSound'
  <2>1. PICK bb : bb = Tail(b)
    OBVIOUS
  <2>2. /\ batch' = bb /\ pc' \notin {"tool", "refused"}
        /\ pc' \notin AtCall \union {"after_calls"} => bb = <<>>
    BY <1>0, <1>14, <2>1
  <2>3. /\ Hanging(log') = ToSet(bb)
        /\ \A i, k \in DOMAIN bb : bb[i].id = bb[k].id => i = k
        /\ \A i \in DOMAIN bb : Decisions(log', bb[i].id) = {}
    BY <1>0, <1>11, <1>12, <1>13, <2>1
  <2> QED BY <2>2, <2>3 DEF BatchSound
<1> QED BY <1>0, <1>7, <1>15 DEF CallsInv

(* The head's decision sends it to its tool or to its refusal.             *)
LEMMA BatchDecided ==
  ASSUME TypeOK, TypeOK', CallsInv, batch /= <<>>, pc \in {"ask", "granted"},
         NEW allow \in BOOLEAN, NEW by \in Deciders,
         Write(PermissionDecided(Head(batch).id, allow, by)),
         batch' = batch, pc' \in {"tool", "refused"}, pc' = "tool" => allow
  PROVE  CallsInv'
<1>0. PICK l, ll, e, b, h, p, pp :
        /\ l = log /\ ll = log' /\ e = PermissionDecided(Head(batch).id, allow, by)
        /\ b = batch /\ h = Head(batch) /\ p = pc /\ pp = pc'
  OBVIOUS
<1>1. e.kind = "permission_decided" /\ e.call = h.id /\ e.allow = allow
  BY <1>0 DEF PermissionDecided
<1>2. Grows(l, ll, e)
  <2>1. e \in Event
    BY <1>0, HeadOfBatch, EventTypes
  <2> QED BY <1>0, <2>1 DEF Write, TypeOK, Grows
<1>3. /\ CallLog(l) /\ Hanging(l) = ToSet(b)
      /\ \A i, k \in DOMAIN b : b[i].id = b[k].id => i = k
      /\ \A i \in DOMAIN b : Decisions(l, b[i].id) = {}
  BY <1>0 DEF CallsInv, BatchSound
<1>4. b \in Seq(Call) /\ b /= <<>> /\ h = Head(b)
  BY <1>0 DEF TypeOK
<1>5. h = b[1] /\ 1 \in DOMAIN b /\ h \in ToSet(b)
  BY <1>4, HeadAndTail
<1>6. Fits(l, e)
  BY <1>1, <1>3, <1>5 DEF Fits, Hanging
<1>7. CallLog(ll) /\ Hanging(ll) = Hanging(l)
  BY <1>1, <1>2, <1>3, <1>6, DecisionGrows
<1>8. /\ \A id : e.call /= id => Decisions(ll, id) = Decisions(l, id)
      /\ Len(l) + 1 \in Decisions(ll, e.call)
  BY <1>1, <1>2, GrownConcerns
<1>9. ll[Len(l) + 1] = e
  BY <1>2, GrownFacts
<1>10. \A i \in DOMAIN b : Decisions(ll, b[i].id) = {} \/ i = 1
  BY <1>1, <1>3, <1>5, <1>8
<1>11. pp = "tool" => \E d \in Decisions(ll, h.id) : ll[d].allow
  BY <1>0, <1>1, <1>8, <1>9
<1>12. batch' = b /\ pp \in {"tool", "refused"} /\ {"tool", "refused"} \subseteq AtCall
  BY <1>0 DEF AtCall
<1>13. BatchSound'
  BY <1>0, <1>3, <1>7, <1>10, <1>11, <1>12 DEF BatchSound
<1> QED BY <1>0, <1>7, <1>13 DEF CallsInv

(* A reply's calls are the next batch.                                     *)
LEMMA BatchReplied ==
  ASSUME TypeOK, TypeOK', CallsInv, pc = "stream", NEW calls \in Batches,
         Write(AssistantMessage(calls)), batch' = calls,
         pc' \in {"end", "length", "calls"}, calls = <<>> <=> pc' = "end"
  PROVE  CallsInv'
<1>0. PICK l, ll, e :
        l = log /\ ll = log' /\ e = AssistantMessage(calls)
  OBVIOUS
<1>1. e.kind = "assistant_message" /\ e.calls = calls
  BY <1>0 DEF AssistantMessage
<1>2. calls \in Seq(Call) /\ Len(calls) \in Nat /\ DOMAIN calls = 1 .. Len(calls)
  BY BatchTyped
<1>3. Grows(l, ll, e)
  <2>1. e \in Event
    BY <1>0, <1>2, EventTypes
  <2> QED BY <1>0, <2>1 DEF Write, TypeOK, Grows
<1>4. CallLog(l) /\ Hanging(l) = {}
  <2>1. batch = <<>>
    BY DEF CallsInv, BatchSound, AtCall
  <2>2. ToSet(<<>>) = {}
    BY DEF ToSet, Range
  <2> QED BY <1>0, <2>1, <2>2 DEF CallsInv, BatchSound
<1> DEFINE n == Cardinality(CallsOf(l))
<1>5. \A k \in 1 .. Len(calls) : calls[k].id = n + k
  <2>1. PICK tools : calls = [i \in DOMAIN tools |-> [id |-> n + i, tool |-> tools[i]]]
    BY <1>0 DEF Batches
  <2>2. DOMAIN tools = 1 .. Len(calls)
    BY <1>2, <2>1
  <2> HIDE DEF n
  <2> QED BY <2>1, <2>2
<1>6. n \in Nat
  BY <1>3, FiniteCalls DEF Grows
<1>7. Fits(l, e)
  BY <1>1, <1>4, <1>5 DEF Fits
<1>8. CallLog(ll) /\ Hanging(ll) = ToSet(calls)
  BY <1>1, <1>3, <1>4, <1>7, ReplyGrows
<1>9. \A id : Decisions(ll, id) = Decisions(l, id)
  BY <1>1, <1>3, GrownConcerns
<1>10. \A r \in Decided(l) : l[r].call \in 1 .. n
  BY <1>4 DEF CallLog, ConcernsKnown
<1> HIDE DEF n
<1>11. \A i \in DOMAIN calls : Decisions(ll, calls[i].id) = {}
  <2> SUFFICES ASSUME NEW i \in DOMAIN calls, NEW r \in Decided(l), l[r].call = calls[i].id
               PROVE  FALSE
    BY <1>9 DEF Decisions
  <2> QED BY <1>2, <1>5, <1>6, <1>10
<1>12. \A i, k \in DOMAIN calls : calls[i].id = calls[k].id => i = k
  <2> SUFFICES ASSUME NEW i \in DOMAIN calls, NEW k \in DOMAIN calls,
                      calls[i].id = calls[k].id
               PROVE  i = k
    OBVIOUS
  <2>1. n + i = n + k /\ i \in Nat /\ k \in Nat
    BY <1>2, <1>5
  <2> QED BY <1>6, <2>1
<1>13. BatchSound'
  <2>1. /\ Hanging(log') = ToSet(calls)
        /\ \A i \in DOMAIN calls : Decisions(log', calls[i].id) = {}
    BY <1>0, <1>8, <1>11
  <2>2. pc' /= "tool" /\ (pc' \notin AtCall \union {"after_calls"} => calls = <<>>)
    BY DEF AtCall
  <2> QED BY <1>12, <2>1, <2>2 DEF BatchSound
<1> QED BY <1>0, <1>8, <1>13 DEF CallsInv

(* A turn ends with an empty batch and nothing hanging.                    *)
LEMMA BatchEnded ==
  ASSUME TypeOK, CallsInv, batch = <<>>, Hanging(log) = {},
         NEW e \in Event, e.kind = "turn_ended", log' = Append(log, e),
         batch' = batch, pc' \notin AtCall \union {"after_calls"}
  PROVE  CallsInv'
<1>0. PICK l, ll : l = log /\ ll = log'
  OBVIOUS
<1>1. Grows(l, ll, e)
  BY <1>0 DEF TypeOK, Grows
<1>2. Fits(l, e)
  BY <1>0 DEF Fits
<1>3. CallLog(ll) /\ Hanging(ll) = {}
  BY <1>0, <1>1, <1>2, EndGrows DEF CallsInv
<1>4. ToSet(<<>>) = {} /\ DOMAIN <<>> = {}
  BY DEF ToSet, Range
<1>5. BatchSound'
  <2>1. batch' = <<>> /\ pc' /= "tool" /\ Hanging(log') = {}
    BY <1>0, <1>3 DEF AtCall
  <2> QED BY <1>4, <2>1 DEF BatchSound
<1> QED BY <1>0, <1>3, <1>5 DEF CallsInv

-----------------------------------------------------------------------------
(* What a resume finds.                                                    *)

(* A call that hangs is of the last reply, and no turn ended behind it.    *)
LEMMA HangingLast ==
  ASSUME NEW l, l \in Seq(Event), CallLog(l), NEW c \in Hanging(l)
  PROVE  \E i \in Replies(l) :
           /\ c \in ToSet(l[i].calls)
           /\ \A j \in Replies(l) : j <= i
           /\ \A j \in Events(l, "turn_ended") : j < i
<1>1. PICK i \in Replies(l) : c \in ToSet(l[i].calls)
  BY DEF Hanging, CallsOf, Replies
<1>2. \A j \in Replies(l) \union Events(l, "turn_ended") : ~(j > i)
  BY <1>1 DEF CallLog, ClosedAnswered
<1>3. Replies(l) \subseteq Nat /\ Events(l, "turn_ended") \subseteq Nat
  BY DEF Replies, Events
<1>4. i \notin Events(l, "turn_ended")
  BY DEF Replies, Events
<1> QED BY <1>1, <1>2, <1>3, <1>4

(* What hangs is what a resume answers: nothing where no turn is open or   *)
(* the turn only lost its end.                                             *)
LEMMA ResumeHangs ==
  ASSUME NEW l, l \in Seq(Event), CallLog(l)
  PROVE  /\ Unanswered(l) \subseteq Hanging(l)
         /\ ~TurnIsOpen(l) => Hanging(l) = {}
         /\ Unanswered(l) = {} => Hanging(l) = {}
         /\ LostTurnEnded(l) => Hanging(l) = {}
<1>0. /\ LastEnd(l) \in 0 .. Len(l) /\ Len(l) \in Nat /\ DOMAIN l = 1 .. Len(l)
      /\ LastEnd(l) /= 0 => l[LastEnd(l)].kind = "turn_ended"
  BY LastEndIsLast
<1> DEFINE replies == {i \in LastEnd(l) + 1 .. Len(l) : l[i].kind = "assistant_message"}
<1>1. LastReply(l) = IF replies /= {} THEN Max(replies) ELSE 0
  BY DEF LastReply, SelectLastInSubSeq
<1>2. replies \in SUBSET (1 .. Len(l)) /\ replies \subseteq Replies(l)
  BY <1>0 DEF Replies, Events
<1>3. replies /= {} => Max(replies) \in replies /\ \A i \in replies : i <= Max(replies)
  <2> HIDE DEF replies
  <2> QED BY <1>0, <1>2, LastPlace
<1>4. LastReply(l) /= 0 => LastReply(l) \in Replies(l)
  <2> HIDE DEF replies
  <2> QED BY <1>1, <1>2, <1>3
<1>5. Unanswered(l) \subseteq Hanging(l)
  <2> SUFFICES ASSUME NEW c \in Unanswered(l) PROVE c \in Hanging(l)
    OBVIOUS
  <2>1. /\ LastReply(l) /= 0 /\ c \in ToSet(l[LastReply(l)].calls)
        /\ \A r \in ResultsOf(l, c.id) : r < LastReply(l)
    BY DEF Unanswered
  <2>2. \A r \in ResultsOf(l, c.id) : r \in Results(l) /\ c.id = l[r].call
    BY DEF ResultsOf, Results
  <2>3. \A r \in ResultsOf(l, c.id) : LastReply(l) < r
    BY <1>4, <2>1, <2>2 DEF CallLog, ResultAfter
  <2>4. ResultsOf(l, c.id) \subseteq Nat /\ LastReply(l) \in Nat
    BY <1>4, <2>1 DEF ResultsOf, Replies, Events
  <2>5. ResultsOf(l, c.id) = {}
    BY <2>1, <2>3, <2>4
  <2> QED BY <1>4, <2>1, <2>5 DEF Hanging, CallsOf, Replies
<1>6. ASSUME NEW c \in Hanging(l)
      PROVE  /\ TurnIsOpen(l) /\ c \in Unanswered(l) /\ ~LostTurnEnded(l)
  <2>1. PICK i \in Replies(l) :
           /\ c \in ToSet(l[i].calls)
           /\ \A j \in Replies(l) : j <= i
           /\ \A j \in Events(l, "turn_ended") : j < i
    BY HangingLast
  <2>2. i \in 1 .. Len(l) /\ l[i].kind = "assistant_message" /\ IsTurnEvent(l[i])
    BY <1>0 DEF Replies, Events, IsTurnEvent
  <2>3. \A j \in i .. Len(l) : l[j].kind /= "turn_ended"
    <3> SUFFICES ASSUME NEW j \in i .. Len(l), l[j].kind = "turn_ended" PROVE FALSE
      OBVIOUS
    <3>1. j \in Events(l, "turn_ended")
      BY <1>0, <2>2 DEF Events
    <3> QED BY <2>1, <2>2, <3>1
  <2>4. TurnIsOpen(l)
    BY <2>2, <2>3, OpenTurn
  <2>5. LastEnd(l) < i
    <3>1. LastEnd(l) /= 0 => LastEnd(l) \in Events(l, "turn_ended")
      BY <1>0 DEF Events
    <3> QED BY <1>0, <2>1, <2>2, <3>1
  <2>6. i \in replies
    BY <1>0, <2>2, <2>5
  <2>7. LastReply(l) = i
    <3>1. Max(replies) \in replies /\ i <= Max(replies) /\ Max(replies) <= i
      <4> HIDE DEF replies
      <4> QED BY <1>2, <1>3, <2>1, <2>6
    <3> DEFINE m == Max(replies)
    <3>2. m \in Nat /\ i <= m /\ m <= i
      BY <1>2, <3>1
    <3> HIDE DEF m, replies
    <3>3. m = i
      BY <2>2, <3>2
    <3> QED BY <1>1, <2>6, <3>3 DEF m
  <2>8. c \in Unanswered(l)
    BY <2>1, <2>2, <2>7 DEF Unanswered, Hanging
  <2>9. ~LostTurnEnded(l)
    <3> DEFINE own == {j \in 1 .. Len(l) : IsTurnEvent(l[j])}
               k == SelectLastInSeq(l, IsTurnEvent)
    <3>1. k = IF own /= {} THEN Max(own) ELSE 0
      BY DEF SelectLastInSeq
    <3>2. i \in own
      BY <2>2
    <3>3. Max(own) \in own /\ \A j \in own : j <= Max(own)
      <4>1. own \in SUBSET (1 .. Len(l))
        OBVIOUS
      <4> HIDE DEF own
      <4> QED BY <1>0, <3>2, <4>1, LastPlace
    <3>4. k \in 1 .. Len(l) /\ i <= k
      BY <3>1, <3>2, <3>3
    <3>5. LastTurnEvent(l) = l[k]
      BY DEF LastTurnEvent
    <3> HIDE DEF k
    <3> SUFFICES ASSUME l[k].kind = "assistant_message", l[k].calls = <<>> PROVE FALSE
      BY <3>5 DEF LostTurnEnded
    <3>6. k \in Replies(l)
      BY <1>0, <3>4 DEF Replies, Events
    <3>7. k = i
      BY <2>1, <2>2, <3>4, <3>6
    <3>8. ToSet(<<>>) = {}
      BY DEF ToSet, Range
    <3> QED BY <2>1, <3>7, <3>8
  <2> QED BY <2>4, <2>8, <2>9
<1> QED BY <1>5, <1>6

-----------------------------------------------------------------------------
(* The steps of a turn.                                                    *)

LEMMA QuietEvents ==
  /\ \A p, m, s : UserMessage(p, m, s).kind \notin CallKinds
  /\ \A c : PermissionRequested(c).kind \notin CallKinds
  /\ \A b, c : DecisionProposed(b, c).kind \notin CallKinds
  /\ \A i, a : DecisionAnswered(i, a).kind \notin CallKinds
  /\ \A to : ProjectSwitched(to).kind \notin CallKinds
  /\ ProviderRetried.kind \notin CallKinds
  /\ \A j : JobFinished(j).kind \notin CallKinds
  /\ \A b : Interrupted(b).kind \notin CallKinds
BY DEF UserMessage, PermissionRequested, DecisionProposed, DecisionAnswered, ProjectSwitched,
   ProviderRetried, JobFinished, Interrupted, CallKinds

LEMMA QuietAppend ==
  ASSUME TypeInv, TypeInv', NEW e, log' = Append(log, e), e.kind \notin CallKinds
  PROVE  Quietly
<1>1. e \in Event
  BY AppendedEvent
<1> QED BY <1>1 DEF TypeInv, TypeOK, Grows, Quietly

LEMMA BatchStays ==
  ASSUME CallsInv, Quietly, batch' = batch, pc' = pc
  PROVE  CallsInv'
<1>1. pc \notin AtCall \union {"after_calls"} => batch = <<>>
  BY DEF CallsInv, BatchSound
<1> QED BY <1>1, BatchKept

(* Away from the calls there is no batch.                                  *)
LEMMA BatchNone ==
  ASSUME CallsInv, Quietly, pc \notin AtCall \union {"after_calls"},
         batch' \in {batch, <<>>}, pc' /= "tool", pc /= "resume" \/ pc' = "resume"
  PROVE  CallsInv'
<1>1. batch = <<>> /\ batch' = batch /\ pc \notin {"tool", "refused"}
  BY DEF CallsInv, BatchSound, AtCall
<1> QED BY <1>1, BatchKept

(* The steps of a turn, by group.                                          *)
LEMMA CallsLoop ==
  ASSUME TypeInv, TypeInv', CallsInv, Loop
  PROVE  CallsInv'
<1> USE DEF batchVars
<1>1. Quietly
  <2>1. log' = log \/ \E p, s : log' = Append(log, UserMessage(p, TRUE, s))
    BY DEF Loop, DrainAt, InterruptedAtTop, BudgetSpent, FlushHeld, Compact, CompactionFails,
       Request, AppendQueued, Write
  <2> QED BY <2>1, QuietAppend, QuietEvents DEF Quietly
<1>2. batch' = batch
  BY DEF Loop, DrainAt, InterruptedAtTop, BudgetSpent, FlushHeld, Compact, CompactionFails,
     Request
<1>3. pc' = pc \/ (pc \in {"loop", "compact"} /\ pc' \in {"interrupt", "end", "compact", "stream"})
  BY DEF Loop, DrainAt, InterruptedAtTop, BudgetSpent, FlushHeld, Compact, CompactionFails,
     Request, AtTop
<1>4. CASE pc' = pc
  BY <1>1, <1>2, <1>4, BatchStays
<1>5. CASE pc \in {"loop", "compact"} /\ pc' \in {"interrupt", "end", "compact", "stream"}
  BY <1>1, <1>2, <1>5, BatchNone DEF AtCall
<1> QED BY <1>3, <1>4, <1>5

LEMMA CallsStream ==
  ASSUME TypeInv, TypeInv', CallsInv, Stream
  PROVE  CallsInv'
<1> USE DEF batchVars
<1>1. pc = "stream"
  BY DEF Stream, StreamHolds, StreamInterrupted, StreamRetried, StreamFails, StreamReplies,
     StreamOver
<1>2. CASE StreamReplies
  <2>1. PICK calls \in Batches, short \in {FALSE, "length" \in Faults} :
          /\ Write(AssistantMessage(calls))
          /\ batch' = calls
          /\ pc' = IF calls = <<>> THEN "end" ELSE IF short THEN "length" ELSE "calls"
    BY <1>2 DEF StreamReplies
  <2>2. pc' \in {"end", "length", "calls"} /\ (calls = <<>> <=> pc' = "end")
    BY <2>1
  <2> QED BY <1>1, <2>1, <2>2, BatchReplied DEF TypeInv
<1>3. CASE StreamHolds \/ StreamInterrupted \/ StreamRetried \/ StreamFails
  <2>1. log' = log \/ log' = Append(log, ProviderRetried)
    BY <1>3 DEF StreamHolds, StreamInterrupted, StreamRetried, StreamFails, Write
  <2>2. Quietly
    BY <2>1, QuietAppend, QuietEvents DEF Quietly
  <2>3. batch' = batch /\ pc' \in {pc, "interrupt", "end"}
    BY <1>3 DEF StreamHolds, StreamInterrupted, StreamRetried, StreamFails
  <2> QED BY <1>1, <2>2, <2>3, BatchNone DEF AtCall
<1> QED BY <1>2, <1>3 DEF Stream

(* A result of the head, and of a call that never ran.                     *)
LEMMA CallsResult ==
  ASSUME TypeInv, TypeInv', CallsInv, batch /= <<>>, pc /= "resume",
         NEW origin \in Origins, Result(origin),
         origin \in {"ran", "killed"} => pc = "tool"
  PROVE  CallsInv'
<1>1. /\ pc' \in {"after_calls", "siblings", "calls"}
      /\ Write(ToolResult(Head(batch).id, origin)) /\ batch' = Tail(batch)
  BY DEF Result
<1>2. pc' \notin {"tool", "refused"} /\ pc' \in AtCall \union {"after_calls"}
  BY <1>1 DEF AtCall
<1> QED BY <1>1, <1>2, BatchPopped DEF TypeInv

LEMMA CallsNotRun ==
  ASSUME TypeInv, TypeInv', CallsInv, pc \in {"length", "siblings", "after_calls"},
         NEW next \in {"end", "after_calls", "interrupt"}, NotRun("not_run", next)
  PROVE  CallsInv'
<1>1. /\ pc' = IF Tail(batch) = <<>> THEN next ELSE pc
      /\ Write(ToolResult(Head(batch).id, "not_run")) /\ batch' = Tail(batch)
      /\ batch /= <<>>
  BY DEF NotRun
<1>2. /\ pc' \notin {"tool", "refused"} /\ pc /= "resume"
      /\ pc' \notin AtCall \union {"after_calls"} => Tail(batch) = <<>>
  BY <1>1 DEF AtCall
<1>3. "not_run" \in Origins
  BY DEF Origins
<1> QED BY <1>1, <1>2, <1>3, BatchPopped DEF TypeInv

LEMMA CallsCalls ==
  ASSUME TypeInv, TypeInv', CallsInv, Calls
  PROVE  CallsInv'
<1> USE DEF batchVars
<1>0. pc \in AtCall => batch /= <<>>
  BY DEF TypeInv, BatchAtHand
<1>1. CASE LengthStop
  BY <1>1, CallsNotRun DEF LengthStop
<1>2. CASE Siblings
  BY <1>2, CallsNotRun DEF Siblings
<1>3. CASE RunPlain
  <2>1. pc = "calls" /\ Head(batch).tool = "plain" /\ pc' = "tool" /\ batch' = batch /\ log' = log
    BY <1>3 DEF RunPlain, NextCall
  <2> QED BY <2>1, BatchKept DEF Quietly, AtCall
<1>4. CASE AskPermission \/ RequestGranted \/ AskHuman \/ Propose
  <2>1. \/ log' = log
        \/ log' = Append(log, PermissionRequested(Head(batch).id))
        \/ log' = Append(log, DecisionProposed("turn", Head(batch).id))
    BY <1>4 DEF AskPermission, RequestGranted, AskHuman, Propose, Write
  <2>2. Quietly
    BY <2>1, QuietAppend, QuietEvents DEF Quietly
  <2>3. pc = "calls" /\ pc' \in {"ask", "granted"} /\ batch' = batch
    BY <1>4 DEF AskPermission, RequestGranted, AskHuman, Propose, NextCall, Register
  <2> QED BY <2>2, <2>3, BatchKept DEF AtCall
<1>5. CASE Granted
  <2>1. /\ pc = "granted" /\ pc' = "tool" /\ batch' = batch
        /\ Write(PermissionDecided(Head(batch).id, TRUE, "grant"))
    BY <1>5 DEF Granted
  <2> QED BY <1>0, <2>1, BatchDecided DEF TypeInv, AtCall, Deciders
<1>6. CASE ToolDone \/ ToolKilled
  <2>1. PICK origin \in {"ran", "killed"} : pc = "tool" /\ Result(origin)
    BY <1>6 DEF ToolDone, ToolKilled
  <2> QED BY <1>0, <2>1, CallsResult DEF AtCall, Origins
<1> QED BY <1>1, <1>2, <1>3, <1>4, <1>5, <1>6 DEF Calls

LEMMA CallsWait ==
  ASSUME TypeInv, TypeInv', CallsInv, Wait
  PROVE  CallsInv'
<1> USE DEF batchVars
<1>0. pc \in AtCall => batch /= <<>>
  BY DEF TypeInv, BatchAtHand
<1>1. CASE HumanInterrupted \/ HumanAnswered \/ Said \/ Refused
  <2>1. PICK origin \in {"refused", "answer"} : pc \in {"ask", "said", "refused"} /\ Result(origin)
    BY <1>1 DEF HumanInterrupted, Interrupts, HumanAnswered, Answers, Said, Refused
  <2> QED BY <1>0, <2>1, CallsResult DEF AtCall, Origins
<1>2. CASE PermissionInterrupted \/ PermissionAllowed \/ PermissionDenied
  <2>1. PICK allow \in BOOLEAN, by \in Deciders, next \in {"tool", "refused"} :
          /\ pc = "ask" /\ Settle(PermissionDecided(Head(batch).id, allow, by), next)
          /\ next = "tool" => allow
    BY <1>2
    DEF PermissionInterrupted, Interrupts, PermissionAllowed, PermissionDenied, Answers, Deciders
  <2>2. /\ Write(PermissionDecided(Head(batch).id, allow, by))
        /\ pc' = next /\ batch' = batch
    BY <2>1 DEF Settle
  <2> QED BY <1>0, <2>1, <2>2, BatchDecided DEF TypeInv, AtCall
<1>3. CASE \/ ProposalInterrupted \/ Declined \/ SwitchAgreed \/ SwitchRecorded
           \/ SwitchFails \/ JobApproved
  <2>1. PICK next \in {"refused", "said", "switched"} :
          /\ pc \in {"ask", "switched"}
          /\ \/ \E a : Settle(DecisionAnswered(Proposal, a), next)
             \/ Settle(ProjectSwitched(Away), next)
    <3>1. CASE ProposalInterrupted \/ Declined \/ SwitchAgreed
      BY <3>1 DEF ProposalInterrupted, Interrupts, Declined, SwitchAgreed, Answers
    <3>2. CASE SwitchRecorded \/ SwitchFails \/ JobApproved
      BY <3>2 DEF SwitchRecorded, SwitchFails, JobApproved, Answers
    <3> QED BY <1>3, <3>1, <3>2
  <2>2. Quietly
    BY <2>1, QuietAppend, QuietEvents DEF Settle, Write
  <2>3. pc' = next /\ batch' = batch
    BY <2>1 DEF Settle
  <2> QED BY <2>1, <2>2, <2>3, BatchKept DEF AtCall
<1> QED BY <1>1, <1>2, <1>3 DEF Wait

LEMMA CallsEnding ==
  ASSUME TypeInv, TypeInv', CallsInv, Ending
  PROVE  CallsInv'
<1> USE DEF batchVars
<1>1. CASE Synthetic
  BY <1>1, CallsNotRun DEF Synthetic, AfterCalls
<1>2. CASE BatchOver
  <2>1. pc = "after_calls" /\ batch = <<>> /\ batch' = batch /\ log' = log
        /\ pc' \in {"interrupt", "end", "loop"}
    BY <1>2 DEF BatchOver, AfterCalls
  <2> QED BY <2>1, BatchKept DEF Quietly
<1>3. CASE FlushLast
  <2>1. log' = Append(log, UserMessage(Head(held), TRUE, FALSE)) /\ pc' = pc /\ batch' = batch
    BY <1>3 DEF FlushLast, AppendQueued, Write
  <2> QED BY <2>1, QuietAppend, QuietEvents, BatchStays
<1>4. CASE NoteInterrupt
  <2>1. /\ log' = Append(log, Interrupted("person")) /\ batch' = batch
        /\ pc = "interrupt" /\ pc' = "end"
    BY <1>4 DEF NoteInterrupt, Write
  <2>2. Quietly
    BY <2>1, QuietAppend, QuietEvents
  <2> QED BY <2>1, <2>2, BatchNone DEF AtCall
<1>5. CASE EndTurn
  <2>1. log' = Append(log, TurnEnded(reason)) /\ batch' = batch /\ pc = "end" /\ pc' = "after"
    BY <1>5 DEF EndTurn, Write
  <2>2. TurnEnded(reason).kind = "turn_ended" /\ TurnEnded(reason) \in Event
    BY EventTypes DEF TurnEnded, TypeInv, TypeOK
  <2>3. batch = <<>> /\ Hanging(log) = ToSet(batch)
    BY <2>1 DEF CallsInv, BatchSound, AtCall
  <2>4. Hanging(log) = {}
    BY <2>3 DEF ToSet, Range
  <2> QED BY <2>1, <2>2, <2>3, <2>4, BatchEnded DEF TypeInv, AtCall
<1> QED BY <1>1, <1>2, <1>3, <1>4, <1>5 DEF Ending

(* A resume answers what hangs, and then nothing does.                     *)
LEMMA CallsResumed ==
  ASSUME TypeInv, TypeInv', CallsInv, pc = "resume", Hanging(log) = {},
         Quietly, batch' = batch, pc' \in {"clean", "interrupted"}
  PROVE  CallsInv'
<1>1. /\ CallLog(log') /\ Hanging(log') = {}
  BY QuietCalls DEF CallsInv
<1>2. batch' = <<>>
  BY DEF CallsInv, BatchSound, AtCall
<1>3. ToSet(<<>>) = {} /\ DOMAIN <<>> = {}
  BY DEF ToSet, Range
<1>4. BatchSound'
  BY <1>1, <1>2, <1>3 DEF BatchSound
<1> QED BY <1>1, <1>4 DEF CallsInv

LEMMA CallsRepaired ==
  ASSUME TypeInv, TypeInv', CallsInv, pc = "resume", pc' = "resume", batch' = batch,
         NEW c \in Unanswered(log), log' = Append(log, ToolResult(c.id, "unknown"))
  PROVE  CallsInv'
<1>0. PICK l, ll, e : l = log /\ ll = log' /\ e = ToolResult(c.id, "unknown")
  OBVIOUS
<1>1. e.kind = "tool_result" /\ e.call = c.id /\ e.origin = "unknown"
  BY <1>0 DEF ToolResult
<1>2. Grows(l, ll, e)
  BY <1>0, AppendedEvent DEF Grows, TypeInv, TypeOK
<1>3. l \in Seq(Event) /\ CallLog(l) /\ c \in Unanswered(l)
  BY <1>0 DEF TypeInv, TypeOK, CallsInv
<1>4. c \in Hanging(l)
  BY <1>3, ResumeHangs
<1>5. Fits(l, e)
  BY <1>1, <1>4 DEF Fits
<1>6. CallLog(ll)
  BY <1>2, <1>3, <1>5, CallLogGrows
<1>7. batch' = <<>>
  BY DEF CallsInv, BatchSound, AtCall
<1>8. DOMAIN <<>> = {}
  OBVIOUS
<1>9. BatchSound'
  BY <1>7, <1>8 DEF BatchSound
<1> QED BY <1>0, <1>6, <1>9 DEF CallsInv

(* The steps of the actor and of its mail.                                 *)
LEMMA CallsActor ==
  ASSUME TypeInv, TypeInv', CallsInv, ActorStep
  PROVE  CallsInv'
<1> USE DEF batchVars
<1>0. log \in Seq(Event) /\ CallLog(log)
  BY DEF TypeInv, TypeOK, CallsInv
<1>1. CASE RunTurn
  BY <1>1, CallsLoop, CallsStream, CallsCalls, CallsWait, CallsEnding DEF RunTurn, TurnStep
<1>2. CASE \/ StartTurn \/ WriteNote \/ Continue \/ GoIdle \/ SideJobs \/ RecordIdle
           \/ SwitchByHand \/ SwitchByHandFails \/ RecordStartupAsk \/ Boot
  <2>1. pc \in {"start", "after", "side", "idle_switched", "by_hand", "startup_ask", "clean",
                "interrupted"}
    BY <1>2
    DEF StartTurn, WriteNote, Continue, GoIdle, SideJobs, RecordIdle, SwitchByHand,
        SwitchByHandFails, Move, RecordStartupAsk, Boot
  <2>2. batch' \in {batch, <<>>}
    BY <1>2
    DEF StartTurn, WriteNote, Continue, GoIdle, SideJobs, RecordIdle, SwitchByHand,
        SwitchByHandFails, Move, RecordStartupAsk, Boot, Begin
  <2>3. pc' \in {pc, "loop", "side", "idle"}
    BY <1>2
    DEF StartTurn, WriteNote, Continue, GoIdle, SideJobs, RecordIdle, SwitchByHand,
        SwitchByHandFails, Move, RecordStartupAsk, Boot, Begin
  <2>4. \/ log' = log
        \/ \E p : log' = Append(log, UserMessage(p, FALSE, FALSE))
        \/ \E j : log' = Append(log, JobFinished(j))
        \/ \E i, a : log' = Append(log, DecisionAnswered(i, a))
        \/ \E to : log' = Append(log, ProjectSwitched(to))
    BY <1>2
    DEF StartTurn, WriteNote, Continue, GoIdle, SideJobs, RecordIdle, SwitchByHand,
        SwitchByHandFails, RecordStartupAsk, Boot, Write
  <2>5. Quietly
    BY <2>4, QuietAppend, QuietEvents DEF Quietly
  <2> QED BY <2>1, <2>2, <2>3, <2>5, BatchNone DEF AtCall
<1>3. CASE WithdrawOpen
  <2>1. /\ \E i : log' = Append(log, DecisionAnswered(i, "withdrawn"))
        /\ batch' = batch /\ pc' = pc
    BY <1>3 DEF WithdrawOpen, Repair, Write
  <2> QED BY <2>1, QuietAppend, QuietEvents, BatchStays
<1>4. CASE RestoreTurnEnded
  <2>1. /\ log' = Append(log, TurnEnded("resumed")) /\ batch' = batch
        /\ pc = "resume" /\ pc' = "clean" /\ LostTurnEnded(log)
    BY <1>4 DEF RestoreTurnEnded, Repair, Write
  <2>2. Hanging(log) = {}
    BY <1>0, <2>1, ResumeHangs
  <2>3. TurnEnded("resumed").kind = "turn_ended" /\ TurnEnded("resumed") \in Event
    BY EventTypes DEF TurnEnded, Reasons
  <2>4. batch = <<>>
    BY <2>1 DEF CallsInv, BatchSound, AtCall
  <2> QED BY <2>1, <2>2, <2>3, <2>4, BatchEnded DEF TypeInv, AtCall
<1>5. CASE AnswerUnanswered
  <2>1. PICK c \in Unanswered(log) : Repair(ToolResult(c.id, "unknown"))
    BY <1>5 DEF AnswerUnanswered
  <2>2. pc = "resume" /\ pc' = "resume" /\ batch' = batch
        /\ log' = Append(log, ToolResult(c.id, "unknown"))
    BY <1>5, <2>1 DEF AnswerUnanswered, Repair, Write
  <2> QED BY <2>2, CallsRepaired
<1>6. CASE NoteCrash \/ NothingOpen \/ AlreadyNoted
  <2>1. ~TurnIsOpen(log) \/ Unanswered(log) = {}
    BY <1>6 DEF NoteCrash, NothingOpen, AlreadyNoted
  <2>2. Hanging(log) = {}
    BY <1>0, <2>1, ResumeHangs
  <2>3. /\ pc = "resume" /\ pc' \in {"clean", "interrupted"} /\ batch' = batch
        /\ log' = log \/ log' = Append(log, Interrupted("crash"))
    BY <1>6 DEF NoteCrash, NothingOpen, AlreadyNoted, Resumed, Repair, Write
  <2>4. Quietly
    BY <2>3, QuietAppend, QuietEvents DEF Quietly
  <2> QED BY <2>2, <2>3, <2>4, CallsResumed
<1> QED BY <1>1, <1>2, <1>3, <1>4, <1>5, <1>6 DEF ActorStep

LEMMA CallsMail ==
  ASSUME TypeInv, TypeInv', CallsInv, Mail
  PROVE  CallsInv'
<1> USE DEF batchVars
<1>1. CASE PostRunning \/ Interrupt \/ Decide \/ JobReturns
  <2>1. log' = log \/ \E j : log' = Append(log, JobFinished(j))
    BY <1>1 DEF PostRunning, Interrupt, Decide, JobReturns, Write
  <2>2. Quietly
    BY <2>1, QuietAppend, QuietEvents DEF Quietly
  <2>3. batch' = batch /\ pc' = pc
    BY <1>1 DEF PostRunning, Interrupt, Decide, JobReturns
  <2> QED BY <2>2, <2>3, BatchStays
<1>2. CASE \/ PostIdle \/ ProposeIdle \/ DeclineIdle \/ FailIdle \/ AgreeIdle
           \/ WithdrawByHand \/ StartupAsk
  <2>1. pc = "idle" /\ pc' \in {"idle", "start", "idle_switched", "by_hand", "startup_ask"}
    BY <1>2
    DEF PostIdle, Begin, ProposeIdle, DeclineIdle, FailIdle, AgreeIdle, AnswerIdle,
        WithdrawByHand, StartupAsk
  <2>2. batch' \in {batch, <<>>}
    BY <1>2
    DEF PostIdle, Begin, ProposeIdle, DeclineIdle, FailIdle, AgreeIdle, AnswerIdle,
        WithdrawByHand, StartupAsk
  <2>3. \/ log' = log
        \/ \E i, a : log' = Append(log, DecisionAnswered(i, a))
        \/ \E b, c : log' = Append(log, DecisionProposed(b, c))
        \/ \E to : log' = Append(log, ProjectSwitched(to))
    BY <1>2
    DEF PostIdle, ProposeIdle, DeclineIdle, FailIdle, AgreeIdle, AnswerIdle,
        WithdrawByHand, StartupAsk, Withdrawn, Write
  <2>4. Quietly
    BY <2>3, QuietAppend, QuietEvents DEF Quietly
  <2> QED BY <2>1, <2>2, <2>4, BatchNone DEF AtCall
<1> QED BY <1>1, <1>2 DEF Mail

(* The calls and the batch are sound in every state.                       *)
LEMMA CallsStep ==
  ASSUME TypeInv, TypeInv', CallsInv, [Next]_vars
  PROVE  CallsInv'
<1>1. CASE UNCHANGED vars
  <2>1. log' = log /\ pc' = pc /\ batch' = batch
    BY <1>1 DEF vars, turnVars, batchVars
  <2> QED BY <2>1, BatchStays DEF Quietly
<1>2. CASE Crash
  <2>1. log' = log /\ batch' = <<>> /\ pc' = "resume" /\ DOMAIN <<>> = {}
    BY <1>2 DEF Crash
  <2>2. BatchSound'
    BY <2>1 DEF BatchSound
  <2> QED BY <2>1, <2>2 DEF CallsInv
<1> QED BY <1>1, <1>2, CallsActor, CallsMail DEF Next

LEMMA CallsInit ==
  ASSUME Init
  PROVE  CallsInv
<1>1. log = <<>> /\ batch = <<>> /\ pc = "idle" /\ DOMAIN <<>> = {}
  BY DEF Init
<1>2. \A k : Events(log, k) = {}
  BY <1>1 DEF Events
<1>3. CallsOf(log) = {} /\ Results(log) = {} /\ Decided(log) = {} /\ Replies(log) = {}
  BY <1>2 DEF CallsOf, Results, Decided, Replies
<1>4. CallLog(log)
  BY <1>3 DEF CallLog, IdsMade, IdsApart, ConcernsKnown, ResultsOnce, DecidedOnce,
     AllowedFirst, ResultAfter, ClosedAnswered
<1>5. Hanging(log) = {} /\ ToSet(<<>>) = {}
  BY <1>3 DEF Hanging, ToSet, Range
<1>6. BatchSound
  BY <1>1, <1>5 DEF BatchSound
<1> QED BY <1>4, <1>6 DEF CallsInv

-----------------------------------------------------------------------------
(* Session grants.                                                         *)

(* A person's yes with no move behind it.                                  *)
Backed(l) ==
  \E k \in Decided(l) :
     /\ l[k].by = "person" /\ l[k].allow
     /\ \A s \in Events(l, "project_switched") : s < k

(* Every use of a grant has behind it a yes with no move since.            *)
GrantLog(l) ==
  \A j \in Decided(l) :
    l[j].by = "grant" =>
      \E k \in Decided(l) :
         /\ k < j /\ l[k].by = "person" /\ l[k].allow
         /\ \A s \in Events(l, "project_switched") : s < k \/ s > j

(* A grant that is held has one too.                                       *)
GrantInv == GrantLog(log) /\ (grant => Backed(log)) /\ (pc = "granted" => grant)

(* An append keeps this if what uses a grant has a yes behind it; only a   *)
(* move takes the yes away.                                                *)
LEMMA GrantGrows ==
  ASSUME NEW l, NEW ll, NEW e, Grows(l, ll, e), GrantLog(l),
         e.kind = "permission_decided" /\ e.by = "grant" => Backed(l)
  PROVE  /\ GrantLog(ll)
         /\ Backed(l) /\ e.kind /= "project_switched" => Backed(ll)
         /\ e.kind = "permission_decided" /\ e.by = "person" /\ e.allow => Backed(ll)
<1>1. /\ Len(l) \in Nat /\ ll[Len(l) + 1] = e
      /\ \A i \in Decided(l) : ll[i] = l[i] /\ i \in 1 .. Len(l)
      /\ \A k : e.kind /= k => Events(ll, k) = Events(l, k)
      /\ Events(ll, e.kind) = Events(l, e.kind) \union {Len(l) + 1}
  BY GrownFacts
<1>2. \A s \in Events(l, "project_switched") : s \in 1 .. Len(l)
  BY Grown
<1>3. Decided(l) \subseteq Decided(ll)
      /\ (e.kind /= "permission_decided" => Decided(ll) = Decided(l))
      /\ (e.kind = "permission_decided" => Decided(ll) = Decided(l) \union {Len(l) + 1})
  BY <1>1 DEF Decided
<1>4. \A s \in Events(ll, "project_switched") :
        s \in Events(l, "project_switched") \/ s = Len(l) + 1
  BY <1>1
<1>5. ASSUME NEW j \in Decided(l), l[j].by = "grant"
      PROVE  \E k \in Decided(ll) :
               /\ k < j /\ ll[k].by = "person" /\ ll[k].allow
               /\ \A s \in Events(ll, "project_switched") : s < k \/ s > j
  <2>1. PICK k \in Decided(l) :
          /\ k < j /\ l[k].by = "person" /\ l[k].allow
          /\ \A s \in Events(l, "project_switched") : s < k \/ s > j
    BY <1>5 DEF GrantLog
  <2>2. ll[k] = l[k] /\ k \in Decided(ll)
    BY <1>1, <1>3
  <2>3. Len(l) + 1 > j
    BY <1>1
  <2>4. \A s \in Events(ll, "project_switched") : s < k \/ s > j
    BY <1>4, <2>1, <2>3
  <2> QED BY <2>1, <2>2, <2>4
<1>6. ASSUME e.kind = "permission_decided", e.by = "grant"
      PROVE  \E k \in Decided(ll) :
               /\ k < Len(l) + 1 /\ ll[k].by = "person" /\ ll[k].allow
               /\ \A s \in Events(ll, "project_switched") : s < k \/ s > Len(l) + 1
  <2>1. PICK k \in Decided(l) :
          /\ l[k].by = "person" /\ l[k].allow
          /\ \A s \in Events(l, "project_switched") : s < k
    BY <1>6 DEF Backed
  <2>2. ll[k] = l[k] /\ k \in Decided(ll) /\ k < Len(l) + 1
    BY <1>1, <1>3
  <2>3. Events(ll, "project_switched") = Events(l, "project_switched")
    BY <1>1, <1>6
  <2> QED BY <2>1, <2>2, <2>3
<1>7. GrantLog(ll)
  <2> SUFFICES ASSUME NEW j \in Decided(ll), ll[j].by = "grant"
               PROVE  \E k \in Decided(ll) :
                        /\ k < j /\ ll[k].by = "person" /\ ll[k].allow
                        /\ \A s \in Events(ll, "project_switched") : s < k \/ s > j
    BY DEF GrantLog
  <2>1. CASE j \in Decided(l)
    BY <1>1, <1>5, <2>1
  <2>2. CASE e.kind = "permission_decided" /\ j = Len(l) + 1
    BY <1>1, <1>6, <2>2
  <2> QED BY <1>3, <2>1, <2>2
<1>8. ASSUME Backed(l), e.kind /= "project_switched"
      PROVE  Backed(ll)
  BY <1>1, <1>3, <1>8 DEF Backed
<1>9. ASSUME e.kind = "permission_decided", e.by = "person", e.allow
      PROVE  Backed(ll)
  <2>1. Len(l) + 1 \in Decided(ll) /\ ll[Len(l) + 1] = e
    BY <1>1, <1>3, <1>9
  <2>2. \A s \in Events(ll, "project_switched") : s < Len(l) + 1
    BY <1>1, <1>2, <1>9
  <2> QED BY <1>9, <2>1, <2>2 DEF Backed
<1> QED BY <1>7, <1>8, <1>9

(* How a step treats the grant: it gives one only for a person's yes, uses *)
(* one only where there is one, and takes it away with a move.             *)
GrantMove ==
  \/ log' = log /\ (grant' => grant)
  \/ \E e : /\ log' = Append(log, e) /\ (grant' => grant)
            /\ e.kind \notin {"permission_decided", "project_switched"}
  \/ \E id, allow, by :
       /\ log' = Append(log, PermissionDecided(id, allow, by))
       /\ by = "grant" => pc = "granted"
       /\ grant' => grant \/ (by = "person" /\ allow)
  \/ \E to : log' = Append(log, ProjectSwitched(to)) /\ ~grant'

(* Every step that treats the grant so keeps it sound.                     *)
LEMMA GrantMoved ==
  ASSUME TypeInv, TypeInv', GrantInv, GrantMove, pc' = "granted" => grant'
  PROVE  GrantInv'
<1>0. PICK l, ll : l = log /\ ll = log'
  OBVIOUS
<1>1. GrantLog(l) /\ (grant => Backed(l)) /\ (pc = "granted" => grant)
  BY <1>0 DEF GrantInv
<1>2. ASSUME NEW e, log' = Append(log, e)
      PROVE  Grows(l, ll, e)
  BY <1>0, <1>2, AppendedEvent DEF Grows, TypeInv, TypeOK
<1>3. GrantLog(ll) /\ (grant' => Backed(ll))
  <2>1. CASE log' = log /\ (grant' => grant)
    BY <1>0, <1>1, <2>1
  <2>2. ASSUME NEW e, log' = Append(log, e), grant' => grant,
               e.kind \notin {"permission_decided", "project_switched"}
        PROVE  GrantLog(ll) /\ (grant' => Backed(ll))
    BY <1>1, <1>2, <2>2, GrantGrows
  <2>3. ASSUME NEW id, NEW allow, NEW by, log' = Append(log, PermissionDecided(id, allow, by)),
               by = "grant" => pc = "granted", grant' => grant \/ (by = "person" /\ allow)
        PROVE  GrantLog(ll) /\ (grant' => Backed(ll))
    <3>1. PICK e : e = PermissionDecided(id, allow, by)
      OBVIOUS
    <3>2. e.kind = "permission_decided" /\ e.by = by /\ e.allow = allow
      BY <3>1 DEF PermissionDecided
    <3>3. Grows(l, ll, e)
      BY <1>2, <2>3, <3>1
    <3>4. e.by = "grant" => Backed(l)
      BY <1>1, <2>3, <3>2
    <3>5. /\ GrantLog(ll)
          /\ Backed(l) => Backed(ll)
          /\ e.by = "person" /\ e.allow => Backed(ll)
      BY <1>1, <3>2, <3>3, <3>4, GrantGrows
    <3> QED BY <1>1, <2>3, <3>2, <3>5
  <2>4. ASSUME NEW to, log' = Append(log, ProjectSwitched(to)), ~grant'
        PROVE  GrantLog(ll) /\ (grant' => Backed(ll))
    <3>1. PICK e : e = ProjectSwitched(to)
      OBVIOUS
    <3>2. e.kind = "project_switched"
      BY <3>1 DEF ProjectSwitched
    <3>3. Grows(l, ll, e)
      BY <1>2, <2>4, <3>1
    <3> QED BY <1>1, <2>4, <3>2, <3>3, GrantGrows
  <2> QED BY <2>1, <2>2, <2>3, <2>4 DEF GrantMove
<1> QED BY <1>0, <1>3 DEF GrantInv

(* What else is appended has nothing to do with a grant.                   *)
GrantFree(e) == e.kind \notin {"permission_decided", "project_switched"}

LEMMA GrantFreeEvents ==
  /\ \A p, m, s : GrantFree(UserMessage(p, m, s))
  /\ \A calls : GrantFree(AssistantMessage(calls))
  /\ \A c, o : GrantFree(ToolResult(c, o))
  /\ \A c : GrantFree(PermissionRequested(c))
  /\ \A b, c : GrantFree(DecisionProposed(b, c))
  /\ \A i, a : GrantFree(DecisionAnswered(i, a))
  /\ GrantFree(ProviderRetried)
  /\ \A j : GrantFree(JobFinished(j))
  /\ \A b : GrantFree(Interrupted(b))
  /\ \A r : GrantFree(TurnEnded(r))
BY DEF UserMessage, AssistantMessage, ToolResult, PermissionRequested, DecisionProposed,
   DecisionAnswered, ProviderRetried, JobFinished, Interrupted, TurnEnded, GrantFree

(* Every step of a turn does, and every step of the actor.                 *)
LEMMA GrantTurn ==
  ASSUME TypeInv, TypeInv', GrantInv, TurnStep
  PROVE  GrantInv'
<1> USE DEF askVars
<1>1. \A e : log' = Append(log, e) /\ GrantFree(e) /\ (grant' => grant) => GrantMove
  BY DEF GrantMove, GrantFree
<1>2. log' = log /\ (grant' => grant) => GrantMove
  BY DEF GrantMove
<1>3. CASE Loop
  <2>1. /\ log' = log \/ \E p, s : log' = Append(log, UserMessage(p, TRUE, s))
        /\ grant' = grant /\ pc' /= "granted"
    BY <1>3 DEF Loop, DrainAt, InterruptedAtTop, BudgetSpent, FlushHeld, Compact,
       CompactionFails, Request, AppendQueued, AtTop, Write
  <2> QED BY <1>1, <1>2, <2>1, GrantFreeEvents, GrantMoved
<1>4. CASE Stream
  <2>1. /\ \/ log' = log \/ log' = Append(log, ProviderRetried)
           \/ \E calls : log' = Append(log, AssistantMessage(calls))
        /\ grant' = grant /\ pc' /= "granted"
    BY <1>4 DEF Stream, StreamHolds, StreamInterrupted, StreamRetried, StreamFails,
       StreamReplies, StreamOver, Write
  <2> QED BY <1>1, <1>2, <2>1, GrantFreeEvents, GrantMoved
<1>5. CASE Calls
  <2>1. CASE LengthStop \/ Siblings \/ ToolDone \/ ToolKilled
    <3>1. /\ \E id, o : log' = Append(log, ToolResult(id, o))
          /\ grant' = grant /\ pc' /= "granted"
      BY <2>1 DEF LengthStop, Siblings, NotRun, ToolDone, ToolKilled, Result, Write
    <3> QED BY <1>1, <3>1, GrantFreeEvents, GrantMoved
  <2>2. CASE RunPlain \/ AskPermission \/ AskHuman \/ Propose
    <3>1. /\ \/ log' = log \/ \E id : log' = Append(log, PermissionRequested(id))
             \/ \E b, c : log' = Append(log, DecisionProposed(b, c))
          /\ grant' = grant /\ pc' /= "granted"
      BY <2>2 DEF RunPlain, AskPermission, AskHuman, Propose, Register
    <3> QED BY <1>1, <1>2, <3>1, GrantFreeEvents, GrantMoved
  <2>3. CASE RequestGranted
    <3>1. log' = Append(log, PermissionRequested(Head(batch).id)) /\ grant' = grant /\ grant
      BY <2>3 DEF RequestGranted, Write
    <3> QED BY <1>1, <3>1, GrantFreeEvents, GrantMoved
  <2>4. CASE Granted
    <3>1. /\ log' = Append(log, PermissionDecided(Head(batch).id, TRUE, "grant"))
          /\ grant' = grant /\ pc = "granted" /\ pc' = "tool"
      BY <2>4 DEF Granted, Write
    <3>2. GrantMove
      BY <3>1 DEF GrantMove
    <3> QED BY <3>1, <3>2, GrantMoved
  <2> QED BY <1>5, <2>1, <2>2, <2>3, <2>4 DEF Calls
<1>6. CASE Wait
  <2>1. CASE HumanInterrupted \/ HumanAnswered \/ Said \/ Refused
    <3>1. /\ \E id, o : log' = Append(log, ToolResult(id, o))
          /\ grant' = grant /\ pc' /= "granted"
      BY <2>1 DEF HumanInterrupted, HumanAnswered, Said, Refused, Result, Write
    <3> QED BY <1>1, <3>1, GrantFreeEvents, GrantMoved
  <2>2. CASE PermissionInterrupted \/ PermissionAllowed \/ PermissionDenied
    <3>1. \E id, allow, by :
            /\ log' = Append(log, PermissionDecided(id, allow, by)) /\ by /= "grant"
            /\ grant' => grant \/ (by = "person" /\ allow)
      <4>1. CASE PermissionAllowed
        <5>1. /\ log' = Append(log, PermissionDecided(Head(batch).id, TRUE, "person"))
              /\ grant' \in BOOLEAN
          BY <4>1 DEF PermissionAllowed, Settle, Write
        <5> QED BY <5>1
      <4>2. CASE PermissionDenied
        <5>1. /\ log' = Append(log, PermissionDecided(Head(batch).id, FALSE, "person"))
              /\ grant' = grant
          BY <4>2 DEF PermissionDenied, Settle, Write
        <5> QED BY <5>1
      <4>3. CASE PermissionInterrupted
        <5>1. /\ log' = Append(log, PermissionDecided(Head(batch).id, FALSE, "interrupter"))
              /\ grant' = grant
          BY <4>3 DEF PermissionInterrupted, Settle, Write
        <5> QED BY <5>1
      <4> QED BY <2>2, <4>1, <4>2, <4>3
    <3>2. GrantMove /\ pc' /= "granted"
      BY <2>2, <3>1 DEF GrantMove, PermissionInterrupted, PermissionAllowed, PermissionDenied,
         Settle
    <3> QED BY <3>2, GrantMoved
  <2>3. CASE ProposalInterrupted \/ Declined \/ SwitchRecorded \/ SwitchFails \/ JobApproved
    <3>1. /\ \E i, a : log' = Append(log, DecisionAnswered(i, a))
          /\ grant' => grant
          /\ pc' /= "granted"
      BY <2>3 DEF ProposalInterrupted, Declined, SwitchRecorded, SwitchFails, JobApproved,
         Settle, Write
    <3> QED BY <1>1, <3>1, GrantFreeEvents, GrantMoved
  <2>4. CASE SwitchAgreed
    <3>1. log' = Append(log, ProjectSwitched(Away)) /\ ~grant' /\ pc' = "switched"
      BY <2>4 DEF SwitchAgreed, Settle, Write
    <3>2. GrantMove
      BY <3>1 DEF GrantMove
    <3> QED BY <3>1, <3>2, GrantMoved
  <2> QED BY <1>6, <2>1, <2>2, <2>3, <2>4 DEF Wait
<1>7. CASE Ending
  <2>1. /\ \/ log' = log
           \/ \E id, o : log' = Append(log, ToolResult(id, o))
           \/ \E p, s : log' = Append(log, UserMessage(p, TRUE, s))
           \/ \E b : log' = Append(log, Interrupted(b))
           \/ \E r : log' = Append(log, TurnEnded(r))
        /\ grant' = grant /\ pc' /= "granted"
    BY <1>7 DEF Ending, Synthetic, NotRun, BatchOver, AfterCalls, FlushLast, NoteInterrupt,
       EndTurn, AppendQueued, Write
  <2> QED BY <1>1, <1>2, <2>1, GrantFreeEvents, GrantMoved
<1> QED BY <1>3, <1>4, <1>5, <1>6, <1>7 DEF TurnStep

LEMMA GrantStep ==
  ASSUME TypeInv, TypeInv', GrantInv, [Next]_vars
  PROVE  GrantInv'
<1> USE DEF askVars
<1>1. \A e : log' = Append(log, e) /\ GrantFree(e) /\ (grant' => grant) => GrantMove
  BY DEF GrantMove, GrantFree
<1>2. log' = log /\ (grant' => grant) => GrantMove
  BY DEF GrantMove
<1>3. CASE UNCHANGED vars
  BY <1>3 DEF vars, turnVars, GrantInv
<1>4. CASE RunTurn
  BY <1>4, GrantTurn DEF RunTurn
<1>5. CASE SwitchByHand \/ AgreeIdle
  <2>1. (\E to : log' = Append(log, ProjectSwitched(to))) /\ ~grant' /\ pc' /= "granted"
    BY <1>5 DEF SwitchByHand, Move, AgreeIdle, AnswerIdle, Write
  <2> QED BY <2>1, GrantMoved DEF GrantMove
<1>6. CASE \/ StartTurn \/ WriteNote \/ Continue \/ GoIdle \/ SideJobs \/ RecordIdle
           \/ SwitchByHandFails \/ RecordStartupAsk \/ Boot
  <2>1. \/ log' = log
        \/ \E p : log' = Append(log, UserMessage(p, FALSE, FALSE))
        \/ \E j : log' = Append(log, JobFinished(j))
        \/ \E i, a : log' = Append(log, DecisionAnswered(i, a))
    BY <1>6
    DEF StartTurn, WriteNote, Continue, GoIdle, SideJobs, RecordIdle, SwitchByHandFails,
        RecordStartupAsk, Boot, Write
  <2>2. (grant' => grant) /\ pc' /= "granted"
    <3>1. CASE SwitchByHandFails
      BY <3>1 DEF SwitchByHandFails, Move
    <3>2. CASE Boot
      BY <3>2 DEF Boot, Begin
    <3>3. CASE Continue
      BY <3>3 DEF Continue, Begin
    <3>4. CASE StartTurn
      BY <3>4 DEF StartTurn
    <3>5. CASE WriteNote
      BY <3>5 DEF WriteNote
    <3>6. CASE GoIdle \/ SideJobs
      BY <3>6 DEF GoIdle, SideJobs
    <3>7. CASE RecordIdle \/ RecordStartupAsk
      BY <3>7 DEF RecordIdle, RecordStartupAsk
    <3> QED BY <1>6, <3>1, <3>2, <3>3, <3>4, <3>5, <3>6, <3>7
  <2> QED BY <1>1, <1>2, <2>1, <2>2, GrantFreeEvents, GrantMoved
<1>7. CASE \/ WithdrawOpen \/ RestoreTurnEnded \/ AnswerUnanswered \/ NoteCrash
           \/ NothingOpen \/ AlreadyNoted
  <2>1. /\ \/ log' = log
           \/ \E i, a : log' = Append(log, DecisionAnswered(i, a))
           \/ \E r : log' = Append(log, TurnEnded(r))
           \/ \E id, o : log' = Append(log, ToolResult(id, o))
           \/ \E b : log' = Append(log, Interrupted(b))
        /\ grant' = grant /\ pc' /= "granted"
    BY <1>7
    DEF WithdrawOpen, RestoreTurnEnded, AnswerUnanswered, NoteCrash, Repair, NothingOpen,
        AlreadyNoted, Resumed, Write
  <2> QED BY <1>1, <1>2, <2>1, GrantFreeEvents, GrantMoved
<1>8. CASE \/ PostIdle \/ ProposeIdle \/ DeclineIdle \/ FailIdle \/ WithdrawByHand
           \/ StartupAsk
  <2>1. \/ log' = log
        \/ \E i, a : log' = Append(log, DecisionAnswered(i, a))
        \/ \E b, c : log' = Append(log, DecisionProposed(b, c))
    BY <1>8
    DEF PostIdle, ProposeIdle, DeclineIdle, FailIdle, AnswerIdle, WithdrawByHand, StartupAsk,
        Withdrawn, Write
  <2>2. (grant' => grant) /\ pc' /= "granted"
    BY <1>8
    DEF PostIdle, Begin, ProposeIdle, DeclineIdle, FailIdle, AnswerIdle, WithdrawByHand,
        StartupAsk
  <2> QED BY <1>1, <1>2, <2>1, <2>2, GrantFreeEvents, GrantMoved
<1>9. CASE PostRunning \/ Interrupt \/ Decide \/ JobReturns
  <2>1. /\ log' = log \/ \E j : log' = Append(log, JobFinished(j))
        /\ grant' = grant /\ pc' = pc
    BY <1>9 DEF PostRunning, Interrupt, Decide, JobReturns, Write
  <2> QED BY <1>1, <1>2, <2>1, GrantFreeEvents, GrantMoved DEF GrantInv
<1>10. CASE Crash
  <2>1. log' = log /\ ~grant' /\ pc' = "resume"
    BY <1>10 DEF Crash
  <2> QED BY <1>2, <2>1, GrantMoved
<1> QED BY <1>3, <1>4, <1>5, <1>6, <1>7, <1>8, <1>9, <1>10 DEF Next, ActorStep, Mail

LEMMA GrantInit ==
  ASSUME Init
  PROVE  GrantInv
<1>1. Decided(log) = {}
  BY DEF Init, Decided, Events
<1> QED BY <1>1 DEF Init, GrantInv, GrantLog

-----------------------------------------------------------------------------
(* Proposals and their answers.                                            *)

Proposed(l) == Events(l, "decision_proposed")
Answered(l) == Events(l, "decision_answered")
Unsettled(l) == {i \in Proposed(l) : AnswersTo(l, i) = {}}
LastProposed(l) == SelectLastInSeq(l, LAMBDA e : e.kind = "decision_proposed")

(* An answer stands behind its proposal, alone, and no turn ends with a    *)
(* proposal of its own or of before unanswered.                            *)
AnswerFollows(l) ==
  \A j \in Answered(l) : l[j].proposal \in Proposed(l) /\ l[j].proposal < j
AnsweredOnce(l) ==
  \A j, k \in Answered(l) : l[j].proposal = l[k].proposal => j = k
EndsSettled(l) ==
  \A i \in Proposed(l), j \in Events(l, "turn_ended") : i < j => AnswersTo(l, i) /= {}

AnswerLog(l) == AnswerFollows(l) /\ AnsweredOnce(l) /\ EndsSettled(l)

(* The kinds of event that concern the proposals.                          *)
AnswerKinds == {"decision_proposed", "decision_answered", "turn_ended"}

(* What an append leaves and adds.                                         *)
LEMMA GrownAnswers ==
  ASSUME NEW l, NEW ll, NEW e, Grows(l, ll, e)
  PROVE  /\ Len(l) \in Nat /\ Len(ll) = Len(l) + 1 /\ ll[Len(l) + 1] = e
         /\ Proposed(l) \subseteq 1 .. Len(l)
         /\ \A j \in Answered(l) : ll[j] = l[j] /\ j \in 1 .. Len(l)
         /\ \A j \in Events(l, "turn_ended") : j \in 1 .. Len(l)
         /\ \A k : e.kind /= k => Events(ll, k) = Events(l, k)
         /\ Events(ll, e.kind) = Events(l, e.kind) \union {Len(l) + 1}
         /\ e.kind /= "decision_answered" => \A i : AnswersTo(ll, i) = AnswersTo(l, i)
         /\ \A i : e.proposal /= i => AnswersTo(ll, i) = AnswersTo(l, i)
         /\ e.kind = "decision_answered" => AnswersTo(ll, e.proposal) /= {}
         /\ \A i : AnswersTo(l, i) \subseteq AnswersTo(ll, i)
<1>1. /\ Len(l) \in Nat /\ Len(ll) = Len(l) + 1
      /\ ll[Len(l) + 1] = e /\ \A i \in 1 .. Len(l) : ll[i] = l[i]
      /\ \A k : Events(l, k) \subseteq 1 .. Len(l)
      /\ \A k : Events(ll, k) = Events(l, k) \union (IF e.kind = k THEN {Len(l) + 1} ELSE {})
  BY Grown
<1>2. \A i : AnswersTo(ll, i) =
        AnswersTo(l, i) \union
          (IF e.kind = "decision_answered" /\ e.proposal = i THEN {Len(l) + 1} ELSE {})
  BY GrownCalls
<1>3. /\ e.kind /= "decision_answered" => \A i : AnswersTo(ll, i) = AnswersTo(l, i)
      /\ \A i : e.proposal /= i => AnswersTo(ll, i) = AnswersTo(l, i)
      /\ e.kind = "decision_answered" => AnswersTo(ll, e.proposal) /= {}
      /\ \A i : AnswersTo(l, i) \subseteq AnswersTo(ll, i)
  BY <1>2
<1>4. /\ \A k : e.kind /= k => Events(ll, k) = Events(l, k)
      /\ Events(ll, e.kind) = Events(l, e.kind) \union {Len(l) + 1}
  BY <1>1
<1>5. /\ Proposed(l) \subseteq 1 .. Len(l)
      /\ \A j \in Answered(l) : ll[j] = l[j] /\ j \in 1 .. Len(l)
      /\ \A j \in Events(l, "turn_ended") : j \in 1 .. Len(l)
  BY <1>1 DEF Proposed, Answered
<1> QED BY <1>1, <1>3, <1>4, <1>5

(* The last proposal is that of the set of them.                           *)
LEMMA LastProposedIs ==
  ASSUME NEW l, l \in Seq(Event)
  PROVE  LastProposed(l) = IF Proposed(l) /= {} THEN Max(Proposed(l)) ELSE 0
<1> DEFINE places == {i \in 1 .. Len(l) : l[i].kind = "decision_proposed"}
<1>1. LastProposed(l) = IF places /= {} THEN Max(places) ELSE 0
  BY DEF LastProposed, SelectLastInSeq
<1>2. DOMAIN l = 1 .. Len(l)
  OBVIOUS
<1>3. places = Proposed(l)
  BY <1>2 DEF Proposed, Events
<1> QED BY <1>1, <1>3

(* What each kind of append does to the proposals that wait.               *)
LEMMA AnswersQuiet ==
  ASSUME NEW l, NEW ll, NEW e, Grows(l, ll, e), AnswerLog(l), e.kind \notin AnswerKinds
  PROVE  AnswerLog(ll) /\ Unsettled(ll) = Unsettled(l) /\ LastProposed(ll) = LastProposed(l)
<1>1. /\ Proposed(ll) = Proposed(l) /\ Answered(ll) = Answered(l)
      /\ Events(ll, "turn_ended") = Events(l, "turn_ended")
      /\ \A i : AnswersTo(ll, i) = AnswersTo(l, i)
      /\ \A j \in Answered(l) : ll[j] = l[j]
  BY GrownAnswers DEF AnswerKinds, Proposed, Answered
<1>2. l \in Seq(Event) /\ ll \in Seq(Event)
  BY Grown DEF Grows
<1>3. LastProposed(ll) = LastProposed(l)
  BY <1>1, <1>2, LastProposedIs
<1>4. AnswerLog(ll)
  BY <1>1 DEF AnswerLog, AnswerFollows, AnsweredOnce, EndsSettled
<1> QED BY <1>1, <1>3, <1>4 DEF Unsettled

LEMMA AnswersEnded ==
  ASSUME NEW l, NEW ll, NEW e, Grows(l, ll, e), AnswerLog(l), e.kind = "turn_ended",
         Unsettled(l) = {}
  PROVE  AnswerLog(ll) /\ Unsettled(ll) = {}
<1>1. /\ Proposed(ll) = Proposed(l) /\ Answered(ll) = Answered(l)
      /\ \A i : AnswersTo(ll, i) = AnswersTo(l, i)
      /\ \A j \in Answered(l) : ll[j] = l[j]
  BY GrownAnswers DEF Proposed, Answered
<1>2. EndsSettled(ll)
  BY <1>1 DEF Unsettled, EndsSettled
<1>3. AnswerLog(ll)
  BY <1>1, <1>2 DEF AnswerLog, AnswerFollows, AnsweredOnce
<1> QED BY <1>1, <1>3 DEF Unsettled

LEMMA AnswersProposed ==
  ASSUME NEW l, NEW ll, NEW e, Grows(l, ll, e), AnswerLog(l), e.kind = "decision_proposed"
  PROVE  /\ AnswerLog(ll) /\ Unsettled(ll) = Unsettled(l) \union {Len(l) + 1}
         /\ LastProposed(ll) = Len(l) + 1
<1>1. /\ Len(l) \in Nat /\ Len(ll) = Len(l) + 1
      /\ Proposed(ll) = Proposed(l) \union {Len(l) + 1} /\ Answered(ll) = Answered(l)
      /\ Events(ll, "turn_ended") = Events(l, "turn_ended")
      /\ \A i : AnswersTo(ll, i) = AnswersTo(l, i)
      /\ \A j \in Answered(l) : ll[j] = l[j] /\ j \in 1 .. Len(l)
      /\ \A j \in Events(l, "turn_ended") : j \in 1 .. Len(l)
      /\ Proposed(l) \subseteq 1 .. Len(l)
  BY GrownAnswers DEF Proposed, Answered
<1>2. EndsSettled(ll)
  BY <1>1 DEF AnswerLog, EndsSettled
<1>3. AnswerLog(ll)
  BY <1>1, <1>2 DEF AnswerLog, AnswerFollows, AnsweredOnce
<1>4. AnswersTo(l, Len(l) + 1) = {}
  <2>1. \A j \in AnswersTo(l, Len(l) + 1) : j \in Answered(l) /\ l[j].proposal = Len(l) + 1
    BY DEF AnswersTo, Answered
  <2>2. \A j \in Answered(l) : l[j].proposal < j
    BY DEF AnswerLog, AnswerFollows
  <2> QED BY <1>1, <2>1, <2>2
<1>5. Unsettled(ll) = Unsettled(l) \union {Len(l) + 1}
  BY <1>1, <1>4 DEF Unsettled
<1>6. LastProposed(ll) = Len(l) + 1
  <2>1. Proposed(ll) \in SUBSET (1 .. Len(l) + 1) /\ Len(l) + 1 \in Nat
    BY <1>1
  <2>2. Max(Proposed(ll)) \in Proposed(ll) /\ \A i \in Proposed(ll) : i <= Max(Proposed(ll))
    BY <1>1, <2>1, LastPlace
  <2>3. Len(l) + 1 <= Max(Proposed(ll)) /\ Max(Proposed(ll)) \in 1 .. Len(l) + 1
    BY <1>1, <2>1, <2>2
  <2>4. Max(Proposed(ll)) = Len(l) + 1
    <3> DEFINE m == Max(Proposed(ll))
    <3>1. Len(l) + 1 <= m /\ m \in 1 .. Len(l) + 1
      BY <2>3
    <3> HIDE DEF m
    <3>2. m = Len(l) + 1
      BY <1>1, <3>1
    <3> QED BY <3>2 DEF m
  <2>5. ll \in Seq(Event)
    BY Grown
  <2> QED BY <1>1, <2>4, <2>5, LastProposedIs
<1> QED BY <1>3, <1>5, <1>6

LEMMA AnswersAnswered ==
  ASSUME NEW l, NEW ll, NEW e, Grows(l, ll, e), AnswerLog(l), e.kind = "decision_answered",
         e.proposal \in Unsettled(l)
  PROVE  AnswerLog(ll) /\ Unsettled(ll) = Unsettled(l) \ {e.proposal}
<1>1. /\ Len(l) \in Nat /\ ll[Len(l) + 1] = e
      /\ Proposed(ll) = Proposed(l) /\ Answered(ll) = Answered(l) \union {Len(l) + 1}
      /\ Events(ll, "turn_ended") = Events(l, "turn_ended")
      /\ \A j \in Answered(l) : ll[j] = l[j] /\ j \in 1 .. Len(l)
      /\ Proposed(l) \subseteq 1 .. Len(l)
      /\ \A i : e.proposal /= i => AnswersTo(ll, i) = AnswersTo(l, i)
      /\ AnswersTo(ll, e.proposal) /= {}
      /\ \A i : AnswersTo(l, i) \subseteq AnswersTo(ll, i)
  BY GrownAnswers DEF Proposed, Answered
<1>2. e.proposal \in Proposed(l) /\ AnswersTo(l, e.proposal) = {}
  BY DEF Unsettled
<1>3. \A j \in Answered(l) : l[j].proposal /= e.proposal
  BY <1>2 DEF AnswersTo, Answered
<1>4. EndsSettled(ll)
  BY <1>1 DEF AnswerLog, EndsSettled
<1>5. AnswerFollows(ll)
  BY <1>1, <1>2 DEF AnswerLog, AnswerFollows
<1>6. AnsweredOnce(ll)
  BY <1>1, <1>3 DEF AnswerLog, AnsweredOnce
<1>7. Unsettled(ll) = Unsettled(l) \ {e.proposal}
  BY <1>1 DEF Unsettled
<1> QED BY <1>4, <1>5, <1>6, <1>7 DEF AnswerLog

(* What a resume finds open is what nobody answered.                       *)
LEMMA OpenUnsettled ==
  ASSUME NEW l, l \in Seq(Event), AnswerLog(l)
  PROVE  OpenProposals(l) = Unsettled(l)
<1>1. /\ LastEnd(l) \in 0 .. Len(l) /\ Len(l) \in Nat
      /\ LastEnd(l) /= 0 => l[LastEnd(l)].kind = "turn_ended"
  BY LastEndIsLast
<1>2. DOMAIN l = 1 .. Len(l)
  OBVIOUS
<1>3. ASSUME NEW i \in OpenProposals(l)
      PROVE  i \in Unsettled(l)
  <2>1. /\ i \in LastEnd(l) + 1 .. Len(l) /\ i \in Proposed(l)
        /\ AnswersTo(l, i) \intersect Open(l) = {}
    BY <1>1, <1>2 DEF OpenProposals, Open, Proposed, Events
  <2>2. ASSUME NEW j \in AnswersTo(l, i)
        PROVE  j \in Open(l)
    <3>1. j \in Answered(l) /\ l[j].proposal = i /\ j \in 1 .. Len(l)
      BY <1>2 DEF AnswersTo, Answered, Events
    <3>2. i < j
      BY <3>1 DEF AnswerLog, AnswerFollows
    <3> QED BY <1>1, <2>1, <3>1, <3>2 DEF Open
  <2> QED BY <2>1, <2>2 DEF Unsettled
<1>4. ASSUME NEW i \in Unsettled(l)
      PROVE  i \in OpenProposals(l)
  <2>1. i \in 1 .. Len(l) /\ l[i].kind = "decision_proposed" /\ AnswersTo(l, i) = {}
    BY <1>2 DEF Unsettled, Proposed, Events
  <2>2. CASE i <= LastEnd(l)
    <3>1. LastEnd(l) \in Events(l, "turn_ended") /\ i < LastEnd(l)
      BY <1>1, <1>2, <2>1, <2>2 DEF Events
    <3> QED BY <2>1, <3>1 DEF AnswerLog, EndsSettled, Unsettled
  <2>3. CASE i > LastEnd(l)
    BY <1>1, <2>1, <2>3 DEF OpenProposals, Open
  <2> QED BY <1>1, <2>1, <2>2, <2>3
<1> QED BY <1>3, <1>4

-----------------------------------------------------------------------------
(* Which proposal waits, at a place p with a batch b and a start-up        *)
(* proposal s.                                                             *)
AtProposal(p, b) == p = "switched" \/ (p = "ask" /\ Head(b).tool \in Proposals)

(* The places where a start-up proposal may wait.                          *)
IdlePlaces == {"idle", "idle_switched", "startup_ask"}

(* A call's proposal is the last one raised; outside a turn the start-up   *)
(* proposal waits, and the recorded choice beside it until its answer is   *)
(* written.                                                                *)
Awaited(p, b, s, l) ==
  IF AtProposal(p, b) THEN {LastProposed(l)}
  ELSE ({s} \ {0}) \union {n \in {Len(l)} : p = "startup_ask"}

ProposalsAt(p, b, s, l) ==
  /\ AnswerLog(l)
  /\ p /= "resume" => Unsettled(l) = Awaited(p, b, s, l)
  /\ s /= 0 => p \in IdlePlaces
  /\ p = "idle_switched" => s /= 0
  /\ p = "startup_ask" => s /= Len(l)

ProposalsInv == ProposalsAt(pc, batch, idleSwitch, log)

(* A place where no proposal waits.                                        *)
NoneAt(p, b) == ~AtProposal(p, b) /\ p \notin IdlePlaces \union {"resume"}

(* Nothing is appended that concerns a proposal.                           *)
Unasked(l, ll) == ll = l \/ \E e : Grows(l, ll, e) /\ e.kind \notin AnswerKinds

(* Then the same proposals wait.                                           *)
LEMMA UnaskedKeeps ==
  ASSUME NEW l, NEW ll, AnswerLog(l), Unasked(l, ll)
  PROVE  AnswerLog(ll) /\ Unsettled(ll) = Unsettled(l) /\ LastProposed(ll) = LastProposed(l)
BY AnswersQuiet DEF Unasked

(* Where no proposal waits all are answered.                               *)
LEMMA NoneSettled ==
  ASSUME NEW p, NEW b, NEW s, NEW l, ProposalsAt(p, b, s, l), NoneAt(p, b)
  PROVE  AnswerLog(l) /\ Unsettled(l) = {} /\ s = 0
BY DEF ProposalsAt, NoneAt, Awaited, IdlePlaces

(* A place without a proposal, and an idle thread with nothing raised.     *)
LEMMA SettledAt ==
  ASSUME NEW p, NEW b, NEW l, AnswerLog(l), Unsettled(l) = {}, NoneAt(p, b) \/ p = "idle"
  PROVE  ProposalsAt(p, b, 0, l)
BY DEF ProposalsAt, NoneAt, Awaited, IdlePlaces, AtProposal

LEMMA NoneToNone ==
  ASSUME NEW p, NEW b, NEW s, NEW l, NEW pp, NEW bb, NEW ll,
         ProposalsAt(p, b, s, l), NoneAt(p, b), NoneAt(pp, bb) \/ pp = "idle", Unasked(l, ll)
  PROVE  ProposalsAt(pp, bb, s, ll)
<1>1. AnswerLog(l) /\ Unsettled(l) = {} /\ s = 0
  BY NoneSettled
<1> QED BY <1>1, UnaskedKeeps, SettledAt

LEMMA StaysAt ==
  ASSUME NEW p, NEW b, NEW s, NEW l, NEW ll,
         ProposalsAt(p, b, s, l), p /= "startup_ask", Unasked(l, ll)
  PROVE  ProposalsAt(p, b, s, ll)
BY UnaskedKeeps DEF ProposalsAt, Awaited

(* A call's proposal: raised, answered, agreed to.                         *)
LEMMA Proposes ==
  ASSUME NEW p, NEW b, NEW s, NEW l, NEW pp, NEW bb, NEW ll, NEW e,
         ProposalsAt(p, b, s, l), NoneAt(p, b), AtProposal(pp, bb),
         Grows(l, ll, e), e.kind = "decision_proposed"
  PROVE  ProposalsAt(pp, bb, s, ll)
<1>1. AnswerLog(l) /\ Unsettled(l) = {} /\ s = 0
  BY NoneSettled
<1>2. AnswerLog(ll) /\ Unsettled(ll) = {Len(l) + 1} /\ LastProposed(ll) = Len(l) + 1
  BY <1>1, AnswersProposed
<1> QED BY <1>1, <1>2 DEF ProposalsAt, Awaited, AtProposal

LEMMA Waiting ==
  ASSUME NEW p, NEW b, NEW s, NEW l, ProposalsAt(p, b, s, l), AtProposal(p, b)
  PROVE  AnswerLog(l) /\ Unsettled(l) = {LastProposed(l)} /\ s = 0
BY DEF ProposalsAt, Awaited, AtProposal, IdlePlaces

LEMMA AnswersWait ==
  ASSUME NEW p, NEW b, NEW s, NEW l, NEW pp, NEW bb, NEW ll, NEW e,
         ProposalsAt(p, b, s, l), AtProposal(p, b), NoneAt(pp, bb),
         Grows(l, ll, e), e.kind = "decision_answered", e.proposal = LastProposed(l)
  PROVE  ProposalsAt(pp, bb, s, ll)
<1>1. AnswerLog(l) /\ Unsettled(l) = {LastProposed(l)} /\ s = 0
  BY Waiting
<1>2. AnswerLog(ll) /\ Unsettled(ll) = {}
  BY <1>1, AnswersAnswered
<1> QED BY <1>1, <1>2, SettledAt

LEMMA Switches ==
  ASSUME NEW p, NEW b, NEW s, NEW l, NEW pp, NEW bb, NEW ll,
         ProposalsAt(p, b, s, l), AtProposal(p, b), AtProposal(pp, bb), Unasked(l, ll)
  PROVE  ProposalsAt(pp, bb, s, ll)
<1>1. AnswerLog(l) /\ Unsettled(l) = {LastProposed(l)} /\ s = 0
  BY Waiting
<1>2. AnswerLog(ll) /\ Unsettled(ll) = {LastProposed(ll)}
  BY <1>1, UnaskedKeeps
<1> QED BY <1>1, <1>2 DEF ProposalsAt, Awaited, AtProposal

LEMMA EndsAt ==
  ASSUME NEW p, NEW b, NEW l, NEW pp, NEW bb, NEW ll, NEW e,
         AnswerLog(l), Unsettled(l) = {}, NoneAt(pp, bb), Grows(l, ll, e), e.kind = "turn_ended"
  PROVE  ProposalsAt(pp, bb, 0, ll)
BY AnswersEnded, SettledAt

(* The start-up proposal: raised, answered, and the ask recorded beside.   *)
LEMMA IdleProposes ==
  ASSUME NEW b, NEW l, NEW bb, NEW ll, NEW e, ProposalsAt("idle", b, 0, l),
         Grows(l, ll, e), e.kind = "decision_proposed"
  PROVE  ProposalsAt("idle", bb, Len(l) + 1, ll)
<1>1. AnswerLog(l) /\ Unsettled(l) = {}
  BY DEF ProposalsAt, Awaited, AtProposal
<1>2. AnswerLog(ll) /\ Unsettled(ll) = {Len(l) + 1} /\ Len(l) \in Nat
  BY <1>1, AnswersProposed, Grown
<1>3. Len(l) + 1 /= 0
  BY <1>2
<1> QED BY <1>2, <1>3 DEF ProposalsAt, Awaited, AtProposal, IdlePlaces

LEMMA IdleAnswers ==
  ASSUME NEW p \in {"idle", "idle_switched"}, NEW b, NEW s, NEW l, NEW pp, NEW bb, NEW ll, NEW e,
         ProposalsAt(p, b, s, l), s /= 0, NoneAt(pp, bb) \/ pp = "idle",
         Grows(l, ll, e), e.kind = "decision_answered", e.proposal = s
  PROVE  ProposalsAt(pp, bb, 0, ll)
<1>1. AnswerLog(l) /\ Unsettled(l) = {s}
  BY DEF ProposalsAt, Awaited, AtProposal
<1>2. AnswerLog(ll) /\ Unsettled(ll) = {}
  BY <1>1, AnswersAnswered
<1> QED BY <1>2, SettledAt

LEMMA IdleSwitches ==
  ASSUME NEW b, NEW s, NEW l, NEW bb, NEW ll, ProposalsAt("idle", b, s, l), s /= 0,
         Unasked(l, ll)
  PROVE  ProposalsAt("idle_switched", bb, s, ll)
BY UnaskedKeeps DEF ProposalsAt, Awaited, AtProposal, IdlePlaces

LEMMA IdleGoes ==
  ASSUME NEW b, NEW l, NEW pp, NEW bb, ProposalsAt("idle", b, 0, l), NoneAt(pp, bb)
  PROVE  ProposalsAt(pp, bb, 0, l)
<1>1. AnswerLog(l) /\ Unsettled(l) = {}
  BY DEF ProposalsAt, Awaited, AtProposal
<1> QED BY <1>1, SettledAt

LEMMA IdleAsks ==
  ASSUME NEW b, NEW s, NEW l, NEW bb, NEW ll, NEW e, ProposalsAt("idle", b, s, l),
         s \in 0 .. Len(l), Grows(l, ll, e), e.kind = "decision_proposed"
  PROVE  ProposalsAt("startup_ask", bb, s, ll)
<1>1. AnswerLog(l) /\ Unsettled(l) = {s} \ {0}
  BY DEF ProposalsAt, Awaited, AtProposal
<1>2. /\ AnswerLog(ll) /\ Unsettled(ll) = ({s} \ {0}) \union {Len(l) + 1}
      /\ Len(l) \in Nat /\ Len(ll) = Len(l) + 1
  BY <1>1, AnswersProposed, Grown
<1>3. s /= Len(ll)
  BY <1>2
<1> QED BY <1>2, <1>3 DEF ProposalsAt, Awaited, AtProposal, IdlePlaces

LEMMA IdleRecords ==
  ASSUME NEW b, NEW s, NEW l, NEW bb, NEW ll, NEW e, ProposalsAt("startup_ask", b, s, l),
         Grows(l, ll, e), e.kind = "decision_answered", e.proposal = Len(l)
  PROVE  ProposalsAt("idle", bb, s, ll)
<1>1. AnswerLog(l) /\ Unsettled(l) = ({s} \ {0}) \union {Len(l)} /\ s /= Len(l)
  BY DEF ProposalsAt, Awaited, AtProposal
<1>2. AnswerLog(ll) /\ Unsettled(ll) = {s} \ {0}
  BY <1>1, AnswersAnswered
<1> QED BY <1>2 DEF ProposalsAt, Awaited, AtProposal, IdlePlaces

(* A resume: it withdraws what is open, and leaves when nothing is.        *)
LEMMA ResumeAnswers ==
  ASSUME NEW b, NEW s, NEW l, NEW bb, NEW ll, NEW e, ProposalsAt("resume", b, s, l),
         Grows(l, ll, e), e.kind = "decision_answered", e.proposal \in OpenProposals(l)
  PROVE  ProposalsAt("resume", bb, s, ll)
<1>1. AnswerLog(l) /\ l \in Seq(Event)
  BY DEF ProposalsAt, Grows
<1>2. e.proposal \in Unsettled(l)
  BY <1>1, OpenUnsettled
<1> QED BY <1>1, <1>2, AnswersAnswered DEF ProposalsAt, IdlePlaces

LEMMA ResumeLeaves ==
  ASSUME NEW b, NEW s, NEW l, NEW pp, NEW bb, NEW ll, ProposalsAt("resume", b, s, l),
         l \in Seq(Event), OpenProposals(l) = {}, NoneAt(pp, bb),
         Unasked(l, ll) \/ \E e : Grows(l, ll, e) /\ e.kind = "turn_ended"
  PROVE  ProposalsAt(pp, bb, s, ll)
<1>1. AnswerLog(l) /\ Unsettled(l) = {} /\ s = 0
  BY OpenUnsettled DEF ProposalsAt, IdlePlaces
<1> QED BY <1>1, UnaskedKeeps, AnswersEnded, SettledAt

-----------------------------------------------------------------------------
(* The steps that leave every proposal as it was.                          *)
LEMMA AppendGrows ==
  ASSUME TypeInv, TypeInv', NEW e, log' = Append(log, e)
  PROVE  Grows(log, log', e)
BY AppendedEvent DEF Grows, TypeInv, TypeOK

LEMMA UnaskedEvents ==
  /\ \A p, m, s : UserMessage(p, m, s).kind \notin AnswerKinds
  /\ \A calls : AssistantMessage(calls).kind \notin AnswerKinds
  /\ \A c, o : ToolResult(c, o).kind \notin AnswerKinds
  /\ \A c : PermissionRequested(c).kind \notin AnswerKinds
  /\ \A c, a, b : PermissionDecided(c, a, b).kind \notin AnswerKinds
  /\ \A to : ProjectSwitched(to).kind \notin AnswerKinds
  /\ ProviderRetried.kind \notin AnswerKinds
  /\ \A j : JobFinished(j).kind \notin AnswerKinds
  /\ \A b : Interrupted(b).kind \notin AnswerKinds
BY DEF UserMessage, AssistantMessage, ToolResult, PermissionRequested, PermissionDecided,
   ProjectSwitched, ProviderRetried, JobFinished, Interrupted, AnswerKinds

LEMMA UnaskedAppend ==
  ASSUME TypeInv, TypeInv', NEW e, log' = Append(log, e), e.kind \notin AnswerKinds
  PROVE  Unasked(log, log')
BY AppendGrows DEF Unasked

LEMMA NoneStep ==
  ASSUME ProposalsInv, NoneAt(pc, batch), NoneAt(pc', batch') \/ pc' = "idle",
         Unasked(log, log'), idleSwitch' = idleSwitch
  PROVE  ProposalsInv'
<1>1. PICK p, b, s, l, pp, bb, ll :
        /\ p = pc /\ b = batch /\ s = idleSwitch /\ l = log
        /\ pp = pc' /\ bb = batch' /\ ll = log'
  OBVIOUS
<1>2. /\ ProposalsAt(p, b, s, l) /\ NoneAt(p, b) /\ Unasked(l, ll)
      /\ NoneAt(pp, bb) \/ pp = "idle"
  BY <1>1 DEF ProposalsInv
<1>3. ProposalsAt(pp, bb, s, ll)
  BY <1>2, NoneToNone
<1> QED BY <1>1, <1>3 DEF ProposalsInv

LEMMA StayStep ==
  ASSUME ProposalsInv, pc /= "startup_ask", pc' = pc, batch' = batch, Unasked(log, log'),
         idleSwitch' = idleSwitch
  PROVE  ProposalsInv'
<1>1. PICK p, b, s, l, ll : p = pc /\ b = batch /\ s = idleSwitch /\ l = log /\ ll = log'
  OBVIOUS
<1>2. ProposalsAt(p, b, s, l) /\ p /= "startup_ask" /\ Unasked(l, ll)
  BY <1>1 DEF ProposalsInv
<1>3. ProposalsAt(p, b, s, ll)
  BY <1>2, StaysAt
<1> QED BY <1>1, <1>3 DEF ProposalsInv

LEMMA AnswerStep ==
  ASSUME TypeInv, TypeInv', ProposalsInv, AtProposal(pc, batch), NoneAt(pc', batch'),
         idleSwitch' = idleSwitch, NEW a, log' = Append(log, DecisionAnswered(Proposal, a))
  PROVE  ProposalsInv'
<1>1. PICK p, b, s, l, pp, bb, ll, e :
        /\ p = pc /\ b = batch /\ s = idleSwitch /\ l = log
        /\ pp = pc' /\ bb = batch' /\ ll = log' /\ e = DecisionAnswered(Proposal, a)
  OBVIOUS
<1>2. LastProposed(l) = Proposal
  BY <1>1 DEF LastProposed, Proposal
<1>3. e.kind = "decision_answered" /\ e.proposal = LastProposed(l)
  BY <1>1, <1>2 DEF DecisionAnswered
<1>4. ProposalsAt(p, b, s, l) /\ AtProposal(p, b) /\ NoneAt(pp, bb) /\ Grows(l, ll, e)
  BY <1>1, AppendGrows DEF ProposalsInv
<1>5. ProposalsAt(pp, bb, s, ll)
  BY <1>3, <1>4, AnswersWait
<1> QED BY <1>1, <1>5 DEF ProposalsInv

LEMMA WorkNone ==
  ASSUME NEW p \in WorkingPlaces \union
                     {"start", "after", "side", "by_hand", "clean", "interrupted"},
         NEW b
  PROVE  NoneAt(p, b)
BY DEF WorkingPlaces, Places, NoneAt, AtProposal, IdlePlaces

(* The steps of a turn.                                                    *)
LEMMA ProposalsTurn ==
  ASSUME TypeInv, TypeInv', ProposalsInv, TurnStep, idleSwitch' = idleSwitch
  PROVE  ProposalsInv'
<1> USE DEF batchVars
<1>1. CASE Loop
  <2>1. /\ log' = log \/ \E p, s : log' = Append(log, UserMessage(p, TRUE, s))
        /\ pc \in WorkingPlaces /\ pc' \in WorkingPlaces
    BY <1>1 DEF Loop, DrainAt, InterruptedAtTop, BudgetSpent, FlushHeld, Compact,
       CompactionFails, Request, AppendQueued, AtTop, Write, WorkingPlaces, Places
  <2>2. Unasked(log, log')
    BY <2>1, UnaskedAppend, UnaskedEvents DEF Unasked
  <2> QED BY <2>1, <2>2, WorkNone, NoneStep
<1>2. CASE Stream
  <2>1. /\ \/ log' = log \/ log' = Append(log, ProviderRetried)
           \/ \E calls : log' = Append(log, AssistantMessage(calls))
        /\ pc \in WorkingPlaces /\ pc' \in WorkingPlaces
    BY <1>2 DEF Stream, StreamHolds, StreamInterrupted, StreamRetried, StreamFails,
       StreamReplies, StreamOver, Write, WorkingPlaces, Places
  <2>2. Unasked(log, log')
    BY <2>1, UnaskedAppend, UnaskedEvents DEF Unasked
  <2> QED BY <2>1, <2>2, WorkNone, NoneStep
<1>3. CASE LengthStop \/ Siblings \/ ToolDone \/ ToolKilled \/ Said \/ Refused
  <2>1. /\ \E id, o : log' = Append(log, ToolResult(id, o))
        /\ pc \in WorkingPlaces /\ pc' \in WorkingPlaces
    BY <1>3 DEF LengthStop, Siblings, NotRun, ToolDone, ToolKilled, Said, Refused, Result, Write,
       WorkingPlaces, Places
  <2>2. Unasked(log, log')
    BY <2>1, UnaskedAppend, UnaskedEvents
  <2> QED BY <2>1, <2>2, WorkNone, NoneStep
<1>4. CASE RunPlain \/ RequestGranted \/ Granted
  <2>1. /\ \/ log' = log \/ \E id : log' = Append(log, PermissionRequested(id))
           \/ \E id, a, by : log' = Append(log, PermissionDecided(id, a, by))
        /\ pc \in WorkingPlaces /\ pc' \in WorkingPlaces
    BY <1>4 DEF RunPlain, RequestGranted, Granted, NextCall, Write, WorkingPlaces, Places
  <2>2. Unasked(log, log')
    BY <2>1, UnaskedAppend, UnaskedEvents DEF Unasked
  <2> QED BY <2>1, <2>2, WorkNone, NoneStep
<1>5. CASE AskPermission \/ AskHuman
  <2>1. /\ \/ log' = log \/ \E id : log' = Append(log, PermissionRequested(id))
        /\ pc \in WorkingPlaces /\ pc' = "ask" /\ batch' = batch
        /\ Head(batch).tool \in {"gated", "ask_human"}
    BY <1>5 DEF AskPermission, AskHuman, Register, NextCall, WorkingPlaces, Places
  <2>2. Unasked(log, log')
    BY <2>1, UnaskedAppend, UnaskedEvents DEF Unasked
  <2>3. NoneAt(pc', batch')
    BY <2>1 DEF NoneAt, AtProposal, Proposals, IdlePlaces
  <2> QED BY <2>1, <2>2, <2>3, WorkNone, NoneStep
<1>6. CASE Propose
  <2>1. PICK p, b, s, l, pp, bb, ll, e :
          /\ p = pc /\ b = batch /\ s = idleSwitch /\ l = log
          /\ pp = pc' /\ bb = batch' /\ ll = log' /\ e = DecisionProposed("turn", Head(batch).id)
    OBVIOUS
  <2>2. /\ log' = Append(log, e) /\ p = "calls" /\ pp = "ask" /\ bb = b
        /\ Head(b).tool \in Proposals
    BY <1>6, <2>1 DEF Propose, Register, NextCall
  <2>3. e.kind = "decision_proposed"
    BY <2>1 DEF DecisionProposed
  <2>4. Grows(l, ll, e) /\ ProposalsAt(p, b, s, l)
    BY <2>1, <2>2, AppendGrows DEF ProposalsInv
  <2>5. NoneAt(p, b) /\ AtProposal(pp, bb)
    BY <2>2 DEF NoneAt, AtProposal, IdlePlaces
  <2>6. ProposalsAt(pp, bb, s, ll)
    BY <2>3, <2>4, <2>5, Proposes
  <2> QED BY <2>1, <2>6 DEF ProposalsInv
<1>7. CASE \/ PermissionInterrupted \/ HumanInterrupted \/ PermissionAllowed
           \/ PermissionDenied \/ HumanAnswered
  <2>1. /\ \/ \E id, o : log' = Append(log, ToolResult(id, o))
           \/ \E id, a, by : log' = Append(log, PermissionDecided(id, a, by))
        /\ pc = "ask" /\ Head(batch).tool \in {"gated", "ask_human"}
    <3>1. CASE HumanInterrupted \/ HumanAnswered
      BY <3>1 DEF HumanInterrupted, HumanAnswered, Interrupts, Answers, AskedTool, Result, Write
    <3>2. CASE PermissionInterrupted
      BY <3>2 DEF PermissionInterrupted, Interrupts, AskedTool, Settle, Write
    <3>3. CASE PermissionAllowed
      BY <3>3 DEF PermissionAllowed, Answers, AskedTool, Settle, Write
    <3>4. CASE PermissionDenied
      BY <3>4 DEF PermissionDenied, Answers, AskedTool, Settle, Write
    <3> QED BY <1>7, <3>1, <3>2, <3>3, <3>4
  <2>2. pc' \in WorkingPlaces
    BY <1>7 DEF PermissionInterrupted, HumanInterrupted, PermissionAllowed, PermissionDenied,
       HumanAnswered, Settle, Result, WorkingPlaces, Places
  <2>3. Unasked(log, log')
    BY <2>1, UnaskedAppend, UnaskedEvents
  <2>4. NoneAt(pc, batch)
    BY <2>1 DEF NoneAt, AtProposal, Proposals, IdlePlaces
  <2> QED BY <2>2, <2>3, <2>4, WorkNone, NoneStep
<1>8. CASE ProposalInterrupted \/ Declined \/ SwitchFails \/ JobApproved \/ SwitchRecorded
  <2>1. \E a : log' = Append(log, DecisionAnswered(Proposal, a))
    BY <1>8 DEF ProposalInterrupted, Declined, SwitchFails, JobApproved, SwitchRecorded, Settle,
       Write
  <2>2. AtProposal(pc, batch)
    BY <1>8 DEF ProposalInterrupted, Declined, SwitchFails, JobApproved, SwitchRecorded,
       Interrupts, Answers, AskedTool, AtProposal, Proposals
  <2>3. pc' \in WorkingPlaces
    BY <1>8 DEF ProposalInterrupted, Declined, SwitchFails, JobApproved, SwitchRecorded, Settle,
       WorkingPlaces, Places
  <2> QED BY <2>1, <2>2, <2>3, WorkNone, AnswerStep
<1>9. CASE SwitchAgreed
  <2>1. PICK p, b, s, l, pp, bb, ll :
          /\ p = pc /\ b = batch /\ s = idleSwitch /\ l = log
          /\ pp = pc' /\ bb = batch' /\ ll = log'
    OBVIOUS
  <2>2. /\ log' = Append(log, ProjectSwitched(Away)) /\ p = "ask" /\ pp = "switched"
        /\ Head(b).tool = "suggest_project"
    BY <1>9, <2>1 DEF SwitchAgreed, Settle, Answers, AskedTool, Write
  <2>3. Unasked(l, ll)
    BY <2>1, <2>2, UnaskedAppend, UnaskedEvents
  <2>4. ProposalsAt(p, b, s, l)
    BY <2>1 DEF ProposalsInv
  <2>5. AtProposal(p, b) /\ AtProposal(pp, bb)
    BY <2>2 DEF AtProposal, Proposals
  <2>6. ProposalsAt(pp, bb, s, ll)
    BY <2>3, <2>4, <2>5, Switches
  <2> QED BY <2>1, <2>6 DEF ProposalsInv
<1>10. CASE Synthetic \/ BatchOver \/ FlushLast \/ NoteInterrupt
  <2>1. /\ \/ log' = log
           \/ \E id, o : log' = Append(log, ToolResult(id, o))
           \/ \E p, s : log' = Append(log, UserMessage(p, TRUE, s))
           \/ \E b : log' = Append(log, Interrupted(b))
        /\ pc \in WorkingPlaces /\ pc' \in WorkingPlaces
    BY <1>10 DEF Synthetic, NotRun, BatchOver, AfterCalls, FlushLast, NoteInterrupt,
       AppendQueued, Write, WorkingPlaces, Places
  <2>2. Unasked(log, log')
    BY <2>1, UnaskedAppend, UnaskedEvents DEF Unasked
  <2> QED BY <2>1, <2>2, WorkNone, NoneStep
<1>11. CASE EndTurn
  <2>1. PICK p, b, s, l, pp, bb, ll, e :
          /\ p = pc /\ b = batch /\ s = idleSwitch /\ l = log
          /\ pp = pc' /\ bb = batch' /\ ll = log' /\ e = TurnEnded(reason)
    OBVIOUS
  <2>2. log' = Append(log, e) /\ p = "end" /\ pp = "after"
    BY <1>11, <2>1 DEF EndTurn, Write
  <2>3. e.kind = "turn_ended"
    BY <2>1 DEF TurnEnded
  <2>4. Grows(l, ll, e) /\ ProposalsAt(p, b, s, l)
    BY <2>1, <2>2, AppendGrows DEF ProposalsInv
  <2>5. NoneAt(p, b) /\ NoneAt(pp, bb)
    BY <2>2 DEF NoneAt, AtProposal, IdlePlaces
  <2>6. AnswerLog(l) /\ Unsettled(l) = {} /\ s = 0
    BY <2>4, <2>5, NoneSettled
  <2>7. ProposalsAt(pp, bb, s, ll)
    BY <2>3, <2>4, <2>5, <2>6, EndsAt
  <2> QED BY <2>1, <2>7 DEF ProposalsInv
<1> QED BY <1>1, <1>2, <1>3, <1>4, <1>5, <1>6, <1>7, <1>8, <1>9, <1>10, <1>11
    DEF TurnStep, Calls, Wait, Ending

(* The actor's own steps.                                                  *)
LEMMA ProposalsActor ==
  ASSUME TypeInv, TypeInv', ProposalsInv, ActorStep
  PROVE  ProposalsInv'
<1> USE DEF batchVars, actorVars
<1>1. PICK p, b, s, l, pp, bb, ss, ll :
        /\ p = pc /\ b = batch /\ s = idleSwitch /\ l = log
        /\ pp = pc' /\ bb = batch' /\ ss = idleSwitch' /\ ll = log'
  OBVIOUS
<1>2. ProposalsAt(p, b, s, l) /\ l \in Seq(Event)
  BY <1>1 DEF ProposalsInv, TypeInv, TypeOK
<1>3. ProposalsAt(pp, bb, ss, ll) => ProposalsInv'
  BY <1>1 DEF ProposalsInv
<1>4. CASE RunTurn
  BY <1>4, ProposalsTurn DEF RunTurn
<1>5. CASE StartTurn \/ WriteNote \/ Continue \/ GoIdle \/ SideJobs \/ Boot
  <2>1. /\ \/ log' = log
           \/ \E n : log' = Append(log, UserMessage(n, FALSE, FALSE))
           \/ \E j : log' = Append(log, JobFinished(j))
        /\ pc \in {"start", "after", "side", "clean", "interrupted"}
        /\ idleSwitch' = idleSwitch
    BY <1>5 DEF StartTurn, WriteNote, Continue, GoIdle, SideJobs, Boot, Write
  <2>2. pc' \in {"loop", "after", "side", "idle"}
    BY <1>5 DEF StartTurn, WriteNote, Continue, GoIdle, SideJobs, Boot, Begin
  <2>3. Unasked(log, log')
    BY <2>1, UnaskedAppend, UnaskedEvents DEF Unasked
  <2>4. NoneAt(pc', batch') \/ pc' = "idle"
    BY <2>2 DEF NoneAt, AtProposal, IdlePlaces
  <2> QED BY <2>1, <2>3, <2>4, WorkNone, NoneStep
<1>6. CASE SwitchByHand \/ SwitchByHandFails
  <2>1. /\ log' = log \/ \E to : log' = Append(log, ProjectSwitched(to))
        /\ pc = "by_hand" /\ pc' = "idle" /\ idleSwitch' = idleSwitch
    BY <1>6 DEF SwitchByHand, SwitchByHandFails, Move, Write
  <2>2. Unasked(log, log')
    BY <2>1, UnaskedAppend, UnaskedEvents DEF Unasked
  <2> QED BY <2>1, <2>2, WorkNone, NoneStep
<1>7. CASE RecordIdle
  <2>1. PICK e : e = DecisionAnswered(idleSwitch, "yes")
    OBVIOUS
  <2>2. /\ log' = Append(log, e) /\ p = "idle_switched" /\ pp = "idle" /\ ss = 0
    BY <1>1, <1>7, <2>1 DEF RecordIdle
  <2>3. e.kind = "decision_answered" /\ e.proposal = s
    BY <1>1, <2>1 DEF DecisionAnswered
  <2>4. Grows(l, ll, e)
    BY <1>1, <2>2, AppendGrows
  <2>5. s /= 0
    BY <1>2, <2>2 DEF ProposalsAt
  <2>6. ProposalsAt(pp, bb, 0, ll)
    BY <1>2, <2>2, <2>3, <2>4, <2>5, IdleAnswers
  <2> QED BY <1>3, <2>2, <2>6
<1>8. CASE RecordStartupAsk
  <2>1. PICK a \in {"yes", "corrected"} : log' = Append(log, DecisionAnswered(Len(log), a))
    BY <1>8 DEF RecordStartupAsk
  <2>2. PICK e : e = DecisionAnswered(Len(log), a)
    OBVIOUS
  <2>3. p = "startup_ask" /\ pp = "idle" /\ ss = s
    BY <1>1, <1>8 DEF RecordStartupAsk
  <2>4. e.kind = "decision_answered" /\ e.proposal = Len(l)
    BY <1>1, <2>2 DEF DecisionAnswered
  <2>5. Grows(l, ll, e)
    BY <1>1, <2>1, <2>2, AppendGrows
  <2>6. ProposalsAt(pp, bb, ss, ll)
    BY <1>2, <2>3, <2>4, <2>5, IdleRecords
  <2> QED BY <1>3, <2>6
<1>9. CASE WithdrawOpen
  <2>1. PICK i \in OpenProposals(log) : Repair(DecisionAnswered(i, "withdrawn"))
    BY <1>9 DEF WithdrawOpen
  <2>2. PICK e : e = DecisionAnswered(i, "withdrawn")
    OBVIOUS
  <2>3. log' = Append(log, e) /\ p = "resume" /\ pp = "resume" /\ ss = s
    BY <1>1, <1>9, <2>1, <2>2 DEF WithdrawOpen, Repair, Write
  <2>4. e.kind = "decision_answered" /\ e.proposal \in OpenProposals(l)
    BY <1>1, <2>1, <2>2 DEF DecisionAnswered
  <2>5. Grows(l, ll, e)
    BY <1>1, <2>3, AppendGrows
  <2>6. ProposalsAt(pp, bb, ss, ll)
    BY <1>2, <2>3, <2>4, <2>5, ResumeAnswers
  <2> QED BY <1>3, <2>6
<1>10. CASE AnswerUnanswered
  <2>1. /\ \E id, o : log' = Append(log, ToolResult(id, o))
        /\ pc = "resume" /\ pc' = pc /\ batch' = batch /\ idleSwitch' = idleSwitch
    BY <1>10 DEF AnswerUnanswered, Repair, Write
  <2>2. Unasked(log, log')
    BY <2>1, UnaskedAppend, UnaskedEvents
  <2> QED BY <2>1, <2>2, StayStep
<1>11. CASE RestoreTurnEnded \/ NoteCrash \/ NothingOpen \/ AlreadyNoted
  <2>1. /\ \/ log' = log
           \/ log' = Append(log, Interrupted("crash"))
           \/ log' = Append(log, TurnEnded("resumed"))
        /\ p = "resume" /\ pp \in {"clean", "interrupted"} /\ ss = s
    BY <1>1, <1>11
    DEF RestoreTurnEnded, NoteCrash, Repair, NothingOpen, AlreadyNoted, Resumed, Write
  <2>2. OpenProposals(l) = {}
    BY <1>1, <1>11 DEF RestoreTurnEnded, NoteCrash, NothingOpen, AlreadyNoted, Repairable
  <2>3. TurnEnded("resumed").kind = "turn_ended"
    BY DEF TurnEnded
  <2>4. Unasked(l, ll) \/ \E e : Grows(l, ll, e) /\ e.kind = "turn_ended"
    <3>1. CASE log' = Append(log, TurnEnded("resumed"))
      BY <1>1, <2>3, <3>1, AppendGrows
    <3>2. CASE log' = Append(log, Interrupted("crash"))
      BY <1>1, <3>2, UnaskedAppend, UnaskedEvents
    <3> QED BY <1>1, <2>1, <3>1, <3>2 DEF Unasked
  <2>5. NoneAt(pp, bb)
    BY <2>1, WorkNone
  <2>6. ProposalsAt(pp, bb, ss, ll)
    BY <1>2, <2>1, <2>2, <2>4, <2>5, ResumeLeaves
  <2> QED BY <1>3, <2>6
<1> QED BY <1>4, <1>5, <1>6, <1>7, <1>8, <1>9, <1>10, <1>11 DEF ActorStep

(* The actor's mail.                                                       *)
LEMMA ProposalsMail ==
  ASSUME TypeInv, TypeInv', ProposalsInv, Mail
  PROVE  ProposalsInv'
<1> USE DEF batchVars, actorVars
<1>1. PICK p, b, s, l, pp, bb, ss, ll :
        /\ p = pc /\ b = batch /\ s = idleSwitch /\ l = log
        /\ pp = pc' /\ bb = batch' /\ ss = idleSwitch' /\ ll = log'
  OBVIOUS
<1>2. ProposalsAt(p, b, s, l) /\ s \in 0 .. Len(l)
  BY <1>1 DEF ProposalsInv, TypeInv, TypeOK
<1>3. ProposalsAt(pp, bb, ss, ll) => ProposalsInv'
  BY <1>1 DEF ProposalsInv
<1>4. CASE PostRunning \/ Interrupt \/ Decide \/ JobReturns
  <2>1. /\ log' = log \/ \E j : log' = Append(log, JobFinished(j))
        /\ pc' = pc /\ batch' = batch /\ idleSwitch' = idleSwitch
        /\ pc /= "startup_ask"
    BY <1>4 DEF PostRunning, Interrupt, Decide, JobReturns, Running, AwaitPoints, Write
  <2>2. Unasked(log, log')
    BY <2>1, UnaskedAppend, UnaskedEvents DEF Unasked
  <2> QED BY <2>1, <2>2, StayStep
<1>5. CASE \/ DeclineIdle \/ FailIdle
           \/ idleSwitch /= 0 /\ PostIdle
           \/ idleSwitch /= 0 /\ WithdrawByHand
  <2>1. \E a : log' = Append(log, DecisionAnswered(idleSwitch, a))
    BY <1>5 DEF DeclineIdle, FailIdle, AnswerIdle, PostIdle, WithdrawByHand, Withdrawn
  <2>2. PICK a, e : e = DecisionAnswered(idleSwitch, a) /\ log' = Append(log, e)
    BY <2>1
  <2>3. p = "idle" /\ s /= 0 /\ ss = 0
    BY <1>1, <1>5 DEF DeclineIdle, FailIdle, AnswerIdle, PostIdle, WithdrawByHand
  <2>4. pp \in {"idle", "start", "by_hand"}
    BY <1>1, <1>5, <2>3 DEF DeclineIdle, FailIdle, AnswerIdle, PostIdle, Begin, WithdrawByHand
  <2>5. e.kind = "decision_answered" /\ e.proposal = s
    BY <1>1, <2>2 DEF DecisionAnswered
  <2>6. Grows(l, ll, e)
    BY <1>1, <2>2, AppendGrows
  <2>7. ProposalsAt(pp, bb, 0, ll)
    BY <1>2, <2>3, <2>4, <2>5, <2>6, WorkNone, IdleAnswers
  <2> QED BY <1>3, <2>3, <2>7
<1>6. CASE idleSwitch = 0 /\ (PostIdle \/ WithdrawByHand)
  <2>1. p = "idle" /\ s = 0 /\ ss = 0 /\ ll = l
    BY <1>1, <1>6 DEF PostIdle, WithdrawByHand
  <2>2. pp \in {"start", "by_hand"}
    BY <1>1, <1>6 DEF PostIdle, Begin, WithdrawByHand
  <2>3. ProposalsAt(pp, bb, 0, l)
    BY <1>2, <2>1, <2>2, WorkNone, IdleGoes
  <2> QED BY <1>3, <2>1, <2>3
<1>7. CASE ProposeIdle
  <2>1. PICK e : e = DecisionProposed("startup", 0)
    OBVIOUS
  <2>2. /\ log' = Append(log, e) /\ p = "idle" /\ pp = "idle" /\ s = 0 /\ ss = Len(l) + 1
    BY <1>1, <1>7, <2>1 DEF ProposeIdle
  <2>3. e.kind = "decision_proposed"
    BY <2>1 DEF DecisionProposed
  <2>4. Grows(l, ll, e)
    BY <1>1, <2>2, AppendGrows
  <2>5. ProposalsAt(pp, bb, ss, ll)
    BY <1>2, <2>2, <2>3, <2>4, IdleProposes
  <2> QED BY <1>3, <2>5
<1>8. CASE AgreeIdle
  <2>1. /\ log' = Append(log, ProjectSwitched(Away))
        /\ p = "idle" /\ pp = "idle_switched" /\ s /= 0 /\ ss = s
    BY <1>1, <1>8 DEF AgreeIdle, AnswerIdle
  <2>2. Unasked(l, ll)
    BY <1>1, <2>1, UnaskedAppend, UnaskedEvents
  <2>3. ProposalsAt(pp, bb, ss, ll)
    BY <1>2, <2>1, <2>2, IdleSwitches
  <2> QED BY <1>3, <2>3
<1>9. CASE StartupAsk
  <2>1. PICK e : e = DecisionProposed("ask", 0)
    OBVIOUS
  <2>2. /\ log' = Append(log, e) /\ p = "idle" /\ pp = "startup_ask" /\ ss = s
    BY <1>1, <1>9, <2>1 DEF StartupAsk, Write
  <2>3. e.kind = "decision_proposed"
    BY <2>1 DEF DecisionProposed
  <2>4. Grows(l, ll, e)
    BY <1>1, <2>2, AppendGrows
  <2>5. ProposalsAt(pp, bb, ss, ll)
    BY <1>2, <2>2, <2>3, <2>4, IdleAsks
  <2> QED BY <1>3, <2>5
<1> QED BY <1>4, <1>5, <1>6, <1>7, <1>8, <1>9 DEF Mail

(* What waits is what is unanswered, in every state.                       *)
LEMMA ProposalsStep ==
  ASSUME TypeInv, TypeInv', ProposalsInv, [Next]_vars
  PROVE  ProposalsInv'
<1>1. CASE Crash
  <2>1. log' = log /\ pc' = "resume" /\ idleSwitch' = 0
    BY <1>1 DEF Crash
  <2>2. AnswerLog(log)
    BY DEF ProposalsInv, ProposalsAt
  <2> QED BY <2>1, <2>2 DEF ProposalsInv, ProposalsAt
<1>2. CASE UNCHANGED vars
  BY <1>2 DEF vars, turnVars, batchVars, actorVars, ProposalsInv
<1> QED BY <1>1, <1>2, ProposalsActor, ProposalsMail DEF Next

LEMMA ProposalsInit ==
  ASSUME Init
  PROVE  ProposalsInv
<1>1. /\ log = <<>> /\ pc = "idle" /\ idleSwitch = 0
      /\ \A k : Events(<<>>, k) = {}
  BY DEF Init, Events
<1>2. AnswerLog(<<>>) /\ Unsettled(<<>>) = {}
  BY <1>1 DEF AnswerLog, AnswerFollows, AnsweredOnce, EndsSettled, Proposed, Answered, Unsettled
<1> QED BY <1>1, <1>2, SettledAt DEF ProposalsInv

(* A set whose members are all the same has one at most.                   *)
LEMMA AtMostOne ==
  ASSUME NEW S, \A x, y \in S : x = y
  PROVE  Cardinality(S) <= 1
<1>1. CASE S = {}
  BY <1>1, FS_EmptySet
<1>2. CASE S /= {}
  <2>1. PICK x \in S : TRUE
    BY <1>2
  <2>2. S = {x}
    BY <2>1
  <2> QED BY <2>2, FS_Singleton
<1> QED BY <1>1, <1>2

(* The three together, on the shape of the state.                          *)
AnswerInv == IInv /\ CallsInv /\ GrantInv /\ ProposalsInv

LEMMA AnswerInit == Init => AnswerInv
BY IInvInit, CallsInit, GrantInit, ProposalsInit DEF AnswerInv, IInv

LEMMA AnswerNext == AnswerInv /\ [Next]_vars => AnswerInv'
<1> SUFFICES ASSUME AnswerInv, [Next]_vars PROVE AnswerInv'
  OBVIOUS
<1>1. IInv'
  BY IInvStep DEF AnswerInv
<1>2. TypeInv /\ TypeInv'
  BY <1>1 DEF AnswerInv, IInv
<1> QED BY <1>1, <1>2, CallsStep, GrantStep, ProposalsStep DEF AnswerInv

(* A gated tool runs only for a call a person, or a grant a person gave,   *)
(* allowed; a call is decided once; and a grant is used only after that    *)
(* person's yes and never across a move.                                   *)
THEOREM AllowedCorrect == Spec => []AllowedRuns
<1>1. AnswerInv => AllowedRuns
  <2> SUFFICES ASSUME AnswerInv PROVE AllowedRuns
    OBVIOUS
  <2>1. GrantStaysInProject
    BY DEF AnswerInv, GrantInv, GrantLog, GrantStaysInProject, Decided
  <2>2. GatedRunsAllowed
    <3> SUFFICES ASSUME NEW c \in CallsOf(log), c.tool = "gated"
                 PROVE  /\ Cardinality(DecidedFor(c.id)) <= 1
                        /\ \A r \in ResultsOf(log, c.id) :
                             log[r].origin \in {"ran", "killed"} =>
                               \E d \in DecidedFor(c.id) : d < r /\ log[d].allow
                        /\ (pc = "tool" /\ batch /= <<>> /\ Head(batch).id = c.id) =>
                             \E d \in DecidedFor(c.id) : log[d].allow
      BY DEF GatedRunsAllowed
    <3>1. DecidedFor(c.id) = Decisions(log, c.id)
      BY DEF DecidedFor, Decisions, Decided
    <3>2. CallLog(log) /\ BatchSound /\ batch \in Seq(Call)
      BY DEF AnswerInv, CallsInv, IInv, TypeInv, TypeOK
    <3>3. Cardinality(Decisions(log, c.id)) <= 1
      <4>1. \A x, y \in Decisions(log, c.id) : x = y
        BY <3>2 DEF Decisions, CallLog, DecidedOnce
      <4> QED BY <4>1, AtMostOne
    <3>4. ASSUME NEW r \in ResultsOf(log, c.id), log[r].origin \in {"ran", "killed"}
          PROVE  \E d \in Decisions(log, c.id) : d < r /\ log[d].allow
      <4>1. r \in Results(log) /\ log[r].call = c.id
        BY DEF ResultsOf, Results
      <4> QED BY <3>2, <3>4, <4>1 DEF CallLog, AllowedFirst
    <3>5. ASSUME pc = "tool", batch /= <<>>, Head(batch).id = c.id
          PROVE  \E d \in Decisions(log, c.id) : log[d].allow
      <4>1. Head(batch) \in ToSet(batch)
        BY <3>2, <3>5 DEF ToSet, Range
      <4>2. Head(batch) \in CallsOf(log)
        BY <3>2, <3>5, <4>1 DEF BatchSound, Hanging
      <4>3. Head(batch) = c
        BY <3>2, <3>5, <4>2 DEF CallLog, IdsApart
      <4> QED BY <3>2, <3>5, <4>3 DEF BatchSound
    <3> QED BY <3>1, <3>3, <3>4, <3>5
  <2> QED BY <2>1, <2>2 DEF AllowedRuns
<1> QED BY <1>1, AnswerInit, AnswerNext, PTL DEF Spec

(* Whatever an interrupt, a refusal or a crash cut off, every call and     *)
(* every proposal gets its one answer before the next turn begins.         *)
THEOREM SettledCorrect == Spec => []AllSettled
<1>1. AnswerInv => AllSettled
  <2> SUFFICES ASSUME AnswerInv PROVE AllSettled
    OBVIOUS
  <2>1. CallLog(log) /\ BatchSound
    BY DEF AnswerInv, CallsInv
  <2>2. \A c \in CallsOf(log) : Cardinality(ResultsOf(log, c.id)) <= 1
    <3> SUFFICES ASSUME NEW c \in CallsOf(log) PROVE Cardinality(ResultsOf(log, c.id)) <= 1
      OBVIOUS
    <3>1. \A x, y \in ResultsOf(log, c.id) : x = y
      BY <2>1 DEF ResultsOf, CallLog, ResultsOnce, Results
    <3> QED BY <3>1, AtMostOne
  <2>3. ASSUME pc \in {"after", "clean", "interrupted"}, NEW c \in CallsOf(log)
        PROVE  ResultsOf(log, c.id) /= {}
    <3>1. batch = <<>> /\ Hanging(log) = ToSet(batch)
      BY <2>1, <2>3 DEF BatchSound, AtCall
    <3>2. ToSet(<<>>) = {}
      BY DEF ToSet, Range
    <3> QED BY <3>1, <3>2 DEF Hanging
  <2>4. AnswerLog(log) /\ ProposalsAt(pc, batch, idleSwitch, log)
    BY DEF AnswerInv, ProposalsInv, ProposalsAt
  <2>5. \A i \in Proposed(log) : Cardinality(AnswersTo(log, i)) <= 1
    <3> SUFFICES ASSUME NEW i \in Proposed(log) PROVE Cardinality(AnswersTo(log, i)) <= 1
      OBVIOUS
    <3>1. \A x, y \in AnswersTo(log, i) : x = y
      BY <2>4 DEF AnswersTo, AnswerLog, AnsweredOnce, Answered
    <3> QED BY <3>1, AtMostOne
  <2>6. ASSUME pc \in {"idle", "after", "clean", "interrupted"}, NEW i \in Proposed(log)
        PROVE  AnswersTo(log, i) /= {} \/ i = idleSwitch
    <3>1. Unsettled(log) \subseteq {idleSwitch}
      BY <2>4, <2>6 DEF ProposalsAt, Awaited, AtProposal
    <3> QED BY <3>1 DEF Unsettled
  <2>7. CallsSettled
    BY <2>2, <2>3 DEF CallsSettled
  <2>8. ProposalsSettled
    BY <2>5, <2>6 DEF ProposalsSettled, Proposed
  <2> QED BY <2>7, <2>8 DEF AllSettled
<1> QED BY <1>1, AnswerInit, AnswerNext, PTL DEF Spec

-----------------------------------------------------------------------------
(* The projection, event by event.                                         *)

Base == [body |-> <<>>, pending |-> {}, held |-> <<>>]
Took(l, acc, n) == IF Kept(l, n) THEN Push(acc, MessageOf(l[n])) ELSE acc
Made(f, l, n) == f = [k \in 0 .. n |-> IF k = 0 THEN Base ELSE Took(l, f[k - 1], k)]

LEMMA LeastOne ==
  ASSUME NEW T \in SUBSET Nat, T /= {}
  PROVE  \E m \in T : \A k \in T : m <= k
<1>1. PICK m \in T : \A k \in T : ~ (<<k, m>> \in OpToRel(<, Nat))
  BY NatLessThanWellFounded, WFMin
<1>2. \A k \in T : ~ (k < m)
  BY <1>1 DEF OpToRel
<1>3. \A k \in T : k \in Int /\ m \in Int
  OBVIOUS
<1> QED BY <1>2, <1>3

LEMMA MadeAll ==
  ASSUME NEW l, NEW n \in Nat
  PROVE  \E f : Made(f, l, n)
<1> DEFINE T == {k \in Nat : ~ \E f : Made(f, l, k)}
<1>1. SUFFICES ASSUME T /= {} PROVE FALSE
  OBVIOUS
<1>2. PICK m \in T : \A k \in T : m <= k
  <2>1. T \in SUBSET Nat
    OBVIOUS
  <2> HIDE DEF T
  <2> QED BY <1>1, <2>1, LeastOne
<1>3. m \in Nat /\ ~ \E f : Made(f, l, m)
  OBVIOUS
<1>4. CASE m = 0
  <2>1. Made([k \in 0 .. 0 |-> Base], l, 0)
    BY DEF Made
  <2> QED BY <1>3, <1>4, <2>1
<1>5. CASE m /= 0
  <2>1. m - 1 \in Nat /\ m - 1 \notin T
    BY <1>2, <1>3, <1>5
  <2>2. PICK f : Made(f, l, m - 1)
    BY <2>1
  <2> DEFINE g == [k \in 0 .. m |-> IF k = m THEN Took(l, f[m - 1], m) ELSE f[k]]
  <2>3. \A k \in 0 .. m - 1 : g[k] = f[k]
    BY <1>3
  <2>4. \A k \in 0 .. m : g[k] = IF k = 0 THEN Base ELSE Took(l, g[k - 1], k)
    <3> SUFFICES ASSUME NEW k \in 0 .. m
                 PROVE  g[k] = IF k = 0 THEN Base ELSE Took(l, g[k - 1], k)
      OBVIOUS
    <3>1. CASE k = m
      <4>1. g[m] = Took(l, f[m - 1], m)
        BY <1>3
      <4>2. g[m - 1] = f[m - 1]
        BY <1>3, <1>5, <2>3
      <4> QED BY <1>5, <3>1, <4>1, <4>2
    <3>2. CASE k = 0
      <4>1. f[0] = Base
        BY <1>3, <1>5, <2>2 DEF Made
      <4> QED BY <1>3, <1>5, <2>3, <3>2, <4>1
    <3>3. CASE k /= m /\ k /= 0
      <4>1. k \in 0 .. m - 1 /\ k - 1 \in 0 .. m - 1
        BY <1>3, <3>3
      <4>2. f[k] = Took(l, f[k - 1], k)
        BY <2>2, <3>3, <4>1 DEF Made
      <4> QED BY <2>3, <3>3, <4>1, <4>2
    <3> QED BY <3>1, <3>2, <3>3
  <2>5. DOMAIN g = 0 .. m /\ g = [k \in 0 .. m |-> g[k]]
    OBVIOUS
  <2> HIDE DEF g
  <2>6. Made(g, l, m)
    BY <2>4, <2>5 DEF Made
  <2> QED BY <1>3, <2>6
<1> QED BY <1>4, <1>5

LEMMA ProjectedIs ==
  ASSUME NEW l, Len(l) \in Nat
  PROVE  Made(Projected(l), l, Len(l))
<1>1. PICK f : Made(f, l, Len(l))
  BY MadeAll
<1>2. Projected(l) = CHOOSE h : Made(h, l, Len(l))
  BY DEF Projected, Made, Took, Base
<1> QED BY <1>1, <1>2

(* What holds of nothing, and of one more whenever of some, holds of all.  *)
LEMMA UpTo ==
  ASSUME NEW n \in Nat, NEW S, 0 \in S, \A k \in 0 .. n - 1 : k \in S => k + 1 \in S
  PROVE  \A k \in 0 .. n : k \in S
<1> DEFINE T == {k \in 0 .. n : k \notin S}
<1>1. SUFFICES ASSUME T /= {} PROVE FALSE
  OBVIOUS
<1>2. PICK m \in T : \A k \in T : m <= k
  <2>1. T \in SUBSET Nat
    OBVIOUS
  <2> HIDE DEF T
  <2> QED BY <1>1, <2>1, LeastOne
<1>3. m \in 0 .. n /\ m \notin S /\ m /= 0
  OBVIOUS
<1>4. m - 1 \in 0 .. n - 1 /\ m - 1 \in 0 .. n /\ ~ (m <= m - 1) /\ (m - 1) + 1 = m
  BY <1>3
<1>5. m - 1 \in S
  BY <1>2, <1>4
<1> QED BY <1>3, <1>4, <1>5

LEMMA ProjectedSteps ==
  ASSUME NEW l, Len(l) \in Nat
  PROVE  /\ Projected(l)[0] = Base
         /\ \A n \in 0 .. Len(l) - 1 :
              Projected(l)[n + 1] = Took(l, Projected(l)[n], n + 1)
<1> DEFINE f == Projected(l)
<1>1. Made(f, l, Len(l))
  BY ProjectedIs
<1> HIDE DEF f
<1>2. f[0] = Base
  BY <1>1 DEF Made
<1>3. ASSUME NEW n \in 0 .. Len(l) - 1
      PROVE  f[n + 1] = Took(l, f[n], n + 1)
  <2>1. n + 1 \in 0 .. Len(l) /\ n + 1 /= 0 /\ (n + 1) - 1 = n
    OBVIOUS
  <2> QED BY <1>1, <2>1 DEF Made
<1> QED BY <1>2, <1>3 DEF f

-----------------------------------------------------------------------------
(* A queue in which no post stands twice.                                  *)
Apart(s) == \A i, j \in DOMAIN s : s[i] = s[j] => i = j

(* What queues hold.                                                       *)
LEMMA QueueTail ==
  ASSUME NEW T, NEW s \in Seq(T), s /= <<>>, Apart(s)
  PROVE  /\ Head(s) \in ToSet(s) /\ Apart(Tail(s))
         /\ ToSet(Tail(s)) = ToSet(s) \ {Head(s)}
<1>1. Len(s) \in Nat /\ DOMAIN s = 1 .. Len(s) /\ Len(s) >= 1 /\ Head(s) = s[1]
  OBVIOUS
<1>2. /\ DOMAIN Tail(s) = 1 .. Len(s) - 1
      /\ \A i \in 1 .. Len(s) - 1 : Tail(s)[i] = s[i + 1]
  BY <1>1
<1>3. Head(s) \in ToSet(s)
  BY <1>1 DEF ToSet, Range
<1>4. Apart(Tail(s))
  <2> SUFFICES ASSUME NEW i \in 1 .. Len(s) - 1, NEW j \in 1 .. Len(s) - 1, s[i + 1] = s[j + 1]
               PROVE  i = j
    BY <1>2 DEF Apart
  <2>1. i + 1 \in DOMAIN s /\ j + 1 \in DOMAIN s /\ i \in Nat /\ j \in Nat
    BY <1>1
  <2>2. i + 1 = j + 1
    BY <2>1 DEF Apart
  <2> QED BY <2>1, <2>2
<1>5. \A x : x \in ToSet(s) <=> \E i \in 1 .. Len(s) : x = s[i]
  BY <1>1 DEF ToSet, Range
<1>6. \A x : x \in ToSet(Tail(s)) <=> \E i \in 1 .. Len(s) - 1 : x = s[i + 1]
  BY <1>2 DEF ToSet, Range
<1>7. ASSUME NEW x \in ToSet(Tail(s))
      PROVE  x \in ToSet(s) /\ x /= Head(s)
  <2>1. PICK i \in 1 .. Len(s) - 1 : x = s[i + 1]
    BY <1>6
  <2>2. i + 1 \in 1 .. Len(s) /\ i + 1 /= 1
    BY <1>1
  <2> QED BY <1>1, <1>5, <2>1, <2>2 DEF Apart
<1>8. ASSUME NEW x \in ToSet(s), x /= Head(s)
      PROVE  x \in ToSet(Tail(s))
  <2>1. PICK i \in 1 .. Len(s) : x = s[i]
    BY <1>5
  <2>2. i - 1 \in 1 .. Len(s) - 1 /\ (i - 1) + 1 = i
    BY <1>1, <1>8, <2>1
  <2> QED BY <1>6, <2>1, <2>2
<1> QED BY <1>3, <1>4, <1>7, <1>8

LEMMA QueueAppend ==
  ASSUME NEW T, NEW s \in Seq(T), NEW x \in T
  PROVE  /\ ToSet(Append(s, x)) = ToSet(s) \union {x}
         /\ Apart(s) /\ x \notin ToSet(s) => Apart(Append(s, x))
<1>1. /\ Len(s) \in Nat /\ DOMAIN s = 1 .. Len(s) /\ DOMAIN Append(s, x) = 1 .. Len(s) + 1
      /\ \A i \in 1 .. Len(s) : Append(s, x)[i] = s[i]
      /\ Append(s, x)[Len(s) + 1] = x
  OBVIOUS
<1>2. \A i : i \in 1 .. Len(s) + 1 <=> i \in 1 .. Len(s) \/ i = Len(s) + 1
  BY <1>1
<1>3. \A y : y \in ToSet(s) <=> \E i \in 1 .. Len(s) : y = s[i]
  BY <1>1 DEF ToSet, Range
<1> DEFINE t == Append(s, x)
<1>4. /\ DOMAIN t = 1 .. Len(s) + 1 /\ t[Len(s) + 1] = x
      /\ \A i \in 1 .. Len(s) : t[i] = s[i]
  BY <1>1
<1> HIDE DEF t
<1>5. \A y : y \in ToSet(t) <=> \E i \in 1 .. Len(s) + 1 : y = t[i]
  BY <1>4 DEF ToSet, Range
<1>6. ToSet(t) = ToSet(s) \union {x}
  BY <1>1, <1>2, <1>3, <1>4, <1>5
<1>7. Apart(s) /\ x \notin ToSet(s) => Apart(t)
  BY <1>1, <1>2, <1>3, <1>4 DEF Apart
<1> QED BY <1>6, <1>7 DEF t

LEMMA QueueJoin ==
  ASSUME NEW T, NEW s \in Seq(T), NEW u \in Seq(T)
  PROVE  /\ ToSet(s \o u) = ToSet(s) \union ToSet(u)
         /\ Apart(s) /\ Apart(u) /\ ToSet(s) \intersect ToSet(u) = {} => Apart(s \o u)
<1> DEFINE t == s \o u
<1>1. /\ Len(s) \in Nat /\ DOMAIN s = 1 .. Len(s) /\ Len(u) \in Nat /\ DOMAIN u = 1 .. Len(u)
      /\ DOMAIN t = 1 .. Len(s) + Len(u)
      /\ \A i \in 1 .. Len(s) : t[i] = s[i]
      /\ \A i \in Len(s) + 1 .. Len(s) + Len(u) : t[i] = u[i - Len(s)]
  OBVIOUS
<1>2. \A y : y \in ToSet(s) <=> \E i \in 1 .. Len(s) : y = s[i]
  BY <1>1 DEF ToSet, Range
<1>3. \A y : y \in ToSet(u) <=> \E i \in 1 .. Len(u) : y = u[i]
  BY <1>1 DEF ToSet, Range
<1> HIDE DEF t
<1>4. \A y : y \in ToSet(t) <=> \E i \in 1 .. Len(s) + Len(u) : y = t[i]
  BY <1>1 DEF ToSet, Range
<1>5. ASSUME NEW i \in DOMAIN t
      PROVE  \/ i \in 1 .. Len(s) /\ t[i] = s[i]
             \/ i - Len(s) \in 1 .. Len(u) /\ t[i] = u[i - Len(s)]
  BY <1>1
<1>6. ASSUME NEW k \in 1 .. Len(u)
      PROVE  k + Len(s) \in DOMAIN t /\ t[k + Len(s)] = u[k]
  BY <1>1
<1>7. ASSUME NEW k \in 1 .. Len(s)
      PROVE  k \in DOMAIN t /\ t[k] = s[k]
  BY <1>1
<1>8. ToSet(t) = ToSet(s) \union ToSet(u)
  <2>1. \A y \in ToSet(t) : y \in ToSet(s) \union ToSet(u)
    BY <1>1, <1>2, <1>3, <1>4, <1>5
  <2>2. \A y \in ToSet(s) : y \in ToSet(t)
    BY <1>1, <1>2, <1>4, <1>7
  <2>3. \A y \in ToSet(u) : y \in ToSet(t)
    BY <1>1, <1>3, <1>4, <1>6
  <2> QED BY <2>1, <2>2, <2>3
<1>9. ASSUME Apart(s), Apart(u), ToSet(s) \intersect ToSet(u) = {}
      PROVE  Apart(t)
  <2> SUFFICES ASSUME NEW i \in DOMAIN t, NEW j \in DOMAIN t, t[i] = t[j] PROVE i = j
    BY DEF Apart
  <2>1. CASE i \in 1 .. Len(s) /\ t[i] = s[i] /\ j \in 1 .. Len(s) /\ t[j] = s[j]
    BY <1>1, <1>9, <2>1 DEF Apart
  <2>2. CASE /\ i - Len(s) \in 1 .. Len(u) /\ t[i] = u[i - Len(s)]
             /\ j - Len(s) \in 1 .. Len(u) /\ t[j] = u[j - Len(s)]
    <3>1. i - Len(s) = j - Len(s)
      BY <1>1, <1>9, <2>2 DEF Apart
    <3> QED BY <1>1, <3>1
  <2>3. ASSUME NEW a \in 1 .. Len(s), NEW b \in 1 .. Len(u), s[a] = u[b]
        PROVE  FALSE
    BY <1>2, <1>3, <1>9, <2>3
  <2> QED BY <1>5, <2>1, <2>2, <2>3
<1> QED BY <1>8, <1>9 DEF t

-----------------------------------------------------------------------------
(* What the projection carries.                                            *)

Messages ==
  [role : {"user", "assistant", "tool"}, post : Nat, calls : SUBSET Nat, answers : Nat]

Partly == [body : Seq(Messages), pending : SUBSET Nat, held : Seq(Messages)]

Carried(acc) == ToSet(acc.body) \union ToSet(acc.held)

LEMMA MessageTyped ==
  ASSUME NEW e \in Event, e.kind \in Emits
  PROVE  /\ MessageOf(e) \in Messages
         /\ MessageOf(e).post = IF e.kind = "user_message" THEN e.post ELSE 0
         /\ MessageOf(e).role = CASE e.kind = "assistant_message" -> "assistant"
                                  [] e.kind = "tool_result" -> "tool"
                                  [] OTHER -> "user"
         /\ e.kind = "tool_result" => MessageOf(e).answers = e.call /\ e.call \in 1 .. MaxCalls
         /\ e.kind /= "tool_result" => MessageOf(e).answers = 0
         /\ e.kind = "assistant_message" =>
              MessageOf(e).calls = {c.id : c \in ToSet(e.calls)}
<1>1. CASE e.kind = "user_message"
  <2>1. e.post \in Nat
    BY <1>1 DEF Event
  <2> QED BY <1>1, <2>1 DEF MessageOf, Message, Messages
<1>2. CASE e.kind = "assistant_message"
  <2>1. e.calls \in Seq(Call)
    BY <1>2 DEF Event
  <2>2. \A c \in ToSet(e.calls) : c \in Call
    BY <2>1 DEF ToSet, Range
  <2>3. \A c \in ToSet(e.calls) : c.id \in Nat
    BY <2>2 DEF Call
  <2>4. {c.id : c \in ToSet(e.calls)} \in SUBSET Nat
    BY <2>3
  <2> QED BY <1>2, <2>4 DEF MessageOf, Message, Messages
<1>3. CASE e.kind = "tool_result"
  <2>1. e.call \in 1 .. MaxCalls /\ \A c \in 1 .. MaxCalls : c \in Nat
    BY <1>3, TurnConstants DEF Event
  <2> QED BY <1>3, <2>1 DEF MessageOf, Message, Messages
<1>4. CASE e.kind \notin {"user_message", "assistant_message", "tool_result"}
  BY <1>4 DEF MessageOf, Message, Messages
<1> QED BY <1>1, <1>2, <1>3, <1>4

LEMMA PartlyMade ==
  ASSUME NEW b \in Seq(Messages), NEW p \in SUBSET Nat, NEW h \in Seq(Messages)
  PROVE  /\ [body |-> b, pending |-> p, held |-> h] \in Partly
         /\ Carried([body |-> b, pending |-> p, held |-> h]) = ToSet(b) \union ToSet(h)
<1>1. [body |-> b, pending |-> p, held |-> h] \in Partly
  BY DEF Partly
<1>2. Carried([body |-> b, pending |-> p, held |-> h]) = ToSet(b) \union ToSet(h)
  BY DEF Carried
<1> QED BY <1>1, <1>2

LEMMA PushTyped ==
  ASSUME NEW acc \in Partly, NEW m \in Messages
  PROVE  Push(acc, m) \in Partly /\ Carried(Push(acc, m)) = Carried(acc) \union {m}
<1> DEFINE b == acc.body
           p == acc.pending
           h == acc.held
<1>0. /\ b \in Seq(Messages) /\ p \in SUBSET Nat /\ h \in Seq(Messages)
      /\ acc = [body |-> b, pending |-> p, held |-> h]
      /\ m.calls \in SUBSET Nat /\ m.role \in {"user", "assistant", "tool"}
      /\ acc.body = b /\ acc.pending = p /\ acc.held = h
  BY DEF Partly, Messages
<1>s. ToSet(<<>>) = {}
  BY DEF ToSet, Range
<1>c. Carried(acc) = ToSet(b) \union ToSet(h)
  BY DEF Carried
<1>e. <<>> \in Seq(Messages) /\ {} \in SUBSET Nat
  OBVIOUS
<1> HIDE DEF b, p, h
<1>1. CASE m.role = "tool"
  <2> DEFINE bb == Append(b, m)
             pp == p \ {m.answers}
  <2>1. bb \in Seq(Messages) /\ ToSet(bb) = ToSet(b) \union {m}
    BY <1>0, QueueAppend
  <2>2. pp \in SUBSET Nat
    BY <1>0
  <2>3. /\ pp = {} => Push(acc, m) = [body |-> bb \o h, pending |-> {}, held |-> <<>>]
        /\ pp /= {} => Push(acc, m) = [body |-> bb, pending |-> pp, held |-> h]
    BY <1>0, <1>1 DEF Push
  <2> HIDE DEF bb, pp
  <2>4. bb \o h \in Seq(Messages) /\ ToSet(bb \o h) = ToSet(bb) \union ToSet(h)
    BY <1>0, <2>1, QueueJoin
  <2>5. CASE pp = {}
    <3>1. /\ [body |-> bb \o h, pending |-> {}, held |-> <<>>] \in Partly
          /\ Carried([body |-> bb \o h, pending |-> {}, held |-> <<>>]) = ToSet(bb \o h) \union ToSet(<<>>)
      BY <1>e, <2>4, PartlyMade
    <3> QED BY <1>c, <1>s, <2>1, <2>3, <2>4, <2>5, <3>1
  <2>6. CASE pp /= {}
    <3>1. /\ [body |-> bb, pending |-> pp, held |-> h] \in Partly
          /\ Carried([body |-> bb, pending |-> pp, held |-> h]) = ToSet(bb) \union ToSet(h)
      BY <1>0, <2>1, <2>2, PartlyMade
    <3> QED BY <1>c, <2>1, <2>3, <2>6, <3>1
  <2> QED BY <2>5, <2>6
<1>2. CASE m.role = "assistant"
  <2> DEFINE bb == b \o h
  <2>1. bb \in Seq(Messages) /\ ToSet(bb) = ToSet(b) \union ToSet(h)
    BY <1>0, QueueJoin
  <2>2. Push(acc, m) = [body |-> Append(bb, m), pending |-> m.calls, held |-> <<>>]
    BY <1>0, <1>2 DEF Push
  <2> HIDE DEF bb
  <2>3. Append(bb, m) \in Seq(Messages) /\ ToSet(Append(bb, m)) = ToSet(bb) \union {m}
    BY <2>1, QueueAppend
  <2>4. /\ [body |-> Append(bb, m), pending |-> m.calls, held |-> <<>>] \in Partly
        /\ Carried([body |-> Append(bb, m), pending |-> m.calls, held |-> <<>>]) =
             ToSet(Append(bb, m)) \union ToSet(<<>>)
    BY <1>0, <1>e, <2>3, PartlyMade
  <2> QED BY <1>c, <1>s, <2>1, <2>2, <2>3, <2>4
<1>3. CASE m.role = "user" /\ p /= {}
  <2>1. Append(h, m) \in Seq(Messages) /\ ToSet(Append(h, m)) = ToSet(h) \union {m}
    BY <1>0, QueueAppend
  <2>2. Push(acc, m) = [body |-> b, pending |-> p, held |-> Append(h, m)]
    BY <1>0, <1>3 DEF Push
  <2>3. /\ [body |-> b, pending |-> p, held |-> Append(h, m)] \in Partly
        /\ Carried([body |-> b, pending |-> p, held |-> Append(h, m)]) =
             ToSet(b) \union ToSet(Append(h, m))
    BY <1>0, <2>1, PartlyMade
  <2> QED BY <1>c, <2>1, <2>2, <2>3
<1>4. CASE m.role = "user" /\ p = {}
  <2>1. Append(b, m) \in Seq(Messages) /\ ToSet(Append(b, m)) = ToSet(b) \union {m}
    BY <1>0, QueueAppend
  <2>2. Push(acc, m) = [body |-> Append(b, m), pending |-> p, held |-> h]
    BY <1>0, <1>4 DEF Push
  <2>3. /\ [body |-> Append(b, m), pending |-> p, held |-> h] \in Partly
        /\ Carried([body |-> Append(b, m), pending |-> p, held |-> h]) =
             ToSet(Append(b, m)) \union ToSet(h)
    BY <1>0, <2>1, PartlyMade
  <2> QED BY <1>c, <2>1, <2>2, <2>3
<1> QED BY <1>0, <1>1, <1>2, <1>3, <1>4

(* The posts among the first n events that the horizon lets through.       *)
Posted(l) == Events(l, "user_message")
PostsUpTo(l, n) ==
  {l[i].post : i \in {k \in Posted(l) : k <= n /\ ~BeyondHorizon(l, k)}} \ {0}
PostsIn(ms) == {m.post : m \in ms} \ {0}

LEMMA CarriedSoFar ==
  ASSUME NEW l \in Seq(Event)
  PROVE  \A n \in 0 .. Len(l) :
           Projected(l)[n] \in Partly /\ PostsIn(Carried(Projected(l)[n])) = PostsUpTo(l, n)
<1> DEFINE f == Projected(l)
           S == {n \in 0 .. Len(l) : f[n] \in Partly /\ PostsIn(Carried(f[n])) = PostsUpTo(l, n)}
<1>0. Len(l) \in Nat /\ DOMAIN l = 1 .. Len(l) /\ \A i \in 1 .. Len(l) : l[i] \in Event
  OBVIOUS
<1>1. f[0] = Base /\ \A n \in 0 .. Len(l) - 1 : f[n + 1] = Took(l, f[n], n + 1)
  BY <1>0, ProjectedSteps
<1>2. \A n : \A i \in Posted(l) : i \in 1 .. Len(l)
  BY <1>0 DEF Posted, Events
<1> HIDE DEF f
<1>3. 0 \in S
  <2>1. <<>> \in Seq(Messages) /\ {} \in SUBSET Nat /\ ToSet(<<>>) = {}
    BY DEF ToSet, Range
  <2>2. Base \in Partly /\ Carried(Base) = {}
    BY <2>1, PartlyMade DEF Base
  <2>3. PostsUpTo(l, 0) = {}
    BY <1>0, <1>2 DEF PostsUpTo
  <2>4. PostsIn({}) = {}
    BY DEF PostsIn
  <2>5. f[0] \in Partly /\ PostsIn(Carried(f[0])) = PostsUpTo(l, 0)
    BY <1>1, <2>2, <2>3, <2>4
  <2> QED BY <1>0, <2>5
<1>4. ASSUME NEW n \in 0 .. Len(l) - 1, n \in S
      PROVE  n + 1 \in S
  <2>1. f[n] \in Partly /\ PostsIn(Carried(f[n])) = PostsUpTo(l, n)
    BY <1>4
  <2>2. n + 1 \in 0 .. Len(l) /\ l[n + 1] \in Event /\ n + 1 \in 1 .. Len(l) /\ n \in Nat
    BY <1>0
  <2>3. f[n + 1] = Took(l, f[n], n + 1)
    BY <1>1
  <2>4. \A i \in Posted(l) : i <= n + 1 <=> i <= n \/ i = n + 1
    BY <1>2, <2>2
  <2>5. n + 1 \in Posted(l) <=> l[n + 1].kind = "user_message"
    BY <1>0, <2>2 DEF Posted, Events
  <2>6. CASE Kept(l, n + 1)
    <3> DEFINE m == MessageOf(l[n + 1])
    <3>1. /\ m \in Messages /\ m.post = IF l[n + 1].kind = "user_message" THEN l[n + 1].post ELSE 0
          /\ ~BeyondHorizon(l, n + 1)
      BY <2>2, <2>6, MessageTyped DEF Kept
    <3> HIDE DEF m
    <3>2. f[n + 1] = Push(f[n], m)
      BY <2>3, <2>6 DEF Took, m
    <3>3. f[n + 1] \in Partly /\ Carried(f[n + 1]) = Carried(f[n]) \union {m}
      BY <2>1, <3>1, <3>2, PushTyped
    <3>4. PostsIn(Carried(f[n + 1])) = PostsIn(Carried(f[n])) \union ({m.post} \ {0})
      BY <3>3 DEF PostsIn
    <3>5. PostsUpTo(l, n + 1) = PostsUpTo(l, n) \union
             (IF l[n + 1].kind = "user_message" THEN {l[n + 1].post} \ {0} ELSE {})
      BY <2>4, <2>5, <3>1 DEF PostsUpTo
    <3>6. (IF l[n + 1].kind = "user_message" THEN {l[n + 1].post} \ {0} ELSE {}) = {m.post} \ {0}
      BY <3>1
    <3>7. PostsIn(Carried(f[n + 1])) = PostsUpTo(l, n + 1)
      BY <2>1, <3>4, <3>5, <3>6
    <3> QED BY <2>2, <3>3, <3>7
  <2>7. CASE ~Kept(l, n + 1)
    <3>1. f[n + 1] = f[n]
      BY <2>3, <2>7 DEF Took
    <3>2. n + 1 \in Posted(l) => BeyondHorizon(l, n + 1)
      BY <2>5, <2>7 DEF Kept, Emits
    <3>3. PostsUpTo(l, n + 1) = PostsUpTo(l, n)
      BY <2>4, <3>2 DEF PostsUpTo
    <3> QED BY <2>1, <2>2, <3>1, <3>3
  <2> QED BY <2>6, <2>7
<1> HIDE DEF S
<1>5. \A n \in 0 .. Len(l) : n \in S
  BY <1>0, <1>3, <1>4, UpTo
<1> QED BY <1>5 DEF S, f

(* What a request shows is what the horizon lets through, and all of it.   *)
LEMMA ShownIs ==
  ASSUME NEW l \in Seq(Event)
  PROVE  Shown(l) = {l[i].post : i \in {k \in Posted(l) : ~BeyondHorizon(l, k)}} \ {0}
<1> DEFINE acc == Projected(l)[Len(l)]
<1>0. Len(l) \in Nat /\ DOMAIN l = 1 .. Len(l) /\ Len(l) \in 0 .. Len(l)
  OBVIOUS
<1>1. acc \in Partly /\ PostsIn(Carried(acc)) = PostsUpTo(l, Len(l))
  BY <1>0, CarriedSoFar
<1>2. Project(l) = acc.body \o acc.held
  BY DEF Project
<1> HIDE DEF acc
<1>3. acc.body \in Seq(Messages) /\ acc.held \in Seq(Messages)
  BY <1>1 DEF Partly
<1>4. ToSet(Project(l)) = Carried(acc)
  BY <1>2, <1>3, QueueJoin DEF Carried
<1>5. Shown(l) = PostsIn(Carried(acc))
  BY <1>4 DEF Shown, PostsIn
<1>6. \A i \in Posted(l) : i <= Len(l)
  BY <1>0 DEF Posted, Events
<1>7. PostsUpTo(l, Len(l)) = {l[i].post : i \in {k \in Posted(l) : ~BeyondHorizon(l, k)}} \ {0}
  BY <1>6 DEF PostsUpTo
<1> QED BY <1>1, <1>5, <1>7

-----------------------------------------------------------------------------
(* Posts and where they are.                                               *)

PostedOnce(l) == \A i, j \in Posted(l) : l[i].post = l[j].post => i = j

(* A post is in the log, in the inbox, held, or about to start a turn, and *)
(* nowhere twice; what a model call is shown is in the log.                *)
PostsAt(l, in, he, st, n, cx) ==
  /\ PostsOf(l) \subseteq 1 .. n
  /\ PostedOnce(l) /\ Apart(in) /\ Apart(he)
  /\ ToSet(in) \intersect ToSet(he) = {}
  /\ (ToSet(in) \union ToSet(he) \union {st}) \intersect PostsOf(l) = {}
  /\ st \notin ToSet(in) \union ToSet(he)
  /\ cx \subseteq PostsOf(l)

Starting == starting = 0 <=> pc /= "start"

PostsInv == Starting /\ PostsAt(log, inbox, held, starting, posts, context)

LEMMA GrownPosts ==
  ASSUME NEW l, NEW ll, NEW e, Grows(l, ll, e), PostedOnce(l)
  PROVE  /\ e.kind /= "user_message" => PostsOf(ll) = PostsOf(l) /\ PostedOnce(ll)
         /\ e.kind = "user_message" => PostsOf(ll) = PostsOf(l) \union {e.post}
         /\ e.kind = "user_message" /\ e.post \notin PostsOf(l) => PostedOnce(ll)
<1>1. /\ Len(l) \in Nat
      /\ ll[Len(l) + 1] = e /\ \A i \in 1 .. Len(l) : ll[i] = l[i]
      /\ \A k : Events(l, k) \subseteq 1 .. Len(l)
      /\ \A k : Events(ll, k) = Events(l, k) \union (IF e.kind = k THEN {Len(l) + 1} ELSE {})
  BY Grown
<1>2. \A i \in Posted(l) : ll[i] = l[i]
  BY <1>1 DEF Posted
<1>3. CASE e.kind /= "user_message"
  <2>1. Posted(ll) = Posted(l)
    BY <1>1, <1>3 DEF Posted
  <2>2. PostsOf(ll) = PostsOf(l)
    BY <1>2, <2>1 DEF PostsOf, Posted
  <2> QED BY <1>2, <1>3, <2>1, <2>2 DEF PostedOnce
<1>4. CASE e.kind = "user_message"
  <2>1. Posted(ll) = Posted(l) \union {Len(l) + 1}
    BY <1>1, <1>4 DEF Posted
  <2>2. PostsOf(ll) = PostsOf(l) \union {e.post}
    BY <1>1, <1>2, <2>1 DEF PostsOf, Posted
  <2>3. \A i \in Posted(l) : l[i].post \in PostsOf(l)
    BY DEF PostsOf, Posted
  <2>4. e.post \notin PostsOf(l) => PostedOnce(ll)
    BY <1>1, <1>2, <2>1, <2>3 DEF PostedOnce
  <2> QED BY <1>4, <2>2, <2>4
<1> QED BY <1>3, <1>4


-----------------------------------------------------------------------------
(* What a step does to them.                                               *)

NotWorking(p) == p \in OutOfTurn \union Booting

LogRests == log' = log \/ \E e : Grows(log, log', e) /\ e.kind /= "user_message"

(* Nothing arrives or goes; a turn that ends or begins empties the rest.   *)
Rests ==
  /\ inbox' = inbox \/ (inbox' = <<>> /\ (pc = "end" \/ NotWorking(pc)))
  /\ held' = held \/ (held' = <<>> /\ NotWorking(pc))
  /\ LogRests /\ UNCHANGED <<starting, posts, lost, read>>

Holds ==
  /\ inbox /= <<>> /\ held' = Append(held, Head(inbox)) /\ inbox' = Tail(inbox)
  /\ UNCHANGED <<log, starting, posts, lost, read>>

Gathers ==
  /\ held' = held \o inbox /\ inbox' = <<>>
  /\ read' \in {read, read \union context}
  /\ LogRests /\ UNCHANGED <<starting, posts, lost>>

Logs(p) == \E mid, steer \in BOOLEAN : Grows(log, log', UserMessage(p, mid, steer))

Drains ==
  /\ inbox /= <<>> /\ Logs(Head(inbox)) /\ inbox' = Tail(inbox)
  /\ UNCHANGED <<held, starting, posts, lost, read>>

Flushes ==
  /\ held /= <<>> /\ Logs(Head(held)) /\ held' = Tail(held)
  /\ UNCHANGED <<inbox, starting, posts, lost, read>>

Starts ==
  /\ pc = "start" /\ Logs(starting) /\ starting' = 0
  /\ UNCHANGED <<inbox, held, posts, lost, read>>

AcceptsIdle ==
  /\ pc = "idle" /\ posts < MaxPosts /\ posts' = posts + 1 /\ starting' = posts + 1
  /\ inbox' = <<>> /\ held' = <<>>
  /\ LogRests /\ UNCHANGED <<lost, read>>

AcceptsRunning ==
  /\ posts < MaxPosts /\ posts' = posts + 1 /\ inbox' = Append(inbox, posts + 1)
  /\ UNCHANGED <<log, held, starting, lost, read>>

Dies ==
  /\ lost' = lost \union (InMemory \ PostsOf(log))
  /\ inbox' = <<>> /\ held' = <<>> /\ starting' = 0
  /\ UNCHANGED <<log, posts, read>>

PostsMove ==
  \/ Rests \/ Holds \/ Gathers \/ Drains \/ Flushes
  \/ Starts \/ AcceptsIdle \/ AcceptsRunning \/ Dies

Contexts == context' \in {context, {}, Shown(log)}

LEMMA SilentEvents ==
  /\ \A calls : AssistantMessage(calls).kind /= "user_message"
  /\ \A c, o : ToolResult(c, o).kind /= "user_message"
  /\ \A c : PermissionRequested(c).kind /= "user_message"
  /\ \A c, a, b : PermissionDecided(c, a, b).kind /= "user_message"
  /\ \A b, c : DecisionProposed(b, c).kind /= "user_message"
  /\ \A i, a : DecisionAnswered(i, a).kind /= "user_message"
  /\ \A to : ProjectSwitched(to).kind /= "user_message"
  /\ ProviderRetried.kind /= "user_message"
  /\ \A j : JobFinished(j).kind /= "user_message"
  /\ \A b : Interrupted(b).kind /= "user_message"
  /\ \A r : TurnEnded(r).kind /= "user_message"
BY DEF AssistantMessage, ToolResult, PermissionRequested, PermissionDecided, DecisionProposed,
   DecisionAnswered, ProjectSwitched, ProviderRetried, JobFinished, Interrupted, TurnEnded

LEMMA SilentAppend ==
  ASSUME TypeInv, TypeInv', NEW e, log' = Append(log, e), e.kind /= "user_message"
  PROVE  LogRests
BY AppendGrows DEF LogRests

LEMMA PostsTurn ==
  ASSUME TypeInv, TypeInv', TurnStep, UNCHANGED <<actorVars, bookVars>>
  PROVE  PostsMove /\ Contexts
<1> USE DEF mailVars, batchVars, loopVars, actorVars, bookVars
<1>0. \A e : Write(e) => log' = Append(log, e)
  BY DEF Write
<1>r. ASSUME NEW origin, Result(origin)
      PROVE  /\ log' = Append(log, ToolResult(Head(batch).id, origin))
             /\ ToolResult(Head(batch).id, origin).kind /= "user_message"
             /\ UNCHANGED <<inbox, held, context, read>>
  BY <1>r, SilentEvents DEF Result, Write
<1>1. CASE Loop
  <2>1. ASSUME NEW place \in {"loop", "calls", "tool", "after_calls"}, DrainAt(place)
        PROVE  Drains /\ Contexts
    <3>1. log' = Append(log, UserMessage(Head(inbox), TRUE, TRUE))
      BY <2>1 DEF DrainAt, AppendQueued, Write
    <3>2. Logs(Head(inbox))
      BY <3>1, AppendGrows DEF Logs
    <3> QED BY <2>1, <3>2 DEF DrainAt, Drains, Contexts
  <2>2. CASE FlushHeld
    <3>1. log' = Append(log, UserMessage(Head(held), TRUE, TRUE))
      BY <2>2 DEF FlushHeld, AppendQueued, Write
    <3>2. Logs(Head(held))
      BY <3>1, AppendGrows DEF Logs
    <3> QED BY <2>2, <3>2 DEF FlushHeld, Flushes, Contexts, PostsMove
  <2>3. CASE InterruptedAtTop \/ BudgetSpent \/ Compact \/ CompactionFails \/ Request
    BY <2>3 DEF InterruptedAtTop, BudgetSpent, Compact, CompactionFails, Request, Rests,
       LogRests, Contexts, PostsMove
  <2> QED BY <1>1, <2>1, <2>2, <2>3 DEF Loop, PostsMove
<1>2. CASE Stream
  <2>1. CASE StreamHolds
    BY <2>1 DEF StreamHolds, Holds, Contexts, PostsMove
  <2>2. CASE StreamInterrupted
    BY <2>2 DEF StreamInterrupted, Gathers, LogRests, Contexts, PostsMove
  <2>3. CASE StreamRetried
    <3>1. LogRests
      BY <1>0, <2>3, SilentEvents, SilentAppend DEF StreamRetried
    <3> QED BY <2>3, <3>1 DEF StreamRetried, StreamOver, Gathers, Contexts, PostsMove
  <2>4. CASE StreamFails
    BY <2>4 DEF StreamFails, StreamOver, Gathers, LogRests, Contexts, PostsMove
  <2>5. CASE StreamReplies
    <3>1. LogRests
      BY <1>0, <2>5, SilentEvents, SilentAppend DEF StreamReplies
    <3> QED BY <2>5, <3>1 DEF StreamReplies, StreamOver, Gathers, Contexts, PostsMove
  <2> QED BY <1>2, <2>1, <2>2, <2>3, <2>4, <2>5 DEF Stream
<1>3. CASE Calls
  <2>1. /\ log' = log \/ \E e : log' = Append(log, e) /\ e.kind /= "user_message"
        /\ UNCHANGED <<inbox, held, context, read>>
    <3>1. CASE LengthStop \/ Siblings
      BY <1>0, <3>1, SilentEvents DEF LengthStop, Siblings, NotRun
    <3>2. CASE ToolDone \/ ToolKilled
      <4>1. PICK origin : Result(origin)
        BY <3>2 DEF ToolDone, ToolKilled
      <4> QED BY <1>r, <4>1
    <3>3. CASE RequestGranted
      BY <1>0, <3>3, SilentEvents DEF RequestGranted
    <3>5. CASE Granted
      <4>1. PICK allow, by : Write(PermissionDecided(Head(batch).id, allow, by))
        BY <3>5 DEF Granted
      <4>2. PermissionDecided(Head(batch).id, allow, by).kind /= "user_message"
        BY SilentEvents
      <4> QED BY <1>0, <3>5, <4>1, <4>2 DEF Granted
    <3>6. CASE RunPlain
      BY <3>6 DEF RunPlain
    <3>4. CASE AskPermission \/ AskHuman \/ Propose
      BY <3>4, SilentEvents DEF AskPermission, AskHuman, Propose, Register
    <3> QED BY <1>3, <3>1, <3>2, <3>3, <3>4, <3>5, <3>6 DEF Calls
  <2>2. LogRests
    BY <2>1, SilentAppend DEF LogRests
  <2> QED BY <2>1, <2>2 DEF Rests, Contexts, PostsMove
<1>4. CASE Wait
  <2>1. /\ \E e : log' = Append(log, e) /\ e.kind /= "user_message"
        /\ UNCHANGED <<inbox, held, context, read>>
    <3>1. CASE HumanInterrupted \/ HumanAnswered \/ Said \/ Refused
      <4>1. PICK origin : Result(origin)
        BY <3>1 DEF HumanInterrupted, HumanAnswered, Said, Refused
      <4> QED BY <1>r, <4>1
    <3>2. CASE PermissionInterrupted \/ PermissionAllowed \/ PermissionDenied
      <4>1. PICK allow, by, next : Settle(PermissionDecided(Head(batch).id, allow, by), next)
        BY <3>2 DEF PermissionInterrupted, PermissionAllowed, PermissionDenied
      <4> QED BY <1>0, <4>1, SilentEvents DEF Settle
    <3>3. CASE \/ ProposalInterrupted \/ Declined \/ SwitchAgreed \/ SwitchRecorded
               \/ SwitchFails \/ JobApproved
      BY <1>0, <3>3, SilentEvents
      DEF ProposalInterrupted, Declined, SwitchAgreed, SwitchRecorded, SwitchFails, JobApproved,
          Settle
    <3> QED BY <1>4, <3>1, <3>2, <3>3 DEF Wait
  <2>2. LogRests
    BY <2>1, SilentAppend DEF LogRests
  <2> QED BY <2>1, <2>2 DEF Rests, Contexts, PostsMove
<1>5. CASE Ending
  <2>1. CASE FlushLast
    <3>1. log' = Append(log, UserMessage(Head(held), TRUE, FALSE))
      BY <2>1 DEF FlushLast, AppendQueued, Write
    <3>2. Logs(Head(held))
      BY <3>1, AppendGrows DEF Logs
    <3> QED BY <2>1, <3>2 DEF FlushLast, Flushes, Contexts, PostsMove
  <2>2. CASE Synthetic \/ BatchOver \/ NoteInterrupt
    <3>1. /\ log' = log \/ \E e : log' = Append(log, e) /\ e.kind /= "user_message"
          /\ UNCHANGED <<inbox, held, context, read>>
      BY <1>0, <2>2, SilentEvents DEF Synthetic, NotRun, BatchOver, NoteInterrupt
    <3>2. LogRests
      BY <3>1, SilentAppend DEF LogRests
    <3> QED BY <3>1, <3>2 DEF Rests, Contexts, PostsMove
  <2>3. CASE EndTurn
    <3>1. LogRests
      BY <1>0, <2>3, SilentEvents, SilentAppend DEF EndTurn
    <3> QED BY <2>3, <3>1 DEF EndTurn, Rests, Contexts, PostsMove
  <2> QED BY <1>5, <2>1, <2>2, <2>3 DEF Ending
<1> QED BY <1>1, <1>2, <1>3, <1>4, <1>5 DEF TurnStep

LEMMA PostsActor ==
  ASSUME TypeInv, TypeInv', Next, ~RunTurn
  PROVE  PostsMove /\ Contexts
<1> USE DEF mailVars, batchVars, loopVars, actorVars, bookVars
<1>0. \A e : Write(e) => log' = Append(log, e)
  BY DEF Write
<1>1. CASE StartTurn
  <2>1. log' = Append(log, UserMessage(starting, FALSE, FALSE))
    BY <1>1 DEF StartTurn, Write
  <2>2. Logs(starting)
    BY <2>1, AppendGrows DEF Logs
  <2> QED BY <1>1, <2>2 DEF StartTurn, Starts, Contexts, PostsMove
<1>2. CASE PostIdle
  <2>1. log' = log \/ log' = Append(log, Withdrawn)
    BY <1>2 DEF PostIdle
  <2>2. LogRests
    BY <2>1, SilentEvents, SilentAppend DEF Withdrawn, LogRests
  <2> QED BY <1>2, <2>2 DEF PostIdle, Begin, AcceptsIdle, Contexts, PostsMove
<1>3. CASE PostRunning
  BY <1>3 DEF PostRunning, AcceptsRunning, Contexts, PostsMove
<1>4. CASE Crash
  BY <1>4 DEF Crash, Dies, Contexts, PostsMove
<1>5. CASE Continue
  BY <1>5 DEF Continue, Begin, Rests, LogRests, Contexts, PostsMove, NotWorking, OutOfTurn
<1>6. CASE Boot
  BY <1>6 DEF Boot, Begin, Rests, LogRests, Contexts, PostsMove, NotWorking, Booting
<1>7. CASE \/ WriteNote \/ GoIdle \/ SideJobs \/ RecordIdle \/ SwitchByHand
           \/ SwitchByHandFails \/ RecordStartupAsk \/ WithdrawOpen \/ RestoreTurnEnded
           \/ AnswerUnanswered \/ NoteCrash \/ NothingOpen \/ AlreadyNoted
  <2>1. /\ log' = log \/ \E e : log' = Append(log, e) /\ e.kind /= "user_message"
        /\ UNCHANGED <<inbox, held, context, read, starting, posts, lost>>
    BY <1>0, <1>7, SilentEvents
    DEF WriteNote, GoIdle, SideJobs, RecordIdle, SwitchByHand, SwitchByHandFails, Move,
        RecordStartupAsk, WithdrawOpen, RestoreTurnEnded, AnswerUnanswered, NoteCrash, Repair,
        NothingOpen, AlreadyNoted, Resumed
  <2>2. LogRests
    BY <2>1, SilentAppend DEF LogRests
  <2> QED BY <2>1, <2>2 DEF Rests, Contexts, PostsMove
<1>8. CASE \/ Interrupt \/ Decide \/ JobReturns \/ ProposeIdle \/ DeclineIdle \/ FailIdle
           \/ AgreeIdle \/ WithdrawByHand \/ StartupAsk
  <2>1. /\ log' = log \/ \E e : log' = Append(log, e) /\ e.kind /= "user_message"
        /\ UNCHANGED <<inbox, held, context, read, starting, posts, lost>>
    BY <1>0, <1>8, SilentEvents
    DEF Interrupt, Decide, JobReturns, ProposeIdle, DeclineIdle, FailIdle, AgreeIdle, AnswerIdle,
        WithdrawByHand, Withdrawn, StartupAsk
  <2>2. LogRests
    BY <2>1, SilentAppend DEF LogRests
  <2> QED BY <2>1, <2>2 DEF Rests, Contexts, PostsMove
<1> QED BY <1>1, <1>2, <1>3, <1>4, <1>5, <1>6, <1>7, <1>8 DEF Next, ActorStep, Mail

-----------------------------------------------------------------------------
(* Nothing stands twice.                                                   *)

(* What queues of posts hold.                                              *)
LEMMA QueueRange ==
  ASSUME NEW n \in Nat, NEW s \in Seq(1 .. n)
  PROVE  ToSet(s) \subseteq 1 .. n
BY DEF ToSet, Range

LEMMA NothingQueued == ToSet(<<>>) = {} /\ Apart(<<>>)
BY DEF ToSet, Range, Apart

LEMMA ShownPosted ==
  ASSUME NEW l \in Seq(Event)
  PROVE  Shown(l) \subseteq PostsOf(l)
BY ShownIs DEF PostsOf, Posted

(* The log may grow by what is no message.                                 *)
LEMMA PostsStay ==
  ASSUME NEW l \in Seq(Event), NEW ll, NEW in, NEW he, NEW st, NEW n, NEW cx,
         PostsAt(l, in, he, st, n, cx),
         ll = l \/ \E e : Grows(l, ll, e) /\ e.kind /= "user_message",
         NEW cx2 \in {cx, {}, Shown(l)}
  PROVE  PostsAt(ll, in, he, st, n, cx2) /\ PostsOf(ll) = PostsOf(l)
<1>1. PostsOf(ll) = PostsOf(l) /\ PostedOnce(ll)
  BY GrownPosts DEF PostsAt
<1>2. cx2 \subseteq PostsOf(l)
  BY ShownPosted DEF PostsAt
<1> QED BY <1>1, <1>2 DEF PostsAt

LEMMA PostsHold ==
  ASSUME NEW l, NEW n \in Nat, NEW in \in Seq(1 .. n), NEW he \in Seq(1 .. n), NEW st, NEW cx,
         PostsAt(l, in, he, st, n, cx), in /= <<>>
  PROVE  /\ PostsAt(l, Tail(in), Append(he, Head(in)), st, n, cx)
         /\ ToSet(Tail(in)) \union ToSet(Append(he, Head(in))) = ToSet(in) \union ToSet(he)
<1>1. Head(in) \in ToSet(in) /\ Apart(Tail(in)) /\ ToSet(Tail(in)) = ToSet(in) \ {Head(in)}
  BY QueueTail DEF PostsAt
<1>2. Head(in) \in 1 .. n
  OBVIOUS
<1>3. Head(in) \notin ToSet(he)
  BY <1>1 DEF PostsAt
<1>4. /\ ToSet(Append(he, Head(in))) = ToSet(he) \union {Head(in)}
      /\ Apart(he) => Apart(Append(he, Head(in)))
  BY <1>2, <1>3, QueueAppend
<1> QED BY <1>1, <1>3, <1>4 DEF PostsAt

LEMMA PostsGather ==
  ASSUME NEW l, NEW n \in Nat, NEW in \in Seq(1 .. n), NEW he \in Seq(1 .. n), NEW st, NEW cx,
         PostsAt(l, in, he, st, n, cx)
  PROVE  /\ PostsAt(l, <<>>, he \o in, st, n, cx)
         /\ ToSet(he \o in) = ToSet(in) \union ToSet(he)
<1>1. /\ ToSet(he \o in) = ToSet(he) \union ToSet(in)
      /\ Apart(he) /\ Apart(in) /\ ToSet(he) \intersect ToSet(in) = {} => Apart(he \o in)
  BY QueueJoin
<1> QED BY <1>1, NothingQueued DEF PostsAt

(* A post moves from where it was into the log.                            *)
LEMMA PostsLog ==
  ASSUME NEW l, NEW ll, NEW in, NEW he, NEW st, NEW n, NEW cx, NEW p \in 1 .. n,
         PostsAt(l, in, he, st, n, cx), p \notin PostsOf(l),
         NEW mid, NEW steer, Grows(l, ll, UserMessage(p, mid, steer)),
         NEW in2, NEW he2, NEW st2, NEW cx2,
         Apart(in2), Apart(he2),
         ToSet(in2) \subseteq ToSet(in) \ {p}, ToSet(he2) \subseteq ToSet(he) \ {p},
         st2 \in {st, 0} \ {p}, 0 \notin ToSet(in) \union ToSet(he) \union PostsOf(l),
         cx2 \in {cx, {}, Shown(l)}
  PROVE  PostsAt(ll, in2, he2, st2, n, cx2) /\ PostsOf(ll) = PostsOf(l) \union {p}
<1> DEFINE e == UserMessage(p, mid, steer)
<1>1. e.kind = "user_message" /\ e.post = p /\ Grows(l, ll, e)
  BY DEF UserMessage
<1> HIDE DEF e
<1>2. PostsOf(ll) = PostsOf(l) \union {p} /\ PostedOnce(ll)
  BY <1>1, GrownPosts DEF PostsAt
<1>3. cx2 \subseteq PostsOf(l)
  BY <1>1, ShownPosted DEF PostsAt, Grows
<1>4. PostsOf(ll) \subseteq 1 .. n
  BY <1>2 DEF PostsAt
<1>5. st2 \notin PostsOf(ll) /\ st2 \notin ToSet(in2) \union ToSet(he2)
  BY <1>2 DEF PostsAt
<1> QED BY <1>2, <1>3, <1>4, <1>5 DEF PostsAt

LEMMA PostsAccept ==
  ASSUME NEW l, NEW n \in Nat, NEW in \in Seq(1 .. n), NEW he \in Seq(1 .. n),
         NEW st \in 0 .. n, NEW cx, PostsAt(l, in, he, st, n, cx)
  PROVE  /\ PostsAt(l, Append(in, n + 1), he, st, n + 1, cx)
         /\ PostsAt(l, <<>>, <<>>, n + 1, n + 1, cx)
         /\ ToSet(Append(in, n + 1)) = ToSet(in) \union {n + 1}
         /\ n + 1 \notin ToSet(in) \union ToSet(he) \union {st} \union PostsOf(l)
<1>1. ToSet(in) \subseteq 1 .. n /\ ToSet(he) \subseteq 1 .. n /\ PostsOf(l) \subseteq 1 .. n
  BY QueueRange DEF PostsAt
<1>2. n + 1 \notin 1 .. n /\ n + 1 /= st /\ 1 .. n \subseteq 1 .. n + 1
  OBVIOUS
<1>3. n + 1 \in 1 .. n + 1 /\ in \in Seq(1 .. n + 1)
  <2>1. in \in [1 .. Len(in) -> 1 .. n] /\ Len(in) \in Nat
    OBVIOUS
  <2>2. in \in [1 .. Len(in) -> 1 .. n + 1]
    BY <1>2, <2>1
  <2> QED BY <2>1, <2>2
<1>4. /\ ToSet(Append(in, n + 1)) = ToSet(in) \union {n + 1}
      /\ Apart(in) => Apart(Append(in, n + 1))
  BY <1>1, <1>2, <1>3, QueueAppend
<1> QED BY <1>1, <1>2, <1>4, NothingQueued DEF PostsAt

-----------------------------------------------------------------------------
(* Every step leaves the posts so.                                         *)

LEMMA StartingStep ==
  ASSUME TypeInv, TypeInv', Starting, Next
  PROVE  Starting'
<1> USE DEF actorVars
<1>0. posts \in Nat /\ posts + 1 /= 0
  BY DEF TypeInv, TypeOK
<1>1. CASE RunTurn
  <2>1. starting' = starting /\ pc /= "start" /\ pc' /= "start"
    <3>1. CASE Loop
      BY <1>1, <3>1
      DEF RunTurn, Loop, DrainAt, InterruptedAtTop, BudgetSpent, FlushHeld, Compact,
          CompactionFails, Request, AtTop
    <3>2. CASE Stream
      BY <1>1, <3>2
      DEF RunTurn, Stream, StreamHolds, StreamInterrupted, StreamRetried, StreamFails,
          StreamReplies, StreamOver
    <3>3. CASE Calls
      BY <1>1, <3>3
      DEF RunTurn, Calls, LengthStop, Siblings, NotRun, RunPlain, AskPermission, RequestGranted,
          Granted, AskHuman, Propose, Register, NextCall, ToolDone, ToolKilled, Result
    <3>4. CASE Wait
      BY <1>1, <3>4
      DEF RunTurn, Wait, PermissionInterrupted, HumanInterrupted, ProposalInterrupted,
          PermissionAllowed, PermissionDenied, HumanAnswered, Declined, SwitchAgreed,
          SwitchRecorded, SwitchFails, JobApproved, Said, Refused, Settle, Result, Interrupts,
          Answers
    <3>5. CASE Ending
      BY <1>1, <3>5
      DEF RunTurn, Ending, Synthetic, NotRun, BatchOver, AfterCalls, FlushLast, NoteInterrupt,
          EndTurn
    <3> QED BY <1>1, <3>1, <3>2, <3>3, <3>4, <3>5 DEF RunTurn, TurnStep
  <2> QED BY <2>1 DEF Starting
<1>2. CASE StartTurn \/ Crash
  BY <1>2 DEF StartTurn, Crash, Starting
<1>3. CASE PostIdle
  BY <1>0, <1>3 DEF PostIdle, Begin, Starting
<1>4. CASE \/ WriteNote \/ Continue \/ GoIdle \/ SideJobs \/ RecordIdle \/ SwitchByHand
           \/ SwitchByHandFails \/ RecordStartupAsk
  BY <1>4
  DEF WriteNote, Continue, Begin, GoIdle, SideJobs, RecordIdle, SwitchByHand, SwitchByHandFails,
      Move, RecordStartupAsk, Starting
<1>5. CASE \/ WithdrawOpen \/ RestoreTurnEnded \/ AnswerUnanswered \/ NoteCrash
           \/ NothingOpen \/ AlreadyNoted \/ Boot
  BY <1>5
  DEF WithdrawOpen, RestoreTurnEnded, AnswerUnanswered, NoteCrash, Repair, NothingOpen,
      AlreadyNoted, Resumed, Boot, Begin, Starting
<1>6. CASE \/ PostRunning \/ Interrupt \/ Decide \/ JobReturns \/ ProposeIdle
           \/ DeclineIdle \/ FailIdle \/ AgreeIdle \/ WithdrawByHand \/ StartupAsk
  BY <1>6
  DEF PostRunning, Interrupt, Decide, JobReturns, ProposeIdle, DeclineIdle, FailIdle,
      AgreeIdle, AnswerIdle, WithdrawByHand, StartupAsk, Starting
<1> QED BY <1>1, <1>2, <1>3, <1>4, <1>5, <1>6 DEF Next, ActorStep, Mail

LEMMA PostsMoved ==
  ASSUME TypeInv, Starting, Next, PostsInv, PostsMove, Contexts
  PROVE  PostsAt(log', inbox', held', starting', posts', context')
<1>1. PICK l, in, he, st, n, cx, ll, in2, he2, st2, n2, cx2 :
        /\ l = log /\ in = inbox /\ he = held /\ st = starting /\ n = posts /\ cx = context
        /\ ll = log' /\ in2 = inbox' /\ he2 = held' /\ st2 = starting' /\ n2 = posts'
        /\ cx2 = context'
  OBVIOUS
<1>2. /\ PostsAt(l, in, he, st, n, cx) /\ l \in Seq(Event) /\ n \in Nat
      /\ in \in Seq(1 .. n) /\ he \in Seq(1 .. n) /\ st \in 0 .. n
      /\ cx2 \in {cx, {}, Shown(l)}
  BY <1>1 DEF PostsInv, TypeInv, TypeOK, Contexts
<1>3. SUFFICES PostsAt(ll, in2, he2, st2, n2, cx2)
  BY <1>1
<1>s. PostsAt(l, in, he, st, n, cx2)
  BY <1>2, PostsStay
<1>q. /\ ToSet(in) \subseteq 1 .. n /\ ToSet(he) \subseteq 1 .. n /\ PostsOf(l) \subseteq 1 .. n
      /\ 0 \notin ToSet(in) \union ToSet(he) \union PostsOf(l)
  BY <1>2, QueueRange DEF PostsAt
<1>4. CASE Rests
  <2>1. /\ ll = l \/ \E e : Grows(l, ll, e) /\ e.kind /= "user_message"
        /\ in2 \in {in, <<>>} /\ he2 \in {he, <<>>} /\ st2 = st /\ n2 = n
    BY <1>1, <1>4 DEF Rests, LogRests
  <2>2. PostsAt(ll, in, he, st, n, cx2)
    BY <1>2, <2>1, PostsStay
  <2>3. /\ ToSet(in2) \subseteq ToSet(in) /\ Apart(in2)
        /\ ToSet(he2) \subseteq ToSet(he) /\ Apart(he2)
    BY <2>1, <2>2, NothingQueued DEF PostsAt
  <2> QED BY <2>1, <2>2, <2>3 DEF PostsAt
<1>5. CASE Holds
  <2>1. /\ in /= <<>> /\ he2 = Append(he, Head(in)) /\ in2 = Tail(in)
        /\ ll = l /\ st2 = st /\ n2 = n
    BY <1>1, <1>5 DEF Holds
  <2> QED BY <1>2, <1>s, <2>1, PostsHold
<1>6. CASE Gathers
  <2>1. /\ he2 = he \o in /\ in2 = <<>> /\ st2 = st /\ n2 = n
        /\ ll = l \/ \E e : Grows(l, ll, e) /\ e.kind /= "user_message"
    BY <1>1, <1>6 DEF Gathers, LogRests
  <2>2. PostsAt(ll, in, he, st, n, cx2)
    BY <1>2, <2>1, PostsStay
  <2> QED BY <1>2, <2>1, <2>2, PostsGather
<1>7. CASE Drains
  <2>1. PICK mid \in BOOLEAN, steer \in BOOLEAN : Grows(l, ll, UserMessage(Head(in), mid, steer))
    BY <1>1, <1>7 DEF Drains, Logs
  <2>2. in /= <<>> /\ in2 = Tail(in) /\ he2 = he /\ st2 = st /\ n2 = n
    BY <1>1, <1>7 DEF Drains
  <2>3. Head(in) \in ToSet(in) /\ Apart(Tail(in)) /\ ToSet(Tail(in)) = ToSet(in) \ {Head(in)}
    BY <1>2, <2>2, QueueTail DEF PostsAt
  <2>4. /\ Head(in) \in 1 .. n /\ Head(in) \notin PostsOf(l) /\ Head(in) \notin ToSet(he)
        /\ Head(in) /= st /\ Apart(he)
    BY <1>2, <1>q, <2>3 DEF PostsAt
  <2>5. ToSet(in2) \subseteq ToSet(in) \ {Head(in)} /\ ToSet(he2) \subseteq ToSet(he) \ {Head(in)}
    BY <2>2, <2>3, <2>4
  <2>6. st \in {st, 0} \ {Head(in)} /\ Apart(in2) /\ Apart(he2)
    BY <2>2, <2>3, <2>4
  <2>7. PostsAt(ll, in2, he2, st, n, cx2)
    BY <1>2, <1>q, <2>1, <2>4, <2>5, <2>6, PostsLog
  <2> QED BY <2>2, <2>7
<1>8. CASE Flushes
  <2>1. PICK mid \in BOOLEAN, steer \in BOOLEAN : Grows(l, ll, UserMessage(Head(he), mid, steer))
    BY <1>1, <1>8 DEF Flushes, Logs
  <2>2. he /= <<>> /\ he2 = Tail(he) /\ in2 = in /\ st2 = st /\ n2 = n
    BY <1>1, <1>8 DEF Flushes
  <2>3. Head(he) \in ToSet(he) /\ Apart(Tail(he)) /\ ToSet(Tail(he)) = ToSet(he) \ {Head(he)}
    BY <1>2, <2>2, QueueTail DEF PostsAt
  <2>4. /\ Head(he) \in 1 .. n /\ Head(he) \notin PostsOf(l) /\ Head(he) \notin ToSet(in)
        /\ Head(he) /= st /\ Apart(in)
    BY <1>2, <1>q, <2>3 DEF PostsAt
  <2>5. ToSet(in2) \subseteq ToSet(in) \ {Head(he)} /\ ToSet(he2) \subseteq ToSet(he) \ {Head(he)}
    BY <2>2, <2>3, <2>4
  <2>6. st \in {st, 0} \ {Head(he)} /\ Apart(in2) /\ Apart(he2)
    BY <2>2, <2>3, <2>4
  <2>7. PostsAt(ll, in2, he2, st, n, cx2)
    BY <1>2, <1>q, <2>1, <2>4, <2>5, <2>6, PostsLog
  <2> QED BY <2>2, <2>7
<1>9. CASE Starts
  <2>1. PICK mid \in BOOLEAN, steer \in BOOLEAN : Grows(l, ll, UserMessage(st, mid, steer))
    BY <1>1, <1>9 DEF Starts, Logs
  <2>2. st /= 0 /\ in2 = in /\ he2 = he /\ st2 = 0 /\ n2 = n
    BY <1>1, <1>9 DEF Starts, Starting
  <2>3. /\ st \in 1 .. n /\ st \notin PostsOf(l) /\ st \notin ToSet(in) \union ToSet(he)
        /\ Apart(in) /\ Apart(he)
    BY <1>2, <2>2 DEF PostsAt
  <2>4. ToSet(in2) \subseteq ToSet(in) \ {st} /\ ToSet(he2) \subseteq ToSet(he) \ {st}
    BY <2>2, <2>3
  <2>5. 0 \in {st, 0} \ {st} /\ Apart(in2) /\ Apart(he2)
    BY <2>2, <2>3
  <2>6. PostsAt(ll, in2, he2, 0, n, cx2)
    BY <1>2, <1>q, <2>1, <2>3, <2>4, <2>5, PostsLog
  <2> QED BY <2>2, <2>6
<1>10. CASE AcceptsIdle
  <2>1. /\ in2 = <<>> /\ he2 = <<>> /\ st2 = n + 1 /\ n2 = n + 1
        /\ ll = l \/ \E e : Grows(l, ll, e) /\ e.kind /= "user_message"
    BY <1>1, <1>10 DEF AcceptsIdle, LogRests
  <2>2. PostsAt(ll, in, he, st, n, cx2)
    BY <1>2, <2>1, PostsStay
  <2> QED BY <1>2, <2>1, <2>2, PostsAccept
<1>11. CASE AcceptsRunning
  <2>1. in2 = Append(in, n + 1) /\ he2 = he /\ st2 = st /\ n2 = n + 1 /\ ll = l
    BY <1>1, <1>11 DEF AcceptsRunning
  <2> QED BY <1>2, <1>s, <2>1, PostsAccept
<1>12. CASE Dies
  <2>1. in2 = <<>> /\ he2 = <<>> /\ st2 = 0 /\ n2 = n /\ ll = l
    BY <1>1, <1>12 DEF Dies
  <2> QED BY <1>s, <1>q, <2>1, NothingQueued DEF PostsAt
<1> QED BY <1>4, <1>5, <1>6, <1>7, <1>8, <1>9, <1>10, <1>11, <1>12 DEF PostsMove

LEMMA PostsStep ==
  ASSUME TypeInv, TypeInv', PostsInv, [Next]_vars
  PROVE  PostsInv'
<1>1. CASE UNCHANGED vars
  BY <1>1 DEF vars, turnVars, mailVars, loopVars, actorVars, bookVars, PostsInv, Starting
<1>2. CASE Next
  <2>1. PostsMove /\ Contexts
    BY <1>2, PostsTurn, PostsActor DEF RunTurn
  <2>2. Starting'
    BY <1>2, StartingStep DEF PostsInv
  <2> QED BY <1>2, <2>1, <2>2, PostsMoved DEF PostsInv
<1> QED BY <1>1, <1>2

LEMMA PostsInit == Init => PostsInv
<1>1. Init => Posted(log) = {}
  BY DEF Init, Posted, Events
<1>2. Init => PostsOf(log) = {} /\ PostedOnce(log)
  BY <1>1 DEF PostsOf, PostedOnce, Posted
<1> QED BY <1>2, NothingQueued DEF Init, PostsInv, PostsAt, Starting

-----------------------------------------------------------------------------
(* Where nothing is on its way.                                            *)

PlacesInv ==
  /\ pc \in {"interrupt", "end", "length"} \union OutOfTurn \union Booting => inbox = <<>>
  /\ pc \in OutOfTurn \union Booting => held = <<>>

(* Only a compaction that fails ends a turn whose inbox is not drained.    *)
LEMMA PlacesStep ==
  ASSUME TypeInv, PlacesInv, "compaction" \notin Faults, Next
  PROVE  PlacesInv'
<1> USE DEF mailVars, OutOfTurn, Booting
<1>1. CASE RunTurn
  <2>1. CASE Loop
    <3>1. ASSUME NEW place \in {"loop", "calls", "tool", "after_calls"}, DrainAt(place)
          PROVE  PlacesInv'
      BY <3>1 DEF DrainAt, PlacesInv
    <3>2. ~CompactionFails
      BY DEF CompactionFails
    <3>3. CASE InterruptedAtTop \/ BudgetSpent \/ FlushHeld \/ Compact \/ Request
      BY <3>3 DEF InterruptedAtTop, BudgetSpent, FlushHeld, Compact, Request, AtTop, PlacesInv
    <3> QED BY <2>1, <3>1, <3>2, <3>3 DEF Loop
  <2>2. CASE Stream
    <3>1. CASE StreamReplies
      <4>1. inbox' = <<>> /\ pc' \in {"end", "length", "calls"}
        BY <3>1 DEF StreamReplies, StreamOver
      <4> QED BY <4>1 DEF PlacesInv
    <3> QED
      BY <2>2, <3>1
      DEF Stream, StreamHolds, StreamInterrupted, StreamRetried, StreamFails, StreamOver,
          PlacesInv
  <2>3. CASE Calls
    <3>1. CASE LengthStop \/ Siblings
      <4>1. inbox' = inbox /\ held' = held /\ pc \in {"length", "siblings"}
            /\ pc' \in {pc, IF pc = "length" THEN "end" ELSE "after_calls"}
        BY <3>1 DEF LengthStop, Siblings, NotRun
      <4> QED BY <4>1 DEF PlacesInv
    <3>2. CASE ToolDone \/ ToolKilled
      <4>1. pc' \in {"after_calls", "siblings", "calls"}
        BY <3>2 DEF ToolDone, ToolKilled, Result
      <4> QED BY <4>1 DEF PlacesInv
    <3>3. CASE RunPlain \/ AskPermission \/ RequestGranted \/ Granted \/ AskHuman \/ Propose
      <4>1. pc' \in {"tool", "ask", "granted"}
        BY <3>3 DEF RunPlain, AskPermission, RequestGranted, Granted, AskHuman, Propose, Register
      <4> QED BY <4>1 DEF PlacesInv
    <3> QED BY <2>3, <3>1, <3>2, <3>3 DEF Calls
  <2>4. CASE Wait
    <3>1. pc' \in {"after_calls", "siblings", "calls", "refused", "tool", "said", "switched"}
      BY <2>4
      DEF Wait, PermissionInterrupted, HumanInterrupted, ProposalInterrupted, PermissionAllowed,
          PermissionDenied, HumanAnswered, Declined, SwitchAgreed, SwitchRecorded, SwitchFails,
          JobApproved, Said, Refused, Settle, Result
    <3> QED BY <3>1 DEF PlacesInv
  <2>5. CASE Ending
    <3>1. CASE Synthetic \/ BatchOver
      <4>1. inbox' = <<>> /\ pc' \in {pc, "interrupt", "end", "loop"} /\ pc = "after_calls"
        BY <3>1 DEF Synthetic, BatchOver, NotRun, AfterCalls
      <4> QED BY <4>1 DEF PlacesInv
    <3> QED
      BY <2>5, <3>1 DEF Ending, FlushLast, NoteInterrupt, EndTurn, PlacesInv
  <2> QED BY <1>1, <2>1, <2>2, <2>3, <2>4, <2>5 DEF RunTurn, TurnStep
<1>2. CASE \/ StartTurn \/ WriteNote \/ GoIdle \/ SideJobs \/ RecordIdle \/ SwitchByHand
           \/ SwitchByHandFails \/ RecordStartupAsk
  BY <1>2
  DEF StartTurn, WriteNote, GoIdle, SideJobs, RecordIdle, SwitchByHand, SwitchByHandFails, Move,
      RecordStartupAsk, PlacesInv
<1>3. CASE \/ WithdrawOpen \/ RestoreTurnEnded \/ AnswerUnanswered \/ NoteCrash
           \/ NothingOpen \/ AlreadyNoted
  BY <1>3
  DEF WithdrawOpen, RestoreTurnEnded, AnswerUnanswered, NoteCrash, Repair, NothingOpen,
      AlreadyNoted, Resumed, PlacesInv
<1>4. CASE Continue \/ Boot \/ PostIdle \/ Crash
  BY <1>4 DEF Continue, Boot, PostIdle, Begin, Crash, PlacesInv
<1>5. CASE PostRunning
  BY <1>5 DEF PostRunning, Running, AwaitPoints, PlacesInv
<1>6. CASE \/ Interrupt \/ Decide \/ JobReturns \/ ProposeIdle
           \/ DeclineIdle \/ FailIdle \/ AgreeIdle \/ WithdrawByHand \/ StartupAsk
  BY <1>6
  DEF Interrupt, Decide, JobReturns, ProposeIdle, DeclineIdle, FailIdle, AgreeIdle, AnswerIdle,
      WithdrawByHand, StartupAsk, PlacesInv
<1> QED BY <1>1, <1>2, <1>3, <1>4, <1>5, <1>6 DEF Next, ActorStep, Mail

-----------------------------------------------------------------------------
(* Each step is one of what a thread promises.                             *)

InMind(in, he, st) == ToSet(in) \union ToSet(he) \union ({st} \ {0})

DeliveryInv == PlacesInv /\ PostsInv /\ lost \subseteq 1 .. posts

LEMMA DeliveryMoves ==
  ASSUME TypeInv, DeliveryInv, Next, PostsMove
  PROVE  Delivered!Next \/ UNCHANGED Delivered!vars
<1> DEFINE memory == InMemory
           memory2 == InMemory'
           logged == PostsOf(log)
           logged2 == PostsOf(log')
<1>g. PICK l, in, he, st, n, cx, lo, ll, in2, he2, st2, n2, lo2 :
        /\ l = log /\ in = inbox /\ he = held /\ st = starting /\ n = posts /\ cx = context
        /\ ll = log' /\ in2 = inbox' /\ he2 = held' /\ st2 = starting' /\ n2 = posts'
        /\ lo = lost /\ lo2 = lost'
  OBVIOUS
<1>m. /\ memory = InMind(in, he, st) /\ memory2 = InMind(in2, he2, st2)
      /\ logged = PostsOf(l) /\ logged2 = PostsOf(ll)
  BY <1>g DEF InMemory, InMind
<1>t. /\ PostsAt(l, in, he, st, n, cx) /\ l \in Seq(Event) /\ n \in Nat
      /\ in \in Seq(1 .. n) /\ he \in Seq(1 .. n) /\ st \in 0 .. n
      /\ lo \subseteq 1 .. n /\ n \in 0 .. MaxPosts
  BY <1>g DEF PostsInv, TypeInv, TypeOK, DeliveryInv
<1>q. /\ ToSet(in) \subseteq 1 .. n /\ ToSet(he) \subseteq 1 .. n /\ PostsOf(l) \subseteq 1 .. n
      /\ 0 \notin ToSet(in) \union ToSet(he) \union PostsOf(l)
  BY <1>t, QueueRange DEF PostsAt
<1>p. \A p \in 1 .. n : p \in 1 .. MaxPosts
  <2>1. MaxPosts \in Nat
    BY ActorConstants
  <2> QED BY <1>t, <2>1
<1> HIDE DEF memory, memory2, logged, logged2
<1> DEFINE Unmoved == logged2 = logged /\ memory2 = memory /\ read' = read /\ lost' = lost
           Recorded(p) == /\ p \in memory /\ memory2 = memory \ {p} /\ logged2 = logged \union {p}
                          /\ read' = read /\ lost' = lost
           Accepted(p) == /\ p \notin memory \union logged \union lost /\ memory2 = memory \union {p}
                          /\ logged2 = logged /\ read' = read /\ lost' = lost
           Showed == /\ context \subseteq logged /\ read' = read \union context
                     /\ memory2 = memory /\ logged2 = logged /\ lost' = lost
           Died == /\ lost' = lost \union memory /\ memory2 = {} /\ logged2 = logged /\ read' = read
<1>1. ASSUME Unmoved PROVE UNCHANGED Delivered!vars
  BY <1>1 DEF Delivered!vars, memory, memory2, logged, logged2
<1>2. ASSUME NEW p \in 1 .. MaxPosts, Recorded(p) PROVE Delivered!Next
  <2>1. Delivered!Record(p)
    BY <1>2 DEF Delivered!Record, memory, memory2, logged, logged2
  <2> QED BY <2>1 DEF Delivered!Next
<1>3. ASSUME NEW p \in 1 .. MaxPosts, Accepted(p) PROVE Delivered!Next
  <2>1. Delivered!Accept(p)
    BY <1>3 DEF Delivered!Accept, memory, memory2, logged, logged2
  <2> QED BY <2>1 DEF Delivered!Next
<1>4. ASSUME Showed PROVE Delivered!Next
  <2>1. Delivered!Show(context)
    BY <1>4 DEF Delivered!Show, memory, memory2, logged, logged2
  <2>2. context \in SUBSET (1 .. MaxPosts)
    <3>1. context \subseteq 1 .. n
      BY <1>4, <1>m, <1>q
    <3> QED BY <1>p, <3>1
  <2> QED BY <2>1, <2>2 DEF Delivered!Next
<1>5. ASSUME Died PROVE Delivered!Next
  <2>1. Delivered!Die
    BY <1>5 DEF Delivered!Die, memory, memory2, logged, logged2
  <2> QED BY <2>1 DEF Delivered!Next
<1> HIDE DEF Unmoved, Recorded, Accepted, Showed, Died
<1>6. CASE Rests
  <2>1. inbox' = inbox /\ held' = held
    BY <1>6 DEF Rests, DeliveryInv, PlacesInv, NotWorking
  <2>2. /\ ll = l \/ \E e : Grows(l, ll, e) /\ e.kind /= "user_message"
        /\ in2 = in /\ he2 = he /\ st2 = st /\ read' = read /\ lost' = lost
    BY <1>g, <1>6, <2>1 DEF Rests, LogRests
  <2>3. PostsOf(ll) = PostsOf(l)
    BY <1>t, <2>2, PostsStay
  <2>4. Unmoved
    BY <1>m, <2>2, <2>3 DEF Unmoved
  <2> QED BY <1>1, <2>4
<1>7. CASE Holds
  <2>1. /\ in /= <<>> /\ he2 = Append(he, Head(in)) /\ in2 = Tail(in)
        /\ ll = l /\ st2 = st /\ read' = read /\ lost' = lost
    BY <1>g, <1>7 DEF Holds
  <2>2. ToSet(Tail(in)) \union ToSet(Append(he, Head(in))) = ToSet(in) \union ToSet(he)
    BY <1>t, <2>1, PostsHold
  <2>3. Unmoved
    BY <1>m, <2>1, <2>2 DEF Unmoved, InMind
  <2> QED BY <1>1, <2>3
<1>8. CASE Gathers
  <2>1. /\ he2 = he \o in /\ in2 = <<>> /\ st2 = st /\ lost' = lost
        /\ ll = l \/ \E e : Grows(l, ll, e) /\ e.kind /= "user_message"
    BY <1>g, <1>8 DEF Gathers, LogRests
  <2>2. ToSet(he \o in) = ToSet(in) \union ToSet(he)
    <3>1. in \in Seq(1 .. n) /\ he \in Seq(1 .. n)
      BY <1>t
    <3> QED BY <3>1, QueueJoin
  <2>3. PostsOf(ll) = PostsOf(l)
    BY <1>t, <2>1, PostsStay
  <2>4. memory2 = memory /\ logged2 = logged
    BY <1>m, <2>1, <2>2, <2>3, NothingQueued DEF InMind
  <2>5. CASE read' = read
    <3>1. Unmoved
      BY <2>1, <2>4, <2>5 DEF Unmoved
    <3> QED BY <1>1, <3>1
  <2>6. CASE read' = read \union context
    <3>1. Showed
      BY <1>g, <1>m, <1>t, <2>1, <2>4, <2>6 DEF Showed, PostsAt
    <3> QED BY <1>4, <3>1
  <2> QED BY <1>8, <2>5, <2>6 DEF Gathers
<1>l. ASSUME NEW p, Logs(p) PROVE PostsOf(ll) = PostsOf(l) \union {p}
  <2>1. PICK e : Grows(l, ll, e) /\ e.kind = "user_message" /\ e.post = p
    BY <1>g, <1>l DEF Logs, UserMessage
  <2> QED BY <1>t, <2>1, GrownPosts DEF PostsAt
<1>9. CASE Drains
  <2>1. /\ in /= <<>> /\ in2 = Tail(in) /\ he2 = he /\ st2 = st /\ read' = read /\ lost' = lost
        /\ PostsOf(ll) = PostsOf(l) \union {Head(in)}
    BY <1>g, <1>l, <1>9 DEF Drains
  <2>2. Head(in) \in ToSet(in) /\ ToSet(Tail(in)) = ToSet(in) \ {Head(in)}
    BY <1>t, <2>1, QueueTail DEF PostsAt
  <2>3. Head(in) \in 1 .. n /\ Head(in) \notin ToSet(he) /\ Head(in) /= st
    BY <1>t, <1>q, <2>2 DEF PostsAt
  <2>4. Recorded(Head(in))
    BY <1>m, <2>1, <2>2, <2>3 DEF Recorded, InMind
  <2> QED BY <1>2, <1>p, <2>3, <2>4
<1>10. CASE Flushes
  <2>1. /\ he /= <<>> /\ he2 = Tail(he) /\ in2 = in /\ st2 = st /\ read' = read /\ lost' = lost
        /\ PostsOf(ll) = PostsOf(l) \union {Head(he)}
    BY <1>g, <1>l, <1>10 DEF Flushes
  <2>2. Head(he) \in ToSet(he) /\ ToSet(Tail(he)) = ToSet(he) \ {Head(he)}
    BY <1>t, <2>1, QueueTail DEF PostsAt
  <2>3. Head(he) \in 1 .. n /\ Head(he) \notin ToSet(in) /\ Head(he) /= st
    BY <1>t, <1>q, <2>2 DEF PostsAt
  <2>4. Recorded(Head(he))
    BY <1>m, <2>1, <2>2, <2>3 DEF Recorded, InMind
  <2> QED BY <1>2, <1>p, <2>3, <2>4
<1>11. CASE Starts
  <2>1. /\ st /= 0 /\ in2 = in /\ he2 = he /\ st2 = 0 /\ read' = read /\ lost' = lost
        /\ PostsOf(ll) = PostsOf(l) \union {st}
    BY <1>g, <1>l, <1>11 DEF Starts, DeliveryInv, PostsInv, Starting
  <2>2. st \in 1 .. n /\ st \notin ToSet(in) \union ToSet(he)
    BY <1>t, <2>1 DEF PostsAt
  <2>3. Recorded(st)
    BY <1>m, <2>1, <2>2 DEF Recorded, InMind
  <2> QED BY <1>2, <1>p, <2>2, <2>3
<1>12. CASE AcceptsIdle
  <2>1. /\ in = <<>> /\ he = <<>> /\ st = 0 /\ in2 = <<>> /\ he2 = <<>> /\ st2 = n + 1
        /\ read' = read /\ lost' = lost /\ n < MaxPosts
        /\ ll = l \/ \E e : Grows(l, ll, e) /\ e.kind /= "user_message"
    BY <1>g, <1>12 DEF AcceptsIdle, LogRests, DeliveryInv, PostsInv, Starting, PlacesInv, OutOfTurn
  <2>2. PostsOf(ll) = PostsOf(l)
    BY <1>t, <2>1, PostsStay
  <2>3. n + 1 \in 1 .. MaxPosts /\ n + 1 \notin 1 .. n /\ n + 1 /= 0
    BY <1>t, <2>1, ActorConstants
  <2>4. Accepted(n + 1)
    BY <1>g, <1>m, <1>t, <1>q, <2>1, <2>2, <2>3, NothingQueued DEF Accepted, InMind
  <2> QED BY <1>3, <2>3, <2>4
<1>13. CASE AcceptsRunning
  <2>1. /\ in2 = Append(in, n + 1) /\ he2 = he /\ st2 = st /\ ll = l
        /\ read' = read /\ lost' = lost /\ n < MaxPosts
    BY <1>g, <1>13 DEF AcceptsRunning
  <2>2. /\ ToSet(Append(in, n + 1)) = ToSet(in) \union {n + 1}
        /\ n + 1 \notin ToSet(in) \union ToSet(he) \union {st} \union PostsOf(l)
    BY <1>t, PostsAccept
  <2>3. n + 1 \in 1 .. MaxPosts /\ n + 1 \notin 1 .. n
    BY <1>t, <2>1, ActorConstants
  <2>4. Accepted(n + 1)
    BY <1>g, <1>m, <1>t, <2>1, <2>2, <2>3 DEF Accepted, InMind
  <2> QED BY <1>3, <2>3, <2>4
<1>14. CASE Dies
  <2>1. /\ in2 = <<>> /\ he2 = <<>> /\ st2 = 0 /\ ll = l /\ read' = read
        /\ lost' = lost \union (memory \ logged)
    BY <1>g, <1>14 DEF Dies, memory, logged
  <2>2. memory \intersect logged = {}
    BY <1>m, <1>t DEF InMind, PostsAt
  <2>3. Died
    BY <1>m, <2>1, <2>2, NothingQueued DEF Died, InMind
  <2> QED BY <1>5, <2>3
<1> QED
  BY <1>6, <1>7, <1>8, <1>9, <1>10, <1>11, <1>12, <1>13, <1>14 DEF PostsMove

LEMMA DeliveryStep ==
  ASSUME "compaction" \notin Faults
  PROVE  TypeInv /\ TypeInv' /\ DeliveryInv /\ [Next]_vars =>
           DeliveryInv' /\ [Delivered!Next]_(Delivered!vars)
<1> SUFFICES ASSUME TypeInv, TypeInv', DeliveryInv, [Next]_vars
             PROVE  DeliveryInv' /\ [Delivered!Next]_(Delivered!vars)
  OBVIOUS
<1>1. PostsInv'
  BY PostsStep DEF DeliveryInv
<1>2. CASE UNCHANGED vars
  <2>1. UNCHANGED <<log, pc, inbox, held, starting, posts, lost, read, context>>
    BY <1>2 DEF vars, turnVars, mailVars, loopVars, actorVars, bookVars
  <2> QED BY <1>1, <2>1 DEF DeliveryInv, PlacesInv, Delivered!vars, InMemory
<1>3. CASE Next
  <2>1. PostsMove
    BY <1>3, PostsTurn, PostsActor DEF RunTurn
  <2>2. PlacesInv'
    BY <1>3, PlacesStep DEF DeliveryInv
  <2>3. lost' \subseteq 1 .. posts'
    <3>1. /\ posts \in Nat /\ inbox \in Seq(1 .. posts) /\ held \in Seq(1 .. posts)
          /\ starting \in 0 .. posts /\ lost \subseteq 1 .. posts
      BY DEF TypeInv, TypeOK, DeliveryInv
    <3>2. InMemory \subseteq 1 .. posts
      BY <3>1, QueueRange DEF InMemory
    <3>3. lost' \subseteq lost \union InMemory
      BY <2>1 DEF PostsMove, Rests, Holds, Gathers, Drains, Flushes, Starts, AcceptsIdle,
         AcceptsRunning, Dies
    <3>4. posts' \in {posts, posts + 1}
      BY <2>1 DEF PostsMove, Rests, Holds, Gathers, Drains, Flushes, Starts, AcceptsIdle,
         AcceptsRunning, Dies
    <3> QED BY <3>1, <3>2, <3>3, <3>4
  <2>4. [Delivered!Next]_(Delivered!vars)
    BY <1>3, <2>1, DeliveryMoves
  <2> QED BY <1>1, <2>2, <2>3, <2>4 DEF DeliveryInv
<1> QED BY <1>2, <1>3

LEMMA DeliveryInit == Init => DeliveryInv /\ Delivered!Init
<1> SUFFICES ASSUME Init PROVE DeliveryInv /\ Delivered!Init
  OBVIOUS
<1>1. PostsInv
  BY PostsInit
<1>2. /\ pc = "idle" /\ inbox = <<>> /\ held = <<>> /\ starting = 0 /\ log = <<>>
      /\ lost = {} /\ read = {} /\ posts = 0
  BY DEF Init
<1>3. PostsOf(log) = {}
  BY <1>2 DEF PostsOf, Events
<1>4. InMemory = {}
  BY <1>2, NothingQueued DEF InMemory
<1> QED BY <1>1, <1>2, <1>3, <1>4 DEF DeliveryInv, PlacesInv, Delivered!Init

(* As long as no compaction fails in the middle of a turn, a message goes  *)
(* from acceptance to the log once and to the model only from there, and   *)
(* only a process that dies drops one: however messages, streams, tools,   *)
(* interrupts, crashes and restarts fall.                                  *)
THEOREM DeliveryAlways ==
  ASSUME "compaction" \notin Faults
  PROVE  Spec => ImplementsDelivery
<1>1. Init => DeliveryInv /\ Delivered!Init
  BY DeliveryInit
<1>2. TypeInv /\ TypeInv' /\ DeliveryInv /\ [Next]_vars =>
        DeliveryInv' /\ [Delivered!Next]_(Delivered!vars)
  BY DeliveryStep
<1>3. Spec => []TypeInv
  <2>1. TypeInv /\ [Next]_vars => TypeInv'
    BY TypeStep
  <2>2. Init => TypeInv
    BY TypeInit
  <2> QED BY <2>1, <2>2, PTL DEF Spec
<1> QED BY <1>1, <1>2, <1>3, PTL DEF Spec, ImplementsDelivery, Delivered!Spec

-----------------------------------------------------------------------------
(* A post is in one place.                                                 *)

LEMMA OneOf ==
  ASSUME NEW S, \A i, j \in S : i = j
  PROVE  /\ IsFiniteSet(S) /\ Cardinality(S) \in 0 .. 1
         /\ Cardinality(S) = 1 <=> S /= {}
<1>1. CASE S = {}
  <2>1. IsFiniteSet(S) /\ Cardinality(S) = 0
    BY <1>1, FS_EmptySet
  <2> QED BY <1>1, <2>1
<1>2. CASE S /= {}
  <2>1. PICK x \in S : TRUE
    BY <1>2
  <2>2. S = {x}
    BY <2>1
  <2>3. IsFiniteSet(S) /\ Cardinality(S) = 1
    BY <2>2, FS_Singleton
  <2> QED BY <1>2, <2>3
<1> QED BY <1>1, <1>2

LEMMA PlacedOnce == TypeInv /\ PostsInv => NoPostTwice
<1> SUFFICES ASSUME TypeInv, PostsInv, NEW p \in 1 .. posts
             PROVE  Cardinality({i \in Events(log, "user_message") : log[i].post = p})
                      + Cardinality({i \in DOMAIN inbox : inbox[i] = p})
                      + Cardinality({i \in DOMAIN held : held[i] = p})
                      + (IF starting = p THEN 1 ELSE 0) <= 1
  BY DEF NoPostTwice
<1> DEFINE A == {i \in Events(log, "user_message") : log[i].post = p}
           B == {i \in DOMAIN inbox : inbox[i] = p}
           C == {i \in DOMAIN held : held[i] = p}
<1>1. PostsAt(log, inbox, held, starting, posts, context)
  BY DEF PostsInv
<1>2. \A i, j \in A : i = j
  BY <1>1 DEF PostsAt, PostedOnce, Posted
<1>3. \A i, j \in B : i = j
  BY <1>1 DEF PostsAt, Apart
<1>4. \A i, j \in C : i = j
  BY <1>1 DEF PostsAt, Apart
<1>5. A /= {} => p \in PostsOf(log)
  BY DEF PostsOf
<1>6. B /= {} => p \in ToSet(inbox)
  BY DEF ToSet, Range
<1>7. C /= {} => p \in ToSet(held)
  BY DEF ToSet, Range
<1>8. /\ A /= {} => B = {} /\ C = {} /\ starting /= p
      /\ B /= {} => C = {} /\ starting /= p
      /\ C /= {} => starting /= p
  BY <1>1, <1>5, <1>6, <1>7 DEF PostsAt
<1> HIDE DEF A, B, C
<1>9. /\ Cardinality(A) \in 0 .. 1 /\ (Cardinality(A) = 1 <=> A /= {})
      /\ Cardinality(B) \in 0 .. 1 /\ (Cardinality(B) = 1 <=> B /= {})
      /\ Cardinality(C) \in 0 .. 1 /\ (Cardinality(C) = 1 <=> C /= {})
  BY <1>2, <1>3, <1>4, OneOf
<1>10. Cardinality(A) + Cardinality(B) + Cardinality(C) + (IF starting = p THEN 1 ELSE 0) <= 1
  BY <1>8, <1>9
<1> QED BY <1>10 DEF A, B, C

-----------------------------------------------------------------------------
(* The messages of the open turn that no model call has read.              *)

LEMMA GrownEnd ==
  ASSUME NEW l, NEW ll, NEW e, Grows(l, ll, e)
  PROVE  LastEnd(ll) = IF e.kind = "turn_ended" THEN Len(l) + 1 ELSE LastEnd(l)
<1>0. l \in Seq(Event)
  BY DEF Grows
<1>1. /\ l \in Seq(Event) /\ ll \in Seq(Event) /\ Len(l) \in Nat /\ Len(ll) = Len(l) + 1
      /\ ll[Len(l) + 1] = e /\ \A i \in 1 .. Len(l) : ll[i] = l[i]
  BY <1>0, Grown
<1>2. /\ LastEnd(l) \in 0 .. Len(l)
      /\ \A i \in LastEnd(l) + 1 .. Len(l) : l[i].kind /= "turn_ended"
      /\ LastEnd(l) /= 0 => l[LastEnd(l)].kind = "turn_ended"
  BY <1>1, LastEndIsLast
<1>3. /\ LastEnd(ll) \in 0 .. Len(ll)
      /\ \A i \in LastEnd(ll) + 1 .. Len(ll) : ll[i].kind /= "turn_ended"
      /\ LastEnd(ll) /= 0 => ll[LastEnd(ll)].kind = "turn_ended"
  BY <1>1, LastEndIsLast
<1> DEFINE a == LastEnd(l)
           b == LastEnd(ll)
           n == Len(l)
<1>4. /\ a \in 0 .. n /\ \A i \in a + 1 .. n : l[i].kind /= "turn_ended"
      /\ a /= 0 => l[a].kind = "turn_ended"
      /\ b \in 0 .. n + 1 /\ \A i \in b + 1 .. n + 1 : ll[i].kind /= "turn_ended"
      /\ b /= 0 => ll[b].kind = "turn_ended"
      /\ n \in Nat /\ ll[n + 1] = e /\ \A i \in 1 .. n : ll[i] = l[i]
  BY <1>1, <1>2, <1>3
<1> HIDE DEF a, b, n
<1>5. CASE e.kind = "turn_ended"
  <2>1. b = n + 1
    BY <1>4, <1>5
  <2> QED BY <1>5, <2>1 DEF b, n
<1>6. CASE e.kind /= "turn_ended"
  <2>1. b /= n + 1
    BY <1>4, <1>6
  <2>2. b \in 0 .. n
    BY <1>4, <2>1
  <2>3. ~ (b < a)
    <3> SUFFICES ASSUME b < a PROVE FALSE
      OBVIOUS
    <3>1. a \in b + 1 .. n + 1 /\ a \in 1 .. n /\ a /= 0
      BY <1>4, <2>2
    <3> QED BY <1>4, <3>1
  <2>4. ~ (a < b)
    <3> SUFFICES ASSUME a < b PROVE FALSE
      OBVIOUS
    <3>1. b \in a + 1 .. n /\ b \in 1 .. n /\ b /= 0
      BY <1>4, <2>2
    <3> QED BY <1>4, <3>1
  <2>5. a = b
    BY <1>4, <2>2, <2>3, <2>4
  <2> QED BY <1>6, <2>5 DEF a, b
<1> QED BY <1>5, <1>6

MidTurn(l) == {i \in Posted(l) : i > LastEnd(l) /\ l[i].mid_turn}
Unread(l, rd) == {i \in MidTurn(l) : l[i].post \notin rd}
Steered(l, rd) == {i \in Unread(l, rd) : l[i].steer}

LEMMA UnreadFinite ==
  ASSUME NEW l \in Seq(Event), NEW rd
  PROVE  /\ IsFiniteSet(Unread(l, rd)) /\ IsFiniteSet(Steered(l, rd))
         /\ Cardinality(Unread(l, rd)) \in Nat /\ Cardinality(Steered(l, rd)) \in Nat
         /\ Unread(l, rd) \subseteq 1 .. Len(l) /\ Steered(l, rd) \subseteq Unread(l, rd)
<1>1. Len(l) \in Nat /\ DOMAIN l = 1 .. Len(l)
  OBVIOUS
<1>2. Unread(l, rd) \subseteq 1 .. Len(l) /\ Steered(l, rd) \subseteq Unread(l, rd)
  BY <1>1 DEF Unread, Steered, MidTurn, Posted, Events
<1>3. IsFiniteSet(1 .. Len(l))
  BY <1>1, FS_Interval
<1>4. IsFiniteSet(Unread(l, rd)) /\ IsFiniteSet(Steered(l, rd))
  BY <1>2, <1>3, FS_Subset
<1> QED BY <1>2, <1>4, FS_CardinalityType

(* What is no message and no end changes neither what is unread nor what a *)
(* request shows.                                                          *)
LEMMA UnreadStays ==
  ASSUME NEW l, NEW ll, NEW e, Grows(l, ll, e), e.kind \notin {"user_message", "turn_ended"}, NEW rd
  PROVE  /\ MidTurn(ll) = MidTurn(l) /\ Unread(ll, rd) = Unread(l, rd)
         /\ Steered(ll, rd) = Steered(l, rd) /\ Shown(ll) = Shown(l)
         /\ \A i \in Posted(l) : ll[i] = l[i]
<1>0. l \in Seq(Event)
  BY DEF Grows
<1>1. /\ ll \in Seq(Event) /\ \A i \in 1 .. Len(l) : ll[i] = l[i]
      /\ \A k : Events(l, k) \subseteq 1 .. Len(l)
      /\ \A k : Events(ll, k) = Events(l, k) \union (IF e.kind = k THEN {Len(l) + 1} ELSE {})
  BY Grown
<1>2. Posted(ll) = Posted(l) /\ \A i \in Posted(l) : ll[i] = l[i]
  BY <1>1 DEF Posted
<1>3. LastEnd(ll) = LastEnd(l)
  BY GrownEnd
<1>4. MidTurn(ll) = MidTurn(l) /\ \A i \in MidTurn(l) : ll[i] = l[i]
  BY <1>2, <1>3 DEF MidTurn
<1>5. Unread(ll, rd) = Unread(l, rd) /\ \A i \in Unread(l, rd) : ll[i] = l[i]
  BY <1>4 DEF Unread
<1>6. Steered(ll, rd) = Steered(l, rd)
  BY <1>5 DEF Steered
<1>7. \A i \in Posted(l) : BeyondHorizon(ll, i) <=> BeyondHorizon(l, i)
  BY <1>2, <1>3 DEF BeyondHorizon
<1>8. Shown(ll) = Shown(l)
  <2>1. /\ Shown(l) = {l[i].post : i \in {k \in Posted(l) : ~BeyondHorizon(l, k)}} \ {0}
        /\ Shown(ll) = {ll[i].post : i \in {k \in Posted(ll) : ~BeyondHorizon(ll, k)}} \ {0}
    BY <1>0, <1>1, ShownIs
  <2>2. {k \in Posted(ll) : ~BeyondHorizon(ll, k)} = {k \in Posted(l) : ~BeyondHorizon(l, k)}
    BY <1>2, <1>7
  <2> DEFINE K == {k \in Posted(l) : ~BeyondHorizon(l, k)}
  <2>3. \A i \in K : ll[i] = l[i]
    BY <1>2
  <2> HIDE DEF K
  <2>4. {ll[i].post : i \in K} = {l[i].post : i \in K}
    BY <2>3
  <2> QED BY <2>1, <2>2, <2>4 DEF K
<1> QED BY <1>2, <1>4, <1>5, <1>6, <1>8

(* A message posted mid-turn adds one.                                     *)
LEMMA UnreadQueued ==
  ASSUME NEW l, NEW ll, NEW e, NEW rd, Grows(l, ll, e),
         e.kind = "user_message", e.mid_turn, e.post \notin rd
  PROVE  /\ Unread(ll, rd) = Unread(l, rd) \union {Len(l) + 1}
         /\ Cardinality(Unread(ll, rd)) = Cardinality(Unread(l, rd)) + 1
         /\ ll[Len(l) + 1] = e /\ \A i \in Unread(l, rd) : ll[i] = l[i]
<1>g. l \in Seq(Event)
  BY DEF Grows
<1>1. /\ ll \in Seq(Event) /\ \A i \in 1 .. Len(l) : ll[i] = l[i]
      /\ Len(l) \in Nat /\ ll[Len(l) + 1] = e
      /\ \A k : Events(l, k) \subseteq 1 .. Len(l)
      /\ \A k : Events(ll, k) = Events(l, k) \union (IF e.kind = k THEN {Len(l) + 1} ELSE {})
  BY Grown
<1>2. /\ Posted(ll) = Posted(l) \union {Len(l) + 1} /\ \A i \in Posted(l) : ll[i] = l[i]
      /\ Posted(l) \subseteq 1 .. Len(l)
  BY <1>1 DEF Posted
<1>3. LastEnd(ll) = LastEnd(l) /\ LastEnd(l) \in 0 .. Len(l)
  BY <1>g, GrownEnd, LastEndIsLast
<1>4. Len(l) + 1 > LastEnd(l) /\ Len(l) + 1 \notin 1 .. Len(l)
  BY <1>1, <1>3
<1>5. Unread(ll, rd) = Unread(l, rd) \union {Len(l) + 1} /\ \A i \in Unread(l, rd) : ll[i] = l[i]
  BY <1>1, <1>2, <1>3, <1>4 DEF Unread, MidTurn
<1>6. IsFiniteSet(Unread(l, rd)) /\ Len(l) + 1 \notin Unread(l, rd)
  BY <1>g, <1>4, UnreadFinite
<1>7. Cardinality(Unread(ll, rd)) = Cardinality(Unread(l, rd)) + 1
  BY <1>5, <1>6, FS_AddElement
<1> QED BY <1>1, <1>5, <1>7

LEMMA SteeredQueued ==
  ASSUME NEW l, NEW ll, NEW e, NEW rd, Grows(l, ll, e),
         e.kind = "user_message", e.mid_turn, e.post \notin rd, e.steer
  PROVE  /\ Steered(ll, rd) = Steered(l, rd) \union {Len(l) + 1}
         /\ Cardinality(Steered(ll, rd)) = Cardinality(Steered(l, rd)) + 1
<1>1. /\ Unread(ll, rd) = Unread(l, rd) \union {Len(l) + 1} /\ ll[Len(l) + 1] = e
      /\ \A i \in Unread(l, rd) : ll[i] = l[i]
  BY UnreadQueued
<1>2. Steered(ll, rd) = Steered(l, rd) \union {Len(l) + 1}
  <2>1. \A i \in Unread(ll, rd) : i \in Unread(l, rd) \/ i = Len(l) + 1
    BY <1>1
  <2> QED BY <1>1, <2>1 DEF Steered
<1>3. Len(l) \in Nat /\ IsFiniteSet(Steered(l, rd)) /\ Len(l) + 1 \notin Steered(l, rd)
  BY UnreadFinite DEF Grows
<1> QED BY <1>2, <1>3, FS_AddElement

LEMMA UnsteeredQueued ==
  ASSUME NEW l, NEW ll, NEW e, NEW rd, Grows(l, ll, e),
         e.kind = "user_message", e.mid_turn, e.post \notin rd, ~e.steer
  PROVE  Steered(ll, rd) = Steered(l, rd)
<1>1. Unread(ll, rd) = Unread(l, rd) \union {Len(l) + 1}
  BY UnreadQueued
<1>2. ll[Len(l) + 1] = e /\ \A i \in Unread(l, rd) : ll[i] = l[i]
  BY <1>1, UnreadQueued
<1> QED BY <1>1, <1>2 DEF Steered

(* Where no turn is open nothing is unread.                                *)
LEMMA NoneUnread ==
  ASSUME NEW l \in Seq(Event), ~TurnIsOpen(l), NEW rd
  PROVE  MidTurn(l) = {} /\ Unread(l, rd) = {} /\ Steered(l, rd) = {}
<1>1. MidTurn(l) = {}
  <2> SUFFICES ASSUME NEW i \in Posted(l), i > LastEnd(l) PROVE FALSE
    BY DEF MidTurn
  <2>1. i \in 1 .. Len(l) /\ l[i].kind = "user_message" /\ Len(l) \in Nat /\ LastEnd(l) \in 0 .. Len(l)
    BY LastEndIsLast DEF Posted, Events
  <2>2. i \in Open(l)
    BY <2>1 DEF Open
  <2> QED BY <2>1, <2>2 DEF TurnIsOpen, IsTurnEvent
<1> QED BY <1>1 DEF Unread, Steered

-----------------------------------------------------------------------------
(* How the queue shown moves, as long as no process died.                  *)

Ordinal(e) == e.kind \notin {"user_message", "assistant_message", "turn_ended"}

LEMMA OrdinalEvents ==
  /\ \A c, o : Ordinal(ToolResult(c, o))
  /\ \A c : Ordinal(PermissionRequested(c))
  /\ \A c, a, b : Ordinal(PermissionDecided(c, a, b))
  /\ \A b, c : Ordinal(DecisionProposed(b, c))
  /\ \A i, a : Ordinal(DecisionAnswered(i, a))
  /\ \A to : Ordinal(ProjectSwitched(to))
  /\ Ordinal(ProviderRetried)
  /\ \A j : Ordinal(JobFinished(j))
  /\ \A b : Ordinal(Interrupted(b))
BY DEF Ordinal, ToolResult, PermissionRequested, PermissionDecided, DecisionProposed,
   DecisionAnswered, ProjectSwitched, ProviderRetried, JobFinished, Interrupted

SameCount(s, t) == t.queued = s.queued /\ t.steered = s.steered

LEMMA ObservedCounts ==
  ASSUME NEW s \in Shared, s.steered <= s.queued, NEW e
  PROVE  /\ e.kind \notin {"user_message", "assistant_message"} => SameCount(s, Observed(s, e))
         /\ e.kind = "user_message" /\ e.mid_turn =>
              /\ Observed(s, e).queued = s.queued + 1
              /\ Observed(s, e).steered = IF e.steer THEN s.steered + 1 ELSE s.steered
         /\ e.kind = "user_message" /\ ~e.mid_turn => SameCount(s, Observed(s, e))
         /\ e.kind = "assistant_message" =>
              /\ Observed(s, e).queued = s.queued - s.steered
              /\ Observed(s, e).steered = 0
<1>0. s.queued \in Nat /\ s.steered \in Nat
  BY DEF Shared
<1>w. \A t \in Shared : SameCount(t, Working(t))
  BY DEF Shared, Working, SameCount
<1>v. SameCount(s, s) /\ SameCount(s, Working(s))
  BY DEF Shared, Working, SameCount
<1>1. e.kind \notin {"user_message", "assistant_message"} => SameCount(s, Observed(s, e))
  BY <1>v DEF Observed
<1>2. CASE e.kind = "user_message" /\ e.mid_turn
  <2>1. /\ Observed(s, e).queued = s.queued + 1
        /\ Observed(s, e).steered = IF e.steer THEN s.steered + 1 ELSE s.steered
    <3> DEFINE counted == [s EXCEPT !.queued = @ + 1,
                                    !.steered = IF e.steer THEN @ + 1 ELSE @]
    <3>1. /\ counted.queued = s.queued + 1
          /\ counted.steered = IF e.steer THEN s.steered + 1 ELSE s.steered
      BY DEF Shared
    <3>2. counted.queued \in Nat /\ counted.steered \in Nat
      BY <1>0, <3>1
    <3>3. counted \in Shared
      BY <3>2 DEF Shared
    <3>4. Observed(s, e) \in {counted, Working(counted)}
      BY <1>2 DEF Observed, EndsAWait
    <3> HIDE DEF counted
    <3> QED BY <1>w, <3>1, <3>3, <3>4 DEF SameCount
  <2> QED BY <1>2, <2>1
<1>3. e.kind = "user_message" /\ ~e.mid_turn => SameCount(s, Observed(s, e))
  BY <1>v DEF Observed, EndsAWait
<1>4. CASE e.kind = "assistant_message"
  <2>1. CASE s.steered > 0
    <3> DEFINE cleared == [s EXCEPT !.steered = 0, !.queued = @ - s.steered]
    <3>1. cleared.queued = s.queued - s.steered /\ cleared.steered = 0
      BY DEF Shared
    <3>2. cleared.queued \in Nat
      BY <1>0, <3>1
    <3>3. cleared \in Shared
      BY <3>1, <3>2 DEF Shared
    <3>4. Observed(s, e) = Working(cleared)
      BY <1>4, <2>1 DEF Observed, EndsAWait
    <3> HIDE DEF cleared
    <3> QED BY <1>4, <1>w, <3>1, <3>3, <3>4 DEF SameCount
  <2>2. CASE ~ (s.steered > 0)
    <3>1. Observed(s, e) = s
      BY <1>4, <2>2 DEF Observed, EndsAWait
    <3>2. s.steered = 0 /\ s.queued - s.steered = s.queued
      BY <1>0, <2>2
    <3> QED BY <1>4, <3>1, <3>2
  <2> QED BY <1>4, <2>1, <2>2
<1> QED BY <1>1, <1>2, <1>3, <1>4

Plainly == log' = log \/ \E e : Grows(log, log', e) /\ Ordinal(e)
Counting == SameCount(shared, shared')

Leaving == {"interrupt", "end"}
Resting == {"side", "idle", "idle_switched", "by_hand", "startup_ask"}

(* The turn goes on without a message or a reply.                          *)
GoesOn ==
  /\ pc \in Places /\ pc' \in Places /\ (pc \in Leaving => pc' \in Leaving)
  /\ pc' = "stream" =>
       \/ pc = "stream" /\ context' = context
       \/ log' = log /\ context' = Shown(log)
  /\ Plainly /\ Counting /\ read' = read

(* A message is queued.                                                    *)
Queues ==
  /\ pc \in Places \ {"stream"} /\ pc' = pc /\ read' = read
  /\ \E e :
       /\ Grows(log, log', e) /\ e.kind = "user_message" /\ e.mid_turn
       /\ e.post \in InMemory /\ (e.steer \/ pc \in Leaving)
       /\ shared'.queued = shared.queued + 1
       /\ shared'.steered = IF e.steer THEN shared.steered + 1 ELSE shared.steered

(* A reply reads what is steered.                                          *)
Reads ==
  /\ pc = "stream" /\ pc' \in Places \ {"stream"}
  /\ \E e : Grows(log, log', e) /\ e.kind = "assistant_message"
  /\ shared'.queued = shared.queued - shared.steered /\ shared'.steered = 0
  /\ read' = read \union context

(* A turn begins, with nothing queued, opens and ends.                     *)
BeginsAnew ==
  /\ shared'.queued = 0 /\ shared'.steered = 0 /\ read' = read
  /\ \/ pc = "idle" /\ pc' = "start" /\ Plainly
     \/ pc = "after" /\ pc' = "loop" /\ log' = log

Opens ==
  /\ pc = "start" /\ pc' = "loop" /\ Counting /\ read' = read
  /\ \E p : Grows(log, log', UserMessage(p, FALSE, FALSE))

Closes ==
  /\ pc = "end" /\ pc' = "after" /\ Counting /\ read' = read
  /\ \E e : Grows(log, log', e) /\ e.kind = "turn_ended"

(* No turn runs.                                                           *)
RestsOn ==
  /\ Plainly /\ read' = read
  /\ \/ pc = "after" /\ pc' = "after" /\ Counting
     \/ pc = "after" /\ pc' = "side" /\ shared.queued = 0
     \/ pc \in Resting /\ pc' \in Resting

QueueMove ==
  \/ pc \in Booting \/ Crash
  \/ GoesOn \/ Queues \/ Reads \/ BeginsAnew \/ Opens \/ Closes \/ RestsOn

LEMMA PlainWrite ==
  ASSUME TypeInv, TypeInv', NEW e, Write(e), Ordinal(e)
  PROVE  Plainly /\ Counting
<1>1. SameCount(shared, Observed(shared, e))
  BY ObservedCounts DEF TypeInv, TypeOK, Ordinal
<1>2. log' = Append(log, e) /\ shared' = Observed(shared, e)
  BY DEF Write
<1> QED BY <1>1, <1>2, AppendGrows DEF Plainly, Counting

LEMMA PlainAppend ==
  ASSUME TypeInv, TypeInv', NEW e, log' = Append(log, e), Ordinal(e)
  PROVE  Plainly
BY AppendGrows DEF Plainly

LEMMA QueuedWrite ==
  ASSUME TypeInv, TypeInv', NEW p, NEW steer \in BOOLEAN, AppendQueued(p, steer)
  PROVE  \E e : /\ Grows(log, log', e) /\ e.kind = "user_message" /\ e.mid_turn
                /\ e.post = p /\ e.steer = steer
                /\ shared'.queued = shared.queued + 1
                /\ shared'.steered = IF e.steer THEN shared.steered + 1 ELSE shared.steered
<1> DEFINE e == UserMessage(p, TRUE, steer)
<1>1. log' = Append(log, e) /\ shared' = Observed(shared, e)
  BY DEF AppendQueued, Write
<1>2. e.kind = "user_message" /\ e.mid_turn /\ e.post = p /\ e.steer = steer
  BY DEF UserMessage
<1> HIDE DEF e
<1>3. Grows(log, log', e)
  BY <1>1, AppendGrows
<1>4. /\ Observed(shared, e).queued = shared.queued + 1
      /\ Observed(shared, e).steered = IF e.steer THEN shared.steered + 1 ELSE shared.steered
  BY <1>2, ObservedCounts DEF TypeInv, TypeOK
<1> QED BY <1>1, <1>2, <1>3, <1>4

LEMMA Unwritten ==
  ASSUME UNCHANGED <<log, shared>>
  PROVE  Plainly /\ Counting
BY DEF Plainly, Counting, SameCount

LEMMA WaitsCount == \A s \in Shared : \A state : SameCount(s, Waits(s, state))
BY DEF Shared, Waits, SameCount

LEMMA QueuedHead ==
  ASSUME TypeInv
  PROVE  /\ inbox /= <<>> => Head(inbox) \in InMemory
         /\ held /= <<>> => Head(held) \in InMemory
<1>1. inbox \in Seq(1 .. posts) /\ held \in Seq(1 .. posts)
  BY DEF TypeInv, TypeOK
<1>2. inbox /= <<>> => Head(inbox) \in ToSet(inbox)
  BY <1>1 DEF ToSet, Range
<1>3. held /= <<>> => Head(held) \in ToSet(held)
  BY <1>1 DEF ToSet, Range
<1> QED BY <1>2, <1>3 DEF InMemory

LEMMA QueueTurn ==
  ASSUME TypeInv, TypeInv', TurnStep
  PROVE  QueueMove
<1> USE DEF mailVars, batchVars, loopVars
<1>s. shared \in Shared
  BY DEF TypeInv, TypeOK
<1>r. ASSUME NEW origin, Result(origin), pc \in Places \ Leaving, pc /= "stream"
      PROVE  GoesOn
  <2>1. Plainly /\ Counting /\ read' = read
    BY <1>r, OrdinalEvents, PlainWrite DEF Result
  <2>2. pc' \in {"after_calls", "siblings", "calls"}
    BY <1>r DEF Result
  <2> QED BY <1>r, <2>1, <2>2 DEF GoesOn, Places
<1>n. ASSUME NEW origin, NEW next \in Places \ {"stream"}, NotRun(origin, next),
             pc \in Places \ Leaving, pc /= "stream"
      PROVE  GoesOn
  <2>1. Plainly /\ Counting /\ read' = read
    BY <1>n, OrdinalEvents, PlainWrite DEF NotRun
  <2>2. pc' \in {pc, next}
    BY <1>n DEF NotRun
  <2> QED BY <1>n, <2>1, <2>2 DEF GoesOn
<1>t. ASSUME NEW e, NEW next \in Places \ {"stream"}, Settle(e, next), Ordinal(e),
             pc \in Places \ Leaving, pc /= "stream"
      PROVE  GoesOn
  <2>1. Plainly /\ Counting /\ read' = read /\ pc' = next
    BY <1>t, PlainWrite DEF Settle
  <2> QED BY <1>t, <2>1 DEF GoesOn
<1>q. ASSUME NEW p \in InMemory, NEW steer \in BOOLEAN, AppendQueued(p, steer),
             pc \in Places \ {"stream"}, pc' = pc, read' = read, steer \/ pc \in Leaving
      PROVE  Queues
  <2>1. PICK e : /\ Grows(log, log', e) /\ e.kind = "user_message" /\ e.mid_turn
                 /\ e.post = p /\ e.steer = steer
                 /\ shared'.queued = shared.queued + 1
                 /\ shared'.steered = IF e.steer THEN shared.steered + 1 ELSE shared.steered
    BY <1>q, QueuedWrite
  <2> QED BY <1>q, <2>1 DEF Queues
<1>1. CASE Loop
  <2>1. ASSUME NEW place \in {"loop", "calls", "tool", "after_calls"}, DrainAt(place)
        PROVE  Queues
    <3>1. /\ Head(inbox) \in InMemory /\ AppendQueued(Head(inbox), TRUE)
          /\ pc \in Places \ {"stream"} /\ pc' = pc /\ read' = read
      BY <2>1, QueuedHead DEF DrainAt, Places
    <3> QED BY <1>q, <3>1
  <2>2. CASE FlushHeld
    <3>1. /\ Head(held) \in InMemory /\ AppendQueued(Head(held), TRUE)
          /\ pc \in Places \ {"stream"} /\ pc' = pc /\ read' = read
      BY <2>2, QueuedHead DEF FlushHeld, AtTop, Places
    <3> QED BY <1>q, <3>1 DEF QueueMove
  <2>3. CASE InterruptedAtTop \/ BudgetSpent \/ Compact \/ CompactionFails
    BY <2>3, Unwritten DEF InterruptedAtTop, BudgetSpent, AtTop, Compact, CompactionFails, GoesOn,
       Places, Leaving, QueueMove
  <2>4. CASE Request
    BY <2>4, Unwritten DEF Request, GoesOn, Places, Leaving, QueueMove
  <2> QED BY <1>1, <2>1, <2>2, <2>3, <2>4 DEF Loop, QueueMove
<1>2. CASE Stream
  <2>1. CASE StreamHolds \/ StreamInterrupted
    BY <2>1, Unwritten DEF StreamHolds, StreamInterrupted, GoesOn, Places, Leaving, QueueMove
  <2>2. CASE StreamRetried
    <3>1. Plainly /\ Counting
      BY <2>2, OrdinalEvents, PlainWrite DEF StreamRetried
    <3> QED BY <2>2, <3>1 DEF StreamRetried, StreamOver, GoesOn, Places, Leaving, QueueMove
  <2>3. CASE StreamFails
    BY <2>3, Unwritten DEF StreamFails, StreamOver, GoesOn, Places, Leaving, QueueMove
  <2>4. CASE StreamReplies
    <3>1. PICK calls : Write(AssistantMessage(calls))
      BY <2>4 DEF StreamReplies
    <3>2. pc = "stream" /\ pc' \in {"end", "length", "calls"} /\ read' = read \union context
      BY <2>4 DEF StreamReplies, StreamOver
    <3> DEFINE e == AssistantMessage(calls)
    <3>3. e.kind = "assistant_message" /\ log' = Append(log, e) /\ shared' = Observed(shared, e)
      BY <3>1 DEF Write, AssistantMessage
    <3> HIDE DEF e
    <3>4. Grows(log, log', e)
      BY <3>3, AppendGrows
    <3>5. shared'.queued = shared.queued - shared.steered /\ shared'.steered = 0
      BY <3>3, ObservedCounts DEF TypeInv, TypeOK
    <3> QED BY <3>2, <3>3, <3>4, <3>5 DEF Reads, Places, QueueMove
  <2> QED BY <1>2, <2>1, <2>2, <2>3, <2>4 DEF Stream
<1>3. CASE Calls
  <2>1. CASE LengthStop
    <3>1. "end" \in Places \ {"stream"} /\ pc \in Places \ Leaving /\ pc /= "stream"
          /\ NotRun("not_run", "end")
      BY <2>1 DEF LengthStop, Places, Leaving
    <3> QED BY <1>n, <3>1 DEF QueueMove
  <2>2. CASE Siblings
    <3>1. "after_calls" \in Places \ {"stream"} /\ pc \in Places \ Leaving /\ pc /= "stream"
          /\ NotRun("not_run", "after_calls")
      BY <2>2 DEF Siblings, Places, Leaving
    <3> QED BY <1>n, <3>1 DEF QueueMove
  <2>3. CASE ToolDone \/ ToolKilled
    <3>1. PICK origin : Result(origin)
      BY <2>3 DEF ToolDone, ToolKilled
    <3>2. pc \in Places \ Leaving /\ pc /= "stream"
      BY <2>3 DEF ToolDone, ToolKilled, Places, Leaving
    <3> QED BY <1>r, <3>1, <3>2 DEF QueueMove
  <2>4. CASE RunPlain
    BY <2>4, Unwritten DEF RunPlain, NextCall, GoesOn, Places, Leaving, QueueMove
  <2>5. CASE RequestGranted
    <3>1. Plainly /\ Counting
      BY <2>5, OrdinalEvents, PlainWrite DEF RequestGranted
    <3> QED BY <2>5, <3>1 DEF RequestGranted, NextCall, GoesOn, Places, Leaving, QueueMove
  <2>6. CASE Granted
    <3>1. PICK a, b : Write(PermissionDecided(Head(batch).id, a, b))
      BY <2>6 DEF Granted
    <3>2. Plainly /\ Counting
      BY <3>1, OrdinalEvents, PlainWrite
    <3> QED BY <2>6, <3>2 DEF Granted, GoesOn, Places, Leaving, QueueMove
  <2>7. CASE AskHuman
    <3>1. PICK state : shared' = Waits(shared, state)
      BY <2>7 DEF AskHuman, Register
    <3>2. Plainly /\ Counting
      BY <1>s, <2>7, <3>1, WaitsCount DEF AskHuman, Plainly, Counting
    <3> QED BY <2>7, <3>2 DEF AskHuman, Register, NextCall, GoesOn, Places, Leaving, QueueMove
  <2>8. CASE AskPermission \/ Propose
    <3>1. PICK e, state : /\ Ordinal(e) /\ log' = Append(log, e)
                          /\ shared' = Waits(Observed(shared, e), state)
      BY <2>8, OrdinalEvents DEF AskPermission, Propose, Register
    <3>2. e \in Event
      BY <3>1, AppendGrows DEF Grows
    <3>3. Observed(shared, e) \in Shared /\ SameCount(shared, Observed(shared, e))
      BY <3>1, <3>2, ObservedShared, ObservedCounts DEF TypeInv, TypeOK, Ordinal
    <3>4. Counting
      BY <3>1, <3>3, WaitsCount DEF Counting, SameCount
    <3>5. Plainly
      BY <3>1, PlainAppend
    <3>6. pc = "calls" /\ pc' = "ask" /\ read' = read
      BY <2>8 DEF AskPermission, Propose, NextCall, Register
    <3> QED BY <3>4, <3>5, <3>6 DEF GoesOn, Places, Leaving, QueueMove
  <2> QED BY <1>3, <2>1, <2>2, <2>3, <2>4, <2>5, <2>6, <2>7, <2>8 DEF Calls
<1>4. CASE Wait
  <2>1. CASE HumanInterrupted \/ HumanAnswered \/ Said \/ Refused
    <3>1. PICK origin : Result(origin)
      BY <2>1 DEF HumanInterrupted, HumanAnswered, Said, Refused
    <3>2. pc \in Places \ Leaving /\ pc /= "stream"
      BY <2>1 DEF HumanInterrupted, HumanAnswered, Said, Refused, Interrupts, Answers, Places, Leaving
    <3> QED BY <1>r, <3>1, <3>2 DEF QueueMove
  <2>2. CASE PermissionInterrupted \/ PermissionAllowed \/ PermissionDenied
    <3>1. \E allow, by : \E next \in {"refused", "tool"} :
            Settle(PermissionDecided(Head(batch).id, allow, by), next)
      <4>1. CASE PermissionInterrupted
        BY <4>1 DEF PermissionInterrupted
      <4>2. CASE PermissionAllowed
        BY <4>2 DEF PermissionAllowed
      <4>3. CASE PermissionDenied
        BY <4>3 DEF PermissionDenied
      <4> QED BY <2>2, <4>1, <4>2, <4>3
    <3>4. PICK allow, by, next : /\ Settle(PermissionDecided(Head(batch).id, allow, by), next)
                                 /\ next \in Places \ {"stream"}
      BY <3>1 DEF Places
    <3>2. pc \in Places \ Leaving /\ pc /= "stream"
      BY <2>2 DEF PermissionInterrupted, PermissionAllowed, PermissionDenied, Interrupts, Answers,
         Places, Leaving
    <3> QED BY <1>t, <3>2, <3>4, OrdinalEvents DEF QueueMove
  <2>3. CASE \/ ProposalInterrupted \/ Declined \/ SwitchRecorded \/ SwitchFails \/ JobApproved
    <3>1. PICK i, a, next : Settle(DecisionAnswered(i, a), next) /\ next \in Places \ {"stream"}
      BY <2>3 DEF ProposalInterrupted, Declined, SwitchRecorded, SwitchFails, JobApproved, Places
    <3>2. pc \in Places \ Leaving /\ pc /= "stream"
      BY <2>3 DEF ProposalInterrupted, Declined, SwitchRecorded, SwitchFails, JobApproved,
         Interrupts, Answers, Places, Leaving
    <3> QED BY <1>t, <3>1, <3>2, OrdinalEvents DEF QueueMove
  <2>4. CASE SwitchAgreed
    <3>1. PICK to, next : Settle(ProjectSwitched(to), next) /\ next \in Places \ {"stream"}
      BY <2>4 DEF SwitchAgreed, Places
    <3>2. pc \in Places \ Leaving /\ pc /= "stream"
      BY <2>4 DEF SwitchAgreed, Answers, Places, Leaving
    <3> QED BY <1>t, <3>1, <3>2, OrdinalEvents DEF QueueMove
  <2> QED BY <1>4, <2>1, <2>2, <2>3, <2>4 DEF Wait
<1>5. CASE Ending
  <2>1. CASE FlushLast
    <3>1. PICK p, steer : p = Head(held) /\ steer = FALSE
      OBVIOUS
    <3>2. /\ p \in InMemory /\ AppendQueued(p, steer) /\ steer \in BOOLEAN
          /\ pc \in Places \ {"stream"} /\ pc' = pc /\ read' = read /\ pc \in Leaving
      BY <2>1, <3>1, QueuedHead DEF FlushLast, Leaving, Places
    <3> QED BY <1>q, <3>2 DEF QueueMove
  <2>2. CASE Synthetic
    <3>1. "interrupt" \in Places \ {"stream"} /\ pc \in Places \ Leaving /\ pc /= "stream"
          /\ NotRun("not_run", "interrupt")
      BY <2>2 DEF Synthetic, AfterCalls, Places, Leaving
    <3> QED BY <1>n, <3>1 DEF QueueMove
  <2>3. CASE BatchOver
    BY <2>3, Unwritten DEF BatchOver, AfterCalls, GoesOn, Places, Leaving, QueueMove
  <2>4. CASE NoteInterrupt
    <3>1. Plainly /\ Counting
      BY <2>4, OrdinalEvents, PlainWrite DEF NoteInterrupt
    <3> QED BY <2>4, <3>1 DEF NoteInterrupt, GoesOn, Places, Leaving, QueueMove
  <2>5. CASE EndTurn
    <3> DEFINE e == TurnEnded(reason)
    <3>1. e.kind = "turn_ended" /\ log' = Append(log, e) /\ shared' = Observed(shared, e)
      BY <2>5 DEF EndTurn, Write, TurnEnded
    <3> HIDE DEF e
    <3>2. Grows(log, log', e) /\ Counting
      BY <3>1, AppendGrows, ObservedCounts DEF TypeInv, TypeOK, Counting
    <3> QED BY <2>5, <3>1, <3>2 DEF EndTurn, Closes, QueueMove
  <2> QED BY <1>5, <2>1, <2>2, <2>3, <2>4, <2>5 DEF Ending
<1> QED BY <1>1, <1>2, <1>3, <1>4, <1>5 DEF TurnStep

LEMMA QueueActor ==
  ASSUME TypeInv, TypeInv', Next, ~RunTurn
  PROVE  QueueMove
<1> USE DEF mailVars, batchVars, loopVars, actorVars, bookVars
<1>0. pc \in AwaitPoints => pc \in Places \ Leaving
  BY DEF AwaitPoints, Places, Leaving
<1>1. CASE StartTurn
  <2>1. PICK p : Write(UserMessage(p, FALSE, FALSE))
    BY <1>1 DEF StartTurn
  <2> DEFINE e == UserMessage(p, FALSE, FALSE)
  <2>2. e.kind = "user_message" /\ ~e.mid_turn /\ log' = Append(log, e)
        /\ shared' = Observed(shared, e)
    BY <2>1 DEF UserMessage, Write
  <2> HIDE DEF e
  <2>3. Grows(log, log', e) /\ Counting
    BY <2>2, AppendGrows, ObservedCounts DEF TypeInv, TypeOK, Counting
  <2>4. \E q : Grows(log, log', UserMessage(q, FALSE, FALSE))
    BY <2>3 DEF e
  <2> QED BY <1>1, <2>3, <2>4 DEF StartTurn, Opens, QueueMove
<1>2. CASE PostIdle
  <2>1. log' = log \/ log' = Append(log, Withdrawn)
    BY <1>2 DEF PostIdle
  <2>2. Plainly
    BY <2>1, OrdinalEvents, PlainAppend DEF Withdrawn, Plainly
  <2>3. shared'.queued = 0 /\ shared'.steered = 0
    <3>1. shared' = Working([shared EXCEPT !.queued = 0, !.steered = 0]) /\ shared \in Shared
      BY <1>2 DEF PostIdle, Begin, TypeInv, TypeOK
    <3> QED BY <3>1 DEF Working, Shared
  <2> QED BY <1>2, <2>2, <2>3 DEF PostIdle, Begin, BeginsAnew, QueueMove
<1>3. CASE Continue
  <2>1. shared'.queued = 0 /\ shared'.steered = 0
    <3>1. shared' = Working([shared EXCEPT !.queued = 0, !.steered = 0]) /\ shared \in Shared
      BY <1>3 DEF Continue, Begin, TypeInv, TypeOK
    <3> QED BY <3>1 DEF Working, Shared
  <2> QED BY <1>3, <2>1 DEF Continue, Begin, BeginsAnew, QueueMove
<1>4. CASE PostRunning \/ Interrupt \/ Decide
  <2>1. /\ UNCHANGED <<log, pc, shared, context, read>> /\ pc \in AwaitPoints
    BY <1>4 DEF PostRunning, Interrupt, Decide, Running, AwaitPoints
  <2> QED BY <1>0, <2>1, Unwritten DEF GoesOn, QueueMove
<1>5. CASE JobReturns
  <2>1. CASE Running
    <3>1. /\ UNCHANGED <<log, pc, shared, context, read>> /\ pc \in AwaitPoints
      BY <1>5, <2>1 DEF JobReturns, Running
    <3> QED BY <1>0, <3>1, Unwritten DEF GoesOn, QueueMove
  <2>2. CASE ~Running
    <3>1. \/ UNCHANGED <<log, shared>>
          \/ \E j : Write(JobFinished(j))
      BY <1>5, <2>2 DEF JobReturns
    <3>2. Plainly
      BY <3>1, OrdinalEvents, PlainWrite, Unwritten
    <3>3. pc = "idle" /\ pc' = "idle" /\ read' = read
      BY <1>5, <2>2 DEF JobReturns
    <3> QED BY <3>2, <3>3 DEF RestsOn, Resting, QueueMove
  <2> QED BY <2>1, <2>2
<1>6. CASE WriteNote
  <2>1. UNCHANGED <<log, shared>> \/ \E j : Write(JobFinished(j))
    BY <1>6 DEF WriteNote
  <2>2. Plainly /\ Counting
    BY <2>1, OrdinalEvents, PlainWrite, Unwritten
  <2> QED BY <1>6, <2>2 DEF WriteNote, RestsOn, QueueMove
<1>7. CASE GoIdle
  <2>1. shared.queued = 0
    BY <1>7 DEF GoIdle, MustContinue, TypeInv, TypeOK, Shared
  <2> QED BY <1>7, <2>1 DEF GoIdle, Plainly, RestsOn, QueueMove
<1>8. CASE \/ SideJobs \/ RecordIdle \/ SwitchByHand \/ SwitchByHandFails \/ RecordStartupAsk
           \/ ProposeIdle \/ DeclineIdle \/ FailIdle \/ AgreeIdle \/ WithdrawByHand \/ StartupAsk
  <2>1. pc \in Resting /\ pc' \in Resting /\ read' = read
    BY <1>8
    DEF SideJobs, RecordIdle, SwitchByHand, SwitchByHandFails, Move, RecordStartupAsk,
        ProposeIdle, DeclineIdle, FailIdle, AgreeIdle, AnswerIdle, WithdrawByHand, StartupAsk,
        Resting
  <2>2. log' = log \/ \E e : log' = Append(log, e) /\ Ordinal(e)
    <3>1. CASE \/ SideJobs \/ RecordIdle \/ SwitchByHand \/ SwitchByHandFails
               \/ ProposeIdle \/ DeclineIdle
      BY <3>1, OrdinalEvents
      DEF SideJobs, RecordIdle, SwitchByHand, SwitchByHandFails, Move, ProposeIdle, DeclineIdle,
          AnswerIdle, Write
    <3>2. CASE RecordStartupAsk \/ FailIdle \/ AgreeIdle \/ WithdrawByHand \/ StartupAsk
      BY <3>2, OrdinalEvents
      DEF RecordStartupAsk, FailIdle, AgreeIdle, AnswerIdle, WithdrawByHand, StartupAsk,
          Withdrawn, Write
    <3> QED BY <1>8, <3>1, <3>2
  <2>3. Plainly
    BY <2>2, PlainAppend DEF Plainly
  <2> QED BY <2>1, <2>3 DEF RestsOn, QueueMove
<1>9. CASE \/ WithdrawOpen \/ RestoreTurnEnded \/ AnswerUnanswered \/ NoteCrash
           \/ NothingOpen \/ AlreadyNoted \/ Boot
  <2>1. pc \in Booting
    BY <1>9
    DEF WithdrawOpen, RestoreTurnEnded, AnswerUnanswered, NoteCrash, Repair, NothingOpen,
        AlreadyNoted, Resumed, Boot, Booting
  <2> QED BY <2>1 DEF QueueMove
<1>10. CASE Crash
  BY <1>10 DEF QueueMove
<1> QED
  BY <1>1, <1>2, <1>3, <1>4, <1>5, <1>6, <1>7, <1>8, <1>9, <1>10 DEF Next, ActorStep, Mail

-----------------------------------------------------------------------------
(* How often the daemon died.                                              *)
CountTyped ==
  count \in [interrupts : Nat, crashes : Nat, returns : Nat, switches : Nat]

LEMMA CountStep ==
  ASSUME CountTyped, [Next]_vars
  PROVE  /\ CountTyped'
         /\ count'.crashes = 0 => count.crashes = 0
         /\ Crash => count'.crashes /= 0
<1>1. ASSUME NEW most, Counted("interrupts", most) \/ Counted("returns", most) \/ Counted("switches", most)
      PROVE  CountTyped' /\ count'.crashes = count.crashes
  BY <1>1 DEF Counted, CountTyped
<1>2. ASSUME NEW most, Counted("crashes", most)
      PROVE  CountTyped' /\ count'.crashes = count.crashes + 1
  BY <1>2 DEF Counted, CountTyped
<1>3. count.crashes \in Nat
  BY DEF CountTyped
<1>4. CASE Crash
  BY <1>2, <1>3, <1>4 DEF Crash
<1>5. CASE ~Crash
  <2>0. SUFFICES CountTyped' /\ count'.crashes = count.crashes
    BY <1>5
  <2>1. ASSUME count' = count PROVE CountTyped' /\ count'.crashes = count.crashes
    BY <2>1 DEF CountTyped
  <2>2. CASE UNCHANGED vars
    BY <2>1, <2>2 DEF vars, bookVars
  <2>3. CASE RunTurn \/ StartTurn \/ WriteNote \/ Continue \/ GoIdle \/ SideJobs
    BY <2>1, <2>3 DEF RunTurn, StartTurn, WriteNote, Continue, GoIdle, SideJobs, bookVars
  <2>4. CASE \/ RecordIdle \/ SwitchByHand \/ SwitchByHandFails \/ RecordStartupAsk
             \/ WithdrawOpen \/ RestoreTurnEnded \/ AnswerUnanswered \/ NoteCrash
             \/ NothingOpen \/ AlreadyNoted \/ Boot
    BY <2>1, <2>4
    DEF RecordIdle, SwitchByHand, SwitchByHandFails, Move, RecordStartupAsk, WithdrawOpen,
        RestoreTurnEnded, AnswerUnanswered, NoteCrash, Repair, NothingOpen, AlreadyNoted,
        Resumed, Boot, bookVars
  <2>5. CASE PostIdle \/ Decide \/ DeclineIdle \/ FailIdle \/ AgreeIdle
    BY <2>1, <2>5 DEF PostIdle, Decide, DeclineIdle, FailIdle, AgreeIdle, AnswerIdle, bookVars
  <2>6. CASE PostRunning
    BY <1>1, <2>1, <2>6 DEF PostRunning
  <2>7. CASE Interrupt \/ JobReturns \/ ProposeIdle \/ WithdrawByHand \/ StartupAsk
    BY <1>1, <2>7 DEF Interrupt, JobReturns, ProposeIdle, WithdrawByHand, StartupAsk
  <2> QED BY <1>5, <2>2, <2>3, <2>4, <2>5, <2>6, <2>7 DEF Next, ActorStep, Mail
<1> QED BY <1>4, <1>5

-----------------------------------------------------------------------------
(* What is read is logged.                                                 *)
ReadInv == read \subseteq PostsOf(log)

LEMMA ReadStep ==
  ASSUME TypeInv, PostsInv, PostsMove, ReadInv
  PROVE  ReadInv'
<1>1. PostedOnce(log) /\ context \subseteq PostsOf(log)
  BY DEF PostsInv, PostsAt
<1>2. log' = log \/ \E e : Grows(log, log', e)
  BY DEF PostsMove, Rests, Holds, Gathers, Drains, Flushes, Starts, AcceptsIdle, AcceptsRunning,
     Dies, LogRests, Logs
<1>3. PostsOf(log) \subseteq PostsOf(log')
  <2>1. ASSUME NEW e, Grows(log, log', e) PROVE PostsOf(log) \subseteq PostsOf(log')
    BY <1>1, <2>1, GrownPosts
  <2> QED BY <1>2, <2>1
<1>4. read' \in {read, read \union context}
  BY DEF PostsMove, Rests, Holds, Gathers, Drains, Flushes, Starts, AcceptsIdle, AcceptsRunning,
     Dies
<1> QED BY <1>1, <1>3, <1>4 DEF ReadInv

-----------------------------------------------------------------------------
(* The queue shown counts what is unread.                                  *)

QueueAt(p, l, rd, q, st, cx) ==
  /\ p \notin Booting
  /\ p \in Places => q = Cardinality(Unread(l, rd)) /\ st = Cardinality(Steered(l, rd))
  /\ p \in Places \ Leaving => Unread(l, rd) = Steered(l, rd)
  /\ p = "stream" => cx = Shown(l)
  /\ p = "start" => q = 0 /\ st = 0

QueueInv ==
  count.crashes = 0 => QueueAt(pc, log, read, shared.queued, shared.steered, context)

LEMMA NothingUnread ==
  /\ Cardinality({}) = 0
  /\ \A l, rd : Unread(l, rd) = {} => Steered(l, rd) = {}
BY FS_EmptySet DEF Steered

LEMMA QueueGoesOn ==
  ASSUME NEW l, NEW ll, NEW rd, NEW p, NEW q, NEW st, NEW cx, NEW p2, NEW cx2,
         QueueAt(p, l, rd, q, st, cx), p \in Places, p2 \in Places, p \in Leaving => p2 \in Leaving,
         ll = l \/ \E e : Grows(l, ll, e) /\ Ordinal(e),
         p2 = "stream" => (p = "stream" /\ cx2 = cx) \/ (ll = l /\ cx2 = Shown(l))
  PROVE  QueueAt(p2, ll, rd, q, st, cx2)
<1>1. p2 \notin Booting /\ p2 /= "start"
  BY DEF Booting, Places
<1>2. Unread(ll, rd) = Unread(l, rd) /\ Steered(ll, rd) = Steered(l, rd) /\ Shown(ll) = Shown(l)
  <2>1. ASSUME NEW e, Grows(l, ll, e), Ordinal(e)
        PROVE  /\ Unread(ll, rd) = Unread(l, rd) /\ Steered(ll, rd) = Steered(l, rd)
               /\ Shown(ll) = Shown(l)
    BY <2>1, UnreadStays DEF Ordinal
  <2> QED BY <2>1
<1> QED BY <1>1, <1>2 DEF QueueAt

LEMMA QueueQueues ==
  ASSUME NEW l, NEW ll, NEW rd, NEW p, NEW q, NEW st, NEW cx, NEW q2, NEW st2, NEW cx2, NEW e,
         QueueAt(p, l, rd, q, st, cx), p \in Places \ {"stream"},
         Grows(l, ll, e), e.kind = "user_message", e.mid_turn, e.post \notin rd,
         e.steer \/ p \in Leaving, q2 = q + 1, st2 = IF e.steer THEN st + 1 ELSE st
  PROVE  QueueAt(p, ll, rd, q2, st2, cx2)
<1>1. p \notin Booting /\ p /= "start"
  BY DEF QueueAt, Places
<1>2. /\ Unread(ll, rd) = Unread(l, rd) \union {Len(l) + 1}
      /\ Cardinality(Unread(ll, rd)) = Cardinality(Unread(l, rd)) + 1
  BY UnreadQueued
<1>3. CASE e.steer
  <2>1. /\ Steered(ll, rd) = Steered(l, rd) \union {Len(l) + 1}
        /\ Cardinality(Steered(ll, rd)) = Cardinality(Steered(l, rd)) + 1
    BY <1>3, SteeredQueued
  <2>2. st2 = st + 1
    BY <1>3
  <2> QED BY <1>1, <1>2, <2>1, <2>2 DEF QueueAt
<1>4. CASE ~e.steer
  <2>1. Steered(ll, rd) = Steered(l, rd)
    BY <1>4, UnsteeredQueued
  <2>2. st2 = st /\ p \in Leaving
    BY <1>4
  <2> QED BY <1>1, <1>2, <2>1, <2>2 DEF QueueAt
<1> QED BY <1>3, <1>4

LEMMA QueueReplies ==
  ASSUME NEW l, NEW ll, NEW rd, NEW q, NEW st, NEW cx, NEW p2, NEW q2, NEW st2, NEW cx2, NEW e,
         QueueAt("stream", l, rd, q, st, cx), p2 \in Places \ {"stream"},
         0 \notin PostsOf(l), Grows(l, ll, e), e.kind = "assistant_message",
         q2 = q - st, st2 = 0
  PROVE  QueueAt(p2, ll, rd \union cx, q2, st2, cx2)
<1>1. p2 \notin Booting /\ p2 /= "start" /\ "stream" \in Places \ Leaving
  BY DEF Places, Booting, Leaving
<1>2. l \in Seq(Event)
  BY DEF Grows
<1>3. /\ MidTurn(ll) = MidTurn(l) /\ \A i \in Posted(l) : ll[i] = l[i]
  BY UnreadStays
<1>4. Unread(l, rd) = Steered(l, rd) /\ cx = Shown(l)
      /\ q = Cardinality(Unread(l, rd)) /\ st = Cardinality(Steered(l, rd))
  BY <1>1 DEF QueueAt
<1>5. Unread(ll, rd \union cx) = {}
  <2> SUFFICES ASSUME NEW i \in MidTurn(l), ll[i].post \notin rd \union cx PROVE FALSE
    BY <1>3 DEF Unread
  <2>1. i \in Posted(l) /\ ll[i] = l[i]
    BY <1>3 DEF MidTurn
  <2>2. l[i].steer
    BY <1>4, <2>1 DEF Unread, Steered
  <2>3. ~BeyondHorizon(l, i)
    BY <2>2 DEF BeyondHorizon
  <2>4. l[i].post \in PostsOf(l)
    BY <2>1 DEF PostsOf, Posted
  <2>5. l[i].post \in Shown(l)
    BY <1>2, <2>1, <2>3, <2>4, ShownIs
  <2> QED BY <1>4, <2>1, <2>5
<1>6. Cardinality(Unread(l, rd)) \in Nat
  BY <1>2, UnreadFinite
<1>7. q2 = 0
  BY <1>4, <1>6
<1> QED BY <1>1, <1>5, <1>7, NothingUnread DEF QueueAt

LEMMA QueueOpens ==
  ASSUME NEW l, NEW ll, NEW rd, NEW q, NEW st, NEW cx, NEW cx2, NEW m,
         QueueAt("start", l, rd, q, st, cx), ~TurnIsOpen(l),
         Grows(l, ll, UserMessage(m, FALSE, FALSE))
  PROVE  QueueAt("loop", ll, rd, q, st, cx2)
<1> DEFINE e == UserMessage(m, FALSE, FALSE)
<1>1. e.kind = "user_message" /\ ~e.mid_turn /\ Grows(l, ll, e)
  BY DEF UserMessage
<1> HIDE DEF e
<1>2. /\ ll \in Seq(Event) /\ \A i \in 1 .. Len(l) : ll[i] = l[i]
      /\ ll[Len(l) + 1] = e
      /\ \A k : Events(l, k) \subseteq 1 .. Len(l)
      /\ \A k : Events(ll, k) = Events(l, k) \union (IF e.kind = k THEN {Len(l) + 1} ELSE {})
  BY <1>1, Grown
<1>3. LastEnd(ll) = LastEnd(l)
  BY <1>1, GrownEnd
<1>4. Posted(ll) = Posted(l) \union {Len(l) + 1} /\ \A i \in Posted(l) : ll[i] = l[i]
  BY <1>1, <1>2 DEF Posted
<1>5. MidTurn(l) = {}
  BY <1>1, NoneUnread DEF Grows
<1>6. MidTurn(ll) = {}
  <2> SUFFICES ASSUME NEW i \in Posted(ll), i > LastEnd(ll), ll[i].mid_turn PROVE FALSE
    BY DEF MidTurn
  <2>1. i \in Posted(l)
    BY <1>1, <1>2, <1>4
  <2> QED BY <1>3, <1>4, <1>5, <2>1 DEF MidTurn
<1>7. Unread(ll, rd) = {}
  BY <1>6 DEF Unread
<1>8. "loop" \notin Booting /\ q = 0 /\ st = 0
  BY DEF QueueAt, Booting
<1> QED BY <1>7, <1>8, NothingUnread DEF QueueAt

LEMMA QueueBegins ==
  ASSUME NEW l \in Seq(Event), NEW rd, NEW cx, ~TurnIsOpen(l)
  PROVE  QueueAt("loop", l, rd, 0, 0, cx)
<1>1. Unread(l, rd) = {}
  BY NoneUnread
<1> QED BY <1>1, NothingUnread DEF QueueAt, Booting

LEMMA QueueAway ==
  ASSUME NEW p, p \in {"start", "after"} \union Resting,
         NEW l, NEW rd, NEW q, NEW st, NEW cx, p = "start" => q = 0 /\ st = 0
  PROVE  QueueAt(p, l, rd, q, st, cx)
BY DEF QueueAt, Resting, Booting, Places

LEMMA QueueMoved ==
  ASSUME TypeInv, TurnClosed, PostsInv, ReadInv, QueueMove, ~Crash,
         QueueAt(pc, log, read, shared.queued, shared.steered, context)
  PROVE  QueueAt(pc', log', read', shared'.queued, shared'.steered, context')
<1>g. PICK p, l, rd, q, st, cx, p2, ll, rd2, q2, st2, cx2 :
        /\ p = pc /\ l = log /\ rd = read /\ q = shared.queued /\ st = shared.steered /\ cx = context
        /\ p2 = pc' /\ ll = log' /\ rd2 = read' /\ q2 = shared'.queued /\ st2 = shared'.steered
        /\ cx2 = context'
  OBVIOUS
<1>0. SUFFICES QueueAt(p2, ll, rd2, q2, st2, cx2)
  BY <1>g
<1>1. /\ QueueAt(p, l, rd, q, st, cx) /\ l \in Seq(Event) /\ rd \subseteq PostsOf(l)
      /\ p \in OutOfTurn => ~TurnIsOpen(l)
  BY <1>g DEF TypeInv, TypeOK, ReadInv, TurnClosed
<1>2. 0 \notin PostsOf(l) /\ InMemory \intersect PostsOf(l) = {}
  <2>1. PostsAt(l, inbox, held, starting, posts, context) /\ posts \in Nat
    BY <1>g DEF PostsInv, TypeInv, TypeOK
  <2>2. 0 \notin PostsOf(l)
    BY <2>1 DEF PostsAt
  <2>3. InMemory \intersect PostsOf(l) = {}
    BY <2>1 DEF PostsAt, InMemory
  <2> QED BY <2>2, <2>3
<1>3. CASE GoesOn
  <2>1. /\ p \in Places /\ p2 \in Places /\ (p \in Leaving => p2 \in Leaving)
        /\ ll = l \/ \E e : Grows(l, ll, e) /\ Ordinal(e)
        /\ p2 = "stream" => (p = "stream" /\ cx2 = cx) \/ (ll = l /\ cx2 = Shown(l))
        /\ rd2 = rd /\ q2 = q /\ st2 = st
    BY <1>g, <1>3 DEF GoesOn, Plainly, Counting, SameCount
  <2> QED BY <1>1, <2>1, QueueGoesOn
<1>4. CASE Queues
  <2>1. PICK e :
          /\ Grows(l, ll, e) /\ e.kind = "user_message" /\ e.mid_turn
          /\ e.post \in InMemory /\ (e.steer \/ p \in Leaving)
          /\ q2 = q + 1 /\ st2 = IF e.steer THEN st + 1 ELSE st
    BY <1>g, <1>4 DEF Queues
  <2>2. p \in Places \ {"stream"} /\ p2 = p /\ rd2 = rd
    BY <1>g, <1>4 DEF Queues
  <2>3. e.post \notin rd
    BY <1>1, <1>2, <2>1
  <2> QED BY <1>1, <2>1, <2>2, <2>3, QueueQueues
<1>5. CASE Reads
  <2>1. /\ p = "stream" /\ p2 \in Places \ {"stream"} /\ q2 = q - st /\ st2 = 0
        /\ rd2 = rd \union cx
        /\ \E e : Grows(l, ll, e) /\ e.kind = "assistant_message"
    BY <1>g, <1>5 DEF Reads
  <2>2. PICK e : Grows(l, ll, e) /\ e.kind = "assistant_message"
    BY <2>1
  <2>3. QueueAt("stream", l, rd, q, st, cx)
    BY <1>1, <2>1
  <2>4. QueueAt(p2, ll, rd \union cx, q2, st2, cx2)
    BY <1>2, <2>1, <2>2, <2>3, QueueReplies
  <2> QED BY <2>1, <2>4
<1>6. CASE BeginsAnew
  <2>1. CASE p2 = "start"
    BY <1>g, <1>6, <2>1, QueueAway DEF BeginsAnew
  <2>2. CASE p2 /= "start"
    <3>1. p2 = "loop" /\ ll = l /\ q2 = 0 /\ st2 = 0 /\ ~TurnIsOpen(l)
      BY <1>g, <1>1, <1>6, <2>2 DEF BeginsAnew, OutOfTurn
    <3> QED BY <1>1, <3>1, QueueBegins
  <2> QED BY <2>1, <2>2
<1>7. CASE Opens
  <2>1. p = "start" /\ p2 = "loop" /\ q2 = q /\ st2 = st /\ rd2 = rd /\ ~TurnIsOpen(l)
    BY <1>g, <1>1, <1>7 DEF Opens, Counting, SameCount, OutOfTurn
  <2>2. PICK m : Grows(l, ll, UserMessage(m, FALSE, FALSE))
    BY <1>g, <1>7 DEF Opens
  <2>3. QueueAt("start", l, rd, q, st, cx)
    BY <1>1, <2>1
  <2>4. QueueAt("loop", ll, rd, q, st, cx2)
    BY <2>1, <2>2, <2>3, QueueOpens
  <2> QED BY <2>1, <2>4
<1>8. CASE Closes \/ RestsOn
  <2>1. p2 \in {"after"} \union Resting
    BY <1>g, <1>8 DEF Closes, RestsOn, Resting
  <2> QED BY <2>1, QueueAway DEF Resting
<1>9. pc \notin Booting
  BY DEF QueueAt
<1> QED BY <1>3, <1>4, <1>5, <1>6, <1>7, <1>8, <1>9 DEF QueueMove

-----------------------------------------------------------------------------
(* A message nobody read gets a second turn.                               *)

TwoEnds(l, i) ==
  \E j, k \in Events(l, "turn_ended") : j > i /\ k > i /\ j /= k

Neglected(l, rd) == {i \in Posted(l) : l[i].mid_turn /\ l[i].post \notin rd}

AnsweredAt(p, l, rd, q) ==
  /\ p = "after" => \A i \in Neglected(l, rd) : TwoEnds(l, i) \/ q > 0
  /\ p \in Resting => \A i \in Neglected(l, rd) : TwoEnds(l, i)

AnsweredInv == count.crashes = 0 => AnsweredAt(pc, log, read, shared.queued)

LEMMA NeglectedStays ==
  ASSUME NEW l, NEW ll, NEW rd, ll = l \/ \E e : Grows(l, ll, e) /\ e.kind /= "user_message"
  PROVE  /\ Neglected(ll, rd) = Neglected(l, rd)
         /\ \A i : TwoEnds(l, i) => TwoEnds(ll, i)
<1>1. CASE ll = l
  BY <1>1
<1>2. ASSUME NEW e, Grows(l, ll, e), e.kind /= "user_message"
      PROVE  /\ Neglected(ll, rd) = Neglected(l, rd)
             /\ \A i : TwoEnds(l, i) => TwoEnds(ll, i)
  <2>1. /\ \A i \in 1 .. Len(l) : ll[i] = l[i]
        /\ \A k : Events(l, k) \subseteq 1 .. Len(l)
        /\ \A k : Events(ll, k) = Events(l, k) \union (IF e.kind = k THEN {Len(l) + 1} ELSE {})
    BY <1>2, Grown
  <2>2. Posted(ll) = Posted(l) /\ \A i \in Posted(l) : ll[i] = l[i]
    BY <1>2, <2>1 DEF Posted
  <2>3. Neglected(ll, rd) = Neglected(l, rd)
    BY <2>2 DEF Neglected
  <2>4. Events(l, "turn_ended") \subseteq Events(ll, "turn_ended")
    BY <2>1
  <2> QED BY <2>3, <2>4 DEF TwoEnds
<1> QED BY <1>1, <1>2

LEMMA AnsweredCloses ==
  ASSUME NEW l, NEW ll, NEW rd, NEW q, NEW e, Grows(l, ll, e), e.kind = "turn_ended",
         q = Cardinality(Unread(l, rd))
  PROVE  \A i \in Neglected(ll, rd) : TwoEnds(ll, i) \/ q > 0
<1> SUFFICES ASSUME NEW i \in Neglected(ll, rd) PROVE TwoEnds(ll, i) \/ q > 0
  OBVIOUS
<1>1. Neglected(ll, rd) = Neglected(l, rd)
  BY NeglectedStays
<1>2. i \in Posted(l) /\ l[i].mid_turn /\ l[i].post \notin rd
  BY <1>1 DEF Neglected
<1>3. l \in Seq(Event)
  BY DEF Grows
<1>4. LastEnd(l) \in 0 .. Len(l) /\ (LastEnd(l) /= 0 => l[LastEnd(l)].kind = "turn_ended")
  BY <1>3, LastEndIsLast
<1>5. /\ Len(l) \in Nat /\ \A k : Events(l, k) \subseteq 1 .. Len(l)
      /\ \A k : Events(ll, k) = Events(l, k) \union (IF e.kind = k THEN {Len(l) + 1} ELSE {})
  BY Grown
<1>6. i \in 1 .. Len(l) /\ l[i].kind = "user_message"
  BY <1>2, <1>5 DEF Posted, Events
<1>7. CASE i > LastEnd(l)
  <2>1. i \in Unread(l, rd)
    BY <1>2, <1>7 DEF Unread, MidTurn
  <2>2. IsFiniteSet(Unread(l, rd)) /\ Cardinality(Unread(l, rd)) \in Nat
    BY <1>3, UnreadFinite
  <2>3. Cardinality(Unread(l, rd)) /= 0
    BY <2>1, <2>2, FS_EmptySet
  <2> QED BY <2>2, <2>3
<1>8. CASE ~ (i > LastEnd(l))
  <2>1. LastEnd(l) /= i /\ LastEnd(l) /= 0
    BY <1>4, <1>6, <1>8
  <2>2. LastEnd(l) \in Events(l, "turn_ended")
    BY <1>3, <1>4, <2>1 DEF Events
  <2>3. {LastEnd(l), Len(l) + 1} \subseteq Events(ll, "turn_ended")
    BY <1>5, <2>2
  <2>4. LastEnd(l) > i /\ Len(l) + 1 > i /\ LastEnd(l) /= Len(l) + 1
    BY <1>4, <1>5, <1>6, <1>8, <2>1
  <2> QED BY <2>3, <2>4 DEF TwoEnds
<1> QED BY <1>7, <1>8

LEMMA AnsweredMoved ==
  ASSUME TypeInv, QueueMove, ~Crash, AnsweredAt(pc, log, read, shared.queued),
         QueueAt(pc, log, read, shared.queued, shared.steered, context)
  PROVE  AnsweredAt(pc', log', read', shared'.queued)
<1>g. PICK p, l, rd, q, p2, ll, rd2, q2 :
        /\ p = pc /\ l = log /\ rd = read /\ q = shared.queued
        /\ p2 = pc' /\ ll = log' /\ rd2 = read' /\ q2 = shared'.queued
  OBVIOUS
<1>0. SUFFICES AnsweredAt(p2, ll, rd2, q2)
  BY <1>g
<1>1. AnsweredAt(p, l, rd, q)
  BY <1>g
<1>2. CASE GoesOn \/ Queues \/ Reads \/ BeginsAnew \/ Opens
  <2>1. p2 \in Places \union {"start"}
    <3>1. "loop" \in Places
      BY DEF Places
    <3> QED BY <1>g, <1>2, <3>1 DEF GoesOn, Queues, Reads, BeginsAnew, Opens
  <2> QED BY <2>1 DEF AnsweredAt, Places, Resting
<1>3. CASE Closes
  <2>1. p = "end" /\ p2 = "after" /\ q2 = q /\ rd2 = rd
    BY <1>g, <1>3 DEF Closes, Counting, SameCount
  <2>2. PICK e : Grows(l, ll, e) /\ e.kind = "turn_ended"
    BY <1>g, <1>3 DEF Closes
  <2>3. q = Cardinality(Unread(l, rd))
    BY <1>g, <2>1 DEF QueueAt, Places
  <2>4. \A i \in Neglected(ll, rd) : TwoEnds(ll, i) \/ q > 0
    BY <2>2, <2>3, AnsweredCloses
  <2> QED BY <2>1, <2>4 DEF AnsweredAt, Resting
<1>4. CASE RestsOn
  <2>1. rd2 = rd /\ (ll = l \/ \E e : Grows(l, ll, e) /\ e.kind /= "user_message")
    BY <1>g, <1>4 DEF RestsOn, Plainly, Ordinal
  <2>2. Neglected(ll, rd) = Neglected(l, rd) /\ \A i : TwoEnds(l, i) => TwoEnds(ll, i)
    BY <2>1, NeglectedStays
  <2>3. \/ p = "after" /\ p2 = "after" /\ q2 = q
        \/ p = "after" /\ p2 = "side" /\ q = 0
        \/ p \in Resting /\ p2 \in Resting
    BY <1>g, <1>4 DEF RestsOn, Counting, SameCount
  <2> QED BY <1>1, <2>1, <2>2, <2>3 DEF AnsweredAt, Resting
<1>5. pc \notin Booting
  BY DEF QueueAt
<1> QED BY <1>2, <1>3, <1>4, <1>5 DEF QueueMove

LEMMA TwoEndsCount ==
  ASSUME NEW l \in Seq(Event), NEW i, TwoEnds(l, i)
  PROVE  Cardinality({j \in Events(l, "turn_ended") : j > i}) >= 2
<1> DEFINE E == {j \in Events(l, "turn_ended") : j > i}
<1>1. PICK j, k \in E : j /= k
  BY DEF TwoEnds
<1>2. IsFiniteSet(E)
  <2>1. E \subseteq 1 .. Len(l) /\ Len(l) \in Nat
    BY DEF Events
  <2> HIDE DEF E
  <2>2. IsFiniteSet(1 .. Len(l))
    BY <2>1, FS_Interval
  <2> QED BY <2>1, <2>2, FS_Subset
<1> HIDE DEF E
<1>3. IsFiniteSet({j}) /\ Cardinality({j}) = 1
  BY FS_Singleton
<1>4. IsFiniteSet({j} \union {k}) /\ Cardinality({j} \union {k}) = 2
  <2> DEFINE J == {j}
  <2>1. k \notin J /\ IsFiniteSet(J) /\ Cardinality(J) = 1
    BY <1>1, <1>3
  <2> HIDE DEF J
  <2>2. IsFiniteSet(J \union {k}) /\ Cardinality(J \union {k}) = 2
    BY <2>1, FS_AddElement
  <2> QED BY <2>2 DEF J
<1>5. Cardinality({j} \union {k}) <= Cardinality(E)
  <2>1. {j} \union {k} \subseteq E
    BY <1>1
  <2> QED BY <1>2, <2>1, FS_Subset
<1>6. Cardinality(E) \in Nat
  BY <1>2, FS_CardinalityType
<1>7. Cardinality(E) >= 2
  BY <1>4, <1>5, <1>6
<1> QED BY <1>7 DEF E

-----------------------------------------------------------------------------
MessageInv ==
  /\ TypeInv /\ TurnClosed /\ PostsInv /\ ReadInv /\ CountTyped
  /\ QueueInv /\ AnsweredInv

LEMMA MessageNext == MessageInv /\ [Next]_vars => MessageInv'
<1> SUFFICES ASSUME MessageInv, [Next]_vars PROVE MessageInv'
  OBVIOUS
<1>1. TypeInv /\ TypeInv' /\ TurnClosed' /\ PostsInv'
  <2>1. TypeInv'
    BY TypeStep DEF MessageInv
  <2> QED BY <2>1, ClosedStep, PostsStep DEF MessageInv
<1>2. CountTyped' /\ (count'.crashes = 0 => count.crashes = 0) /\ (Crash => count'.crashes /= 0)
  BY CountStep DEF MessageInv
<1>3. CASE UNCHANGED vars
  <2>1. UNCHANGED <<log, pc, read, shared, context, count>>
    BY <1>3 DEF vars, turnVars, loopVars, bookVars
  <2>2. ReadInv' /\ QueueInv' /\ AnsweredInv'
    BY <2>1 DEF MessageInv, ReadInv, QueueInv, AnsweredInv
  <2> QED BY <1>1, <1>2, <2>2 DEF MessageInv
<1>4. CASE Next
  <2>1. PostsMove
    BY <1>1, <1>4, PostsTurn, PostsActor DEF RunTurn
  <2>2. ReadInv'
    BY <2>1, ReadStep DEF MessageInv
  <2>3. QueueMove
    BY <1>1, <1>4, QueueTurn, QueueActor DEF RunTurn
  <2>4. ASSUME count'.crashes = 0 PROVE ~Crash /\ QueueInv' /\ AnsweredInv'
    <3>1. ~Crash /\ count.crashes = 0
      BY <1>2, <2>4
    <3>2. /\ QueueAt(pc, log, read, shared.queued, shared.steered, context)
          /\ AnsweredAt(pc, log, read, shared.queued)
      BY <3>1 DEF MessageInv, QueueInv, AnsweredInv
    <3>3. QueueAt(pc', log', read', shared'.queued, shared'.steered, context')
      BY <2>3, <3>1, <3>2, QueueMoved DEF MessageInv
    <3>4. AnsweredAt(pc', log', read', shared'.queued)
      BY <2>3, <3>1, <3>2, AnsweredMoved DEF MessageInv
    <3> QED BY <3>1, <3>3, <3>4 DEF QueueInv, AnsweredInv
  <2>5. QueueInv' /\ AnsweredInv'
    BY <2>4 DEF QueueInv, AnsweredInv
  <2> QED BY <1>1, <1>2, <2>2, <2>5 DEF MessageInv
<1> QED BY <1>3, <1>4

LEMMA MessageInit == Init => MessageInv
<1> SUFFICES ASSUME Init PROVE MessageInv
  OBVIOUS
<1>1. TypeInv /\ TurnClosed /\ PostsInv
  BY TypeInit, ClosedInit, PostsInit
<1>2. pc = "idle" /\ log = <<>> /\ read = {}
  BY DEF Init
<1>3. CountTyped
  BY DEF Init, CountTyped
<1>4. QueueInv
  BY <1>2 DEF QueueInv, QueueAt, Places, Booting
<1>5. AnsweredInv
  BY <1>2 DEF AnsweredInv, AnsweredAt, Neglected, Posted, Events
<1> QED BY <1>1, <1>2, <1>3, <1>4, <1>5 DEF MessageInv, ReadInv

LEMMA CountsTold == QueueInv /\ count.crashes = 0 => QueueCounts
<1> SUFFICES ASSUME QueueAt(pc, log, read, shared.queued, shared.steered, context), pc \in Places
             PROVE  LET unread == {i \in Events(log, "user_message") :
                          i > LastEnd(log) /\ log[i].mid_turn /\ log[i].post \notin read}
                    IN  /\ shared.queued = Cardinality(unread)
                        /\ shared.steered = Cardinality({i \in unread : log[i].steer})
  BY DEF QueueInv, QueueCounts
<1> DEFINE unread == {i \in Events(log, "user_message") :
                        i > LastEnd(log) /\ log[i].mid_turn /\ log[i].post \notin read}
<1>1. unread = Unread(log, read)
  BY DEF Unread, MidTurn, Posted
<1>2. {i \in unread : log[i].steer} = Steered(log, read)
  BY <1>1 DEF Steered
<1> HIDE DEF unread
<1>3. shared.queued = Cardinality(unread) /\ shared.steered = Cardinality({i \in unread : log[i].steer})
  BY <1>1, <1>2 DEF QueueAt
<1> QED BY <1>3 DEF unread

LEMMA MidTurnTold == TypeInv /\ AnsweredInv /\ count.crashes = 0 => MidTurnAnswered
<1> SUFFICES ASSUME TypeInv, AnsweredAt(pc, log, read, shared.queued), pc = "idle",
                    NEW i \in Events(log, "user_message"), log[i].mid_turn, log[i].post \notin read
             PROVE  Cardinality({j \in Events(log, "turn_ended") : j > i}) >= 2
  BY DEF AnsweredInv, MidTurnAnswered
<1>1. i \in Neglected(log, read)
  BY DEF Neglected, Posted
<1>2. TwoEnds(log, i)
  BY <1>1 DEF AnsweredAt, Resting
<1>3. log \in Seq(Event)
  BY DEF TypeInv, TypeOK
<1> QED BY <1>2, <1>3, TwoEndsCount

LEMMA MessageAlways == Spec => []MessageInv
BY MessageInit, MessageNext, PTL DEF Spec

(* However messages, streams, tools, interrupts and crashes fall, a message*)
(* is in one place: once in the log, or in the inbox, or held, or about to *)
(* start a turn.                                                           *)
THEOREM PlacedAlways == Spec => []NoPostTwice
<1>1. MessageInv => NoPostTwice
  BY PlacedOnce DEF MessageInv
<1> QED BY <1>1, MessageAlways, PTL

(* As long as the process has not died, the queue shown while a turn runs  *)
(* is exactly the messages of the turn that no finished model call was     *)
(* shown.                                                                  *)
THEOREM QueueAlways == Spec => [](count.crashes = 0 => QueueExact)
<1>1. MessageInv => (count.crashes = 0 => QueueExact)
  BY PlacedOnce, CountsTold DEF MessageInv, QueueExact
<1> QED BY <1>1, MessageAlways, PTL

(* As long as the process has not died, a message posted while a turn ran  *)
(* was read, or two turns ended behind it, when the thread rests again.    *)
THEOREM AnsweredAlways == Spec => [](count.crashes = 0 => MidTurnAnswered)
<1>1. MessageInv => (count.crashes = 0 => MidTurnAnswered)
  BY MidTurnTold DEF MessageInv
<1> QED BY <1>1, MessageAlways, PTL

-----------------------------------------------------------------------------
(* The calls of a log and their results.                                   *)

Ids(l, i) == {c.id : c \in ToSet(l[i].calls)}
Called(l, n) == UNION {Ids(l, i) : i \in {k \in Replies(l) : k <= n}}
Returned(l, n) == {l[r].call : r \in {k \in Results(l) : k <= n}}
Outstanding(l, n) == Called(l, n) \ Returned(l, n)

(* A reply finds every call before it answered.                            *)
SettledFirst(l) ==
  \A i, j \in Replies(l) :
     i < j => \A c \in ToSet(l[i].calls) : \E r \in Results(l) : l[r].call = c.id /\ r < j

LEMMA SettledGrows ==
  ASSUME NEW l, NEW ll, NEW e, Grows(l, ll, e), SettledFirst(l), ClosedAnswered(ll)
  PROVE  SettledFirst(ll)
<1>1. /\ Len(l) \in Nat /\ ll[Len(l) + 1] = e /\ \A i \in 1 .. Len(l) : ll[i] = l[i]
      /\ \A k : Events(l, k) \subseteq 1 .. Len(l)
      /\ \A k : Events(ll, k) = Events(l, k) \union (IF e.kind = k THEN {Len(l) + 1} ELSE {})
  BY Grown
<1>2. SUFFICES ASSUME NEW i \in Replies(ll), NEW j \in Replies(ll), i < j,
                      NEW c \in ToSet(ll[i].calls)
               PROVE  \E r \in Results(ll) : ll[r].call = c.id /\ r < j
  BY DEF SettledFirst
<1>3. i \in Replies(l) /\ ll[i] = l[i] /\ i \in 1 .. Len(l)
  BY <1>1, <1>2 DEF Replies
<1>4. Results(l) \subseteq Results(ll) /\ \A r \in Results(l) : ll[r] = l[r]
  BY <1>1 DEF Results
<1>5. CASE j \in Replies(l)
  BY <1>2, <1>3, <1>4, <1>5 DEF SettledFirst
<1>6. CASE j \notin Replies(l)
  <2>1. j = Len(l) + 1 /\ e.kind = "assistant_message"
    BY <1>1, <1>6 DEF Replies
  <2>2. c \notin Hanging(ll)
    BY <1>2 DEF ClosedAnswered
  <2>3. c \in CallsOf(ll)
    BY <1>2 DEF CallsOf, Replies
  <2>4. PICK r \in Results(ll) : ll[r].call = c.id
    BY <2>2, <2>3 DEF Hanging, ResultsOf, Results
  <2>5. r \in 1 .. Len(l)
    BY <1>1, <2>1 DEF Results
  <2> QED BY <1>1, <2>1, <2>4, <2>5
<1> QED BY <1>5, <1>6

(* Every number up to the last one given out is a call's.                  *)
LEMMA IdsAll ==
  ASSUME NEW l \in Seq(Event), IdsMade(l), IdsApart(l)
  PROVE  \A id \in 1 .. Cardinality(CallsOf(l)) : \E c \in CallsOf(l) : c.id = id
<1> DEFINE C == CallsOf(l)
           n == Cardinality(C)
           I == {c.id : c \in C}
           f == [c \in C |-> c.id]
<1>1. IsFiniteSet(C) /\ n \in Nat
  BY FiniteCalls
<1>2. f \in Bijection(C, I)
  <2>1. \A c, d \in C : f[c] = f[d] => c = d
    BY DEF IdsApart
  <2>2. f \in [C -> I] /\ \A i \in I : \E c \in C : f[c] = i
    OBVIOUS
  <2> QED BY <2>1, <2>2 DEF Bijection, Injection, Surjection, IsInjective
<1>3. I \subseteq 1 .. n
  BY DEF IdsMade
<1>4. ExistsBijection(C, I)
  BY <1>2 DEF ExistsBijection
<1> HIDE DEF C, f
<1>5. Cardinality(I) = n
  <2> HIDE DEF I
  <2> QED BY <1>1, <1>4, FS_Bijection
<1>6. IsFiniteSet(1 .. n) /\ Cardinality(1 .. n) = n
  <2> HIDE DEF n
  <2> QED BY <1>1, FS_Interval
<1>7. I = 1 .. n
  <2> HIDE DEF I, n
  <2> QED BY <1>3, <1>5, <1>6, FS_Subset
<1> QED BY <1>7 DEF C

(* What is outstanding after each event.                                   *)
LEMMA CallsTyped ==
  ASSUME NEW l \in Seq(Event), CallLog(l), NEW i \in Replies(l)
  PROVE  IsFiniteSet(Ids(l, i)) /\ 0 \notin Ids(l, i) /\ Ids(l, i) \subseteq Nat
<1> DEFINE n == Cardinality(CallsOf(l))
<1>1. n \in Nat
  BY FiniteCalls
<1>2. Ids(l, i) \subseteq 1 .. n
  <2>1. ToSet(l[i].calls) \subseteq CallsOf(l)
    BY DEF CallsOf, Replies
  <2> QED BY <2>1 DEF CallLog, IdsMade, Ids
<1> HIDE DEF n
<1>3. IsFiniteSet(1 .. n) /\ 0 \notin 1 .. n /\ 1 .. n \subseteq Nat
  BY <1>1, FS_Interval
<1>4. IsFiniteSet(Ids(l, i))
  BY <1>2, <1>3, FS_Subset
<1> QED BY <1>2, <1>3, <1>4

LEMMA ReplyOutstanding ==
  ASSUME NEW l \in Seq(Event), CallLog(l), SettledFirst(l),
         NEW n \in 0 .. Len(l) - 1, n + 1 \in Replies(l)
  PROVE  /\ Outstanding(l, n) = {}
         /\ Called(l, n) \intersect Ids(l, n + 1) = {}
         /\ Called(l, n + 1) = Called(l, n) \union Ids(l, n + 1)
         /\ Outstanding(l, n + 1) = Ids(l, n + 1)
<1>0. n \in Nat /\ Replies(l) \subseteq Nat /\ Results(l) \subseteq Nat
  BY DEF Replies, Results, Events
<1>1. ASSUME NEW id \in Called(l, n)
      PROVE  \E r \in Results(l) : l[r].call = id /\ r < n + 1
  <2>1. PICK i \in Replies(l) : i <= n /\ id \in Ids(l, i)
    BY <1>1 DEF Called
  <2>2. PICK c \in ToSet(l[i].calls) : c.id = id
    BY <2>1 DEF Ids
  <2>3. i < n + 1
    BY <1>0, <2>1
  <2> QED BY <2>2, <2>3 DEF SettledFirst
<1>2. ASSUME NEW r \in Results(l), l[r].call \in Ids(l, n + 1)
      PROVE  n + 1 < r
  <2>1. PICK c \in ToSet(l[n + 1].calls) : c.id = l[r].call
    BY <1>2 DEF Ids
  <2> QED BY <2>1 DEF CallLog, ResultAfter
<1>3. \A r \in Results(l) : r < n + 1 <=> r <= n
  BY <1>0
<1>4. \A r \in Results(l) : n + 1 < r => ~ (r <= n) /\ ~ (r <= n + 1) /\ ~ (r < n + 1)
  BY <1>0
<1>5. Outstanding(l, n) = {}
  BY <1>1, <1>3 DEF Outstanding, Returned
<1>6. Called(l, n) \intersect Ids(l, n + 1) = {}
  BY <1>1, <1>2, <1>4
<1>7. Called(l, n + 1) = Called(l, n) \union Ids(l, n + 1)
  <2>1. \A i \in Replies(l) : i <= n + 1 <=> i <= n \/ i = n + 1
    BY <1>0
  <2> QED BY <2>1 DEF Called
<1>8. n + 1 \notin Results(l)
  BY DEF Replies, Results, Events
<1>9. Returned(l, n + 1) = Returned(l, n)
  <2>1. \A r \in Results(l) : r <= n + 1 <=> r <= n
    BY <1>0, <1>8
  <2> QED BY <2>1 DEF Returned
<1>10. Returned(l, n) \intersect Ids(l, n + 1) = {}
  BY <1>2, <1>4 DEF Returned
<1> QED BY <1>5, <1>6, <1>7, <1>9, <1>10 DEF Outstanding

LEMMA ResultOutstanding ==
  ASSUME NEW l \in Seq(Event), CallLog(l),
         NEW n \in 0 .. Len(l) - 1, n + 1 \in Results(l)
  PROVE  /\ l[n + 1].call \in Outstanding(l, n)
         /\ Called(l, n + 1) = Called(l, n)
         /\ Outstanding(l, n + 1) = Outstanding(l, n) \ {l[n + 1].call}
<1>0. n \in Nat /\ Replies(l) \subseteq Nat /\ Results(l) \subseteq Nat
  BY DEF Replies, Results, Events
<1>1. l[n + 1].call \in Called(l, n)
  <2>1. l[n + 1].call \in 1 .. Cardinality(CallsOf(l))
    BY DEF CallLog, ConcernsKnown
  <2>2. PICK c \in CallsOf(l) : c.id = l[n + 1].call
    BY <2>1, IdsAll DEF CallLog
  <2>3. PICK i \in Replies(l) : c \in ToSet(l[i].calls)
    BY DEF CallsOf, Replies
  <2>4. i < n + 1
    BY <2>2, <2>3 DEF CallLog, ResultAfter
  <2>5. i <= n
    BY <1>0, <2>4
  <2> QED BY <2>2, <2>3, <2>5 DEF Called, Ids
<1>2. l[n + 1].call \notin Returned(l, n)
  <2>1. \A r \in Results(l) : r <= n => r /= n + 1
    BY <1>0
  <2> QED BY <2>1 DEF Returned, CallLog, ResultsOnce
<1>3. Called(l, n + 1) = Called(l, n)
  <2>1. n + 1 \notin Replies(l)
    BY DEF Replies, Results, Events
  <2>2. \A i \in Replies(l) : i <= n + 1 <=> i <= n
    BY <1>0, <2>1
  <2> QED BY <2>2 DEF Called
<1>4. Returned(l, n + 1) = Returned(l, n) \union {l[n + 1].call}
  <2>1. \A r \in Results(l) : r <= n + 1 <=> r <= n \/ r = n + 1
    BY <1>0
  <2> QED BY <2>1 DEF Returned
<1> QED BY <1>1, <1>2, <1>3, <1>4 DEF Outstanding

LEMMA OtherOutstanding ==
  ASSUME NEW l \in Seq(Event), NEW n \in 0 .. Len(l) - 1,
         n + 1 \notin Replies(l), n + 1 \notin Results(l)
  PROVE  Called(l, n + 1) = Called(l, n) /\ Outstanding(l, n + 1) = Outstanding(l, n)
<1>0. n \in Nat /\ Replies(l) \subseteq Nat /\ Results(l) \subseteq Nat
  BY DEF Replies, Results, Events
<1>1. /\ \A i \in Replies(l) : i <= n + 1 <=> i <= n
      /\ \A i \in Results(l) : i <= n + 1 <=> i <= n
  BY <1>0
<1> QED BY <1>1 DEF Outstanding, Called, Returned

-----------------------------------------------------------------------------
(* A conversation whose calls, all but the open ones, are answered.        *)

Told(m, open) == m.calls \ open

(* The answers of D stand right behind message i.                          *)
Filled(b, i, D) ==
  /\ i + Cardinality(D) <= Len(b)
  /\ {b[j].answers : j \in i + 1 .. i + Cardinality(D)} = D

Heads(b, i, open) ==
  /\ b[i].role = "assistant" /\ open \subseteq b[i].calls
  /\ Len(b) = i + Cardinality(Told(b[i], open))
  /\ \A k \in DOMAIN b : k /= i => b[k].calls \intersect open = {}

Belongs(b, j, i, open) ==
  /\ b[i].role = "assistant" /\ b[j].answers \in Told(b[i], open)
  /\ j <= i + Cardinality(Told(b[i], open))

Grouped(b, open) ==
  /\ \A i \in DOMAIN b : IsFiniteSet(b[i].calls)
  /\ \A i \in DOMAIN b : b[i].role = "assistant" => Filled(b, i, Told(b[i], open))
  /\ \A j \in DOMAIN b : b[j].role = "tool" => \E i \in 1 .. j - 1 : Belongs(b, j, i, open)
  /\ open /= {} => \E i \in DOMAIN b : Heads(b, i, open)

Extends(b, bb) ==
  /\ b \in Seq(Messages) /\ bb \in Seq(Messages) /\ Len(b) <= Len(bb)
  /\ \A i \in 1 .. Len(b) : bb[i] = b[i]

Plain(m) == m.role = "user" /\ m.calls = {}

LEMMA ToldTyped ==
  ASSUME NEW m, IsFiniteSet(m.calls), NEW open
  PROVE  IsFiniteSet(Told(m, open)) /\ Cardinality(Told(m, open)) \in Nat
<1>1. Told(m, open) \subseteq m.calls
  BY DEF Told
<1>2. IsFiniteSet(Told(m, open))
  BY <1>1, FS_Subset
<1> QED BY <1>2, FS_CardinalityType

(* What stands behind a message stays there.                               *)
LEMMA FilledStays ==
  ASSUME NEW b, NEW bb, Extends(b, bb), NEW i \in DOMAIN b, NEW D,
         Cardinality(D) \in Nat, Filled(b, i, D)
  PROVE  Filled(bb, i, D)
<1> DEFINE n == Cardinality(D)
<1>1. Len(b) \in Nat /\ Len(bb) \in Nat /\ Len(b) <= Len(bb) /\ i \in 1 .. Len(b) /\ n \in Nat
      /\ i + n <= Len(b)
  BY DEF Extends, Filled
<1>2. i + n <= Len(bb) /\ \A j \in i + 1 .. i + n : bb[j] = b[j]
  <2> HIDE DEF n
  <2>1. \A j \in i + 1 .. i + n : j \in 1 .. Len(b)
    BY <1>1
  <2> QED BY <1>1, <2>1 DEF Extends
<1>3. {b[j].answers : j \in i + 1 .. i + n} = D
  BY DEF Filled
<1> HIDE DEF n
<1>4. {bb[j].answers : j \in i + 1 .. i + n} = D
  BY <1>2, <1>3
<1> QED BY <1>2, <1>4 DEF Filled, n

(* With no call open, what people say follows freely.                      *)
LEMMA PlainGrouped ==
  ASSUME NEW b, NEW bb, Extends(b, bb), Grouped(b, {}),
         \A k \in Len(b) + 1 .. Len(bb) : Plain(bb[k])
  PROVE  Grouped(bb, {})
<1>1. /\ Len(b) \in Nat /\ Len(bb) \in Nat /\ Len(b) <= Len(bb)
      /\ DOMAIN b = 1 .. Len(b) /\ DOMAIN bb = 1 .. Len(bb)
      /\ \A i \in 1 .. Len(b) : bb[i] = b[i]
  BY DEF Extends
<1>2. \A k \in DOMAIN bb : k \in DOMAIN b \/ Plain(bb[k])
  <2>1. \A k \in DOMAIN bb : k \in DOMAIN b \/ k \in Len(b) + 1 .. Len(bb)
    BY <1>1
  <2> QED BY <2>1
<1>3. \A i \in DOMAIN bb : IsFiniteSet(bb[i].calls)
  BY <1>1, <1>2, FS_EmptySet DEF Grouped, Plain
<1>4. ASSUME NEW i \in DOMAIN bb, bb[i].role = "assistant"
      PROVE  Filled(bb, i, Told(bb[i], {}))
  <2>1. i \in DOMAIN b /\ bb[i] = b[i]
    BY <1>1, <1>2, <1>4 DEF Plain
  <2>2. Filled(b, i, Told(b[i], {})) /\ IsFiniteSet(b[i].calls)
    BY <1>4, <2>1 DEF Grouped
  <2>3. Cardinality(Told(b[i], {})) \in Nat
    BY <2>2, ToldTyped
  <2> QED BY <2>1, <2>2, <2>3, FilledStays
<1>5. ASSUME NEW j \in DOMAIN bb, bb[j].role = "tool"
      PROVE  \E i \in 1 .. j - 1 : Belongs(bb, j, i, {})
  <2>1. j \in DOMAIN b /\ bb[j] = b[j]
    BY <1>1, <1>2, <1>5 DEF Plain
  <2>2. PICK i \in 1 .. j - 1 : Belongs(b, j, i, {})
    BY <1>5, <2>1 DEF Grouped
  <2>3. bb[i] = b[i]
    BY <1>1, <2>1
  <2> QED BY <2>1, <2>2, <2>3 DEF Belongs
<1> QED BY <1>3, <1>4, <1>5 DEF Grouped

(* A reply opens its calls, when none is open.                             *)
LEMMA ReplyGrouped ==
  ASSUME NEW b \in Seq(Messages), NEW m \in Messages, Grouped(b, {}),
         m.role = "assistant", IsFiniteSet(m.calls),
         \A i \in DOMAIN b : b[i].calls \intersect m.calls = {}
  PROVE  Grouped(Append(b, m), m.calls)
<1> DEFINE bb == Append(b, m)
           open == m.calls
           n == Len(b) + 1
<1>1. /\ Len(b) \in Nat /\ Len(bb) = n /\ bb[n] = m /\ Extends(b, bb)
      /\ DOMAIN b = 1 .. Len(b) /\ DOMAIN bb = 1 .. n /\ n \in Nat
      /\ \A i \in 1 .. Len(b) : bb[i] = b[i]
  BY DEF Extends
<1> HIDE DEF bb
<1>2. \A i \in DOMAIN bb : i \in DOMAIN b \/ i = n
  BY <1>1
<1>3. \A i \in DOMAIN b : Told(b[i], open) = Told(b[i], {})
  BY DEF Told
<1>4. Told(m, open) = {} /\ Cardinality({}) = 0
  BY FS_EmptySet DEF Told
<1>5. \A i \in DOMAIN bb : IsFiniteSet(bb[i].calls)
  BY <1>1, <1>2 DEF Grouped
<1>6. ASSUME NEW i \in DOMAIN bb, bb[i].role = "assistant"
      PROVE  Filled(bb, i, Told(bb[i], open))
  <2>1. CASE i \in DOMAIN b
    <3>1. Filled(b, i, Told(b[i], {})) /\ IsFiniteSet(b[i].calls) /\ bb[i] = b[i]
      BY <1>1, <1>6, <2>1 DEF Grouped
    <3>2. Cardinality(Told(b[i], {})) \in Nat
      BY <3>1, ToldTyped
    <3> QED BY <1>1, <1>3, <2>1, <3>1, <3>2, FilledStays
  <2>2. CASE i = n
    <3>1. n + 1 .. n + 0 = {} /\ n + 0 <= Len(bb)
      BY <1>1
    <3> QED BY <1>1, <1>4, <2>2, <3>1 DEF Filled
  <2> QED BY <1>2, <2>1, <2>2
<1>7. ASSUME NEW j \in DOMAIN bb, bb[j].role = "tool"
      PROVE  \E i \in 1 .. j - 1 : Belongs(bb, j, i, open)
  <2>1. j \in DOMAIN b /\ bb[j] = b[j]
    BY <1>1, <1>2, <1>7
  <2>2. PICK i \in 1 .. j - 1 : Belongs(b, j, i, {})
    BY <1>7, <2>1 DEF Grouped
  <2>3. bb[i] = b[i] /\ i \in DOMAIN b
    BY <1>1, <2>1
  <2> QED BY <1>3, <2>1, <2>2, <2>3 DEF Belongs
<1>8. Heads(bb, n, open)
  <2>1. \A k \in DOMAIN bb : k /= n => bb[k].calls \intersect open = {}
    BY <1>1, <1>2
  <2>2. Len(bb) = n + 0
    BY <1>1
  <2> QED BY <1>1, <1>4, <2>1, <2>2 DEF Heads
<1> QED BY <1>1, <1>5, <1>6, <1>7, <1>8 DEF Grouped, bb

(* A result settles an open call.                                          *)
LEMMA ResultGrouped ==
  ASSUME NEW b \in Seq(Messages), NEW m \in Messages, NEW open, Grouped(b, open),
         m.role = "tool", m.calls = {}, m.answers \in open
  PROVE  Grouped(Append(b, m), open \ {m.answers})
<1> DEFINE bb == Append(b, m)
           x == m.answers
           rest == open \ {x}
           n == Len(b) + 1
<1>1. /\ Len(b) \in Nat /\ Len(bb) = n /\ bb[n] = m /\ Extends(b, bb)
      /\ DOMAIN b = 1 .. Len(b) /\ DOMAIN bb = 1 .. n /\ n \in Nat
      /\ \A i \in 1 .. Len(b) : bb[i] = b[i]
  BY DEF Extends
<1> HIDE DEF bb
<1>2. \A i \in DOMAIN bb : i \in DOMAIN b \/ i = n
  BY <1>1
<1>3. PICK a \in DOMAIN b : Heads(b, a, open)
  BY DEF Grouped
<1>4. /\ b[a].role = "assistant" /\ open \subseteq b[a].calls /\ IsFiniteSet(b[a].calls)
      /\ Len(b) = a + Cardinality(Told(b[a], open))
      /\ \A k \in DOMAIN b : k /= a => b[k].calls \intersect open = {}
  BY <1>3 DEF Grouped, Heads
<1> DEFINE D == Told(b[a], open)
           E == Told(b[a], rest)
           d == Cardinality(D)
<1>5. IsFiniteSet(D) /\ d \in Nat /\ Filled(b, a, D)
  BY <1>4, ToldTyped DEF Grouped
<1>6. E = D \union {x} /\ x \notin D
  BY <1>4 DEF Told
<1>7. Cardinality(E) = d + 1
  <2> HIDE DEF D, E
  <2> QED BY <1>5, <1>6, FS_AddElement
<1>8. \A i \in DOMAIN b : i /= a => Told(b[i], rest) = Told(b[i], open)
  BY <1>4 DEF Told
<1>9. Filled(bb, a, E)
  <2>0. Len(b) = a + d
    BY <1>4
  <2> HIDE DEF D, E, x
  <2>1. {b[j].answers : j \in a + 1 .. a + d} = D
    BY <1>5 DEF Filled
  <2> HIDE DEF d
  <2>2. a + d = Len(b) /\ a + (d + 1) = n /\ a \in Nat
    BY <1>1, <1>5, <2>0
  <2>3. \A j : j \in a + 1 .. a + (d + 1) <=> j \in a + 1 .. a + d \/ j = n
    BY <1>1, <1>5, <2>2
  <2>4. \A j \in a + 1 .. a + d : bb[j] = b[j]
    <3>1. \A j \in a + 1 .. a + d : j \in 1 .. Len(b)
      BY <1>1, <2>2
    <3> QED BY <1>1, <3>1
  <2>5. {bb[j].answers : j \in a + 1 .. a + (d + 1)} = {b[j].answers : j \in a + 1 .. a + d} \union {x}
    BY <1>1, <2>3, <2>4 DEF x
  <2>6. a + (d + 1) <= Len(bb)
    BY <1>1, <2>2
  <2> QED BY <1>6, <1>7, <2>1, <2>5, <2>6 DEF Filled
<1>10. \A i \in DOMAIN bb : IsFiniteSet(bb[i].calls)
  BY <1>1, <1>2, FS_EmptySet DEF Grouped
<1>11. ASSUME NEW i \in DOMAIN bb, bb[i].role = "assistant"
       PROVE  Filled(bb, i, Told(bb[i], rest))
  <2>0. i \in DOMAIN b /\ bb[i] = b[i]
    BY <1>1, <1>2, <1>11
  <2>1. CASE i = a
    BY <1>9, <2>0, <2>1
  <2>2. CASE i /= a
    <3>1. Filled(b, i, Told(b[i], open)) /\ IsFiniteSet(b[i].calls)
      BY <1>11, <2>0 DEF Grouped
    <3>2. Cardinality(Told(b[i], open)) \in Nat
      BY <3>1, ToldTyped
    <3>3. Filled(bb, i, Told(b[i], open))
      BY <1>1, <2>0, <3>1, <3>2, FilledStays
    <3> QED BY <1>8, <2>0, <2>2, <3>3
  <2> QED BY <2>1, <2>2
<1>12. Belongs(bb, n, a, rest) /\ a \in 1 .. n - 1
  <2>1. a \in 1 .. n - 1 /\ bb[a] = b[a] /\ bb[n].answers = x
    BY <1>1
  <2>2. n <= a + (d + 1)
    BY <1>1, <1>4, <1>5
  <2>3. x \in E
    BY <1>6
  <2> HIDE DEF d, x
  <2> QED BY <1>4, <1>7, <2>1, <2>2, <2>3 DEF Belongs
<1>13. ASSUME NEW j \in DOMAIN bb, bb[j].role = "tool"
       PROVE  \E i \in 1 .. j - 1 : Belongs(bb, j, i, rest)
  <2>1. CASE j = n
    BY <1>12, <2>1
  <2>2. CASE j \in DOMAIN b
    <3>1. bb[j] = b[j]
      BY <1>1, <2>2
    <3>2. PICK i \in 1 .. j - 1 : Belongs(b, j, i, open)
      BY <1>13, <2>2, <3>1 DEF Grouped
    <3>3. bb[i] = b[i] /\ i \in DOMAIN b
      BY <1>1, <2>2
    <3>4. CASE i /= a
      BY <1>8, <3>1, <3>2, <3>3, <3>4 DEF Belongs
    <3>5. CASE i = a
      <4>1. b[j].answers \in D /\ j <= a + d
        BY <3>2, <3>5 DEF Belongs
      <4>2. b[j].answers \in E /\ j <= a + (d + 1)
        <5>1. j \in Nat /\ a \in Nat
          BY <1>1, <2>2
        <5>2. j <= a + (d + 1)
          <6> HIDE DEF d
          <6> QED BY <1>5, <4>1, <5>1
        <5> QED BY <1>6, <4>1, <5>2
      <4> HIDE DEF d
      <4> QED BY <1>4, <1>7, <3>1, <3>3, <3>5, <4>2 DEF Belongs
    <3> QED BY <3>4, <3>5
  <2> QED BY <1>2, <2>1, <2>2
<1>14. Heads(bb, a, rest)
  <2>1. bb[a] = b[a] /\ rest \subseteq b[a].calls
    BY <1>1, <1>4
  <2>2. \A k \in DOMAIN bb : k /= a => bb[k].calls \intersect rest = {}
    BY <1>1, <1>2, <1>4
  <2>3. Len(bb) = a + (d + 1)
    BY <1>1, <1>4, <1>5
  <2> HIDE DEF d
  <2> QED BY <1>4, <1>7, <2>1, <2>2, <2>3 DEF Heads
<1>15. a \in DOMAIN bb
  BY <1>1
<1> QED BY <1>10, <1>11, <1>13, <1>14, <1>15 DEF Grouped, bb

-----------------------------------------------------------------------------
(* What the projection has made of the first n events is so.               *)

Awaits(l, n, acc) ==
  /\ acc.pending = Outstanding(l, n)
  /\ \A i \in DOMAIN acc.held : Plain(acc.held[i])
  /\ acc.pending = {} => acc.held = <<>>
  /\ \A i \in DOMAIN acc.body : acc.body[i].calls \subseteq Called(l, n)
  /\ Grouped(acc.body, acc.pending)

LEMMA MessageCalls ==
  ASSUME NEW e, e.kind /= "assistant_message"
  PROVE  MessageOf(e).calls = {}
BY DEF MessageOf, Message

LEMMA Joined ==
  ASSUME NEW b \in Seq(Messages), NEW h \in Seq(Messages)
  PROVE  /\ Extends(b, b \o h)
         /\ \A i \in Len(b) + 1 .. Len(b \o h) :
              i - Len(b) \in DOMAIN h /\ (b \o h)[i] = h[i - Len(b)]
<1>1. /\ b \o h \in Seq(Messages) /\ Len(b \o h) = Len(b) + Len(h)
      /\ Len(b) \in Nat /\ Len(h) \in Nat /\ DOMAIN h = 1 .. Len(h)
      /\ \A i \in 1 .. Len(b) : (b \o h)[i] = b[i]
  OBVIOUS
<1>2. ASSUME NEW i \in Len(b) + 1 .. Len(b \o h)
      PROVE  i - Len(b) \in DOMAIN h /\ (b \o h)[i] = h[i - Len(b)]
  BY <1>1
<1> QED BY <1>1, <1>2 DEF Extends

(* A result.                                                               *)
LEMMA AwaitsResult ==
  ASSUME NEW l, NEW n, NEW k, NEW acc \in Partly, NEW m \in Messages,
         Awaits(l, n, acc), m.role = "tool", m.calls = {}, m.answers \in Outstanding(l, n),
         Called(l, k) = Called(l, n), Outstanding(l, k) = Outstanding(l, n) \ {m.answers}
  PROVE  Awaits(l, k, Push(acc, m))
<1> DEFINE rest == acc.pending \ {m.answers}
           b == Append(acc.body, m)
<1>0. acc.body \in Seq(Messages) /\ acc.held \in Seq(Messages) /\ b \in Seq(Messages)
  BY DEF Partly
<1>1. acc.pending = Outstanding(l, n) /\ rest = Outstanding(l, k) /\ m.answers \in acc.pending
  BY DEF Awaits
<1>2. Grouped(b, rest)
  BY <1>0, <1>1, ResultGrouped DEF Awaits
<1>3. \A i \in DOMAIN b : b[i] = m \/ \E j \in DOMAIN acc.body : b[i] = acc.body[j]
  <2>1. \A i \in DOMAIN b : b[i] = IF i \in DOMAIN acc.body THEN acc.body[i] ELSE m
    BY <1>0
  <2> QED BY <2>1
<1>4. \A i \in DOMAIN b : b[i].calls \subseteq Called(l, k)
  BY <1>3 DEF Awaits
<1>5. Push(acc, m) = IF rest = {} THEN [body |-> b \o acc.held, pending |-> {}, held |-> <<>>]
                     ELSE [acc EXCEPT !.body = b, !.pending = rest]
  BY DEF Push
<1>6. CASE rest = {}
  <2> DEFINE bb == b \o acc.held
  <2>0. acc.held \in Seq(Messages) /\ b \in Seq(Messages)
    BY <1>0
  <2> HIDE DEF b
  <2>1. /\ Extends(b, bb)
        /\ \A i \in Len(b) + 1 .. Len(bb) :
             i - Len(b) \in DOMAIN acc.held /\ bb[i] = acc.held[i - Len(b)]
    BY <2>0, Joined
  <2>2. \A i \in Len(b) + 1 .. Len(bb) : Plain(bb[i])
    BY <2>1 DEF Awaits
  <2> HIDE DEF bb
  <2>3. \A i \in DOMAIN bb : i \in DOMAIN b \/ i \in Len(b) + 1 .. Len(bb)
    BY <2>1 DEF Extends
  <2>4. DOMAIN b = 1 .. Len(b)
    BY <2>0
  <2> DEFINE done == [body |-> bb, pending |-> {}, held |-> <<>>]
  <2>5. done.body = bb /\ done.pending = {} /\ done.held = <<>> /\ DOMAIN <<>> = {}
    OBVIOUS
  <2>6. Push(acc, m) = done
    BY <1>5, <1>6 DEF bb
  <2> HIDE DEF rest, done
  <2>7. Grouped(bb, {})
    BY <1>2, <1>6, <2>1, <2>2, PlainGrouped
  <2>8. \A i \in DOMAIN bb : bb[i].calls \subseteq Called(l, k)
    BY <1>4, <2>1, <2>2, <2>3, <2>4 DEF Extends, Plain
  <2> QED BY <1>1, <1>6, <2>5, <2>6, <2>7, <2>8 DEF Awaits
<1>7. CASE rest /= {}
  <2> DEFINE done == [acc EXCEPT !.body = b, !.pending = rest]
  <2>1. done.body = b /\ done.pending = rest /\ done.held = acc.held
    BY DEF Partly
  <2>2. Push(acc, m) = done
    BY <1>5, <1>7
  <2> HIDE DEF b, rest, done
  <2> QED BY <1>1, <1>2, <1>4, <1>7, <2>1, <2>2 DEF Awaits
<1> QED BY <1>6, <1>7

(* A reply, which finds nothing outstanding.                               *)
LEMMA AwaitsReply ==
  ASSUME NEW l, NEW n, NEW k, NEW acc \in Partly, NEW m \in Messages,
         Awaits(l, n, acc), m.role = "assistant", IsFiniteSet(m.calls),
         Outstanding(l, n) = {}, Called(l, n) \intersect m.calls = {},
         Called(l, k) = Called(l, n) \union m.calls, Outstanding(l, k) = m.calls
  PROVE  Awaits(l, k, Push(acc, m))
<1> DEFINE b == Append(acc.body, m)
           done == [body |-> b, pending |-> m.calls, held |-> <<>>]
<1>0. acc.body \in Seq(Messages) /\ b \in Seq(Messages)
  BY DEF Partly
<1>1. acc.pending = {} /\ acc.held = <<>> /\ Grouped(acc.body, {})
  BY DEF Awaits
<1>2. acc.body \o <<>> = acc.body
  BY <1>0
<1>3. Push(acc, m) = done
  BY <1>1, <1>2 DEF Push
<1>4. \A i \in DOMAIN acc.body : acc.body[i].calls \intersect m.calls = {}
  BY DEF Awaits
<1>5. Grouped(b, m.calls)
  BY <1>0, <1>1, <1>4, ReplyGrouped
<1>6. \A i \in DOMAIN b : b[i] = IF i \in DOMAIN acc.body THEN acc.body[i] ELSE m
  BY <1>0
<1>7. done.body = b /\ done.pending = m.calls /\ done.held = <<>> /\ DOMAIN <<>> = {}
  OBVIOUS
<1> HIDE DEF b, done
<1>8. \A i \in DOMAIN b : b[i].calls \subseteq Called(l, k)
  BY <1>6 DEF Awaits
<1> QED BY <1>3, <1>5, <1>7, <1>8 DEF Awaits

(* Anything else waits while a call is open.                               *)
LEMMA AwaitsPlain ==
  ASSUME NEW l, NEW n, NEW k, NEW acc \in Partly, NEW m \in Messages,
         Awaits(l, n, acc), Plain(m),
         Called(l, k) = Called(l, n), Outstanding(l, k) = Outstanding(l, n)
  PROVE  Awaits(l, k, Push(acc, m))
<1>0. acc.body \in Seq(Messages) /\ acc.held \in Seq(Messages)
  BY DEF Partly
<1>1. CASE acc.pending /= {}
  <2> DEFINE h == Append(acc.held, m)
             done == [acc EXCEPT !.held = h]
  <2>1. Push(acc, m) = done
    BY <1>1 DEF Push, Plain
  <2>2. done.body = acc.body /\ done.pending = acc.pending /\ done.held = h
    BY DEF Partly
  <2>3. \A i \in DOMAIN h : h[i] = IF i \in DOMAIN acc.held THEN acc.held[i] ELSE m
    BY <1>0
  <2> HIDE DEF h, done
  <2>4. \A i \in DOMAIN h : Plain(h[i])
    BY <2>3 DEF Awaits
  <2> QED BY <1>1, <2>1, <2>2, <2>4 DEF Awaits
<1>2. CASE acc.pending = {}
  <2> DEFINE b == Append(acc.body, m)
             done == [acc EXCEPT !.body = b]
  <2>1. Push(acc, m) = done
    BY <1>2 DEF Push, Plain
  <2>2. done.body = b /\ done.pending = acc.pending /\ done.held = acc.held
    BY DEF Partly
  <2>3. \A i \in DOMAIN b : b[i] = IF i \in DOMAIN acc.body THEN acc.body[i] ELSE m
    BY <1>0
  <2>4. Extends(acc.body, b) /\ \A i \in Len(acc.body) + 1 .. Len(b) : b[i] = m
    BY <1>0 DEF Extends
  <2> HIDE DEF b, done
  <2>5. Grouped(b, {})
    BY <1>2, <2>4, PlainGrouped DEF Awaits
  <2>6. \A i \in DOMAIN b : b[i].calls \subseteq Called(l, k)
    BY <2>3 DEF Awaits, Plain
  <2> QED BY <1>2, <2>1, <2>2, <2>5, <2>6 DEF Awaits
<1> QED BY <1>1, <1>2

(* It is so after every event.                                             *)
LEMMA AwaitsAll ==
  ASSUME NEW l \in Seq(Event), CallLog(l), SettledFirst(l)
  PROVE  \A n \in 0 .. Len(l) : Awaits(l, n, Projected(l)[n])
<1> DEFINE f == Projected(l)
           S == {n \in 0 .. Len(l) : Awaits(l, n, f[n])}
<1>0. Len(l) \in Nat /\ DOMAIN l = 1 .. Len(l) /\ \A i \in 1 .. Len(l) : l[i] \in Event
  OBVIOUS
<1>1. f[0] = Base /\ \A n \in 0 .. Len(l) - 1 : f[n + 1] = Took(l, f[n], n + 1)
  BY <1>0, ProjectedSteps
<1>2. \A n \in 0 .. Len(l) : f[n] \in Partly
  BY CarriedSoFar
<1> HIDE DEF f
<1>3. 0 \in S
  <2>1. Called(l, 0) = {}
    <3>1. \A i \in Replies(l) : ~ (i <= 0)
      BY DEF Replies, Events
    <3> QED BY <3>1 DEF Called
  <2>2. Base.pending = {} /\ Base.held = <<>> /\ Base.body = <<>> /\ DOMAIN <<>> = {}
    BY DEF Base
  <2>3. Grouped(<<>>, {})
    BY <2>2 DEF Grouped
  <2>4. Awaits(l, 0, Base)
    BY <2>1, <2>2, <2>3 DEF Awaits, Outstanding
  <2> QED BY <1>0, <1>1, <2>4
<1>4. ASSUME NEW n \in 0 .. Len(l) - 1, n \in S
      PROVE  n + 1 \in S
  <2> DEFINE e == l[n + 1]
             m == MessageOf(e)
  <2>1. n + 1 \in 0 .. Len(l) /\ n \in 0 .. Len(l) /\ n + 1 \in DOMAIN l /\ e \in Event
    BY <1>0
  <2>2. f[n] \in Partly /\ Awaits(l, n, f[n]) /\ f[n + 1] = Took(l, f[n], n + 1)
    BY <1>1, <1>2, <1>4, <2>1
  <2>3. /\ n + 1 \in Replies(l) <=> e.kind = "assistant_message"
        /\ n + 1 \in Results(l) <=> e.kind = "tool_result"
    BY <2>1 DEF Replies, Results, Events
  <2>4. Awaits(l, n + 1, Took(l, f[n], n + 1))
    <3>1. CASE e.kind = "assistant_message"
      <4>1. Kept(l, n + 1)
        BY <3>1 DEF Kept, Emits, BeyondHorizon
      <4>2. Took(l, f[n], n + 1) = Push(f[n], m)
        BY <4>1 DEF Took
      <4>3. m \in Messages /\ m.role = "assistant" /\ m.calls = Ids(l, n + 1)
        BY <2>1, <3>1, MessageTyped DEF Emits, Ids
      <4>4. IsFiniteSet(Ids(l, n + 1))
        BY <2>3, <3>1, CallsTyped
      <4>5. /\ Outstanding(l, n) = {}
            /\ Called(l, n) \intersect Ids(l, n + 1) = {}
            /\ Called(l, n + 1) = Called(l, n) \union Ids(l, n + 1)
            /\ Outstanding(l, n + 1) = Ids(l, n + 1)
        BY <2>3, <3>1, ReplyOutstanding
      <4> HIDE DEF m
      <4> QED BY <2>2, <4>2, <4>3, <4>4, <4>5, AwaitsReply
    <3>2. CASE e.kind = "tool_result"
      <4>1. Kept(l, n + 1)
        BY <3>2 DEF Kept, Emits, BeyondHorizon
      <4>2. Took(l, f[n], n + 1) = Push(f[n], m)
        BY <4>1 DEF Took
      <4>3. m \in Messages /\ m.role = "tool" /\ m.answers = e.call /\ m.calls = {}
        BY <2>1, <3>2, MessageTyped, MessageCalls DEF Emits
      <4>4. /\ e.call \in Outstanding(l, n) /\ Called(l, n + 1) = Called(l, n)
            /\ Outstanding(l, n + 1) = Outstanding(l, n) \ {e.call}
        BY <2>3, <3>2, ResultOutstanding
      <4> HIDE DEF m, e
      <4> QED BY <2>2, <4>2, <4>3, <4>4, AwaitsResult
    <3>3. CASE e.kind \notin {"assistant_message", "tool_result"}
      <4>1. Called(l, n + 1) = Called(l, n) /\ Outstanding(l, n + 1) = Outstanding(l, n)
        BY <2>3, <3>3, OtherOutstanding
      <4>2. CASE Kept(l, n + 1)
        <5>1. Took(l, f[n], n + 1) = Push(f[n], m) /\ e.kind \in Emits
          BY <4>2 DEF Took, Kept
        <5>2. m \in Messages /\ Plain(m)
          BY <2>1, <3>3, <5>1, MessageTyped, MessageCalls DEF Plain
        <5> HIDE DEF m
        <5> QED BY <2>2, <4>1, <5>1, <5>2, AwaitsPlain
      <4>3. CASE ~Kept(l, n + 1)
        <5>1. Took(l, f[n], n + 1) = f[n]
          BY <4>3 DEF Took
        <5> QED BY <2>2, <4>1, <5>1 DEF Awaits
      <4> QED BY <4>2, <4>3
    <3> QED BY <3>1, <3>2, <3>3
  <2> QED BY <2>1, <2>2, <2>4
<1> HIDE DEF S
<1>5. \A n \in 0 .. Len(l) : n \in S
  BY <1>0, <1>3, <1>4, UpTo
<1> QED BY <1>5 DEF S, f

(* With every call answered the conversation is one the providers take.    *)
LEMMA GroupedAccepted ==
  ASSUME NEW b \in Seq(Messages), Grouped(b, {}), \A i \in DOMAIN b : 0 \notin b[i].calls
  PROVE  Acceptable(b)
<1>1. \A m : Told(m, {}) = m.calls
  BY DEF Told
<1>2. ASSUME NEW i \in DOMAIN b, b[i].role = "assistant"
      PROVE  /\ i + Cardinality(b[i].calls) <= Len(b)
             /\ {b[j].answers : j \in i + 1 .. i + Cardinality(b[i].calls)} \ {0} = b[i].calls
  <2>1. Filled(b, i, b[i].calls)
    BY <1>1, <1>2 DEF Grouped
  <2>2. 0 \notin b[i].calls
    OBVIOUS
  <2> QED BY <2>1, <2>2 DEF Filled
<1>3. ASSUME NEW j \in DOMAIN b, b[j].role = "tool"
      PROVE  \E i \in 1 .. j - 1 : /\ b[i].role = "assistant"
                                   /\ b[j].answers \in b[i].calls
                                   /\ j <= i + Cardinality(b[i].calls)
  BY <1>1, <1>3 DEF Grouped, Belongs
<1> QED BY <1>2, <1>3 DEF Acceptable

LEMMA ProjectAccepted ==
  ASSUME NEW l \in Seq(Event), CallLog(l), SettledFirst(l), Hanging(l) = {}
  PROVE  Acceptable(Project(l))
<1> DEFINE acc == Projected(l)[Len(l)]
<1>0. Len(l) \in 0 .. Len(l) /\ Len(l) \in Nat
  OBVIOUS
<1>1. acc \in Partly /\ Awaits(l, Len(l), acc) /\ Project(l) = acc.body \o acc.held
  BY <1>0, CarriedSoFar, AwaitsAll DEF Project
<1> HIDE DEF acc
<1>2. Outstanding(l, Len(l)) = {}
  <2> SUFFICES ASSUME NEW id \in Called(l, Len(l)) PROVE id \in Returned(l, Len(l))
    BY DEF Outstanding
  <2>1. PICK i \in Replies(l) : \E c \in ToSet(l[i].calls) : c.id = id
    BY DEF Called, Ids
  <2>5. PICK c \in ToSet(l[i].calls) : c.id = id
    BY <2>1
  <2>2. c \in CallsOf(l)
    BY <2>5 DEF CallsOf, Replies
  <2>3. PICK r : r \in Results(l) /\ l[r].call = id
    BY <2>2, <2>5 DEF Hanging, ResultsOf, Results
  <2>4. r <= Len(l)
    BY <1>0, <2>3 DEF Results, Events
  <2> QED BY <2>3, <2>4 DEF Returned
<1>3. Project(l) = acc.body /\ Grouped(acc.body, {}) /\ acc.body \in Seq(Messages)
  <2>1. acc.pending = {} /\ acc.held = <<>> /\ Grouped(acc.body, {})
    BY <1>1, <1>2 DEF Awaits
  <2>2. acc.body \in Seq(Messages)
    BY <1>1 DEF Partly
  <2>3. acc.body \o <<>> = acc.body
    BY <2>2
  <2> QED BY <1>1, <2>1, <2>2, <2>3
<1>4. \A i \in DOMAIN acc.body : 0 \notin acc.body[i].calls
  <2>1. \A i \in Replies(l) : 0 \notin Ids(l, i)
    BY CallsTyped
  <2>2. 0 \notin Called(l, Len(l))
    BY <2>1 DEF Called
  <2> QED BY <1>1, <2>2 DEF Awaits
<1> QED BY <1>3, <1>4, GroupedAccepted

-----------------------------------------------------------------------------
RequestInv == AnswerInv /\ PostsInv /\ SettledFirst(log)

LEMMA RequestNext == RequestInv /\ [Next]_vars => RequestInv'
<1> SUFFICES ASSUME RequestInv, [Next]_vars PROVE RequestInv'
  OBVIOUS
<1>1. AnswerInv' /\ TypeInv /\ TypeInv' /\ PostsInv'
  <2>1. AnswerInv'
    BY AnswerNext DEF RequestInv
  <2>2. TypeInv /\ TypeInv'
    BY <2>1 DEF RequestInv, AnswerInv, IInv
  <2> QED BY <2>1, <2>2, PostsStep DEF RequestInv
<1>2. log' = log \/ \E e : Grows(log, log', e)
  <2>1. CASE UNCHANGED vars
    BY <2>1 DEF vars, turnVars
  <2>2. CASE Next
    <3>1. PostsMove
      BY <1>1, <2>2, PostsTurn, PostsActor DEF RunTurn
    <3> QED BY <3>1 DEF PostsMove, Rests, Holds, Gathers, Drains, Flushes, Starts, AcceptsIdle,
                        AcceptsRunning, Dies, LogRests, Logs
  <2> QED BY <2>1, <2>2
<1>3. PICK ll : ll = log'
  OBVIOUS
<1>4. ClosedAnswered(ll)
  BY <1>1, <1>3 DEF AnswerInv, CallsInv, CallLog
<1>5. SettledFirst(ll)
  <2>1. CASE ll = log
    BY <2>1 DEF RequestInv
  <2>2. CASE \E e : Grows(log, ll, e)
    <3>1. PICK l, e : l = log /\ Grows(l, ll, e)
      BY <2>2
    <3>2. SettledFirst(l)
      BY <3>1 DEF RequestInv
    <3> QED BY <1>4, <3>1, <3>2, SettledGrows
  <2> QED BY <1>2, <1>3, <2>1, <2>2
<1> QED BY <1>1, <1>3, <1>5 DEF RequestInv

LEMMA RequestInit == Init => RequestInv
<1> SUFFICES ASSUME Init PROVE RequestInv
  OBVIOUS
<1>1. log = <<>>
  BY DEF Init
<1>2. SettledFirst(log)
  BY <1>1 DEF SettledFirst, Replies, Events
<1> QED BY <1>2, AnswerInit, PostsInit DEF RequestInv

(* Whatever was posted, killed, refused or repaired before it, and however *)
(* often the process died, the conversation a model call sends is one the  *)
(* providers accept: every reply's calls are answered right behind it, and *)
(* no result stands anywhere else.                                         *)
THEOREM RequestsAlways == Spec => []RequestsAcceptable
<1>1. RequestInv => RequestsAcceptable
  <2> SUFFICES ASSUME RequestInv, pc = "stream" PROVE Acceptable(Project(log))
    BY DEF RequestsAcceptable
  <2>1. CallLog(log) /\ SettledFirst(log) /\ log \in Seq(Event)
    BY DEF RequestInv, AnswerInv, CallsInv, IInv, TypeInv, TypeOK
  <2>2. Hanging(log) = ToSet(batch) /\ batch = <<>>
    BY DEF RequestInv, AnswerInv, CallsInv, BatchSound, AtCall
  <2>3. ToSet(<<>>) = {}
    BY DEF ToSet, Range
  <2> QED BY <2>1, <2>2, <2>3, ProjectAccepted
<1> QED BY <1>1, RequestInit, RequestNext, PTL DEF Spec

-----------------------------------------------------------------------------
(* The project, and the switches between the two.                          *)

SwitchPlaces(l) == Events(l, "project_switched")

(* An event that is no switch leaves the project the log names; a switch   *)
(* names another.                                                          *)
LEMMA SwitchedLast ==
  ASSUME NEW l, NEW ll, NEW e, Grows(l, ll, e)
  PROVE  /\ e.kind /= "project_switched" => LoggedProject(ll, Home) = LoggedProject(l, Home)
         /\ e.kind = "project_switched" => LoggedProject(ll, Home) = e.to
<1>1. /\ Len(l) \in Nat /\ Len(ll) = Len(l) + 1 /\ l \in Seq(Event) /\ ll \in Seq(Event)
      /\ ll[Len(l) + 1] = e /\ \A i \in 1 .. Len(l) : ll[i] = l[i]
      /\ \A k : Events(l, k) \subseteq 1 .. Len(l)
      /\ \A k : Events(ll, k) = Events(l, k) \union (IF e.kind = k THEN {Len(l) + 1} ELSE {})
  <2>1. l \in Seq(Event)
    BY DEF Grows
  <2> QED BY <2>1, Grown
<1>2. ASSUME NEW m \in Seq(Event)
      PROVE  LastSwitch(m) = IF SwitchPlaces(m) /= {} THEN Max(SwitchPlaces(m)) ELSE 0
  <2> DEFINE places == {i \in 1 .. Len(m) : m[i].kind = "project_switched"}
  <2>1. LastSwitch(m) = IF places /= {} THEN Max(places) ELSE 0
    BY DEF LastSwitch, SelectLastInSeq
  <2>2. DOMAIN m = 1 .. Len(m)
    OBVIOUS
  <2>3. places = SwitchPlaces(m)
    BY <2>2 DEF SwitchPlaces, Events
  <2> QED BY <2>1, <2>3
<1>3. /\ LastSwitch(l) = IF SwitchPlaces(l) /= {} THEN Max(SwitchPlaces(l)) ELSE 0
      /\ LastSwitch(ll) = IF SwitchPlaces(ll) /= {} THEN Max(SwitchPlaces(ll)) ELSE 0
  BY <1>1, <1>2
<1>4. CASE e.kind /= "project_switched"
  <2>1. SwitchPlaces(ll) = SwitchPlaces(l) /\ SwitchPlaces(l) \subseteq 1 .. Len(l)
    BY <1>1, <1>4 DEF SwitchPlaces
  <2>2. LastSwitch(ll) = LastSwitch(l)
    BY <1>3, <2>1
  <2>3. LastSwitch(l) /= 0 => LastSwitch(l) \in 1 .. Len(l)
    <3>1. SwitchPlaces(l) /= {} => Max(SwitchPlaces(l)) \in SwitchPlaces(l)
      BY <1>1, <2>1, LastPlace
    <3> QED BY <1>3, <2>1, <3>1
  <2>4. LastSwitch(l) /= 0 => ll[LastSwitch(l)] = l[LastSwitch(l)]
    BY <1>1, <2>3
  <2> QED BY <1>4, <2>2, <2>4 DEF LoggedProject
<1>5. CASE e.kind = "project_switched"
  <2>1. SwitchPlaces(ll) = SwitchPlaces(l) \union {Len(l) + 1} /\ SwitchPlaces(l) \subseteq 1 .. Len(l)
    BY <1>1, <1>5 DEF SwitchPlaces
  <2>2. SwitchPlaces(ll) \in SUBSET (1 .. Len(l) + 1) /\ Len(l) + 1 \in Nat /\ SwitchPlaces(ll) /= {}
    BY <1>1, <2>1
  <2>3. /\ Max(SwitchPlaces(ll)) \in SwitchPlaces(ll)
        /\ \A i \in SwitchPlaces(ll) : i <= Max(SwitchPlaces(ll))
    BY <2>2, LastPlace
  <2>4. Max(SwitchPlaces(ll)) = Len(l) + 1
    <3> DEFINE m == Max(SwitchPlaces(ll))
    <3>1. Len(l) + 1 <= m /\ m \in 1 .. Len(l) + 1
      BY <2>1, <2>2, <2>3
    <3> HIDE DEF m
    <3>2. m = Len(l) + 1
      BY <1>1, <3>1
    <3> QED BY <3>2 DEF m
  <2>5. LastSwitch(ll) = Len(l) + 1 /\ Len(l) + 1 /= 0
    BY <1>1, <1>3, <2>2, <2>4
  <2> QED BY <1>1, <1>5, <2>5 DEF LoggedProject
<1> QED BY <1>4, <1>5

(* No switch stands between a withdrawn proposal and its answer; none      *)
(* stands behind a proposal that waits.                                    *)
NeverMoved(l) ==
  \A j \in Answered(l) :
    l[j].answer = "withdrawn" => \A s \in SwitchPlaces(l) : s < l[j].proposal \/ s > j
NotYetMoved(l) == \A i \in Unsettled(l), s \in SwitchPlaces(l) : s < i

LEMMA NeverMovedGrows ==
  ASSUME NEW l, NEW ll, NEW e, Grows(l, ll, e), NeverMoved(l),
         e.kind = "decision_answered" /\ e.answer = "withdrawn" =>
           NotYetMoved(l) /\ e.proposal \in Unsettled(l)
  PROVE  NeverMoved(ll)
<1>1. /\ Len(l) \in Nat /\ ll[Len(l) + 1] = e
      /\ \A i \in 1 .. Len(l) : ll[i] = l[i]
      /\ \A k : Events(l, k) \subseteq 1 .. Len(l)
      /\ \A k : Events(ll, k) = Events(l, k) \union (IF e.kind = k THEN {Len(l) + 1} ELSE {})
  BY Grown
<1>2. /\ \A j \in Answered(l) : j \in 1 .. Len(l) /\ ll[j] = l[j]
      /\ \A j \in Answered(ll) : j \in Answered(l) \/ (j = Len(l) + 1 /\ e.kind = "decision_answered")
      /\ \A s \in SwitchPlaces(ll) : s \in SwitchPlaces(l) \/ (s = Len(l) + 1 /\ e.kind = "project_switched")
  BY <1>1 DEF Answered, SwitchPlaces
<1> SUFFICES ASSUME NEW j \in Answered(ll), ll[j].answer = "withdrawn", NEW s \in SwitchPlaces(ll)
             PROVE  s < ll[j].proposal \/ s > j
  BY DEF NeverMoved
<1>3. CASE j \in Answered(l)
  <2>1. CASE s \in SwitchPlaces(l)
    BY <1>2, <1>3, <2>1 DEF NeverMoved
  <2>2. CASE s = Len(l) + 1
    BY <1>1, <1>2, <1>3, <2>2
  <2> QED BY <1>2, <2>1, <2>2
<1>4. CASE j = Len(l) + 1 /\ e.kind = "decision_answered"
  <2>1. s \in SwitchPlaces(l)
    BY <1>2, <1>4
  <2>2. NotYetMoved(l) /\ e.proposal \in Unsettled(l)
    BY <1>1, <1>4
  <2> QED BY <1>1, <1>4, <2>1, <2>2 DEF NotYetMoved
<1> QED BY <1>2, <1>3, <1>4

LEMMA NotYetMovedGrows ==
  ASSUME NEW l, NEW ll, NEW e, Grows(l, ll, e), NotYetMoved(l), e.kind /= "project_switched"
  PROVE  NotYetMoved(ll)
<1>1. /\ Len(l) \in Nat /\ SwitchPlaces(l) \subseteq 1 .. Len(l)
      /\ SwitchPlaces(ll) = SwitchPlaces(l)
  <2>1. /\ Len(l) \in Nat /\ \A k : Events(l, k) \subseteq 1 .. Len(l)
        /\ \A k : Events(ll, k) = Events(l, k) \union (IF e.kind = k THEN {Len(l) + 1} ELSE {})
    BY Grown
  <2> QED BY <2>1 DEF SwitchPlaces
<1>2. /\ Proposed(l) \subseteq 1 .. Len(l)
      /\ \A k : e.kind /= k => Events(ll, k) = Events(l, k)
      /\ Events(ll, e.kind) = Events(l, e.kind) \union {Len(l) + 1}
      /\ \A i : AnswersTo(l, i) \subseteq AnswersTo(ll, i)
  BY GrownAnswers
<1>3. \A i \in Unsettled(ll) : i \in Unsettled(l) \/ i = Len(l) + 1
  <2>1. \A i \in Proposed(ll) : i \in Proposed(l) \/ i = Len(l) + 1
    BY <1>2 DEF Proposed
  <2> QED BY <1>2, <2>1 DEF Unsettled
<1> QED BY <1>1, <1>3 DEF NotYetMoved

(* A switch where no proposal waits leaves none behind it.                 *)
LEMMA NoneWaits ==
  ASSUME NEW l, NEW ll, NEW e, Grows(l, ll, e), Unsettled(l) = {}, e.kind = "project_switched"
  PROVE  NotYetMoved(ll)
<1>1. Proposed(ll) = Proposed(l) /\ \A i : AnswersTo(ll, i) = AnswersTo(l, i)
  BY GrownAnswers DEF Proposed
<1>2. Unsettled(ll) = {}
  BY <1>1 DEF Unsettled
<1> QED BY <1>2 DEF NotYetMoved

(* How a step treats the project: only a switch in the log changes it,     *)
(* unless a read of the knowledge failed; what is withdrawn waited, and a  *)
(* switch leaves no proposal waiting but the one it was agreed for.        *)
Moving == {"switched", "idle_switched"}
ProjectStays == "knowledge" \in Faults \/ project' = project
SwitchFree(e) == e.kind \notin {"decision_answered", "project_switched"}

SwitchMove ==
  \/ log' = log /\ ProjectStays /\ pc \notin Moving
  \/ UNCHANGED <<log, pc, project>>
  \/ \E e : /\ log' = Append(log, e) /\ SwitchFree(e)
            /\ ProjectStays /\ pc \notin Moving
  \/ \E i, a : /\ log' = Append(log, DecisionAnswered(i, a)) /\ ProjectStays
               /\ a = "withdrawn" => pc \notin Moving /\ (pc \in Booting \/ i \in Unsettled(log))
               /\ pc \in Moving => Unsettled(log') = {}
  \/ \E to : /\ log' = Append(log, ProjectSwitched(to)) /\ project' = to
             /\ pc' \in Moving \/ Unsettled(log) = {}

LEMMA SwitchFreeEvents ==
  /\ \A p, m, s : SwitchFree(UserMessage(p, m, s))
  /\ \A calls : SwitchFree(AssistantMessage(calls))
  /\ \A c, o : SwitchFree(ToolResult(c, o))
  /\ \A c : SwitchFree(PermissionRequested(c))
  /\ \A c, a, b : SwitchFree(PermissionDecided(c, a, b))
  /\ \A b, c : SwitchFree(DecisionProposed(b, c))
  /\ SwitchFree(ProviderRetried)
  /\ \A j : SwitchFree(JobFinished(j))
  /\ \A b : SwitchFree(Interrupted(b))
  /\ \A r : SwitchFree(TurnEnded(r))
BY DEF UserMessage, AssistantMessage, ToolResult, PermissionRequested, PermissionDecided,
   DecisionProposed, ProviderRetried, JobFinished, Interrupted, TurnEnded, SwitchFree

(* Every step of a turn treats the project so.                             *)
LEMMA SwitchTurn ==
  ASSUME ProposalsInv, ProposalsInv', TurnStep
  PROVE  SwitchMove
<1> USE DEF threadVars
<1>1. /\ log' = log /\ project' = project /\ pc \notin Moving => SwitchMove
      /\ \A e : log' = Append(log, e) /\ SwitchFree(e) /\ project' = project /\ pc \notin Moving
                  => SwitchMove
  BY DEF SwitchMove, ProjectStays
<1>2. CASE Loop
  <2>1. /\ log' = log \/ \E p, s : log' = Append(log, UserMessage(p, TRUE, s))
        /\ project' = project /\ pc \notin Moving
    BY <1>2 DEF Loop, DrainAt, InterruptedAtTop, BudgetSpent, FlushHeld, Compact,
       CompactionFails, Request, AppendQueued, AtTop, Write, Moving
  <2> QED BY <1>1, <2>1, SwitchFreeEvents
<1>3. CASE Stream
  <2>1. /\ \/ log' = log \/ log' = Append(log, ProviderRetried)
           \/ \E calls : log' = Append(log, AssistantMessage(calls))
        /\ project' = project /\ pc \notin Moving
    BY <1>3 DEF Stream, StreamHolds, StreamInterrupted, StreamRetried, StreamFails,
       StreamReplies, StreamOver, Write, Moving
  <2> QED BY <1>1, <2>1, SwitchFreeEvents
<1>4. CASE Calls
  <2>1. CASE LengthStop \/ Siblings \/ ToolDone \/ ToolKilled
    <3>1. /\ \E id, o : log' = Append(log, ToolResult(id, o))
          /\ project' = project /\ pc \notin Moving
      BY <2>1 DEF LengthStop, Siblings, NotRun, ToolDone, ToolKilled, Result, Write, Moving
    <3> QED BY <1>1, <3>1, SwitchFreeEvents
  <2>2. CASE RunPlain \/ AskPermission \/ AskHuman \/ Propose \/ RequestGranted
    <3>1. /\ \/ log' = log \/ \E id : log' = Append(log, PermissionRequested(id))
             \/ \E b, c : log' = Append(log, DecisionProposed(b, c))
          /\ project' = project /\ pc \notin Moving
      BY <2>2 DEF RunPlain, AskPermission, AskHuman, Propose, RequestGranted, Register, NextCall,
         Write, Moving
    <3> QED BY <1>1, <3>1, SwitchFreeEvents
  <2>3. CASE Granted
    <3>1. /\ log' = Append(log, PermissionDecided(Head(batch).id, TRUE, "grant"))
          /\ project' = project /\ pc \notin Moving
      BY <2>3 DEF Granted, Write, Moving
    <3> QED BY <1>1, <3>1, SwitchFreeEvents
  <2> QED BY <1>4, <2>1, <2>2, <2>3 DEF Calls
<1>5. CASE Wait
  <2>1. CASE HumanInterrupted \/ HumanAnswered \/ Said \/ Refused
    <3>1. /\ \E id, o : log' = Append(log, ToolResult(id, o))
          /\ project' = project /\ pc \notin Moving
      BY <2>1 DEF HumanInterrupted, HumanAnswered, Interrupts, Answers, Said, Refused, Result,
         Write, Moving
    <3> QED BY <1>1, <3>1, SwitchFreeEvents
  <2>2. CASE PermissionInterrupted \/ PermissionAllowed \/ PermissionDenied
    <3>1. /\ \E id, allow, by : log' = Append(log, PermissionDecided(id, allow, by))
          /\ project' = project /\ pc \notin Moving
      <4>1. CASE PermissionAllowed
        BY <4>1 DEF PermissionAllowed, Answers, Settle, Write, Moving
      <4>2. CASE PermissionDenied
        BY <4>2 DEF PermissionDenied, Answers, Settle, Write, Moving
      <4>3. CASE PermissionInterrupted
        BY <4>3 DEF PermissionInterrupted, Interrupts, Settle, Write, Moving
      <4> QED BY <2>2, <4>1, <4>2, <4>3
    <3> QED BY <1>1, <3>1, SwitchFreeEvents
  <2>3. CASE ProposalInterrupted \/ SwitchFails
    <3>1. /\ log' = Append(log, DecisionAnswered(Proposal, "withdrawn"))
          /\ project' = project \/ "knowledge" \in Faults
          /\ pc = "ask" /\ Head(batch).tool \in Proposals
      <4>1. CASE ProposalInterrupted
        BY <4>1 DEF ProposalInterrupted, Interrupts, AskedTool, Settle, Write
      <4>2. CASE SwitchFails
        BY <4>2 DEF SwitchFails, Answers, AskedTool, Proposals, Settle, Write
      <4> QED BY <2>3, <4>1, <4>2
    <3>2. Proposal \in Unsettled(log)
      <4>1. PICK p, b, s, l : p = pc /\ b = batch /\ s = idleSwitch /\ l = log
        OBVIOUS
      <4>2. ProposalsAt(p, b, s, l) /\ AtProposal(p, b)
        BY <3>1, <4>1 DEF ProposalsInv, AtProposal
      <4>3. Unsettled(l) = {LastProposed(l)}
        BY <4>2, Waiting
      <4>4. LastProposed(l) = Proposal
        BY <4>1 DEF LastProposed, Proposal
      <4> QED BY <4>1, <4>3, <4>4
    <3> QED BY <3>1, <3>2 DEF SwitchMove, ProjectStays, Moving
  <2>4. CASE Declined \/ JobApproved
    <3>1. /\ log' = Append(log, DecisionAnswered(Proposal, "no"))
             \/ log' = Append(log, DecisionAnswered(Proposal, "yes"))
          /\ project' = project /\ pc \notin Moving
      BY <2>4 DEF Declined, JobApproved, Answers, Settle, Write, Moving
    <3> QED BY <3>1 DEF SwitchMove, ProjectStays
  <2>5. CASE SwitchRecorded
    <3>1. /\ log' = Append(log, DecisionAnswered(Proposal, "yes"))
          /\ project' = project /\ pc' = "said"
      BY <2>5 DEF SwitchRecorded, Settle, Write
    <3>2. Unsettled(log') = {}
      <4>1. PICK p, b, s, l : p = pc' /\ b = batch' /\ s = idleSwitch' /\ l = log'
        OBVIOUS
      <4>2. ProposalsAt(p, b, s, l) /\ NoneAt(p, b)
        BY <3>1, <4>1 DEF ProposalsInv, NoneAt, AtProposal, IdlePlaces
      <4>3. Unsettled(l) = {}
        BY <4>2, NoneSettled
      <4> QED BY <4>1, <4>3
    <3> QED BY <3>1, <3>2 DEF SwitchMove, ProjectStays
  <2>6. CASE SwitchAgreed
    <3>1. log' = Append(log, ProjectSwitched(Away)) /\ project' = Away /\ pc' \in Moving
      BY <2>6 DEF SwitchAgreed, Settle, Write, Moving
    <3> QED BY <3>1 DEF SwitchMove
  <2> QED BY <1>5, <2>1, <2>2, <2>3, <2>4, <2>5, <2>6 DEF Wait
<1>6. CASE Ending
  <2>1. /\ \/ log' = log
           \/ \E id, o : log' = Append(log, ToolResult(id, o))
           \/ \E p, s : log' = Append(log, UserMessage(p, TRUE, s))
           \/ \E b : log' = Append(log, Interrupted(b))
           \/ \E r : log' = Append(log, TurnEnded(r))
        /\ project' = project /\ pc \notin Moving
    BY <1>6 DEF Ending, Synthetic, NotRun, BatchOver, AfterCalls, FlushLast, NoteInterrupt,
       EndTurn, AppendQueued, Write, Moving
  <2> QED BY <1>1, <2>1, SwitchFreeEvents
<1> QED BY <1>2, <1>3, <1>4, <1>5, <1>6 DEF TurnStep

(* The proposal that waits while no turn runs.                             *)
LEMMA IdleUnsettled ==
  ASSUME ProposalsInv, pc = "idle", idleSwitch /= 0
  PROVE  idleSwitch \in Unsettled(log)
<1>1. PICK p, b, s, l : p = pc /\ b = batch /\ s = idleSwitch /\ l = log
  OBVIOUS
<1>2. ProposalsAt(p, b, s, l) /\ p = "idle" /\ s /= 0
  BY <1>1 DEF ProposalsInv
<1>3. s \in Unsettled(l)
  BY <1>2 DEF ProposalsAt, Awaited, AtProposal
<1> QED BY <1>1, <1>3

(* Every step of the actor treats the project so.                          *)
LEMMA SwitchActor ==
  ASSUME ProposalsInv, ProposalsInv', Next, ~Crash
  PROVE  SwitchMove
<1> USE DEF threadVars
<1>1. /\ log' = log /\ project' = project /\ pc \notin Moving => SwitchMove
      /\ \A e : log' = Append(log, e) /\ SwitchFree(e) /\ project' = project /\ pc \notin Moving
                  => SwitchMove
  BY DEF SwitchMove, ProjectStays
<1>2. CASE RunTurn
  BY <1>2, SwitchTurn DEF RunTurn
<1>3. CASE StartTurn \/ WriteNote \/ Continue \/ GoIdle \/ SideJobs
  <2>1. /\ \/ log' = log
           \/ \E p : log' = Append(log, UserMessage(p, FALSE, FALSE))
           \/ \E j : log' = Append(log, JobFinished(j))
        /\ project' = project /\ pc \notin Moving
    BY <1>3 DEF StartTurn, WriteNote, Continue, GoIdle, SideJobs, Write, Moving
  <2> QED BY <1>1, <2>1, SwitchFreeEvents
<1>4. CASE RecordIdle
  <2>1. /\ log' = Append(log, DecisionAnswered(idleSwitch, "yes"))
        /\ project' = project /\ pc' = "idle" /\ idleSwitch' = 0
    BY <1>4 DEF RecordIdle
  <2>2. Unsettled(log') = {}
    <3>1. PICK p, b, s, l : p = pc' /\ b = batch' /\ s = idleSwitch' /\ l = log'
      OBVIOUS
    <3>2. ProposalsAt(p, b, s, l) /\ p = "idle" /\ s = 0
      BY <2>1, <3>1 DEF ProposalsInv
    <3>3. Unsettled(l) = {}
      BY <3>2 DEF ProposalsAt, Awaited, AtProposal
    <3> QED BY <3>1, <3>3
  <2> QED BY <2>1, <2>2 DEF SwitchMove, ProjectStays
<1>5. CASE SwitchByHand
  <2>1. /\ \E to : log' = Append(log, ProjectSwitched(to)) /\ project' = to
        /\ pc = "by_hand"
    BY <1>5 DEF SwitchByHand, Move, Write
  <2>2. Unsettled(log) = {}
    <3>1. PICK p, b, s, l : p = pc /\ b = batch /\ s = idleSwitch /\ l = log
      OBVIOUS
    <3>2. ProposalsAt(p, b, s, l) /\ NoneAt(p, b)
      BY <2>1, <3>1 DEF ProposalsInv, NoneAt, AtProposal, IdlePlaces
    <3>3. Unsettled(l) = {}
      BY <3>2, NoneSettled
    <3> QED BY <3>1, <3>3
  <2> QED BY <2>1, <2>2 DEF SwitchMove
<1>6. CASE SwitchByHandFails
  BY <1>6 DEF SwitchByHandFails, Move, SwitchMove, ProjectStays, Moving
<1>7. CASE RecordStartupAsk
  <2>1. /\ \E a \in {"yes", "corrected"} : log' = Append(log, DecisionAnswered(Len(log), a))
        /\ project' = project /\ pc \notin Moving
    BY <1>7 DEF RecordStartupAsk, Moving
  <2> QED BY <2>1 DEF SwitchMove, ProjectStays
<1>8. CASE WithdrawOpen
  <2>1. /\ \E i : log' = Append(log, DecisionAnswered(i, "withdrawn"))
        /\ project' = project /\ pc = "resume"
    BY <1>8 DEF WithdrawOpen, Repair, Write
  <2> QED BY <2>1 DEF SwitchMove, ProjectStays, Moving, Booting
<1>9. CASE RestoreTurnEnded \/ AnswerUnanswered \/ NoteCrash \/ NothingOpen \/ AlreadyNoted \/ Boot
  <2>1. /\ \/ log' = log
           \/ \E r : log' = Append(log, TurnEnded(r))
           \/ \E id, o : log' = Append(log, ToolResult(id, o))
           \/ \E b : log' = Append(log, Interrupted(b))
        /\ project' = project /\ pc \notin Moving
    BY <1>9 DEF RestoreTurnEnded, AnswerUnanswered, NoteCrash, Repair, NothingOpen, AlreadyNoted,
       Resumed, Boot, Write, Moving
  <2> QED BY <1>1, <2>1, SwitchFreeEvents
<1>10. CASE PostIdle
  <2>1. /\ log' = log \/ (idleSwitch /= 0 /\ log' = Append(log, DecisionAnswered(idleSwitch, "withdrawn")))
        /\ project' = project /\ pc = "idle"
    BY <1>10 DEF PostIdle, Withdrawn
  <2> QED BY <1>1, <2>1, IdleUnsettled DEF SwitchMove, ProjectStays, Moving
<1>11. CASE WithdrawByHand
  <2>1. /\ log' = log \/ (idleSwitch /= 0 /\ log' = Append(log, DecisionAnswered(idleSwitch, "withdrawn")))
        /\ project' = project /\ pc = "idle"
    BY <1>11 DEF WithdrawByHand, Withdrawn
  <2> QED BY <1>1, <2>1, IdleUnsettled DEF SwitchMove, ProjectStays, Moving
<1>12. CASE FailIdle
  <2>1. /\ idleSwitch /= 0 /\ log' = Append(log, DecisionAnswered(idleSwitch, "withdrawn"))
        /\ "knowledge" \in Faults /\ pc = "idle"
    BY <1>12 DEF FailIdle, AnswerIdle, Withdrawn
  <2> QED BY <2>1, IdleUnsettled DEF SwitchMove, ProjectStays, Moving
<1>13. CASE DeclineIdle
  <2>1. /\ log' = Append(log, DecisionAnswered(idleSwitch, "no"))
        /\ project' = project /\ pc = "idle"
    BY <1>13 DEF DeclineIdle, AnswerIdle
  <2> QED BY <2>1 DEF SwitchMove, ProjectStays, Moving
<1>14. CASE AgreeIdle
  <2>1. log' = Append(log, ProjectSwitched(Away)) /\ project' = Away /\ pc' \in Moving
    BY <1>14 DEF AgreeIdle, AnswerIdle, Moving
  <2> QED BY <2>1 DEF SwitchMove
<1>15. CASE ProposeIdle \/ StartupAsk
  <2>1. /\ \E b, c : log' = Append(log, DecisionProposed(b, c))
        /\ project' = project /\ pc \notin Moving
    BY <1>15 DEF ProposeIdle, StartupAsk, Write, Moving
  <2> QED BY <1>1, <2>1, SwitchFreeEvents
<1>16. CASE PostRunning \/ Interrupt \/ Decide \/ JobReturns
  <2>1. /\ log' = log \/ \E j : log' = Append(log, JobFinished(j))
        /\ project' = project /\ pc \notin Moving
    BY <1>16 DEF PostRunning, Interrupt, Decide, JobReturns, Running, AwaitPoints, Write, Moving
  <2> QED BY <1>1, <2>1, SwitchFreeEvents
<1> QED
  BY <1>2, <1>3, <1>4, <1>5, <1>6, <1>7, <1>8, <1>9, <1>10, <1>11, <1>12, <1>13, <1>14, <1>15,
     <1>16 DEF Next, ActorStep, Mail

(* The project the runtime works in is at every place the one the log      *)
(* names: also between the switch and its yes.                             *)
ProjectInv == "knowledge" \notin Faults => project = LoggedProject(log, Home)

LEMMA ProjectMoved ==
  ASSUME TypeInv, TypeInv', ProjectInv, SwitchMove
  PROVE  ProjectInv'
<1> SUFFICES ASSUME "knowledge" \notin Faults PROVE project' = LoggedProject(log, Home)'
  BY DEF ProjectInv
<1>1. PICK l, ll : l = log /\ ll = log'
  OBVIOUS
<1>2. project = LoggedProject(l, Home)
  BY <1>1 DEF ProjectInv
<1>3. ASSUME NEW e, log' = Append(log, e) PROVE Grows(l, ll, e)
  BY <1>1, <1>3, AppendGrows
<1>4. CASE log' = log /\ project' = project
  BY <1>1, <1>2, <1>4
<1>5. ASSUME NEW e, log' = Append(log, e), e.kind /= "project_switched", project' = project
      PROVE  project' = LoggedProject(ll, Home)
  <2>1. Grows(l, ll, e)
    BY <1>3, <1>5
  <2> QED BY <1>2, <1>5, <2>1, SwitchedLast
<1>6. ASSUME NEW to, log' = Append(log, ProjectSwitched(to)), project' = to
      PROVE  project' = LoggedProject(ll, Home)
  <2>1. PICK e : e = ProjectSwitched(to)
    OBVIOUS
  <2>2. e.kind = "project_switched" /\ e.to = to /\ Grows(l, ll, e)
    BY <1>3, <1>6, <2>1 DEF ProjectSwitched
  <2> QED BY <1>6, <2>2, SwitchedLast
<1>7. \A i, a : DecisionAnswered(i, a).kind /= "project_switched"
  BY DEF DecisionAnswered
<1>8. project' = LoggedProject(ll, Home)
  BY <1>1, <1>2, <1>4, <1>5, <1>6, <1>7 DEF SwitchMove, ProjectStays, SwitchFree
<1> QED BY <1>1, <1>8

(* As long as nothing was repaired, a withdrawn proposal moved nothing.    *)
WithdrawnAt(p, l) == NeverMoved(l) /\ (p \notin Moving => NotYetMoved(l))
WithdrawnInv == count.crashes = 0 => WithdrawnAt(pc, log)

LEMMA WithdrawnMoved ==
  ASSUME TypeInv, TypeInv', WithdrawnAt(pc, log), pc \notin Booting, SwitchMove
  PROVE  WithdrawnAt(pc', log')
<1>1. PICK l, ll, p, pp : l = log /\ ll = log' /\ p = pc /\ pp = pc'
  OBVIOUS
<1>2. NeverMoved(l) /\ (p \notin Moving => NotYetMoved(l))
  BY <1>1 DEF WithdrawnAt
<1>3. ASSUME NEW e, log' = Append(log, e) PROVE Grows(l, ll, e)
  BY <1>1, <1>3, AppendGrows
<1>4. CASE log' = log /\ (pc \notin Moving \/ pc' = pc)
  BY <1>1, <1>2, <1>4 DEF WithdrawnAt
<1>5. ASSUME NEW e, log' = Append(log, e), SwitchFree(e), pc \notin Moving
      PROVE  WithdrawnAt(pp, ll)
  <2>1. Grows(l, ll, e) /\ e.kind /= "decision_answered" /\ e.kind /= "project_switched"
    BY <1>3, <1>5 DEF SwitchFree
  <2> QED BY <1>1, <1>2, <1>5, <2>1, NeverMovedGrows, NotYetMovedGrows DEF WithdrawnAt
<1>6. ASSUME NEW i, NEW a, log' = Append(log, DecisionAnswered(i, a)),
             a = "withdrawn" => pc \notin Moving /\ i \in Unsettled(log),
             pc \in Moving => Unsettled(log') = {}
      PROVE  WithdrawnAt(pp, ll)
  <2>1. PICK e : e = DecisionAnswered(i, a)
    OBVIOUS
  <2>2. /\ e.kind = "decision_answered" /\ e.proposal = i /\ e.answer = a
        /\ Grows(l, ll, e)
    BY <1>3, <1>6, <2>1 DEF DecisionAnswered
  <2>3. NeverMoved(ll)
    BY <1>1, <1>2, <1>6, <2>2, NeverMovedGrows
  <2>4. NotYetMoved(ll)
    <3>1. CASE p \in Moving
      BY <1>1, <1>6, <3>1 DEF NotYetMoved
    <3>2. CASE p \notin Moving
      BY <1>2, <2>2, <3>2, NotYetMovedGrows
    <3> QED BY <3>1, <3>2
  <2> QED BY <2>3, <2>4 DEF WithdrawnAt
<1>7. ASSUME NEW to, log' = Append(log, ProjectSwitched(to)), pc' \in Moving \/ Unsettled(log) = {}
      PROVE  WithdrawnAt(pp, ll)
  <2>1. PICK e : e = ProjectSwitched(to)
    OBVIOUS
  <2>2. e.kind = "project_switched" /\ Grows(l, ll, e)
    BY <1>3, <1>7, <2>1 DEF ProjectSwitched
  <2>3. NeverMoved(ll)
    BY <1>2, <2>2, NeverMovedGrows
  <2>4. pp \notin Moving => NotYetMoved(ll)
    BY <1>1, <1>7, <2>2, NoneWaits
  <2> QED BY <2>3, <2>4 DEF WithdrawnAt
<1>8. WithdrawnAt(pp, ll)
  BY <1>1, <1>4, <1>5, <1>6, <1>7 DEF SwitchMove
<1> QED BY <1>1, <1>8

-----------------------------------------------------------------------------
(* What a resting thread leaves behind.                                    *)

(* Every turn that ended on an answer has another behind it.               *)
Continued(l) ==
  \A i \in Events(l, "turn_ended") :
    l[i].reason = "asked_human" =>
      \E j \in DOMAIN l : j > i /\ (IsTurnEvent(l[j]) \/ l[j].kind = "turn_ended")

LEMMA ContinuedGrows ==
  ASSUME NEW l, NEW ll, NEW e, Grows(l, ll, e), Continued(l), e.kind /= "turn_ended"
  PROVE  Continued(ll)
<1>1. /\ ll \in Seq(Event) /\ Len(l) \in Nat /\ Len(ll) = Len(l) + 1
      /\ \A i \in 1 .. Len(l) : ll[i] = l[i]
      /\ Events(l, "turn_ended") \subseteq 1 .. Len(l)
      /\ Events(ll, "turn_ended") = Events(l, "turn_ended")
  <2>1. /\ ll \in Seq(Event) /\ Len(l) \in Nat /\ Len(ll) = Len(l) + 1
        /\ \A i \in 1 .. Len(l) : ll[i] = l[i]
        /\ \A k : Events(l, k) \subseteq 1 .. Len(l)
        /\ \A k : Events(ll, k) = Events(l, k) \union (IF e.kind = k THEN {Len(l) + 1} ELSE {})
    BY Grown
  <2> QED BY <2>1
<1>2. DOMAIN l = 1 .. Len(l) /\ DOMAIN ll = 1 .. Len(l) + 1
  BY <1>1 DEF Grows
<1> SUFFICES ASSUME NEW i \in Events(l, "turn_ended"), ll[i].reason = "asked_human"
             PROVE  \E j \in DOMAIN ll : j > i /\ (IsTurnEvent(ll[j]) \/ ll[j].kind = "turn_ended")
  BY <1>1 DEF Continued
<1>3. l[i].reason = "asked_human"
  BY <1>1
<1>4. PICK j \in DOMAIN l : j > i /\ (IsTurnEvent(l[j]) \/ l[j].kind = "turn_ended")
  BY <1>3 DEF Continued
<1>5. j \in DOMAIN ll /\ ll[j] = l[j]
  BY <1>1, <1>2
<1> QED BY <1>4, <1>5

LEMMA ContinuedEnds ==
  ASSUME NEW l, NEW ll, NEW e, Grows(l, ll, e), e.kind = "turn_ended", e.reason /= "asked_human"
  PROVE  Continued(ll)
<1>1. /\ ll \in Seq(Event) /\ Len(l) \in Nat /\ Len(ll) = Len(l) + 1 /\ ll[Len(l) + 1] = e
      /\ Events(l, "turn_ended") \subseteq 1 .. Len(l)
      /\ Events(ll, "turn_ended") = Events(l, "turn_ended") \union {Len(l) + 1}
  BY Grown
<1>2. DOMAIN ll = 1 .. Len(l) + 1
  BY <1>1
<1> SUFFICES ASSUME NEW i \in Events(ll, "turn_ended"), ll[i].reason = "asked_human"
             PROVE  \E j \in DOMAIN ll : j > i /\ (IsTurnEvent(ll[j]) \/ ll[j].kind = "turn_ended")
  BY DEF Continued
<1>3. i \in 1 .. Len(l)
  BY <1>1
<1>4. /\ Len(l) + 1 \in DOMAIN ll /\ Len(l) + 1 > i
      /\ ll[Len(l) + 1].kind = "turn_ended"
  BY <1>1, <1>2, <1>3
<1> QED BY <1>4

(* At a place p, with a state st shown, a start-up proposal s and an end r.*)
RestAt(p, l, st, s, r) ==
  /\ p \notin Places \union {"after"} => Continued(l)
  /\ p = "after" => Continued(l) \/ r = "asked_human"
  /\ p \in {"side", "by_hand"} => st = "Idle"
  /\ p = "idle" => st = "Idle" \/ (st = "AwaitingSwitch" /\ s /= 0)

(* How a step moves between turns.                                         *)
Quiet(l, ll) == ll = l \/ \E e : Grows(l, ll, e) /\ e.kind /= "turn_ended"

Ends(l, ll, r, r2) == \E e : Grows(l, ll, e) /\ e = TurnEnded(r) /\ r2 = r

RestMove ==
  \/ pc' \in Places
  \/ UNCHANGED <<pc, log, shared, idleSwitch, reason>>
  \/ pc' = "after" /\ Ends(log, log', reason, reason')
  \/ pc = "after" /\ pc' = "after" /\ Quiet(log, log') /\ reason' = reason
  \/ pc = "after" /\ pc' = "side" /\ log' = log /\ reason /= "asked_human" /\ shared'.state = "Idle"
  \/ pc = "side" /\ pc' = "idle" /\ log' = log /\ shared'.state = shared.state
  \/ /\ pc \notin Places \union {"after"} /\ pc' \notin {"after", "side", "by_hand", "idle"}
     /\ Quiet(log, log')
  \/ /\ pc \notin Places \union {"after"} /\ pc' \in {"by_hand", "idle"}
     /\ Quiet(log, log') /\ shared'.state = "Idle"
  \/ /\ pc = "idle" /\ pc' = "by_hand" /\ log' = log /\ shared' = shared /\ idleSwitch = 0
  \/ /\ pc = "by_hand" /\ pc' = "idle" /\ Quiet(log, log') /\ shared'.state = shared.state
  \/ /\ pc = "idle" /\ pc' = "idle" /\ Quiet(log, log') /\ shared'.state = shared.state
     /\ idleSwitch' = idleSwitch
  \/ /\ pc = "idle" /\ pc' = "idle" /\ Quiet(log, log') /\ shared'.state = "AwaitingSwitch"
     /\ idleSwitch' /= 0

LEMMA RestMoved ==
  ASSUME RestAt(pc, log, shared.state, idleSwitch, reason), RestMove
  PROVE  RestAt(pc', log', shared'.state, idleSwitch', reason')
<1>1. PICK p, pp, l, ll, st, st2, s, s2, r, r2 :
        /\ p = pc /\ pp = pc' /\ l = log /\ ll = log' /\ st = shared.state /\ st2 = shared'.state
        /\ s = idleSwitch /\ s2 = idleSwitch' /\ r = reason /\ r2 = reason'
  OBVIOUS
<1>2. RestAt(p, l, st, s, r)
  BY <1>1
<1> SUFFICES RestAt(pp, ll, st2, s2, r2)
  BY <1>1
<1>3. ASSUME Quiet(l, ll), Continued(l) PROVE Continued(ll)
  BY <1>3, ContinuedGrows DEF Quiet
<1>4. CASE pp \in Places
  BY <1>4 DEF RestAt, Places
<1>5. CASE pp = "after" /\ Ends(l, ll, r, r2)
  <2>1. PICK e : Grows(l, ll, e) /\ e = TurnEnded(r) /\ r2 = r
    BY <1>5 DEF Ends
  <2>2. e.kind = "turn_ended" /\ e.reason = r
    BY <2>1 DEF TurnEnded
  <2>3. ASSUME r /= "asked_human" PROVE Continued(ll)
    BY <2>1, <2>2, <2>3, ContinuedEnds
  <2> QED BY <1>5, <2>1, <2>3 DEF RestAt
<1>6. CASE pp \notin Places /\ ~(pp = "after" /\ Ends(l, ll, r, r2))
  <2>1. \/ pp = p /\ ll = l /\ st2 = st /\ s2 = s /\ r2 = r
        \/ p = "after" /\ pp = "after" /\ Quiet(l, ll) /\ r2 = r
        \/ p = "after" /\ pp = "side" /\ ll = l /\ r /= "asked_human" /\ st2 = "Idle"
        \/ p = "side" /\ pp = "idle" /\ ll = l /\ st2 = st
        \/ /\ p \notin Places \union {"after"} /\ pp \notin {"after", "side", "by_hand", "idle"}
           /\ Quiet(l, ll)
        \/ /\ p \notin Places \union {"after"} /\ pp \in {"by_hand", "idle"}
           /\ Quiet(l, ll) /\ st2 = "Idle"
        \/ p = "idle" /\ pp = "by_hand" /\ ll = l /\ st2 = st /\ s = 0
        \/ p = "by_hand" /\ pp = "idle" /\ Quiet(l, ll) /\ st2 = st
        \/ p = "idle" /\ pp = "idle" /\ Quiet(l, ll) /\ st2 = st /\ s2 = s
        \/ p = "idle" /\ pp = "idle" /\ Quiet(l, ll) /\ st2 = "AwaitingSwitch" /\ s2 /= 0
    BY <1>1, <1>6 DEF RestMove
  <2> QED BY <1>2, <1>3, <2>1 DEF RestAt, Places
<1> QED BY <1>4, <1>5, <1>6

LEMMA QuietAppends ==
  ASSUME TypeInv, TypeInv'
  PROVE  /\ log' = log => Quiet(log, log')
         /\ \A e : log' = Append(log, e) /\ e.kind /= "turn_ended" => Quiet(log, log')
BY AppendGrows DEF Quiet

LEMMA RestTurn ==
  ASSUME TypeInv, TypeInv', TurnStep
  PROVE  RestMove
<1> USE DEF loopVars
<1>1. CASE Loop
  <2>1. pc' \in Places
    BY <1>1 DEF Loop, DrainAt, InterruptedAtTop, BudgetSpent, FlushHeld, Compact,
       CompactionFails, Request, AtTop, Places
  <2> QED BY <2>1 DEF RestMove
<1>2. CASE Stream
  <2>1. pc' \in Places
    <3>1. CASE StreamReplies
      <4>1. PICK calls, short :
              pc' = IF calls = <<>> THEN "end" ELSE IF short THEN "length" ELSE "calls"
        BY <3>1 DEF StreamReplies
      <4>2. pc' \in {"end", "length", "calls"}
        BY <4>1
      <4> QED BY <4>2 DEF Places
    <3>2. CASE StreamHolds \/ StreamInterrupted \/ StreamRetried \/ StreamFails
      BY <3>2 DEF StreamHolds, StreamInterrupted, StreamRetried, StreamFails, StreamOver, Places
    <3> QED BY <1>2, <3>1, <3>2 DEF Stream
  <2> QED BY <2>1 DEF RestMove
<1>3. CASE Calls
  <2>1. pc' \in Places
    <3>1. CASE LengthStop \/ Siblings \/ ToolDone \/ ToolKilled
      BY <3>1 DEF LengthStop, Siblings, NotRun, ToolDone, ToolKilled, Result, Places
    <3>2. CASE RunPlain \/ AskPermission \/ AskHuman \/ Propose \/ RequestGranted \/ Granted
      BY <3>2 DEF RunPlain, AskPermission, AskHuman, Propose, Register, RequestGranted, Granted,
         Places
    <3> QED BY <1>3, <3>1, <3>2 DEF Calls
  <2> QED BY <2>1 DEF RestMove
<1>4. CASE Wait
  <2>1. pc' \in Places
    BY <1>4 DEF Wait, PermissionInterrupted, HumanInterrupted, ProposalInterrupted,
       PermissionAllowed, PermissionDenied, HumanAnswered, Declined, SwitchAgreed, SwitchRecorded,
       SwitchFails, JobApproved, Said, Refused, Settle, Result, Places
  <2> QED BY <2>1 DEF RestMove
<1>5. CASE Synthetic \/ BatchOver \/ FlushLast \/ NoteInterrupt
  BY <1>5 DEF Synthetic, NotRun, BatchOver, AfterCalls, FlushLast, NoteInterrupt, Places, RestMove
<1>6. CASE EndTurn
  <2>1. log' = Append(log, TurnEnded(reason)) /\ pc' = "after" /\ reason' = reason
    BY <1>6 DEF EndTurn, Write
  <2>2. Grows(log, log', TurnEnded(reason))
    BY <2>1, AppendGrows
  <2>3. Ends(log, log', reason, reason')
    BY <2>1, <2>2 DEF Ends
  <2> QED BY <2>1, <2>3 DEF RestMove
<1> QED BY <1>1, <1>2, <1>3, <1>4, <1>5, <1>6 DEF TurnStep, Ending

LEMMA RestActor ==
  ASSUME TypeInv, TypeInv', Next, ~Crash, pc \notin Booting,
         RestAt(pc, log, shared.state, idleSwitch, reason)
  PROVE  RestMove
<1> USE DEF loopVars, actorVars, mailVars, batchVars
<1>1. CASE RunTurn
  BY <1>1, RestTurn DEF RunTurn
<1>2. CASE StartTurn \/ Continue
  <2>1. pc' \in Places
    BY <1>2 DEF StartTurn, Continue, Begin, Places
  <2> QED BY <2>1 DEF RestMove
<1>3. CASE WriteNote
  <2>1. /\ log' = log \/ \E j : log' = Append(log, JobFinished(j))
        /\ pc = "after" /\ pc' = "after" /\ reason' = reason
    BY <1>3 DEF WriteNote, Write
  <2>2. Quiet(log, log')
    BY <2>1, QuietAppends DEF JobFinished
  <2> QED BY <2>1, <2>2 DEF RestMove
<1>4. CASE GoIdle
  <2>1. /\ pc = "after" /\ pc' = "side" /\ log' = log /\ reason /= "asked_human"
        /\ shared' = [shared EXCEPT !.state = "Idle"]
    BY <1>4 DEF GoIdle, MustContinue
  <2>2. shared'.state = "Idle"
    BY <2>1 DEF TypeInv, TypeOK, Shared
  <2> QED BY <2>1, <2>2 DEF RestMove
<1>5. CASE SideJobs
  <2>1. /\ pc = "side" /\ pc' = "idle" /\ log' = log /\ shared' = [shared EXCEPT !.held = FALSE]
    BY <1>5 DEF SideJobs
  <2>2. shared'.state = shared.state
    BY <2>1 DEF TypeInv, TypeOK, Shared
  <2> QED BY <2>1, <2>2 DEF RestMove
<1>6. Idled(shared).state = "Idle"
  BY TypeIdled DEF TypeInv
<1>7. \A i, a : DecisionAnswered(i, a).kind /= "turn_ended"
  BY DEF DecisionAnswered
<1>8. CASE RecordIdle \/ RecordStartupAsk \/ DeclineIdle \/ FailIdle
  <2>1. /\ \E i, a : log' = Append(log, DecisionAnswered(i, a))
        /\ shared' = Idled(shared) /\ pc' = "idle"
        /\ pc \in {"idle", "idle_switched", "startup_ask"}
    BY <1>8 DEF RecordIdle, RecordStartupAsk, DeclineIdle, FailIdle, AnswerIdle, Withdrawn
  <2>2. Quiet(log, log')
    BY <1>7, <2>1, QuietAppends
  <2>3. pc \notin Places \union {"after"}
    BY <2>1 DEF Places
  <2> QED BY <1>6, <2>1, <2>2, <2>3 DEF RestMove
<1>9. CASE SwitchByHand \/ SwitchByHandFails
  <2>1. /\ \/ log' = log /\ shared' = shared
           \/ \E to : log' = Append(log, ProjectSwitched(to))
                      /\ shared' = Observed(shared, ProjectSwitched(to))
        /\ pc = "by_hand" /\ pc' = "idle"
    BY <1>9 DEF SwitchByHand, SwitchByHandFails, Move, Write
  <2>2. \A to : /\ ProjectSwitched(to).kind /= "turn_ended"
                /\ Observed(shared, ProjectSwitched(to)) = shared
    BY ObservedNothing DEF ProjectSwitched, EndsAWait
  <2>3. Quiet(log, log') /\ shared' = shared
    BY <2>1, <2>2, QuietAppends
  <2> QED BY <2>1, <2>3 DEF RestMove
<1>10. CASE PostIdle \/ AgreeIdle \/ StartupAsk
  <2>1. /\ \/ log' = log \/ \E i, a : log' = Append(log, DecisionAnswered(i, a))
           \/ \E to : log' = Append(log, ProjectSwitched(to))
           \/ \E b, c : log' = Append(log, DecisionProposed(b, c))
        /\ pc = "idle" /\ pc' \in {"start", "idle_switched", "startup_ask"}
    BY <1>10 DEF PostIdle, Begin, AgreeIdle, AnswerIdle, StartupAsk, Withdrawn, Write
  <2>2. Quiet(log, log')
    BY <1>7, <2>1, QuietAppends DEF ProjectSwitched, DecisionProposed
  <2>3. pc \notin Places \union {"after"} /\ pc' \notin {"after", "side", "by_hand", "idle"}
    BY <2>1 DEF Places
  <2> QED BY <2>2, <2>3 DEF RestMove
<1>11. CASE WithdrawByHand
  <2>1. /\ pc = "idle" /\ pc' = "by_hand"
        /\ \/ idleSwitch = 0 /\ log' = log /\ shared' = shared
           \/ /\ \E i, a : log' = Append(log, DecisionAnswered(i, a))
              /\ shared' = Idled(shared)
    BY <1>11 DEF WithdrawByHand, Withdrawn
  <2>2. CASE idleSwitch = 0 /\ log' = log /\ shared' = shared
    BY <2>1, <2>2 DEF RestMove
  <2>3. CASE (\E i, a : log' = Append(log, DecisionAnswered(i, a))) /\ shared' = Idled(shared)
    <3>1. Quiet(log, log')
      BY <1>7, <2>3, QuietAppends
    <3>2. pc \notin Places \union {"after"}
      BY <2>1 DEF Places
    <3> QED BY <1>6, <2>1, <2>3, <3>1, <3>2 DEF RestMove
  <2> QED BY <2>1, <2>2, <2>3
<1>12. CASE ProposeIdle
  <2>1. /\ log' = Append(log, DecisionProposed("startup", 0)) /\ idleSwitch' = Len(log) + 1
        /\ shared' = [shared EXCEPT !.state = "AwaitingSwitch"] /\ pc = "idle" /\ pc' = "idle"
    BY <1>12 DEF ProposeIdle
  <2>2. shared'.state = "AwaitingSwitch"
    BY <2>1 DEF TypeInv, TypeOK, Shared
  <2>3. idleSwitch' /= 0
    <3>1. Len(log) \in Nat
      BY DEF TypeInv, TypeOK
    <3> QED BY <2>1, <3>1
  <2>4. Quiet(log, log')
    BY <2>1, QuietAppends DEF DecisionProposed
  <2> QED BY <2>1, <2>2, <2>3, <2>4 DEF RestMove
<1>13. CASE PostRunning \/ Interrupt \/ Decide
  <2>1. pc' \in Places
    BY <1>13 DEF PostRunning, Interrupt, Decide, Running, AwaitPoints, Places
  <2> QED BY <2>1 DEF RestMove
<1>14. CASE JobReturns
  <2>1. CASE Running
    <3>1. pc' \in Places
      BY <1>14, <2>1 DEF JobReturns, Running, AwaitPoints, Places
    <3> QED BY <3>1 DEF RestMove
  <2>2. CASE ~Running
    <3>1. /\ pc = "idle" /\ pc' = "idle" /\ idleSwitch' = idleSwitch
          /\ \/ log' = log /\ shared' = shared
             \/ \E j : log' = Append(log, JobFinished(j)) /\ shared' = Observed(shared, JobFinished(j))
      BY <1>14, <2>2 DEF JobReturns, Write
    <3>2. \A j : /\ JobFinished(j).kind /= "turn_ended"
                 /\ Observed(shared, JobFinished(j)) = shared
      BY ObservedNothing DEF JobFinished, EndsAWait
    <3>3. Quiet(log, log') /\ shared' = shared
      BY <3>1, <3>2, QuietAppends
    <3> QED BY <3>1, <3>3 DEF RestMove
  <2> QED BY <2>1, <2>2
<1>15. CASE \/ WithdrawOpen \/ RestoreTurnEnded \/ AnswerUnanswered \/ NoteCrash
            \/ NothingOpen \/ AlreadyNoted \/ Boot
  BY <1>15 DEF WithdrawOpen, RestoreTurnEnded, AnswerUnanswered, NoteCrash, Repair, NothingOpen,
     AlreadyNoted, Resumed, Boot, Booting
<1> QED
  BY <1>1, <1>2, <1>3, <1>4, <1>5, <1>8, <1>9, <1>10, <1>11, <1>12, <1>13, <1>14, <1>15
  DEF Next, ActorStep, Mail

-----------------------------------------------------------------------------
(* As long as the process has not died.                                    *)
RestInv == count.crashes = 0 => RestAt(pc, log, shared.state, idleSwitch, reason)

MovesInv == MessageInv /\ ProposalsInv /\ ProjectInv /\ WithdrawnInv /\ RestInv

LEMMA MovesNext == MovesInv /\ [Next]_vars => MovesInv'
<1> SUFFICES ASSUME MovesInv, [Next]_vars PROVE MovesInv'
  OBVIOUS
<1>1. MessageInv' /\ TypeInv /\ TypeInv'
  <2>1. MessageInv'
    BY MessageNext DEF MovesInv
  <2> QED BY <2>1 DEF MovesInv, MessageInv
<1>2. ProposalsInv'
  BY <1>1, ProposalsStep DEF MovesInv
<1>3. CASE UNCHANGED vars
  <2>1. UNCHANGED <<log, pc, shared, idleSwitch, reason, project, count>>
    BY <1>3 DEF vars, turnVars, loopVars, threadVars, actorVars, bookVars
  <2> QED BY <1>1, <1>2, <2>1 DEF MovesInv, ProjectInv, WithdrawnInv, RestInv
<1>4. CASE Next
  <2>1. CountTyped /\ (count'.crashes = 0 => count.crashes = 0) /\ (Crash => count'.crashes /= 0)
    BY CountStep DEF MovesInv, MessageInv
  <2>2. ProjectInv'
    <3>1. CASE Crash
      BY <3>1 DEF Crash, ProjectInv
    <3>2. CASE ~Crash
      BY <1>1, <1>2, <1>4, <3>2, SwitchActor, ProjectMoved DEF MovesInv
    <3> QED BY <3>1, <3>2
  <2>3. ASSUME count'.crashes = 0
        PROVE  /\ WithdrawnAt(pc', log')
               /\ RestAt(pc', log', shared'.state, idleSwitch', reason')
    <3>1. ~Crash /\ count.crashes = 0
      BY <2>1, <2>3
    <3>2. pc \notin Booting
      BY <3>1 DEF MovesInv, MessageInv, QueueInv, QueueAt
    <3>3. WithdrawnAt(pc, log) /\ RestAt(pc, log, shared.state, idleSwitch, reason)
      BY <3>1 DEF MovesInv, WithdrawnInv, RestInv
    <3>4. SwitchMove /\ RestMove
      BY <1>1, <1>2, <1>4, <3>1, <3>2, <3>3, SwitchActor, RestActor DEF MovesInv
    <3> QED BY <1>1, <3>2, <3>3, <3>4, WithdrawnMoved, RestMoved
  <2>4. WithdrawnInv' /\ RestInv'
    BY <2>3 DEF WithdrawnInv, RestInv
  <2> QED BY <1>1, <1>2, <2>2, <2>4 DEF MovesInv
<1> QED BY <1>3, <1>4

LEMMA MovesInit == Init => MovesInv
<1> SUFFICES ASSUME Init PROVE MovesInv
  OBVIOUS
<1>1. MessageInv /\ ProposalsInv
  BY MessageInit, ProposalsInit
<1>2. /\ pc = "idle" /\ log = <<>> /\ project = Home /\ shared.state = "Idle"
  BY DEF Init, Fresh
<1>3. \A k : Events(log, k) = {}
  BY <1>2 DEF Events
<1>4. ProjectInv
  <2>1. LastSwitch(log) = 0
    BY <1>2 DEF LastSwitch, SelectLastInSeq
  <2> QED BY <1>2, <2>1 DEF ProjectInv, LoggedProject
<1>5. WithdrawnInv
  BY <1>3 DEF WithdrawnInv, WithdrawnAt, NeverMoved, NotYetMoved, SwitchPlaces, Answered
<1>6. RestInv
  BY <1>2, <1>3 DEF RestInv, RestAt, Continued
<1> QED BY <1>1, <1>4, <1>5, <1>6 DEF MovesInv

LEMMA MovesAlways == Spec => []MovesInv
BY MovesInit, MovesNext, PTL DEF Spec

(* Unless a read of the knowledge fails, the runtime is in the project the *)
(* log names, through every move, crash and restart.                       *)
THEOREM ProjectAlways ==
  ASSUME "knowledge" \notin Faults
  PROVE  Spec => []ProjectAsLogged
<1>1. MovesInv => ProjectAsLogged
  BY DEF MovesInv, ProjectInv, ProjectAsLogged
<1> QED BY <1>1, MovesAlways, PTL

(* As long as the process has not died, a proposal recorded as withdrawn   *)
(* moved nothing.                                                          *)
THEOREM WithdrawnAlways == Spec => [](count.crashes = 0 => WithdrawnNeverMoved)
<1>1. MovesInv => (count.crashes = 0 => WithdrawnNeverMoved)
  BY DEF MovesInv, WithdrawnInv, WithdrawnAt, NeverMoved, Answered, SwitchPlaces,
     WithdrawnNeverMoved
<1> QED BY <1>1, MovesAlways, PTL

(* Until a read of the knowledge fails or the process dies, the project is *)
(* the one the log names and a withdrawn switch was never made.            *)
THEOREM SwitchesAlways ==
  ASSUME "knowledge" \notin Faults
  PROVE  Spec => [](count.crashes = 0 => SwitchAsLogged)
<1>1. ProjectAsLogged /\ (count.crashes = 0 => WithdrawnNeverMoved)
        => (count.crashes = 0 => SwitchAsLogged)
  BY DEF SwitchAsLogged
<1> QED BY <1>1, ProjectAlways, WithdrawnAlways, PTL

(* As long as the process has not died, a thread at rest shows neither a   *)
(* running turn nor a question nobody asks, and every turn that ended on an*)
(* answer has another behind it.                                           *)
THEOREM RestAlways == Spec => [](count.crashes = 0 => AtRest)
<1>1. MovesInv => (count.crashes = 0 => AtRest)
  <2> SUFFICES ASSUME MovesInv, count.crashes = 0, pc = "idle"
               PROVE  AtRest
    BY DEF AtRest, AnswerContinues, NothingRunsIdle
  <2>1. RestAt(pc, log, shared.state, idleSwitch, reason)
    BY DEF MovesInv, RestInv
  <2>2. Continued(log)
    BY <2>1 DEF RestAt, Places
  <2>3. shared.state = "Idle" \/ (shared.state = "AwaitingSwitch" /\ idleSwitch /= 0)
    BY <2>1 DEF RestAt
  <2>4. AnswerContinues
    BY <2>2 DEF AnswerContinues, Continued
  <2>5. NothingRunsIdle
    BY <2>3 DEF NothingRunsIdle, Asked
  <2> QED BY <2>4, <2>5 DEF AtRest
<1> QED BY <1>1, MovesAlways, PTL

=============================================================================
