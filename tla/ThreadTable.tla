----------------------------- MODULE ThreadTable -----------------------------
(***************************************************************************)
(* One thread in the daemon's table of open threads                        *)
(* (server/src/threads.rs): sessions that open and close it, the actor     *)
(* built for it, and the sweeper that unloads it.  Sessions, actors and    *)
(* the sweeper are tasks of a multi-threaded runtime, and the table's      *)
(* mutex covers a lookup or an insertion, never an await.  What an actor   *)
(* does with its thread is ThreadActor; here it is idle or in a turn.      *)
(***************************************************************************)
EXTENDS Naturals, FiniteSets

CONSTANTS
  Sessions,    \* clients' sessions, and the tasks that open threads for jobs
  MaxActors,   \* actors built in the whole run, at most
  MaxTurns     \* turns sessions start, at most

ASSUME TableConstants ==
  IsFiniteSet(Sessions) /\ MaxActors \in Nat /\ MaxTurns \in Nat

VARIABLES
  entry,      \* the actor whose mailbox the table holds, or 0
  open,       \* Entry::open, the sessions counted on it
  place,      \* where each session is: "out", "building", "inserting", "in",
              \* or "borrowed" with a mailbox for one request
  mailbox,    \* the actor a session holds the mailbox of, or 0
  built,      \* actors built so far; an actor is its number
  state,      \* each actor: "unborn", "pending" (a turn to resume), "idle",
              \* "turn", "asking" (a turn that waits for a person), "gone"
  logOpen,    \* whether the thread's log ends in the middle of a turn
  turns,      \* bookkeeping: turns sessions started
  sweeper,    \* where the sweeper is: "asleep", "asked", "told"
  candidate   \* the actor the sweeper asked, or 0

vars == <<entry, open, place, mailbox, built, state, logOpen, turns, sweeper,
          candidate>>

Actors == 1 .. MaxActors

Init ==
  /\ entry = 0 /\ open = 0
  /\ place = [s \in Sessions |-> "out"]
  /\ mailbox = [s \in Sessions |-> 0]
  /\ built = 0 /\ state = [a \in Actors |-> "unborn"]
  /\ logOpen = FALSE /\ turns = 0
  /\ sweeper = "asleep" /\ candidate = 0

sweepVars == <<sweeper, candidate>>

-----------------------------------------------------------------------------
(* open_as.  An open thread is found under the lock and counted at once.   *)
OpenFound(s) ==
  /\ place[s] = "out" /\ entry /= 0
  /\ open' = open + 1
  /\ mailbox' = [mailbox EXCEPT ![s] = entry]
  /\ place' = [place EXCEPT ![s] = "in"]
  /\ UNCHANGED <<entry, built, state, logOpen, turns, sweepVars>>

(* Not open: the thread is built with the lock let go.                     *)
OpenMissed(s) ==
  /\ place[s] = "out" /\ entry = 0
  /\ place' = [place EXCEPT ![s] = "building"]
  /\ UNCHANGED <<entry, open, mailbox, built, state, logOpen, turns, sweepVars>>

(* The actor is made, which resumes the log: a turn it ends in the middle  *)
(* of is repaired, to be continued, whoever is in it.  Then the actor is   *)
(* spawned.  A log that cannot be resumed refuses the session.             *)
Build(s) ==
  /\ place[s] = "building" /\ built < MaxActors
  /\ built' = built + 1
  /\ state' = [state EXCEPT ![built + 1] = IF logOpen THEN "pending" ELSE "idle"]
  /\ mailbox' = [mailbox EXCEPT ![s] = built + 1]
  /\ place' = [place EXCEPT ![s] = "inserting"]
  /\ UNCHANGED <<entry, open, logOpen, turns, sweepVars>>

BuildFails(s) ==
  /\ place[s] = "building"
  /\ place' = [place EXCEPT ![s] = "out"]
  /\ UNCHANGED <<entry, open, mailbox, built, state, logOpen, turns, sweepVars>>

(* Mutant: the second session's entry replaces the first's.                *)
InsertOver(s) ==
  /\ place[s] = "inserting"
  /\ entry' = mailbox[s] /\ open' = IF entry = 0 THEN 1 ELSE open + 1
  /\ place' = [place EXCEPT ![s] = "in"]
  /\ UNCHANGED <<mailbox, built, state, logOpen, turns, sweepVars>>

(* The first in wins; the second session is given the first's mailbox and  *)
(* drops its own.                                                          *)
Insert(s) ==
  /\ place[s] = "inserting"
  /\ IF entry = 0
     THEN entry' = mailbox[s] /\ open' = 1 /\ UNCHANGED mailbox
     ELSE /\ open' = open + 1
          /\ mailbox' = [mailbox EXCEPT ![s] = entry]
          /\ UNCHANGED entry
  /\ place' = [place EXCEPT ![s] = "in"]
  /\ UNCHANGED <<built, state, logOpen, turns, sweepVars>>

(* Mutant: every session that closes takes two off the count.              *)
CloseTwice(s) ==
  /\ place[s] = "in"
  /\ open' = IF entry = 0 THEN open ELSE open - 2
  /\ mailbox' = [mailbox EXCEPT ![s] = 0]
  /\ place' = [place EXCEPT ![s] = "out"]
  /\ UNCHANGED <<entry, built, state, logOpen, turns, sweepVars>>

(* close: one session less, if the thread is in the table.                 *)
Close(s) ==
  /\ place[s] = "in"
  /\ open' = IF entry = 0 \/ open = 0 THEN open ELSE open - 1
  /\ mailbox' = [mailbox EXCEPT ![s] = 0]
  /\ place' = [place EXCEPT ![s] = "out"]
  /\ UNCHANGED <<entry, built, state, logOpen, turns, sweepVars>>

(* ask_actor, for a session that has not the thread open: the mailbox of   *)
(* the table is used without counting a session, or the thread is opened   *)
(* and closed at once, before the request is sent.                         *)
Borrow(s) ==
  /\ \/ /\ place[s] = "out" /\ entry /= 0
        /\ mailbox' = [mailbox EXCEPT ![s] = entry]
        /\ UNCHANGED open
     \/ /\ place[s] = "in"
        /\ open' = IF entry = 0 \/ open = 0 THEN open ELSE open - 1
        /\ UNCHANGED mailbox
  /\ place' = [place EXCEPT ![s] = "borrowed"]
  /\ UNCHANGED <<entry, built, state, logOpen, turns, sweepVars>>

-----------------------------------------------------------------------------
(* The actors.  A resumed turn is continued before the first mail; a post  *)
(* starts a turn; when the last mailbox is gone an idle actor ends, and    *)
(* one in a turn finishes it first.                                        *)
ResumeTurn(a) ==
  /\ state[a] = "pending"
  /\ state' = [state EXCEPT ![a] = "turn"]
  /\ logOpen' = TRUE
  /\ UNCHANGED <<entry, open, place, mailbox, built, turns, sweepVars>>

Starts(s) ==
  /\ turns < MaxTurns /\ turns' = turns + 1
  /\ state[mailbox[s]] = "idle"
  /\ state' = [state EXCEPT ![mailbox[s]] = "turn"]
  /\ logOpen' = TRUE

Post(s) ==
  /\ place[s] = "in" /\ Starts(s)
  /\ UNCHANGED <<entry, open, place, mailbox, built, sweepVars>>

(* The request of a borrowed mailbox, a post or another; then it is let go.*)
Request(s) ==
  /\ place[s] = "borrowed"
  /\ Starts(s) \/ UNCHANGED <<turns, state, logOpen>>
  /\ place' = [place EXCEPT ![s] = "out"]
  /\ mailbox' = [mailbox EXCEPT ![s] = 0]
  /\ UNCHANGED <<entry, open, built, sweepVars>>

Ask(a) ==
  /\ state[a] = "turn"
  /\ state' = [state EXCEPT ![a] = "asking"]
  /\ UNCHANGED <<entry, open, place, mailbox, built, logOpen, turns, sweepVars>>

(* A person's answer comes through a mailbox.                              *)
Answer(s) ==
  /\ mailbox[s] /= 0 /\ state[mailbox[s]] = "asking"
  /\ state' = [state EXCEPT ![mailbox[s]] = "turn"]
  /\ UNCHANGED <<entry, open, place, mailbox, built, logOpen, turns, sweepVars>>

TurnOver(a) ==
  /\ state[a] = "turn"
  /\ state' = [state EXCEPT ![a] = "idle"]
  /\ logOpen' = FALSE
  /\ UNCHANGED <<entry, open, place, mailbox, built, turns, sweepVars>>

Held(a) == entry = a \/ candidate = a \/ \E s \in Sessions : mailbox[s] = a

End(a) ==
  /\ state[a] = "idle" /\ ~Held(a)
  /\ state' = [state EXCEPT ![a] = "gone"]
  /\ UNCHANGED <<entry, open, place, mailbox, built, logOpen, turns, sweepVars>>

-----------------------------------------------------------------------------
(* sweep: a thread no session has had open for the idle period is asked    *)
(* for its state, with the lock let go, and unloaded if it said Idle and   *)
(* no session has opened it since.                                         *)
SweepAsk ==
  /\ sweeper = "asleep" /\ entry /= 0 /\ open = 0
  /\ candidate' = entry
  /\ sweeper' = "asked"
  /\ UNCHANGED <<entry, open, place, mailbox, built, state, logOpen, turns>>

(* Mutant: the test on the state the actor gave is the wrong way round.    *)
SweepToldSkipsIdle ==
  /\ sweeper = "asked" /\ state[candidate] \in {"idle", "turn", "asking"}
  /\ IF state[candidate] /= "idle"
     THEN sweeper' = "told" /\ UNCHANGED candidate
     ELSE sweeper' = "asleep" /\ candidate' = 0
  /\ UNCHANGED <<entry, open, place, mailbox, built, state, logOpen, turns>>

SweepTold ==
  /\ sweeper = "asked" /\ state[candidate] \in {"idle", "turn", "asking"}
  /\ IF state[candidate] = "idle"
     THEN sweeper' = "told" /\ UNCHANGED candidate
     ELSE sweeper' = "asleep" /\ candidate' = 0
  /\ UNCHANGED <<entry, open, place, mailbox, built, state, logOpen, turns>>

(* Mutant: the sessions that opened the thread meanwhile are not counted.  *)
SweepUnloadAnyway ==
  /\ sweeper = "told"
  /\ entry' = 0 /\ open' = 0
  /\ sweeper' = "asleep" /\ candidate' = 0
  /\ UNCHANGED <<place, mailbox, built, state, logOpen, turns>>

SweepUnload ==
  /\ sweeper = "told"
  /\ IF open = 0 THEN entry' = 0 ELSE UNCHANGED entry
  /\ sweeper' = "asleep" /\ candidate' = 0
  /\ UNCHANGED <<open, place, mailbox, built, state, logOpen, turns>>

-----------------------------------------------------------------------------
Session(s) ==
  \/ OpenFound(s) \/ OpenMissed(s) \/ Build(s) \/ BuildFails(s) \/ Insert(s)
  \/ Close(s) \/ Borrow(s) \/ Request(s) \/ Post(s) \/ Answer(s)

Works(a) == ResumeTurn(a) \/ TurnOver(a) \/ End(a)

Actor(a) == Works(a) \/ Ask(a)

Sweep == SweepAsk \/ SweepTold \/ SweepUnload

Next ==
  \/ \E s \in Sessions : Session(s)
  \/ \E a \in Actors : Actor(a)
  \/ Sweep

Spec == Init /\ [][Next]_vars

(* Actors and the sweeper run; a session goes on once it has begun to open *)
(* the thread, and a request that borrowed a mailbox is sent.  Whether a   *)
(* person answers is up to them.                                           *)
FairSpec ==
  /\ Spec
  /\ \A a \in Actors : WF_vars(Works(a))
  /\ \A s \in Sessions :
       WF_vars(Build(s) \/ BuildFails(s) \/ Insert(s) \/ Request(s))
  /\ WF_vars(Sweep)

-----------------------------------------------------------------------------
InTurn == {a \in Actors : state[a] \in {"turn", "asking"}}

(* The shapes of the state.                                                *)
TypeOK ==
  /\ entry \in 0 .. MaxActors /\ candidate \in 0 .. MaxActors
  /\ logOpen \in BOOLEAN /\ open \in Nat
  /\ built \in 0 .. MaxActors /\ turns \in 0 .. MaxTurns
  /\ place \in [Sessions -> {"out", "building", "inserting", "in", "borrowed"}]
  /\ mailbox \in [Sessions -> 0 .. MaxActors]
  /\ state \in [Actors -> {"unborn", "pending", "idle", "turn", "asking", "gone"}]
  /\ sweeper \in {"asleep", "asked", "told"}

(* The count the sweeper goes by is the number of sessions that have the   *)
(* thread open, whatever races built or unloaded it.                       *)
SessionsIn == {s \in Sessions : place[s] = "in"}

CountExact == open = Cardinality(SessionsIn)

(* Everyone who has the thread open talks to one actor, the table's, which *)
(* is alive: nobody is left with the mailbox of an actor the table has let *)
(* go.                                                                     *)
SessionsShareActor ==
  \A s \in SessionsIn : /\ mailbox[s] = entry /\ entry /= 0
                        /\ state[entry] \notin {"unborn", "gone"}

(* The table is true to its sessions and its actors.                       *)
TableSound == TypeOK /\ CountExact /\ SessionsShareActor

(* A thread's turns run one at a time.                                     *)
OneTurn == Cardinality(InTurn) <= 1

(* A thread is unloaded only while it is idle.                             *)
UnloadsOnlyIdle ==
  [][entry /= 0 /\ entry' = 0 => state[entry] = "idle"]_vars

(* A thread nobody has open is unloaded, unless it waits for a person.     *)
UnusedUnloads ==
  (entry /= 0 /\ open = 0) ~> (entry = 0 \/ open > 0 \/ state[entry] = "asking")

=============================================================================
