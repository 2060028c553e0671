---------------------------- MODULE ThreadActor ----------------------------
(***************************************************************************)
(* The actor that owns a thread (server/src/actor.rs): one task that       *)
(* handles mail, runs a turn at a time, continues with what no model call  *)
(* has read, and after a crash repairs the log (runtime/src/resume.rs) and *)
(* goes on.  While a turn runs, mail is handled only at its await points;  *)
(* while none runs, one mail at a time.                                    *)
(***************************************************************************)
EXTENDS Turn

CONSTANTS
  MaxPosts,       \* messages people post, at most
  MaxInterrupts,  \* interrupts people ask for, at most
  MaxCrashes,     \* times the daemon dies, at most
  MaxReturns,     \* job returns delivered, at most
  MaxSwitches     \* start-up proposals, asks and moves by hand, at most

ASSUME ActorConstants ==
  {MaxPosts, MaxInterrupts, MaxCrashes, MaxReturns, MaxSwitches} \subseteq Nat

VARIABLES
  idleSwitch,   \* the start-up proposal that waits, or 0
  notes,        \* job_notes: returns that arrived while a turn ran
  starting,     \* the post a turn starts with, or 0
  posts,        \* bookkeeping: messages accepted so far; a post is its number
  lost,         \* bookkeeping: posts whose memory a crash took
  taken,        \* bookkeeping: calls whose answer was accepted
  count         \* bookkeeping: how often each bounded thing happened

actorVars == <<idleSwitch, notes, starting>>
bookVars == <<posts, lost, taken, count>>
vars == <<turnVars, actorVars, bookVars>>

Fresh == [state |-> "Idle", queued |-> 0, steered |-> 0,
          held |-> FALSE, waiting |-> FALSE]

Init ==
  /\ log = <<>> /\ pc = "idle"
  /\ inbox = <<>> /\ held = <<>> /\ cancel = FALSE
  /\ batch = <<>> /\ asked = FALSE
  /\ spent = 0 /\ reason = "done" /\ retried = FALSE /\ context = {}
  /\ waiting = 0 /\ answer = Nothing /\ grant = FALSE
  /\ project = Home /\ jobs = {}
  /\ shared = Fresh /\ read = {}
  /\ idleSwitch = 0 /\ notes = <<>> /\ starting = 0
  /\ posts = 0 /\ lost = {} /\ taken = {}
  /\ count = [interrupts |-> 0, crashes |-> 0, returns |-> 0, switches |-> 0]

Counted(what, most) ==
  count[what] < most /\ count' = [count EXCEPT ![what] = @ + 1]

-----------------------------------------------------------------------------
(* Mutant: what the turn before left queued stays counted.                 *)
BeginKeepsQueued(s, place) ==
  /\ shared' = Working([s EXCEPT !.steered = 0])
  /\ pc' = place
  /\ inbox' = <<>> /\ held' = <<>> /\ cancel' = FALSE
  /\ batch' = <<>> /\ spent' = 0 /\ asked' = FALSE
  /\ context' = {} /\ retried' = FALSE /\ reason' = "done"

(* ThreadActor::turn: a turn begins with nothing queued, a fresh token and *)
(* a fresh inbox.                                                          *)
Begin(s, place) ==
  /\ shared' = Working([s EXCEPT !.queued = 0, !.steered = 0])
  /\ pc' = place
  /\ inbox' = <<>> /\ held' = <<>> /\ cancel' = FALSE
  /\ batch' = <<>> /\ spent' = 0 /\ asked' = FALSE
  /\ context' = {} /\ retried' = FALSE /\ reason' = "done"

(* withdraw_idle_switch: the waiting proposal is answered by the system.   *)
Withdrawn == DecisionAnswered(idleSwitch, "withdrawn")

PostIdle ==
  /\ pc = "idle" /\ posts < MaxPosts
  /\ log' = IF idleSwitch = 0 THEN log ELSE Append(log, Withdrawn)
  /\ idleSwitch' = 0
  /\ posts' = posts + 1 /\ starting' = posts + 1
  /\ Begin(shared, "start")
  /\ UNCHANGED <<askVars, threadVars, read, notes, lost, taken, count>>

(* run_turn_until: the message that starts the turn.                       *)
StartTurn ==
  /\ pc = "start"
  /\ Write(UserMessage(starting, FALSE, FALSE))
  /\ starting' = 0
  /\ pc' = "loop"
  /\ UNCHANGED <<mailVars, batchVars, loopVars, askVars, threadVars, read,
                 idleSwitch, notes, bookVars>>

-----------------------------------------------------------------------------
(* Mail while a turn runs (handle_running).                                *)
Running == pc \in AwaitPoints

PostRunning ==
  /\ Running /\ posts < MaxPosts
  /\ posts' = posts + 1
  /\ inbox' = Append(inbox, posts + 1)
  /\ \/ UNCHANGED <<cancel, count>>
     \/ cancel' = TRUE /\ Counted("interrupts", MaxInterrupts)
  /\ UNCHANGED <<log, pc, held, batchVars, loopVars, askVars, threadVars,
                 shared, read, actorVars, lost, taken>>

Interrupt ==
  /\ Running
  /\ Counted("interrupts", MaxInterrupts)
  /\ cancel' = TRUE
  /\ UNCHANGED <<log, pc, inbox, held, batchVars, loopVars, askVars, threadVars,
                 shared, read, actorVars, posts, lost, taken>>

(* Decisions::decide: the waiting call's channel gets the answer, once.    *)
Decide ==
  /\ pc = "ask" /\ waiting /= 0
  /\ answer' \in AnswersFor(AskedTool)
  /\ taken' = taken \union {waiting}
  /\ waiting' = 0
  /\ UNCHANGED <<log, pc, mailVars, batchVars, loopVars, grant, threadVars,
                 shared, read, actorVars, posts, lost, count>>

(* A job's driver, or the start-up repair, delivers its return.            *)
JobReturns ==
  /\ Running \/ pc = "idle"
  /\ Counted("returns", MaxReturns)
  /\ \E j \in jobs :
       IF Running
       THEN notes' = Append(notes, j) /\ UNCHANGED <<log, shared>>
       ELSE /\ UNCHANGED notes
            /\ IF JobReturned(log, j) THEN UNCHANGED <<log, shared>>
                                      ELSE Write(JobFinished(j))
  /\ UNCHANGED <<pc, mailVars, batchVars, loopVars, askVars, threadVars, read,
                 idleSwitch, starting, posts, lost, taken>>

-----------------------------------------------------------------------------
(* Mutant: the log is not asked whether it holds the return.               *)
WriteNoteAgain ==
  /\ pc = "after" /\ notes /= <<>>
  /\ Write(JobFinished(Head(notes)))
  /\ notes' = Tail(notes)
  /\ UNCHANGED <<pc, mailVars, batchVars, loopVars, askVars, threadVars, read,
                 idleSwitch, starting, bookVars>>

(* Mutant: a return the log already holds is not taken off the list.       *)
WriteNoteStays ==
  /\ pc = "after" /\ notes /= <<>>
  /\ IF JobReturned(log, Head(notes))
     THEN UNCHANGED <<log, shared, notes>>
     ELSE Write(JobFinished(Head(notes))) /\ notes' = Tail(notes)
  /\ UNCHANGED <<pc, mailVars, batchVars, loopVars, askVars, threadVars, read,
                 idleSwitch, starting, bookVars>>

(* After a turn: the job returns that arrived are written, unless the log  *)
(* already holds them.                                                     *)
WriteNote ==
  /\ pc = "after" /\ notes /= <<>>
  /\ IF JobReturned(log, Head(notes)) THEN UNCHANGED <<log, shared>>
                                      ELSE Write(JobFinished(Head(notes)))
  /\ notes' = Tail(notes)
  /\ UNCHANGED <<pc, mailVars, batchVars, loopVars, askVars, threadVars, read,
                 idleSwitch, starting, bookVars>>

(* Mutants: only the answer, or only the queue, starts the next turn.      *)
MustContinueIfAsked == reason = "asked_human"
MustContinueIfQueued == shared.queued > 0

(* after_turn: an answered question continues at once, and so does a       *)
(* message no model call has read.                                         *)
MustContinue == reason = "asked_human" \/ shared.queued > 0

Continue ==
  /\ pc = "after" /\ notes = <<>> /\ MustContinue
  /\ Begin(shared, "loop")
  /\ UNCHANGED <<log, askVars, threadVars, read, actorVars, bookVars>>

(* Idle again: the state first, then the side jobs, then the guard.        *)
GoIdle ==
  /\ pc = "after" /\ notes = <<>> /\ ~MustContinue
  /\ shared' = [shared EXCEPT !.state = "Idle"]
  /\ pc' = "side"
  /\ UNCHANGED <<log, mailVars, batchVars, loopVars, askVars, threadVars, read,
                 actorVars, bookVars>>

SideJobs ==
  /\ pc = "side"
  /\ shared' = [shared EXCEPT !.held = FALSE]
  /\ pc' = "idle"
  /\ UNCHANGED <<log, mailVars, batchVars, loopVars, askVars, threadVars, read,
                 actorVars, bookVars>>

-----------------------------------------------------------------------------
(* The start-up proposal, raised, answered or withdrawn while no turn runs.*)
(* Mutant: the state a wait showed stays.                                  *)
IdledStateKept(s) == [s EXCEPT !.held = FALSE]

Idled(s) == [s EXCEPT !.state = "Idle", !.held = FALSE]

ProposeIdle ==
  /\ pc = "idle" /\ idleSwitch = 0
  /\ shared.state = "Idle" /\ ~DeclinedAtStartup(log)
  /\ Counted("switches", MaxSwitches)
  /\ log' = Append(log, DecisionProposed("startup", 0))
  /\ idleSwitch' = Len(log) + 1
  /\ shared' = [shared EXCEPT !.state = "AwaitingSwitch"]
  /\ UNCHANGED <<pc, mailVars, batchVars, loopVars, askVars, threadVars, read,
                 notes, starting, posts, lost, taken>>

AnswerIdle(e) ==
  /\ pc = "idle" /\ idleSwitch /= 0
  /\ log' = Append(log, e)
  /\ UNCHANGED <<mailVars, batchVars, loopVars, waiting, answer, jobs, read,
                 notes, starting, bookVars>>

(* Not a yes, or a yes whose switch failed: the answer is all there is.    *)
DeclineIdle ==
  /\ AnswerIdle(DecisionAnswered(idleSwitch, "no"))
  /\ shared' = Idled(shared) /\ idleSwitch' = 0
  /\ UNCHANGED <<pc, project, grant>>

FailIdle ==
  /\ "knowledge" \in Faults
  /\ AnswerIdle(Withdrawn)
  /\ shared' = Idled(shared) /\ idleSwitch' = 0
  /\ project' = Away /\ grant' = FALSE
  /\ UNCHANGED pc

AgreeIdle ==
  /\ AnswerIdle(ProjectSwitched(Away))
  /\ project' = Away /\ grant' = FALSE
  /\ pc' = "idle_switched"
  /\ UNCHANGED <<shared, idleSwitch>>

RecordIdle ==
  /\ pc = "idle_switched"
  /\ log' = Append(log, DecisionAnswered(idleSwitch, "yes"))
  /\ shared' = Idled(shared) /\ idleSwitch' = 0
  /\ pc' = "idle"
  /\ UNCHANGED <<mailVars, batchVars, loopVars, askVars, threadVars, read,
                 notes, starting, bookVars>>

(* Mutant: the proposal that waits is not withdrawn first.                 *)
WithdrawByHandNot ==
  /\ pc = "idle"
  /\ Counted("switches", MaxSwitches)
  /\ pc' = "by_hand"
  /\ UNCHANGED <<log, shared, mailVars, batchVars, loopVars, askVars, threadVars,
                 read, actorVars, posts, lost, taken>>

(* Mail::SwitchProject: what waits is withdrawn, then the thread moves;    *)
(* knowledge that cannot be read fails the move after the parts moved.     *)
WithdrawByHand ==
  /\ pc = "idle"
  /\ Counted("switches", MaxSwitches)
  /\ IF idleSwitch = 0 THEN UNCHANGED <<log, shared>>
                       ELSE log' = Append(log, Withdrawn) /\ shared' = Idled(shared)
  /\ idleSwitch' = 0
  /\ pc' = "by_hand"
  /\ UNCHANGED <<mailVars, batchVars, loopVars, askVars, threadVars, read,
                 notes, starting, posts, lost, taken>>

Move(to) ==
  /\ pc = "by_hand"
  /\ project' = to /\ grant' = FALSE
  /\ pc' = "idle"
  /\ UNCHANGED <<mailVars, batchVars, loopVars, waiting, answer, jobs, read,
                 actorVars, bookVars>>

SwitchByHand ==
  \E to \in {Home, Away} \ {project} : Move(to) /\ Write(ProjectSwitched(to))

SwitchByHandFails ==
  /\ "knowledge" \in Faults
  /\ \E to \in {Home, Away} \ {project} : Move(to)
  /\ UNCHANGED <<log, shared>>

(* Mail::RecordStartupAsk: a proposal and its answer, back to back.  It    *)
(* names no target, so it declines no start-up proposal.                   *)
StartupAsk ==
  /\ pc = "idle"
  /\ Counted("switches", MaxSwitches)
  /\ Write(DecisionProposed("ask", 0))
  /\ pc' = "startup_ask"
  /\ UNCHANGED <<mailVars, batchVars, loopVars, askVars, threadVars, read,
                 actorVars, posts, lost, taken>>

RecordStartupAsk ==
  /\ pc = "startup_ask"
  /\ \E a \in {"yes", "corrected"} : log' = Append(log, DecisionAnswered(Len(log), a))
  /\ shared' = Idled(shared)
  /\ pc' = "idle"
  /\ UNCHANGED <<mailVars, batchVars, loopVars, askVars, threadVars, read,
                 actorVars, bookVars>>

-----------------------------------------------------------------------------
(* The daemon dies: the log is all that is left.  A restart builds the     *)
(* runtime from the log, in the project the log names.                     *)
InMemory ==
  ToSet(inbox) \union ToSet(held) \union ({starting} \ {0})

Crash ==
  /\ Counted("crashes", MaxCrashes)
  /\ lost' = lost \union (InMemory \ PostsOf(log))
  /\ pc' = "resume"
  /\ shared' = Fresh
  /\ inbox' = <<>> /\ held' = <<>> /\ cancel' = FALSE
  /\ batch' = <<>> /\ spent' = 0 /\ asked' = FALSE
  /\ context' = {} /\ retried' = FALSE /\ reason' = "done"
  /\ waiting' = 0 /\ answer' = Nothing /\ grant' = FALSE
  /\ project' = LoggedProject(log, Home)
  /\ idleSwitch' = 0 /\ notes' = <<>> /\ starting' = 0
  /\ UNCHANGED <<log, jobs, read, posts, taken>>

(* Runtime::resume, an append at a time, the oldest first.                 *)
Repair(e) ==
  /\ pc = "resume"
  /\ Write(e)
  /\ UNCHANGED <<mailVars, batchVars, loopVars, askVars, threadVars, read,
                 actorVars, bookVars>>

WithdrawOpen ==
  /\ \E i \in OpenProposals(log) :
       /\ \A j \in OpenProposals(log) : i <= j
       /\ Repair(DecisionAnswered(i, "withdrawn"))
  /\ UNCHANGED pc

Repairable == OpenProposals(log) = {} /\ TurnIsOpen(log)

RestoreTurnEnded ==
  /\ Repairable /\ LostTurnEnded(log)
  /\ Repair(TurnEnded("resumed"))
  /\ pc' = "clean"

AnswerUnanswered ==
  /\ Repairable /\ ~LostTurnEnded(log)
  /\ \E c \in Unanswered(log) :
       /\ \A d \in Unanswered(log) : c.id <= d.id
       /\ Repair(ToolResult(c.id, "unknown"))
  /\ UNCHANGED pc

(* Mutant: a resume that crashed is noted again.                           *)
NoteCrashAgain ==
  /\ Repairable /\ ~LostTurnEnded(log) /\ Unanswered(log) = {}
  /\ Repair(Interrupted("crash"))
  /\ pc' = "interrupted"

NoteCrash ==
  /\ Repairable /\ ~LostTurnEnded(log) /\ Unanswered(log) = {}
  /\ Last(log).kind /= "interrupted"
  /\ Repair(Interrupted("crash"))
  /\ pc' = "interrupted"

(* Nothing to write: the log is clean, or a resume before this one noted.  *)
Resumed(place) ==
  /\ pc = "resume"
  /\ pc' = place
  /\ UNCHANGED <<log, shared, mailVars, batchVars, loopVars, askVars,
                 threadVars, read, actorVars, bookVars>>

NothingOpen ==
  /\ OpenProposals(log) = {} /\ ~TurnIsOpen(log)
  /\ Resumed("clean")

AlreadyNoted ==
  /\ Repairable /\ ~LostTurnEnded(log) /\ Unanswered(log) = {}
  /\ Last(log).kind = "interrupted"
  /\ Resumed("interrupted")

(* The actor runs: the real guard replaces the inert one, and a resume     *)
(* that left work continues it before the first mail.                      *)
Boot ==
  /\ pc \in {"clean", "interrupted"}
  /\ LET s == [shared EXCEPT !.held = FALSE, !.waiting = FALSE] IN
     IF pc = "interrupted" \/ AwaitingContinuation(log)
     THEN Begin(s, "loop")
     ELSE /\ pc' = "idle" /\ shared' = s
          /\ UNCHANGED <<mailVars, batchVars, loopVars>>
  /\ UNCHANGED <<log, askVars, threadVars, read, actorVars, bookVars>>

-----------------------------------------------------------------------------
RunTurn == TurnStep /\ UNCHANGED <<actorVars, bookVars>>

(* What the actor's task does by itself.                                   *)
ActorStep ==
  \/ StartTurn \/ RunTurn
  \/ WriteNote \/ Continue \/ GoIdle \/ SideJobs
  \/ RecordIdle \/ SwitchByHand \/ SwitchByHandFails \/ RecordStartupAsk
  \/ WithdrawOpen \/ RestoreTurnEnded \/ AnswerUnanswered \/ NoteCrash
  \/ NothingOpen \/ AlreadyNoted \/ Boot

(* What people and jobs send.                                              *)
Mail ==
  \/ PostIdle \/ PostRunning \/ Interrupt \/ Decide \/ JobReturns
  \/ ProposeIdle \/ DeclineIdle \/ FailIdle \/ AgreeIdle
  \/ WithdrawByHand \/ StartupAsk

Next == ActorStep \/ Mail \/ Crash

Spec == Init /\ [][Next]_vars

(* The actor's task is polled for as long as it has something to do; what  *)
(* people send, what jobs return and when the daemon dies is up to them.   *)
FairSpec == Spec /\ WF_vars(ActorStep)
=============================================================================
