-------------------------------- MODULE Turn --------------------------------
(***************************************************************************)
(* One thread's turn, as runtime/src/turn.rs runs it: the loop of model    *)
(* calls and tool calls, what it appends and in which order, and where it  *)
(* can be awaiting something.  A step appends at most one event, so that a *)
(* crash may come between any two events.  The turn runs inside the        *)
(* actor's task (ThreadActor): the actor handles mail only while the turn  *)
(* is at an await point, so the places of AwaitPoints are the only ones    *)
(* where messages, answers and interrupts arrive.                          *)
(***************************************************************************)
EXTENDS Projection

CONSTANTS
  Tools,          \* the kinds of tool the model calls, a subset of AllTools
  MaxBatch,       \* calls in one reply, at most
  MaxCalls,       \* calls in the whole run, at most
  MaxIterations,  \* Budget::max_iterations
  Faults          \* what may fail: "stream", "cut", "length", "compaction",
                  \* "knowledge"

ASSUME TurnConstants ==
  /\ Tools \subseteq AllTools
  /\ MaxBatch \in Nat /\ MaxCalls \in Nat /\ MaxIterations \in Nat

VARIABLES
  log,        \* the thread's events
  pc,         \* where the actor's task is
  inbox,      \* posts sent to the running turn, not yet received
  held,       \* posts received while a reply streamed
  cancel,     \* CancelToken: the turn was interrupted
  batch,      \* the calls of the last reply that have no result yet
  spent,      \* Spent::iterations
  asked,      \* `answered': a person's answer came back in this batch
  reason,     \* why the turn ends
  retried,    \* retried_once, for the model call now out
  context,    \* the posts shown by the model call now out
  waiting,    \* Decisions::waiting: the call a person is asked about, or 0
  answer,     \* what the waiting call's channel holds
  grant,      \* a session grant covers the gated tool
  project,    \* the project the runtime's layers, policy and tools are of
  jobs,       \* the jobs a person approved
  shared,     \* the actor's view: state, queued, steered, held, waiting
  read        \* the posts a finished model call was shown

mailVars == <<inbox, held, cancel>>
batchVars == <<batch, asked>>
loopVars == <<spent, reason, retried, context>>
askVars == <<waiting, answer, grant>>
threadVars == <<project, jobs>>

turnVars == <<log, pc, mailVars, batchVars, loopVars, askVars, threadVars,
              shared, read>>

Home == "home"
Away == "away"
Nothing == "nothing"

(* The answers a person may give to each kind of question.  A proposal's   *)
(* "corrected" is recorded as "no" is, so one of the two stands for both.  *)
AnswersFor(tool) ==
  CASE tool = "gated" -> {"allow", "session", "deny"}
    [] tool = "ask_human" -> {"text"}
    [] OTHER -> {"yes", "no"}

AwaitPoints == {"compact", "stream", "tool", "ask"}

-----------------------------------------------------------------------------
(* The observer (server/src/actor.rs): what an appended event does to the  *)
(* state the actor reports and to its hold on the keep-awake guard.        *)
Working(s) == [s EXCEPT !.state = "Running", !.held = TRUE, !.waiting = FALSE]

Waits(s, state) == [s EXCEPT !.state = state, !.held = FALSE, !.waiting = TRUE]

(* Mutant: an answered proposal does not end the wait.                     *)
EndsAWaitNoProposal == {"permission_decided", "tool_result"}

EndsAWait == {"permission_decided", "tool_result", "decision_answered"}

Observed(s, e) ==
  CASE e.kind = "user_message" /\ e.mid_turn ->
         LET counted == [s EXCEPT !.queued = @ + 1,
                                  !.steered = IF e.steer THEN @ + 1 ELSE @]
         IN  IF s.waiting THEN counted ELSE Working(counted)
    [] e.kind = "assistant_message" /\ s.steered > 0 ->
         Working([s EXCEPT !.steered = 0, !.queued = @ - s.steered])
    [] e.kind \in EndsAWait /\ s.state /= "Running" -> Working(s)
    [] OTHER -> s

(* Runtime::append and append_queued: the event reaches the log and the    *)
(* observer sees it.                                                       *)
Write(e) == log' = Append(log, e) /\ shared' = Observed(shared, e)

AppendQueued(p, steer) == Write(UserMessage(p, TRUE, steer))

(* drain_inbox, one post at a time: what arrived since the last safe point *)
(* goes into the log, steered.                                             *)
DrainAt(place) ==
  /\ pc = place
  /\ inbox /= <<>>
  /\ AppendQueued(Head(inbox), TRUE)
  /\ inbox' = Tail(inbox)
  /\ UNCHANGED <<pc, held, cancel, batchVars, loopVars, askVars, threadVars, read>>

-----------------------------------------------------------------------------
(* The top of the loop: drain, then the interrupt, then the budget, then   *)
(* what the last stream held, then the model call.                         *)
AtTop == pc = "loop" /\ inbox = <<>>

InterruptedAtTop ==
  /\ AtTop /\ cancel
  /\ pc' = "interrupt"
  /\ UNCHANGED <<log, mailVars, batchVars, loopVars, askVars, threadVars, shared, read>>

BudgetSpent ==
  /\ AtTop /\ ~cancel /\ spent >= MaxIterations
  /\ pc' = "end" /\ reason' = "max_iterations"
  /\ UNCHANGED <<log, mailVars, batchVars, spent, retried, context, askVars,
                 threadVars, shared, read>>

(* Mutant: what was held is written but not taken.                         *)
FlushHeldAgain ==
  /\ AtTop /\ ~cancel /\ spent < MaxIterations
  /\ held /= <<>>
  /\ AppendQueued(Head(held), TRUE)
  /\ UNCHANGED <<pc, mailVars, batchVars, loopVars, askVars, threadVars, read>>

FlushHeld ==
  /\ AtTop /\ ~cancel /\ spent < MaxIterations
  /\ held /= <<>>
  /\ AppendQueued(Head(held), TRUE)
  /\ held' = Tail(held)
  /\ UNCHANGED <<pc, inbox, cancel, batchVars, loopVars, askVars, threadVars, read>>

(* Eviction, the closed-turn batch and the emergency net; the last two may *)
(* call a model, and only the emergency net's failure ends the turn.       *)
Compact ==
  /\ AtTop /\ ~cancel /\ spent < MaxIterations
  /\ held = <<>>
  /\ pc' = "compact"
  /\ UNCHANGED <<log, mailVars, batchVars, loopVars, askVars, threadVars, shared, read>>

CompactionFails ==
  /\ pc = "compact" /\ "compaction" \in Faults
  /\ pc' = "end" /\ reason' = "provider_error"
  /\ UNCHANGED <<log, mailVars, batchVars, spent, retried, context, askVars,
                 threadVars, shared, read>>

(* build_context, and the request goes out.                                *)
Request ==
  /\ pc = "compact"
  /\ pc' = "stream"
  /\ context' = Shown(log)
  /\ retried' = FALSE
  /\ UNCHANGED <<log, mailVars, batchVars, spent, reason, askVars, threadVars,
                 shared, read>>

-----------------------------------------------------------------------------
(* The stream.  The select is biased: an interrupt first, then the inbox,  *)
(* then the reply; what arrives is held, not appended.                     *)
StreamHolds ==
  /\ pc = "stream" /\ ~cancel /\ inbox /= <<>>
  /\ held' = Append(held, Head(inbox))
  /\ inbox' = Tail(inbox)
  /\ UNCHANGED <<log, pc, cancel, batchVars, loopVars, askVars, threadVars,
                 shared, read>>

(* Mutant: an interrupt drops what the stream held.                        *)
StreamInterruptedDrops ==
  /\ pc = "stream" /\ cancel
  /\ held' = <<>> /\ inbox' = <<>>
  /\ pc' = "interrupt"
  /\ UNCHANGED <<log, cancel, batchVars, loopVars, askVars, threadVars, shared, read>>

(* Dropped mid-call: nothing partial is appended.                          *)
StreamInterrupted ==
  /\ pc = "stream" /\ cancel
  /\ held' = held \o inbox /\ inbox' = <<>>
  /\ pc' = "interrupt"
  /\ UNCHANGED <<log, cancel, batchVars, loopVars, askVars, threadVars, shared, read>>

(* Mutant: what the last polls raced past is not drained.                  *)
StreamOverDrops ==
  /\ pc = "stream" /\ ~cancel
  /\ inbox' = <<>>
  /\ UNCHANGED <<held, cancel>>

(* The stream came to its end; what the last polls raced past is held too. *)
StreamOver ==
  /\ pc = "stream" /\ ~cancel
  /\ held' = held \o inbox /\ inbox' = <<>>
  /\ UNCHANGED cancel

(* A reply cut off after content is asked again, once.                     *)
StreamRetried ==
  /\ StreamOver /\ "cut" \in Faults /\ ~retried
  /\ Write(ProviderRetried)
  /\ retried' = TRUE
  /\ UNCHANGED <<pc, batchVars, spent, reason, context, askVars, threadVars, read>>

StreamFails ==
  /\ StreamOver /\ ("stream" \in Faults \/ retried)
  /\ spent' = spent + 1
  /\ pc' = "end" /\ reason' = "provider_error"
  /\ UNCHANGED <<log, batchVars, retried, context, askVars, threadVars, shared, read>>

(* The batches a reply may ask for: their ids follow the log's.            *)
Batches ==
  LET made == Cardinality(CallsOf(log)) IN
  {[i \in DOMAIN tools |-> [id |-> made + i, tool |-> tools[i]]] :
     tools \in UNION {[1 .. n -> Tools] :
                        n \in {k \in 0 .. MaxBatch : made + k <= MaxCalls}}}

StreamReplies ==
  /\ StreamOver
  /\ \E calls \in Batches, short \in {FALSE, "length" \in Faults} :
       /\ Write(AssistantMessage(calls))
       /\ batch' = calls
       /\ pc' = IF calls = <<>> THEN "end" ELSE IF short THEN "length" ELSE "calls"
       /\ reason' = IF short THEN "length" ELSE "done"
  /\ spent' = spent + 1
  /\ asked' = FALSE
  /\ read' = read \union context
  /\ UNCHANGED <<retried, context, askVars, threadVars>>

-----------------------------------------------------------------------------
(* A call of the batch that never runs gets a result all the same.         *)
NotRun(origin, next) ==
  /\ batch /= <<>>
  /\ Write(ToolResult(Head(batch).id, origin))
  /\ batch' = Tail(batch)
  /\ pc' = IF Tail(batch) = <<>> THEN next ELSE pc
  /\ UNCHANGED <<mailVars, asked, loopVars, askVars, threadVars, read>>

(* The reply hit the output limit: none of its calls runs.                 *)
LengthStop == pc = "length" /\ NotRun("not_run", "end")

(* A proposal stands alone: the calls after it are not run.                *)
Siblings == pc = "siblings" /\ NotRun("not_run", "after_calls")

(* The result of the call at the head of the batch, and where it leads.    *)
Result(origin) ==
  /\ Write(ToolResult(Head(batch).id, origin))
  /\ batch' = Tail(batch)
  /\ asked' = (asked \/ origin = "answer")
  /\ pc' = IF Tail(batch) = <<>> THEN "after_calls"
           ELSE IF Head(batch).tool \in Proposals THEN "siblings"
           ELSE IF cancel THEN "after_calls" ELSE "calls"
  /\ waiting' = 0 /\ answer' = Nothing
  /\ UNCHANGED <<mailVars, loopVars, grant, threadVars, read>>

-----------------------------------------------------------------------------
(* One call: drain, then by its kind.                                      *)
NextCall(tool) == pc = "calls" /\ inbox = <<>> /\ Head(batch).tool = tool

RunPlain ==
  /\ NextCall("plain")
  /\ pc' = "tool"
  /\ UNCHANGED <<log, mailVars, batchVars, loopVars, askVars, threadVars, shared, read>>

(* Register the question, then report the wait.                            *)
Register(s, state) ==
  /\ pc' = "ask"
  /\ waiting' = Head(batch).id /\ answer' = Nothing
  /\ shared' = Waits(s, state)
  /\ UNCHANGED <<mailVars, batchVars, loopVars, grant, threadVars, read>>

AskPermission ==
  LET e == PermissionRequested(Head(batch).id) IN
  /\ NextCall("gated") /\ ~grant
  /\ log' = Append(log, e)
  /\ Register(Observed(shared, e), "AwaitingApproval")

(* A session grant decides in the name of who gave it.                     *)
RequestGranted ==
  /\ NextCall("gated") /\ grant
  /\ Write(PermissionRequested(Head(batch).id))
  /\ pc' = "granted"
  /\ UNCHANGED <<mailVars, batchVars, loopVars, askVars, threadVars, read>>

Granted ==
  /\ pc = "granted"
  /\ Write(PermissionDecided(Head(batch).id, TRUE, "grant"))
  /\ pc' = "tool"
  /\ UNCHANGED <<mailVars, batchVars, loopVars, askVars, threadVars, read>>

AskHuman ==
  /\ NextCall("ask_human")
  /\ Register(shared, "AwaitingHuman")
  /\ UNCHANGED log

Propose ==
  LET e == DecisionProposed("turn", Head(batch).id) IN
  /\ \E tool \in Proposals : NextCall(tool)
  /\ log' = Append(log, e)
  /\ Register(Observed(shared, e), "AwaitingSwitch")

-----------------------------------------------------------------------------
(* run_tool_draining: posts go straight into the log, an interrupt kills   *)
(* the call, and any of the three may be seen first.                       *)
ToolDone == pc = "tool" /\ Result("ran")

ToolKilled == pc = "tool" /\ cancel /\ Result("killed")

-----------------------------------------------------------------------------
(* The wait for a person.  The select is biased: an interrupt wins over an *)
(* answer that is there too.                                               *)
AskedTool == Head(batch).tool

(* The proposal of the call now waiting.                                   *)
Proposal == SelectLastInSeq(log, LAMBDA e : e.kind = "decision_proposed")

(* Mutant: the wait for a proposal's answer does not listen for one.       *)
InterruptsNotProposals(tool) ==
  pc = "ask" /\ cancel /\ AskedTool = tool /\ tool \notin Proposals

Interrupts(tool) == pc = "ask" /\ cancel /\ AskedTool = tool

(* Mutant: the question stays registered after the turn left it.           *)
SettleStillWaits(e, next) ==
  /\ Write(e)
  /\ pc' = next
  /\ answer' = Nothing
  /\ UNCHANGED <<waiting, mailVars, batchVars, loopVars, read>>

(* What is recorded before the result; the result follows at `next'.       *)
Settle(e, next) ==
  /\ Write(e)
  /\ pc' = next
  /\ waiting' = 0 /\ answer' = Nothing
  /\ UNCHANGED <<mailVars, batchVars, loopVars, read>>

PermissionInterrupted ==
  /\ Interrupts("gated")
  /\ Settle(PermissionDecided(Head(batch).id, FALSE, "interrupter"), "refused")
  /\ UNCHANGED <<grant, threadVars>>

HumanInterrupted == Interrupts("ask_human") /\ Result("refused")

ProposalInterrupted ==
  /\ \E tool \in Proposals : Interrupts(tool)
  /\ Settle(DecisionAnswered(Proposal, "withdrawn"), "refused")
  /\ UNCHANGED <<grant, threadVars>>

Answers(tool, given) ==
  pc = "ask" /\ ~cancel /\ AskedTool = tool /\ answer \in given

PermissionAllowed ==
  /\ Answers("gated", {"allow", "session"})
  /\ Settle(PermissionDecided(Head(batch).id, TRUE, "person"), "tool")
  /\ grant' = (answer = "session")
  /\ UNCHANGED threadVars

(* Mutant: any decision lets the tool run.                                 *)
PermissionDeniedRuns ==
  /\ Answers("gated", {"deny"})
  /\ Settle(PermissionDecided(Head(batch).id, FALSE, "person"), "tool")
  /\ UNCHANGED <<grant, threadVars>>

PermissionDenied ==
  /\ Answers("gated", {"deny"})
  /\ Settle(PermissionDecided(Head(batch).id, FALSE, "person"), "refused")
  /\ UNCHANGED <<grant, threadVars>>

HumanAnswered == Answers("ask_human", {"text"}) /\ Result("answer")

Declined ==
  /\ \E tool \in Proposals : Answers(tool, {"no"})
  /\ Settle(DecisionAnswered(Proposal, "no"), "said")
  /\ UNCHANGED <<grant, threadVars>>

(* Mutant: session grants outlive the project they were given in.          *)
SwitchAgreedKeepsGrant ==
  /\ Answers("suggest_project", {"yes"})
  /\ Settle(ProjectSwitched(Away), "switched")
  /\ project' = Away
  /\ UNCHANGED <<grant, jobs>>

(* Mutant: the switch is logged and nothing is replaced.                   *)
SwitchAgreedStays ==
  /\ Answers("suggest_project", {"yes"})
  /\ Settle(ProjectSwitched(Away), "switched")
  /\ grant' = FALSE
  /\ UNCHANGED threadVars

(* settle_switch: the project is switched and project_switched written,    *)
(* and only then the yes.                                                  *)
SwitchAgreed ==
  /\ Answers("suggest_project", {"yes"})
  /\ Settle(ProjectSwitched(Away), "switched")
  /\ project' = Away /\ grant' = FALSE
  /\ UNCHANGED jobs

SwitchRecorded ==
  /\ pc = "switched"
  /\ Settle(DecisionAnswered(Proposal, "yes"), "said")
  /\ UNCHANGED <<grant, threadVars>>

(* set_project replaces every part of the runtime, then reloads knowledge, *)
(* and returns the error that met before writing anything.                 *)
SwitchFails ==
  /\ Answers("suggest_project", {"yes"}) /\ "knowledge" \in Faults
  /\ Settle(DecisionAnswered(Proposal, "withdrawn"), "refused")
  /\ project' = Away /\ grant' = FALSE
  /\ UNCHANGED jobs

JobApproved ==
  /\ Answers("start_job", {"yes"})
  /\ Settle(DecisionAnswered(Proposal, "yes"), "said")
  /\ jobs' = jobs \union {Head(batch).id}
  /\ UNCHANGED <<grant, project>>

(* The result that follows what was recorded.                              *)
Said == pc = "said" /\ Result("answer")
Refused == pc = "refused" /\ Result("refused")

-----------------------------------------------------------------------------
(* After the batch: drain, then an interrupt, an answer, or another call.  *)
AfterCalls == pc = "after_calls" /\ inbox = <<>>

(* The rest of an interrupted batch gets synthetic results.                *)
Synthetic == AfterCalls /\ cancel /\ NotRun("not_run", "interrupt")

BatchOver ==
  /\ AfterCalls /\ batch = <<>>
  /\ pc' = IF cancel THEN "interrupt" ELSE IF asked THEN "end" ELSE "loop"
  /\ reason' = IF asked THEN "asked_human" ELSE reason
  /\ UNCHANGED <<log, mailVars, batchVars, spent, retried, context, askVars,
                 threadVars, shared, read>>

(* What a stream held goes in before the turn's last events, not steered.  *)
FlushLast ==
  /\ pc \in {"interrupt", "end"}
  /\ held /= <<>>
  /\ AppendQueued(Head(held), FALSE)
  /\ held' = Tail(held)
  /\ UNCHANGED <<pc, inbox, cancel, batchVars, loopVars, askVars, threadVars, read>>

NoteInterrupt ==
  /\ pc = "interrupt" /\ held = <<>>
  /\ Write(Interrupted("person"))
  /\ pc' = "end" /\ reason' = "interrupted"
  /\ UNCHANGED <<mailVars, batchVars, spent, retried, context, askVars,
                 threadVars, read>>

(* turn_ended, and the turn's inbox is dropped with the turn.              *)
EndTurn ==
  /\ pc = "end" /\ held = <<>>
  /\ Write(TurnEnded(reason))
  /\ pc' = "after"
  /\ inbox' = <<>>
  /\ UNCHANGED <<held, cancel, batchVars, loopVars, askVars, threadVars, read>>

-----------------------------------------------------------------------------
(* The steps of the turn.                                                  *)
Loop ==
  \/ \E place \in {"loop", "calls", "tool", "after_calls"} : DrainAt(place)
  \/ InterruptedAtTop \/ BudgetSpent \/ FlushHeld
  \/ Compact \/ CompactionFails \/ Request

Stream ==
  \/ StreamHolds \/ StreamInterrupted \/ StreamRetried \/ StreamFails
  \/ StreamReplies

Calls ==
  \/ LengthStop \/ Siblings
  \/ RunPlain \/ AskPermission \/ RequestGranted \/ Granted \/ AskHuman
  \/ Propose
  \/ ToolDone \/ ToolKilled

Wait ==
  \/ PermissionInterrupted \/ HumanInterrupted \/ ProposalInterrupted
  \/ PermissionAllowed \/ PermissionDenied \/ HumanAnswered \/ Declined
  \/ SwitchAgreed \/ SwitchRecorded \/ SwitchFails \/ JobApproved
  \/ Said \/ Refused

Ending ==
  \/ Synthetic \/ BatchOver \/ FlushLast \/ NoteInterrupt \/ EndTurn

TurnStep == Loop \/ Stream \/ Calls \/ Wait \/ Ending
=============================================================================
