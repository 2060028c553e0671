---------------------------- MODULE ThreadEvents ----------------------------
(***************************************************************************)
(* The thread's event log as the runtime writes it and reads it back: the  *)
(* events a turn appends, and the questions resume and the actor ask of a  *)
(* log.  A log is a sequence of events; an event's id is its place in the  *)
(* log.  Text, times, prices and attribution beyond "whose doing it was"   *)
(* are left out.                                                           *)
(***************************************************************************)
EXTENDS Naturals, Sequences, SequencesExt

(* A tool call of a reply: its id, unique in the log, and the kind of tool.*)
(*   plain            runs without asking anyone                           *)
(*   gated            runs once a person allowed it                        *)
(*   ask_human        a question to a person                               *)
(*   suggest_project  a proposal to move the thread to another project     *)
(*   start_job        a proposal to start a background job                 *)
AllTools == {"plain", "gated", "ask_human", "suggest_project", "start_job"}
Proposals == {"suggest_project", "start_job"}
-----------------------------------------------------------------------------
(* The events.                                                             *)
UserMessage(p, mid, steer) ==
  [kind |-> "user_message", post |-> p, mid_turn |-> mid, steer |-> steer]

AssistantMessage(calls) == [kind |-> "assistant_message", calls |-> calls]

(* origin: what the result records.  "ran" and "killed" are the tool's own *)
(* run, "answer" a person's answer, the others say why nothing ran.        *)
ToolResult(id, origin) ==
  [kind |-> "tool_result", call |-> id, origin |-> origin]

PermissionRequested(id) == [kind |-> "permission_requested", call |-> id]

PermissionDecided(id, allow, by) ==
  [kind |-> "permission_decided", call |-> id, allow |-> allow, by |-> by]

(* source: "turn" for a call's own, "startup" for the proposal raised when *)
(* a thread is opened, "ask" for the choice recorded before that; the last *)
(* two belong to no call.                                                  *)
DecisionProposed(source, call) ==
  [kind |-> "decision_proposed", source |-> source, call |-> call]

DecisionAnswered(proposal, answer) ==
  [kind |-> "decision_answered", proposal |-> proposal, answer |-> answer]

ProjectSwitched(to) == [kind |-> "project_switched", to |-> to]
ProviderRetried == [kind |-> "provider_retried"]
JobFinished(job) == [kind |-> "job_finished", job |-> job]
Interrupted(by) == [kind |-> "interrupted", by |-> by]
TurnEnded(reason) == [kind |-> "turn_ended", reason |-> reason]

-----------------------------------------------------------------------------
(* What a log holds.                                                       *)
Events(log, kind) == {i \in DOMAIN log : log[i].kind = kind}

CallsOf(log) ==
  UNION {ToSet(log[i].calls) : i \in Events(log, "assistant_message")}

PostsOf(log) == {log[i].post : i \in Events(log, "user_message")}

ResultsOf(log, id) == {i \in Events(log, "tool_result") : log[i].call = id}

AnswersTo(log, proposal) ==
  {i \in Events(log, "decision_answered") : log[i].proposal = proposal}

JobReturned(log, job) ==
  \E i \in Events(log, "job_finished") : log[i].job = job

LastSwitch(log) == SelectLastInSeq(log, LAMBDA e : e.kind = "project_switched")

(* The project the log says the thread is in.                              *)
LoggedProject(log, home) ==
  IF LastSwitch(log) = 0 THEN home ELSE log[LastSwitch(log)].to

(* A start-up proposal the person declined since the thread last moved is  *)
(* not raised again.                                                       *)
DeclinedAtStartup(log) ==
  \E i \in Events(log, "decision_proposed") :
     /\ i > LastSwitch(log) /\ log[i].source = "startup"
     /\ \E j \in AnswersTo(log, i) : log[j].answer \in {"no", "corrected"}

-----------------------------------------------------------------------------
(* The open turn: what follows the last turn_ended, if a turn's own event  *)
(* is there.                                                               *)
LastEnd(log) == SelectLastInSeq(log, LAMBDA e : e.kind = "turn_ended")

Open(log) == LastEnd(log) + 1 .. Len(log)

IsTurnEvent(e) ==
  e.kind \in {"user_message", "assistant_message", "tool_result"}

TurnIsOpen(log) == \E i \in Open(log) : IsTurnEvent(log[i])

LastTurnEvent(log) == log[SelectLastInSeq(log, IsTurnEvent)]

LostTurnEnded(log) ==
  /\ LastTurnEvent(log).kind = "assistant_message"
  /\ LastTurnEvent(log).calls = <<>>

(* Mutant: the answers already written are not looked at.                  *)
OpenProposalsAnsweredToo(log) ==
  {i \in Open(log) : log[i].kind = "decision_proposed"}

(* Proposals of the tail that nobody answered.                             *)
OpenProposals(log) ==
  {i \in Open(log) : log[i].kind = "decision_proposed"
                     /\ AnswersTo(log, i) \intersect Open(log) = {}}

(* The open turn's last reply, and its calls that have no result yet.      *)
LastReply(log) ==
  SelectLastInSubSeq(log, LastEnd(log) + 1, Len(log),
                     LAMBDA e : e.kind = "assistant_message")

(* Mutant: the results already written are not looked at.                  *)
UnansweredAll(log) ==
  IF LastReply(log) = 0 THEN {} ELSE ToSet(log[LastReply(log)].calls)

Unanswered(log) ==
  IF LastReply(log) = 0 THEN {}
  ELSE {c \in ToSet(log[LastReply(log)].calls) :
          \A i \in ResultsOf(log, c.id) : i < LastReply(log)}

AwaitingContinuation(log) ==
  log /= <<>> /\ Last(log) = TurnEnded("asked_human")
=============================================================================
