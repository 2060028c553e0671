------------------------------- MODULE Runner -------------------------------
(***************************************************************************)
(* One workflow run (runtime/src/runner/mod.rs): a lead log, the children  *)
(* the run's steps work in, the repository and the issue.  A move reads    *)
(* the lead's folded state and becomes a list of effects, todo; each       *)
(* effect is one write or one call to the world, and the daemon may die    *)
(* between any two of them.  A runner rebuilt over the same log moves on   *)
(* from what the log says.                                                 *)
(***************************************************************************)
EXTENDS RunState, Integers

CONSTANTS
    Workflows,      \* the workflows a run may be started with
    Figures,        \* the figures a person may raise a gate to
    Proposals,      \* the budgets a routing report may propose, 0 for none
    Faults,         \* which of "render", "checks", "install", "ci", "push",
                    \* "remote", "rival", "refused" may go wrong
    MaxCalls,       \* model calls in one attempt
    MaxAnswers,     \* answers people give
    MaxMishaps      \* crashes, failed calls, dead turns and rivals' doings

ASSUME FiguresAssumption == Figures \subseteq Nat \ {0} /\ Proposals \subseteq Nat
ASSUME BoundsAssumption ==
    MaxCalls \in Nat \ {0} /\ MaxAnswers \in Nat /\ MaxMishaps \in Nat

VARIABLES
    wf,         \* the workflow, loaded by the run's recorded name
    lead,       \* the lead thread's log
    st,         \* its fold
    up,         \* a task drives the run
    held,       \* the runner's own guard on the write lock
    lock,       \* the repository's entry in WRITE_LOCKS
    todo,       \* the effects the current move still has to do
    turn,       \* the child turn the current move waits on
    children,   \* each child's log
    head, remote,   \* the branch here and at its remote
    posted, issueOpen,  \* the issue's tagged comments, and whether it is open
    answers, mishaps    \* how many answers were given and mishaps met

vars == <<wf, lead, st, up, held, lock, todo, turn, children, head, remote,
          posted, issueOpen, answers, mishaps>>
world == <<children, head, remote, posted, issueOpen>>
log == <<lead, st>>
counts == <<answers, mishaps>>

NoTurn == [step |-> None, attempt |-> 0, child |-> 0, capped |-> FALSE, left |-> 0]
Stranger == -1      \* a commit at the remote that is not this run's

-----------------------------------------------------------------------------
(* Effects *)
Write(e) == [do |-> "write", event |-> e]
Ask(gate, options) == [do |-> "ask", gate |-> gate, options |-> options]
Escalate(gate) == Ask(gate, {"stop"})
Finish(outcome) == [do |-> "finish", outcome |-> outcome]
Do(what, s, n, c) == [do |-> what, step |-> s, attempt |-> n, child |-> c]
Comment(tag) == [do |-> "comment", tag |-> tag]
Fail == [do |-> "fail"]     \* the move returns an error

(* Events of the lead log *)
AnsweredEvent(word, usd) == [kind |-> "checkpoint_answered", answer |-> word, usd |-> usd]
RaisedEvent(usd, s) == [kind |-> "budget_raised", usd |-> usd, step |-> s]
Route(word, taken, usd) ==
    [kind |-> "route_taken", proposed |-> word, taken |-> taken, usd |-> usd]

-----------------------------------------------------------------------------
(* Reading a child's log: a call costs one unit. *)
Child(c) == IF c \in DOMAIN children THEN children[c] ELSE <<>>
Prompts(c) == {i \in DOMAIN Child(c) : Child(c)[i].k = "prompt"}
(* Mutant: every attempt reads from the child's first prompt. *)
PromptAtFirst(c, n) == IF Prompts(c) = {} THEN 0 ELSE Min(Prompts(c))

PromptAt(c, n) ==
    Max({0} \cup {i \in Prompts(c) : Cardinality({j \in Prompts(c) : j <= i}) = n})
IsPrompted(c, n) == PromptAt(c, n) # 0
(* Mutant: an attempt reads the whole log of its child. *)
SinceStart(c, n, k) == {i \in DOMAIN Child(c) : Child(c)[i].k = k}

(* Where an attempt's events of one kind are: from its prompt on, or in    *)
(* the whole log when no prompt of that number is there.                   *)
Since(c, n, k) == {i \in PromptAt(c, n)..Len(Child(c)) : i # 0 /\ Child(c)[i].k = k}
LastSince(c, n, k) == Max({0} \cup Since(c, n, k))
SpentSince(c, n) == Cardinality(Since(c, n, "call"))

(* Reading the lead's log *)
LeadHas(Test(_)) == {i \in DOMAIN lead : Test(lead[i])}
(* Mutant: a prompt is due whenever the step is picked up again. *)
PromptDueAgain(s, n, c) ==
    Cardinality(Prompts(c)) <=
    Cardinality(LeadHas(LAMBDA e : /\ e.kind = "step_started"
                                   /\ e.step = s /\ e.child = c /\ e.attempt <= n))

PromptDue(s, n, c) ==
    Cardinality(Prompts(c)) <
    Cardinality(LeadHas(LAMBDA e : /\ e.kind = "step_started"
                                   /\ e.step = s /\ e.child = c /\ e.attempt <= n))
AttemptReported(c, n) == Since(c, n, "report") # {}
AttemptSpend(c, n) == IF IsPrompted(c, n) THEN SpentSince(c, n) ELSE 0
Offered(gate, word) ==
    LET asks == LeadHas(LAMBDA e : e.kind = "checkpoint_asked" /\ e.gate = gate)
    IN  asks # {} /\ word \in lead[Max(asks)].options
FailedRuns(s) ==
    Cardinality(LeadHas(LAMBDA e : /\ e.kind = "checks_run"
                                   /\ e.step = s /\ e.outcome = "fail"))
StartRecord(s) ==
    lead[Min(LeadHas(LAMBDA e : e.kind = "step_started" /\ e.step = s /\ e.attempt = 1))]
PartialAttempts(s, n) ==
    Cardinality({i \in DOMAIN st.steps : /\ st.steps[i].step = s
                                         /\ st.steps[i].attempt < n
                                         /\ st.steps[i].status = "partial"})
ReportOf(s, n) ==
    LET i == RecordOf(st, s, n)
    IN  IF i = 0 \/ st.steps[i].report = 0
        THEN {}
        ELSE {Child(st.steps[i].child)[st.steps[i].report]}
LastReport(s) ==
    IF Newest(st, s) = 0 THEN {} ELSE ReportOf(s, st.steps[Newest(st, s)].attempt)
NewChild == 1 + Cardinality({st.steps[i].child : i \in DOMAIN st.steps})

-----------------------------------------------------------------------------
(* Figures: a run asks at four fifths of its budget, a step at its whole. *)
AtAskLine(cost, budget) == budget > 0 /\ 5 * cost >= 4 * budget
BudgetGuard == AtAskLine(st.cost, st.budget)
ParkAtBudget == <<Ask(BudgetGate, {"raise", "stop"})>>
ClearsBudget(usd) == usd > st.budget /\ 5 * st.cost < 4 * usd

OwnFigure(s, n) ==
    IF StepFigure(st, s, n) > 0 THEN StepFigure(st, s, n) ELSE wf.steps[s].figure

(* Mutant: what earlier attempts spent is not taken off the figure. *)
StepRoomOfAttempt(s, n, c) ==
    LET own == OwnFigure(s, n)
        spent == AttemptSpend(c, n)
    IN  IF own > 0
        THEN [capped |-> TRUE, own |-> TRUE, left |-> 5 * (own - spent)]
        ELSE [capped |-> st.budget > 0, own |-> FALSE,
              left |-> 4 * st.budget - 5 * (st.cost + spent)]

(* What a turn may still spend, in fifths: capped by the step's own figure *)
(* or by the run's room.                                                   *)
StepRoom(s, n, c) ==
    LET own == OwnFigure(s, n)
        spent == AttemptSpend(c, n)
    IN  IF own > 0
        THEN [capped |-> TRUE, own |-> TRUE, left |-> 5 * (own - StepSpend(st, s) - spent)]
        ELSE [capped |-> st.budget > 0, own |-> FALSE,
              left |-> 4 * st.budget - 5 * (st.cost + spent)]
Spent(room) == room.capped /\ room.left <= 0
ParkAtStepStop == <<Ask(StepStop, {"raise", "stop"})>>
ParkSpent(room) == IF room.own THEN ParkAtStepStop ELSE ParkAtBudget

-----------------------------------------------------------------------------
(* What each move decides, as the effects it will do. *)

AnswersItself(s) ==
    \E r \in IF wf.steps[s].decidedBy = None THEN {} ELSE LastReport(wf.steps[s].decidedBy) :
        r.go

StartedEvent(s, n, c) ==
    LET first == wf.steps[s].writes /\ n = 1
    IN  [kind |-> "step_started", step |-> s, attempt |-> n, child |-> c,
         declared |-> wf.steps[s].figure,
         head |-> IF first THEN head ELSE 0, remote |-> IF first THEN remote ELSE 0]

LockFor(s) == IF wf.steps[s].writes THEN <<Do("lock", s, 0, 0)>> ELSE <<>>

(* start_step: c is the child an earlier attempt used, 0 for a fresh one. *)
StartStep(s, n, c) ==
    LET step == wf.steps[s]
        room == StepRoom(s, n, c)
        child == IF c = 0 THEN NewChild ELSE c
    IN  CASE BudgetGuard -> ParkAtBudget
          [] ~BudgetGuard /\ Spent(room) /\ room.own -> ParkAtStepStop
          [] ~BudgetGuard /\ ~(Spent(room) /\ room.own) /\ step.checkpoint ->
               <<Ask(s, {"go", "amend", "stop"})>> \o
               IF AnswersItself(s) THEN <<Write(AnsweredEvent("go", 0))>> ELSE <<>>
          [] OTHER ->
               LockFor(s) \o <<Write(StartedEvent(s, n, child))>>
               \o IF c = 0 THEN <<Do("create", s, n, child)>> ELSE <<>>

(* Mutant: a step picked up again does not take the write lock. *)
ReAwaitUnlocked(s, n, c) ==
    LET room == StepRoom(s, n, c)
    IN  CASE BudgetGuard -> ParkAtBudget
          [] ~BudgetGuard /\ Spent(room) -> ParkSpent(room)
          [] OTHER ->
               (IF PromptDue(s, n, c)
                THEN <<Do("create", s, n, c), Do("prompt", s, n, c)>>
                ELSE IF AttemptReported(c, n) THEN <<>> ELSE <<Do("resume", s, n, c)>>)
               \o <<Do("apply", s, n, c)>>

(* Mutant: a turn a crash cut is not picked up, only its end looked for. *)
ReAwaitNoResume(s, n, c) ==
    LET room == StepRoom(s, n, c)
    IN  CASE BudgetGuard -> ParkAtBudget
          [] ~BudgetGuard /\ Spent(room) -> ParkSpent(room)
          [] OTHER ->
               LockFor(s)
               \o (IF PromptDue(s, n, c)
                   THEN <<Do("create", s, n, c), Do("prompt", s, n, c)>>
                   ELSE <<>>)
               \o <<Do("apply", s, n, c)>>

ReAwait(s, n, c) ==
    LET room == StepRoom(s, n, c)
    IN  CASE BudgetGuard -> ParkAtBudget
          [] ~BudgetGuard /\ Spent(room) -> ParkSpent(room)
          [] OTHER ->
               LockFor(s)
               \o (IF PromptDue(s, n, c)
                   THEN <<Do("create", s, n, c), Do("prompt", s, n, c)>>
                   ELSE IF AttemptReported(c, n) THEN <<>> ELSE <<Do("resume", s, n, c)>>)
               \o <<Do("apply", s, n, c)>>

FollowNext(s) ==
    CASE wf.steps[s].next = "done" -> <<Finish("closed")>>
      [] wf.steps[s].next = None -> <<Escalate("no_next_step")>>
      [] OTHER -> <<Write(Route("next", wf.steps[s].next, 0))>>

PushAndInstall(s, n) ==
    <<Do("weigh", s, n, 0)>>
    \o (IF wf.steps[s].install THEN <<Do("install", s, n, 0)>> ELSE <<>>)
    \o <<Write([kind |-> "pushed", step |-> s, after |-> head])>>

Handover(s, n, outcome) ==
    IF ~wf.steps[s].checks
    THEN PushAndInstall(s, n)
    ELSE IF outcome = "error"
         THEN <<Escalate("checks_error")>>
         ELSE <<Write([kind |-> "checks_run", step |-> s, outcome |-> outcome])>>

(* Mutant: the ask above the ceiling comes before the route. *)
TakeRouteAsksFirst(s, report) ==
    LET routes == wf.steps[s].routes
        over == wf.ceiling > 0 /\ report.usd > wf.ceiling
    IN  IF report.word \notin DOMAIN routes
        THEN <<Escalate("route_escalate")>>
        ELSE (IF over THEN ParkAtBudget ELSE <<>>)
             \o <<Write(Route(report.word, routes[report.word],
                              IF over THEN st.budget ELSE report.usd))>>

(* A routed step writes the route before it follows it; a proposal above   *)
(* the ceiling leaves the budget as it is and asks in the same move.       *)
TakeRoute(s, report) ==
    LET routes == wf.steps[s].routes
        over == wf.ceiling > 0 /\ report.usd > wf.ceiling
    IN  IF report.word \notin DOMAIN routes
        THEN <<Escalate("route_escalate")>>
        ELSE <<Write(Route(report.word, routes[report.word],
                           IF over THEN st.budget ELSE report.usd))>>
             \o IF over THEN ParkAtBudget ELSE <<>>

AfterStep(s, n, outcome) ==
    LET step == wf.steps[s]
        c == st.steps[RecordOf(st, s, n)].child
        status == st.steps[RecordOf(st, s, n)].status
    IN  CASE status = "done" /\ ReportOf(s, n) = {} -> <<Escalate(StepStop)>>
          [] status = "done" /\ ReportOf(s, n) # {} ->
               <<Comment(<<s, n>>)>> \o
               (CASE DOMAIN step.routes # {} ->
                       TakeRoute(s, CHOOSE r \in ReportOf(s, n) : TRUE)
                  [] DOMAIN step.routes = {} /\ (step.push \/ step.checks) ->
                       Handover(s, n, outcome)
                  [] OTHER -> FollowNext(s))
          [] status = "partial" ->
               IF PartialAttempts(s, n) = 0 THEN StartStep(s, n + 1, c)
                                            ELSE <<Escalate(StepStop)>>
          [] OTHER (* failed *) -> <<Escalate(StepStop)>>

FollowRoute ==
    CASE st.route.taken = "ask" -> <<Escalate("route")>>
      [] st.route.taken = "done" ->
           (IF st.route.proposed = "approve" THEN <<Do("approve", None, 0, 0)>> ELSE <<>>)
           \o <<Finish("closed")>>
      [] st.route.taken \in DOMAIN wf.steps -> StartStep(st.route.taken, 1, 0)
      [] OTHER -> <<Escalate("route_escalate")>>

(* Mutant: a second failure of the checks is let through. *)
ChecksDoneLetsThrough(s, n) ==
    LET c == st.steps[RecordOf(st, s, n)].child
        checked == st.steps[RecordOf(st, s, n)].checks
    IN  LockFor(s) \o
        CASE checked = "fail" /\ FailedRuns(s) <= 1 -> StartStep(s, n + 1, c)
          [] OTHER -> PushAndInstall(s, n)

(* Mutant: the checks may fail twice before a person is asked. *)
ChecksDoneTwice(s, n) ==
    LET c == st.steps[RecordOf(st, s, n)].child
        checked == st.steps[RecordOf(st, s, n)].checks
    IN  LockFor(s) \o
        CASE checked = "pass" /\ ~wf.steps[s].push -> <<Escalate("no_push")>>
          [] checked = "pass" /\ wf.steps[s].push -> PushAndInstall(s, n)
          [] checked = "fail" /\ FailedRuns(s) <= 2 -> StartStep(s, n + 1, c)
          [] OTHER -> <<Ask("checks_failed", {"retry", "stop"})>>

ChecksDone(s, n) ==
    LET c == st.steps[RecordOf(st, s, n)].child
        checked == st.steps[RecordOf(st, s, n)].checks
    IN  LockFor(s) \o
        CASE checked = "pass" /\ ~wf.steps[s].push -> <<Escalate("no_push")>>
          [] checked = "pass" /\ wf.steps[s].push -> PushAndInstall(s, n)
          [] checked = "fail" /\ FailedRuns(s) <= 1 -> StartStep(s, n + 1, c)
          [] OTHER -> <<Ask("checks_failed", {"retry", "stop"})>>

AfterPushed(s) ==
    LockFor(s)
    \o (IF wf.steps[s].ci THEN <<Do("ci", s, 0, 0)>> ELSE <<>>)
    \o IF wf.steps[s].next = "done"
       THEN <<Comment(<<"close", 0>>), Do("close", s, 0, 0), Finish("closed")>>
       ELSE FollowNext(s)

(* retry at checks_failed goes on in the same child, one attempt on. *)
RetryAttempt ==
    LET s == lead[Max(LeadHas(LAMBDA e : e.kind = "checks_run"))].step
        record == st.steps[Newest(st, s)]
    IN  StartStep(s, record.attempt + 1, record.child)

(* Mutant: the fresh child starts the count of attempts again. *)
RetryFailedStepFirst ==
    LET finished == lead[Max(LeadHas(LAMBDA e : e.kind = "step_finished"))]
    IN  IF finished.status # "failed"
        THEN <<Fail>>
        ELSE StartStep(finished.step, 1, 0)

(* retry at step_stop starts afresh, in a child the step never used. *)
RetryFailedStep ==
    LET finished == lead[Max(LeadHas(LAMBDA e : e.kind = "step_finished"))]
    IN  IF finished.status # "failed"
        THEN <<Fail>>
        ELSE StartStep(finished.step, st.steps[Newest(st, finished.step)].attempt + 1, 0)

ActOnAnswer ==
    LET gate == st.answered.gate
        answer == st.answered.answer
        usd == st.answered.usd
        raisesStep == gate = StepStop /\ answer = "raise" /\ Offered(StepStop, "raise")
        checkpoint == gate \in DOMAIN wf.steps /\ wf.steps[gate].checkpoint
    IN  CASE answer = "stop" -> <<Finish("stopped")>>
          [] answer = "raise" /\ gate = BudgetGate ->
               IF ClearsBudget(usd) THEN <<Write(RaisedEvent(usd, None))>> ELSE <<Fail>>
          [] raisesStep ->
               IF ParkedStep(st) # None /\ usd > StepSpend(st, ParkedStep(st))
               THEN <<Write(RaisedEvent(usd, ParkedStep(st)))>>
               ELSE <<Fail>>
          [] answer # "stop" /\ checkpoint -> FollowNext(gate)
          [] answer = "retry" /\ gate = "checks_failed" -> RetryAttempt
          [] answer = "retry" /\ gate = StepStop /\ Offered(StepStop, "retry") ->
               RetryFailedStep
          [] OTHER -> <<Fail>>

-----------------------------------------------------------------------------
(* Moves: each reads the fold and decides its effects. *)

Idle == up /\ todo = <<>> /\ turn = NoTurn
(* The move the log calls for, if it is this one. *)
Due(move) == {m \in {NextMove(st)} : Idle /\ ~st.broken /\ m.do = move}
At(move) == Due(move) # {}
Decide(plan) ==
    /\ todo' = plan
    /\ UNCHANGED <<wf, log, up, held, lock, turn, world, counts>>

StartFirstStep == At("StartFirstStep") /\ Decide(StartStep(wf.first, 1, 0))
ReAwaitChild ==
    \E m \in Due("ReAwait") : Decide(ReAwait(m.step, m.attempt, m.child))
EndStep ==
    \E m \in Due("AfterStep"),
       outcome \in {"pass", "fail"} \cup (IF "checks" \in Faults THEN {"error"} ELSE {}) :
        Decide(AfterStep(m.step, m.attempt, outcome))
Follow == At("FollowRoute") /\ Decide(FollowRoute)
ActOnChecks ==
    \E m \in Due("ChecksDone") : Decide(ChecksDone(m.step, m.attempt))
ActOnPush == \E m \in Due("Pushed") : Decide(AfterPushed(m.step))
ActOnWord == At("Answered") /\ Decide(ActOnAnswer)

(* A slot no report filled stops the run before the step starts. *)
RenderFails ==
    /\ "render" \in Faults /\ todo # <<>> /\ Head(todo).do \in {"write", "lock"}
    /\ st.last \in {"run_started", "route_taken"}
    /\ \E i \in DOMAIN todo :
          todo[i].do = "write" /\ todo[i].event.kind = "step_started"
    /\ todo' = <<Escalate("render_failed")>>
    /\ UNCHANGED <<wf, log, up, held, lock, turn, world, counts>>

-----------------------------------------------------------------------------
(* Effects: each is the head of todo. *)

Doing(what) == up /\ turn = NoTurn /\ todo # <<>> /\ Head(todo).do = what
Appends(e) == lead' = Append(lead, e) /\ st' = After(st, e)
Unlock == held' = FALSE /\ lock' = IF held THEN "free" ELSE lock
Mishap == mishaps < MaxMishaps /\ mishaps' = mishaps + 1
(* The task ends, and the runner's guard with it. *)
Ends == up' = FALSE /\ todo' = <<>> /\ turn' = NoTurn /\ Unlock
(* note_run_error: once between two steps, and nothing on an unreadable log. *)
Notes == IF st.errored \/ st.broken
         THEN UNCHANGED log
         ELSE Appends([kind |-> "run_errored"])

WriteEvent ==
    /\ Doing("write")
    /\ Appends(Head(todo).event) /\ todo' = Tail(todo)
    /\ UNCHANGED <<wf, up, held, lock, turn, world, counts>>

AskPerson ==
    /\ Doing("ask")
    /\ Appends([kind |-> "checkpoint_asked", gate |-> Head(todo).gate,
                options |-> Head(todo).options])
    /\ todo' = Tail(todo) /\ Unlock
    /\ UNCHANGED <<wf, up, turn, world, counts>>

FinishRun ==
    /\ Doing("finish")
    /\ Appends([kind |-> "run_finished", outcome |-> Head(todo).outcome])
    /\ todo' = Tail(todo) /\ Unlock
    /\ UNCHANGED <<wf, up, turn, world, counts>>

FailMove ==
    /\ Doing("fail")
    /\ Notes /\ Ends
    /\ UNCHANGED <<wf, world, counts>>

TakeWriteLock ==
    /\ Doing("lock")
    /\ IF held \/ lock # "other"
       THEN held' = TRUE /\ lock' = "mine" /\ todo' = Tail(todo)
       ELSE todo' = <<Escalate("write_lock")>> /\ UNCHANGED <<held, lock>>
    /\ UNCHANGED <<wf, log, up, turn, world, counts>>

CreateChild ==
    /\ Doing("create")
    /\ children' = IF Head(todo).child \in DOMAIN children
                   THEN children ELSE Append(children, <<>>)
    /\ todo' = Tail(todo)
    /\ UNCHANGED <<wf, log, up, held, lock, turn, head, remote, posted, issueOpen, counts>>

Begin(e) ==
    LET room == StepRoom(e.step, e.attempt, e.child)
    IN  turn' = [step |-> e.step, attempt |-> e.attempt, child |-> e.child,
                 capped |-> room.capped, left |-> room.left]

PostPrompt ==
    /\ Doing("prompt")
    /\ Begin(Head(todo)) /\ todo' = Tail(todo)
    /\ children' = [children EXCEPT ![Head(todo).child] = Append(@, [k |-> "prompt"])]
    /\ UNCHANGED <<wf, log, up, held, lock, head, remote, posted, issueOpen, counts>>

(* A turn a crash cut is picked up and continued, held to what is left of  *)
(* the figure; one that had ended is left alone.                           *)
ResumeChild ==
    /\ Doing("resume")
    /\ LET e == Head(todo)
           cut == Last(Child(e.child)).k # "end"
           room == StepRoom(e.step, e.attempt, e.child)
       IN  IF cut /\ Spent(room)
           THEN todo' = ParkSpent(room) /\ UNCHANGED turn
           ELSE /\ todo' = Tail(todo)
                /\ IF cut THEN Begin(e) ELSE UNCHANGED turn
    /\ UNCHANGED <<wf, log, up, held, lock, world, counts>>

(* apply_end: the report this attempt wrote is its outcome, else how its   *)
(* turn ended; a turn that died is written down and then asked about.      *)
EndOf(s, n, c) ==
    LET report == LastSince(c, n, "report")
        end == LastSince(c, n, "end")
        status == Child(c)[report].status
        reason == Child(c)[end].reason
        finished(as, why, r) ==
            Write([kind |-> "step_finished", step |-> s, status |-> as,
                   reason |-> why, cost |-> SpentSince(c, n), report |-> r])
    IN  CASE report # 0 /\ status = "empty" -> <<finished("partial", "empty report", 0)>>
          [] report # 0 /\ status # "empty" -> <<finished(status, "reported", report)>>
          [] report = 0 /\ end = 0 -> <<Fail>>
          [] OTHER ->
               CASE reason = "reported" -> <<Fail>>
                 [] reason \in {"done", "max_usd"} -> <<finished("partial", reason, 0)>>
                 [] OTHER ->
                      <<finished("failed", reason, 0),
                        Ask(StepStop, IF reason = "fault" THEN {"retry", "stop"}
                                                          ELSE {"stop"})>>

ApplyEnd ==
    /\ Doing("apply")
    /\ LET e == Head(todo) IN todo' = EndOf(e.step, e.attempt, e.child)
    /\ UNCHANGED <<wf, log, up, held, lock, turn, world, counts>>

(* Mutant: the issue is not searched for the comment's tag. *)
PostCommentAgain ==
    /\ Doing("comment")
    /\ posted' = Append(posted, Head(todo).tag)
    /\ todo' = Tail(todo)
    /\ UNCHANGED <<wf, log, up, held, lock, turn, children, head, remote, issueOpen, counts>>

PostComment ==
    /\ Doing("comment")
    /\ posted' = IF Head(todo).tag \in Range(posted) THEN posted
                 ELSE Append(posted, Head(todo).tag)
    /\ todo' = Tail(todo)
    /\ UNCHANGED <<wf, log, up, held, lock, turn, children, head, remote, issueOpen, counts>>

(* The push is decided from the remote as it is read here: already at this *)
(* head, moved since the step's first attempt, or where that attempt left  *)
(* it.                                                                     *)
WeighPush ==
    /\ Doing("weigh")
    /\ todo' = CASE remote = head -> Tail(todo)
                 [] remote # head /\ remote # StartRecord(Head(todo).step).remote ->
                      <<Escalate("remote_moved")>>
                 [] OTHER -> <<[Head(todo) EXCEPT !.do = "push"]>> \o Tail(todo)
    /\ UNCHANGED <<wf, log, up, held, lock, turn, world, counts>>

(* A plain push: the remote refuses it when it holds commits this run does *)
(* not, and a hook or the network may refuse it at any time.               *)
PushBranch ==
    /\ Doing("push")
    /\ \/ /\ remote # Stranger
          /\ remote' = head /\ todo' = Tail(todo)
       \/ /\ remote = Stranger \/ "push" \in Faults
          /\ todo' = <<Escalate("push_error")>> /\ UNCHANGED remote
    /\ UNCHANGED <<wf, log, up, held, lock, turn, children, head, posted, issueOpen, counts>>

InstallBinary ==
    /\ Doing("install")
    /\ \/ todo' = Tail(todo)
       \/ "install" \in Faults /\ todo' = <<Escalate("install_mismatch")>>
    /\ UNCHANGED <<wf, log, up, held, lock, turn, world, counts>>

WaitForCi ==
    /\ Doing("ci")
    /\ \/ todo' = Tail(todo)
       \/ /\ "ci" \in Faults
          /\ \E gate \in {"ci_failed", "ci_missing", "ci_timeout"} :
                todo' = <<Escalate(gate)>>
    /\ UNCHANGED <<wf, log, up, held, lock, turn, world, counts>>

CloseIssue ==
    /\ Doing("close") \/ Doing("approve")
    /\ \/ issueOpen' = FALSE /\ UNCHANGED mishaps
       \/ Doing("approve") /\ Mishap /\ UNCHANGED issueOpen
    /\ todo' = Tail(todo)
    /\ UNCHANGED <<wf, log, up, held, lock, turn, children, head, remote, posted, answers>>

(* A call to the forge, the host or the installer fails: the move is given *)
(* up and the task ends.  A comment may have been posted all the same.     *)
CallFails ==
    /\ up /\ turn = NoTurn /\ todo # <<>> /\ Mishap
    /\ Head(todo).do \in {"create", "prompt", "resume", "comment", "close", "install", "ci"}
    /\ Notes /\ Ends
    /\ posted' \in {posted} \cup
         IF Head(todo).do = "comment" /\ Head(todo).tag \notin Range(posted)
         THEN {Append(posted, Head(todo).tag)} ELSE {}
    /\ UNCHANGED <<wf, children, head, remote, issueOpen, answers>>

-----------------------------------------------------------------------------
(* The child's turn, and people and the world around the run. *)

Events == Child(turn.child)
Adds(e) == children' = [children EXCEPT ![turn.child] = Append(@, e)]
LastIs(k) == Last(Events).k = k

ChildCalls ==
    /\ turn # NoTurn /\ ~LastIs("report") /\ ~(turn.capped /\ turn.left <= 0)
    /\ SpentSince(turn.child, Cardinality(Prompts(turn.child))) < MaxCalls
    /\ Adds([k |-> "call"])
    /\ turn' = [turn EXCEPT !.left = IF turn.capped THEN @ - 5 ELSE @]
    /\ UNCHANGED <<wf, log, up, held, lock, todo, head, remote, posted, issueOpen, counts>>

(* What a step may report, told apart only where a move reads it. *)
Reports(s) ==
    LET routed == DOMAIN wf.steps[s].routes # {}
        decides == \E d \in DOMAIN wf.steps : wf.steps[d].decidedBy = s
        report(status, word, usd, go) ==
            [k |-> "report", status |-> status, word |-> word, usd |-> usd, go |-> go]
    IN  {report(status, None, 0, FALSE) : status \in {"partial", "empty"}}
        \cup {report("done", word, usd, go) :
                word \in IF routed THEN DOMAIN wf.steps[s].routes \cup {"other"} ELSE {None},
                usd \in IF routed THEN Proposals ELSE {0},
                go \in IF decides THEN BOOLEAN ELSE {FALSE}}

(* finish_step is a call's tool; a writing step has committed by then. *)
ChildReports ==
    /\ turn # NoTurn /\ LastIs("call")
    /\ \E report \in Reports(turn.step) : Adds(report)
    /\ head' = IF wf.steps[turn.step].writes THEN head + 1 ELSE head
    /\ UNCHANGED <<wf, log, up, held, lock, todo, turn, remote, posted, issueOpen, counts>>

ChildEnds ==
    /\ turn # NoTurn
    /\ \/ LastIs("report") /\ Adds([k |-> "end", reason |-> "reported"])
       \/ LastIs("call") /\ Adds([k |-> "end", reason |-> "done"])
       \/ /\ LastIs("call") /\ turn.capped /\ turn.left <= 0
          /\ Adds([k |-> "end", reason |-> "max_usd"])
    /\ turn' = NoTurn
    /\ UNCHANGED <<wf, log, up, held, lock, todo, head, remote, posted, issueOpen, counts>>

(* A provider error ends the turn, and the error ends the move. *)
ChildDies ==
    /\ turn # NoTurn /\ ~LastIs("report") /\ ~(turn.capped /\ turn.left <= 0)
    /\ Mishap
    /\ \E reason \in {"fault"} \cup ({"refused"} \cap Faults) :
          Adds([k |-> "end", reason |-> reason])
    /\ Notes /\ Ends
    /\ UNCHANGED <<wf, head, remote, posted, issueOpen, answers>>

(* A person answers the standing ask with a word it offered; a raise that  *)
(* would not clear the gate is refused and writes nothing.                 *)
Answer ==
    /\ At("AwaitingCheckpoint") /\ answers < MaxAnswers
    /\ \E word \in Last(SelectSeq(lead, LAMBDA e : e.kind = "checkpoint_asked")).options,
          usd \in Figures :
          /\ word # "raise" => usd = Min(Figures)
          /\ word = "raise" /\ st.pending = BudgetGate => ClearsBudget(usd)
          /\ word = "raise" /\ st.pending = StepStop => usd > StepSpend(st, ParkedStep(st))
          /\ Appends(AnsweredEvent(word, IF word = "raise" THEN usd ELSE 0))
    /\ answers' = answers + 1
    /\ UNCHANGED <<wf, up, held, lock, todo, turn, world, mishaps>>

(* A log the fold refuses stops every task that opens it. *)
StopUnreadable ==
    /\ Idle /\ st.broken
    /\ Ends
    /\ UNCHANGED <<wf, log, world, counts>>

(* A task over a run that has ended has nothing left to do. *)
LeaveFinished ==
    /\ At("Done")
    /\ Ends
    /\ UNCHANGED <<wf, log, world, counts>>

(* A start-up scan, a build or an answer drives an unfinished run again. *)
Start ==
    /\ ~up /\ st.outcome = None
    /\ up' = TRUE
    /\ UNCHANGED <<wf, log, held, lock, todo, turn, world, counts>>

Crash ==
    /\ up /\ Mishap
    /\ up' = FALSE /\ todo' = <<>> /\ turn' = NoTurn
    /\ held' = FALSE /\ lock' = "free"
    /\ UNCHANGED <<wf, log, world, answers>>

(* Another lead's writing step in the same repository. *)
RivalLocks ==
    /\ "rival" \in Faults 
    /\ \/ lock = "free" /\ lock' = "other" /\ Mishap
       \/ lock = "other" /\ lock' = "free" /\ UNCHANGED mishaps
    /\ UNCHANGED <<wf, log, up, held, todo, turn, world, answers>>

RemoteMoves ==
    /\ "remote" \in Faults /\ remote # Stranger
    /\ remote' = Stranger /\ Mishap
    /\ UNCHANGED <<wf, log, up, held, lock, todo, turn, children, head, posted, issueOpen, answers>>

-----------------------------------------------------------------------------
Init ==
    /\ wf \in Workflows
    /\ lead = <<[kind |-> "run_started", budget |-> wf.budget]>>
    /\ st = After(Zero, lead[1])
    /\ up = TRUE /\ held = FALSE /\ lock = "free"
    /\ todo = <<>> /\ turn = NoTurn
    /\ children = <<>> /\ head = 1 /\ remote = 1
    /\ posted = <<>> /\ issueOpen = TRUE
    /\ answers = 0 /\ mishaps = 0

Moves == StartFirstStep \/ ReAwaitChild \/ EndStep \/ Follow \/ ActOnChecks
         \/ ActOnPush \/ ActOnWord
Effects == WriteEvent \/ AskPerson \/ FinishRun \/ FailMove \/ TakeWriteLock
           \/ CreateChild \/ PostPrompt \/ ResumeChild \/ ApplyEnd \/ PostComment
           \/ WeighPush \/ PushBranch \/ InstallBinary \/ WaitForCi \/ CloseIssue
Turns == ChildCalls \/ ChildReports \/ ChildEnds
Stops == StopUnreadable \/ LeaveFinished
Environment == RenderFails \/ CallFails \/ ChildDies \/ Answer \/ Crash
               \/ RivalLocks \/ RemoteMoves

Next == Moves \/ Effects \/ Turns \/ Stops \/ Start \/ Environment

Spec == Init /\ [][Next]_vars

(* The task keeps advancing, a turn's calls answer, and the daemon or a    *)
(* person starts an unfinished run's task again.  Nobody has to answer.    *)
Fairness == WF_vars(Moves \/ Effects \/ Turns \/ Stops \/ Start)
FairSpec == Spec /\ Fairness
=============================================================================
