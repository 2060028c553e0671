------------------------------ MODULE RunState ------------------------------
(***************************************************************************)
(* The state of a workflow run, folded from its lead thread's log          *)
(* (log/src/run_state.rs).  Zero is the state of an empty log, After folds *)
(* one more event in, and NextMove is what the folded state says to do.    *)
(* Figures are whole units; an event is a record tagged by its kind.  The  *)
(* Flagged outcome of a check is read as "pass": no move tells them apart. *)
(***************************************************************************)
EXTENDS Naturals, Sequences, FiniteSetsExt, SequencesExt

BudgetGate == "budget"
StepStop == "step_stop"
None == "none"

Larger(a, b) == IF a >= b THEN a ELSE b

Zero == [last |-> None, budget |-> 0, cost |-> 0, steps |-> <<>>,
         route |-> [proposed |-> None, taken |-> None],
         pending |-> None, answered |-> [gate |-> None, answer |-> None, usd |-> 0],
         atBudget |-> None, atStep |-> None, errored |-> FALSE,
         outcome |-> None, broken |-> FALSE]

(* Replay refuses a log whose runner events are out of order. *)
Broken(st) == [st EXCEPT !.broken = TRUE]

(* Where the newest record of a step is, 0 when the run never entered it. *)
Newest(st, s) ==
    Max({0} \cup {i \in DOMAIN st.steps : st.steps[i].step = s})

(* Where the record of one attempt is, the newest when visits share it. *)
RecordOf(st, s, n) ==
    Max({0} \cup {i \in DOMAIN st.steps :
                     st.steps[i].step = s /\ st.steps[i].attempt = n})

OpenStep(st) == st.steps # <<>> /\ Last(st.steps).status = "open"

Started(st, e) ==
    LET prior == Newest(st, e.step)
        figure == IF prior # 0 /\ e.attempt > 1
                  THEN Larger(st.steps[prior].figure, e.declared)
                  ELSE e.declared
    IN  IF OpenStep(st)
        THEN Broken(st)
        ELSE [st EXCEPT !.errored = FALSE, !.last = e.kind,
                        !.steps = Append(@,
                           [step |-> e.step, attempt |-> e.attempt,
                            child |-> e.child, declared |-> e.declared,
                            figure |-> figure, status |-> "open",
                            reason |-> None, cost |-> 0, report |-> 0,
                            checks |-> None, pushed |-> FALSE])]

Finished(st, e) ==
    IF ~OpenStep(st) \/ Last(st.steps).step # e.step
    THEN Broken(st)
    ELSE [st EXCEPT !.last = e.kind, !.cost = @ + e.cost,
                    !.steps[Len(st.steps)].status = e.status,
                    !.steps[Len(st.steps)].reason = e.reason,
                    !.steps[Len(st.steps)].cost = e.cost,
                    !.steps[Len(st.steps)].report = e.report]

Checked(st, e) ==
    IF Newest(st, e.step) = 0
    THEN Broken(st)
    ELSE [st EXCEPT !.last = e.kind, !.steps[Newest(st, e.step)].checks = e.outcome]

Pushed(st, e) ==
    IF st.steps = <<>>
    THEN Broken(st)
    ELSE [st EXCEPT !.last = e.kind, !.steps[Len(st.steps)].pushed = TRUE]

(* An ask at a gate that can be raised remembers the move it interrupted. *)
Asked(st, e) ==
    [st EXCEPT !.last = e.kind, !.pending = e.gate,
               !.atBudget = IF e.gate = BudgetGate THEN st.last ELSE @,
               !.atStep = IF e.gate = StepStop THEN st.last ELSE @]

Answered(st, e) ==
    IF st.pending = None
    THEN Broken(st)
    ELSE [st EXCEPT !.last = e.kind, !.pending = None,
                    !.answered = [gate |-> st.pending, answer |-> e.answer,
                                  usd |-> e.usd]]

(* A raise gives back the move its gate interrupted, once. *)
Raised(st, e) ==
    IF e.step = None
    THEN IF st.atBudget = None
         THEN Broken(st)
         ELSE [st EXCEPT !.budget = e.usd, !.last = st.atBudget, !.atBudget = None]
    ELSE IF Newest(st, e.step) = 0 \/ st.atStep = None
         THEN Broken(st)
         ELSE [st EXCEPT !.steps[Newest(st, e.step)].figure = e.usd,
                         !.last = st.atStep, !.atStep = None]

After(st, e) ==
    CASE st.broken -> st
      [] ~st.broken /\ (st.last = None) = (e.kind # "run_started") -> Broken(st)
      [] OTHER ->
           CASE e.kind = "run_started" -> [st EXCEPT !.last = e.kind, !.budget = e.budget]
             [] e.kind = "step_started" -> Started(st, e)
             [] e.kind = "step_finished" -> Finished(st, e)
             [] e.kind = "checks_run" -> Checked(st, e)
             [] e.kind = "pushed" -> Pushed(st, e)
             [] e.kind = "route_taken" ->
                  [st EXCEPT !.last = e.kind,
                             !.budget = IF e.usd = 0 THEN @ ELSE e.usd,
                             !.route = [proposed |-> e.proposed, taken |-> e.taken]]
             [] e.kind = "checkpoint_asked" -> Asked(st, e)
             [] e.kind = "checkpoint_answered" -> Answered(st, e)
             [] e.kind = "budget_raised" -> Raised(st, e)
             [] e.kind = "run_finished" ->
                  [st EXCEPT !.last = e.kind, !.outcome = e.outcome, !.errored = FALSE]
             [] e.kind = "run_errored" -> [st EXCEPT !.errored = TRUE]

(* What a step has spent in its closed attempts. *)
StepSpend(st, s) ==
    LET sum[i \in 0..Len(st.steps)] ==
            IF i = 0 THEN 0
            ELSE sum[i - 1] + IF st.steps[i].step = s /\ st.steps[i].status # "open"
                              THEN st.steps[i].cost ELSE 0
    IN  sum[Len(st.steps)]

(* The figure a raise put in force for this visit of the step, 0 for none. *)
StepFigure(st, s, attempt) ==
    LET i == Newest(st, s)
    IN  IF /\ i # 0
           /\ attempt > 1 \/ (st.steps[i].attempt = attempt /\ st.steps[i].status = "open")
           /\ st.steps[i].figure > st.steps[i].declared
        THEN st.steps[i].figure
        ELSE 0

(* The step a step_stop ask is about: the one the run last entered. *)
ParkedStep(st) == IF st.steps = <<>> THEN None ELSE Last(st.steps).step

Move(do, record) == [do |-> do, step |-> record.step, attempt |-> record.attempt,
                     child |-> record.child]
NoRecord == [step |-> None, attempt |-> 0, child |-> 0]

(* The one move the last decisive event of the log calls for. *)
NextMove(st) ==
    LET newest(Test(_)) == st.steps[Max({i \in DOMAIN st.steps : Test(st.steps[i])})]
    IN  CASE st.last = None -> Move("NotARun", NoRecord)
          [] st.last = "run_started" -> Move("StartFirstStep", NoRecord)
          [] st.last = "step_started" ->
               Move("ReAwait", newest(LAMBDA r : r.status = "open"))
          [] st.last = "step_finished" ->
               Move("AfterStep", newest(LAMBDA r : r.status # "open"))
          [] st.last = "checks_run" ->
               Move("ChecksDone", newest(LAMBDA r : r.checks # None))
          [] st.last = "pushed" -> Move("Pushed", newest(LAMBDA r : r.pushed))
          [] st.last = "route_taken" -> Move("FollowRoute", NoRecord)
          [] st.last = "checkpoint_asked" -> Move("AwaitingCheckpoint", NoRecord)
          [] st.last = "checkpoint_answered" -> Move("Answered", NoRecord)
          [] st.last = "run_finished" -> Move("Done", NoRecord)
=============================================================================
