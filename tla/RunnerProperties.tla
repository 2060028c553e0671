-------------------------- MODULE RunnerProperties --------------------------
(* What the runner promises, stated over its log, its children and the world. *)
EXTENDS Runner

Where(kind) == LeadHas(LAMBDA e : e.kind = kind)
(* The decisive event before the i-th: a note of an error decides nothing. *)
Before(i) == lead[Max({j \in 1..(i - 1) : lead[j].kind # "run_errored"})]

(* The parts of the state are what the actions take them for: the attempts *)
(* of a step are numbered in order, whichever child they worked in.        *)
TypeOK ==
    /\ wf \in Workflows
    /\ up \in BOOLEAN /\ held \in BOOLEAN
    /\ lock \in {"free", "mine", "other"}
    /\ turn.step \in DOMAIN wf.steps \cup {None}
    /\ head \in Nat /\ remote \in Nat \cup {Stranger}
    /\ issueOpen \in BOOLEAN
    /\ \A i \in DOMAIN st.steps :
          st.steps[i].attempt =
          Cardinality({j \in 1..i : st.steps[j].step = st.steps[i].step})
    /\ answers \in 0..MaxAnswers /\ mishaps \in 0..MaxMishaps

(* A raise was asked for by the very move that acted on an answer. *)
RetryParked ==
    \E i \in Where("checkpoint_asked") :
        "raise" \in lead[i].options /\ Before(i).kind = "checkpoint_answered"

(* A step went on in a child whose first attempt was not its first. *)
Renumbered ==
    \E i \in DOMAIN st.steps :
        st.steps[i].attempt # Cardinality({j \in 1..i : st.steps[j].child = st.steps[i].child})

(* The log a runner writes is one its own fold accepts. *)
LogFolds == ~st.broken

(* However often the runner is rebuilt, a child is prompted once for each  *)
(* attempt it runs, and no attempt closes before its prompt is posted.     *)
PromptedOnce ==
    \A c \in DOMAIN children :
        LET records == {i \in DOMAIN st.steps : st.steps[i].child = c}
            closed == {i \in records : st.steps[i].status # "open"}
        IN  /\ Cardinality(Prompts(c)) <= Cardinality(records)
            /\ Cardinality(closed) <= Cardinality(Prompts(c))

(* The report an attempt is closed with was written after its own prompt. *)
ReportIsOwn ==
    \A i \in DOMAIN st.steps :
        LET c == st.steps[i].child
            nth == Cardinality({j \in 1..i : st.steps[j].child = c})
        IN  st.steps[i].report # 0 => st.steps[i].report > PromptAt(c, nth)

(* An attempt is closed with a report of an earlier one only in a child    *)
(* whose prompts do not count from the step's first attempt.               *)
ReportIsOwnUnlessRenumbered == Renumbered \/ ReportIsOwn

(* On its own the runner sends a step back once for its checks and once    *)
(* for stopping short; a second time is a person's to grant.               *)
SentBackOnce ==
    \A s \in DOMAIN wf.steps, kind \in {"checks_run", "step_finished"} :
        Cardinality({i \in Where("step_started") :
                        lead[i].step = s /\ Before(i).kind = kind}) <= 1

(* The attempts of a step never run into each other, over crashes, resumed *)
(* turns and retries: they are numbered in order, each is prompted once    *)
(* and closed with its own report, and none is begun that nobody granted.  *)
AttemptsApart ==
    TypeOK /\ PromptedOnce /\ ReportIsOwnUnlessRenumbered /\ SentBackOnce

(* No call is charged to a run twice, whatever was resumed. *)
CallsChargedOnce ==
    Renumbered \/
    \A c \in DOMAIN children :
        MapThenSumSet(LAMBDA i : st.steps[i].cost,
                      {i \in DOMAIN st.steps : st.steps[i].child = c})
        <= SpentSince(c, 1)

(* No turn of a step spends past the figure in force for it, over all of   *)
(* its attempts, its children and the crashes that cut them.               *)
Calls(s) ==
    MapThenSumSet(LAMBDA c : SpentSince(c, 1),
                  {st.steps[i].child : i \in {j \in DOMAIN st.steps : st.steps[j].step = s}})
FigureHeld ==
    Renumbered \/ turn = NoTurn \/
    LET own == OwnFigure(turn.step, turn.attempt) IN own > 0 => Calls(turn.step) <= own

(* The money is counted right: no call twice, and no step past its figure. *)
SpendHeld == CallsChargedOnce /\ FigureHeld

(* A raise that is written frees its step: it is above what the step has   *)
(* spent, in the attempt that waits for it too.                            *)
RaiseFrees ==
    todo # <<>> /\ Head(todo).do = "write" /\ Head(todo).event.kind = "budget_raised" =>
        LET e == Head(todo).event IN e.step # None => e.usd > Calls(e.step)

(* What reaches the remote has passed the checks of the attempt it came    *)
(* from: no push is written, and none is on its way, on older checks.      *)
PushedChecked ==
    \A i \in Where("pushed") :
        LET s == lead[i].step
            before(kind) == {j \in Where(kind) : j < i /\ lead[j].step = s}
        IN  wf.steps[s].checks =>
              /\ before("checks_run") # {}
              /\ lead[Max(before("checks_run"))].outcome = "pass"
              /\ Max(before("checks_run")) > Max(before("step_finished"))

(* A writing step's turn runs, and its push leaves, under the write lock.  *)
WritesUnderLock ==
    (turn # NoTurn /\ wf.steps[turn.step].writes)
    \/ (todo # <<>> /\ Head(todo).do = "push")
    => lock = "mine"

Phase == CASE st.outcome # None -> "over"
           [] st.outcome = None /\ st.last = "checkpoint_asked" -> "asking"
           [] OTHER -> "working"
Path == INSTANCE RunPath WITH
           phase <- Phase,
           moves <- Cardinality(DOMAIN lead \ (Where("run_errored") \cup Where("checkpoint_answered"))),
           answers <- Cardinality(Where("checkpoint_answered"))
(* The runner, with its crashes and its failed moves, keeps that promise. *)
ImplementsPath == Path!Spec

(* A run driven on comes to a gate or to its end.  (One whose raise was    *)
(* asked for on an answer may stop at every start instead.)                *)
RunSettles == []<>(Phase # "working" \/ RetryParked)
=============================================================================
