-------------------------- MODULE RunnerInvariants --------------------------
(***************************************************************************)
(* What is true of a run between any two of its steps, as RunnerProofs     *)
(* shows: each of LockInv, PathSound, PushInv and ApartInv is inductive    *)
(* with the ones before it.                                                *)
(***************************************************************************)
EXTENDS RunnerProperties

(* What the loader checks: a first step that is one of the steps, and no   *)
(* checkpoint with the name of a gate of the runner's own.  (A name is not *)
(* None, which stands for the lack of one.)                                *)
WorkflowsLoad ==
    \A w \in Workflows :
        /\ w.first \in DOMAIN w.steps
        /\ \A s \in DOMAIN w.steps : w.steps[s].checkpoint => s \notin {"checks_failed", None}
(* The shipped workflows push from writing steps that name checks.  The    *)
(* loader takes one that pushes without: its push after a rebuild is then  *)
(* made without the lock.                                                  *)
PushesGuarded ==
    \A w \in Workflows : \A s \in DOMAIN w.steps :
        w.steps[s].push => w.steps[s].writes /\ w.steps[s].checks

Steps == DOMAIN wf.steps
IsSeq(q) == q \in Seq(Range(q))

(* The events of a lead log.                                               *)
Decisive == {"run_started", "step_started", "step_finished", "checks_run", "pushed",
             "route_taken", "checkpoint_asked", "checkpoint_answered", "run_finished"}
EventSound(e) ==
    /\ e.kind \in Decisive \union {"budget_raised", "run_errored"}
    /\ e.kind \in {"step_started", "checks_run"} => e.step \in Steps
    /\ e.kind = "step_finished" => e.status # "open"
    /\ e.kind = "checks_run" => e.outcome # None
Has(kind) == \E e \in Range(lead) : e.kind = kind
(* An ask whose answer looks in the log for what it is about.              *)
AskSound(gate, options) ==
    /\ gate = "checks_failed" => Has("checks_run")
    /\ gate = StepStop /\ "retry" \in options => Has("step_finished")
LeadSound ==
    /\ IsSeq(lead)
    /\ \A e \in Range(lead) :
         /\ EventSound(e)
         /\ e.kind = "checkpoint_asked" => AskSound(e.gate, e.options)
         /\ e.kind = "step_finished" => st.broken \/ e.step \in Steps

(* Its fold.                                                               *)
FoldFields == {"last", "budget", "cost", "steps", "route", "pending", "answered",
               "atBudget", "atStep", "errored", "outcome", "broken"}
RecordFields == {"step", "attempt", "child", "declared", "figure", "status", "reason",
                 "cost", "report", "checks", "pushed"}
FoldShape(f) == f = [x \in FoldFields |-> f[x]]
RecordShape(r) == r = [x \in RecordFields |-> r[x]]
Reached(f, last) == f.last = last \/ f.atBudget = last \/ f.atStep = last
FoldSound(f) ==
    /\ FoldShape(f)
    /\ f.broken \in BOOLEAN
    /\ f.last \in Decisive
    /\ f.atBudget \in Decisive \union {None} /\ f.atStep \in Decisive \union {None}
    /\ IsSeq(f.steps)
    /\ \A r \in Range(f.steps) : RecordShape(r) /\ r.step \in Steps
    /\ Reached(f, "step_finished") => \E r \in Range(f.steps) : r.status # "open"
    /\ Reached(f, "checks_run") => \E r \in Range(f.steps) : r.checks # None
GatesSound ==
    \/ Reached(st, "checks_run")
    \/ st.pending = "checks_failed" \/ st.answered.gate = "checks_failed"
    => Has("checks_run")

(* A report closes its attempt.                                            *)
ChildEventSound(e) == e.k = "report" => e.status # "open"
ChildrenSound ==
    /\ IsSeq(children)
    /\ \A q \in Range(children) : IsSeq(q) /\ \A e \in Range(q) : ChildEventSound(e)

(* What a move still has to do.                                            *)
Finishes(e) == e.do = "write" /\ e.event.kind = "step_finished"
EffectSound(e) ==
    /\ e.do = "write" => /\ EventSound(e.event)
                        /\ e.event.kind \notin {"checkpoint_asked", "run_finished"}
    /\ e.do = "ask" /\ e.gate = "checks_failed" => Has("checks_run")
    /\ e.do = "weigh" => e = Do("weigh", e.step, e.attempt, e.child)
Retries(e) == e.do = "ask" /\ e.gate = StepStop /\ "retry" \in e.options
PlanSound(q) ==
    /\ IsSeq(q)
    /\ \A e \in Range(q) :
         /\ EffectSound(e)
         /\ Retries(e) => Has("step_finished") \/ Finishes(q[1])

(* The effects that must find the lock taken, and those that give it back. *)
(* A push must where workflows push as the shipped ones do.                *)
Needs(e) ==
    \/ e.do \in {"weigh", "push"} /\ PushesGuarded
    \/ e.do \in {"prompt", "resume"} /\ wf.steps[e.step].writes
Releases(e) == e.do \in {"ask", "finish", "fail"}
Calm(q) == \A e \in Range(q) : ~Needs(e)
Keeps(q) == \A e \in Range(q) : ~Releases(e)

(* A move that has an effect under the lock takes the lock first and does  *)
(* not give it back.                                                       *)
Guarded(q) ==
    \/ Calm(q)
    \/ held /\ Keeps(q)
    \/ q # <<>> /\ Keeps(q) /\ Head(q).do = "lock"

LogSound == wf \in Workflows /\ LeadSound /\ FoldSound(st) /\ GatesSound
LockSound ==
    /\ held => lock = "mine"
    /\ Guarded(todo)
    /\ "step" \in DOMAIN turn
    /\ turn # NoTurn /\ wf.steps[turn.step].writes => held
LockInv == LogSound /\ ChildrenSound /\ PlanSound(todo) /\ LockSound
-----------------------------------------------------------------------------
(* The run as people follow it                                             *)

Says(e) == e.do = "write" /\ e.event.kind = "checkpoint_answered"
Halts(e) == e.do \in {"ask", "finish"}
Named(e) == /\ e.do = "ask" => e.gate # None
            /\ e.do = "finish" => e.outcome # None

(* A list stops at its end if at all; one that answers its own ask does    *)
(* nothing before it but take the lock.                                    *)
OneStop(q) == \A i \in 1 .. Len(q) : ~Says(q[i]) /\ (Halts(q[i]) => i = Len(q))
SaysItself(q) ==
    /\ Len(q) >= 2 /\ Says(q[Len(q)]) /\ q[Len(q) - 1].do = "ask"
    /\ \A i \in 1 .. (Len(q) - 2) : q[i].do = "lock"
AllNamed(q) == IsSeq(q) /\ \A e \in Range(q) : Named(e)

(* A run works, waits for an answer, or is over; a raise never leads back  *)
(* to an ask or to the end.                                                *)
RaisesOn(f) == {f.atBudget, f.atStep} \cap {"checkpoint_asked", "run_finished"} = {}
OnCourse(f) ==
    f.outcome = None /\ f.last \notin {"checkpoint_asked", "run_finished"} /\ RaisesOn(f)
Parked(f) ==
    f.outcome = None /\ f.last = "checkpoint_asked" /\ f.pending # None /\ RaisesOn(f)
Over(f) == f.outcome # None /\ f.last = "run_finished" /\ RaisesOn(f)

PathSound ==
    /\ IsSeq(posted) /\ AllNamed(todo)
    /\ \/ OnCourse(st) /\ (OneStop(todo) \/ (SaysItself(todo) /\ ~st.broken))
       \/ Parked(st) /\ (todo = <<>> \/ (Len(todo) = 1 /\ Says(todo[1]) /\ ~st.broken))
       \/ Over(st) /\ todo = <<>>
-----------------------------------------------------------------------------
(* What is pushed was checked                                              *)

(* A claim is a write that the move read something for: how a step's       *)
(* checks came out, that its commits are at the remote, that a figure was  *)
(* raised.                                                                 *)
Claims(e) == e.do = "write" /\ e.event.kind \in {"checks_run", "pushed", "budget_raised"}
Records(e) == e.do \in {"write", "ask", "finish"}
Checking == {"step_finished", "checks_run"}

(* A step was closed, and its checks came out so after it was.             *)
Closed(q, s) == \E i \in DOMAIN q : q[i].kind = "step_finished" /\ q[i].step = s
CameOut(q, s, outcome) ==
    \E i \in DOMAIN q :
        /\ q[i].kind = "checks_run" /\ q[i].step = s /\ q[i].outcome = outcome
        /\ \A j \in DOMAIN q : j > i => q[j].kind \notin Checking

(* The moves the fold may still call for: the one due, and the one a raise *)
(* at the gate that was last asked about gives back.                       *)
AskedAt(f, gate) ==
    f.pending = gate \/ (f.last = "checkpoint_answered" /\ f.answered.gate = gate)
MayCall(f) ==
    {f.last} \union (IF AskedAt(f, BudgetGate) THEN {f.atBudget} ELSE {})
             \union (IF AskedAt(f, StepStop) THEN {f.atStep} ELSE {})
(* A move on a closed step, or on its checks, is about the newest record.  *)
Backed(f, q, x) ==
    /\ x \in Checking =>
         /\ f.steps # <<>> /\ Last(f.steps).status # "open"
         /\ Closed(q, Last(f.steps).step)
    /\ x = "checks_run" => CameOut(q, Last(f.steps).step, Last(f.steps).checks)
FoldBacked(f, q) ==
    ~f.broken => /\ f.pending # None => f.last = "checkpoint_asked"
                 /\ \A x \in MayCall(f) : Backed(f, q, x)

(* What a claim has behind it.                                             *)
Justified(f, q, e) ==
    /\ e.kind = "checks_run" /\ ~f.broken =>
         /\ f.steps # <<>> /\ Last(f.steps).status # "open"
         /\ Last(f.steps).step = e.step /\ Closed(q, e.step)
    /\ e.kind = "pushed" /\ wf.steps[e.step].checks =>
         Closed(q, e.step) /\ CameOut(q, e.step, "pass")
    /\ e.kind = "budget_raised" /\ ~f.broken =>
         /\ f.last = "checkpoint_answered"
         /\ f.answered.gate = IF e.step = None THEN BudgetGate ELSE StepStop
(* A claim is the first thing its list writes.                             *)
PlanBacked(f, q, t) ==
    \A i \in 1 .. Len(t) :
        Claims(t[i]) => /\ Justified(f, q, t[i].event)
                        /\ \A k \in 1 .. (i - 1) : ~Records(t[k])
(* Each push on the log, where its step names checks.                      *)
PushBacked(q, i) ==
    \E k \in 1 .. (i - 1), m \in 1 .. (i - 1) :
        /\ q[k].kind = "checks_run" /\ q[k].step = q[i].step /\ q[k].outcome = "pass"
        /\ \A j \in (k + 1) .. (i - 1) : q[j].kind \notin Checking
        /\ q[m].kind = "step_finished" /\ q[m].step = q[i].step
LogBacked(q) ==
    \A i \in 1 .. Len(q) :
        q[i].kind = "pushed" /\ wf.steps[q[i].step].checks => PushBacked(q, i)

PushInv == FoldBacked(st, lead) /\ PlanBacked(st, lead, todo) /\ LogBacked(lead)
-----------------------------------------------------------------------------
(* The attempts of a step stay apart: the records of the fold, the events  *)
(* of the log, the prompts in the children's logs and what a move still    *)
(* has to do tell the same attempts.                                       *)

(* The gates the runner raises itself.  The loader refuses a checkpoint    *)
(* with the name of one, but for "budget" and "no_push", which none of the *)
(* shipped workflows takes.                                                *)
RunnerGates ==
    {BudgetGate, StepStop, "checks_failed", "checks_error", "ci_failed", "ci_missing",
     "ci_timeout", "install_mismatch", "no_next_step", "no_push", "push_error",
     "remote_moved", "render_failed", "route", "route_escalate", "write_lock"}
(* A rank that rises along a workflow's next steps and routes.             *)
Onward(w, rank) ==
    /\ rank \in [DOMAIN w.steps -> Nat]
    /\ \A s \in DOMAIN w.steps :
         /\ w.steps[s].next \in DOMAIN w.steps => rank[s] < rank[w.steps[s].next]
         /\ \A word \in DOMAIN w.steps[s].routes :
              w.steps[s].routes[word] \in DOMAIN w.steps =>
                rank[s] < rank[w.steps[s].routes[word]]
(* The shipped workflows only go on: no route leads back to a step that    *)
(* may have run.  The loader takes one that does; its second visit counts  *)
(* the attempts from one again.                                            *)
WorkflowsRunOn ==
    \A w \in Workflows :
        /\ \E rank : Onward(w, rank)
        /\ \A s \in DOMAIN w.steps : w.steps[s].checkpoint => s \notin RunnerGates
Rank == CHOOSE rank : Onward(wf, rank)

(* The records of a fold: a step's attempts are numbered in order, a child *)
(* works for one step, and only the newest record may be open.             *)
Until(f, i, s) == {j \in 1 .. i : f.steps[j].step = s}
UntilIn(f, i, c) == {j \in 1 .. i : f.steps[j].child = c}
Of(f, s) == {j \in DOMAIN f.steps : f.steps[j].step = s}
In(f, c) == {j \in DOMAIN f.steps : f.steps[j].child = c}
ClosedIn(f, c) == {j \in In(f, c) : f.steps[j].status # "open"}
Kids(f) == {f.steps[i].child : i \in DOMAIN f.steps}
Numbered(f) ==
    \A i \in DOMAIN f.steps :
        f.steps[i].attempt = Cardinality(Until(f, i, f.steps[i].step))
KidsSound(f) ==
    /\ \E k \in Nat : Kids(f) = 1 .. k
    /\ \A i, j \in DOMAIN f.steps :
         f.steps[i].child = f.steps[j].child => f.steps[i].step = f.steps[j].step
ClosedBefore(f) ==
    \A i \in DOMAIN f.steps :
        f.steps[i].status = "open" => i = Len(f.steps) /\ f.steps[i].report = 0
Climbs(f) ==
    \A i \in DOMAIN f.steps : Rank[f.steps[i].step] <= Rank[Last(f.steps).step]
RecordsSound(f) == Numbered(f) /\ KidsSound(f) /\ ClosedBefore(f) /\ Climbs(f)

(* What a child's log says of its attempts.                                *)
LogIn(cs, c) == IF c \in DOMAIN cs THEN cs[c] ELSE <<>>
PromptsIn(cs, c) == {i \in DOMAIN LogIn(cs, c) : LogIn(cs, c)[i].k = "prompt"}
PromptNo(cs, c, n) ==
    Max({0} \union {i \in PromptsIn(cs, c) : Cardinality({j \in PromptsIn(cs, c) : j <= i}) = n})
(* Every record has its prompt, but for the open one.                      *)
PromptsSound(f, cs) ==
    \A c \in Kids(f) \union DOMAIN cs :
        /\ Cardinality(ClosedIn(f, c)) <= Cardinality(PromptsIn(cs, c))
        /\ Cardinality(PromptsIn(cs, c)) <= Cardinality(In(f, c))
ReportFits(f, cs, i, report) ==
    report # 0 /\ f.steps[i].attempt = Cardinality(UntilIn(f, i, f.steps[i].child)) =>
        report > PromptNo(cs, f.steps[i].child, f.steps[i].attempt)
ReportsSound(f, cs) == \A i \in DOMAIN f.steps : ReportFits(f, cs, i, f.steps[i].report)
ChildrenApart(f, cs) ==
    /\ PromptsSound(f, cs) /\ ReportsSound(f, cs)
    /\ ~f.broken => DOMAIN cs \subseteq Kids(f)

(* The log and its fold tell the same attempts.                            *)
StartsIn(q, s, c, n) ==
    {i \in DOMAIN q : q[i].kind = "step_started" /\ q[i].step = s /\ q[i].child = c
                      /\ q[i].attempt <= n}
RecordsIn(f, s, c, n) ==
    {i \in DOMAIN f.steps : f.steps[i].step = s /\ f.steps[i].child = c
                            /\ f.steps[i].attempt <= n}
PartialEvent(e, s) == e.kind = "step_finished" /\ e.step = s /\ e.status = "partial"
FailEvent(e, s) == e.kind = "checks_run" /\ e.step = s /\ e.outcome = "fail"
PartialsIn(q, s) == {i \in DOMAIN q : PartialEvent(q[i], s)}
PartialRecords(f, s) ==
    {i \in DOMAIN f.steps : f.steps[i].step = s /\ f.steps[i].status = "partial"}
NewestFinish(q, i) ==
    q[i].kind = "step_finished" /\ \A j \in DOMAIN q : j > i => q[j].kind # "step_finished"
NewestEvent(q, i) ==
    q[i].kind # "run_errored" /\ \A j \in DOMAIN q : j > i => q[j].kind = "run_errored"
LogMatches(f, q) ==
    ~f.broken =>
      /\ \A s, c, n : Cardinality(StartsIn(q, s, c, n)) = Cardinality(RecordsIn(f, s, c, n))
      /\ \A s : Cardinality(PartialsIn(q, s)) <= Cardinality(PartialRecords(f, s))
      /\ ~OpenStep(f) =>
           \A i \in DOMAIN q : NewestFinish(q, i) =>
             /\ f.steps # <<>> /\ q[i].step = Last(f.steps).step
             /\ q[i].status = Last(f.steps).status
      /\ \A i \in DOMAIN q : NewestEvent(q, i) =>
           q[i].kind = f.last \/ q[i].kind = "budget_raised"

(* Where the run may go from what its fold calls for.                      *)
Top(f, s) == ~OpenStep(f) => \A i \in DOMAIN f.steps : Rank[f.steps[i].step] <= Rank[s]
Ahead(f, s) == ~OpenStep(f) => \A i \in DOMAIN f.steps : Rank[f.steps[i].step] < Rank[s]
Leads(f, x) ==
    /\ x = "run_started" => f.steps = <<>>
    /\ x = "step_started" => OpenStep(f)
    /\ x = "route_taken" => (f.route.taken \in Steps => Ahead(f, f.route.taken))
    /\ x = "pushed" => f.steps # <<>> /\ Last(f.steps).pushed
GateSound(f, q, gate) ==
    /\ gate \in Steps /\ wf.steps[gate].checkpoint => Top(f, gate)
    /\ gate = "checks_failed" => Backed(f, q, "checks_run")
CourseSound(f, q) ==
    ~f.broken => /\ \A x \in MayCall(f) : Leads(f, x)
                 /\ \A gate : gate # None /\ AskedAt(f, gate) => GateSound(f, q, gate)

(* A step is sent back on its first failed checks, or partial report.      *)
SentBack(q, i) ==
    \A b \in 1 .. (i - 1) :
        (q[b].kind # "run_errored" /\ \A j \in (b + 1) .. (i - 1) : q[j].kind = "run_errored") =>
          /\ q[b].kind = "checks_run" =>
               /\ FailEvent(q[b], q[i].step)
               /\ \A j \in 1 .. (i - 1) : FailEvent(q[j], q[i].step) => j = b
          /\ q[b].kind = "step_finished" =>
               /\ PartialEvent(q[b], q[i].step)
               /\ \A j \in 1 .. (i - 1) : PartialEvent(q[j], q[i].step) => j = b
LogSentBack(q) == \A i \in DOMAIN q : q[i].kind = "step_started" => SentBack(q, i)

(* What a move's effects rest on.                                          *)
Startable(f, q, e) ==
    /\ ~f.broken
    /\ ~OpenStep(f) =>
         /\ e.attempt = Cardinality(Of(f, e.step)) + 1
         /\ Top(f, e.step)
         /\ \/ e.child = 1 + Cardinality(Kids(f))
            \/ \E i \in DOMAIN f.steps : f.steps[i].child = e.child /\ f.steps[i].step = e.step
    /\ f.last = "checks_run" =>
         \E b \in DOMAIN q : /\ q[b].kind = "checks_run"
                             /\ \A j \in DOMAIN q : j > b => q[j].kind # "checks_run"
                             /\ FailEvent(q[b], e.step)
                             /\ \A j \in DOMAIN q : FailEvent(q[j], e.step) => j = b
    /\ f.last = "step_finished" =>
         \E b \in DOMAIN q : /\ NewestFinish(q, b) /\ PartialEvent(q[b], e.step)
                             /\ \A j \in DOMAIN q : PartialEvent(q[j], e.step) => j = b
Owes(f, cs, c) == Cardinality(PromptsIn(cs, c)) < Cardinality(In(f, c))
Finishable(f, cs, e) ==
    /\ ~f.broken /\ OpenStep(f) /\ Last(f.steps).step = e.step
    /\ ~Owes(f, cs, Last(f.steps).child)
    /\ ReportFits(f, cs, Len(f.steps), e.report)
Rests(f, q, cs, x) ==
    /\ x.do = "write" =>
         /\ x.event.kind = "step_started" => Startable(f, q, x.event)
         /\ x.event.kind = "route_taken" /\ x.event.taken \in Steps => Ahead(f, x.event.taken)
         /\ x.event.kind = "step_finished" => Finishable(f, cs, x.event)
    /\ x.do = "ask" /\ x.gate \notin {BudgetGate, StepStop} => GateSound(f, q, x.gate)
Rested(x) ==
    \/ x.do = "write" /\ x.event.kind \in {"step_started", "route_taken", "step_finished"}
    \/ x.do = "ask" /\ x.gate \notin {BudgetGate, StepStop}
MadeFor(f, t, i) ==
    t[i].do = "create" =>
      \/ f.broken \/ t[i].child \in Kids(f)
      \/ \E k \in 1 .. (i - 1) : /\ t[k].do = "write" /\ t[k].event.kind = "step_started"
                                 /\ t[k].event.child = t[i].child
(* A list that prompts, resumes or closes is about the open record.        *)
ForChild(x) == x.do \in {"prompt", "resume", "apply"}
StepOf(f, what) ==
    LET r == Last(f.steps) IN Do(what, r.step, r.attempt, r.child)
Paid(f, cs) == ~Owes(f, cs, Last(f.steps).child)
Ending(f, cs, t) ==
    \/ Paid(f, cs) /\ t = <<StepOf(f, "apply")>>
    \/ Paid(f, cs) /\ t = <<StepOf(f, "resume"), StepOf(f, "apply")>>
    \/ /\ ~Paid(f, cs) /\ Last(f.steps).child \in DOMAIN cs
       /\ t = <<StepOf(f, "prompt"), StepOf(f, "apply")>>
    \/ /\ ~Paid(f, cs)
       /\ t = <<StepOf(f, "create"), StepOf(f, "prompt"), StepOf(f, "apply")>>
Awaits(f, cs, t) ==
    /\ ~f.broken /\ OpenStep(f)
    /\ Ending(f, cs, t) \/ (t # <<>> /\ Head(t).do = "lock" /\ Ending(f, cs, Tail(t)))
PlanApart(f, q, cs, t) ==
    /\ \A i \in 1 .. Len(t) :
         /\ Rested(t[i]) => /\ Rests(f, q, cs, t[i])
                            /\ \A k \in 1 .. (i - 1) : ~Records(t[k])
         /\ MadeFor(f, t, i)
    /\ (\E i \in 1 .. Len(t) : ForChild(t[i])) => Awaits(f, cs, t)

OthersSound ==
    /\ up \in BOOLEAN /\ held \in BOOLEAN /\ lock \in {"free", "mine", "other"}
    /\ turn.step \in Steps \union {None}
    /\ head \in Nat /\ remote \in Nat \union {Stranger}
    /\ issueOpen \in BOOLEAN
    /\ answers \in 0 .. MaxAnswers /\ mishaps \in 0 .. MaxMishaps
FoldApart(f, q) ==
    RecordsSound(f) /\ LogMatches(f, q) /\ CourseSound(f, q) /\ LogSentBack(q)
ApartInv ==
    /\ OthersSound /\ FoldApart(st, lead) /\ ChildrenApart(st, children)
    /\ PlanApart(st, lead, children, todo)
(* A log begins with the run's start, and only grows.                      *)
Begun == lead # <<>> /\ lead[1].kind = "run_started"
=============================================================================
