---------------------------- MODULE RunRegistry -----------------------------
(***************************************************************************)
(* Which task drives a run (server/src/runs.rs and the run handlers of     *)
(* server/src/threads.rs).  Several daemons share one directory of leads.  *)
(* A daemon's registry has a slot for every lead it drives; across daemons *)
(* the lead's lock file decides, and the issue's lock file keeps two       *)
(* builds from starting two runs.  Builds, answers and the start-up scan   *)
(* are calls, each a few steps long; the one issue is the one all builds   *)
(* are for.                                                                *)
(***************************************************************************)
EXTENDS Naturals, Sequences, FiniteSets

CONSTANTS
    Procs,          \* daemons
    Calls,          \* builds, answers and scans there may be
    Gates,          \* the gates a run asks at
    None,           \* neither a call nor a daemon
    MaxLeads,       \* lead threads there may be
    MaxTasks,       \* tasks there may be
    MaxAsks,        \* asks in one lead's log
    MaxCrashes      \* times a daemon dies

ASSUME CallsAssumption == None \notin Calls
ASSUME BoundsAssumption ==
    /\ MaxLeads \in Nat /\ MaxTasks \in Nat /\ MaxAsks \in Nat /\ MaxCrashes \in Nat

VARIABLES
    up,         \* the daemons that run
    unscanned,  \* the leads a daemon's start-up scan still has to look at
    log,        \* each lead's log
    holder,     \* the task that holds a lead's lock file, 0 for nobody
    slot,       \* a daemon's registry: the task of each lead, 0 for none
    working,    \* the leads a daemon counts as working
    task,       \* each task
    building,   \* the call in a daemon's build_lock
    issue,      \* the call that holds the issue's lock file
    call,       \* each call
    crashes

registry == <<holder, slot, working>>
locks == <<building, issue>>
vars == <<up, unscanned, log, registry, task, locks, call, crashes>>

Leads == 1..MaxLeads
Tasks == 1..MaxTasks

NoTask == [at |-> "free", proc |-> None, lead |-> 0, queue |-> <<>>]
NoOne == [at |-> "idle", kind |-> "scan", proc |-> None, lead |-> 0,
          task |-> 0, gate |-> None, seen |-> 0]

(* The lead log, as far as this module reads it. *)
Thread == [k |-> "thread_started"]
RunStarted == [k |-> "run_started"]
Asked(g) == [k |-> "asked", gate |-> g]
Answered(c) == [k |-> "answered", call |-> c]
Finished == [k |-> "run_finished"]

Events == {Thread, RunStarted, Finished}
            \union {Asked(g) : g \in Gates} \union {Answered(c) : c \in Calls}

Has(l, kind) == \E i \in DOMAIN log[l] : log[l][i].k = kind
IsRun(l) == Has(l, "run_started")
Unfinished(l) == IsRun(l) /\ ~Has(l, "run_finished")
LastOf(l) == log[l][Len(log[l])]
Asks(l) == Cardinality({i \in DOMAIN log[l] : log[l][i].k = "asked"})
WaitsAt(l, g) == Len(log[l]) > 0 /\ LastOf(l) = Asked(g)

-----------------------------------------------------------------------------
(* Calls *)

InCall(c, at) == call[c].at = at /\ call[c].proc \in up
Goes(c, at) == call' = [call EXCEPT ![c].at = at]

(* A build lets go of both of its locks on every way out. *)
LetGo(c) ==
    /\ building' = [p \in Procs |-> IF building[p] = c THEN None ELSE building[p]]
    /\ issue' = IF issue = c THEN None ELSE issue

Begin(c, p, kind, l, g, at) ==
    /\ call[c].at = "idle" /\ p \in up
    /\ call' = [call EXCEPT ![c] = [at |-> at, kind |-> kind, proc |-> p, lead |-> l,
                                    task |-> 0, gate |-> g,
                                    seen |-> IF l = 0 THEN 0 ELSE Len(log[l])]]

StartBuild(c, p) ==
    /\ Begin(c, p, "build", 0, call[c].gate, "serial")
    /\ UNCHANGED <<up, unscanned, log, registry, task, locks, crashes>>

(* answer_checkpoint reads the log first: a gate it does not wait at is    *)
(* refused there and then.                                                 *)
StartAnswer(c, p, l, g) ==
    /\ IsRun(l)
    /\ Begin(c, p, "answer", l, g, IF WaitsAt(l, g) THEN "claim" ELSE "refused")
    /\ UNCHANGED <<up, unscanned, log, registry, task, locks, crashes>>

(* One lead of the start-up scan, which looks at them one by one. *)
StartScan(c, p, l) ==
    /\ l \in unscanned[p]
    /\ \A d \in Calls : call[d].kind = "scan" /\ call[d].proc = p
                          => call[d].at \notin {"claim", "register", "spawn", "handed"}
    /\ unscanned' = [unscanned EXCEPT ![p] = @ \ {l}]
    /\ Begin(c, p, "scan", l, call[c].gate, IF Unfinished(l) THEN "claim" ELSE "refused")
    /\ UNCHANGED <<up, log, registry, task, locks, crashes>>

TakeSerial(c) ==
    /\ InCall(c, "serial") /\ building[call[c].proc] = None
    /\ building' = [building EXCEPT ![call[c].proc] = c]
    /\ Goes(c, "issue")
    /\ UNCHANGED <<up, unscanned, log, registry, task, issue, crashes>>

(* Mutant: the issue's lock is not waited for. *)
TakeIssueAnyway(c) ==
    /\ InCall(c, "issue")
    /\ issue' = c /\ Goes(c, "look")
    /\ UNCHANGED <<up, unscanned, log, registry, task, building, crashes>>

TakeIssue(c) ==
    /\ InCall(c, "issue") /\ issue = None
    /\ issue' = c /\ Goes(c, "look")
    /\ UNCHANGED <<up, unscanned, log, registry, task, building, crashes>>

(* IssueLock::WAIT is over: the caller is refused. *)
IssueTimesOut(c) ==
    /\ InCall(c, "issue") /\ issue # None
    /\ LetGo(c) /\ Goes(c, "refused")
    /\ UNCHANGED <<up, unscanned, log, registry, task, crashes>>

(* unfinished_run looks at the newest lead first. *)
LookUp(c) ==
    /\ InCall(c, "look")
    /\ \/ /\ \E l \in Leads :
               /\ Unfinished(l) /\ \A m \in Leads : m > l => ~Unfinished(m)
               /\ call' = [call EXCEPT ![c].at = "claim", ![c].lead = l]
       \/ /\ \A l \in Leads : ~Unfinished(l)
          /\ Goes(c, "create")
    /\ UNCHANGED <<up, unscanned, log, registry, task, locks, crashes>>

(* The new lead's log starts with its thread, and is a run's one write     *)
(* later.                                                                  *)
CreateLead(c) ==
    /\ InCall(c, "create")
    /\ \E l \in Leads :
         /\ log[l] = <<>> /\ \A m \in Leads : m < l => log[m] # <<>>
         /\ log' = [log EXCEPT ![l] = <<Thread>>]
         /\ call' = [call EXCEPT ![c].at = "record", ![c].lead = l]
    /\ UNCHANGED <<up, unscanned, registry, task, locks, crashes>>

RecordRun(c) ==
    /\ InCall(c, "record")
    /\ log' = [log EXCEPT ![call[c].lead] = Append(@, RunStarted)]
    /\ Goes(c, "claim")
    /\ UNCHANGED <<up, unscanned, registry, task, locks, crashes>>

-----------------------------------------------------------------------------
(* Runs::claim: the slot and the lead's lock under one mutex.              *)

ClaimAttaches(c) ==
    /\ InCall(c, "claim")
    /\ slot[call[c].proc][call[c].lead] # 0
    /\ call' = [call EXCEPT ![c].at = "handed",
                            ![c].task = slot[call[c].proc][call[c].lead]]
    /\ UNCHANGED <<up, unscanned, log, registry, task, locks, crashes>>

ClaimElsewhere(c) ==
    /\ InCall(c, "claim")
    /\ slot[call[c].proc][call[c].lead] = 0 /\ holder[call[c].lead] # 0
    /\ call' = [call EXCEPT ![c].at = "elsewhere", ![c].task = holder[call[c].lead]]
    /\ LetGo(c)
    /\ UNCHANGED <<up, unscanned, log, registry, task, crashes>>

(* Mutant: only the daemon's own slot is looked at. *)
ClaimTakesSlotOnly(c) ==
    LET p == call[c].proc
        l == call[c].lead
    IN  /\ InCall(c, "claim") /\ slot[p][l] = 0
        /\ \E t \in Tasks :
             /\ task[t].at = "free"
             /\ task' = [task EXCEPT ![t] = [at |-> "claimed", proc |-> p, lead |-> l,
                                             queue |-> <<>>]]
             /\ holder' = [holder EXCEPT ![l] = t]
             /\ slot' = [slot EXCEPT ![p][l] = t]
             /\ call' = [call EXCEPT ![c].at = "register", ![c].task = t]
        /\ UNCHANGED <<up, unscanned, log, working, locks, crashes>>

ClaimTakes(c) ==
    LET p == call[c].proc
        l == call[c].lead
    IN  /\ InCall(c, "claim") /\ slot[p][l] = 0 /\ holder[l] = 0
        /\ \E t \in Tasks :
             /\ task[t].at = "free"
             /\ task' = [task EXCEPT ![t] = [at |-> "claimed", proc |-> p, lead |-> l,
                                             queue |-> <<>>]]
             /\ holder' = [holder EXCEPT ![l] = t]
             /\ slot' = [slot EXCEPT ![p][l] = t]
             /\ call' = [call EXCEPT ![c].at = "register", ![c].task = t]
        /\ UNCHANGED <<up, unscanned, log, working, locks, crashes>>

(* Mutant: a claim joins no count. *)
RegisterNot(c) ==
    /\ InCall(c, "register") /\ Goes(c, "spawn")
    /\ UNCHANGED <<up, unscanned, log, registry, task, locks, crashes>>

(* The slots are let go before the claim joins the working count. *)
Register(c) ==
    /\ InCall(c, "register")
    /\ working' = [working EXCEPT ![call[c].proc] = @ \union {call[c].lead}]
    /\ Goes(c, "spawn")
    /\ UNCHANGED <<up, unscanned, log, holder, slot, task, locks, crashes>>

Spawn(c) ==
    /\ InCall(c, "spawn")
    /\ task' = [task EXCEPT ![call[c].task].at = "opening"]
    /\ Goes(c, "handed")
    /\ UNCHANGED <<up, unscanned, log, registry, locks, crashes>>

(* A build or a scan is done once a task is there; an answer is sent to it *)
(* unless the task has dropped its end of the channel.                     *)
HandOver(c) ==
    LET t == call[c].task
        heard == call[c].kind = "answer" /\ task[t].at # "ended"
    IN  /\ InCall(c, "handed")
        /\ task' = IF heard THEN [task EXCEPT ![t].queue = Append(@, c)] ELSE task
        /\ Goes(c, CASE heard -> "await"
                     [] call[c].kind = "answer" /\ ~heard -> "gone"
                     [] OTHER -> "ok")
        /\ LetGo(c)
        /\ UNCHANGED <<up, unscanned, log, registry, crashes>>

-----------------------------------------------------------------------------
(* Tasks: drive and run *)

InTask(t, at) == task[t].at = at
Turns(t, at) == task' = [task EXCEPT ![t].at = at]
Appends(t, e) == log' = [log EXCEPT ![task[t].lead] = Append(@, e)]

OpenRun(t) ==
    /\ InTask(t, "opening")
    /\ \/ Turns(t, "advancing")
       \/ Turns(t, "ending")        \* the workflow or the log cannot be read
    /\ UNCHANGED <<up, unscanned, log, registry, locks, call, crashes>>

(* What the runner's moves come to: a gate, the run's end or an error.     *)
Advance(t) ==
    /\ InTask(t, "advancing")
    /\ \/ /\ Unfinished(task[t].lead) /\ LastOf(task[t].lead).k # "asked"
          /\ Asks(task[t].lead) < MaxAsks
          /\ \E g \in Gates : Appends(t, Asked(g))
          /\ Turns(t, "waiting")
       \/ /\ LastOf(task[t].lead).k = "asked"
          /\ Turns(t, "waiting") /\ UNCHANGED log
       \/ /\ Unfinished(task[t].lead) /\ LastOf(task[t].lead).k # "asked"
          /\ Appends(t, Finished) /\ Turns(t, "ending")
       \/ /\ LastOf(task[t].lead).k # "asked"
          /\ Turns(t, "ending") /\ UNCHANGED log
    /\ UNCHANGED <<up, unscanned, registry, locks, call, crashes>>

(* The runner checks the gate the answer names against its own log, writes *)
(* the answer and only then replies.                                       *)
Answering(t) == task[t].queue[1]

Apply(t) ==
    /\ InTask(t, "waiting") /\ task[t].queue # <<>>
    /\ WaitsAt(task[t].lead, call[Answering(t)].gate)
    /\ Appends(t, Answered(Answering(t)))
    /\ Turns(t, "replying")
    /\ UNCHANGED <<up, unscanned, registry, locks, call, crashes>>

Reply(t) ==
    /\ InTask(t, "replying")
    /\ task' = [task EXCEPT ![t].at = "advancing", ![t].queue = Tail(@)]
    /\ Goes(Answering(t), "ok")
    /\ UNCHANGED <<up, unscanned, log, registry, locks, crashes>>

(* Mutant: a refused answer is reported as taken. *)
RefuseAsTaken(t) ==
    /\ InTask(t, "waiting") /\ task[t].queue # <<>>
    /\ ~WaitsAt(task[t].lead, call[Answering(t)].gate)
    /\ task' = [task EXCEPT ![t].at = "advancing", ![t].queue = Tail(@)]
    /\ Goes(Answering(t), "ok")
    /\ UNCHANGED <<up, unscanned, log, registry, locks, crashes>>

Refuse(t) ==
    /\ InTask(t, "waiting") /\ task[t].queue # <<>>
    /\ ~WaitsAt(task[t].lead, call[Answering(t)].gate)
    /\ task' = [task EXCEPT ![t].at = "advancing", ![t].queue = Tail(@)]
    /\ Goes(Answering(t), "refused")
    /\ UNCHANGED <<up, unscanned, log, registry, locks, crashes>>

(* Runs::release, then the lock file, then the channel's end. *)
GiveUpSlot(t) ==
    /\ InTask(t, "ending") /\ Turns(t, "counted")
    /\ slot' = [slot EXCEPT ![task[t].proc][task[t].lead] = 0]
    /\ UNCHANGED <<up, unscanned, log, holder, working, locks, call, crashes>>

(* Mutant: a task that ends is not taken off the count. *)
LeaveCountNot(t) ==
    /\ InTask(t, "counted") /\ Turns(t, "unlocking")
    /\ UNCHANGED <<up, unscanned, log, registry, locks, call, crashes>>

LeaveCount(t) ==
    /\ InTask(t, "counted") /\ Turns(t, "unlocking")
    /\ working' = [working EXCEPT ![task[t].proc] = @ \ {task[t].lead}]
    /\ UNCHANGED <<up, unscanned, log, holder, slot, locks, call, crashes>>

Unlock(t) ==
    /\ InTask(t, "unlocking") /\ Turns(t, "closing")
    /\ holder' = [holder EXCEPT ![task[t].lead] = 0]
    /\ UNCHANGED <<up, unscanned, log, slot, working, locks, call, crashes>>

(* Mutant: an answer nobody took keeps its sender waiting. *)
CloseForgets(t) ==
    /\ InTask(t, "closing") /\ task' = [task EXCEPT ![t].at = "ended", ![t].queue = <<>>]
    /\ UNCHANGED <<up, unscanned, log, registry, locks, call, crashes>>

(* Who waits for an answer's reply learns that the task is gone. *)
Close(t) ==
    /\ InTask(t, "closing") /\ task' = [task EXCEPT ![t].at = "ended", ![t].queue = <<>>]
    /\ call' = [c \in Calls |->
                  IF call[c].at = "await" /\ call[c].task = t
                  THEN [call[c] EXCEPT !.at = "gone"] ELSE call[c]]
    /\ UNCHANGED <<up, unscanned, log, registry, locks, crashes>>

-----------------------------------------------------------------------------
(* A daemon dies with its tasks and its calls, and the system lets go of   *)
(* its lock files.                                                         *)
Over == {"idle", "ok", "refused", "elsewhere", "gone", "lost"}
Of(p, t) == task[t].at \notin {"free", "ended"} /\ task[t].proc = p

Crash(p) ==
    /\ p \in up /\ crashes < MaxCrashes
    /\ crashes' = crashes + 1 /\ up' = up \ {p}
    /\ holder' = [l \in Leads |->
                    IF holder[l] # 0 /\ task[holder[l]].proc = p THEN 0 ELSE holder[l]]
    /\ slot' = [slot EXCEPT ![p] = [l \in Leads |-> 0]]
    /\ working' = [working EXCEPT ![p] = {}]
    /\ task' = [t \in Tasks |->
                  IF Of(p, t) THEN [task[t] EXCEPT !.at = "ended", !.queue = <<>>]
                              ELSE task[t]]
    /\ call' = [c \in Calls |->
                  IF call[c].proc = p /\ call[c].at \notin Over
                  THEN [call[c] EXCEPT !.at = "lost"] ELSE call[c]]
    /\ building' = [building EXCEPT ![p] = None]
    /\ issue' = IF issue # None /\ call[issue].proc = p THEN None ELSE issue
    /\ UNCHANGED <<unscanned, log>>

(* resume_unfinished_runs reads the index of leads there are at start-up.  *)
Restart(p) ==
    /\ p \in Procs \ up
    /\ up' = up \union {p}
    /\ unscanned' = [unscanned EXCEPT ![p] = {l \in Leads : IsRun(l)}]
    /\ UNCHANGED <<log, registry, task, locks, call, crashes>>

-----------------------------------------------------------------------------
(* The daemons start over what earlier ones left: nothing, a lead whose    *)
(* build died before its record, a run, or a run that waits at a gate.     *)
Left == {<<>>, <<Thread>>, <<Thread, RunStarted>>}
        \union {<<Thread, RunStarted, Asked(g)>> : g \in Gates}

Init ==
    /\ up = Procs
    /\ \E old \in Left : log = [l \in Leads |-> IF l = 1 THEN old ELSE <<>>]
    /\ unscanned = [p \in Procs |-> {l \in Leads : IsRun(l)}]
    /\ holder = [l \in Leads |-> 0]
    /\ slot = [p \in Procs |-> [l \in Leads |-> 0]]
    /\ working = [p \in Procs |-> {}]
    /\ task = [t \in Tasks |-> NoTask]
    /\ building = [p \in Procs |-> None]
    /\ issue = None
    /\ call = [c \in Calls |-> NoOne]
    /\ crashes = 0

CallSteps(c) ==
    \/ TakeSerial(c) \/ TakeIssue(c) \/ IssueTimesOut(c) \/ LookUp(c)
    \/ CreateLead(c) \/ RecordRun(c)
    \/ ClaimAttaches(c) \/ ClaimElsewhere(c) \/ ClaimTakes(c)
    \/ Register(c) \/ Spawn(c) \/ HandOver(c)
TaskSteps(t) ==
    \/ OpenRun(t) \/ Advance(t) \/ Apply(t) \/ Reply(t) \/ Refuse(t)
    \/ GiveUpSlot(t) \/ LeaveCount(t) \/ Unlock(t) \/ Close(t)
Starts ==
    \E c \in Calls, p \in Procs :
        \/ StartBuild(c, p)
        \/ \E l \in Leads, g \in Gates : StartAnswer(c, p, l, g)
        \/ \E l \in Leads : StartScan(c, p, l)
Faults == \E p \in Procs : Crash(p) \/ Restart(p)

Next ==
    \/ \E c \in Calls : CallSteps(c)
    \/ \E t \in Tasks : TaskSteps(t)
    \/ Starts \/ Faults

Spec == Init /\ [][Next]_vars

(* A call and a task that can go on do; nobody has to call or to crash.    *)
Fairness == /\ \A c \in Calls : WF_vars(CallSteps(c))
            /\ \A t \in Tasks : WF_vars(TaskSteps(t))
FairSpec == Spec /\ Fairness

-----------------------------------------------------------------------------
(* What the registry promises. *)

Held == {"claimed", "opening", "advancing", "waiting", "replying",
         "ending", "counted", "unlocking"}
Driving == {"opening", "advancing", "waiting", "replying"}
Counting == Driving \union {"ending", "counted"}

TaskType == [at : Held \union {"free", "closing", "ended"}, proc : Procs \union {None},
             lead : Leads \union {0}, queue : Seq(Calls)]
Places == Over \union {"serial", "issue", "look", "create", "record",
                      "claim", "register", "spawn", "handed", "await"}
CallType == [at : Places, kind : {"build", "answer", "scan"}, proc : Procs \union {None},
             lead : Leads \union {0}, task : Tasks \union {0},
             gate : Gates \union {None}, seen : Nat]

TypeOK ==
    /\ up \subseteq Procs
    /\ unscanned \in [Procs -> SUBSET Leads]
    /\ log \in [Leads -> Seq(Events)]
    /\ holder \in [Leads -> Tasks \union {0}]
    /\ slot \in [Procs -> [Leads -> Tasks \union {0}]]
    /\ working \in [Procs -> SUBSET Leads]
    /\ task \in [Tasks -> TaskType]
    /\ building \in [Procs -> Calls \union {None}]
    /\ issue \in Calls \union {None}
    /\ call \in [Calls -> CallType]
    /\ \A t \in Tasks : task[t].at = "replying" => task[t].queue # <<>>
    /\ crashes \in 0..MaxCrashes

(* However many daemons, builds, answers and scans meet, at most one task  *)
(* drives a lead.                                                          *)
OneDriver ==
    \A s, t \in Tasks :
        task[s].at \in Driving /\ task[t].at \in Driving /\ task[s].lead = task[t].lead
        => s = t

(* A registry's slot leads to a task of this daemon over that lead, one    *)
(* that holds the lead's lock.                                             *)
SlotsTrue ==
    \A p \in Procs, l \in Leads :
        slot[p][l] # 0 =>
          /\ task[slot[p][l]].proc = p /\ task[slot[p][l]].lead = l
          /\ holder[l] = slot[p][l]

(* There is never more than one unfinished run for the issue. *)
OneRun == Cardinality({l \in Leads : Unfinished(l)}) <= 1

(* Why it is so: a call past its claim owns the task it made, a call that   *)
(* makes a lead owns it until it is a run, and a task holds its lead's     *)
(* lock from its claim until it gives it up.                               *)
Claiming == {"register", "spawn"}
CallSound(c) ==
    /\ call[c].at \notin Over => call[c].proc \in Procs
    /\ call[c].at \in {"record", "claim", "register", "spawn", "handed"} =>
         call[c].lead \in Leads
    /\ call[c].at \in {"claim", "register", "spawn"} => IsRun(call[c].lead)
    /\ call[c].at = "record" => log[call[c].lead] = <<Thread>>
    /\ call[c].at \in Claiming =>
         /\ call[c].task \in Tasks
         /\ task[call[c].task].at = "claimed" /\ task[call[c].task].proc = call[c].proc
    /\ call[c].at = "handed" => call[c].task \in Tasks
CallsApart ==
    \A c, d \in Calls : c # d =>
        /\ call[c].at = "record" /\ call[d].at = "record" => call[c].lead # call[d].lead
        /\ call[c].at \in Claiming /\ call[d].at \in Claiming => call[c].task # call[d].task
TaskSound(t) ==
    /\ task[t].at # "free" => task[t].proc \in Procs /\ task[t].lead \in Leads
    /\ task[t].at \in Held => holder[task[t].lead] = t /\ IsRun(task[t].lead)
SlotSound ==
    \A p \in Procs, l \in Leads :
        slot[p][l] # 0 =>
          /\ task[slot[p][l]].proc = p /\ task[slot[p][l]].lead = l
          /\ task[slot[p][l]].at \in Held \ {"counted", "unlocking"}
LocksSound ==
    /\ \A c \in Calls : CallSound(c)
    /\ CallsApart
    /\ \A t \in Tasks : TaskSound(t)
    /\ SlotSound

(* The count a usage line carries is of the leads this daemon's tasks      *)
(* drive, no more and no less.                                             *)
CountsDriven ==
    \A p \in Procs, l \in Leads :
        (\E t \in Tasks : task[t].at \in Counting /\ task[t].proc = p /\ task[t].lead = l)
        => l \in working[p]
CountsOnlyHeld ==
    \A p \in Procs : \A l \in working[p] :
        \E t \in Tasks : task[t].at \in Held /\ task[t].proc = p /\ task[t].lead = l

(* Nobody works uncounted, and the count holds nobody who has let go.      *)
CountsTrue == CountsDriven /\ CountsOnlyHeld

(* An answer reported as taken is in the log, one reported as refused is   *)
(* not, and none is there twice.                                           *)
RepliesTrue ==
    \A c \in Calls :
        LET written(l) == {i \in DOMAIN log[l] : log[l][i] = Answered(c)}
        IN  /\ call[c].kind = "answer" /\ call[c].at = "ok" =>
                 Cardinality(written(call[c].lead)) = 1
            /\ call[c].at \in {"refused", "elsewhere", "gone"} =>
                 \A l \in Leads : written(l) = {}

(* A run's log is written by the one task that holds the lead's lock.      *)
HolderWrites ==
    [][\A l \in Leads :
          IsRun(l) /\ log'[l] # log[l] =>
            holder[l] # 0 /\ task[holder[l]].at \in {"advancing", "waiting"}]_vars

(* An answer is applied to the ask its sender saw. *)
AnswersItsAsk ==
    \A l \in Leads : \A i \in DOMAIN log[l] :
        log[l][i].k = "answered" => call[log[l][i].call].seen = i - 1

(* A call told that another process drives the run lives in another one.   *)
ElsewhereIsElsewhere ==
    \A c \in Calls :
        call[c].at = "elsewhere" => task[call[c].task].proc # call[c].proc

(* Every call is answered, whatever task it met on its way. *)
CallsReturn == \A c \in Calls : call[c].at \notin Over ~> call[c].at \in Over
=============================================================================
