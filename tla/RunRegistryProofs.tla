-------------------------- MODULE RunRegistryProofs --------------------------
(***************************************************************************)
(* What holds of the run registry for any number of daemons, calls, leads, *)
(* tasks and gates: one task drives a lead, a slot leads to the holder of  *)
(* the lead's lock, and only that holder writes the run's log; and what    *)
(* builds, answers and scans may rely on: one unfinished run for the       *)
(* issue, a count of the leads that are driven, and replies that say what  *)
(* was written.                                                            *)
(***************************************************************************)
EXTENDS RunRegistry, FiniteSetTheorems, TLAPS

Sound == TypeOK /\ LocksSound

(* What an append to one log does: that log is a run if it was one or is   *)
(* told so now, and no other changes.                                      *)
LEMMA AppendTyped ==
  ASSUME log \in [Leads -> Seq(Events)], NEW m \in Leads, NEW e \in Events,
         log' = [log EXCEPT ![m] = Append(@, e)]
  PROVE  /\ log' \in [Leads -> Seq(Events)]
         /\ \A l \in Leads : IsRun(l) => IsRun(l)'
         /\ \A l \in Leads : l # m => log'[l] = log[l]
<1>1. log' \in [Leads -> Seq(Events)]
  OBVIOUS
<1>2. ASSUME NEW l \in Leads, IsRun(l) PROVE IsRun(l)'
  <2>1. PICK i \in DOMAIN log[l] : log[l][i].k = "run_started"
    BY <1>2 DEF IsRun, Has
  <2>2. i \in DOMAIN log'[l] /\ log'[l][i] = log[l][i]
    <3>1. CASE l = m
      <4>1. log[l] \in Seq(Events) /\ log'[l] = Append(log[l], e)
        BY <3>1
      <4> QED
        BY <4>1, <2>1
    <3>2. CASE l # m
      BY <3>2, <2>1
    <3> QED
      BY <3>1, <3>2
  <2> QED
    BY <2>1, <2>2 DEF IsRun, Has
<1> QED
  BY <1>1, <1>2

LEMMA InitSound == Init => Sound
<1> SUFFICES ASSUME Init PROVE Sound
  OBVIOUS
<1>1. TypeOK
  <2>1. log \in [Leads -> Seq(Events)]
    <3>1. PICK old \in Left : log = [l \in Leads |-> IF l = 1 THEN old ELSE <<>>]
      BY DEF Init
    <3>2. old \in Seq(Events)
      <4>1. Thread \in Events /\ RunStarted \in Events /\ \A g \in Gates : Asked(g) \in Events
        BY DEF Events
      <4> HIDE DEF Events
      <4>2. <<>> \in Seq(Events) /\ <<Thread>> \in Seq(Events)
            /\ <<Thread, RunStarted>> \in Seq(Events)
        BY <4>1
      <4>3. CASE \E g \in Gates : old = <<Thread, RunStarted, Asked(g)>>
        BY <4>1, <4>3
      <4> QED
        BY <4>2, <4>3, Zenon DEF Left
    <3> QED
      BY <3>1, <3>2
  <2>2. unscanned \in [Procs -> SUBSET Leads]
    BY DEF Init
  <2>3. task \in [Tasks -> TaskType]
    BY DEF Init, NoTask, TaskType
  <2>4. \A t \in Tasks : task[t].at # "replying"
    BY DEF Init, NoTask
  <2>5. call \in [Calls -> CallType]
    BY DEF Init, NoOne, Over, Places, CallType
  <2>6. /\ up \subseteq Procs /\ holder \in [Leads -> Tasks \union {0}]
        /\ slot \in [Procs -> [Leads -> Tasks \union {0}]]
        /\ working \in [Procs -> SUBSET Leads]
        /\ building \in [Procs -> Calls \union {None}] /\ issue \in Calls \union {None}
        /\ crashes \in 0..MaxCrashes
    BY BoundsAssumption DEF Init
  <2> QED
    BY <2>1, <2>2, <2>3, <2>4, <2>5, <2>6 DEF TypeOK
<1>2. LocksSound
  <2>1. \A c \in Calls : call[c].at = "idle"
    BY DEF Init, NoOne
  <2>2. \A t \in Tasks : task[t].at = "free"
    BY DEF Init, NoTask
  <2>3. \A p \in Procs, l \in Leads : slot[p][l] = 0
    BY DEF Init
  <2> QED
    BY <2>1, <2>2, <2>3 DEF LocksSound, CallSound, Over, CallsApart, TaskSound, SlotSound,
                            Claiming, Held
<1> QED
  BY <1>1, <1>2 DEF Sound
-----------------------------------------------------------------------------
(* Types *)

LEMMA GoesTyped ==
  ASSUME call \in [Calls -> CallType], NEW c \in Calls, NEW place \in Places,
         Goes(c, place)
  PROVE  call' \in [Calls -> CallType]
  BY DEF Goes, CallType

LEMMA CallLeadTyped ==
  ASSUME call \in [Calls -> CallType], NEW c \in Calls, NEW place \in Places,
         NEW l \in Leads, call' = [call EXCEPT ![c].at = place, ![c].lead = l]
  PROVE  call' \in [Calls -> CallType]
<1>1. call'[c] = [call[c] EXCEPT !.at = place, !.lead = l] /\ call[c] \in CallType
  OBVIOUS
<1>2. ASSUME NEW r \in CallType PROVE [r EXCEPT !.at = place, !.lead = l] \in CallType
  BY DEF CallType
<1>3. call'[c] \in CallType
  BY <1>1, <1>2
<1> QED
  BY <1>3

LEMMA CallTaskTyped ==
  ASSUME call \in [Calls -> CallType], NEW c \in Calls, NEW place \in Places,
         NEW t \in Tasks \union {0},
         call' = [call EXCEPT ![c].at = place, ![c].task = t]
  PROVE  call' \in [Calls -> CallType]
<1>1. call'[c] = [call[c] EXCEPT !.at = place, !.task = t] /\ call[c] \in CallType
  OBVIOUS
<1>2. ASSUME NEW r \in CallType PROVE [r EXCEPT !.at = place, !.task = t] \in CallType
  BY DEF CallType
<1>3. call'[c] \in CallType
  BY <1>1, <1>2
<1> QED
  BY <1>3

LEMMA LetGoTyped ==
  ASSUME building \in [Procs -> Calls \union {None}], issue \in Calls \union {None},
         NEW c \in Calls, LetGo(c)
  PROVE  building' \in [Procs -> Calls \union {None}] /\ issue' \in Calls \union {None}
  BY DEF LetGo

LEMMA CallStepTyped ==
  ASSUME Sound, NEW c \in Calls, CallSteps(c)
  PROVE  TypeOK'
<1>0. /\ TypeOK /\ CallSound(c)
      /\ up' = up /\ unscanned' = unscanned /\ crashes' = crashes
  BY DEF Sound, LocksSound, CallSteps, TakeSerial, TakeIssue, IssueTimesOut, LookUp,
         CreateLead, RecordRun, ClaimAttaches, ClaimElsewhere, ClaimTakes, Register,
         Spawn, HandOver
<1>1. CASE TakeSerial(c)
  <2>1. call' \in [Calls -> CallType]
    BY <1>0, <1>1, GoesTyped DEF TakeSerial, TypeOK, Places
  <2> QED
    BY <2>1, <1>0, <1>1 DEF TakeSerial, TypeOK, registry
<1>2. CASE TakeIssue(c)
  <2>1. call' \in [Calls -> CallType]
    BY <1>0, <1>2, GoesTyped DEF TakeIssue, TypeOK, Places
  <2> QED
    BY <2>1, <1>0, <1>2 DEF TakeIssue, TypeOK, registry
<1>3. CASE IssueTimesOut(c)
  <2>1. call' \in [Calls -> CallType]
    BY <1>0, <1>3, GoesTyped DEF IssueTimesOut, TypeOK, Places, Over
  <2>2. building' \in [Procs -> Calls \union {None}] /\ issue' \in Calls \union {None}
    BY <1>0, <1>3, LetGoTyped DEF IssueTimesOut, TypeOK
  <2> QED
    BY <2>1, <2>2, <1>0, <1>3 DEF IssueTimesOut, TypeOK, registry
<1>4. CASE LookUp(c)
  <2>1. call' \in [Calls -> CallType]
    <3>1. CASE Goes(c, "create")
      BY <3>1, <1>0, GoesTyped DEF TypeOK, Places
    <3>2. ASSUME NEW l \in Leads,
                 call' = [call EXCEPT ![c].at = "claim", ![c].lead = l]
          PROVE  call' \in [Calls -> CallType]
      BY <3>2, <1>0, CallLeadTyped DEF TypeOK, Places
    <3> QED
      BY <3>1, <3>2, <1>4 DEF LookUp
  <2> QED
    BY <2>1, <1>0, <1>4 DEF LookUp, TypeOK, registry, locks
<1>5. CASE CreateLead(c)
  <2>1. PICK l \in Leads : /\ log' = [log EXCEPT ![l] = <<Thread>>]
                           /\ call' = [call EXCEPT ![c].at = "record", ![c].lead = l]
    BY <1>5 DEF CreateLead
  <2>2. call' \in [Calls -> CallType]
    BY <2>1, <1>0, CallLeadTyped DEF TypeOK, Places
  <2>3. <<Thread>> \in Seq(Events)
    BY DEF Events
  <2>4. log' \in [Leads -> Seq(Events)]
    BY <2>1, <2>3, <1>0 DEF TypeOK
  <2> QED
    BY <2>2, <2>4, <1>0, <1>5 DEF CreateLead, TypeOK, registry, locks
<1>6. CASE RecordRun(c)
  <2>1. RunStarted \in Events /\ call[c].lead \in Leads
    BY <1>0, <1>6 DEF Events, RecordRun, InCall, CallSound, Over
  <2>2. log' \in [Leads -> Seq(Events)]
    BY <2>1, <1>0, <1>6, AppendTyped DEF RecordRun, TypeOK
  <2>3. call' \in [Calls -> CallType]
    BY <1>0, <1>6, GoesTyped DEF RecordRun, TypeOK, Places
  <2> QED
    BY <2>2, <2>3, <1>0, <1>6 DEF RecordRun, TypeOK, registry, locks
<1>7. CASE ClaimAttaches(c)
  <2>1. call[c].proc \in Procs /\ call[c].lead \in Leads
    BY <1>0, <1>7 DEF ClaimAttaches, InCall, CallSound, Over
  <2>2. call' \in [Calls -> CallType]
    <3>1. slot[call[c].proc][call[c].lead] \in Tasks \union {0}
      BY <2>1, <1>0 DEF TypeOK
    <3> QED
      BY <3>1, <1>0, <1>7, CallTaskTyped DEF ClaimAttaches, TypeOK, Places
  <2> QED
    BY <2>2, <1>0, <1>7 DEF ClaimAttaches, TypeOK, registry, locks
<1>8. CASE ClaimElsewhere(c)
  <2>1. call[c].lead \in Leads
    BY <1>0, <1>8 DEF ClaimElsewhere, InCall, CallSound, Over
  <2>2. call' \in [Calls -> CallType]
    BY <2>1, <1>0, <1>8, CallTaskTyped DEF ClaimElsewhere, TypeOK, Places, Over
  <2>3. building' \in [Procs -> Calls \union {None}] /\ issue' \in Calls \union {None}
    BY <1>0, <1>8, LetGoTyped DEF ClaimElsewhere, TypeOK
  <2> QED
    BY <2>2, <2>3, <1>0, <1>8 DEF ClaimElsewhere, TypeOK, registry
<1>9. CASE ClaimTakes(c)
  <2>1. call[c].proc \in Procs /\ call[c].lead \in Leads
    BY <1>0, <1>9 DEF ClaimTakes, InCall, CallSound, Over
  <2>2. PICK t \in Tasks :
          /\ task' = [task EXCEPT ![t] = [at |-> "claimed", proc |-> call[c].proc,
                                         lead |-> call[c].lead, queue |-> <<>>]]
          /\ holder' = [holder EXCEPT ![call[c].lead] = t]
          /\ slot' = [slot EXCEPT ![call[c].proc][call[c].lead] = t]
          /\ call' = [call EXCEPT ![c].at = "register", ![c].task = t]
    BY <1>9 DEF ClaimTakes
  <2>3. call' \in [Calls -> CallType]
    BY <2>2, <1>0, CallTaskTyped DEF TypeOK, Places
  <2>4. task' \in [Tasks -> TaskType]
    BY <2>1, <2>2, <1>0 DEF TypeOK, TaskType, Held
  <2>5. \A u \in Tasks : task'[u].at = "replying" => task'[u].queue # <<>>
    BY <2>2, <1>0 DEF TypeOK
  <2>6. /\ holder' \in [Leads -> Tasks \union {0}]
        /\ slot' \in [Procs -> [Leads -> Tasks \union {0}]]
    BY <2>1, <2>2, <1>0 DEF TypeOK
  <2> QED
    BY <2>3, <2>4, <2>5, <2>6, <1>0, <1>9 DEF ClaimTakes, TypeOK, locks
<1>10. CASE Register(c)
  <2>1. call[c].lead \in Leads
    BY <1>0, <1>10 DEF Register, InCall, CallSound, Over
  <2>2. call' \in [Calls -> CallType]
    BY <1>0, <1>10, GoesTyped DEF Register, TypeOK, Places
  <2> QED
    BY <2>1, <2>2, <1>0, <1>10 DEF Register, TypeOK, locks
<1>11. CASE Spawn(c)
  <2>1. call' \in [Calls -> CallType]
    BY <1>0, <1>11, GoesTyped DEF Spawn, TypeOK, Places
  <2>2. task' \in [Tasks -> TaskType]
    <3>1. ASSUME NEW r \in TaskType PROVE [r EXCEPT !.at = "opening"] \in TaskType
      BY DEF TaskType, Held
    <3> QED
      BY <3>1, <1>0, <1>11 DEF Spawn, TypeOK
  <2>3. \A u \in Tasks : task'[u].at = "replying" => task'[u].queue # <<>>
    BY <1>0, <1>11 DEF Spawn, TypeOK, TaskType
  <2> QED
    BY <2>1, <2>2, <2>3, <1>0, <1>11 DEF Spawn, TypeOK, registry, locks
<1>12. CASE HandOver(c)
  <2>1. call[c].task \in Tasks
    BY <1>0, <1>12 DEF HandOver, InCall, CallSound
  <2>2. task' \in [Tasks -> TaskType]
    <3>1. /\ task \in [Tasks -> TaskType]
          /\ task' \in {task, [task EXCEPT ![call[c].task].queue = Append(@, c)]}
      BY <1>0, <1>12 DEF HandOver, TypeOK
    <3>2. ASSUME NEW r \in TaskType PROVE [r EXCEPT !.queue = Append(@, c)] \in TaskType
      <4>1. Append(r.queue, c) \in Seq(Calls)
        BY DEF TaskType
      <4> QED
        BY <4>1 DEF TaskType
    <3> QED
      <4>1. PICK t \in Tasks : t = call[c].task
        BY <2>1
      <4>2. ASSUME task' = [task EXCEPT ![t].queue = Append(@, c)]
            PROVE  task' \in [Tasks -> TaskType]
        <5>1. task[t] \in TaskType /\ task' = [task EXCEPT ![t] = [task[t] EXCEPT !.queue = Append(@, c)]]
          BY <3>1, <4>2
        <5> QED BY <3>1, <3>2, <5>1
      <4> QED BY <3>1, <4>1, <4>2
  <2>3. \A u \in Tasks : task'[u].at = "replying" => task'[u].queue # <<>>
    <3>1. /\ task \in [Tasks -> TaskType]
          /\ task' \in {task, [task EXCEPT ![call[c].task].queue = Append(@, c)]}
          /\ \A u \in Tasks : task[u].at = "replying" => task[u].queue # <<>>
      BY <1>0, <1>12 DEF HandOver, TypeOK
    <3>2. ASSUME NEW u \in Tasks
          PROVE  \/ task'[u] = task[u]
                 \/ task'[u].queue = Append(task[u].queue, c) /\ task[u].queue \in Seq(Calls)
      BY <3>1 DEF TaskType
    <3>3. ASSUME NEW q \in Seq(Calls) PROVE Append(q, c) # <<>>
      <4>1. Len(Append(q, c)) = Len(q) + 1 /\ Len(q) \in Nat
        OBVIOUS
      <4> QED BY <4>1
    <3> QED BY <3>1, <3>2, <3>3
  <2>4. call' \in [Calls -> CallType]
    <3>1. \E place \in {"await", "gone", "ok"} : Goes(c, place)
      BY <1>12 DEF HandOver
    <3> QED
      BY <3>1, <1>0, GoesTyped DEF TypeOK, Places, Over
  <2>5. building' \in [Procs -> Calls \union {None}] /\ issue' \in Calls \union {None}
    BY <1>0, <1>12, LetGoTyped DEF HandOver, TypeOK
  <2> QED
    BY <2>2, <2>3, <2>4, <2>5, <1>0, <1>12 DEF HandOver, TypeOK, registry
<1> QED
  BY <1>1, <1>2, <1>3, <1>4, <1>5, <1>6, <1>7, <1>8, <1>9, <1>10, <1>11, <1>12
  DEF CallSteps


LEMMA TurnsTyped ==
  ASSUME task \in [Tasks -> TaskType], NEW t \in Tasks,
         NEW at \in Held \union {"free", "closing", "ended"}, Turns(t, at)
  PROVE  task' \in [Tasks -> TaskType]
<1>1. ASSUME NEW r \in TaskType PROVE [r EXCEPT !.at = at] \in TaskType
  BY DEF TaskType
<1> QED
  BY <1>1 DEF Turns

(* What happens to the queue of a task that answers. *)
LEMMA AnsweredTyped ==
  ASSUME task \in [Tasks -> TaskType], NEW t \in Tasks, task[t].queue # <<>>,
         task' = [task EXCEPT ![t].at = "advancing", ![t].queue = Tail(@)]
  PROVE  task' \in [Tasks -> TaskType] /\ Answering(t) \in Calls
<1>1. task[t] \in TaskType
  OBVIOUS
<1>2. task[t].queue \in Seq(Calls)
  BY <1>1 DEF TaskType
<1>3. Tail(task[t].queue) \in Seq(Calls) /\ Answering(t) \in Calls
  BY <1>2 DEF Answering
<1>4. task'[t] = [task[t] EXCEPT !.at = "advancing", !.queue = Tail(task[t].queue)]
  BY <1>1 DEF TaskType
<1>5. task'[t] \in TaskType
  BY <1>1, <1>3, <1>4 DEF TaskType, Held
<1> QED
  BY <1>3, <1>5

LEMMA TaskStepTyped ==
  ASSUME Sound, NEW t \in Tasks, TaskSteps(t)
  PROVE  TypeOK'
<1>0. /\ TypeOK /\ TaskSound(t)
      /\ up' = up /\ unscanned' = unscanned /\ crashes' = crashes
      /\ building' = building /\ issue' = issue
  BY DEF Sound, LocksSound, TaskSteps, OpenRun, Advance, Apply, Reply, Refuse, GiveUpSlot,
         LeaveCount, Unlock, Close, locks
<1>1. CASE OpenRun(t)
  <2>1. task' \in [Tasks -> TaskType]
    BY <1>0, <1>1, TurnsTyped DEF OpenRun, TypeOK, Held
  <2>2. \A u \in Tasks : task'[u].at = "replying" => task'[u].queue # <<>>
    BY <1>0, <1>1 DEF OpenRun, Turns, TypeOK, TaskType
  <2> QED
    BY <2>1, <2>2, <1>0, <1>1 DEF OpenRun, TypeOK, registry
<1>2. CASE Advance(t)
  <2>1. task' \in [Tasks -> TaskType]
    BY <1>0, <1>2, TurnsTyped DEF Advance, TypeOK, Held
  <2>2. \A u \in Tasks : task'[u].at = "replying" => task'[u].queue # <<>>
    BY <1>0, <1>2 DEF Advance, Turns, TypeOK, TaskType
  <2>3. task[t].lead \in Leads
    BY <1>0, <1>2 DEF Advance, InTask, TaskSound
  <2>4. \/ log' = log
        \/ \E e \in Events : log' = [log EXCEPT ![task[t].lead] = Append(@, e)]
    BY <1>2 DEF Advance, Appends, Events
  <2>5. log' \in [Leads -> Seq(Events)]
    BY <2>3, <2>4, <1>0, AppendTyped DEF TypeOK
  <2> QED
    BY <2>1, <2>2, <2>5, <1>0, <1>2 DEF Advance, TypeOK, registry
<1>3. CASE Apply(t)
  <2>1. task' \in [Tasks -> TaskType]
    BY <1>0, <1>3, TurnsTyped DEF Apply, TypeOK, Held
  <2>2. \A u \in Tasks : task'[u].at = "replying" => task'[u].queue # <<>>
    BY <1>0, <1>3 DEF Apply, Turns, TypeOK, TaskType
  <2>3. task[t].lead \in Leads
    BY <1>0, <1>3 DEF Apply, InTask, TaskSound
  <2>4. task[t].queue \in Seq(Calls) /\ task[t].queue # <<>>
    BY <1>0, <1>3 DEF Apply, TypeOK, TaskType
  <2>5. Answered(Answering(t)) \in Events
    BY <2>4 DEF Answering, Events
  <2>6. log' \in [Leads -> Seq(Events)]
    BY <2>3, <2>5, <1>0, <1>3, AppendTyped DEF Apply, Appends, TypeOK
  <2> QED
    BY <2>1, <2>2, <2>6, <1>0, <1>3 DEF Apply, TypeOK, registry
<1>4. CASE Reply(t) \/ Refuse(t)
  <2>1. /\ task[t].queue # <<>>
        /\ task' = [task EXCEPT ![t].at = "advancing", ![t].queue = Tail(@)]
        /\ \E place \in {"ok", "refused"} : Goes(Answering(t), place)
    BY <1>0, <1>4 DEF Reply, Refuse, InTask, TypeOK
  <2>2. task' \in [Tasks -> TaskType] /\ Answering(t) \in Calls
    BY <2>1, <1>0, AnsweredTyped DEF TypeOK
  <2>3. call' \in [Calls -> CallType]
    BY <2>1, <2>2, <1>0, GoesTyped DEF TypeOK, Places, Over
  <2>4. \A u \in Tasks : task'[u].at = "replying" => task'[u].queue # <<>>
    BY <2>1, <1>0 DEF TypeOK, TaskType
  <2> QED
    BY <2>2, <2>3, <2>4, <1>0, <1>4 DEF Reply, Refuse, TypeOK, registry
<1>5. CASE GiveUpSlot(t)
  <2>1. task' \in [Tasks -> TaskType]
    BY <1>0, <1>5, TurnsTyped DEF GiveUpSlot, TypeOK, Held
  <2>2. \A u \in Tasks : task'[u].at = "replying" => task'[u].queue # <<>>
    BY <1>0, <1>5 DEF GiveUpSlot, Turns, TypeOK, TaskType
  <2>3. slot' \in [Procs -> [Leads -> Tasks \union {0}]]
    BY <1>0, <1>5 DEF GiveUpSlot, TypeOK
  <2> QED
    BY <2>1, <2>2, <2>3, <1>0, <1>5 DEF GiveUpSlot, TypeOK
<1>6. CASE LeaveCount(t)
  <2>1. task' \in [Tasks -> TaskType]
    BY <1>0, <1>6, TurnsTyped DEF LeaveCount, TypeOK, Held
  <2>2. \A u \in Tasks : task'[u].at = "replying" => task'[u].queue # <<>>
    BY <1>0, <1>6 DEF LeaveCount, Turns, TypeOK, TaskType
  <2> QED
    BY <2>1, <2>2, <1>0, <1>6 DEF LeaveCount, TypeOK
<1>7. CASE Unlock(t)
  <2>1. task' \in [Tasks -> TaskType]
    BY <1>0, <1>7, TurnsTyped DEF Unlock, TypeOK, Held
  <2>2. \A u \in Tasks : task'[u].at = "replying" => task'[u].queue # <<>>
    BY <1>0, <1>7 DEF Unlock, Turns, TypeOK, TaskType
  <2> QED
    BY <2>1, <2>2, <1>0, <1>7 DEF Unlock, TypeOK
<1>8. CASE Close(t)
  <2>1. task' \in [Tasks -> TaskType]
    <3>1. ASSUME NEW r \in TaskType
          PROVE  [[r EXCEPT !.at = "ended"] EXCEPT !.queue = <<>>] \in TaskType
      <4>1. [r EXCEPT !.at = "ended"] \in TaskType
        BY DEF TaskType
      <4>2. <<>> \in Seq(Calls)
        OBVIOUS
      <4> QED
        BY <4>1, <4>2 DEF TaskType
    <3>2. task[t] \in TaskType
      BY <1>0 DEF TypeOK
    <3>3. task'[t] = [[task[t] EXCEPT !.at = "ended"] EXCEPT !.queue = <<>>]
      BY <1>0, <1>8, <3>2 DEF Close, TypeOK, TaskType
    <3>4. task'[t] \in TaskType
      BY <3>1, <3>2, <3>3
    <3> QED
      BY <3>4, <1>0, <1>8 DEF Close, TypeOK
  <2>2. \A u \in Tasks : task'[u].at = "replying" => task'[u].queue # <<>>
    BY <1>0, <1>8 DEF Close, TypeOK, TaskType
  <2>3. call' \in [Calls -> CallType]
    <3>1. ASSUME NEW r \in CallType PROVE [r EXCEPT !.at = "gone"] \in CallType
      BY DEF CallType, Places, Over
    <3> QED
      BY <3>1, <1>0, <1>8 DEF Close, TypeOK
  <2> QED
    BY <2>1, <2>2, <2>3, <1>0, <1>8 DEF Close, TypeOK, registry
<1> QED
  BY <1>1, <1>2, <1>3, <1>4, <1>5, <1>6, <1>7, <1>8 DEF TaskSteps

LEMMA BeginTyped ==
  ASSUME TypeOK, NEW c \in Calls, NEW p \in Procs, NEW kind \in {"build", "answer", "scan"},
         NEW l \in Leads \union {0}, NEW g \in Gates \union {None}, NEW at \in Places,
         Begin(c, p, kind, l, g, at)
  PROVE  call' \in [Calls -> CallType]
<1>1. (IF l = 0 THEN 0 ELSE Len(log[l])) \in Nat
  BY DEF TypeOK
<1>2. call'[c] \in CallType
  BY <1>1 DEF Begin, CallType, TypeOK
<1> QED
  BY <1>2 DEF Begin, TypeOK

LEMMA OtherStepTyped ==
  ASSUME TypeOK, Starts \/ Faults
  PROVE  TypeOK'
<1>1. ASSUME NEW c \in Calls, NEW p \in Procs, StartBuild(c, p) PROVE TypeOK'
  <2>1. call[c].gate \in Gates \union {None}
    BY DEF TypeOK, CallType
  <2>2. call' \in [Calls -> CallType]
    BY <2>1, <1>1, BeginTyped DEF StartBuild, Places
  <2> QED
    BY <2>2, <1>1 DEF StartBuild, TypeOK, registry, locks
<1>2. ASSUME NEW c \in Calls, NEW p \in Procs, NEW l \in Leads, NEW g \in Gates,
             StartAnswer(c, p, l, g)
      PROVE  TypeOK'
  <2>1. (IF WaitsAt(l, g) THEN "claim" ELSE "refused") \in Places
    BY DEF Places, Over
  <2>2. call' \in [Calls -> CallType]
    BY <2>1, <1>2, BeginTyped DEF StartAnswer
  <2> QED
    BY <2>2, <1>2 DEF StartAnswer, TypeOK, registry, locks
<1>3. ASSUME NEW c \in Calls, NEW p \in Procs, NEW l \in Leads, StartScan(c, p, l)
      PROVE  TypeOK'
  <2>1. /\ call[c].gate \in Gates \union {None}
        /\ (IF Unfinished(l) THEN "claim" ELSE "refused") \in Places
    BY DEF TypeOK, CallType, Places, Over
  <2>2. call' \in [Calls -> CallType]
    BY <2>1, <1>3, BeginTyped DEF StartScan
  <2> QED
    BY <2>2, <1>3 DEF StartScan, TypeOK, registry, locks
<1>4. ASSUME NEW p \in Procs, Crash(p) PROVE TypeOK'
  <2>1. task' \in [Tasks -> TaskType]
    <3>1. ASSUME NEW r \in TaskType
          PROVE  [[r EXCEPT !.at = "ended"] EXCEPT !.queue = <<>>] \in TaskType
      <4>1. [r EXCEPT !.at = "ended"] \in TaskType
        BY DEF TaskType
      <4>2. <<>> \in Seq(Calls)
        OBVIOUS
      <4> QED
        BY <4>1, <4>2 DEF TaskType
    <3>2. ASSUME NEW t \in Tasks PROVE task'[t] \in TaskType
      <4>1. task[t] \in TaskType
        BY DEF TypeOK
      <4>2. \/ task'[t] = task[t]
            \/ task'[t] = [[task[t] EXCEPT !.at = "ended"] EXCEPT !.queue = <<>>]
        BY <1>4, <4>1 DEF Crash, TaskType
      <4> QED
        BY <4>1, <4>2, <3>1
    <3> QED
      BY <3>2, <1>4 DEF Crash
  <2>2. \A u \in Tasks : task'[u].at = "replying" => task'[u].queue # <<>>
    BY <1>4 DEF Crash, TypeOK, TaskType
  <2>3. call' \in [Calls -> CallType]
    <3>1. ASSUME NEW r \in CallType PROVE [r EXCEPT !.at = "lost"] \in CallType
      BY DEF CallType, Places, Over
    <3> QED
      BY <3>1, <1>4 DEF Crash, TypeOK
  <2>4. /\ holder' \in [Leads -> Tasks \union {0}]
        /\ slot' \in [Procs -> [Leads -> Tasks \union {0}]]
        /\ working' \in [Procs -> SUBSET Leads]
        /\ building' \in [Procs -> Calls \union {None}]
        /\ issue' \in Calls \union {None}
    BY <1>4 DEF Crash, TypeOK
  <2>5. crashes' \in 0..MaxCrashes
    <3>1. crashes < MaxCrashes /\ crashes' = crashes + 1
      BY <1>4 DEF Crash
    <3>2. crashes \in 0..MaxCrashes
      BY DEF TypeOK
    <3> QED
      BY <3>1, <3>2, BoundsAssumption
  <2> QED
    BY <2>1, <2>2, <2>3, <2>4, <2>5, <1>4 DEF Crash, TypeOK
<1>5. ASSUME NEW p \in Procs, Restart(p) PROVE TypeOK'
  BY <1>5 DEF Restart, TypeOK, registry, locks
<1> QED
  BY <1>1, <1>2, <1>3, <1>4, <1>5 DEF Starts, Faults

-----------------------------------------------------------------------------
(* Who owns what *)

(* A step of one call that leaves the logs, the slots and the locks alone. *)
LEMMA CallAlone ==
  ASSUME TypeOK, LocksSound, NEW c \in Calls, log' = log, holder' = holder, slot' = slot,
         \A t \in Tasks : /\ task'[t].at = task[t].at /\ task'[t].proc = task[t].proc
                          /\ task'[t].lead = task[t].lead,
         \A d \in Calls \ {c} : call'[d] = call[d],
         CallSound(c)', call'[c].at # "record",
         call'[c].at \in Claiming =>
            call[c].at \in Claiming /\ call'[c].task = call[c].task
  PROVE  LocksSound'
<1>1. \A l \in Leads : IsRun(l)' <=> IsRun(l)
  BY DEF IsRun, Has
<1>2. ASSUME NEW d \in Calls PROVE CallSound(d)'
  <2>1. CASE d = c
    BY <2>1
  <2>2. CASE d # c
    <3>1. CallSound(d) /\ call'[d] = call[d]
      BY <2>2 DEF LocksSound
    <3> QED
      BY <3>1, <1>1 DEF CallSound, Over, Claiming
  <2> QED
    BY <2>1, <2>2
<1>3. CallsApart'
  BY DEF LocksSound, CallsApart
<1>4. ASSUME NEW t \in Tasks PROVE TaskSound(t)'
  <2>1. TaskSound(t)
    BY DEF LocksSound
  <2> QED
    BY <2>1 DEF TaskSound, Held, IsRun, Has
<1>5. SlotSound'
  <2>0. SlotSound
    BY DEF LocksSound
  <2> SUFFICES ASSUME NEW p \in Procs, NEW l \in Leads, slot[p][l] # 0
               PROVE  /\ task'[slot[p][l]].proc = p /\ task'[slot[p][l]].lead = l
                      /\ task'[slot[p][l]].at \in Held \ {"counted", "unlocking"}
    BY DEF SlotSound
  <2>1. slot[p][l] \in Tasks
    BY DEF TypeOK
  <2> QED
    BY <2>0, <2>1 DEF SlotSound
<1> QED
  BY <1>2, <1>3, <1>4, <1>5 DEF LocksSound

(* A step of a task that drives, and goes on driving or comes to its end:  *)
(* it may write its lead's log, and answer a call.                         *)
LEMMA TaskAlone ==
  ASSUME TypeOK, LocksSound, NEW t \in Tasks, holder' = holder, slot' = slot,
         task[t].at \in Held \ {"claimed"}, task'[t].at \in Held,
         task'[t].at \in {"counted", "unlocking"} =>
            \A p \in Procs, l \in Leads : slot[p][l] # t,
         task'[t].proc = task[t].proc, task'[t].lead = task[t].lead,
         \A u \in Tasks \ {t} : task'[u] = task[u],
         \A l \in Leads : IsRun(l) => IsRun(l)',
         \A l \in Leads : l # task[t].lead => log'[l] = log[l],
         \A d \in Calls : call'[d] = call[d] \/ call'[d].at \in {"ok", "refused"}
  PROVE  LocksSound'
<1>0. /\ \A d \in Calls : CallSound(d)
      /\ \A u \in Tasks : TaskSound(u)
      /\ CallsApart /\ SlotSound
  BY DEF LocksSound
<1>1. task[t].lead \in Leads /\ IsRun(task[t].lead) /\ holder[task[t].lead] = t
  BY <1>0 DEF TaskSound, Held
<1>2. ASSUME NEW d \in Calls PROVE CallSound(d)'
  <2>1. CASE call'[d] # call[d]
    BY <2>1 DEF CallSound, Over, Claiming
  <2>2. CASE call'[d] = call[d]
    <3>1. call[d].at = "record" => call[d].lead # task[t].lead
      <4>1. ASSUME NEW l \in Leads, log[l] = <<Thread>> PROVE ~IsRun(l)
        BY <4>1 DEF IsRun, Has, Thread
      <4> QED
        BY <4>1, <1>0, <1>1 DEF CallSound, Over
    <3>2. call[d].at \in Claiming => call[d].task # t
      BY <1>0 DEF CallSound, Over
    <3>3. call[d].at \in {"record", "claim", "register", "spawn", "handed"} =>
            call[d].lead \in Leads
      BY <1>0 DEF CallSound, Over
    <3>4. call[d].at \in {"claim", "register", "spawn"} =>
            IsRun(call[d].lead) /\ call[d].lead \in Leads
      BY <1>0 DEF CallSound, Over
    <3>5. ASSUME call'[d].at \in {"claim", "register", "spawn"} PROVE IsRun(call[d].lead)'
      <4>1. \E i \in DOMAIN log'[call[d].lead] :
               log'[call[d].lead][i].k = "run_started"
        BY <3>4, <3>5, <2>2 DEF IsRun, Has
      <4> QED
        BY <4>1, <2>2 DEF IsRun, Has
    <3> QED
      BY <3>1, <3>2, <3>3, <3>5, <2>2, <1>0 DEF CallSound, Over, Claiming
  <2> QED
    BY <2>1, <2>2
<1>3. CallsApart'
  BY <1>0 DEF CallsApart, Claiming
<1>4. ASSUME NEW u \in Tasks PROVE TaskSound(u)'
  <2>1. TaskSound(u) /\ task'[u].proc = task[u].proc /\ task'[u].lead = task[u].lead
    BY <1>0
  <2>2. /\ task'[u].at # "free" => task[u].at # "free"
        /\ task'[u].at \in Held => task[u].at \in Held
    BY DEF Held
  <2>3. task[u].at \in Held => IsRun(task[u].lead) /\ task[u].lead \in Leads
    BY <2>1 DEF TaskSound, Held
  <2>4. ASSUME task'[u].at \in Held PROVE IsRun(task[u].lead)'
    <3>1. \E i \in DOMAIN log'[task[u].lead] : log'[task[u].lead][i].k = "run_started"
      BY <2>2, <2>3, <2>4 DEF IsRun, Has
    <3> QED
      BY <3>1, <2>1 DEF IsRun, Has
  <2> QED
    BY <2>1, <2>2, <2>4 DEF TaskSound
<1>5. SlotSound'
  <2> SUFFICES ASSUME NEW p \in Procs, NEW l \in Leads, slot[p][l] # 0
               PROVE  /\ task'[slot[p][l]].proc = p /\ task'[slot[p][l]].lead = l
                      /\ task'[slot[p][l]].at \in Held \ {"counted", "unlocking"}
    BY DEF SlotSound
  <2>1. slot[p][l] \in Tasks
    BY DEF TypeOK
  <2> QED
    BY <2>1, <1>0 DEF SlotSound
<1> QED
  BY <1>2, <1>3, <1>4, <1>5 DEF LocksSound

LEMMA CallStepSound ==
  ASSUME Sound, NEW c \in Calls, CallSteps(c)
  PROVE  LocksSound'
<1>0. /\ TypeOK /\ LocksSound /\ SlotSound /\ CallsApart
      /\ \A d \in Calls : CallSound(d)
      /\ \A u \in Tasks : TaskSound(u)
  BY DEF Sound, LocksSound
<1>1. CASE TakeSerial(c) \/ TakeIssue(c) \/ IssueTimesOut(c)
  <2>1. \E place \in {"issue", "look", "refused"} : Goes(c, place)
    BY <1>1 DEF TakeSerial, TakeIssue, IssueTimesOut
  <2>2. CallSound(c)' /\ call'[c].at \notin Claiming \union {"record"}
    BY <2>1, <1>0, <1>1 DEF Goes, CallSound, Over, Claiming, TypeOK, CallType,
          TakeSerial, TakeIssue, IssueTimesOut, InCall
  <2>3. /\ log' = log /\ holder' = holder /\ slot' = slot /\ task' = task
        /\ \A d \in Calls \ {c} : call'[d] = call[d]
    BY <2>1, <1>0, <1>1
       DEF TakeSerial, TakeIssue, IssueTimesOut, registry, Goes, TypeOK
  <2> QED
    BY <2>2, <2>3, <1>0, CallAlone
<1>2. CASE LookUp(c)
  <2>1. /\ log' = log /\ holder' = holder /\ slot' = slot /\ task' = task /\ up' = up
        /\ \A d \in Calls \ {c} : call'[d] = call[d]
        /\ call[c].proc \in Procs
    BY <1>0, <1>2 DEF LookUp, registry, Goes, TypeOK, InCall
  <2>2. CASE Goes(c, "create")
    <3>1. CallSound(c)' /\ call'[c].at = "create"
      BY <2>1, <2>2, <1>0 DEF Goes, CallSound, Over, Claiming, TypeOK, CallType
    <3> QED
      BY <3>1, <2>1, <1>0, CallAlone DEF Claiming
  <2>3. ASSUME NEW l \in Leads, Unfinished(l),
               call' = [call EXCEPT ![c].at = "claim", ![c].lead = l]
        PROVE  LocksSound'
    <3>1. call'[c].at = "claim" /\ call'[c].lead = l /\ call'[c].proc = call[c].proc
      BY <2>3, <1>0 DEF TypeOK, CallType
    <3>2. CallSound(c)'
      BY <3>1, <2>1, <2>3 DEF CallSound, Over, Claiming, Unfinished, IsRun, Has
    <3> QED
      BY <3>1, <3>2, <2>1, <1>0, CallAlone DEF Claiming
  <2> QED
    BY <2>2, <2>3, <1>2 DEF LookUp
<1>3. CASE ClaimAttaches(c)
  <2>1. /\ log' = log /\ holder' = holder /\ slot' = slot /\ task' = task
        /\ \A d \in Calls \ {c} : call'[d] = call[d]
        /\ call[c].proc \in Procs /\ call[c].lead \in Leads
    BY <1>0, <1>3 DEF ClaimAttaches, registry, TypeOK, InCall, CallSound, Over
  <2>2. slot[call[c].proc][call[c].lead] \in Tasks
    BY <2>1, <1>0, <1>3 DEF ClaimAttaches, TypeOK
  <2>3. /\ call'[c].at = "handed" /\ call'[c].task \in Tasks
        /\ call'[c].proc = call[c].proc /\ call'[c].lead = call[c].lead
    BY <2>2, <1>0, <1>3 DEF ClaimAttaches, TypeOK, CallType
  <2>4. CallSound(c)'
    BY <2>1, <2>3 DEF CallSound, Over, Claiming
  <2> QED
    BY <2>1, <2>3, <2>4, <1>0, CallAlone DEF Claiming
<1>4. CASE ClaimElsewhere(c)
  <2>1. /\ log' = log /\ holder' = holder /\ slot' = slot /\ task' = task
        /\ \A d \in Calls \ {c} : call'[d] = call[d]
        /\ call[c].proc \in Procs
    BY <1>0, <1>4 DEF ClaimElsewhere, registry, TypeOK, InCall
  <2>2. call'[c].at = "elsewhere" /\ call'[c].proc = call[c].proc
    BY <1>0, <1>4 DEF ClaimElsewhere, TypeOK, CallType
  <2>3. CallSound(c)'
    BY <2>1, <2>2 DEF CallSound, Over, Claiming
  <2> QED
    BY <2>1, <2>2, <2>3, <1>0, CallAlone DEF Claiming
<1>5. CASE Register(c)
  <2>1. /\ log' = log /\ holder' = holder /\ slot' = slot /\ task' = task
        /\ \A d \in Calls \ {c} : call'[d] = call[d]
        /\ call[c].at = "register"
    BY <1>0, <1>5 DEF Register, Goes, TypeOK, InCall
  <2>2. /\ call'[c].at = "spawn" /\ call'[c].proc = call[c].proc
        /\ call'[c].lead = call[c].lead /\ call'[c].task = call[c].task
    BY <1>0, <1>5 DEF Register, Goes, TypeOK, CallType
  <2>3. CallSound(c)'
    BY <2>1, <2>2, <1>0 DEF CallSound, Over, Claiming, IsRun, Has
  <2> QED
    BY <2>1, <2>2, <2>3, <1>0, CallAlone DEF Claiming
<1>6. CASE HandOver(c)
  <2>1. /\ log' = log /\ holder' = holder /\ slot' = slot
        /\ call[c].proc \in Procs /\ call[c].task \in Tasks
        /\ \E place \in {"await", "gone", "ok"} : Goes(c, place)
    BY <1>0, <1>6 DEF HandOver, registry, TypeOK, InCall, CallSound
  <2>2. /\ \A d \in Calls \ {c} : call'[d] = call[d]
        /\ call'[c].at \in {"await", "gone", "ok"} /\ call'[c].proc = call[c].proc
    BY <2>1, <1>0 DEF Goes, TypeOK, CallType
  <2>3. CallSound(c)'
    BY <2>1, <2>2 DEF CallSound, Over, Claiming
  <2>4. \A u \in Tasks : /\ task'[u].at = task[u].at /\ task'[u].proc = task[u].proc
                         /\ task'[u].lead = task[u].lead
    BY <2>1, <1>0, <1>6 DEF HandOver, TypeOK, TaskType
  <2> QED
    BY <2>1, <2>2, <2>3, <2>4, <1>0, CallAlone DEF Claiming
<1>7. CASE CreateLead(c)
  <2>1. PICK l \in Leads : /\ log[l] = <<>> /\ log' = [log EXCEPT ![l] = <<Thread>>]
                           /\ call' = [call EXCEPT ![c].at = "record", ![c].lead = l]
    BY <1>7 DEF CreateLead
  <2>2. /\ holder' = holder /\ slot' = slot /\ task' = task
        /\ \A d \in Calls \ {c} : call'[d] = call[d]
        /\ call'[c].at = "record" /\ call'[c].lead = l /\ call'[c].proc = call[c].proc
        /\ call[c].proc \in Procs
    BY <2>1, <1>0, <1>7 DEF CreateLead, registry, TypeOK, CallType, InCall
  <2>3. /\ log'[l] = <<Thread>> /\ \A m \in Leads : m # l => log'[m] = log[m]
        /\ ~IsRun(l)
    BY <2>1, <1>0 DEF TypeOK, IsRun, Has
  <2>4. ASSUME NEW d \in Calls, d # c PROVE CallSound(d)'
    <3>1. CallSound(d) /\ call'[d] = call[d]
      BY <1>0, <2>2, <2>4
    <3>2. call[d].at = "record" => call[d].lead # l
      BY <3>1, <2>1 DEF CallSound, Over, Thread
    <3>3. call[d].at \in {"claim", "register", "spawn"} => call[d].lead # l
      BY <3>1, <2>3 DEF CallSound, Over
    <3> QED
      BY <3>1, <3>2, <3>3, <2>2, <2>3 DEF CallSound, Over, Claiming, IsRun, Has
  <2>5. CallSound(c)'
    BY <2>2, <2>3 DEF CallSound, Over, Claiming
  <2>6. CallsApart'
    <3>1. \A d \in Calls : call[d].at = "record" => call[d].lead # l
      BY <1>0, <2>1 DEF CallSound, Over, Thread
    <3> QED
      BY <3>1, <2>2, <1>0 DEF CallsApart, Claiming
  <2>7. ASSUME NEW u \in Tasks PROVE TaskSound(u)'
    <3>1. TaskSound(u) /\ (task[u].at \in Held => task[u].lead # l)
      BY <1>0, <2>3 DEF TaskSound
    <3> QED
      BY <3>1, <2>2, <2>3 DEF TaskSound, Held, IsRun, Has
  <2>8. SlotSound'
    BY <2>2, <1>0 DEF SlotSound
  <2> QED
    BY <2>4, <2>5, <2>6, <2>7, <2>8 DEF LocksSound
<1>8. CASE RecordRun(c)
  <2> DEFINE l == call[c].lead
  <2>1. /\ holder' = holder /\ slot' = slot /\ task' = task
        /\ \A d \in Calls \ {c} : call'[d] = call[d]
        /\ call[c].at = "record" /\ call'[c].at = "claim" /\ call'[c].lead = l
        /\ call'[c].proc = call[c].proc /\ call[c].proc \in Procs /\ l \in Leads
        /\ log[l] = <<Thread>>
    BY <1>0, <1>8 DEF RecordRun, registry, Goes, TypeOK, CallType, InCall, CallSound, Over
  <2>2. log' = [log EXCEPT ![l] = Append(@, RunStarted)]
    BY <1>8 DEF RecordRun
  <2>3. /\ \A m \in Leads : IsRun(m) => IsRun(m)'
        /\ \A m \in Leads : m # l => log'[m] = log[m]
    BY <2>1, <2>2, <1>0, AppendTyped DEF TypeOK, Events
  <2>4. 2 \in DOMAIN log'[l] /\ log'[l][2] = RunStarted
    <3>1. log'[l] = Append(log[l], RunStarted) /\ log[l] \in Seq(Events)
      BY <2>1, <2>2, <1>0 DEF TypeOK
    <3>2. Len(log[l]) = 1
      BY <2>1
    <3> QED
      BY <3>1, <3>2
  <2>5. \E i \in DOMAIN log'[l] : log'[l][i].k = "run_started"
    <3>1. log'[l][2].k = "run_started"
      BY <2>4 DEF RunStarted
    <3> QED
      BY <3>1, <2>4
  <2>6. ~IsRun(l)
    BY <2>1 DEF IsRun, Has, Thread
  <2>7. CallSound(c)'
    BY <2>1, <2>5 DEF CallSound, Over, Claiming, IsRun, Has
  <2>8. ASSUME NEW d \in Calls, d # c PROVE CallSound(d)'
    <3>1. CallSound(d) /\ call'[d] = call[d]
      BY <1>0, <2>1, <2>8
    <3>2. call[d].at = "record" => call[d].lead # l
      BY <2>1, <2>8, <1>0 DEF CallsApart
    <3>3. call[d].at \in {"claim", "register", "spawn"} => call[d].lead # l
      BY <3>1, <2>6 DEF CallSound, Over
    <3> QED
      BY <3>1, <3>2, <3>3, <2>1, <2>3 DEF CallSound, Over, Claiming, IsRun, Has
  <2>9. CallsApart'
    BY <2>1, <1>0 DEF CallsApart, Claiming
  <2>10. ASSUME NEW u \in Tasks PROVE TaskSound(u)'
    <3>1. TaskSound(u) /\ (task[u].at \in Held => task[u].lead # l)
      BY <1>0, <2>6 DEF TaskSound
    <3> QED
      BY <3>1, <2>1, <2>3 DEF TaskSound, Held, IsRun, Has
  <2>11. SlotSound'
    BY <2>1, <1>0 DEF SlotSound
  <2> QED
    BY <2>7, <2>8, <2>9, <2>10, <2>11 DEF LocksSound
<1>9. CASE ClaimTakes(c)
  <2> DEFINE p == call[c].proc
             l == call[c].lead
  <2>1. /\ log' = log /\ slot[p][l] = 0 /\ holder[l] = 0
        /\ p \in Procs /\ l \in Leads /\ IsRun(l)
    BY <1>0, <1>9 DEF ClaimTakes, InCall, CallSound, Over, TypeOK
  <2>2. PICK t \in Tasks :
          /\ task[t].at = "free"
          /\ task' = [task EXCEPT ![t] = [at |-> "claimed", proc |-> p, lead |-> l,
                                         queue |-> <<>>]]
          /\ holder' = [holder EXCEPT ![l] = t]
          /\ slot' = [slot EXCEPT ![p][l] = t]
          /\ call' = [call EXCEPT ![c].at = "register", ![c].task = t]
    BY <1>9 DEF ClaimTakes
  <2>3. /\ task'[t].at = "claimed" /\ task'[t].proc = p /\ task'[t].lead = l
        /\ \A u \in Tasks \ {t} : task'[u] = task[u]
    BY <2>2, <1>0 DEF TypeOK
  <2>4. /\ call'[c].at = "register" /\ call'[c].task = t
        /\ call'[c].proc = p /\ call'[c].lead = l
        /\ \A d \in Calls \ {c} : call'[d] = call[d]
    BY <2>2, <1>0 DEF TypeOK, CallType
  <2>5. CallSound(c)'
    BY <2>1, <2>3, <2>4 DEF CallSound, Over, Claiming, IsRun, Has
  <2>6. \A d \in Calls : call[d].at \in Claiming => call[d].task # t
    BY <2>2, <1>0 DEF CallSound, Over
  <2>7. ASSUME NEW d \in Calls, d # c PROVE CallSound(d)'
    <3>1. CallSound(d) /\ call'[d] = call[d]
      BY <1>0, <2>4, <2>7
    <3> QED
      BY <3>1, <2>1, <2>3, <2>6 DEF CallSound, Over, Claiming, IsRun, Has
  <2>8. CallsApart'
    BY <2>4, <2>6, <1>0 DEF CallsApart, Claiming
  <2>9. TaskSound(t)'
    BY <2>1, <2>2, <2>3, <1>0 DEF TaskSound, TypeOK, IsRun, Has
  <2>10. ASSUME NEW u \in Tasks, u # t PROVE TaskSound(u)'
    <3>1. TaskSound(u) /\ task'[u] = task[u]
      BY <1>0, <2>3, <2>10
    <3>2. task[u].at \in Held => task[u].lead # l
      BY <3>1, <2>1 DEF TaskSound, Tasks
    <3> QED
      BY <3>1, <3>2, <2>1, <2>2, <1>0 DEF TaskSound, Held, TypeOK, IsRun, Has
  <2>11. SlotSound'
    <3> SUFFICES ASSUME NEW q \in Procs, NEW m \in Leads, slot'[q][m] # 0
                 PROVE  /\ task'[slot'[q][m]].proc = q /\ task'[slot'[q][m]].lead = m
                        /\ task'[slot'[q][m]].at \in Held \ {"counted", "unlocking"}
      BY DEF SlotSound
    <3>1. CASE q = p /\ m = l
      BY <3>1, <2>1, <2>2, <2>3, <1>0 DEF TypeOK, Held
    <3>2. CASE ~(q = p /\ m = l)
      <4>1. slot'[q][m] = slot[q][m] /\ slot[q][m] \in Tasks
        BY <3>2, <2>1, <2>2, <1>0 DEF TypeOK
      <4>2. task[slot[q][m]].at # "free"
        BY <4>1, <1>0 DEF SlotSound, Held
      <4>3. task'[slot[q][m]] = task[slot[q][m]]
        BY <4>1, <4>2, <2>2, <2>3
      <4> QED
        BY <4>1, <4>3, <1>0 DEF SlotSound
    <3> QED
      BY <3>1, <3>2
  <2> QED
    BY <2>5, <2>7, <2>8, <2>9, <2>10, <2>11 DEF LocksSound
<1>10. CASE Spawn(c)
  <2> DEFINE t == call[c].task
  <2>1. /\ log' = log /\ holder' = holder /\ slot' = slot /\ t \in Tasks
        /\ call[c].proc \in Procs /\ call[c].at = "spawn" /\ task[t].at = "claimed"
    BY <1>0, <1>10 DEF Spawn, registry, InCall, CallSound, Over, Claiming, TypeOK
  <2>2. /\ call'[c].at = "handed" /\ call'[c].task = t
        /\ call'[c].proc = call[c].proc /\ call'[c].lead = call[c].lead
        /\ \A d \in Calls \ {c} : call'[d] = call[d]
    BY <1>0, <1>10 DEF Spawn, Goes, TypeOK, CallType
  <2>3. /\ task'[t].at = "opening" /\ task'[t].proc = task[t].proc
        /\ task'[t].lead = task[t].lead
        /\ \A u \in Tasks \ {t} : task'[u] = task[u]
    BY <2>1, <1>0, <1>10 DEF Spawn, TypeOK, TaskType
  <2>4. CallSound(c)'
    BY <2>1, <2>2, <1>0 DEF CallSound, Over, Claiming
  <2>5. ASSUME NEW d \in Calls, d # c PROVE CallSound(d)'
    <3>1. CallSound(d) /\ call'[d] = call[d]
      BY <1>0, <2>2, <2>5
    <3>2. call[d].at \in Claiming => call[d].task # t
      BY <2>1, <2>5, <1>0 DEF CallsApart, Claiming
    <3> QED
      BY <3>1, <3>2, <2>1, <2>3 DEF CallSound, Over, Claiming, IsRun, Has
  <2>6. CallsApart'
    BY <2>2, <1>0 DEF CallsApart, Claiming
  <2>7. ASSUME NEW u \in Tasks PROVE TaskSound(u)'
    <3>1. TaskSound(u) /\ task'[u].proc = task[u].proc /\ task'[u].lead = task[u].lead
          /\ (task'[u].at \in Held => task[u].at \in Held)
          /\ (task'[u].at # "free" => task[u].at # "free")
      BY <1>0, <2>1, <2>3 DEF Held
    <3> QED
      BY <3>1, <2>1 DEF TaskSound, Held, IsRun, Has
  <2>8. SlotSound'
    <3> SUFFICES ASSUME NEW q \in Procs, NEW m \in Leads, slot[q][m] # 0
                 PROVE  /\ task'[slot[q][m]].proc = q /\ task'[slot[q][m]].lead = m
                        /\ task'[slot[q][m]].at \in Held \ {"counted", "unlocking"}
      BY <2>1 DEF SlotSound
    <3>1. slot[q][m] \in Tasks
      BY <1>0 DEF TypeOK
    <3> QED
      BY <3>1, <2>3, <1>0 DEF SlotSound, Held
  <2> QED
    BY <2>4, <2>5, <2>6, <2>7, <2>8 DEF LocksSound
<1> QED
  BY <1>1, <1>2, <1>3, <1>4, <1>5, <1>6, <1>7, <1>8, <1>9, <1>10 DEF CallSteps

LEMMA TaskStepSound ==
  ASSUME Sound, NEW t \in Tasks, TaskSteps(t)
  PROVE  LocksSound'
<1> DEFINE l == task[t].lead
<1>0. /\ TypeOK /\ LocksSound /\ SlotSound /\ CallsApart
      /\ \A d \in Calls : CallSound(d)
      /\ \A u \in Tasks : TaskSound(u)
      /\ task[t] \in TaskType
  BY DEF Sound, LocksSound, TypeOK
<1>1. CASE OpenRun(t) \/ Advance(t) \/ Apply(t)
  <2>1. /\ holder' = holder /\ slot' = slot /\ call' = call
        /\ task[t].at \in {"opening", "advancing", "waiting"}
        /\ \E at \in {"advancing", "ending", "waiting", "replying"} : Turns(t, at)
    BY <1>1 DEF OpenRun, Advance, Apply, registry, InTask
  <2>2. l \in Leads
    BY <2>1, <1>0 DEF TaskSound
  <2>3. \/ log' = log
        \/ \E e \in Events : log' = [log EXCEPT ![l] = Append(@, e)]
    <3>1. CASE OpenRun(t)
      BY <3>1 DEF OpenRun
    <3>2. CASE Advance(t)
      BY <3>2 DEF Advance, Appends, Events
    <3>3. CASE Apply(t)
      <4>1. Answering(t) \in Calls
        BY <3>3, <1>0 DEF Apply, Answering, TaskType
      <4> QED
        BY <4>1, <3>3 DEF Apply, Appends, Events
    <3> QED
      BY <3>1, <3>2, <3>3, <1>1
  <2>4. /\ \A m \in Leads : IsRun(m) => IsRun(m)'
        /\ \A m \in Leads : m # l => log'[m] = log[m]
    <3>1. CASE log' = log
      BY <3>1 DEF IsRun, Has
    <3>2. ASSUME NEW e \in Events, log' = [log EXCEPT ![l] = Append(@, e)]
          PROVE  /\ \A m \in Leads : IsRun(m) => IsRun(m)'
                 /\ \A m \in Leads : m # l => log'[m] = log[m]
      BY <3>2, <2>2, <1>0, AppendTyped DEF TypeOK
    <3> QED
      BY <2>3, <3>1, <3>2
  <2>5. /\ task'[t].at \in {"advancing", "ending", "waiting", "replying"}
        /\ task'[t].proc = task[t].proc /\ task'[t].lead = l
        /\ \A u \in Tasks \ {t} : task'[u] = task[u]
    BY <2>1, <1>0 DEF Turns, TypeOK, TaskType
  <2> QED
    BY <2>1, <2>4, <2>5, <1>0, TaskAlone DEF Held
<1>2. CASE Reply(t) \/ Refuse(t)
  <2>1. /\ holder' = holder /\ slot' = slot /\ log' = log
        /\ task[t].at \in {"waiting", "replying"} /\ task[t].queue # <<>>
        /\ task' = [task EXCEPT ![t].at = "advancing", ![t].queue = Tail(@)]
        /\ \E place \in {"ok", "refused"} : Goes(Answering(t), place)
    BY <1>0, <1>2 DEF Reply, Refuse, registry, InTask, TypeOK
  <2>2. Answering(t) \in Calls
    BY <2>1, <1>0, AnsweredTyped DEF TypeOK
  <2>3. /\ task'[t].at = "advancing" /\ task'[t].proc = task[t].proc
        /\ task'[t].lead = l /\ \A u \in Tasks \ {t} : task'[u] = task[u]
    BY <2>1, <1>0 DEF TypeOK, TaskType
  <2>4. \A m \in Leads : IsRun(m) => IsRun(m)'
    BY <2>1 DEF IsRun, Has
  <2>5. \A d \in Calls : call'[d] = call[d] \/ call'[d].at \in {"ok", "refused"}
    BY <2>1, <2>2, <1>0 DEF Goes, TypeOK, CallType
  <2> QED
    BY <2>1, <2>3, <2>4, <2>5, <1>0, TaskAlone DEF Held
<1>3. CASE GiveUpSlot(t)
  <2>1. /\ log' = log /\ holder' = holder /\ call' = call /\ task[t].at = "ending"
        /\ slot' = [slot EXCEPT ![task[t].proc][l] = 0]
        /\ task'[t].at = "counted" /\ task'[t].proc = task[t].proc /\ task'[t].lead = l
        /\ \A u \in Tasks \ {t} : task'[u] = task[u]
    BY <1>0, <1>3 DEF GiveUpSlot, Turns, InTask, TypeOK, TaskType
  <2>2. ASSUME NEW d \in Calls PROVE CallSound(d)'
    <3>1. CallSound(d) /\ (call[d].at \in Claiming => call[d].task # t)
      BY <1>0, <2>1 DEF CallSound, Over
    <3> QED
      BY <3>1, <2>1 DEF CallSound, Over, Claiming, IsRun, Has
  <2>3. CallsApart'
    BY <2>1, <1>0 DEF CallsApart, Claiming
  <2>4. ASSUME NEW u \in Tasks PROVE TaskSound(u)'
    <3>1. TaskSound(u) /\ task'[u].proc = task[u].proc /\ task'[u].lead = task[u].lead
          /\ (task'[u].at \in Held => task[u].at \in Held)
          /\ (task'[u].at # "free" => task[u].at # "free")
      BY <1>0, <2>1 DEF Held
    <3> QED
      BY <3>1, <2>1 DEF TaskSound, Held, IsRun, Has
  <2>5. SlotSound'
    <3> SUFFICES ASSUME NEW q \in Procs, NEW m \in Leads, slot'[q][m] # 0
                 PROVE  /\ task'[slot'[q][m]].proc = q /\ task'[slot'[q][m]].lead = m
                        /\ task'[slot'[q][m]].at \in Held \ {"counted", "unlocking"}
      BY DEF SlotSound
    <3>1. slot'[q][m] = slot[q][m] /\ ~(q = task[t].proc /\ m = l) /\ slot[q][m] \in Tasks
      BY <2>1, <1>0 DEF TypeOK
    <3>2. slot[q][m] # t
      <4> SUFFICES ASSUME slot[q][m] = t PROVE FALSE
        OBVIOUS
      <4>1. task[t].proc = q /\ task[t].lead = m
        BY <3>1, <1>0 DEF SlotSound
      <4> QED
        BY <4>1, <3>1
    <3> QED
      BY <3>1, <3>2, <2>1, <1>0 DEF SlotSound
  <2> QED
    BY <2>2, <2>3, <2>4, <2>5 DEF LocksSound
<1>4. CASE LeaveCount(t)
  <2>1. /\ log' = log /\ holder' = holder /\ slot' = slot /\ call' = call
        /\ task[t].at = "counted" /\ task'[t].at = "unlocking"
        /\ task'[t].proc = task[t].proc /\ task'[t].lead = l
        /\ \A u \in Tasks \ {t} : task'[u] = task[u]
    BY <1>0, <1>4 DEF LeaveCount, locks, Turns, InTask, TypeOK, TaskType
  <2>2. \A p \in Procs, m \in Leads : slot[p][m] # t
    BY <2>1, <1>0 DEF SlotSound, Tasks
  <2>3. \A m \in Leads : IsRun(m) => IsRun(m)'
    BY <2>1 DEF IsRun, Has
  <2> QED
    BY <2>1, <2>2, <2>3, <1>0, TaskAlone DEF Held
<1>5. CASE Unlock(t)
  <2>1. /\ log' = log /\ slot' = slot /\ call' = call /\ holder' = [holder EXCEPT ![l] = 0]
        /\ task[t].at = "unlocking" /\ task'[t].at = "closing"
        /\ task'[t].proc = task[t].proc /\ task'[t].lead = l
        /\ \A u \in Tasks \ {t} : task'[u] = task[u]
    BY <1>0, <1>5 DEF Unlock, locks, Turns, InTask, TypeOK, TaskType
  <2>2. ASSUME NEW d \in Calls PROVE CallSound(d)'
    <3>1. CallSound(d) /\ (call[d].at \in Claiming => call[d].task # t)
      BY <1>0, <2>1 DEF CallSound, Over
    <3> QED
      BY <3>1, <2>1 DEF CallSound, Over, Claiming, IsRun, Has
  <2>3. CallsApart'
    BY <2>1, <1>0 DEF CallsApart, Claiming
  <2>4. ASSUME NEW u \in Tasks PROVE TaskSound(u)'
    <3>1. TaskSound(u) /\ TaskSound(t)
      BY <1>0
    <3>2. CASE u = t
      BY <3>1, <3>2, <2>1 DEF TaskSound, Held
    <3>3. CASE u # t
      <4>1. task[u].at \in Held => task[u].lead # l
        BY <3>1, <3>3, <2>1 DEF TaskSound, Held
      <4> QED
        BY <4>1, <3>1, <3>3, <2>1, <1>0 DEF TaskSound, Held, TypeOK, IsRun, Has
    <3> QED
      BY <3>2, <3>3
  <2>5. SlotSound'
    <3>1. \A p \in Procs, m \in Leads : slot[p][m] # 0 => slot[p][m] # t
      BY <2>1, <1>0 DEF SlotSound
    <3> QED
      BY <3>1, <2>1, <1>0 DEF SlotSound, TypeOK
  <2> QED
    BY <2>2, <2>3, <2>4, <2>5 DEF LocksSound
<1>6. CASE Close(t)
  <2>1. /\ log' = log /\ holder' = holder /\ slot' = slot
        /\ task[t].at = "closing" /\ task'[t].at = "ended"
        /\ task'[t].proc = task[t].proc /\ task'[t].lead = l
        /\ \A u \in Tasks \ {t} : task'[u] = task[u]
    BY <1>0, <1>6 DEF Close, registry, InTask, TypeOK, TaskType
  <2>2. ASSUME NEW d \in Calls
        PROVE  \/ call'[d] = call[d]
               \/ call[d].at = "await" /\ call'[d] = [call[d] EXCEPT !.at = "gone"]
    BY <1>6 DEF Close
  <2>3. ASSUME NEW d \in Calls PROVE CallSound(d)'
    <3>1. CallSound(d) /\ (call[d].at \in Claiming => call[d].task # t)
      BY <1>0, <2>1 DEF CallSound, Over
    <3>2. CASE call'[d] = call[d]
      BY <3>1, <3>2, <2>1 DEF CallSound, Over, Claiming, IsRun, Has
    <3>3. CASE call[d].at = "await" /\ call'[d] = [call[d] EXCEPT !.at = "gone"]
      <4>1. call'[d].at = "gone" /\ call'[d].proc = call[d].proc /\ call[d].proc \in Procs
        BY <3>1, <3>3, <1>0 DEF CallSound, Over, TypeOK, CallType
      <4> QED
        BY <4>1 DEF CallSound, Over, Claiming
    <3> QED
      BY <3>2, <3>3, <2>2
  <2>4. CallsApart'
    <3>1. \A d \in Calls : call'[d].at \in Claiming \union {"record"} => call'[d] = call[d]
      BY <2>2, <1>0 DEF Claiming, TypeOK, CallType
    <3> QED
      BY <3>1, <1>0 DEF CallsApart, Claiming
  <2>5. ASSUME NEW u \in Tasks PROVE TaskSound(u)'
    <3>1. TaskSound(u) /\ TaskSound(t)
      BY <1>0
    <3> QED
      BY <3>1, <2>1 DEF TaskSound, Held, IsRun, Has
  <2>6. SlotSound'
    <3>1. \A p \in Procs, m \in Leads : slot[p][m] # 0 => slot[p][m] # t
      BY <2>1, <1>0 DEF SlotSound, Held
    <3> QED
      BY <3>1, <2>1, <1>0 DEF SlotSound, TypeOK
  <2> QED
    BY <2>3, <2>4, <2>5, <2>6 DEF LocksSound
<1> QED
  BY <1>1, <1>2, <1>3, <1>4, <1>5, <1>6 DEF TaskSteps

LEMMA BeginSound ==
  ASSUME TypeOK, LocksSound, NEW c \in Calls, NEW p \in Procs,
         NEW kind \in {"build", "answer", "scan"},
         NEW l \in Leads \union {0}, NEW g \in Gates \union {None}, NEW at \in Places,
         Begin(c, p, kind, l, g, at),
         at \in Over \union {"serial"} \/ (at = "claim" /\ l \in Leads /\ IsRun(l)),
         log' = log, registry' = registry, task' = task
  PROVE  LocksSound'
<1>1. /\ call'[c].at = at /\ call'[c].proc = p /\ call'[c].lead = l
      /\ \A d \in Calls \ {c} : call'[d] = call[d]
  BY DEF Begin, TypeOK
<1>2. CallSound(c)'
  BY <1>1 DEF CallSound, Over, Claiming, IsRun, Has
<1>3. call'[c].at \notin Claiming \union {"record"}
  BY <1>1 DEF Over, Claiming
<1> QED
  BY <1>1, <1>2, <1>3, CallAlone DEF registry

LEMMA CrashSound ==
  ASSUME TypeOK, LocksSound, NEW p \in Procs, Crash(p)
  PROVE  LocksSound'
<1>0. /\ SlotSound /\ CallsApart
      /\ \A d \in Calls : CallSound(d)
      /\ \A u \in Tasks : TaskSound(u)
      /\ log' = log
  BY DEF LocksSound, Crash
<1>1. ASSUME NEW u \in Tasks
      PROVE  /\ task'[u].proc = task[u].proc /\ task'[u].lead = task[u].lead
             /\ task'[u].at = IF Of(p, u) THEN "ended" ELSE task[u].at
  BY DEF Crash, TypeOK, TaskType
<1>2. ASSUME NEW d \in Calls
      PROVE  \/ call'[d] = call[d] /\ (call[d].proc # p \/ call[d].at \in Over)
             \/ call'[d].at = "lost"
  BY DEF Crash, TypeOK, CallType
<1>3. ASSUME NEW d \in Calls PROVE CallSound(d)'
  <2>1. CASE call'[d].at = "lost"
    BY <2>1 DEF CallSound, Over, Claiming
  <2>2. CASE call'[d] = call[d] /\ call[d].at \in Over
    BY <2>2 DEF CallSound, Over, Claiming
  <2>3. CASE call'[d] = call[d] /\ call[d].proc # p
    <3>1. CallSound(d)
      BY <1>0
    <3>2. call[d].at \in Claiming => task'[call[d].task].at = "claimed"
                                     /\ task'[call[d].task].proc = call[d].proc
      BY <3>1, <2>3, <1>1 DEF CallSound, Over, Of
    <3> QED
      BY <3>1, <3>2, <2>3, <1>0 DEF CallSound, Over, Claiming, IsRun, Has
  <2> QED
    BY <2>1, <2>2, <2>3, <1>2
<1>4. CallsApart'
  BY <1>0, <1>2 DEF CallsApart, Claiming
<1>5. ASSUME NEW u \in Tasks PROVE TaskSound(u)'
  <2>1. TaskSound(u)
    BY <1>0
  <2>2. task'[u].at # "free" => task[u].at # "free"
    BY <1>1 DEF Of
  <2>3. ASSUME task'[u].at \in Held
        PROVE  /\ task[u].at \in Held /\ task[u].proc # p
    BY <1>1, <2>3 DEF Of, Held
  <2>4. task'[u].at \in Held => holder'[task[u].lead] = u
    BY <2>1, <2>3 DEF TaskSound, Crash, Held
  <2> QED
    BY <2>1, <2>2, <2>3, <2>4, <1>0, <1>1 DEF TaskSound, Held, IsRun, Has
<1>6. SlotSound'
  <2> SUFFICES ASSUME NEW q \in Procs, NEW m \in Leads, slot'[q][m] # 0
               PROVE  /\ task'[slot'[q][m]].proc = q /\ task'[slot'[q][m]].lead = m
                      /\ task'[slot'[q][m]].at \in Held \ {"counted", "unlocking"}
    BY DEF SlotSound
  <2>1. q # p /\ slot'[q][m] = slot[q][m] /\ slot[q][m] \in Tasks
    <3>1. slot' = [slot EXCEPT ![p] = [n \in Leads |-> 0]]
      BY DEF Crash
    <3>2. slot \in [Procs -> [Leads -> Tasks \union {0}]]
      BY DEF TypeOK
    <3>3. q # p
      BY <3>1, <3>2
    <3> QED
      BY <3>1, <3>2, <3>3
  <2>2. task[slot[q][m]].proc = q
    BY <2>1, <1>0 DEF SlotSound
  <2> QED
    BY <2>1, <2>2, <1>0, <1>1 DEF SlotSound, Of
<1> QED
  BY <1>3, <1>4, <1>5, <1>6 DEF LocksSound

LEMMA OtherStepSound ==
  ASSUME TypeOK, LocksSound, Starts \/ Faults
  PROVE  LocksSound'
<1>1. ASSUME NEW c \in Calls, NEW p \in Procs, StartBuild(c, p) PROVE LocksSound'
  <2>1. call[c].gate \in Gates \union {None}
    BY DEF TypeOK, CallType
  <2> QED
    BY <2>1, <1>1, BeginSound DEF StartBuild, Places
<1>2. ASSUME NEW c \in Calls, NEW p \in Procs, NEW l \in Leads, NEW g \in Gates,
             StartAnswer(c, p, l, g)
      PROVE  LocksSound'
  <2>1. PICK at \in {"claim", "refused"} : Begin(c, p, "answer", l, g, at)
    BY <1>2 DEF StartAnswer
  <2>2. at \in Places /\ (at \in Over \/ at = "claim")
    BY DEF Places, Over
  <2> QED
    BY <2>1, <2>2, <1>2, BeginSound DEF StartAnswer
<1>3. ASSUME NEW c \in Calls, NEW p \in Procs, NEW l \in Leads, StartScan(c, p, l)
      PROVE  LocksSound'
  <2>1. call[c].gate \in Gates \union {None}
    BY DEF TypeOK, CallType
  <2>2. CASE Unfinished(l)
    BY <2>1, <2>2, <1>3, BeginSound DEF StartScan, Places, Unfinished
  <2>3. CASE ~Unfinished(l)
    BY <2>1, <2>3, <1>3, BeginSound DEF StartScan, Places, Over
  <2> QED
    BY <2>2, <2>3
<1>4. ASSUME NEW p \in Procs, Restart(p) PROVE LocksSound'
  BY <1>4 DEF Restart, registry, LocksSound, CallSound, CallsApart, TaskSound, SlotSound,
              IsRun, Has
<1> QED
  BY <1>1, <1>2, <1>3, <1>4, CrashSound DEF Starts, Faults

-----------------------------------------------------------------------------
(* What follows *)

LEMMA SoundAlways == Spec => []Sound
<1>1. Sound /\ [Next]_vars => Sound'
  <2> SUFFICES ASSUME Sound, [Next]_vars PROVE Sound'
    OBVIOUS
  <2>0. TypeOK /\ LocksSound
    BY DEF Sound
  <2>1. ASSUME NEW c \in Calls, CallSteps(c) PROVE Sound'
    BY <2>1, CallStepTyped, CallStepSound DEF Sound
  <2>2. ASSUME NEW t \in Tasks, TaskSteps(t) PROVE Sound'
    BY <2>2, TaskStepTyped, TaskStepSound DEF Sound
  <2>3. CASE Starts \/ Faults
    BY <2>0, <2>3, OtherStepTyped, OtherStepSound DEF Sound
  <2>4. CASE UNCHANGED vars
    <3>1. TypeOK'
      BY <2>0, <2>4 DEF vars, registry, locks, TypeOK
    <3>2. LocksSound'
      BY <2>0, <2>4 DEF vars, registry, LocksSound, CallSound, CallsApart, TaskSound,
                        SlotSound, IsRun, Has
    <3> QED
      BY <3>1, <3>2 DEF Sound
  <2> QED
    BY <2>1, <2>2, <2>3, <2>4 DEF Next
<1> QED
  BY <1>1, InitSound, PTL DEF Spec

(* Every variable keeps its type: no order of calls, tasks, crashes and    *)
(* restarts leaves a task replying to nobody (runs.rs run, drive).         *)
THEOREM TypeCorrect == Spec => []TypeOK
<1>1. Sound => TypeOK
  BY DEF Sound
<1> QED
  BY <1>1, SoundAlways, PTL

(* At most one task drives a lead, in whatever daemon (runs.rs claim and   *)
(* LeadLock): both hold the lead's lock, which has one holder.             *)
THEOREM OneDriverAlways == Spec => []OneDriver
<1>1. Sound => OneDriver
  <2> SUFFICES ASSUME Sound, NEW s \in Tasks, NEW t \in Tasks,
                      task[s].at \in Driving, task[t].at \in Driving,
                      task[s].lead = task[t].lead
               PROVE  s = t
    BY DEF OneDriver
  <2>1. TaskSound(s) /\ TaskSound(t)
    BY DEF Sound, LocksSound
  <2> QED
    BY <2>1 DEF TaskSound, Driving, Held
<1> QED
  BY <1>1, SoundAlways, PTL

(* A slot leads to a task of this daemon that holds the lead's lock        *)
(* (runs.rs claim, which takes both, and drive, which gives the slot up    *)
(* first).                                                                 *)
THEOREM SlotsTrueAlways == Spec => []SlotsTrue
<1>1. Sound => SlotsTrue
  <2> SUFFICES ASSUME Sound, NEW p \in Procs, NEW l \in Leads, slot[p][l] # 0
               PROVE  /\ task[slot[p][l]].proc = p /\ task[slot[p][l]].lead = l
                      /\ holder[l] = slot[p][l]
    BY DEF SlotsTrue
  <2>1. slot[p][l] \in Tasks
    BY DEF Sound, TypeOK
  <2>2. SlotSound /\ TaskSound(slot[p][l])
    BY <2>1 DEF Sound, LocksSound
  <2> QED
    BY <2>2 DEF SlotSound, TaskSound
<1> QED
  BY <1>1, SoundAlways, PTL

(* Only the task that holds the lead's lock writes the log of a run        *)
(* (runs.rs LeadLock: the holder is the lead log's one writer).            *)
THEOREM HolderWritesAlways == Spec => HolderWrites
<1> DEFINE Kept == \A l \in Leads : IsRun(l) /\ log'[l] # log[l] =>
                     holder[l] # 0 /\ task[holder[l]].at \in {"advancing", "waiting"}
<1>1. Sound /\ [Next]_vars => Kept
  <2> SUFFICES ASSUME Sound, [Next]_vars, NEW l \in Leads, IsRun(l), log'[l] # log[l]
               PROVE  holder[l] # 0 /\ task[holder[l]].at \in {"advancing", "waiting"}
    OBVIOUS
  <2>0. TypeOK /\ LocksSound
    BY DEF Sound
  <2>1. ASSUME NEW c \in Calls, CallSteps(c) PROVE FALSE
    <3>1. CASE CreateLead(c)
      <4>1. PICK m \in Leads : log[m] = <<>> /\ log' = [log EXCEPT ![m] = <<Thread>>]
        BY <3>1 DEF CreateLead
      <4>2. m = l
        BY <4>1, <2>0 DEF TypeOK
      <4> QED
        BY <4>1, <4>2 DEF IsRun, Has
    <3>2. CASE RecordRun(c)
      <4>1. /\ log' = [log EXCEPT ![call[c].lead] = Append(@, RunStarted)]
            /\ log[call[c].lead] = <<Thread>>
        BY <3>2, <2>0 DEF RecordRun, InCall, LocksSound, CallSound, Over
      <4>2. call[c].lead = l
        BY <4>1, <2>0 DEF TypeOK
      <4> QED
        BY <4>1, <4>2 DEF IsRun, Has, Thread
    <3>3. CASE ~CreateLead(c) /\ ~RecordRun(c)
      <4>1. log' = log
        BY <2>1, <3>3 DEF CallSteps, TakeSerial, TakeIssue, IssueTimesOut, LookUp,
              ClaimAttaches, ClaimElsewhere, ClaimTakes, Register, Spawn, HandOver
      <4> QED
        BY <4>1
    <3> QED
      BY <3>1, <3>2, <3>3
  <2>2. ASSUME NEW t \in Tasks, TaskSteps(t)
        PROVE  holder[l] # 0 /\ task[holder[l]].at \in {"advancing", "waiting"}
    <3>1. CASE Advance(t) \/ Apply(t)
      <4>1. /\ task[t].at \in {"advancing", "waiting"}
            /\ log' = log \/ \E e : log' = [log EXCEPT ![task[t].lead] = Append(@, e)]
        BY <3>1 DEF Advance, Apply, InTask, Appends
      <4>2. task[t].lead = l
        BY <4>1, <2>0 DEF TypeOK
      <4>3. holder[l] = t
        BY <4>1, <4>2, <2>0 DEF LocksSound, TaskSound, Held
      <4> QED
        BY <4>1, <4>3 DEF Tasks
    <3>2. CASE ~Advance(t) /\ ~Apply(t)
      <4>1. log' = log
        BY <2>2, <3>2 DEF TaskSteps, OpenRun, Reply, Refuse, GiveUpSlot, LeaveCount,
                          Unlock, Close
      <4> QED
        BY <4>1
    <3> QED
      BY <3>1, <3>2
  <2>3. CASE Starts \/ Faults
    <3>1. log' = log
      BY <2>3 DEF Starts, Faults, StartBuild, StartAnswer, StartScan, Crash, Restart
    <3> QED
      BY <3>1
  <2>4. CASE UNCHANGED vars
    BY <2>4 DEF vars
  <2> QED
    BY <2>1, <2>2, <2>3, <2>4 DEF Next
<1>2. Sound /\ [Next]_vars => [Kept]_vars
  BY <1>1
<1> QED
  BY <1>2, SoundAlways, PTL DEF Spec, HolderWrites

-----------------------------------------------------------------------------
(* What the calls rely on.                                                 *)

(* A build that has the issue's lock has it alone, and what it found, no   *)
(* unfinished run, stays true until it records its own.                    *)
IssuePlaces == {"look", "create", "record"}
BuildSound ==
    /\ \A c \in Calls :
         /\ call[c].at \in IssuePlaces => issue = c
         /\ call[c].at \in {"create", "record"} => \A l \in Leads : ~Unfinished(l)
    /\ \A l, m \in Leads : Unfinished(l) /\ Unfinished(m) => l = m

(* Who is counted, from the claim on.                                      *)
CountSound ==
    /\ CountsDriven
    /\ \A p \in Procs : \A l \in working[p] :
         \E t \in Tasks : /\ task[t].at \in Held \ {"unlocking"}
                          /\ task[t].proc = p /\ task[t].lead = l
    /\ \A c \in Calls :
         /\ call[c].at \in Claiming => task[call[c].task].lead = call[c].lead
         /\ call[c].at = "spawn" => call[c].lead \in working[call[c].proc]

(* Which answers wait in a task's queue, and which have been written.      *)
Unwritten(c) == \A l \in Leads : \A i \in DOMAIN log[l] : log[l][i] # Answered(c)
WrittenOnce(c) ==
    /\ call[c].lead \in Leads
    /\ \E i \in DOMAIN log[call[c].lead] :
         \A n \in DOMAIN log[call[c].lead] : log[call[c].lead][n] = Answered(c) <=> n = i
InHand(c) ==
    LET t == call[c].task
    IN  /\ t \in Tasks /\ task[t].at # "free"
        /\ task[t].proc = call[c].proc /\ task[t].lead = call[c].lead
QueueSound(t) ==
    /\ \A i \in DOMAIN task[t].queue :
         LET c == task[t].queue[i]
         IN  call[c].at = "await" /\ call[c].task = t /\ call[c].kind = "answer"
    /\ \A i, n \in DOMAIN task[t].queue : task[t].queue[i] = task[t].queue[n] => i = n
    /\ task[t].at \in {"free", "ended"} => task[t].queue = <<>>
    /\ task[t].at = "replying" => WrittenOnce(task[t].queue[1])
AnswerSound(c) ==
    /\ call[c].at \in {"handed", "await"} => InHand(c)
    /\ call[c].at \notin {"await", "ok", "lost"} => Unwritten(c)
    /\ call[c].at = "ok" /\ call[c].kind = "answer" => WrittenOnce(c)
    /\ call[c].at = "await" =>
         LET t == call[c].task
         IN  Unwritten(c) \/ /\ WrittenOnce(c) /\ task[t].at = "replying"
                             /\ task[t].queue[1] = c
ReplySound ==
    /\ \A t \in Tasks : QueueSound(t)
    /\ \A c \in Calls : AnswerSound(c)

CallsInv == Sound /\ BuildSound /\ CountSound /\ ReplySound

-----------------------------------------------------------------------------
(* One unfinished run                                                      *)

(* Only a run that is recorded adds to the unfinished ones.                *)
LEMMA NoneBegins ==
  ASSUME log \in [Leads -> Seq(Events)], NEW m \in Leads, NEW e \in Events,
         e.k # "run_started",
         log' = [log EXCEPT ![m] = Append(@, e)]
  PROVE  \A l \in Leads : Unfinished(l)' => Unfinished(l)
<1> SUFFICES ASSUME NEW l \in Leads, Unfinished(l)' PROVE Unfinished(l)
  OBVIOUS
<1>1. CASE l # m
  BY <1>1 DEF Unfinished, IsRun, Has
<1>2. CASE l = m
  <2>1. /\ log[l] \in Seq(Events) /\ log'[l] = Append(log[l], e)
    BY <1>2
  <2>2. /\ DOMAIN log[l] = 1 .. Len(log[l]) /\ Len(log[l]) \in Nat
        /\ DOMAIN log'[l] = 1 .. (Len(log[l]) + 1)
        /\ \A i \in DOMAIN log[l] : log'[l][i] = log[l][i]
        /\ log'[l][Len(log[l]) + 1] = e
    BY <2>1
  <2>3. PICK i \in DOMAIN log'[l] : log'[l][i].k = "run_started"
    BY DEF Unfinished, IsRun, Has
  <2>4. i \in DOMAIN log[l] /\ log[l][i].k = "run_started"
    BY <2>2, <2>3
  <2>5. ~ \E n \in DOMAIN log[l] : log[l][n].k = "run_finished"
    <3> SUFFICES ASSUME NEW n \in DOMAIN log[l], log[l][n].k = "run_finished" PROVE FALSE
      OBVIOUS
    <3>1. n \in DOMAIN log'[l] /\ log'[l][n].k = "run_finished"
      BY <2>2
    <3> QED BY <3>1 DEF Unfinished, Has
  <2> QED BY <2>4, <2>5 DEF Unfinished, IsRun, Has
<1> QED BY <1>1, <1>2

LEMMA RunsAsBefore ==
  ASSUME log' = log
  PROVE  \A l \in Leads : Unfinished(l)' <=> Unfinished(l)
BY DEF Unfinished, IsRun, Has

(* A step that begins no run and in which nobody comes under the issue's   *)
(* lock or finds that there is no unfinished run.                          *)
LEMMA BuildKept ==
  ASSUME BuildSound, \A l \in Leads : Unfinished(l)' => Unfinished(l),
         \A c \in Calls : call'[c].at \in IssuePlaces =>
            call'[c].at = call[c].at /\ (issue = c => issue' = c)
  PROVE  BuildSound'
BY DEF BuildSound, IssuePlaces

LEMMA CallKeepsBuild ==
  ASSUME Sound, BuildSound, NEW c \in Calls, CallSteps(c)
  PROVE  BuildSound'
<1>1. /\ TypeOK /\ CallSound(c)
  BY DEF Sound, LocksSound
<1>2. log \in [Leads -> Seq(Events)] /\ call \in [Calls -> CallType]
  BY <1>1 DEF TypeOK
<1>3. ASSUME NEW d \in Calls \ {c} PROVE call'[d] = call[d]
  BY <1>2 DEF CallSteps, TakeSerial, TakeIssue, IssueTimesOut, LookUp, CreateLead, RecordRun,
              ClaimAttaches, ClaimElsewhere, ClaimTakes, Register, Spawn, HandOver, Goes
<1>4. ASSUME NEW place \in Places, Goes(c, place) PROVE call'[c].at = place
  BY <1>2, <1>4 DEF Goes, CallType
<1>5. CASE TakeSerial(c) \/ IssueTimesOut(c) \/ ClaimAttaches(c) \/ ClaimElsewhere(c)
           \/ ClaimTakes(c) \/ Register(c) \/ Spawn(c) \/ HandOver(c)
  <2>1. log' = log
    BY <1>5 DEF TakeSerial, IssueTimesOut, ClaimAttaches, ClaimElsewhere, ClaimTakes,
                Register, Spawn, HandOver
  <2>2. call'[c].at \notin IssuePlaces
    <3>1. CASE TakeSerial(c)
      <4>1. call'[c].at = "issue"
        <5>1. Goes(c, "issue") /\ "issue" \in Places
          BY <3>1 DEF TakeSerial, Places
        <5> QED BY <1>4, <5>1
      <4> QED BY <4>1 DEF IssuePlaces
    <3>2. CASE IssueTimesOut(c)
      <4>1. call'[c].at = "refused"
        <5>1. Goes(c, "refused") /\ "refused" \in Places
          BY <3>2 DEF IssueTimesOut, Places, Over
        <5> QED BY <1>4, <5>1
      <4> QED BY <4>1 DEF IssuePlaces
    <3>3. CASE ClaimAttaches(c) \/ ClaimElsewhere(c) \/ ClaimTakes(c)
      <4>1. call'[c].at \in {"handed", "elsewhere", "register"}
        <5> DEFINE moved(place) == \E t : call' = [call EXCEPT ![c].at = place, ![c].task = t]
        <5>1. moved("handed") \/ moved("elsewhere") \/ moved("register")
          BY <3>3 DEF ClaimAttaches, ClaimElsewhere, ClaimTakes
        <5> QED BY <1>2, <5>1 DEF CallType
      <4> QED BY <4>1 DEF IssuePlaces
    <3>4. CASE Register(c) \/ Spawn(c) \/ HandOver(c)
      <4>1. call'[c].at \in {"spawn", "handed", "await", "gone", "ok"}
        BY <1>2, <3>4 DEF Register, Spawn, HandOver, Goes, CallType
      <4> QED BY <4>1 DEF IssuePlaces
    <3> QED BY <1>5, <3>1, <3>2, <3>3, <3>4
  <2>3. issue' = issue \/ (issue = c /\ issue' = None)
    BY <1>5 DEF TakeSerial, IssueTimesOut, ClaimAttaches, ClaimElsewhere, ClaimTakes,
                Register, Spawn, HandOver, LetGo, locks
  <2>4. \A d \in Calls : call'[d].at \in IssuePlaces =>
            call'[d].at = call[d].at /\ (issue = d => issue' = d)
    BY <1>3, <2>2, <2>3
  <2> QED BY <2>1, <2>4, RunsAsBefore, BuildKept
<1>6. CASE TakeIssue(c)
  <2>1. log' = log /\ issue = None /\ issue' = c /\ call'[c].at = "look"
    BY <1>2, <1>6 DEF TakeIssue, Goes, CallType
  <2>2. \A d \in Calls : call[d].at \notin IssuePlaces
    BY <2>1, CallsAssumption DEF BuildSound
  <2>3. \A d \in Calls : call'[d].at \in IssuePlaces => d = c
    BY <1>3, <2>2
  <2> QED BY <2>1, <2>3, RunsAsBefore DEF BuildSound, IssuePlaces
<1>7. CASE LookUp(c)
  <2>1. log' = log /\ issue' = issue /\ call[c].at = "look"
    BY <1>7 DEF LookUp, locks, InCall
  <2>2. call'[c].at = "claim" \/ (call'[c].at = "create" /\ \A l \in Leads : ~Unfinished(l))
    BY <1>2, <1>7 DEF LookUp, Goes, CallType
  <2> QED BY <1>3, <2>1, <2>2, RunsAsBefore DEF BuildSound, IssuePlaces
<1>8. CASE CreateLead(c)
  <2>1. PICK l \in Leads : /\ log[l] = <<>> /\ log' = [log EXCEPT ![l] = <<Thread>>]
                           /\ call' = [call EXCEPT ![c].at = "record", ![c].lead = l]
    BY <1>8 DEF CreateLead
  <2>2. call'[c].at = "record" /\ call[c].at = "create" /\ issue' = issue
    BY <1>2, <1>8, <2>1 DEF CreateLead, InCall, locks, CallType
  <2>3. ASSUME NEW m \in Leads, Unfinished(m)' PROVE Unfinished(m)
    <3>1. CASE m = l
      <4>1. log'[m] = <<Thread>>
        BY <1>2, <2>1, <3>1
      <4>2. ~IsRun(m)'
        BY <4>1 DEF IsRun, Has, Thread
      <4> QED BY <2>3, <4>2 DEF Unfinished
    <3>2. CASE m # l
      BY <1>2, <2>1, <2>3, <3>2 DEF Unfinished, IsRun, Has
    <3> QED BY <3>1, <3>2
  <2> QED BY <1>3, <2>2, <2>3 DEF BuildSound, IssuePlaces
<1>9. CASE RecordRun(c)
  <2>1. /\ log' = [log EXCEPT ![call[c].lead] = Append(@, RunStarted)] /\ issue' = issue
        /\ call'[c].at = "claim" /\ call[c].at = "record"
    BY <1>2, <1>9 DEF RecordRun, Goes, InCall, locks, CallType
  <2>2. issue = c /\ \A l \in Leads : ~Unfinished(l)
    BY <2>1 DEF BuildSound, IssuePlaces
  <2>3. \A l \in Leads : l # call[c].lead => ~Unfinished(l)'
    BY <1>2, <2>1, <2>2 DEF Unfinished, IsRun, Has
  <2>4. \A d \in Calls : call'[d].at \notin IssuePlaces
    BY <1>3, <2>1, <2>2 DEF BuildSound, IssuePlaces
  <2> QED BY <2>3, <2>4 DEF BuildSound, IssuePlaces
<1> QED BY <1>5, <1>6, <1>7, <1>8, <1>9 DEF CallSteps

LEMMA TaskKeepsBuild ==
  ASSUME Sound, BuildSound, NEW t \in Tasks, TaskSteps(t)
  PROVE  BuildSound'
<1>1. TypeOK /\ TaskSound(t)
  BY DEF Sound, LocksSound
<1>2. /\ log \in [Leads -> Seq(Events)] /\ call \in [Calls -> CallType]
      /\ task[t].queue \in Seq(Calls)
  BY <1>1 DEF TypeOK, TaskType
<1>3. issue' = issue
  BY DEF TaskSteps, OpenRun, Advance, Apply, Reply, Refuse, GiveUpSlot, LeaveCount, Unlock, Close,
         locks
<1>4. \A d \in Calls : call'[d].at \in IssuePlaces => call'[d].at = call[d].at
  <2>1. call' = call \/ (\E d \in Calls, place \in {"ok", "refused"} : Goes(d, place)) \/ Close(t)
    <3>1. CASE Reply(t) \/ Refuse(t)
      <4>1. task[t].queue # <<>>
        BY <1>1, <3>1 DEF Reply, Refuse, TypeOK, InTask
      <4>2. Answering(t) \in Calls
        BY <1>2, <4>1 DEF Answering
      <4> QED BY <3>1, <4>2 DEF Reply, Refuse
    <3>2. CASE ~(Reply(t) \/ Refuse(t))
      BY <3>2 DEF TaskSteps, OpenRun, Advance, Apply, GiveUpSlot, LeaveCount, Unlock
    <3> QED BY <3>1, <3>2
  <2>2. ASSUME NEW d \in Calls, NEW place \in {"ok", "refused"}, Goes(d, place), NEW e \in Calls
        PROVE  call'[e].at \in IssuePlaces => call'[e].at = call[e].at
    BY <1>2, <2>2 DEF Goes, IssuePlaces, CallType
  <2>3. CASE Close(t)
    <3>1. \A d \in Calls : call'[d] = call[d] \/ call'[d] = [call[d] EXCEPT !.at = "gone"]
      BY <2>3 DEF Close
    <3> QED BY <1>2, <3>1 DEF IssuePlaces, CallType
  <2> QED BY <2>1, <2>2, <2>3
<1>5. \A l \in Leads : Unfinished(l)' => Unfinished(l)
  <2>1. CASE log' = log
    BY <2>1, RunsAsBefore
  <2>2. CASE \E e \in Events : e.k # "run_started" /\ task[t].at \in Held /\ Appends(t, e)
    <3>1. task[t].lead \in Leads
      BY <1>1, <2>2 DEF TaskSound, Held
    <3> QED BY <1>2, <2>2, <3>1, NoneBegins DEF Appends
  <2>3. log' = log \/ \E e \in Events : e.k # "run_started" /\ task[t].at \in Held /\ Appends(t, e)
    <3>1. CASE Advance(t)
      BY <3>1 DEF Advance, InTask, Held, Events, Asked, Finished
    <3>2. CASE Apply(t)
      <4>1. Answering(t) \in Calls
        BY <1>2, <3>2 DEF Answering, Apply
      <4>2. Answered(Answering(t)) \in Events /\ Answered(Answering(t)).k # "run_started"
        BY <4>1 DEF Answered, Events
      <4> QED BY <3>2, <4>2 DEF Apply, InTask, Held
    <3>3. CASE ~(Advance(t) \/ Apply(t))
      BY <3>3 DEF TaskSteps, OpenRun, Reply, Refuse, GiveUpSlot, LeaveCount, Unlock, Close
    <3> QED BY <3>1, <3>2, <3>3
  <2> QED BY <2>1, <2>2, <2>3
<1> QED BY <1>3, <1>4, <1>5, BuildKept

LEMMA OthersKeepBuild ==
  ASSUME Sound, BuildSound, Starts \/ Faults \/ UNCHANGED vars
  PROVE  BuildSound'
<1>1. call \in [Calls -> CallType] /\ CallsAssumption
  BY CallsAssumption DEF Sound, TypeOK
<1>2. log' = log
  BY DEF Starts, Faults, StartBuild, StartAnswer, StartScan, Crash, Restart, vars
<1>3. CASE Starts
  <2>1. issue' = issue
    BY <1>3 DEF Starts, StartBuild, StartAnswer, StartScan, locks
  <2>2. \A d \in Calls : call'[d].at \in IssuePlaces => call'[d].at = call[d].at
    <3>1. PICK c \in Calls, at \in {"serial", "claim", "refused"} :
              call'[c].at = at /\ \A d \in Calls \ {c} : call'[d] = call[d]
      BY <1>1, <1>3 DEF Starts, StartBuild, StartAnswer, StartScan, Begin
    <3> QED BY <3>1 DEF IssuePlaces
  <2> QED BY <1>2, <2>1, <2>2, RunsAsBefore, BuildKept
<1>4. ASSUME NEW p \in Procs, Crash(p) PROVE BuildSound'
  <2>1. \A d \in Calls : IF call[d].proc = p /\ call[d].at \notin Over
                         THEN call'[d] = [call[d] EXCEPT !.at = "lost"] ELSE call'[d] = call[d]
    BY <1>4 DEF Crash
  <2>2. ASSUME NEW d \in Calls, call'[d].at \in IssuePlaces
        PROVE  call'[d].at = call[d].at /\ (issue = d => issue' = d)
    <3>1. call'[d] = call[d] /\ call[d].proc # p
      BY <1>1, <2>1, <2>2 DEF IssuePlaces, CallType, Over
    <3> QED BY <1>4, <3>1 DEF Crash
  <2> QED BY <1>2, <2>2, RunsAsBefore, BuildKept
<1>5. CASE (\E p \in Procs : Restart(p)) \/ UNCHANGED vars
  BY <1>2, <1>5, RunsAsBefore, BuildKept DEF Restart, locks, vars
<1> QED BY <1>3, <1>4, <1>5 DEF Faults

LEMMA InitBuild == Init => BuildSound
<1> SUFFICES ASSUME Init PROVE BuildSound
  OBVIOUS
<1>1. \A c \in Calls : call[c].at = "idle"
  BY DEF Init, NoOne
<1>2. ASSUME NEW l \in Leads, l # 1 PROVE ~Unfinished(l)
  BY <1>2 DEF Init, Unfinished, IsRun, Has
<1> QED BY <1>1, <1>2 DEF BuildSound, IssuePlaces

-----------------------------------------------------------------------------
(* The count                                                               *)

SameTasks ==
    \A t \in Tasks : /\ task'[t].at = task[t].at /\ task'[t].proc = task[t].proc
                     /\ task'[t].lead = task[t].lead

(* A step of calls that leaves the tasks and the count alone and brings no *)
(* call to its claim.                                                      *)
LEMMA CountKept ==
  ASSUME Sound, CountSound, working' = working, SameTasks,
         \A c \in Calls : call'[c].at \in Claiming => call'[c] = call[c]
  PROVE  CountSound'
<1>1. CountsDriven'
  BY DEF CountSound, CountsDriven, SameTasks
<1>2. ASSUME NEW p \in Procs, NEW l \in working[p]
      PROVE  \E t \in Tasks : /\ task'[t].at \in Held \ {"unlocking"}
                              /\ task'[t].proc = p /\ task'[t].lead = l
  BY DEF CountSound, SameTasks
<1>3. ASSUME NEW c \in Calls
      PROVE  /\ call'[c].at \in Claiming => task'[call'[c].task].lead = call'[c].lead
             /\ call'[c].at = "spawn" => call'[c].lead \in working[call'[c].proc]
  <2>1. CASE call'[c].at \in Claiming
    <3>1. call'[c] = call[c] /\ call[c].task \in Tasks
      BY <2>1 DEF Sound, LocksSound, CallSound
    <3> QED BY <2>1, <3>1 DEF CountSound, SameTasks
  <2> QED BY <2>1 DEF Claiming
<1> QED BY <1>1, <1>2, <1>3 DEF CountSound

(* The calls' own steps.                                                   *)
LEMMA CallKeepsCount ==
  ASSUME Sound, CountSound, NEW c \in Calls, CallSteps(c)
  PROVE  CountSound'
<1>1. /\ TypeOK /\ CallSound(c) /\ CallsApart
      /\ \A d \in Calls : CallSound(d)
      /\ \A t \in Tasks : TaskSound(t)
  BY DEF Sound, LocksSound
<1>2. /\ call \in [Calls -> CallType] /\ task \in [Tasks -> TaskType]
      /\ working \in [Procs -> SUBSET Leads]
  BY <1>1 DEF TypeOK
<1>3. ASSUME NEW d \in Calls \ {c} PROVE call'[d] = call[d]
  BY <1>2 DEF CallSteps, TakeSerial, TakeIssue, IssueTimesOut, LookUp, CreateLead, RecordRun,
              ClaimAttaches, ClaimElsewhere, ClaimTakes, Register, Spawn, HandOver, Goes
<1>4. CASE TakeSerial(c) \/ TakeIssue(c) \/ IssueTimesOut(c) \/ LookUp(c) \/ CreateLead(c)
           \/ RecordRun(c) \/ ClaimAttaches(c) \/ ClaimElsewhere(c) \/ HandOver(c)
  <2>1. working' = working
    BY <1>4 DEF TakeSerial, TakeIssue, IssueTimesOut, LookUp, CreateLead, RecordRun,
                ClaimAttaches, ClaimElsewhere, HandOver, registry
  <2>2. SameTasks
    <3>1. CASE HandOver(c)
      <4>1. call[c].task \in Tasks
        BY <1>1, <3>1 DEF HandOver, InCall, CallSound
      <4>2. CASE task' = task
        BY <4>2 DEF SameTasks
      <4>3. CASE task' = [task EXCEPT ![call[c].task].queue = Append(@, c)]
        <5>1. \A u \in Tasks \ {call[c].task} : task'[u] = task[u]
          BY <1>2, <4>3
        <5>2. task'[call[c].task] =
                [task[call[c].task] EXCEPT !.queue = Append(task[call[c].task].queue, c)]
          BY <1>2, <4>1, <4>3
        <5>3. task[call[c].task] \in TaskType
          BY <1>2, <4>1
        <5>4. /\ task'[call[c].task].at = task[call[c].task].at
              /\ task'[call[c].task].proc = task[call[c].task].proc
              /\ task'[call[c].task].lead = task[call[c].task].lead
          BY <5>2, <5>3 DEF TaskType
        <5> QED BY <5>1, <5>4 DEF SameTasks
      <4> QED BY <3>1, <4>2, <4>3 DEF HandOver
    <3>2. CASE ~HandOver(c)
      <4>1. task' = task
        BY <1>4, <3>2 DEF TakeSerial, TakeIssue, IssueTimesOut, LookUp, CreateLead, RecordRun,
                          ClaimAttaches, ClaimElsewhere
      <4> QED BY <4>1 DEF SameTasks
    <3> QED BY <3>1, <3>2
  <2>3. call'[c].at \notin Claiming
    <3>1. CASE TakeSerial(c) \/ TakeIssue(c) \/ IssueTimesOut(c) \/ LookUp(c)
      <4>1. call'[c].at \in {"issue", "look", "refused", "claim", "create"}
        BY <1>2, <3>1 DEF TakeSerial, TakeIssue, IssueTimesOut, LookUp, Goes, CallType
      <4> QED BY <4>1 DEF Claiming
    <3>2. CASE CreateLead(c) \/ RecordRun(c) \/ ClaimAttaches(c) \/ ClaimElsewhere(c)
      <4>1. call'[c].at \in {"record", "claim", "handed", "elsewhere"}
        BY <1>2, <3>2 DEF CreateLead, RecordRun, ClaimAttaches, ClaimElsewhere, Goes, CallType
      <4> QED BY <4>1 DEF Claiming
    <3>3. CASE HandOver(c)
      <4>1. call'[c].at \in {"await", "gone", "ok"}
        BY <1>2, <3>3 DEF HandOver, Goes, CallType
      <4> QED BY <4>1 DEF Claiming
    <3> QED BY <1>4, <3>1, <3>2, <3>3
  <2> QED BY <1>3, <2>1, <2>2, <2>3, CountKept
<1>5. CASE ClaimTakes(c)
  <2> DEFINE p == call[c].proc
             l == call[c].lead
  <2>1. PICK t \in Tasks :
          /\ task[t].at = "free" /\ call[c].at = "claim"
          /\ task' = [task EXCEPT ![t] = [at |-> "claimed", proc |-> p, lead |-> l, queue |-> <<>>]]
          /\ call' = [call EXCEPT ![c].at = "register", ![c].task = t]
          /\ working' = working
    BY <1>5 DEF ClaimTakes, InCall
  <2> HIDE DEF p, l
  <2>2. /\ task'[t].at = "claimed" /\ task'[t].proc = p /\ task'[t].lead = l
        /\ \A u \in Tasks \ {t} : task'[u] = task[u]
    BY <1>2, <2>1
  <2>3. call'[c].at = "register" /\ call'[c].task = t /\ call'[c].lead = l
    BY <1>2, <2>1 DEF CallType, l
  <2>4. CountsDriven'
    BY <2>1, <2>2 DEF CountSound, CountsDriven, Counting, Driving
  <2>5. ASSUME NEW q \in Procs, NEW m \in working[q]
        PROVE  \E u \in Tasks : /\ task'[u].at \in Held \ {"unlocking"}
                                /\ task'[u].proc = q /\ task'[u].lead = m
    <3>1. PICK u \in Tasks : /\ task[u].at \in Held \ {"unlocking"}
                             /\ task[u].proc = q /\ task[u].lead = m
      BY DEF CountSound
    <3>2. u # t
      BY <2>1, <3>1 DEF Held
    <3> QED BY <2>2, <3>1, <3>2
  <2>6. ASSUME NEW d \in Calls, call'[d].at \in Claiming
        PROVE  /\ task'[call'[d].task].lead = call'[d].lead
               /\ call'[d].at = "spawn" => call'[d].lead \in working[call'[d].proc]
    <3>1. CASE d = c
      BY <2>2, <2>3, <3>1
    <3>2. CASE d # c
      <4>1. call'[d] = call[d] /\ call[d].task \in Tasks /\ task[call[d].task].at = "claimed"
        BY <1>1, <1>3, <2>6, <3>2 DEF CallSound
      <4>2. task'[call[d].task] = task[call[d].task]
        BY <2>1, <2>2, <4>1
      <4>3. task[call[d].task].lead = call[d].lead
        BY <2>6, <4>1 DEF CountSound
      <4>4. call[d].at = "spawn" => call[d].lead \in working[call[d].proc]
        BY DEF CountSound
      <4> QED BY <2>1, <4>1, <4>2, <4>3, <4>4
    <3> QED BY <3>1, <3>2
  <2> QED BY <2>1, <2>4, <2>5, <2>6 DEF CountSound, Claiming
<1>6. CASE Register(c)
  <2>1. /\ call[c].at = "register" /\ task' = task
        /\ working' = [working EXCEPT ![call[c].proc] = @ \union {call[c].lead}]
        /\ call' = [call EXCEPT ![c].at = "spawn"]
    BY <1>6 DEF Register, InCall, Goes
  <2>2. /\ call[c].proc \in Procs /\ call[c].lead \in Leads /\ call[c].task \in Tasks
        /\ task[call[c].task].at = "claimed" /\ task[call[c].task].proc = call[c].proc
        /\ task[call[c].task].lead = call[c].lead
    BY <1>1, <2>1 DEF CallSound, Over, Claiming, CountSound
  <2>3. /\ \A p \in Procs : working[p] \subseteq working'[p]
        /\ \A p \in Procs : \A l : l \in working'[p] =>
              l \in working[p] \/ (p = call[c].proc /\ l = call[c].lead)
        /\ call[c].lead \in working'[call[c].proc]
    BY <1>2, <2>1, <2>2
  <2>4. /\ call'[c].at = "spawn" /\ call'[c].proc = call[c].proc /\ call'[c].lead = call[c].lead
        /\ call'[c].task = call[c].task
    BY <1>2, <2>1 DEF CallType
  <2>5. CountsDriven'
    BY <2>1, <2>3 DEF CountSound, CountsDriven
  <2>6. ASSUME NEW p \in Procs, NEW l \in working'[p]
        PROVE  \E t \in Tasks : /\ task[t].at \in Held \ {"unlocking"}
                                /\ task[t].proc = p /\ task[t].lead = l
    <3>1. CASE l \in working[p]
      BY <3>1 DEF CountSound
    <3>2. CASE p = call[c].proc /\ l = call[c].lead
      BY <2>2, <3>2 DEF Held
    <3> QED BY <2>3, <3>1, <3>2
  <2>7. ASSUME NEW d \in Calls, call'[d].at \in Claiming
        PROVE  /\ task[call'[d].task].lead = call'[d].lead
               /\ call'[d].at = "spawn" => call'[d].lead \in working'[call'[d].proc]
    <3>1. CASE d = c
      BY <2>2, <2>3, <2>4, <3>1
    <3>2. CASE d # c
      <4>1. call'[d] = call[d] /\ call[d].proc \in Procs
        BY <1>1, <1>3, <2>7, <3>2 DEF CallSound, Over, Claiming
      <4> QED BY <2>3, <2>7, <4>1 DEF CountSound
    <3> QED BY <3>1, <3>2
  <2> QED BY <2>1, <2>5, <2>6, <2>7 DEF CountSound, Claiming
<1>7. CASE Spawn(c)
  <2> DEFINE t == call[c].task
  <2>1. /\ call[c].at = "spawn" /\ working' = working
        /\ task' = [task EXCEPT ![t].at = "opening"]
        /\ call' = [call EXCEPT ![c].at = "handed"]
    BY <1>7 DEF Spawn, InCall, Goes, registry
  <2>2. /\ t \in Tasks /\ task[t].at = "claimed" /\ task[t].proc = call[c].proc
        /\ task[t].lead = call[c].lead /\ call[c].lead \in working[call[c].proc]
    BY <1>1, <2>1 DEF CallSound, Claiming, CountSound
  <2> HIDE DEF t
  <2>3. /\ task'[t].at = "opening" /\ task'[t].proc = task[t].proc /\ task'[t].lead = task[t].lead
        /\ \A u \in Tasks \ {t} : task'[u] = task[u]
    BY <1>2, <2>1, <2>2 DEF TaskType
  <2>4. CountsDriven'
    BY <2>1, <2>2, <2>3 DEF CountSound, CountsDriven
  <2>5. ASSUME NEW q \in Procs, NEW m \in working[q]
        PROVE  \E u \in Tasks : /\ task'[u].at \in Held \ {"unlocking"}
                                /\ task'[u].proc = q /\ task'[u].lead = m
    <3>1. PICK u \in Tasks : /\ task[u].at \in Held \ {"unlocking"}
                             /\ task[u].proc = q /\ task[u].lead = m
      BY DEF CountSound
    <3> QED BY <2>2, <2>3, <3>1 DEF Held
  <2>6. ASSUME NEW d \in Calls, call'[d].at \in Claiming
        PROVE  /\ task'[call'[d].task].lead = call'[d].lead
               /\ call'[d].at = "spawn" => call'[d].lead \in working[call'[d].proc]
    <3>1. d # c
      BY <1>2, <2>1, <2>6 DEF Claiming, CallType
    <3>2. call'[d] = call[d] /\ call[d].task \in Tasks
      BY <1>1, <1>3, <2>6, <3>1 DEF CallSound
    <3>3. task'[call[d].task].lead = task[call[d].task].lead
      BY <2>3, <3>2
    <3> QED BY <2>6, <3>2, <3>3 DEF CountSound
  <2> QED BY <2>1, <2>4, <2>5, <2>6 DEF CountSound, Claiming
<1> QED BY <1>4, <1>5, <1>6, <1>7 DEF CallSteps

LEMMA TaskKeepsCount ==
  ASSUME Sound, CountSound, NEW t \in Tasks, TaskSteps(t)
  PROVE  CountSound'
<1>1. /\ TypeOK /\ CallsApart
      /\ \A d \in Calls : CallSound(d)
      /\ \A u \in Tasks : TaskSound(u)
  BY DEF Sound, LocksSound
<1>2. /\ call \in [Calls -> CallType] /\ task \in [Tasks -> TaskType]
      /\ working \in [Procs -> SUBSET Leads]
  BY <1>1 DEF TypeOK
<1>3. \A u \in Tasks \ {t} : task'[u] = task[u]
  BY <1>2 DEF TaskSteps, OpenRun, Advance, Apply, Reply, Refuse, GiveUpSlot, LeaveCount, Unlock,
              Close, Turns
<1>4. task'[t].proc = task[t].proc /\ task'[t].lead = task[t].lead /\ task[t].at # "claimed"
  BY <1>2 DEF TaskSteps, OpenRun, Advance, Apply, Reply, Refuse, GiveUpSlot, LeaveCount, Unlock,
              Close, Turns, InTask, TaskType
<1>5. \A d \in Calls : call'[d].at \in Claiming => call'[d] = call[d]
  <2>1. call' = call \/ (\E d \in Calls, place \in {"ok", "refused"} : Goes(d, place)) \/ Close(t)
    <3>1. CASE Reply(t) \/ Refuse(t)
      <4>1. task[t].queue # <<>> /\ task[t].queue \in Seq(Calls)
        BY <1>1, <1>2, <3>1 DEF Reply, Refuse, TypeOK, InTask, TaskType
      <4>2. Answering(t) \in Calls
        BY <4>1 DEF Answering
      <4> QED BY <3>1, <4>2 DEF Reply, Refuse
    <3>2. CASE ~(Reply(t) \/ Refuse(t))
      BY <3>2 DEF TaskSteps, OpenRun, Advance, Apply, GiveUpSlot, LeaveCount, Unlock
    <3> QED BY <3>1, <3>2
  <2>2. ASSUME NEW d \in Calls, NEW place \in {"ok", "refused"}, Goes(d, place), NEW e \in Calls,
               call'[e].at \in Claiming
        PROVE  call'[e] = call[e]
    BY <1>2, <2>2 DEF Goes, Claiming, CallType
  <2>3. CASE Close(t)
    <3>1. \A d \in Calls : call'[d] = call[d] \/ call'[d] = [call[d] EXCEPT !.at = "gone"]
      BY <2>3 DEF Close
    <3> QED BY <1>2, <3>1 DEF Claiming, CallType
  <2> QED BY <2>1, <2>2, <2>3
<1>6. ASSUME NEW d \in Calls, call'[d].at \in Claiming
      PROVE  /\ call'[d] = call[d] /\ call[d].task \in Tasks /\ call[d].task # t
             /\ task'[call[d].task] = task[call[d].task]
             /\ task[call[d].task].at = "claimed" /\ task[call[d].task].lead = call[d].lead
             /\ task[call[d].task].proc = call[d].proc
             /\ call[d].proc \in Procs /\ call[d].lead \in Leads
  BY <1>1, <1>3, <1>4, <1>5, <1>6 DEF CallSound, Claiming, CountSound, Over
<1>7. CASE LeaveCount(t)
  <2>1. /\ task[t].at = "counted" /\ task'[t].at = "unlocking"
        /\ working' = [working EXCEPT ![task[t].proc] = @ \ {task[t].lead}]
    BY <1>2, <1>7 DEF LeaveCount, InTask, Turns, TaskType
  <2>2. /\ task[t].proc \in Procs /\ task[t].lead \in Leads /\ holder[task[t].lead] = t
    BY <1>1, <2>1 DEF TaskSound, Held
  <2>3. \A u \in Tasks \ {t} : task[u].at \in Held => task[u].lead # task[t].lead
    BY <1>1, <2>2 DEF TaskSound
  <2>4. \A p \in Procs : \A l : l \in working'[p] <=>
           l \in working[p] /\ ~(p = task[t].proc /\ l = task[t].lead)
    BY <1>2, <2>1, <2>2
  <2>5. CountsDriven'
    <3> SUFFICES ASSUME NEW p \in Procs, NEW l \in Leads, NEW u \in Tasks,
                        task'[u].at \in Counting, task'[u].proc = p, task'[u].lead = l
                 PROVE  l \in working'[p]
      BY DEF CountsDriven
    <3>1. u # t /\ task[u].at \in Counting /\ task[u].proc = p /\ task[u].lead = l
      BY <1>3, <2>1 DEF Counting, Driving
    <3>2. l # task[t].lead
      BY <2>3, <3>1 DEF Counting, Driving, Held
    <3> QED BY <2>4, <3>1, <3>2 DEF CountSound, CountsDriven
  <2>6. ASSUME NEW q \in Procs, NEW m \in working'[q]
        PROVE  \E u \in Tasks : /\ task'[u].at \in Held \ {"unlocking"}
                                /\ task'[u].proc = q /\ task'[u].lead = m
    <3>1. PICK u \in Tasks : /\ task[u].at \in Held \ {"unlocking"}
                             /\ task[u].proc = q /\ task[u].lead = m
      BY <2>4 DEF CountSound
    <3>2. u # t
      BY <2>4, <3>1
    <3> QED BY <1>3, <3>1, <3>2
  <2>7. ASSUME NEW d \in Calls, call'[d].at \in Claiming
        PROVE  /\ task'[call'[d].task].lead = call'[d].lead
               /\ call'[d].at = "spawn" => call'[d].lead \in working'[call'[d].proc]
    <3>1. call[d].lead # task[t].lead
      BY <1>6, <2>3, <2>7 DEF Held
    <3>2. call[d].at = "spawn" => call[d].lead \in working[call[d].proc]
      BY DEF CountSound
    <3> QED BY <1>6, <2>4, <2>7, <3>1, <3>2
  <2> QED BY <2>5, <2>6, <2>7 DEF CountSound, Claiming
<1>8. CASE ~LeaveCount(t)
  <2>1. /\ working' = working
        /\ task'[t].at \in Counting => task[t].at \in Counting
        /\ task[t].at \in Held \ {"unlocking"} => task'[t].at \in Held \ {"unlocking"}
    <3>1. CASE OpenRun(t) \/ Advance(t) \/ Apply(t) \/ Reply(t) \/ Refuse(t) \/ GiveUpSlot(t)
      <4>1. task[t].at \in Driving \union {"ending"} /\ task'[t].at \in Counting
        BY <1>2, <3>1 DEF OpenRun, Advance, Apply, Reply, Refuse, GiveUpSlot, InTask, Turns,
                          TaskType, Counting, Driving
      <4>2. working' = working
        BY <3>1 DEF OpenRun, Advance, Apply, Reply, Refuse, GiveUpSlot, registry
      <4> QED BY <4>1, <4>2 DEF Counting, Driving, Held
    <3>2. CASE Unlock(t) \/ Close(t)
      <4>1. task[t].at \in {"unlocking", "closing"} /\ task'[t].at \in {"closing", "ended"}
        BY <1>2, <3>2 DEF Unlock, Close, InTask, Turns, TaskType
      <4>2. working' = working
        BY <3>2 DEF Unlock, Close, registry
      <4> QED BY <4>1, <4>2 DEF Counting, Driving, Held
    <3> QED BY <1>8, <3>1, <3>2 DEF TaskSteps
  <2>2. CountsDriven'
    BY <1>3, <1>4, <2>1 DEF CountSound, CountsDriven
  <2>3. ASSUME NEW q \in Procs, NEW m \in working[q]
        PROVE  \E u \in Tasks : /\ task'[u].at \in Held \ {"unlocking"}
                                /\ task'[u].proc = q /\ task'[u].lead = m
    BY <1>3, <1>4, <2>1 DEF CountSound
  <2>4. ASSUME NEW d \in Calls, call'[d].at \in Claiming
        PROVE  /\ task'[call'[d].task].lead = call'[d].lead
               /\ call'[d].at = "spawn" => call'[d].lead \in working[call'[d].proc]
    BY <1>6, <2>4 DEF CountSound
  <2> QED BY <2>1, <2>2, <2>3, <2>4 DEF CountSound, Claiming
<1> QED BY <1>7, <1>8

LEMMA OthersKeepCount ==
  ASSUME Sound, CountSound, Starts \/ Faults \/ UNCHANGED vars
  PROVE  CountSound'
<1>1. /\ call \in [Calls -> CallType] /\ task \in [Tasks -> TaskType]
      /\ working \in [Procs -> SUBSET Leads]
      /\ \A d \in Calls : CallSound(d)
  BY DEF Sound, TypeOK, LocksSound
<1>2. CASE Starts
  <2>1. working' = working /\ task' = task
    BY <1>2 DEF Starts, StartBuild, StartAnswer, StartScan, registry
  <2>2. \A d \in Calls : call'[d].at \in Claiming => call'[d] = call[d]
    <3>1. PICK c \in Calls, at \in {"serial", "claim", "refused"} :
              call'[c].at = at /\ \A d \in Calls \ {c} : call'[d] = call[d]
      BY <1>1, <1>2 DEF Starts, StartBuild, StartAnswer, StartScan, Begin
    <3> QED BY <3>1 DEF Claiming
  <2> QED BY <2>1, <2>2, CountKept DEF SameTasks
<1>3. ASSUME NEW p \in Procs, Crash(p) PROVE CountSound'
  <2>1. /\ working' = [working EXCEPT ![p] = {}]
        /\ \A t \in Tasks : task'[t] = IF Of(p, t) THEN [task[t] EXCEPT !.at = "ended", !.queue = <<>>]
                                       ELSE task[t]
        /\ \A d \in Calls : call'[d] = IF call[d].proc = p /\ call[d].at \notin Over
                                       THEN [call[d] EXCEPT !.at = "lost"] ELSE call[d]
    BY <1>3 DEF Crash
  <2>2. \A t \in Tasks :
          \/ task'[t] = task[t] /\ (task[t].at \in Held => task[t].proc # p)
          \/ task'[t].at = "ended" /\ task'[t].proc = p /\ task[t].proc = p
    BY <1>1, <2>1 DEF Of, Held, TaskType
  <2>3. working'[p] = {} /\ \A q \in Procs : q # p => working'[q] = working[q]
    BY <1>1, <2>1
  <2>4. CountsDriven'
    <3> SUFFICES ASSUME NEW q \in Procs, NEW l \in Leads, NEW u \in Tasks,
                        task'[u].at \in Counting, task'[u].proc = q, task'[u].lead = l
                 PROVE  l \in working'[q]
      BY DEF CountsDriven
    <3>1. task'[u] = task[u] /\ q # p
      BY <2>2 DEF Counting, Driving, Held
    <3> QED BY <2>3, <3>1 DEF CountSound, CountsDriven
  <2>5. ASSUME NEW q \in Procs, NEW m \in working'[q]
        PROVE  \E u \in Tasks : /\ task'[u].at \in Held \ {"unlocking"}
                                /\ task'[u].proc = q /\ task'[u].lead = m
    <3>1. q # p /\ m \in working[q]
      BY <2>3
    <3>2. PICK u \in Tasks : /\ task[u].at \in Held \ {"unlocking"}
                             /\ task[u].proc = q /\ task[u].lead = m
      BY <3>1 DEF CountSound
    <3>3. task'[u] = task[u]
      BY <2>2, <3>1, <3>2
    <3> QED BY <3>2, <3>3
  <2>6. ASSUME NEW d \in Calls, call'[d].at \in Claiming
        PROVE  /\ task'[call'[d].task].lead = call'[d].lead
               /\ call'[d].at = "spawn" => call'[d].lead \in working'[call'[d].proc]
    <3>1. call'[d] = call[d] /\ call[d].proc # p
      BY <1>1, <2>1, <2>6 DEF Claiming, Over, CallType
    <3>2. /\ call[d].task \in Tasks /\ task[call[d].task].proc = call[d].proc
          /\ call[d].proc \in Procs
      BY <1>1, <2>6, <3>1 DEF CallSound, Claiming, Over
    <3>3. task'[call[d].task] = task[call[d].task]
      BY <2>2, <3>1, <3>2
    <3> QED BY <2>3, <2>6, <3>1, <3>2, <3>3 DEF CountSound
  <2> QED BY <2>4, <2>5, <2>6 DEF CountSound, Claiming
<1>4. CASE (\E p \in Procs : Restart(p)) \/ UNCHANGED vars
  <2>1. working' = working /\ task' = task /\ call' = call
    BY <1>4 DEF Restart, registry, vars
  <2> QED BY <2>1, CountKept DEF SameTasks
<1> QED BY <1>2, <1>3, <1>4 DEF Faults

LEMMA InitCount == Init => CountSound
<1> SUFFICES ASSUME Init PROVE CountSound
  OBVIOUS
<1>1. /\ \A c \in Calls : call[c].at = "idle"
      /\ \A t \in Tasks : task[t].at = "free"
      /\ \A p \in Procs : working[p] = {}
  BY DEF Init, NoOne, NoTask
<1> QED BY <1>1 DEF CountSound, CountsDriven, Counting, Driving, Claiming

-----------------------------------------------------------------------------
(* The replies                                                             *)

(* What a step that writes no answer does to what is written.              *)
WrittenAsBefore ==
    \A c \in Calls :
        /\ Unwritten(c) => Unwritten(c)'
        /\ WrittenOnce(c) /\ call'[c].lead = call[c].lead => WrittenOnce(c)'

LEMMA UnwrittenStays ==
  ASSUME log \in [Leads -> Seq(Events)], NEW m \in Leads, NEW e \in Events,
         log' = [log EXCEPT ![m] = Append(@, e)],
         NEW c \in Calls, e # Answered(c), Unwritten(c)
  PROVE  Unwritten(c)'
<1>1. log[m] \in Seq(Events) /\ log'[m] = Append(log[m], e)
  OBVIOUS
<1>2. ASSUME NEW i \in DOMAIN log'[m] PROVE log'[m][i] # Answered(c)
  <2>1. (i \in DOMAIN log[m] /\ log'[m][i] = log[m][i]) \/ log'[m][i] = e
    BY <1>1, <1>2
  <2> QED BY <2>1 DEF Unwritten
<1>3. \A l \in Leads : l # m => log'[l] = log[l]
  OBVIOUS
<1> QED BY <1>2, <1>3 DEF Unwritten

LEMMA WrittenStays ==
  ASSUME log \in [Leads -> Seq(Events)], NEW m \in Leads, NEW e \in Events,
         log' = [log EXCEPT ![m] = Append(@, e)],
         NEW c \in Calls, e # Answered(c), WrittenOnce(c), call'[c].lead = call[c].lead
  PROVE  WrittenOnce(c)'
<1> DEFINE l == call[c].lead
<1>1. PICK i \in DOMAIN log[l] : \A n \in DOMAIN log[l] : log[l][n] = Answered(c) <=> n = i
  BY DEF WrittenOnce
<1>2. l \in Leads /\ call'[c].lead = l
  BY DEF WrittenOnce
<1> HIDE DEF l
<1>3. CASE l # m
  BY <1>1, <1>2, <1>3 DEF WrittenOnce
<1>4. CASE l = m
  <2>1. log[l] \in Seq(Events) /\ log'[l] = Append(log[l], e)
    BY <1>4
  <2>2. /\ i \in DOMAIN log'[l] /\ log'[l][i] = log[l][i]
        /\ \A n \in DOMAIN log'[l] :
             \/ n \in DOMAIN log[l] /\ log'[l][n] = log[l][n]
             \/ n \notin DOMAIN log[l] /\ log'[l][n] = e
    <3>1. /\ DOMAIN log[l] = 1 .. Len(log[l]) /\ Len(log[l]) \in Nat
          /\ DOMAIN log'[l] = 1 .. (Len(log[l]) + 1)
          /\ \A n \in DOMAIN log[l] : log'[l][n] = log[l][n]
          /\ log'[l][Len(log[l]) + 1] = e
      BY <2>1
    <3> QED BY <1>1, <3>1
  <2> QED BY <1>1, <1>2, <2>2 DEF WrittenOnce
<1> QED BY <1>3, <1>4

LEMMA NowWritten ==
  ASSUME log \in [Leads -> Seq(Events)], NEW c \in Calls, Answered(c) \in Events,
         call[c].lead \in Leads, call'[c].lead = call[c].lead,
         log' = [log EXCEPT ![call[c].lead] = Append(@, Answered(c))], Unwritten(c)
  PROVE  WrittenOnce(c)'
<1> DEFINE l == call[c].lead
<1>1. l \in Leads /\ call'[c].lead = l /\ \A n \in DOMAIN log[l] : log[l][n] # Answered(c)
  BY DEF Unwritten
<1>2. log[l] \in Seq(Events) /\ log'[l] = Append(log[l], Answered(c))
  BY <1>1
<1> HIDE DEF l
<1>3. /\ Len(log[l]) + 1 \in DOMAIN log'[l] /\ log'[l][Len(log[l]) + 1] = Answered(c)
      /\ \A n \in DOMAIN log'[l] :
           n = Len(log[l]) + 1 \/ (n \in DOMAIN log[l] /\ log'[l][n] = log[l][n])
      /\ Len(log[l]) + 1 \notin DOMAIN log[l]
  <2>1. /\ DOMAIN log[l] = 1 .. Len(log[l]) /\ Len(log[l]) \in Nat
        /\ DOMAIN log'[l] = 1 .. (Len(log[l]) + 1)
        /\ \A n \in DOMAIN log[l] : log'[l][n] = log[l][n]
        /\ log'[l][Len(log[l]) + 1] = Answered(c)
    BY <1>2
  <2> QED BY <2>1
<1> QED BY <1>1, <1>3 DEF WrittenOnce

LEMMA NoAnswerWritten ==
  ASSUME log \in [Leads -> Seq(Events)],
         \/ log' = log
         \/ \E m \in Leads, e \in Events :
               e.k # "answered" /\ log' = [log EXCEPT ![m] = Append(@, e)]
  PROVE  WrittenAsBefore
<1>1. CASE log' = log
  <2>1. ASSUME NEW c \in Calls, WrittenOnce(c), call'[c].lead = call[c].lead PROVE WrittenOnce(c)'
    <3>1. /\ call'[c].lead \in Leads /\ log'[call'[c].lead] = log[call[c].lead]
          /\ \E i \in DOMAIN log[call[c].lead] : \A n \in DOMAIN log[call[c].lead] :
                log[call[c].lead][n] = Answered(c) <=> n = i
      BY <1>1, <2>1 DEF WrittenOnce
    <3> QED BY <3>1 DEF WrittenOnce
  <2>2. \A c \in Calls : Unwritten(c) => Unwritten(c)'
    BY <1>1 DEF Unwritten
  <2> QED BY <2>1, <2>2 DEF WrittenAsBefore
<1>2. CASE \E m \in Leads, e \in Events :
             e.k # "answered" /\ log' = [log EXCEPT ![m] = Append(@, e)]
  <2>1. PICK m \in Leads, e \in Events :
             e.k # "answered" /\ log' = [log EXCEPT ![m] = Append(@, e)]
    BY <1>2
  <2>2. \A c \in Calls : e # Answered(c)
    BY <2>1 DEF Answered
  <2> QED BY <2>1, <2>2, UnwrittenStays, WrittenStays DEF WrittenAsBefore
<1> QED BY <1>1, <1>2

(* A step that writes no answer, leaves the queues alone and moves only    *)
(* calls that wait for no reply.                                           *)
TasksAlike ==
    \A t \in Tasks :
        /\ task'[t].queue = task[t].queue
        /\ task[t].at # "free" =>
             /\ task'[t].at # "free"
             /\ task'[t].proc = task[t].proc /\ task'[t].lead = task[t].lead
        /\ task'[t].at = "replying" <=> task[t].at = "replying"
        /\ task'[t].at \in {"free", "ended"} => task[t].at \in {"free", "ended"}

LEMMA RepliesKept ==
  ASSUME Sound, ReplySound, WrittenAsBefore, TasksAlike,
         \A d \in Calls : call'[d] = call[d] \/ (call[d].at # "await" /\ AnswerSound(d)')
  PROVE  ReplySound'
<1>1. task \in [Tasks -> TaskType]
  BY DEF Sound, TypeOK
<1>2. ASSUME NEW t \in Tasks PROVE QueueSound(t)'
  <2>1. /\ task[t].queue \in Seq(Calls) /\ QueueSound(t) /\ task'[t].queue = task[t].queue
        /\ task[t].at = "replying" => task[t].queue # <<>>
    BY <1>1 DEF TaskType, ReplySound, TasksAlike, Sound, TypeOK
  <2>2. \A i \in DOMAIN task[t].queue :
          call'[task[t].queue[i]] = call[task[t].queue[i]]
    BY <2>1 DEF QueueSound
  <2>3. task'[t].at = "replying" => WrittenOnce(task[t].queue[1])'
    <3> SUFFICES ASSUME task'[t].at = "replying" PROVE WrittenOnce(task[t].queue[1])'
      OBVIOUS
    <3>1. PICK h \in Calls : h = task[t].queue[1] /\ 1 \in DOMAIN task[t].queue /\ WrittenOnce(h)
      BY <2>1 DEF TasksAlike, QueueSound
    <3>2. call'[h].lead = call[h].lead
      BY <2>2, <3>1
    <3>3. WrittenOnce(h)'
      BY <3>1, <3>2 DEF WrittenAsBefore
    <3>4. task'[t].queue[1] = h
      BY <2>1, <3>1
    <3> QED BY <3>3, <3>4 DEF WrittenOnce
  <2>4. task'[t].at \in {"free", "ended"} => task[t].queue = <<>>
    BY <2>1 DEF TasksAlike, QueueSound
  <2> QED BY <2>1, <2>2, <2>3, <2>4 DEF QueueSound
<1>3. ASSUME NEW d \in Calls, call'[d] = call[d] PROVE AnswerSound(d)'
  <2>1. AnswerSound(d)
    BY DEF ReplySound
  <2>2. InHand(d) => InHand(d)'
    BY <1>3 DEF InHand, TasksAlike
  <2>3. (Unwritten(d) => Unwritten(d)') /\ (WrittenOnce(d) => WrittenOnce(d)')
    BY <1>3 DEF WrittenAsBefore
  <2>4. call[d].at = "await" =>
          /\ task'[call[d].task].queue = task[call[d].task].queue
          /\ task'[call[d].task].at = "replying" <=> task[call[d].task].at = "replying"
    BY <2>1 DEF AnswerSound, InHand, TasksAlike
  <2> QED BY <1>3, <2>1, <2>2, <2>3, <2>4 DEF AnswerSound
<1> QED BY <1>2, <1>3 DEF ReplySound

(* A call on its way, before its task has it.                              *)
LEMMA CallGoesOn ==
  ASSUME ReplySound, WrittenAsBefore, NEW c \in Calls,
         call[c].at \notin {"await", "ok", "lost"},
         call'[c].at = "handed" => InHand(c)',
         call'[c].at # "await", call'[c].at = "ok" => call'[c].kind # "answer"
  PROVE  AnswerSound(c)'
BY DEF ReplySound, AnswerSound, WrittenAsBefore

(* The calls' own steps, but for the hand-over of an answer.               *)
LEMMA CallKeepsReplies ==
  ASSUME Sound, CountSound, ReplySound, NEW c \in Calls, CallSteps(c), ~HandOver(c)
  PROVE  ReplySound'
<1>1. /\ TypeOK /\ CallSound(c) /\ SlotSound
      /\ \A u \in Tasks : TaskSound(u)
  BY DEF Sound, LocksSound
<1>2. /\ call \in [Calls -> CallType] /\ task \in [Tasks -> TaskType]
      /\ log \in [Leads -> Seq(Events)]
  BY <1>1 DEF TypeOK
<1>3. ASSUME NEW d \in Calls \ {c} PROVE call'[d] = call[d]
  BY <1>2 DEF CallSteps, TakeSerial, TakeIssue, IssueTimesOut, LookUp, CreateLead, RecordRun,
              ClaimAttaches, ClaimElsewhere, ClaimTakes, Register, Spawn, HandOver, Goes
<1>4. WrittenAsBefore
  <2>1. CASE CreateLead(c)
    <3>1. PICK l \in Leads : log[l] = <<>> /\ log' = [log EXCEPT ![l] = <<Thread>>]
      BY <2>1 DEF CreateLead
    <3>2. log' = [log EXCEPT ![l] = Append(@, Thread)]
      BY <1>2, <3>1
    <3>3. Thread \in Events /\ Thread.k # "answered"
      BY DEF Thread, Events
    <3> QED BY <1>2, <3>2, <3>3, NoAnswerWritten
  <2>2. CASE RecordRun(c)
    <3>1. call[c].lead \in Leads
      BY <1>1, <2>2 DEF RecordRun, InCall, CallSound
    <3>2. RunStarted \in Events /\ RunStarted.k # "answered"
      BY DEF RunStarted, Events
    <3> QED BY <1>2, <2>2, <3>1, <3>2, NoAnswerWritten DEF RecordRun
  <2>3. CASE ~(CreateLead(c) \/ RecordRun(c))
    <3>1. log' = log
      BY <2>3 DEF CallSteps, TakeSerial, TakeIssue, IssueTimesOut, LookUp,
                  ClaimAttaches, ClaimElsewhere, ClaimTakes, Register, Spawn, HandOver
    <3> QED BY <1>2, <3>1, NoAnswerWritten
  <2> QED BY <2>1, <2>2, <2>3
<1>5. CASE ClaimTakes(c)
  <2> DEFINE p == call[c].proc
             l == call[c].lead
  <2>1. PICK t \in Tasks :
          /\ task[t].at = "free" /\ call[c].at = "claim"
          /\ task' = [task EXCEPT ![t] = [at |-> "claimed", proc |-> p, lead |-> l, queue |-> <<>>]]
          /\ call' = [call EXCEPT ![c].at = "register", ![c].task = t]
    BY <1>5 DEF ClaimTakes, InCall
  <2> HIDE DEF p, l
  <2>2. /\ task'[t].at = "claimed" /\ task'[t].queue = <<>>
        /\ \A u \in Tasks \ {t} : task'[u] = task[u]
    BY <1>2, <2>1
  <2>3. task[t].queue = <<>>
    BY <2>1 DEF ReplySound, QueueSound
  <2>4. TasksAlike
    BY <2>1, <2>2, <2>3 DEF TasksAlike
  <2>5. call'[c].at = "register"
    BY <1>2, <2>1 DEF CallType
  <2> QED BY <1>3, <1>4, <2>1, <2>4, <2>5, CallGoesOn, RepliesKept
<1>6. CASE Spawn(c)
  <2> DEFINE t == call[c].task
  <2>1. /\ call[c].at = "spawn" /\ task' = [task EXCEPT ![t].at = "opening"]
        /\ call' = [call EXCEPT ![c].at = "handed"]
    BY <1>6 DEF Spawn, InCall, Goes
  <2>2. /\ t \in Tasks /\ task[t].at = "claimed" /\ task[t].proc = call[c].proc
        /\ task[t].lead = call[c].lead
    BY <1>1, <2>1 DEF CallSound, Claiming, CountSound
  <2>3. /\ call'[c].at = "handed" /\ call'[c].task = t /\ call'[c].proc = call[c].proc
        /\ call'[c].lead = call[c].lead
    BY <1>2, <2>1 DEF CallType
  <2> HIDE DEF t
  <2>4. /\ task'[t].at = "opening" /\ task'[t].proc = task[t].proc /\ task'[t].lead = task[t].lead
        /\ task'[t].queue = task[t].queue
        /\ \A u \in Tasks \ {t} : task'[u] = task[u]
    BY <1>2, <2>1, <2>2 DEF TaskType
  <2>5. TasksAlike
    BY <2>2, <2>4 DEF TasksAlike
  <2>6. InHand(c)'
    BY <2>2, <2>3, <2>4 DEF InHand
  <2> QED BY <1>3, <1>4, <2>1, <2>3, <2>5, <2>6, CallGoesOn, RepliesKept
<1>7. CASE ClaimAttaches(c)
  <2> DEFINE p == call[c].proc
             l == call[c].lead
  <2>1. /\ call[c].at = "claim" /\ slot[p][l] # 0 /\ task' = task
        /\ call' = [call EXCEPT ![c].at = "handed", ![c].task = slot[p][l]]
    BY <1>7 DEF ClaimAttaches, InCall
  <2>2. p \in Procs /\ l \in Leads
    BY <1>1, <2>1 DEF CallSound, Over
  <2> HIDE DEF p, l
  <2>3. slot[p][l] \in Tasks
    BY <1>1, <2>1, <2>2 DEF TypeOK
  <2>4. /\ task[slot[p][l]].proc = p /\ task[slot[p][l]].lead = l
        /\ task[slot[p][l]].at # "free"
    BY <1>1, <2>1, <2>2 DEF SlotSound, Held
  <2>5. /\ call'[c].at = "handed" /\ call'[c].task = slot[p][l]
        /\ call'[c].proc = p /\ call'[c].lead = l
    BY <1>2, <2>1 DEF CallType, p, l
  <2>6. InHand(c)' /\ TasksAlike
    BY <2>1, <2>3, <2>4, <2>5 DEF InHand, TasksAlike
  <2> QED BY <1>3, <1>4, <2>1, <2>5, <2>6, CallGoesOn, RepliesKept
<1>8. CASE ~(ClaimTakes(c) \/ Spawn(c) \/ ClaimAttaches(c))
  <2>1. task' = task /\ call[c].at \notin Over \union {"handed", "await"}
    BY <1>8 DEF CallSteps, TakeSerial, TakeIssue, IssueTimesOut, LookUp, CreateLead, RecordRun,
                ClaimElsewhere, Register, InCall, Over
  <2>2. call'[c].at \in {"issue", "look", "refused", "claim", "create", "record",
                         "elsewhere", "spawn"}
    <3>1. CASE LookUp(c) \/ CreateLead(c) \/ ClaimElsewhere(c)
      BY <1>2, <3>1 DEF LookUp, CreateLead, ClaimElsewhere, Goes, CallType
    <3>2. CASE ~(LookUp(c) \/ CreateLead(c) \/ ClaimElsewhere(c))
      BY <1>2, <1>8, <3>2 DEF CallSteps, TakeSerial, TakeIssue, IssueTimesOut, RecordRun, Register,
                              Goes, CallType
    <3> QED BY <3>1, <3>2
  <2>3. TasksAlike
    BY <2>1 DEF TasksAlike
  <2>4. AnswerSound(c)'
    BY <1>4, <2>1, <2>2, CallGoesOn DEF Over
  <2> QED BY <1>3, <1>4, <2>1, <2>3, <2>4, RepliesKept
<1> QED BY <1>5, <1>6, <1>7, <1>8

(* An answer enters its task's queue, or finds the task gone.              *)
LEMMA HandOverKeepsReplies ==
  ASSUME Sound, ReplySound, NEW c \in Calls, HandOver(c)
  PROVE  ReplySound'
<1>1. /\ call \in [Calls -> CallType] /\ task \in [Tasks -> TaskType]
      /\ log \in [Leads -> Seq(Events)]
      /\ \A u \in Tasks : task[u].at = "replying" => task[u].queue # <<>>
  BY DEF Sound, TypeOK
<1>2. call[c].at = "handed" /\ log' = log
  BY DEF HandOver, InCall
<1>3. PICK t \in Tasks : InHand(c) /\ Unwritten(c) /\ t = call[c].task
  BY <1>2 DEF ReplySound, AnswerSound, InHand
<1> DEFINE heard == call[c].kind = "answer" /\ task[t].at # "ended"
<1>4. WrittenAsBefore
  BY <1>1, <1>2, NoAnswerWritten
<1>5. \A d \in Calls \ {c} : call'[d] = call[d]
  BY <1>1 DEF HandOver, Goes
<1>6. CASE ~heard
  <2>1. task' = task /\ call'[c].at \in {"gone", "ok"} /\ call'[c].kind = call[c].kind
        /\ (call'[c].at = "ok" => call'[c].kind # "answer")
    BY <1>1, <1>3, <1>6 DEF HandOver, Goes, CallType
  <2>2. TasksAlike
    BY <2>1 DEF TasksAlike
  <2> QED BY <1>2, <1>4, <1>5, <2>1, <2>2, CallGoesOn, RepliesKept
<1>7. CASE heard
  <2>1. /\ task' = [task EXCEPT ![t].queue = Append(@, c)]
        /\ call' = [call EXCEPT ![c].at = "await"]
    BY <1>3, <1>7 DEF HandOver, Goes
  <2>2. /\ call'[c].at = "await" /\ call'[c].task = t /\ call'[c].kind = "answer"
        /\ call'[c].proc = call[c].proc /\ call'[c].lead = call[c].lead
    BY <1>1, <1>3, <1>7, <2>1 DEF CallType
  <2>3. task[t] \in TaskType /\ task[t].at \notin {"free", "ended"}
    BY <1>1, <1>3, <1>7 DEF InHand
  <2> HIDE DEF heard
  <2>4. /\ task'[t].at = task[t].at /\ task'[t].proc = task[t].proc /\ task'[t].lead = task[t].lead
        /\ task'[t].queue = Append(task[t].queue, c)
        /\ \A u \in Tasks \ {t} : task'[u] = task[u]
    BY <1>1, <1>3, <2>1, <2>3 DEF TaskType
  <2>5. /\ \A u \in Tasks : QueueSound(u)
        /\ \A d \in Calls : AnswerSound(d)
        /\ \A u \in Tasks : task[u].queue \in Seq(Calls)
    BY <1>1 DEF ReplySound, TaskType
  <2>6. \A u \in Tasks : \A i \in DOMAIN task[u].queue :
          task[u].queue[i] # c /\ call'[task[u].queue[i]] = call[task[u].queue[i]]
    BY <1>2, <1>5, <2>5 DEF QueueSound
  <2>7. ASSUME NEW u \in Tasks, u # t PROVE QueueSound(u)'
    <3>1. task'[u] = task[u] /\ QueueSound(u)
      BY <2>4, <2>5, <2>7
    <3>2. task[u].at = "replying" => WrittenOnce(task[u].queue[1])'
      <4> SUFFICES ASSUME task[u].at = "replying" PROVE WrittenOnce(task[u].queue[1])'
        OBVIOUS
      <4>1. PICK h \in Calls : h = task[u].queue[1] /\ 1 \in DOMAIN task[u].queue /\ WrittenOnce(h)
        BY <1>1, <2>5 DEF QueueSound
      <4>2. WrittenOnce(h)' /\ task'[u].queue[1] = h
        BY <1>4, <2>6, <3>1, <4>1 DEF WrittenAsBefore
      <4> QED BY <4>2 DEF WrittenOnce
    <3> QED BY <2>6, <3>1, <3>2 DEF QueueSound
  <2>8. QueueSound(t)'
    <3> DEFINE q == task[t].queue
    <3>1. /\ q \in Seq(Calls) /\ task'[t].queue = Append(q, c)
          /\ DOMAIN q = 1 .. Len(q) /\ Len(q) \in Nat
      BY <1>3, <2>4, <2>5
    <3>2. /\ DOMAIN task'[t].queue = 1 .. (Len(q) + 1)
          /\ \A i \in DOMAIN q : task'[t].queue[i] = q[i]
          /\ task'[t].queue[Len(q) + 1] = c
      BY <3>1
    <3>3. /\ \A i \in DOMAIN q : call[q[i]].at = "await" /\ call[q[i]].task = t
                                 /\ call[q[i]].kind = "answer"
          /\ \A i, n \in DOMAIN q : q[i] = q[n] => i = n
          /\ \A i \in DOMAIN q : q[i] # c /\ call'[q[i]] = call[q[i]]
      BY <1>3, <2>5, <2>6 DEF QueueSound
    <3>4. task[t].at = "replying" => 1 \in DOMAIN q
      BY <1>1, <1>3, <3>1
    <3>5. task[t].at = "replying" => WrittenOnce(task[t].queue[1])'
      <4> SUFFICES ASSUME task[t].at = "replying" PROVE WrittenOnce(task[t].queue[1])'
        OBVIOUS
      <4>1. PICK h \in Calls : h = q[1] /\ WrittenOnce(h)
        BY <1>3, <2>5, <3>1, <3>4 DEF QueueSound
      <4>2. WrittenOnce(h)' /\ task'[t].queue[1] = h
        BY <1>4, <3>2, <3>3, <3>4, <4>1 DEF WrittenAsBefore
      <4> QED BY <4>2 DEF WrittenOnce
    <3> HIDE DEF q
    <3>6. /\ \A i \in DOMAIN task'[t].queue :
               LET d == task'[t].queue[i]
               IN  call'[d].at = "await" /\ call'[d].task = t /\ call'[d].kind = "answer"
          /\ \A i, n \in DOMAIN task'[t].queue :
               task'[t].queue[i] = task'[t].queue[n] => i = n
      BY <2>2, <3>1, <3>2, <3>3
    <3> QED BY <2>3, <2>4, <3>5, <3>6 DEF QueueSound
  <2>9. ASSUME NEW d \in Calls, d # c PROVE AnswerSound(d)'
    <3>1. call'[d] = call[d] /\ AnswerSound(d)
      BY <1>5, <2>5, <2>9
    <3>2. InHand(d) => InHand(d)'
      BY <2>4, <3>1 DEF InHand
    <3>3. (Unwritten(d) => Unwritten(d)') /\ (WrittenOnce(d) => WrittenOnce(d)')
      BY <1>4, <3>1 DEF WrittenAsBefore
    <3>4. call[d].at = "await" /\ task[call[d].task].at = "replying" /\ task[call[d].task].queue[1] = d
          => task'[call[d].task].at = "replying" /\ task'[call[d].task].queue[1] = d
      <4> SUFFICES ASSUME call[d].at = "await", task[call[d].task].at = "replying",
                          task[call[d].task].queue[1] = d
                   PROVE  task'[call[d].task].at = "replying" /\ task'[call[d].task].queue[1] = d
        OBVIOUS
      <4>1. call[d].task \in Tasks
        BY <3>1 DEF AnswerSound, InHand
      <4>2. task[call[d].task].queue # <<>> /\ task[call[d].task].queue \in Seq(Calls)
        BY <1>1, <2>5, <4>1
      <4>3. Append(task[call[d].task].queue, c)[1] = task[call[d].task].queue[1]
        BY <4>2
      <4> QED BY <2>4, <4>1, <4>3
    <3> QED BY <3>1, <3>2, <3>3, <3>4 DEF AnswerSound
  <2>10. AnswerSound(c)'
    <3>1. Unwritten(c)'
      BY <1>3, <1>4 DEF WrittenAsBefore
    <3>2. InHand(c)'
      BY <1>3, <2>2, <2>3, <2>4 DEF InHand
    <3> QED BY <2>2, <3>1, <3>2 DEF AnswerSound
  <2> QED BY <2>7, <2>8, <2>9, <2>10 DEF ReplySound
<1> QED BY <1>6, <1>7

(* The runner writes the answer at the head of its queue.                  *)
LEMMA ApplyKeepsReplies ==
  ASSUME Sound, ReplySound, NEW t \in Tasks, Apply(t)
  PROVE  ReplySound'
<1>1. /\ call \in [Calls -> CallType] /\ task \in [Tasks -> TaskType]
      /\ log \in [Leads -> Seq(Events)] /\ TaskSound(t)
      /\ \A u \in Tasks : task[u].at = "replying" => task[u].queue # <<>>
  BY DEF Sound, TypeOK, LocksSound
<1>2. task[t] \in TaskType /\ task[t].queue \in Seq(Calls) /\ task[t].queue # <<>>
  BY <1>1 DEF TaskType, Apply
<1>3. PICK h \in Calls : h = task[t].queue[1] /\ 1 \in DOMAIN task[t].queue
  BY <1>2
<1>4. /\ task[t].at = "waiting" /\ call' = call
      /\ task' = [task EXCEPT ![t].at = "replying"]
      /\ log' = [log EXCEPT ![task[t].lead] = Append(@, Answered(h))]
  BY <1>3 DEF Apply, InTask, Turns, Appends, Answering
<1>5. /\ \A u \in Tasks : QueueSound(u)
      /\ \A d \in Calls : AnswerSound(d)
  BY DEF ReplySound
<1>6. call[h].at = "await" /\ call[h].task = t
  BY <1>3, <1>5 DEF QueueSound
<1>7. /\ Unwritten(h) /\ call[h].lead = task[t].lead
  BY <1>4, <1>5, <1>6 DEF AnswerSound, InHand
<1>8. task[t].lead \in Leads
  BY <1>1, <1>4 DEF TaskSound
<1>9. Answered(h) \in Events
  BY DEF Events
<1>10. WrittenOnce(h)'
  BY <1>1, <1>4, <1>7, <1>8, <1>9, NowWritten
<1>11. \A d \in Calls \ {h} :
          (Unwritten(d) => Unwritten(d)') /\ (WrittenOnce(d) => WrittenOnce(d)')
  <2>1. \A d \in Calls \ {h} : Answered(h) # Answered(d)
    BY DEF Answered
  <2> QED BY <1>1, <1>4, <1>8, <1>9, <2>1, UnwrittenStays, WrittenStays
<1>12. /\ task'[t].at = "replying" /\ task'[t].proc = task[t].proc /\ task'[t].lead = task[t].lead
       /\ task'[t].queue = task[t].queue
       /\ \A u \in Tasks \ {t} : task'[u] = task[u]
  BY <1>1, <1>2, <1>4 DEF TaskType
<1>13. ASSUME NEW u \in Tasks PROVE QueueSound(u)'
  <2>1. CASE u = t
    <3>1. WrittenOnce(task[u].queue[1])'
      BY <1>3, <1>10, <1>12, <2>1 DEF WrittenOnce
    <3> QED BY <1>4, <1>5, <1>12, <2>1, <3>1 DEF QueueSound
  <2>2. CASE u # t
    <3>1. task'[u] = task[u] /\ QueueSound(u)
      BY <1>5, <1>12, <2>2
    <3>2. task[u].at = "replying" => WrittenOnce(task[u].queue[1])'
      <4> SUFFICES ASSUME task[u].at = "replying" PROVE WrittenOnce(task[u].queue[1])'
        OBVIOUS
      <4>1. task[u].queue \in Seq(Calls) /\ task[u].queue # <<>>
        BY <1>1 DEF TaskType
      <4>2. PICK g \in Calls : /\ g = task[u].queue[1] /\ 1 \in DOMAIN task[u].queue
                               /\ WrittenOnce(g)
        BY <3>1, <4>1 DEF QueueSound
      <4>3. g # h
        BY <1>6, <2>2, <3>1, <4>2 DEF QueueSound
      <4>4. WrittenOnce(g)' /\ task'[u].queue[1] = g
        BY <1>11, <3>1, <4>2, <4>3
      <4> QED BY <4>4 DEF WrittenOnce
    <3>3. /\ \A i \in DOMAIN task[u].queue :
               LET c == task[u].queue[i]
               IN  call[c].at = "await" /\ call[c].task = u /\ call[c].kind = "answer"
          /\ \A i, n \in DOMAIN task[u].queue : task[u].queue[i] = task[u].queue[n] => i = n
          /\ task[u].at \in {"free", "ended"} => task[u].queue = <<>>
      BY <3>1 DEF QueueSound
    <3> QED BY <1>4, <3>1, <3>2, <3>3, ZenonT(60) DEF QueueSound
  <2> QED BY <2>1, <2>2
<1>14. ASSUME NEW d \in Calls PROVE AnswerSound(d)'
  <2>1. call'[d] = call[d] /\ AnswerSound(d) /\ (InHand(d) => InHand(d)')
    BY <1>4, <1>5, <1>12 DEF InHand
  <2>2. CASE d = h
    <3>1. call'[h].task = t /\ call'[h].at = "await" /\ task'[t].queue[1] = h
      BY <1>3, <1>4, <1>6, <1>12
    <3> QED BY <1>10, <1>12, <2>1, <2>2, <3>1 DEF AnswerSound
  <2>3. CASE d # h
    <3>1. call[d].at = "await" /\ task[call[d].task].at = "replying"
          => task'[call[d].task] = task[call[d].task]
      BY <1>4, <1>12, <2>1 DEF AnswerSound, InHand
    <3> QED BY <1>11, <2>1, <2>3, <3>1 DEF AnswerSound
  <2> QED BY <2>2, <2>3
<1> QED BY <1>13, <1>14 DEF ReplySound

(* The answer at the head has its reply, and leaves the queue.             *)
Pops(t, h) ==
    /\ task[t].queue # <<>> /\ h = task[t].queue[1]
    /\ task' = [task EXCEPT ![t].at = "advancing", ![t].queue = Tail(@)] /\ log' = log
    /\ \A d \in Calls \ {h} : call'[d] = call[d]

LEMMA HeadLeaves ==
  ASSUME Sound, ReplySound, NEW t \in Tasks, NEW h \in Calls, Pops(t, h), AnswerSound(h)'
  PROVE  ReplySound'
<1>1. /\ call \in [Calls -> CallType] /\ task \in [Tasks -> TaskType]
      /\ log \in [Leads -> Seq(Events)]
      /\ \A u \in Tasks : task[u].at = "replying" => task[u].queue # <<>>
  BY DEF Sound, TypeOK
<1>2. task[t] \in TaskType /\ task[t].queue \in Seq(Calls)
  BY <1>1 DEF TaskType
<1>3. h = task[t].queue[1] /\ 1 \in DOMAIN task[t].queue /\ task[t].queue # <<>>
  BY <1>2 DEF Pops
<1>4. PICK q \in Seq(Calls) : q = task[t].queue /\ q # <<>>
  BY <1>2, <1>3
<1>5. /\ task'[t].at = "advancing" /\ task'[t].proc = task[t].proc /\ task'[t].lead = task[t].lead
      /\ task'[t].queue = Tail(q)
      /\ \A u \in Tasks \ {t} : task'[u] = task[u]
  BY <1>1, <1>2, <1>4 DEF TaskType, Pops
<1>6. /\ \A u \in Tasks : QueueSound(u)
      /\ \A d \in Calls : AnswerSound(d)
  BY DEF ReplySound
<1>7. call[h].at = "await" /\ call[h].task = t
  BY <1>3, <1>6 DEF QueueSound
<1>8. \A d \in Calls \ {h} : call'[d] = call[d]
  BY DEF Pops
<1>9. WrittenAsBefore
  BY <1>1, NoAnswerWritten DEF Pops
<1>11. QueueSound(t)'
  <2>1. /\ DOMAIN q = 1 .. Len(q) /\ Len(q) \in Nat /\ Len(q) > 0
        /\ DOMAIN Tail(q) = 1 .. (Len(q) - 1)
        /\ \A i \in DOMAIN Tail(q) : i + 1 \in DOMAIN q /\ Tail(q)[i] = q[i + 1]
    BY <1>4
  <2>2. /\ \A i \in DOMAIN q : call[q[i]].at = "await" /\ call[q[i]].task = t
                               /\ call[q[i]].kind = "answer" /\ q[i] \in Calls
        /\ \A i, n \in DOMAIN q : q[i] = q[n] => i = n
    BY <1>4, <1>6 DEF QueueSound
  <2>3. \A i \in DOMAIN Tail(q) : call'[Tail(q)[i]] = call[Tail(q)[i]]
    BY <1>3, <1>4, <1>8, <2>1, <2>2
  <2>4. /\ \A i \in DOMAIN Tail(q) :
             LET d == Tail(q)[i]
             IN  call'[d].at = "await" /\ call'[d].task = t /\ call'[d].kind = "answer"
        /\ \A i, n \in DOMAIN Tail(q) : Tail(q)[i] = Tail(q)[n] => i = n
    BY <2>1, <2>2, <2>3
  <2> QED BY <1>5, <2>4 DEF QueueSound
<1>12. ASSUME NEW u \in Tasks, u # t PROVE QueueSound(u)'
  <2>1. task'[u] = task[u] /\ QueueSound(u) /\ task[u].queue \in Seq(Calls)
    BY <1>1, <1>5, <1>6, <1>12 DEF TaskType
  <2>2. \A i \in DOMAIN task[u].queue : call'[task[u].queue[i]] = call[task[u].queue[i]]
    BY <1>7, <1>8, <1>12, <2>1 DEF QueueSound
  <2>3. task[u].at = "replying" => WrittenOnce(task[u].queue[1])'
    <3> SUFFICES ASSUME task[u].at = "replying" PROVE WrittenOnce(task[u].queue[1])'
      OBVIOUS
    <3>1. PICK g \in Calls : g = task[u].queue[1] /\ 1 \in DOMAIN task[u].queue /\ WrittenOnce(g)
      BY <1>1, <2>1 DEF QueueSound
    <3>2. WrittenOnce(g)' /\ task'[u].queue[1] = g
      BY <1>9, <2>1, <2>2, <3>1 DEF WrittenAsBefore
    <3> QED BY <3>2 DEF WrittenOnce
  <2> QED BY <2>1, <2>2, <2>3 DEF QueueSound
<1>13. ASSUME NEW d \in Calls, d # h PROVE AnswerSound(d)'
  <2>1. call'[d] = call[d] /\ AnswerSound(d) /\ (InHand(d) => InHand(d)')
    <3>1. call'[d] = call[d] /\ AnswerSound(d)
      BY <1>6, <1>8, <1>13
    <3> QED BY <1>5, <3>1 DEF InHand
  <2>2. (Unwritten(d) => Unwritten(d)') /\ (WrittenOnce(d) => WrittenOnce(d)')
    BY <1>9, <2>1 DEF WrittenAsBefore
  <2>3. call[d].at = "await" /\ task[call[d].task].queue[1] = d
        => task'[call[d].task] = task[call[d].task]
    BY <1>3, <1>5, <1>13, <2>1 DEF AnswerSound, InHand
  <2> QED BY <2>1, <2>2, <2>3 DEF AnswerSound
<1> QED BY <1>11, <1>12, <1>13 DEF ReplySound

LEMMA TaskKeepsReplies ==
  ASSUME Sound, ReplySound, NEW t \in Tasks, TaskSteps(t)
  PROVE  ReplySound'
<1>1. /\ call \in [Calls -> CallType] /\ task \in [Tasks -> TaskType]
      /\ log \in [Leads -> Seq(Events)] /\ TaskSound(t) /\ task[t] \in TaskType
      /\ \A u \in Tasks : task[u].at = "replying" => task[u].queue # <<>>
  BY DEF Sound, TypeOK, LocksSound
<1>2. /\ \A u \in Tasks : QueueSound(u)
      /\ \A d \in Calls : AnswerSound(d)
  BY DEF ReplySound
<1>3. CASE Apply(t)
  BY <1>3, ApplyKeepsReplies
<1>4. CASE Reply(t) \/ Refuse(t)
  <2>1. /\ task[t].queue # <<>> /\ task[t].at \in {"replying", "waiting"}
        /\ task' = [task EXCEPT ![t].at = "advancing", ![t].queue = Tail(@)] /\ log' = log
    BY <1>1, <1>4 DEF Reply, Refuse, InTask
  <2>2. PICK h \in Calls : h = Answering(t) /\ 1 \in DOMAIN task[t].queue
    BY <1>1, <2>1 DEF Answering, TaskType
  <2>3. call[h].at = "await" /\ call[h].task = t /\ call[h].kind = "answer"
    BY <1>2, <2>2 DEF QueueSound, Answering
  <2>4. WrittenAsBefore
    BY <1>1, <2>1, NoAnswerWritten
  <2>5. CASE Reply(t)
    <3>1. Goes(h, "ok") /\ task[t].at = "replying"
      BY <2>2, <2>5 DEF Reply, InTask
    <3>2. call'[h].at = "ok" /\ call'[h].kind = "answer" /\ call'[h].lead = call[h].lead
      BY <1>1, <2>3, <3>1 DEF Goes, CallType
    <3>3. WrittenOnce(h)
      BY <1>2, <2>2, <3>1 DEF QueueSound, Answering
    <3>4. AnswerSound(h)'
      BY <2>4, <3>2, <3>3 DEF AnswerSound, WrittenAsBefore
    <3>5. \A d \in Calls \ {h} : call'[d] = call[d]
      BY <1>1, <3>1 DEF Goes
    <3> QED BY <2>1, <2>2, <3>4, <3>5, HeadLeaves DEF Answering, Pops
  <2>6. CASE Refuse(t)
    <3>1. Goes(h, "refused") /\ task[t].at = "waiting"
      BY <2>2, <2>6 DEF Refuse, InTask
    <3>2. call'[h].at = "refused"
      BY <1>1, <3>1 DEF Goes, CallType
    <3>3. Unwritten(h)
      BY <1>2, <2>3, <3>1 DEF AnswerSound
    <3>4. AnswerSound(h)'
      BY <2>4, <3>2, <3>3 DEF AnswerSound, WrittenAsBefore
    <3>5. \A d \in Calls \ {h} : call'[d] = call[d]
      BY <1>1, <3>1 DEF Goes
    <3> QED BY <2>1, <2>2, <3>4, <3>5, HeadLeaves DEF Answering, Pops
  <2> QED BY <1>4, <2>5, <2>6
<1>5. CASE Close(t)
  <2>1. /\ task[t].at = "closing" /\ log' = log
        /\ task' = [task EXCEPT ![t].at = "ended", ![t].queue = <<>>]
        /\ \A d \in Calls : call'[d] = IF call[d].at = "await" /\ call[d].task = t
                                       THEN [call[d] EXCEPT !.at = "gone"] ELSE call[d]
    BY <1>5 DEF Close, InTask
  <2>2. /\ task'[t].at = "ended" /\ task'[t].proc = task[t].proc /\ task'[t].lead = task[t].lead
        /\ task'[t].queue = <<>>
        /\ \A u \in Tasks \ {t} : task'[u] = task[u]
    BY <1>1, <2>1 DEF TaskType
  <2>3. WrittenAsBefore
    BY <1>1, <2>1, NoAnswerWritten
  <2>4. ASSUME NEW u \in Tasks PROVE QueueSound(u)'
    <3>1. CASE u = t
      BY <2>2, <3>1 DEF QueueSound
    <3>2. CASE u # t
      <4>1. task'[u] = task[u] /\ QueueSound(u) /\ task[u].queue \in Seq(Calls)
        BY <1>1, <1>2, <2>2, <3>2 DEF TaskType
      <4>2. ASSUME NEW i \in DOMAIN task[u].queue
            PROVE  call'[task[u].queue[i]] = call[task[u].queue[i]]
        <5>1. task[u].queue[i] \in Calls /\ call[task[u].queue[i]].task = u
          BY <4>1 DEF QueueSound
        <5> QED BY <2>1, <3>2, <5>1
      <4>3. task[u].at = "replying" => WrittenOnce(task[u].queue[1])'
        <5> SUFFICES ASSUME task[u].at = "replying" PROVE WrittenOnce(task[u].queue[1])'
          OBVIOUS
        <5>1. PICK g \in Calls : g = task[u].queue[1] /\ 1 \in DOMAIN task[u].queue /\ WrittenOnce(g)
          BY <1>1, <4>1 DEF QueueSound
        <5>2. WrittenOnce(g)' /\ task'[u].queue[1] = g
          BY <2>3, <4>1, <4>2, <5>1 DEF WrittenAsBefore
        <5> QED BY <5>2 DEF WrittenOnce
      <4> QED BY <4>1, <4>2, <4>3 DEF QueueSound
    <3> QED BY <3>1, <3>2
  <2>5. ASSUME NEW d \in Calls PROVE AnswerSound(d)'
    <3>1. AnswerSound(d)
      BY <1>2
    <3>2. CASE call[d].at = "await" /\ call[d].task = t
      <4>1. Unwritten(d) /\ call'[d].at = "gone"
        BY <1>1, <2>1, <3>1, <3>2 DEF AnswerSound, CallType
      <4> QED BY <2>3, <4>1 DEF AnswerSound, WrittenAsBefore
    <3>3. CASE ~(call[d].at = "await" /\ call[d].task = t)
      <4>1. call'[d] = call[d] /\ (InHand(d) => InHand(d)')
        <5>1. call'[d] = call[d]
          BY <2>1, <3>3
        <5>2. \A u \in Tasks : /\ task[u].at # "free" => task'[u].at # "free"
                               /\ task'[u].proc = task[u].proc /\ task'[u].lead = task[u].lead
          BY <2>2
        <5> QED BY <5>1, <5>2 DEF InHand
      <4>2. (Unwritten(d) => Unwritten(d)') /\ (WrittenOnce(d) => WrittenOnce(d)')
        BY <2>3, <4>1 DEF WrittenAsBefore
      <4>3. call[d].at = "await" => task'[call[d].task] = task[call[d].task]
        BY <2>2, <3>1, <3>3 DEF AnswerSound, InHand
      <4> QED BY <3>1, <4>1, <4>2, <4>3 DEF AnswerSound
    <3> QED BY <3>2, <3>3
  <2> QED BY <2>4, <2>5 DEF ReplySound
<1>6. CASE OpenRun(t) \/ Advance(t) \/ GiveUpSlot(t) \/ LeaveCount(t) \/ Unlock(t)
  <2>1. PICK place \in {"advancing", "ending", "waiting", "counted", "unlocking", "closing"} :
          task' = [task EXCEPT ![t].at = place]
    BY <1>6 DEF OpenRun, Advance, GiveUpSlot, LeaveCount, Unlock, Turns
  <2>2. /\ task'[t].at = place /\ task'[t].proc = task[t].proc /\ task'[t].lead = task[t].lead
        /\ task'[t].queue = task[t].queue
        /\ \A u \in Tasks \ {t} : task'[u] = task[u]
    BY <1>1, <2>1 DEF TaskType
  <2>3. call' = call /\ task[t].at \in {"opening", "advancing", "ending", "counted", "unlocking"}
    BY <1>6 DEF OpenRun, Advance, GiveUpSlot, LeaveCount, Unlock, InTask
  <2>4. TasksAlike
    BY <2>2, <2>3 DEF TasksAlike
  <2>5. WrittenAsBefore
    <3>1. CASE Advance(t)
      <4>1. task[t].lead \in Leads
        BY <1>1, <3>1 DEF TaskSound, Advance, InTask
      <4>2. log' = log \/ \E e \in Events : e.k # "answered" /\ Appends(t, e)
        BY <3>1 DEF Advance, Events, Asked, Finished
      <4> QED BY <1>1, <4>1, <4>2, NoAnswerWritten DEF Appends
    <3>2. CASE ~Advance(t)
      <4>1. log' = log
        BY <1>6, <3>2 DEF OpenRun, GiveUpSlot, LeaveCount, Unlock
      <4> QED BY <1>1, <4>1, NoAnswerWritten
    <3> QED BY <3>1, <3>2
  <2> QED BY <2>3, <2>4, <2>5, RepliesKept
<1> QED BY <1>3, <1>4, <1>5, <1>6 DEF TaskSteps

LEMMA OthersKeepReplies ==
  ASSUME Sound, ReplySound, Starts \/ Faults \/ UNCHANGED vars
  PROVE  ReplySound'
<1>1. /\ call \in [Calls -> CallType] /\ task \in [Tasks -> TaskType]
      /\ log \in [Leads -> Seq(Events)]
      /\ \A u \in Tasks : task[u].at = "replying" => task[u].queue # <<>>
  BY DEF Sound, TypeOK
<1>2. /\ \A u \in Tasks : QueueSound(u)
      /\ \A d \in Calls : AnswerSound(d)
  BY DEF ReplySound
<1>3. log' = log
  BY DEF Starts, Faults, StartBuild, StartAnswer, StartScan, Crash, Restart, vars
<1>4. WrittenAsBefore
  BY <1>1, <1>3, NoAnswerWritten
<1>5. CASE Starts
  <2>1. TasksAlike
    BY <1>5 DEF Starts, StartBuild, StartAnswer, StartScan, TasksAlike
  <2>2. PICK c \in Calls, at \in {"serial", "claim", "refused"} :
          /\ call[c].at = "idle" /\ call'[c].at = at
          /\ \A d \in Calls \ {c} : call'[d] = call[d]
    BY <1>1, <1>5 DEF Starts, StartBuild, StartAnswer, StartScan, Begin
  <2>3. AnswerSound(c)'
    BY <1>4, <2>2, CallGoesOn
  <2> QED BY <1>4, <2>1, <2>2, <2>3, RepliesKept
<1>6. ASSUME NEW p \in Procs, Crash(p) PROVE ReplySound'
  <2>1. /\ \A u \in Tasks : task'[u] = IF Of(p, u) THEN [task[u] EXCEPT !.at = "ended", !.queue = <<>>]
                                       ELSE task[u]
        /\ \A d \in Calls : call'[d] = IF call[d].proc = p /\ call[d].at \notin Over
                                       THEN [call[d] EXCEPT !.at = "lost"] ELSE call[d]
    BY <1>6 DEF Crash
  <2>2. \A d \in Calls :
          \/ call'[d] = call[d] /\ (call[d].at \in Over \/ call[d].proc # p)
          \/ call'[d].at = "lost"
    BY <1>1, <2>1 DEF CallType
  <2>3. \A u \in Tasks :
          \/ task'[u] = task[u] /\ (task[u].at \in {"free", "ended"} \/ task[u].proc # p)
          \/ task'[u].at = "ended" /\ task'[u].queue = <<>> /\ task[u].proc = p
    BY <1>1, <2>1 DEF TaskType, Of
  <2>4. ASSUME NEW u \in Tasks PROVE QueueSound(u)'
    <3>1. CASE task'[u].at = "ended" /\ task'[u].queue = <<>>
      BY <3>1 DEF QueueSound
    <3>2. CASE task'[u] = task[u] /\ task[u].at \in {"free", "ended"}
      BY <1>2, <3>2 DEF QueueSound
    <3>3. CASE task'[u] = task[u] /\ task[u].proc # p
      <4>1. QueueSound(u) /\ task[u].queue \in Seq(Calls)
        BY <1>1, <1>2 DEF TaskType
      <4>2. ASSUME NEW i \in DOMAIN task[u].queue
            PROVE  call'[task[u].queue[i]] = call[task[u].queue[i]]
        <5>1. PICK d \in Calls : d = task[u].queue[i] /\ call[d].at = "await" /\ call[d].task = u
          BY <4>1 DEF QueueSound
        <5>2. call[d].proc = task[u].proc
          BY <1>2, <5>1 DEF AnswerSound, InHand
        <5> QED BY <2>1, <3>3, <5>1, <5>2
      <4>3. task[u].at = "replying" => WrittenOnce(task[u].queue[1])'
        <5> SUFFICES ASSUME task[u].at = "replying" PROVE WrittenOnce(task[u].queue[1])'
          OBVIOUS
        <5>1. PICK g \in Calls : g = task[u].queue[1] /\ 1 \in DOMAIN task[u].queue /\ WrittenOnce(g)
          BY <1>1, <4>1 DEF QueueSound
        <5>2. WrittenOnce(g)' /\ task'[u].queue[1] = g
          BY <1>4, <3>3, <4>2, <5>1 DEF WrittenAsBefore
        <5> QED BY <5>2 DEF WrittenOnce
      <4> QED BY <3>3, <4>1, <4>2, <4>3 DEF QueueSound
    <3> QED BY <2>3, <3>1, <3>2, <3>3
  <2>5. ASSUME NEW d \in Calls PROVE AnswerSound(d)'
    <3>1. CASE call'[d].at = "lost"
      BY <3>1 DEF AnswerSound
    <3>2. CASE call'[d] = call[d] /\ (call[d].at \in Over \/ call[d].proc # p)
      <4>1. AnswerSound(d) /\ (Unwritten(d) => Unwritten(d)') /\ (WrittenOnce(d) => WrittenOnce(d)')
        BY <1>2, <1>4, <3>2 DEF WrittenAsBefore
      <4>2. CASE call[d].at \in {"handed", "await"}
        <5>1. call[d].task \in Tasks /\ task[call[d].task].proc # p /\ InHand(d)
          BY <3>2, <4>1, <4>2 DEF AnswerSound, InHand, Over
        <5>2. task'[call[d].task] = task[call[d].task]
          BY <2>3, <5>1
        <5> QED BY <3>2, <4>1, <5>1, <5>2 DEF AnswerSound, InHand
      <4>3. CASE call[d].at \notin {"handed", "await"}
        BY <3>2, <4>1, <4>3 DEF AnswerSound
      <4> QED BY <4>2, <4>3
    <3> QED BY <2>2, <3>1, <3>2
  <2> QED BY <2>4, <2>5 DEF ReplySound
<1>7. CASE (\E p \in Procs : Restart(p)) \/ UNCHANGED vars
  <2>1. call' = call /\ TasksAlike
    BY <1>7 DEF Restart, vars, TasksAlike
  <2> QED BY <1>4, <2>1, RepliesKept
<1> QED BY <1>5, <1>6, <1>7 DEF Faults

LEMMA InitReplies == Init => ReplySound
<1> SUFFICES ASSUME Init PROVE ReplySound
  OBVIOUS
<1>1. /\ \A c \in Calls : call[c].at = "idle"
      /\ \A t \in Tasks : task[t].at = "free" /\ task[t].queue = <<>>
  BY DEF Init, NoOne, NoTask
<1>2. ASSUME NEW c \in Calls, NEW l \in Leads, NEW i \in DOMAIN log[l]
      PROVE  log[l][i] # Answered(c)
  <2>1. PICK old \in Left : log = [m \in Leads |-> IF m = 1 THEN old ELSE <<>>]
    BY DEF Init
  <2>2. i \in DOMAIN old /\ log[l][i] = old[i]
    BY <2>1
  <2>3. \A n \in DOMAIN old : old[n].k # "answered"
    <3>1. CASE old = <<>>
      BY <3>1
    <3>2. CASE old = <<Thread>>
      BY <3>2 DEF Thread
    <3>3. CASE old = <<Thread, RunStarted>>
      BY <3>3 DEF Thread, RunStarted
    <3>4. CASE \E g \in Gates : old = <<Thread, RunStarted, Asked(g)>>
      BY <3>4 DEF Thread, RunStarted, Asked
    <3> QED BY <3>1, <3>2, <3>3, <3>4 DEF Left
  <2> QED BY <2>2, <2>3 DEF Answered
<1> QED BY <1>1, <1>2 DEF ReplySound, QueueSound, AnswerSound, Unwritten

-----------------------------------------------------------------------------
(* What follows *)

LEMMA CallsInvAlways == Spec => []CallsInv
<1>1. Init => BuildSound /\ CountSound /\ ReplySound
  BY InitBuild, InitCount, InitReplies
<1>2. Sound /\ BuildSound /\ CountSound /\ ReplySound /\ [Next]_vars
      => BuildSound' /\ CountSound' /\ ReplySound'
  <2> SUFFICES ASSUME Sound, BuildSound, CountSound, ReplySound, [Next]_vars
               PROVE  BuildSound' /\ CountSound' /\ ReplySound'
    OBVIOUS
  <2>1. ASSUME NEW c \in Calls, CallSteps(c) PROVE BuildSound' /\ CountSound' /\ ReplySound'
    BY <2>1, CallKeepsBuild, CallKeepsCount, CallKeepsReplies, HandOverKeepsReplies
  <2>2. ASSUME NEW t \in Tasks, TaskSteps(t) PROVE BuildSound' /\ CountSound' /\ ReplySound'
    BY <2>2, TaskKeepsBuild, TaskKeepsCount, TaskKeepsReplies
  <2>3. CASE Starts \/ Faults \/ UNCHANGED vars
    BY <2>3, OthersKeepBuild, OthersKeepCount, OthersKeepReplies
  <2> QED BY <2>1, <2>2, <2>3 DEF Next
<1> QED BY <1>1, <1>2, SoundAlways, PTL DEF Spec, CallsInv

(* However many daemons, builds, crashes and restarts: there is at most    *)
(* one unfinished run for the issue (threads.rs build under IssueLock,     *)
(* which looks for a run, makes its own and lets go only when a task has   *)
(* claimed it).                                                            *)
THEOREM OneRunAlways == Spec => []OneRun
<1>1. BuildSound => OneRun
  <2> SUFFICES ASSUME BuildSound PROVE OneRun
    OBVIOUS
  <2> DEFINE Running == {l \in Leads : Unfinished(l)}
  <2>1. CASE Running = {}
    BY <2>1, FS_EmptySet DEF OneRun
  <2>2. CASE Running # {}
    <3>1. PICK l \in Leads : Unfinished(l)
      BY <2>2
    <3>2. Running = {l}
      BY <3>1 DEF BuildSound
    <3>3. Cardinality(Running) = 1
      BY <3>2, FS_Singleton
    <3> QED BY <3>3 DEF OneRun
  <2> QED BY <2>1, <2>2
<1> QED BY <1>1, CallsInvAlways, PTL DEF CallsInv

(* A daemon counts exactly the leads its tasks drive, also when a claim,   *)
(* an end and a scan meet (runs.rs Working::register, Working::release).   *)
THEOREM CountsTrueAlways == Spec => []CountsTrue
<1>1. CountSound => CountsTrue
  BY DEF CountSound, CountsTrue, CountsOnlyHeld
<1> QED BY <1>1, CallsInvAlways, PTL DEF CallsInv

(* An answer reported as taken is in the log once, one that is refused,    *)
(* sent elsewhere or to a task that is gone is in no log (threads.rs       *)
(* answer_checkpoint, which waits for the reply the task of runs.rs sends  *)
(* after its write, or for the end of the task's channel).                 *)
THEOREM RepliesTrueAlways == Spec => []RepliesTrue
<1>1. Sound /\ ReplySound => RepliesTrue
  <2> SUFFICES ASSUME Sound, ReplySound, NEW c \in Calls
               PROVE  /\ call[c].kind = "answer" /\ call[c].at = "ok" =>
                           Cardinality({i \in DOMAIN log[call[c].lead] :
                                            log[call[c].lead][i] = Answered(c)}) = 1
                      /\ call[c].at \in {"refused", "elsewhere", "gone"} =>
                           \A l \in Leads : {i \in DOMAIN log[l] : log[l][i] = Answered(c)} = {}
    BY DEF RepliesTrue
  <2>1. AnswerSound(c)
    BY DEF ReplySound
  <2>2. ASSUME call[c].kind = "answer", call[c].at = "ok"
        PROVE  Cardinality({i \in DOMAIN log[call[c].lead] :
                                log[call[c].lead][i] = Answered(c)}) = 1
    <3>1. WrittenOnce(c)
      BY <2>1, <2>2 DEF AnswerSound
    <3>2. PICK i \in DOMAIN log[call[c].lead] :
            {n \in DOMAIN log[call[c].lead] : log[call[c].lead][n] = Answered(c)} = {i}
      BY <3>1 DEF WrittenOnce
    <3> QED BY <3>2, FS_Singleton
  <2>3. call[c].at \in {"refused", "elsewhere", "gone"} => Unwritten(c)
    BY <2>1 DEF AnswerSound
  <2> QED BY <2>2, <2>3 DEF Unwritten
<1> QED BY <1>1, CallsInvAlways, PTL DEF CallsInv
=============================================================================
