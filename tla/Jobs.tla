-------------------------------- MODULE Jobs --------------------------------
(***************************************************************************)
(* Background jobs (server/src/jobs.rs): a person says yes to a job on the *)
(* front thread, a driver makes the job's own thread, posts the brief,     *)
(* waits until the thread is idle and posts one return on the front; at    *)
(* start-up a scan posts the returns a dead daemon owes.  One daemon and   *)
(* one front thread.  A job's thread is its log, as far as jobs.rs reads   *)
(* it, and whether a turn of it runs.                                      *)
(***************************************************************************)
EXTENDS Naturals, Sequences, FiniteSets

CONSTANTS
    JobIds,         \* the jobs there may be
    NoJob,          \* not a job
    MaxMessages,    \* messages in a job's thread, its brief and visitors', at most
    MaxReplies,     \* replies of the model in a job's log, at most
    MaxCrashes,     \* times the daemon dies
    MaxFaults       \* writes to the front's log that fail

ASSUME JobsAssumption == NoJob \notin JobIds
ASSUME BoundsAssumption ==
    /\ MaxMessages \in Nat /\ MaxReplies \in Nat
    /\ MaxCrashes \in Nat /\ MaxFaults \in Nat

VARIABLES
    up,         \* whether the daemon runs
    front,      \* the front's log: yeses and returns
    front_at,   \* what the front's actor does: idle, a turn, writing notes
    notes,      \* the returns that wait for that turn's end
    driver,     \* where each job's driver is
    number,     \* the number a job goes by, 0 before it has one
    child,      \* each job's log
    runs,       \* the jobs a turn runs in
    actor,      \* how a job's thread is open: not, as approved, narrowly
    cancel,     \* the jobs whose turn is asked to stop
    scan,       \* the start-up scan
    crashes, faults,
    broken      \* bookkeeping: the jobs a turn of which broke

frontVars == <<front, front_at, notes>>
childVars == <<child, runs, actor, cancel>>
bookVars == <<crashes, faults, broken>>
vars == <<up, frontVars, driver, number, childVars, scan, bookVars>>

Yes(j) == [k |-> "yes", job |-> j]
Return(j, o) == [k |-> "return", job |-> j, outcome |-> o]
Returned(j) == \E i \in DOMAIN front : front[i].k = "return" /\ front[i].job = j
Approvals == {i \in DOMAIN front : front[i].k = "yes"}

(* How a turn may end in a job's log: well, fallen over, interrupted. *)
TurnEnd == {"done", "failed", "interrupted"}
OpenTurn(j) ==
    \E i \in DOMAIN child[j] :
        child[j][i] = "message" /\ \A n \in i..Len(child[j]) : child[j][n] \notin TurnEnd

(* jobs::ended *)
Ended(j) == (\E i \in DOMAIN child[j] : child[j][i] = "message") /\ ~OpenTurn(j)

LastEnd(j) ==
    LET at == {i \in DOMAIN child[j] : child[j][i] \in TurnEnd}
    IN  IF at = {} THEN "none"
        ELSE child[j][CHOOSE i \in at : \A n \in at : n <= i]

(* A reply of the model is a final answer, words and no call, or any other.*)
Reply == {"answer", "call"}

(* The last reply of all there are, in whatever turn, is a final answer.   *)
Answered(j) ==
    \E i \in DOMAIN child[j] :
        child[j][i] = "answer" /\ \A n \in i..Len(child[j]) : child[j][n] # "call"

(* Mutant: how the last turn fell over is not looked at. *)
JobReturnHopeful(j, late) ==
    IF late \/ LastEnd(j) = "interrupted" THEN "stopped" ELSE "finished"

(* job_return.  A turn that fell over after the answer is forgiven, and a  *)
(* log without an end reads as finished.                                   *)
JobReturn(j, late) ==
    CASE late \/ LastEnd(j) = "interrupted" -> "stopped"
      [] ~late /\ LastEnd(j) = "failed" /\ ~Answered(j) -> "failed"
      [] OTHER -> "finished"

-----------------------------------------------------------------------------
(* The front's actor *)

At(j, place) == up /\ driver[j].at = place
Goes(j, place) == driver' = [driver EXCEPT ![j].at = place]

FrontBegins ==
    /\ up /\ front_at = "idle" /\ front_at' = "turn"
    /\ UNCHANGED <<up, front, notes, driver, number, childVars, scan, bookVars>>

FrontEnds ==
    /\ up /\ front_at = "turn" /\ front_at' = "noting"
    /\ UNCHANGED <<up, front, notes, driver, number, childVars, scan, bookVars>>

(* A yes is in the log before its driver is spawned. *)
Approve(j) ==
    /\ up /\ front_at = "turn" /\ \A i \in DOMAIN front : front[i] # Yes(j)
    /\ front' = Append(front, Yes(j))
    /\ Goes(j, "starting")
    /\ UNCHANGED <<up, front_at, notes, number, childVars, scan, bookVars>>

Scan(place) == [at |-> place, left |-> {}, job |-> NoJob, said |-> "none"]

(* The sender hears how its return went.  A driver whose return was not    *)
(* written reports a failure, once.                                        *)
Hears(n, place) ==
    IF n.by = "scan"
    THEN /\ scan' = IF place = "waiting" THEN [scan EXCEPT !.at = place]
                    ELSE [Scan("looking") EXCEPT !.left = scan.left]
         /\ UNCHANGED driver
    ELSE Goes(n.job, place) /\ UNCHANGED scan

(* Mutant: a return the front already holds is written again. *)
WriteNoteAgain(n) ==
    /\ Hears(n, "over")
    /\ front' = Append(front, Return(n.job, n.outcome)) /\ UNCHANGED faults

WriteNote(n) ==
    \/ /\ Returned(n.job) /\ Hears(n, "over") /\ UNCHANGED <<front, faults>>
    \/ /\ ~Returned(n.job) /\ Hears(n, "over")
       /\ front' = Append(front, Return(n.job, n.outcome)) /\ UNCHANGED faults
    \/ /\ ~Returned(n.job) /\ faults < MaxFaults /\ faults' = faults + 1
       /\ Hears(n, IF n.by = "driver" THEN "failing" ELSE "unposted") /\ UNCHANGED front

(* Mail::JobFinished: written at once, or after the turn that runs. *)
Send(n) ==
    \/ /\ front_at = "idle" /\ WriteNote(n) /\ UNCHANGED notes
    \/ /\ front_at = "turn" /\ notes' = Append(notes, n)
       /\ Hears(n, "waiting") /\ UNCHANGED <<front, faults>>

WriteQueuedNote ==
    /\ up /\ front_at = "noting" /\ notes # <<>>
    /\ WriteNote(Head(notes)) /\ notes' = Tail(notes)
    /\ UNCHANGED <<up, front_at, number, childVars, crashes, broken>>

NotesWritten ==
    /\ up /\ front_at = "noting" /\ notes = <<>> /\ front_at' = "idle"
    /\ UNCHANGED <<up, front, notes, driver, number, childVars, scan, bookVars>>

-----------------------------------------------------------------------------
(* The driver: run, run_job, drive *)

CreateJob(j) ==
    /\ At(j, "starting")
    /\ child' = [child EXCEPT ![j] = <<"thread">>] /\ Goes(j, "made")
    /\ UNCHANGED <<up, frontVars, number, runs, actor, cancel, scan, bookVars>>

(* job_number counts the yeses there are by now. *)
Number(j) ==
    /\ At(j, "made")
    /\ number' = [number EXCEPT ![j] = Cardinality(Approvals)] /\ Goes(j, "opening")
    /\ UNCHANGED <<up, frontVars, childVars, scan, bookVars>>

(* open_job: an actor that is there already is used as it is. *)
OpenJob(j) ==
    /\ At(j, "opening")
    /\ actor' = [actor EXCEPT ![j] = IF @ = "none" THEN "approved" ELSE @]
    /\ Goes(j, "briefing")
    /\ UNCHANGED <<up, frontVars, number, child, runs, cancel, scan, bookVars>>

(* The thread cannot be built, or takes no brief. *)
CannotRun(j) ==
    /\ At(j, "opening") \/ At(j, "briefing")
    /\ Goes(j, "failing")
    /\ UNCHANGED <<up, frontVars, number, childVars, scan, bookVars>>

Message(j) ==
    /\ child' = [child EXCEPT ![j] = Append(@, "message")]
    /\ runs' = runs \union {j}

PostBrief(j) ==
    /\ At(j, "briefing") /\ Message(j) /\ Goes(j, "driving")
    /\ UNCHANGED <<up, frontVars, number, actor, cancel, scan, bookVars>>

SeesIdle(j) ==
    /\ At(j, "driving") /\ j \notin runs /\ Goes(j, "ended")
    /\ UNCHANGED <<up, frontVars, number, childVars, scan, bookVars>>

(* The deadline has passed and the last status was not idle. *)
SeesLate(j) ==
    /\ At(j, "driving") /\ j \in runs /\ Goes(j, "late")
    /\ UNCHANGED <<up, frontVars, number, childVars, scan, bookVars>>

(* Mutant: an interrupt that finds no turn stays for the next one. *)
StopLateAnyway(j) ==
    /\ At(j, "late")
    /\ cancel' = cancel \union {j} /\ Goes(j, "stopped")
    /\ UNCHANGED <<up, frontVars, number, child, runs, actor, scan, bookVars>>

(* The interrupt finds a turn or none; the job has one tick to stop. *)
StopLate(j) ==
    /\ At(j, "late")
    /\ cancel' = cancel \union ({j} \intersect runs) /\ Goes(j, "stopped")
    /\ UNCHANGED <<up, frontVars, number, child, runs, actor, scan, bookVars>>

ReadReturn(j) ==
    /\ At(j, "ended") \/ At(j, "stopped")
    /\ driver' = [driver EXCEPT ![j].at = "posting",
                    ![j].said = JobReturn(j, driver[j].at = "stopped")]
    /\ UNCHANGED <<up, frontVars, number, childVars, scan, bookVars>>

PostReturn(j) ==
    /\ At(j, "posting") /\ Send([job |-> j, outcome |-> driver[j].said, by |-> "driver"])
    /\ UNCHANGED <<up, front_at, number, childVars, crashes, broken>>

ReportFailure(j) ==
    /\ At(j, "failing") /\ Send([job |-> j, outcome |-> "not run", by |-> "report"])
    /\ UNCHANGED <<up, front_at, number, childVars, crashes, broken>>

-----------------------------------------------------------------------------
(* The job's thread *)

(* The model replies: the log here keeps the replies that change what the  *)
(* last one is, all that job_return asks of them.                          *)
Replies(j) ==
    /\ up /\ j \in runs
    /\ Len(SelectSeq(child[j], LAMBDA e : e \in Reply)) < MaxReplies
    /\ child' = [child EXCEPT ![j] = Append(@, IF Answered(j) THEN "call" ELSE "answer")]
    /\ UNCHANGED <<up, frontVars, driver, number, runs, actor, cancel, scan, bookVars>>

Ends(j, how) ==
    /\ child' = [child EXCEPT ![j] = Append(@, how)]
    /\ runs' = runs \ {j} /\ cancel' = cancel \ {j}
    /\ UNCHANGED <<up, frontVars, driver, number, actor, scan, bookVars>>

TurnEnds(j) ==
    /\ up /\ j \in runs
    /\ Ends(j, "done") \/ Ends(j, "failed") \/ (j \in cancel /\ Ends(j, "interrupted"))

(* run_turn comes back with an error and the turn stays open in the log. *)
TurnBreaks(j) ==
    /\ up /\ j \in runs \ broken /\ broken' = broken \union {j}
    /\ runs' = runs \ {j} /\ cancel' = cancel \ {j}
    /\ UNCHANGED <<up, frontVars, driver, number, child, actor, scan, crashes, faults>>

(* A person opens a job's thread: read-only and manual if nobody has it    *)
(* open, and a turn that was cut goes on.                                  *)
Visit(j) ==
    /\ up /\ child[j] # <<>> /\ actor[j] = "none"
    /\ actor' = [actor EXCEPT ![j] = "narrow"]
    /\ runs' = IF OpenTurn(j) THEN runs \union {j} ELSE runs
    /\ UNCHANGED <<up, frontVars, driver, number, child, cancel, scan, bookVars>>

(* ... and writes in it. *)
VisitorPosts(j) ==
    /\ up /\ actor[j] # "none" /\ Message(j)
    /\ LET brief == IF driver[j].at \in {"made", "opening", "briefing"} THEN 1 ELSE 0
       IN  Len(SelectSeq(child[j], LAMBDA e : e = "message")) + brief < MaxMessages
    /\ UNCHANGED <<up, frontVars, driver, number, actor, cancel, scan, bookVars>>

(* An idle thread that no session and no driver has open is unloaded. *)
Unload(j) ==
    /\ up /\ actor[j] # "none" /\ j \notin runs
    /\ driver[j].at \notin {"briefing", "driving", "late", "stopped"}
    /\ actor' = [actor EXCEPT ![j] = "none"]
    /\ UNCHANGED <<up, frontVars, driver, number, child, runs, cancel, scan, bookVars>>

-----------------------------------------------------------------------------
(* post_unreturned looks at the job threads one by one. *)

ScanBegins ==
    /\ up /\ scan.at = "due"
    /\ scan' = [at |-> "looking", left |-> {j \in JobIds : child[j] # <<>>},
                job |-> NoJob, said |-> "none"]
    /\ UNCHANGED <<up, frontVars, driver, number, childVars, bookVars>>

(* Mutant: a job whose turn is open is returned too. *)
OwedAnyway(j) == ~Returned(j)

Owed(j) == Ended(j) /\ ~Returned(j)

ScanLooks(j) ==
    /\ up /\ scan.at = "looking" /\ j \in scan.left
    /\ scan' = IF Owed(j)
               THEN [at |-> "posting", left |-> scan.left \ {j}, job |-> j,
                     said |-> JobReturn(j, FALSE)]
               ELSE [scan EXCEPT !.left = @ \ {j}]
    /\ UNCHANGED <<up, frontVars, driver, number, childVars, bookVars>>

ScanPosts ==
    /\ up /\ scan.at = "posting"
    /\ Send([job |-> scan.job, outcome |-> scan.said, by |-> "scan"])
    /\ UNCHANGED <<up, front_at, number, childVars, crashes, broken>>

-----------------------------------------------------------------------------
NoDriver == [at |-> "none", said |-> "none"]

(* Mutant: nobody looks for returns at a later start-up. *)
RestartWithoutScan ==
    /\ ~up /\ up' = TRUE
    /\ UNCHANGED <<frontVars, driver, number, childVars, scan, bookVars>>

Restart ==
    /\ ~up /\ up' = TRUE /\ scan' = Scan("due")
    /\ UNCHANGED <<frontVars, driver, number, childVars, bookVars>>

(* The logs are what a dead daemon leaves. *)
Crash ==
    /\ up /\ crashes < MaxCrashes /\ crashes' = crashes + 1
    /\ up' = FALSE /\ front_at' = "idle" /\ notes' = <<>>
    /\ driver' = [j \in JobIds |-> NoDriver] /\ number' = [j \in JobIds |-> 0]
    /\ actor' = [j \in JobIds |-> "none"] /\ runs' = {} /\ cancel' = {}
    /\ scan' = Scan("none")
    /\ UNCHANGED <<front, child, faults, broken>>

Init ==
    /\ up = TRUE /\ front = <<>> /\ front_at = "idle" /\ notes = <<>>
    /\ driver = [j \in JobIds |-> NoDriver] /\ number = [j \in JobIds |-> 0]
    /\ child = [j \in JobIds |-> <<>>] /\ runs = {} /\ cancel = {}
    /\ actor = [j \in JobIds |-> "none"]
    /\ scan = Scan("due") /\ crashes = 0 /\ faults = 0 /\ broken = {}

DriverSteps(j) ==
    \/ CreateJob(j) \/ Number(j) \/ OpenJob(j) \/ PostBrief(j)
    \/ SeesIdle(j) \/ SeesLate(j) \/ StopLate(j)
    \/ ReadReturn(j) \/ PostReturn(j) \/ ReportFailure(j)
Turns(j) == Replies(j) \/ TurnEnds(j) \/ TurnBreaks(j)
Visits(j) == Visit(j) \/ VisitorPosts(j) \/ Unload(j)
ScanSteps == ScanBegins \/ ScanPosts \/ \E j \in JobIds : ScanLooks(j)
NoteSteps == WriteQueuedNote \/ NotesWritten

Next ==
    \/ FrontBegins \/ FrontEnds \/ NoteSteps \/ ScanSteps \/ Crash \/ Restart
    \/ \E j \in JobIds :
         Approve(j) \/ DriverSteps(j) \/ CannotRun(j) \/ Turns(j) \/ Visits(j)

(* Tasks that can go on do, and a daemon that died is started again.       *)
(* Posting to a front that is at its notes again and again takes turns, so *)
(* a send is fair strongly.  A turn, of the front or of a job, may wait    *)
(* for a person or a model for ever: no step of one is fair.               *)
Fairness ==
    /\ WF_vars(NoteSteps) /\ WF_vars(Restart) /\ SF_vars(ScanSteps)
    /\ \A j \in JobIds : SF_vars(DriverSteps(j))

Spec == Init /\ [][Next]_vars
FairSpec == Spec /\ Fairness

-----------------------------------------------------------------------------
Outcomes == {"finished", "failed", "stopped", "not run"}
Senders == {"driver", "report", "scan"}

TypeOK ==
    /\ up \in BOOLEAN /\ front_at \in {"idle", "turn", "noting"}
    /\ front \in Seq([k : {"yes"}, job : JobIds]
                     \union [k : {"return"}, job : JobIds, outcome : Outcomes])
    /\ notes \in Seq([job : JobIds, outcome : Outcomes, by : Senders])
    /\ driver \in [JobIds -> [at : {"none", "starting", "made", "opening", "briefing",
                                    "driving", "late", "stopped", "ended", "posting",
                                    "failing", "waiting", "over", "unposted"},
                              said : Outcomes \union {"none"}]]
    /\ number \in [JobIds -> Nat]
    /\ child \in [JobIds -> Seq({"thread", "message"} \union Reply \union TurnEnd)]
    /\ runs \subseteq JobIds /\ cancel \subseteq runs
    /\ actor \in [JobIds -> {"none", "approved", "narrow"}]
    /\ \A j \in runs : actor[j] # "none" /\ OpenTurn(j)
    /\ scan \in [at : {"none", "due", "looking", "posting", "waiting"},
                 left : SUBSET JobIds, job : JobIds \union {NoJob},
                 said : Outcomes \union {"none"}]
    /\ crashes \in 0..MaxCrashes /\ faults \in 0..MaxFaults /\ broken \subseteq JobIds

(* However a driver, its failure report and the start-up scan meet, the    *)
(* front holds a job's return once.                                        *)
ReturnedOnce ==
    \A i, n \in DOMAIN front :
        front[i].k = "return" /\ front[n].k = "return" /\ front[i].job = front[n].job
        => i = n

Logged(j) == {child[j][n] : n \in DOMAIN child[j]}
EndedWell(j) == "done" \in Logged(j) \/ "answer" \in Logged(j)

(* A return that says a job fell over has such an end of one of its turns  *)
(* to show for it, and one that says it finished has an end that went well *)
(* or a final answer; a turn that broke is the one exception.              *)
ReturnAsLogged ==
    \A i \in DOMAIN front :
        LET j == front[i].job
        IN  front[i].k = "return" =>
              /\ front[i].outcome = "failed" => "failed" \in Logged(j)
              /\ front[i].outcome = "finished" => EndedWell(j) \/ j \in broken

(* What a return says can be trusted.                                     *)
ReturnsSound == TypeOK /\ ReturnAsLogged

(* The return says whether the job fell over: one that says finished is of *)
(* a job that ended well, or answered before it fell over.                 *)
FinishedEnded ==
    \A i \in DOMAIN front :
        front[i].k = "return" /\ front[i].outcome = "finished"
        => EndedWell(front[i].job)

(* Whoever the front's turns wait for, none of them goes on for ever.      *)
FrontTurnsEnd == []<>(front_at # "turn")

(* As long as the front's turns end, a driver that has begun with its job  *)
(* gets a return onto the front, over crashes and a failed write, whether  *)
(* the job's own turn ends or not; unless a crash cuts that turn or the    *)
(* second try, the failure report's or the scan's, cannot be written too.  *)
ReturnComes ==
    FrontTurnsEnd =>
      \A j \in JobIds :
        driver[j].at \notin {"none", "starting"}
        ~> \/ Returned(j)
           \/ driver[j].at \in {"none", "unposted"} /\ (~Ended(j) \/ faults > 0)

(* job_number: a number is never handed out twice. *)
NumbersDistinct ==
    \A i, j \in JobIds : number[i] # 0 /\ number[i] = number[j] => i = j

(* open_job: the job's thread runs under its approval. *)
RunsAsApproved ==
    \A j \in JobIds : driver[j].at = "driving" => actor[j] = "approved"
=============================================================================
