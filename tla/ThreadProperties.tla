-------------------------- MODULE ThreadProperties --------------------------
(***************************************************************************)
(* What a thread's actor promises, whatever the order in which messages,   *)
(* answers, interrupts, job returns and crashes arrive.                    *)
(***************************************************************************)
EXTENDS ThreadActor

Asked == {"AwaitingApproval", "AwaitingHuman", "AwaitingSwitch"}
Places ==
  {"loop", "compact", "stream", "length", "calls", "granted", "tool", "ask",
   "refused", "said", "switched", "siblings", "after_calls", "interrupt", "end"}
Booting == {"resume", "clean", "interrupted"}
OutOfTurn ==
  {"idle", "start", "after", "side", "idle_switched", "by_hand", "startup_ask"}

(* The calls and the events of a log.                                      *)
Call == [id : 1 .. MaxCalls, tool : Tools]
Origins == {"ran", "killed", "answer", "refused", "not_run", "unknown"}
Deciders == {"person", "grant", "interrupter"}
Reasons ==
  {"done", "length", "max_iterations", "provider_error", "asked_human",
   "interrupted", "resumed"}

Event ==
  [kind : {"user_message"}, post : Nat, mid_turn : BOOLEAN, steer : BOOLEAN]
  \union [kind : {"assistant_message"}, calls : Seq(Call)]
  \union [kind : {"tool_result"}, call : 1 .. MaxCalls, origin : Origins]
  \union [kind : {"permission_requested"}, call : 1 .. MaxCalls]
  \union [kind : {"permission_decided"}, call : 1 .. MaxCalls,
          allow : BOOLEAN, by : Deciders]
  \union [kind : {"decision_proposed"}, source : {"turn", "startup", "ask"},
          call : 0 .. MaxCalls]
  \union [kind : {"decision_answered"}, proposal : Nat,
          answer : {"yes", "no", "corrected", "withdrawn"}]
  \union [kind : {"project_switched"}, to : {Home, Away}]
  \union [kind : {"provider_retried"}]
  \union [kind : {"job_finished"}, job : 1 .. MaxCalls]
  \union [kind : {"interrupted"}, by : {"person", "crash"}]
  \union [kind : {"turn_ended"}, reason : Reasons]

Shared ==
  [state : {"Idle", "Running"} \union Asked, queued : Nat, steered : Nat,
   held : BOOLEAN, waiting : BOOLEAN]

(* The shapes of the state: what each variable holds.  (What a model call  *)
(* was shown is the matter of Delivery.)                                   *)
TypeOK ==
  /\ pc \in Places \union OutOfTurn \union Booting
  /\ log \in Seq(Event)
  /\ inbox \in Seq(1 .. posts) /\ held \in Seq(1 .. posts) /\ cancel \in BOOLEAN
  /\ batch \in Seq(Call) /\ asked \in BOOLEAN
  /\ spent \in 0 .. MaxIterations /\ reason \in Reasons /\ retried \in BOOLEAN
  /\ waiting \in 0 .. MaxCalls /\ grant \in BOOLEAN
  /\ answer \in {Nothing, "allow", "session", "deny", "text", "yes", "no"}
  /\ project \in {Home, Away} /\ jobs \subseteq 1 .. MaxCalls
  /\ shared \in Shared /\ shared.steered <= shared.queued
  /\ idleSwitch \in 0 .. Len(log) /\ notes \in Seq(1 .. MaxCalls)
  /\ posts \in 0 .. MaxPosts /\ starting \in 0 .. posts

-----------------------------------------------------------------------------
(* The log and the model.                                                  *)

(* Whatever was posted, killed, refused or repaired before it, the         *)
(* conversation a model call sends is one the providers accept: every      *)
(* reply's calls are answered right behind it and nothing else is a tool   *)
(* message.                                                                *)
RequestsAcceptable == pc = "stream" => Acceptable(Project(log))

(* No call is ever answered twice, and when a turn ends or a resume is     *)
(* over every call made so far is answered.                                *)
CallsSettled ==
  /\ \A c \in CallsOf(log) : Cardinality(ResultsOf(log, c.id)) <= 1
  /\ (pc \in {"after", "clean", "interrupted"}) =>
       \A c \in CallsOf(log) : ResultsOf(log, c.id) /= {}

(* Between acceptance and the model a message goes through the log, once,  *)
(* and only a process that dies drops it (Delivery).                       *)
Delivered == INSTANCE Delivery WITH
  Messages <- 1 .. MaxPosts, memory <- InMemory, logged <- PostsOf(log),
  seen <- read, dropped <- lost

ImplementsDelivery == Delivered!Spec

(* A message the daemon said Ok to is in the log, on its way there, or was *)
(* in the memory of a process that died; nothing else drops it.            *)
NothingLost == 1 .. posts \subseteq PostsOf(log) \union InMemory \union lost

(* A message is never in two places: not twice in the log, not in the log  *)
(* and still held or in the inbox.                                         *)
NoPostTwice ==
  \A p \in 1 .. posts :
     Cardinality({i \in Events(log, "user_message") : log[i].post = p})
       + Cardinality({i \in DOMAIN inbox : inbox[i] = p})
       + Cardinality({i \in DOMAIN held : held[i] = p})
       + (IF starting = p THEN 1 ELSE 0) <= 1

(* A message posted while a turn ran is, once the thread is idle again,    *)
(* read by a model call that came to its end, or a second turn had the     *)
(* chance and failed.                                                      *)
MidTurnAnswered ==
  pc = "idle" =>
    \A i \in Events(log, "user_message") :
       \/ ~log[i].mid_turn
       \/ log[i].post \in read
       \/ Cardinality({j \in Events(log, "turn_ended") : j > i}) >= 2

(* While a turn runs, the queue the clients see counts the messages of     *)
(* this turn that no finished model call was shown, and the steered ones   *)
(* among them are those the log marks so.                                  *)
QueueCounts ==
  pc \in Places =>
    LET unread == {i \in Events(log, "user_message") :
                     i > LastEnd(log) /\ log[i].mid_turn /\ log[i].post \notin read}
    IN  /\ shared.queued = Cardinality(unread)
        /\ shared.steered = Cardinality({i \in unread : log[i].steer})

-----------------------------------------------------------------------------
(* People's answers.                                                       *)

(* A gated tool runs only for a call that was asked about and allowed, and *)
(* a call that was refused never runs.                                     *)
DecidedFor(id) ==
  {i \in Events(log, "permission_decided") : log[i].call = id}

GatedRunsAllowed ==
  \A c \in CallsOf(log) :
    c.tool = "gated" =>
      /\ Cardinality(DecidedFor(c.id)) <= 1
      /\ \A r \in ResultsOf(log, c.id) :
           log[r].origin \in {"ran", "killed"} =>
             \E d \in DecidedFor(c.id) : d < r /\ log[d].allow
      /\ (pc = "tool" /\ batch /= <<>> /\ Head(batch).id = c.id) =>
           \E d \in DecidedFor(c.id) : log[d].allow

(* A session grant is used only after a person gave it, and never across   *)
(* a move to another project.                                              *)
GrantStaysInProject ==
  \A j \in Events(log, "permission_decided") :
    log[j].by = "grant" =>
      \E k \in Events(log, "permission_decided") :
         /\ k < j /\ log[k].by = "person" /\ log[k].allow
         /\ \A s \in Events(log, "project_switched") : s < k \/ s > j

(* Every proposal is answered at most once, and the only one that can      *)
(* still be open while no turn runs is the start-up proposal that waits.   *)
ProposalsSettled ==
  /\ \A i \in Events(log, "decision_proposed") : Cardinality(AnswersTo(log, i)) <= 1
  /\ (pc \in {"idle", "after", "clean", "interrupted"}) =>
       \A i \in Events(log, "decision_proposed") :
          AnswersTo(log, i) /= {} \/ i = idleSwitch

(* A withdrawn proposal moved nothing: no switch stands between it and its *)
(* answer.                                                                 *)
WithdrawnNeverMoved ==
  \A j \in Events(log, "decision_answered") :
    log[j].answer = "withdrawn" =>
      \A s \in Events(log, "project_switched") : s < log[j].proposal \/ s > j

(* The project the runtime works in is the one the log names, so a restart *)
(* comes back to the same one.                                             *)
ProjectAsLogged ==
  pc \notin {"switched", "idle_switched"} => project = LoggedProject(log, Home)

(* An answer that was accepted is the one recorded.                        *)
AcceptedAnswerStands ==
  \A id \in taken :
    /\ \A d \in DecidedFor(id) : log[d].by /= "interrupter"
    /\ \A j \in Events(log, "decision_answered") :
         log[j].answer = "withdrawn" => log[log[j].proposal].call /= id

-----------------------------------------------------------------------------
(* What the actor shows and holds.                                         *)

(* The machine is kept awake for a working turn and for nothing else: not  *)
(* while a person is asked, whatever is posted meanwhile, and not while    *)
(* the thread is idle.  (A switch that was agreed to ends the wait only    *)
(* when its yes is recorded.)                                              *)
WorkingPlaces == Places \ {"ask", "switched"}

AwakeWhileWorking ==
  /\ pc \in WorkingPlaces => shared.held
  /\ pc \in {"ask", "idle"} => ~shared.held

(* The state shown while a turn runs is that of the turn: a question       *)
(* exactly while it is open.                                               *)
WaitShown ==
  /\ pc \in WorkingPlaces => shared.state = "Running"
  /\ pc = "ask" => shared.state \in Asked
  /\ pc \in Places =>
       (waiting /= 0 => pc = "ask" /\ batch /= <<>> /\ waiting = Head(batch).id)

(* A thread with no turn is not shown running, nor a question nobody can   *)
(* answer.                                                                 *)
NothingRunsIdle ==
  pc = "idle" => shared.state /= "Running"
                 /\ (shared.state \in Asked => idleSwitch /= 0)

-----------------------------------------------------------------------------
(* Jobs and crashes.                                                       *)

(* A job's return is noted once, however often it is delivered, and never  *)
(* inside a turn.                                                          *)
JobsNoted ==
  \A i \in Events(log, "job_finished") :
    /\ \A j \in Events(log, "job_finished") : log[i].job = log[j].job => i = j
    /\ ~TurnIsOpen(SubSeq(log, 1, i - 1))

(* A crash during the repair of a crash leaves one note, not two.          *)
CrashNotedOnce ==
  \A i \in 2 .. Len(log) :
    log[i] = Interrupted("crash") => log[i - 1].kind /= "interrupted"

(* An answered question is always followed by the turn that uses the       *)
(* answer.                                                                 *)
AnswerContinues ==
  pc = "idle" =>
    \A i \in Events(log, "turn_ended") :
      log[i].reason = "asked_human" =>
        \E j \in DOMAIN log : j > i /\ (IsTurnEvent(log[j]) \/ log[j].kind = "turn_ended")

(* An interrupted turn goes no further than its end.                       *)
InterruptStands ==
  \A i \in 1 .. Len(log) - 1 :
    log[i] = Interrupted("person") => log[i + 1].kind = "turn_ended"

-----------------------------------------------------------------------------
(* The same promises, taken together.                                      *)

(* Whatever an interrupt, a refusal or a crash cut off, every call and     *)
(* every proposal gets its one answer before the next turn begins.         *)
AllSettled == CallsSettled /\ ProposalsSettled

(* No message is lost in a hand-over nor stands in two places, and the     *)
(* queue shown counts those no model call has read.                        *)
QueueExact == NoPostTwice /\ QueueCounts

(* A person's yes is needed for what is gated, and holds where it was      *)
(* given.                                                                  *)
AllowedRuns == GatedRunsAllowed /\ GrantStaysInProject

(* What the clients see and the machine's hold follow the question that is *)
(* open, and nothing else.                                                 *)
ShownTrue == AwakeWhileWorking /\ WaitShown

(* The runtime works where the log says, and a switch that was withdrawn   *)
(* was never made.                                                         *)
SwitchAsLogged == ProjectAsLogged /\ WithdrawnNeverMoved

(* A thread that rests leaves nothing hanging: no answer without its turn, *)
(* no turn and no question shown that is not there.                        *)
AtRest == AnswerContinues /\ NothingRunsIdle

-----------------------------------------------------------------------------
(* Progress.                                                               *)

(* A turn ends, or waits for a person.                                     *)
TurnsEnd == (pc /= "idle") ~> (pc \in {"idle", "ask"})

(* An interrupt ends the turn it met, even one that waits for a person.    *)
InterruptsEnd == (cancel /\ pc \in Places) ~> (pc = "after" \/ pc \in Booting)

(* A posted message reaches the log, unless the process that held it died  *)
(* or a person is asked first.                                             *)
PostsReachLog ==
  \A p \in 1 .. MaxPosts :
    (p \in InMemory) ~> (p \in PostsOf(log) \union lost \/ pc = "ask")

(* Nothing goes on for ever: not a turn, not one that was interrupted, not *)
(* a message on its way.                                                   *)
TurnsSettle == TurnsEnd /\ InterruptsEnd /\ PostsReachLog
=============================================================================
