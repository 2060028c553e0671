----------------------------- MODULE Projection -----------------------------
(***************************************************************************)
(* The conversation a provider is sent, as log/src/projection.rs derives   *)
(* it from the events: which events become messages, the hold-back that    *)
(* keeps a reply and its tool results together, and the horizon rule for   *)
(* messages posted while a turn ran.  What an event's text becomes         *)
(* (stubs, truncation, summaries, notes) is left out; a message is the     *)
(* post it carries, the calls it makes, or the call it answers.            *)
(***************************************************************************)
EXTENDS ThreadEvents

Message(role, post, calls, answers) ==
  [role |-> role, post |-> post, calls |-> calls, answers |-> answers]

(* The events that emit a message.                                         *)
Emits == {"user_message", "assistant_message", "tool_result",
          "project_switched", "interrupted", "job_finished"}

MessageOf(e) ==
  CASE e.kind = "user_message" -> Message("user", e.post, {}, 0)
    [] e.kind = "assistant_message" ->
         Message("assistant", 0, {c.id : c \in ToSet(e.calls)}, 0)
    [] e.kind = "tool_result" -> Message("tool", 0, {}, e.call)
    [] OTHER -> Message("user", 0, {}, 0)

(* The horizon rule: a message posted mid-turn that is not steered waits   *)
(* for a turn_ended after it.                                              *)
BeyondHorizon(log, i) ==
  /\ log[i].kind = "user_message"
  /\ log[i].mid_turn /\ ~log[i].steer
  /\ i > LastEnd(log)

(* Mutant: nothing is held back while a call is open.                      *)
PushNoHold(acc, m) ==
  IF m.role = "tool"
  THEN [acc EXCEPT !.body = Append(@, m), !.pending = @ \ {m.answers}]
  ELSE [acc EXCEPT !.body = Append(@, m),
                   !.pending = IF m.role = "assistant" THEN m.calls ELSE @]

(* One message onto the body: a result settles its call and lets go of     *)
(* what was held once every call is settled; a reply ends the group before *)
(* it; anything else waits while a call is open.                           *)
Push(acc, m) ==
  CASE m.role = "tool" ->
         LET pending == acc.pending \ {m.answers} IN
         IF pending = {}
         THEN [body |-> Append(acc.body, m) \o acc.held, pending |-> {}, held |-> <<>>]
         ELSE [acc EXCEPT !.body = Append(@, m), !.pending = pending]
    [] m.role = "assistant" ->
         [body |-> Append(acc.body \o acc.held, m), pending |-> m.calls, held |-> <<>>]
    [] m.role = "user" /\ acc.pending /= {} -> [acc EXCEPT !.held = Append(@, m)]
    [] OTHER -> [acc EXCEPT !.body = Append(@, m)]

(* An event that gives a message, now.                                     *)
Kept(log, i) == log[i].kind \in Emits /\ ~BeyondHorizon(log, i)

(* What the projection has made of each beginning of a log.                *)
Projected(log) ==
  LET done[n \in 0 .. Len(log)] ==
        IF n = 0 THEN [body |-> <<>>, pending |-> {}, held |-> <<>>]
        ELSE IF Kept(log, n) THEN Push(done[n - 1], MessageOf(log[n]))
        ELSE done[n - 1]
  IN  done

(* What the projection makes of a log, oldest first: what is still held    *)
(* comes last.                                                             *)
Project(log) ==
  LET done == Projected(log)[Len(log)] IN done.body \o done.held

(* The posts a request built from the log shows the model.                 *)
Shown(log) == {m.post : m \in ToSet(Project(log))} \ {0}

(* What every provider demands of a request: each reply's calls are        *)
(* answered, once each, by the messages right after it, and no result      *)
(* stands anywhere else.                                                   *)
Acceptable(body) ==
  /\ \A i \in DOMAIN body :
       body[i].role = "assistant" =>
         LET n == Cardinality(body[i].calls) IN
         /\ i + n <= Len(body)
         /\ {body[j].answers : j \in i + 1 .. i + n} \ {0} = body[i].calls
  /\ \A j \in DOMAIN body :
       body[j].role = "tool" =>
         \E i \in 1 .. j - 1 : /\ body[i].role = "assistant"
                               /\ body[j].answers \in body[i].calls
                               /\ j <= i + Cardinality(body[i].calls)
=============================================================================
