----------------------------- MODULE Compaction -----------------------------
(* What a thread's model is shown of its log, and the four rules that shorten *)
(* it: the batch of closed turns with its link, the sweep of the open turn,   *)
(* the truncation and the nested summary.  Translated from project in         *)
(* log/src/projection.rs, runtime/src/evict.rs, runtime/src/compaction.rs and *)
(* the seam at the top of continue_turn_until in runtime/src/turn.rs.         *)
(*                                                                            *)
(* An event's seq is its place in the log; seq 0 is thread_started, which     *)
(* shows nothing.  A text is its size, and a summary's text is the set of     *)
(* events whose words went into it.  A reply makes at most one call, and the  *)
(* call's tool says how long its arguments and its result are.  Messages that *)
(* wait for a turn's end or for a call's result are in module Projection;     *)
(* pins, provider blobs and skills are left out.                              *)
EXTENDS Integers, Sequences, FiniteSets, FiniteSetsExt

CONSTANTS
  Tools,         \* the tools a reply may call
  ArgsOf,        \* how long the arguments of a tool's calls are
  ResultOf,      \* how long its successful results are
  Posts,         \* how long a person's message may be
  None,          \* no call; no measure
  Ratios,        \* reported tokens for 100 estimated ones, as models count
  Overhead,      \* what the prefix and the tools' schemas cost
  Cap,           \* summary_max_output_tokens, and the longest summary
  MaxResult,     \* max_result_bytes
  Emergency,     \* emergency_line
  Fraction,      \* the fraction of the window in window_line
  Block,         \* EVICT_BLOCK_CALLS
  Settings,      \* the [compaction] tables a start may read
  MaxWork,       \* bound: people's messages and calls together
  MaxOddities    \* bound: crashes and /compact together

LinkMinCaps == 3     \* LINK_MIN_CAPS
RemindAfter == 2     \* calls before a checklist can be stale; see the README

ASSUME SizesAssumption ==
  /\ None \notin Tools \cup (Nat \X Nat)
  /\ \A t \in Tools : ArgsOf[t] \in Nat \ {0} /\ ResultOf[t] \in Nat \ {0}
  /\ Posts \subseteq Nat \ {0} /\ Ratios \subseteq Nat \ {0} /\ 100 \in Ratios
  /\ {Overhead, Cap, Emergency, Fraction} \subseteq Nat
  /\ {MaxResult, Block} \subseteq Nat \ {0}   \* a cut leaves a marker line
  /\ Settings \subseteq [keep : Nat, lastCalls : Nat, target : Nat, above : Nat, percent : Nat]
ASSUME BoundsAssumption == MaxWork \in Nat /\ MaxOddities \in Nat

VARIABLES
  log,       \* the events
  pc,        \* where the turn stands
  settings,  \* CompactionSettings, read at a start
  ratio,     \* what the last calls taught about the tokenizer
  measured,  \* the last call's prompt and how many messages it had, or None
  range,     \* the range a summary is being written of
  oddities   \* crashes and /compact so far

vars == <<log, pc, settings, ratio, measured, range, oddities>>

-----------------------------------------------------------------------------
(* Events *)

User(size) == [kind |-> "user", size |-> size]
Reply(tool) == [kind |-> "reply", tool |-> tool]
Result(tool, error) == [kind |-> "result", tool |-> tool, error |-> error]
Ended == [kind |-> "ended"]
Summary(from, to, text, size) ==
  [kind |-> "summary", from |-> from, to |-> to, text |-> text, size |-> size]
Truncated(from, to) == [kind |-> "truncated", from |-> from, to |-> to]
Evicted(through) == [kind |-> "evicted", through |-> through]
Stubbed(through) == [kind |-> "stubbed", through |-> through]
Saturated == [kind |-> "saturated"]

Messages == {"user", "reply", "result"}
Marks == {"summary", "truncated", "evicted", "stubbed"}

(* The log as one reader has it: the events it is given, and the marks that   *)
(* are projected behind them and never appended.                              *)
Reading(seen, probes) == [seen |-> seen, probes |-> probes]
Now == Reading(DOMAIN log, {})
Probe(mark) == Reading(DOMAIN log, {mark})

Of(r, kind) == {i \in r.seen : log[i].kind = kind}
LastOf(S) == IF S = {} THEN 0 ELSE Max(S)
LastEnd(r) == LastOf(Of(r, "ended"))
TurnOf(r, i) == LastOf({e \in Of(r, "ended") : e < i})

(* A mark of the kind that reaches the event, in the log or projected.        *)
Reaches(r, kind, i) ==
  \/ \E m \in Of(r, kind) :
       /\ kind = "evicted" => TurnOf(r, m) = TurnOf(r, i)
       /\ kind = "truncated" => log[m].from <= i
       /\ i <= (IF kind = "truncated" THEN log[m].to ELSE log[m].through)
  \/ \E m \in r.probes :
       /\ m.kind = kind
       /\ kind = "evicted" => LastEnd(r) = TurnOf(r, i)
       /\ kind = "truncated" => m.from <= i
       /\ i <= (IF kind = "truncated" THEN m.to ELSE m.through)

(* The newest result of its tool in its turn.                                 *)
LastOfTool(r, i) ==
  ~\E j \in Of(r, "result") :
     j > i /\ log[j].tool = log[i].tool /\ TurnOf(r, j) = TurnOf(r, i)

Swept(r, i) == ~LastOfTool(r, i) /\ Reaches(r, "evicted", i)
Batched(r, i) == i < LastEnd(r) /\ Reaches(r, "stubbed", i)
IsStub(r, i) == ~log[i].error /\ (Batched(r, i) \/ Swept(r, i))

(* Mutant of Covering: the first summary wins.                                *)
CoveringFirst(r, i) ==
  LET S == {s \in Of(r, "summary") : log[s].from <= i /\ i <= log[s].to}
  IN IF S = {} THEN 0 ELSE Min(S)

(* The latest summary that covers an event wins.                              *)
Covering(r, i) ==
  LastOf({s \in Of(r, "summary") : log[s].from <= i /\ i <= log[s].to})

(* A call is answered by the next result.                                     *)
AnswerTo(r, i) == {j \in Of(r, "result") : j > i /\ ~\E k \in Of(r, "reply") : i < k /\ k < j}

(* Mutant of FormOf: only a batch shortens the call's arguments.              *)
FormOfKeepsSwept(r, i) ==
  CASE log[i].kind = "result" /\ IsStub(r, i) -> "stub"
    [] log[i].kind = "result" /\ ~IsStub(r, i) /\ Reaches(r, "truncated", i) -> "cut"
    [] log[i].kind = "reply" /\ \E j \in AnswerTo(r, i) : Batched(r, j) /\ IsStub(r, j) -> "stub"
    [] OTHER -> "whole"

FormOf(r, i) ==
  CASE log[i].kind = "result" /\ IsStub(r, i) -> "stub"
    [] log[i].kind = "result" /\ ~IsStub(r, i) /\ Reaches(r, "truncated", i) -> "cut"
    [] log[i].kind = "reply" /\ \E j \in AnswerTo(r, i) : IsStub(r, j) -> "stub"
    [] OTHER -> "whole"

(* project: what is shown, by place.  A summary stands where the first event  *)
(* it covers stood, and says who wrote the words.                             *)
Shown(r) ==
  LET cover == [i \in r.seen |-> Covering(r, i)]
      places == {i \in r.seen :
                   IF cover[i] = 0 THEN log[i].kind \in Messages
                   ELSE ~\E j \in r.seen : j < i /\ cover[j] = cover[i]}
  IN [i \in places |->
        IF cover[i] = 0 THEN [of |-> i, form |-> FormOf(r, i)]
        ELSE [of |-> cover[i], form |-> "summary"]]

Least(a, b) == IF a < b THEN a ELSE b

FullSize(i) ==
  CASE log[i].kind = "user" -> log[i].size
    [] log[i].kind = "reply" -> IF log[i].tool = None THEN 1 ELSE ArgsOf[log[i].tool]
    [] log[i].kind = "result" -> IF log[i].error THEN 1 ELSE ResultOf[log[i].tool]
    [] log[i].kind = "summary" -> log[i].size

(* A stub is a line, a cut result its head and tail.                          *)
SizeOf(item) ==
  CASE item.form = "stub" -> 1
    [] item.form = "cut" -> Least(FullSize(item.of), MaxResult)
    [] OTHER -> FullSize(item.of)

Calibrated(tokens) == ((tokens + Overhead) * ratio) \div 100
Estimate(shown, places) == MapThenSumSet(LAMBDA i : SizeOf(shown[i]), places)
ContextTokens(r) == LET shown == Shown(r) IN Calibrated(Estimate(shown, DOMAIN shown))

-----------------------------------------------------------------------------
(* What the rules decide, all of it read off the log.                         *)

Minus(a, b) == IF a < b THEN 0 ELSE a - b
MinFree(target) == (target * settings.percent) \div 100
WindowLine == IF settings.target = 0 THEN Fraction ELSE Least(Fraction, settings.target)

Ends == Of(Now, "ended")
CompactedThrough == LastOf({log[s].to : s \in Of(Now, "summary")})

(* The turn end that leaves exactly keep_turns closed turns behind it.        *)
KeepEnd == {e \in Ends : Cardinality({f \in Ends : f > e}) = settings.keep}

(* Mutant of CompactableRange: the same range again.                          *)
CompactableRangeAgain == {<<0, to>> : to \in {e \in KeepEnd : CompactedThrough <= e}}

CompactableRange == {<<0, to>> : to \in {e \in KeepEnd : CompactedThrough < e}}

(* A link reads its range's own events, never the log's bookkeeping.          *)
LinkInputs(from, to, mark) ==
  Reading({i \in from..to : i \in DOMAIN log /\ log[i].kind \notin Marks}, {mark})

(* Mutant of LinkRange: the event after the last link is skipped.             *)
LinkRangeSkips ==
  LET from == IF CompactedThrough = 0 THEN 0 ELSE CompactedThrough + 2
  IN {<<from, to>> : to \in {e \in KeepEnd :
        /\ from <= e
        /\ ContextTokens(LinkInputs(from, e, Truncated(from, e))) >= LinkMinCaps * Cap}}

LinkRange ==
  LET from == IF CompactedThrough = 0 THEN 0 ELSE CompactedThrough + 1
  IN {<<from, to>> : to \in {e \in KeepEnd :
        /\ from <= e
        /\ ContextTokens(LinkInputs(from, e, Truncated(from, e))) >= LinkMinCaps * Cap}}

LinkSaving(rg, through) ==
  Minus(ContextTokens(LinkInputs(rg[1], rg[2], Stubbed(through))), Cap)

(* The link a batch would write: a range that is worth it, or none.           *)
LinkOfBatch == {rg \in LinkRange : LinkSaving(rg, LastEnd(Now)) > 0}

FreedByBatch == Minus(ContextTokens(Now), ContextTokens(Probe(Stubbed(LastEnd(Now)))))

BatchedThrough == LastOf({log[b].through : b \in Of(Now, "stubbed")})

(* decide_batch *)
BatchDue ==
  /\ LastEnd(Now) > BatchedThrough
  /\ WindowLine > 0 /\ ContextTokens(Now) > WindowLine
  /\ FreedByBatch + MapThenSumSet(LAMBDA rg : LinkSaving(rg, LastEnd(Now)), LinkOfBatch)
       >= MinFree(WindowLine)

(* Scan: the open turn's answered calls, and how far it was swept.            *)
CompletedCalls == {i \in Of(Now, "result") : i > LastEnd(Now)}
SweptThrough == LastOf({log[e].through : e \in {m \in Of(Now, "evicted") : m > LastEnd(Now)}})
EvictedCalls == Cardinality({i \in CompletedCalls : i <= SweptThrough})
SaidSaturated == \E s \in Of(Now, "saturated") : s > LastEnd(Now)
AtTurnStart == CompletedCalls = {}

NthCall(n) == CHOOSE i \in CompletedCalls : Cardinality({j \in CompletedCalls : j <= i}) = n
ProbeCalls(n) == IF n = 0 THEN Now ELSE Probe(Evicted(NthCall(n)))

(* Under the line nothing is stubbed.                                         *)
SweepLine ==
  IF settings.above = 0 \/ settings.target = 0 THEN settings.above
  ELSE Least(settings.above, settings.target)
UnderPressure == SweepLine > 0 => ContextTokens(Now) > SweepLine

(* The deepest the sweep may go: with no target a whole number of blocks that *)
(* leaves keep_last_calls, else all calls but the last block.                 *)
SweepDepth ==
  LET calls == Cardinality(CompletedCalls)
  IN IF settings.target = 0 THEN (Minus(calls, settings.lastCalls) \div Block) * Block
     ELSE Minus(calls, Block)

CanSweep == UnderPressure /\ SweepDepth > EvictedCalls
SweepFrees == Minus(ContextTokens(ProbeCalls(EvictedCalls)), ContextTokens(ProbeCalls(SweepDepth)))
SweepPays == settings.target > 0 => SweepFrees >= MinFree(settings.target)
CannotFit == settings.target > 0 /\ ContextTokens(ProbeCalls(SweepDepth)) > settings.target

(* fill: the last call's prompt and what was appended since, or an estimate.  *)
Fill ==
  LET shown == Shown(Now)
      since == {i \in DOMAIN shown : Cardinality({j \in DOMAIN shown : j <= i}) > measured.len}
  IN IF measured # None /\ measured.len <= Cardinality(DOMAIN shown)
     THEN measured.prompt + (Estimate(shown, since) * ratio) \div 100
     ELSE ContextTokens(Now)

(* A result of the range that no truncation has shortened yet.                *)
Oversize(rg) ==
  \E i \in Of(Now, "result") :
    /\ rg[1] <= i /\ i <= rg[2]
    /\ FullSize(i) > MaxResult
    /\ ~Reaches(Now, "truncated", i)

(* The events whose words are in a reading.                                   *)
Words(r) ==
  LET shown == Shown(r)
  IN UNION {IF shown[i].form = "summary" THEN log[shown[i].of].text ELSE {shown[i].of} :
              i \in DOMAIN shown}

SummaryInput(to) == Reading({i \in DOMAIN log : i <= to \/ log[i].kind \in {"summary", "truncated"}}, {})

-----------------------------------------------------------------------------
(* Steps *)

Room == Cardinality(Of(Now, "user") \cup Of(Now, "result")) < MaxWork
TurnOpen == \E i \in Of(Now, "user") : i > LastEnd(Now)

Init ==
  /\ log = <<>> /\ pc = "idle" /\ settings \in Settings
  /\ ratio = 100 /\ measured = None /\ range = None
  /\ oddities = 0

Write(event) == log' = Append(log, event)

(* A person's message starts a turn.                                          *)
Post ==
  /\ pc = "idle" /\ Room
  /\ \E size \in Posts : Write(User(size))
  /\ pc' = "top"
  /\ UNCHANGED <<settings, ratio, measured, range, oddities>>

(* A message of the inbox, or what the last stream held, before the rules.    *)
Steer ==
  /\ pc = "top" /\ Room
  /\ \E size \in Posts : Write(User(size))
  /\ UNCHANGED <<pc, settings, ratio, measured, range, oddities>>

(* An interrupt or a spent budget.                                            *)
EndAtTop ==
  /\ pc = "top"
  /\ Write(Ended) /\ pc' = "idle"
  /\ UNCHANGED <<settings, ratio, measured, range, oddities>>

(* Mutant of BatchStale: the measure is kept.                                 *)
BatchStaleKeepsMeasure ==
  /\ Write(Stubbed(LastEnd(Now)))
  /\ IF LinkOfBatch = {} THEN range' = None /\ pc' = "net"
     ELSE range' \in LinkOfBatch /\ pc' = "link"
  /\ UNCHANGED <<settings, ratio, measured, oddities>>

(* The batch; its link rides along.                                           *)
BatchStale ==
  /\ Write(Stubbed(LastEnd(Now)))
  /\ measured' = None
  /\ IF LinkOfBatch = {} THEN range' = None /\ pc' = "net"
     ELSE range' \in LinkOfBatch /\ pc' = "link"
  /\ UNCHANGED <<settings, ratio, oddities>>

(* Mutant of EvictStale: one call further, not to the floor.                  *)
EvictStaleByOne ==
  /\ CanSweep /\ SweepPays
  /\ Write(Evicted(NthCall(EvictedCalls + 1)))
  /\ measured' = None /\ pc' = "net"
  /\ UNCHANGED <<settings, ratio, range, oddities>>

EvictStale ==
  /\ CanSweep /\ SweepPays
  /\ Write(Evicted(NthCall(SweepDepth)))
  /\ measured' = None /\ pc' = "net"
  /\ UNCHANGED <<settings, ratio, range, oddities>>

SaySaturated ==
  /\ CanSweep /\ ~SweepPays /\ CannotFit /\ ~SaidSaturated
  /\ Write(Saturated)
  /\ pc' = "net"
  /\ UNCHANGED <<settings, ratio, measured, range, oddities>>

HoldSweep ==
  /\ CanSweep => ~SweepPays /\ (CannotFit => SaidSaturated)
  /\ pc' = "net"
  /\ UNCHANGED <<log, settings, ratio, measured, range, oddities>>

(* The seam: one of the four, before every model call of the turn.            *)
Seam ==
  /\ pc = "top"
  /\ IF AtTurnStart /\ BatchDue THEN BatchStale ELSE EvictStale \/ SaySaturated \/ HoldSweep

(* append_compaction *)
AppendSummary(from, to, text) ==
  /\ \E size \in 1..Cap : Write(Summary(from, to, text, size))
  /\ measured' = None

(* Mutant of LinkWritten: the link claims the log from its beginning.         *)
LinkWrittenFromStart ==
  /\ pc = "link"
  /\ LET text == Words(LinkInputs(range[1], range[2], Truncated(range[1], range[2])))
     IN text # {} /\ AppendSummary(0, range[2], text)
  /\ pc' = "net" /\ range' = None
  /\ UNCHANGED <<settings, ratio, oddities>>

(* summarise_link writes the link.                                            *)
LinkWritten ==
  /\ pc = "link"
  /\ LET text == Words(LinkInputs(range[1], range[2], Truncated(range[1], range[2])))
     IN text # {} /\ AppendSummary(range[1], range[2], text)
  /\ pc' = "net" /\ range' = None
  /\ UNCHANGED <<settings, ratio, oddities>>

(* Mutant of LinkSkipped: the range stays behind.                             *)
LinkSkippedKeepsRange ==
  /\ pc = "link"
  /\ pc' = "net"
  /\ UNCHANGED <<log, settings, ratio, measured, range, oddities>>

(* ... or is skipped: an error, a cut stream, the limit, an empty text.       *)
LinkSkipped ==
  /\ pc = "link"
  /\ pc' = "net" /\ range' = None
  /\ UNCHANGED <<log, settings, ratio, measured, oddities>>

(* emergency_compact finds room, or nothing it may summarise.                 *)
NoEmergency ==
  /\ pc = "net"
  /\ Fill < Emergency \/ CompactableRange = {}
  /\ pc' = "request"
  /\ UNCHANGED <<log, settings, ratio, measured, range, oddities>>

(* run_rules with rule 1: results are cut, and that may be enough.            *)
Truncate ==
  /\ pc = "net" /\ Fill >= Emergency
  /\ \E rg \in CompactableRange :
       /\ Oversize(rg)
       /\ Write(Truncated(rg[1], rg[2]))
       /\ range' = rg
  /\ measured' = None /\ pc' = "cut"
  /\ UNCHANGED <<settings, ratio, oddities>>

EnoughCut ==
  /\ pc = "cut" /\ Fill < WindowLine
  /\ pc' = "request" /\ range' = None
  /\ UNCHANGED <<log, settings, ratio, measured, oddities>>

NotEnoughCut ==
  /\ pc = "cut" /\ Fill >= WindowLine
  /\ pc' = "ask"
  /\ UNCHANGED <<log, settings, ratio, measured, range, oddities>>

(* run_rules with nothing to cut.                                             *)
Summarise ==
  /\ pc = "net" /\ Fill >= Emergency
  /\ \E rg \in CompactableRange : ~Oversize(rg) /\ range' = rg
  /\ pc' = "ask"
  /\ UNCHANGED <<log, settings, ratio, measured, oddities>>

(* Where the rules were called from: a turn, or /compact.                     *)
Back == IF TurnOpen THEN "request" ELSE "idle"

(* summarise: everything up to the range's end, as the model sees it.         *)
SummaryWritten ==
  /\ pc = "ask"
  /\ AppendSummary(range[1], range[2], Words(SummaryInput(range[2])))
  /\ pc' = Back /\ range' = None
  /\ UNCHANGED <<settings, ratio, oddities>>

SummaryEmpty ==
  /\ pc = "ask"
  /\ pc' = Back /\ range' = None
  /\ UNCHANGED <<log, settings, ratio, measured, oddities>>

(* A provider error ends the turn; /compact only says so.                     *)
SummaryFails ==
  /\ pc = "ask"
  /\ IF TurnOpen THEN Write(Ended) ELSE UNCHANGED log
  /\ pc' = "idle" /\ range' = None
  /\ UNCHANGED <<settings, ratio, measured, oddities>>

(* compact_now, while idle.                                                   *)
CompactNow ==
  /\ pc = "idle" /\ oddities < MaxOddities
  /\ \E rg \in CompactableRange :
       /\ range' = rg
       /\ IF Oversize(rg) THEN Write(Truncated(rg[1], rg[2])) /\ measured' = None
          ELSE UNCHANGED <<log, measured>>
  /\ pc' = "ask" /\ oddities' = oddities + 1
  /\ UNCHANGED <<settings, ratio>>

(* next_ratio: some way from the old ratio to the new sample.                 *)
Between(x, a, b) == (a <= x /\ x <= b) \/ (b <= x /\ x <= a)

(* A model call: its prompt is counted by the provider, or not, with the      *)
(* checklist's reminder at the end of the context or not.                     *)
Asked ==
  LET shown == Shown(Now)
  IN \/ measured' = None /\ UNCHANGED ratio
     \/ \E sample \in Ratios, reminded \in BOOLEAN :
          /\ reminded => Cardinality(CompletedCalls) >= RemindAfter
          /\ measured' = [prompt |-> ((Estimate(shown, DOMAIN shown) + Overhead) * sample) \div 100,
                          len |-> Cardinality(DOMAIN shown) + (IF reminded THEN 1 ELSE 0),
                          at |-> Len(log), reminded |-> reminded]
          /\ ratio' \in {x \in Ratios : Between(x, ratio, sample)}

Answer ==
  /\ pc = "request" /\ Asked
  /\ log' = log \o <<Reply(None), Ended>>
  /\ pc' = "idle"
  /\ UNCHANGED <<settings, range, oddities>>

(* The request fails, counted or not, or is interrupted: the turn ends        *)
(* without a reply.                                                           *)
RequestFails ==
  /\ pc = "request"
  /\ Asked \/ UNCHANGED <<ratio, measured>>
  /\ Write(Ended) /\ pc' = "idle"
  /\ UNCHANGED <<settings, range, oddities>>

Call ==
  /\ pc = "request" /\ Room /\ Asked
  /\ \E tool \in Tools : Write(Reply(tool))
  /\ pc' = "call"
  /\ UNCHANGED <<settings, range, oddities>>

Ran ==
  /\ pc = "call"
  /\ \E error \in BOOLEAN : Write(Result(log[Len(log)].tool, error))
  /\ pc' = "top"
  /\ UNCHANGED <<settings, ratio, measured, range, oddities>>

(* The daemon dies, and starts again with the settings as they are then; an   *)
(* open turn is repaired and continued.                                       *)
Crash ==
  /\ oddities < MaxOddities
  /\ oddities' = oddities + 1
  /\ log' = IF ~TurnOpen THEN log
            ELSE (IF pc = "call" THEN Append(log, Result(log[Len(log)].tool, TRUE)) ELSE log)
                   \o <<User(1)>>
  /\ pc' = IF TurnOpen THEN "top" ELSE "idle"
  /\ settings' \in Settings
  /\ ratio' = 100 /\ measured' = None /\ range' = None

TurnStep ==
  \/ Steer \/ EndAtTop
  \/ Seam \/ LinkWritten \/ LinkSkipped
  \/ NoEmergency \/ Truncate \/ EnoughCut \/ NotEnoughCut \/ Summarise
  \/ SummaryWritten \/ SummaryEmpty \/ SummaryFails
  \/ Answer \/ RequestFails \/ Call \/ Ran

Next == Post \/ CompactNow \/ TurnStep \/ Crash

Spec == Init /\ [][Next]_vars

-----------------------------------------------------------------------------
(* Properties *)

(* Every variable keeps its type, and a summary is only being written of a    *)
(* range of turns that are closed.                                            *)
TypeOK ==
  /\ \A i \in DOMAIN log :
       log[i].kind \in Messages \cup Marks \cup {"ended", "saturated"}
  /\ pc \in {"idle", "top", "link", "net", "cut", "ask", "request", "call"}
  /\ settings \in Settings /\ ratio \in Ratios
  /\ measured # None => measured.prompt \in Nat /\ measured.len \in Nat
  /\ pc \in {"link", "cut", "ask"} <=> range # None
  /\ range # None => range[1] \in Nat /\ range[2] \in Ends /\ range[1] <= range[2]
  /\ oddities \in 0..MaxOddities

(* Whatever was cut, stubbed, linked and nested, in whatever order and under  *)
(* whatever settings: the words of every message are in what the model is     *)
(* shown, in its own place or in a summary made from them.                    *)
NothingForgotten == {i \in DOMAIN log : log[i].kind \in Messages} \subseteq Words(Now)

(* ... and only once: a link does not repeat what the summary before it says, *)
(* and a nested summary leaves none of the links it was made from behind.     *)
SaidOnce ==
  LET shown == Shown(Now)
      words(i) == IF shown[i].form = "summary" THEN log[shown[i].of].text ELSE {shown[i].of}
  IN \A i, j \in DOMAIN shown : i # j => words(i) \cap words(j) = {}

(* What a conversation said, compaction neither loses nor repeats.            *)
WordsKept == NothingForgotten /\ SaidOnce

(* The summaries that are shown are one chain: side by side and without gaps, *)
(* from the log's beginning to the end of what was compacted, in their order. *)
ChainContiguous ==
  LET shown == Shown(Now)
      links == {shown[i].of : i \in {j \in DOMAIN shown : shown[j].form = "summary"}}
  IN /\ links # {} => \E s \in links : log[s].from = 0
     /\ \A s \in links :
          \/ log[s].to = CompactedThrough
          \/ \E t \in links : log[t].from = log[s].to + 1 /\ t > s

(* A provider rejects a call without its result and a result without its      *)
(* call: no summary takes one of the two, and both are shortened together.    *)
PairsKept ==
  LET shown == Shown(Now)
      next(i) == {j \in DOMAIN shown : j > i /\ \A k \in DOMAIN shown : k > i => j <= k}
      is(i, kind) == shown[i].form # "summary" /\ log[i].kind = kind
  IN /\ \A i \in DOMAIN shown :
          is(i, "reply") /\ log[i].tool # None /\ ~(pc = "call" /\ i = Len(log)) =>
            \E j \in next(i) : is(j, "result") /\ (shown[i].form = "stub" <=> shown[j].form = "stub")
     /\ \A j \in DOMAIN shown :
          is(j, "result") => \E i \in DOMAIN shown : is(i, "reply") /\ j \in next(i)

(* A newer result of the same tool takes an older one's place as the one that *)
(* stays; the older one is stubbed then, with no event that says so.          *)
Superseded(i, at) ==
  \E j \in Of(Now, "result") :
    /\ j > at
    /\ \E k \in {i} \cup AnswerTo(Now, i) :
         log[k].kind = "result" /\ log[k].tool = log[j].tool /\ TurnOf(Now, k) = TurnOf(Now, j)

(* What the last call's prompt was counted for is still what the context      *)
(* begins with, so that fill may add to it: every event that rewrites the     *)
(* context forgets the measure.  But for a result superseded since, and a     *)
(* count that includes the reminder.                                          *)
MeasureFits ==
  measured # None =>
    LET sent == Shown(Reading(1..measured.at, {}))
        shown == Shown(Now)
    IN /\ {i \in DOMAIN shown : i <= measured.at} = DOMAIN sent
       /\ \A i \in DOMAIN sent : shown[i] = sent[i] \/ Superseded(i, measured.at)
       /\ ~measured.reminded => measured.len = Cardinality(DOMAIN sent)

(* compactable_range: the same range is never summarised twice, and a summary *)
(* always reaches further than the ones before it.                            *)
BoundaryAdvances ==
  \A s, t \in Of(Now, "summary") : s < t => log[s].to < log[t].to

(* Link after link, the chain only gets longer and stays whole.               *)
ChainSound == TypeOK /\ ChainContiguous /\ BoundaryAdvances

(* A sweep breaks the cached prefix, and frees what it must for that.         *)
SweepFreesEnough ==
  [][log' # log /\ log'[Len(log')].kind = "evicted" /\ settings.target > 0 =>
       ContextTokens(Now) - ContextTokens(Now)' >= MinFree(settings.target)]_vars

(* A batch and its link break the cached prefix once, and free at least the   *)
(* share of the target that is worth it.                                      *)
BatchFreesEnough ==
  [][LinkWritten =>
       ContextTokens(Reading(1..(Len(log) - 1), {})) - ContextTokens(Now)' >= MinFree(WindowLine)]_vars

(* What was appended since the last call is in the fill.                      *)
FillCountsAppended ==
  measured # None => measured.len <= Cardinality(DOMAIN Shown(Reading(1..measured.at, {})))

(* Between two calls of a turn the context only grows, unless an event of the *)
(* log says that it was shortened: the cached prefix is broken by a sweep, a  *)
(* batch or a compaction, and by nothing else.                                *)
OnlyMarksRewrite ==
  measured # None =>
    LET sent == Shown(Reading(1..measured.at, {}))
    IN \A i \in DOMAIN sent : Shown(Now)[i] = sent[i]
=============================================================================
