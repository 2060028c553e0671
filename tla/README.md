# A verification project for aigentic

aigentic is a daemon that runs *threads*: conversations between several people and a model that may
call tools. A thread is one append-only log file; one *actor* in the daemon is its only writer, takes
its mail (messages, answers, interrupts) and drives its *turns*, the loop of model calls and tool
calls. Everything the program remembers across a crash is in the log.

The project models that core in TLA+: the turn and the questions it asks, the actor around it, the
repair after a crash, what of a log the model is shown and how it is shortened, the table through
which sessions share actors, the log file under several processes, the guard that keeps the machine
awake; and what is built on threads: the workflow run and the registry that keeps one task on it, and
background jobs. TLC checks small instances; TLAPS proves some results for every instance.

All paths below are relative to `src/`; "map" in `PROJECT.json` names the lines behind every definition.

## 1. Inventory

| Component | Code | State it keeps | Operations | Talks to |
|---|---|---|---|---|
| Log store | `crates/log/src/store.rs` | the file, a handle's cache and length, one advisory lock per process | `open_with` (repairs a torn tail), `append`, `catch_up` | the file system, other processes |
| Projection | `crates/log/src/projection.rs` | none (a pure fold) | `project`: events to the messages of a model call | the turn |
| Turn | `crates/runtime/src/turn.rs`, `support.rs` | the inbox, what a stream holds back, the cancel token, the batch of calls, the iterations spent | `continue_turn_until`, `run_tool_draining`, `interrupt_turn`, `end_turn` | the log, provider, tools, policy, the actor (mail in, notices out) |
| Questions | `crates/runtime/src/{decisions,seams,harness_tools}.rs` | waiting and decided calls, session grants, the current project | `policy_check`, `ask_human`, `suggest_project`, `start_job`, `settle_switch` | a person, through the actor |
| Thread actor | `crates/server/src/actor.rs` | state shown, queued and steered counts, the hold on the guard, the waiting start-up proposal, job notes | `handle_idle`, `turn`, `handle_running`, `after_turn`, `observe`, idle proposals | sessions, the turn, the guard |
| Resume | `crates/runtime/src/resume.rs` | none but the log | `resume`, `withdraw_open_proposals` | the log, then the actor |
| Thread table | `crates/server/src/threads.rs` | name to mailbox, open count and last close | `open_as`, `close`, `mailbox`, `sweep` | sessions, actors |
| Keep-awake guard | `crates/server/src/awake.rs` | an atomic count, the child under a lock | `hold`, `release` | every actor |
| Decision fold | `crates/log/src/decision_log.rs` | none | which proposals are answered, which projects were declined | the actor |
| Build runner | `crates/runtime/src/runner/mod.rs`, `crates/log/src/run_state.rs` | the lead log and its fold, the write lock, the children's logs | `advance` (one move of the fold), `answer`, `apply_end`, `note_run_error` | child threads, git, forge, CI, a person |
| Run registry | `crates/server/src/runs.rs`, `threads.rs` | slots, lock files of leads and issues, the working count | `build_run`, `answer_checkpoint`, the start-up scan, `claim`, `drive`, `release` | the runner, other daemons |
| Jobs | `crates/server/src/jobs.rs` | a job's own thread, its deadline, its number | `start`, `drive`, `report_failure`, `post_unreturned` | the front thread's actor, the table |
| Compaction | `crates/runtime/src/{compaction,evict}.rs`, the marks of `projection.rs` | the last call's measured prompt, the ratio; else the log | batch and link, sweep, emergency net (truncate, nested summary), `/compact` | the turn, a model |
| Permission rules | `crates/policy/` | rules files | `decide`, `decide_shell` | `policy_check` |
| Memory, knowledge | `crates/runtime/src/{memory,brief,knowledge}.rs` | notes and a cursor in the log | side jobs after a turn | the actor |
| Providers, tools, skills, wire, terminal client | `crates/{providers,tools,skills,api,tui}`, `server/src/{session,serve}.rs` | connections, processes | adapters | — |

### What is hard here

* **Mail inside a turn.** The actor polls its turn's future and its mailbox in one `select`. A message
  posted during a turn goes to the inbox, may be held until the reply that streams is whole, is
  written between two tool calls or after the last, and must never come to stand, for the provider,
  between a reply and the results of its calls. An answer and an interrupt may both be ready when the
  turn is polled; the `select` is biased to the interrupt.
* **Every append may be the last.** A crash may come between any two; the restart repairs what the log
  shows and may crash itself. What is only in memory (the queue counts, the inbox, the switched flag)
  is gone.
* **The observer.** What clients see, and whether the machine is held awake, is derived by a function
  called on every append; it has to tell a question of the turn from one raised while idle.
* **Two locks and a counter.** The guard counts before it locks; the table builds an actor
  without its lock; the store locks per process, while several handles live in one process.
* **A run of many moves.** The runner writes each move to the lead log and then acts: posts a prompt,
  pushes, comments, asks. A runner rebuilt after a crash has the log only and must neither repeat what
  was done nor skip what was not; a raise hands back the move an ask interrupted.
* **Many daemons, one lead.** Builds, answers and start-up scans claim runs through three locks that are
  let go one by one.
* **A return that must come, once.** A job's driver, its failure report and the next start-up's scan
  all post the same return.
* **Four rules over one log.** Stubs, sweeps, truncations and summaries, whose ranges overlap, under settings
  that change at a restart, and a fill that is added to a measure of an older context.

The list of hazards, each at its line and with the properties that would catch it, is in
`PROJECT.json`.

### What makes each part correct

| Part | Promise |
|---|---|
| Turn and projection | each request is one a provider accepts; each call is answered once |
| Delivery of messages | accepted → in memory → in the log once → read; nothing skips a step |
| Questions | nothing gated runs unallowed; an accepted answer stands and is used; a grant ends with its project; a withdrawn proposal moved nothing |
| Actor | the state, the counts and the hold follow the turn; a job's return is noted once, between turns |
| Resume | every call and proposal is settled, one note per crash, the interrupted stay interrupted, the thread comes to rest |
| Table | one actor per thread, the count is exact, nothing at work is unloaded, what is unused is |
| Store | no damaged line or repeated seq, what was acknowledged stays, caches agree with the file |
| Compaction | no message's words are lost or said twice; a call keeps its result; the measure is of what is shown; a rewrite is worth its cost |
| Runner | one prompt per attempt, one charge per call, a figure that holds; what is pushed was checked, under the lock, over nobody's commit; a gate holds; comments are posted once; it settles |
| Registry | one driver per lead, one unfinished run per issue, true counts and replies, every call returns |
| Jobs | the return comes, once, and says what the job's log shows |
| Guard | the child lives exactly while somebody works |

## 2. Modules

    KeepAwake ─┬─ KeepAwakeProofs           LogStore ─┬─ MCLogStore
               └─ MCKeepAwake                         └─ LogStoreProofs
                                            ThreadTable ─┬─ MCThreadTable
                                                         └─ ThreadTableProofs

    ThreadEvents ─ Projection ─ Turn ─ ThreadActor ─ ThreadProperties ─ MCThread
                                                        ├─ INSTANCE Delivery
                                                        └─ ThreadProofs

    RunState ─ Runner ─ RunnerProperties ─┬─ MCRunner
                            └─ INSTANCE   └─ RunnerInvariants ─ RunnerProofs
                                 RunPath
    RunRegistry ─┬─ MCRunRegistry           Jobs ─┬─ MCJobs
                 └─ RunRegistryProofs              └─ JobsProofs
    Compaction ─┬─ MCCompaction
                └─ CompactionProofs

**ThreadEvents** — the kinds of events a log holds and the questions the code asks of a log: is a turn
open, which calls have no result, which proposal is open, which project is current. A payload is a
number: a message is the number of the post it came from, a call its order in the thread.

**Projection** — `project` of the log as a recursive function, one step per event (`Projected(log)[n]` is what the first n events give): a reply opens its calls, what is
appended while they are open is held back behind the results, and a message that was not steered is
below the horizon until its turn ends. `Acceptable` is what the providers demand.

**Turn** — one variable `pc` for the awaits of `continue_turn_until`; an action is the code between two
awaits. The `place` table:

| `pc` | Code waits for |
|---|---|
| `loop`, `compact`, `stream` | top of the loop; the emergency compaction's call; the reply |
| `length`, `calls`, `siblings`, `after_calls` | the next append of results |
| `ask` | a person's answer or the interrupt |
| `granted`, `refused`, `said`, `switched`, `tool` | the next append or the running tool |
| `interrupt`, `end` | the closing appends |

`inbox`, `held`, `cancel`, `batch`, `spent`, `asked`, `retried` are the locals of the function; `context`
is what the current request shows; `read` (what any finished call has shown) and `taken` (calls whose answer was said Ok to) are
history variables.

**ThreadActor** — composes the turn with the actor: mail when idle (`Post`, `Interrupt`, proposals by the
start-up check, a switch by hand) and while a turn runs (`handle_running`), `AfterTurn`, `observe` as the
operator every append goes through, job returns, `Crash`, and the resume with each of its appends an
action of its own. `shared` is the code's `Shared` (state, queue counts, hold); `lost` records what a
dead process, or nobody, took with it.

**Delivery** — the abstract specification of what becomes of a message; `ThreadProperties!Delivered`
instantiates it with the refinement mapping memory = inbox ∪ held ∪ starting, logged = posts of the
log, seen = `read`, dropped = `lost`.

**ThreadProperties** — the invariants and temporal properties of the thread. **ThreadProofs** — the
inductive invariant and the theorems, about calls, questions and what is shown first, then about messages, requests,
moves between projects and a thread at rest.

**ThreadTable** — sessions, the table's entries, and actors as small machines (idle, working, asking,
unloaded) built outside the lock and inserted under it; a borrowed mailbox is a clone that is not
counted. The sweeper asks, then removes.

**LogStore** — a file is a sequence of pieces (whole lines with a seq and an id, or a torn tail);
a handle has its cache, the length it believes, and a place in `open_with` or `append`; a process has
the lock, and several handles may be of one process. Nothing is ruled out between their steps. Three history variables tell apart
what the code does not keep apart: `late`, the handles that took the length of a file they had not read (another handle's append came between
their read and their stat, store.rs:164 and 201); `blind`, the events such handles wrote; and `overlapped`, whether two handles of
one process were ever under its lock at once.

**KeepAwake** — `hold` and `release` step by step for any set of clients.

**RunState** — the fold of a lead log, event by event, as `run_state` does it: a log whose events are out of
order is `broken` and stays so. `NextMove` is the one move the last decisive event calls for.

**Runner** — a move (`StartFirstStep` … `ActOnWord`, one for each arm of `advance`) reads the fold and becomes
`todo`, the list of effects it will do: write an event, ask, take the lock, create the child, post the
prompt, resume, apply the end, comment, weigh and push, install, wait, close, finish. Each effect is an
action and the daemon may die, or the call fail, between any two. The operators that compute a
list (`StartStep`, `ReAwait`, `TakeRoute`, `Handover`, `ChecksDone`, `AfterPushed`, `ActOnAnswer`) are the handlers. A
child's log has prompts, calls (one unit of money each), reports and ends. Figures are whole units, and
the four fifths of `budget_guard` are exact over fifths.

**RunPath** — the abstract run: it works, asks, is answered, ends, writes nothing past an ask that stands, and posts each of
its comments at most once;
`RunnerProperties!Path` maps the runner to it. **RunnerInvariants** — the
inductive invariants of the runner and the conditions on workflows; **RunnerProofs** — that they hold, and what follows from them.

**RunRegistry** — leads are logs, daemons share them. A *call* (a build, an answer, one lead of the start-up scan) passes
the build lock, the issue's lock file, the look for an unfinished run, the creation and the claim; a *task* drives
the lead and lets go of its slot, its count, its lock and its channel in that order. `Advance` is all that the
runner's moves come to here: a gate, an end or an error; module Runner has their detail.

**Jobs** — the front's log and turn, each job's driver step by step, the job's log as far as `jobs.rs` reads it (messages,
how turns ended, and whether the last reply is a final answer, which is all `job_return` asks of the replies), the
visitors who open that thread, and the scan. It is the other side of `ThreadActor`'s `JobReturns`, which
accepts a return at any time and any number of times.

**Compaction** — the projection with its marks (`Shown`), what each rule decides from the log, and the seam of the turn:
at a turn's first call the batch, with the link that rides along, else the sweep; then the emergency net. A text
is its size, and a summary's text is the set of events whose words went into it, so that `NothingForgotten` and
`SaidOnce` can follow words through links and nested summaries. `Reading` is a log as one reader has it, with
marks it is only asked about (`probe`). `RemindAfter` scales the checklist's reminder down to two calls.

Names of actions and operators are those of the code where it has a name for them.

## 3. Runs

TLC explores all states of each run; deadlock checking is off only where a bound (posts,
crashes, iterations) or idleness lets the system really stop. Where the table names a property with others in brackets, it is their conjunction, and the mutants in
`PROJECT.json` break it through each of the parts that matter. The type invariants of the guard, the thread, the table, jobs,
the registry and the store are proved (section 4); the others are a part of such a conjunction.

### The thread (module `MCThread`)

| Run | Checks | Bounds |
|---|---|---|
| `thread_posts` | `RequestsAcceptable`, `MidTurnAnswered`, `QueueExact` (`NoPostTwice`, `QueueCounts`) | 2 posts, 1 interrupt, 1 move while idle, batches of 2 calls, replies that fail, are cut (and retried) or stop at the length, iteration budget 2 |
| `thread_crash` | `AllSettled` (`CallsSettled`, `ProposalsSettled`), `CrashNotedOnce`, `ImplementsDelivery` | 2 crashes, 2 posts, 1 interrupt, 2 calls, a plain tool and a proposal |
| `thread_asks` | `AllowedRuns` (`GatedRunsAllowed`, `GrantStaysInProject`), `ShownTrue` (`AwakeWhileWorking`, `WaitShown`), `AtRest` (`AnswerContinues`, `NothingRunsIdle`), `SwitchAsLogged` (`ProjectAsLogged`, `WithdrawnNeverMoved`) | all four kinds of question, 3 calls one by one, 1 post, 1 interrupt, 2 idle proposals, asks or moves, a compaction that fails |
| `thread_live` | `JobsNoted`, `TurnsSettle` (`TurnsEnd`, `InterruptsEnd`, `PostsReachLog`) | one job returned twice, 1 crash, 1 interrupt, 2 posts, replies that fail |

The bounds are chosen by what a property needs to be broken: two posts so that one starts the turn
and one is held by the stream, drained after it or left unread; two calls in a batch so that one has a result
when the other is cut; three calls so that a grant is given, the project left and the gated tool called
again; two crashes so that the second meets the repair of the first. `Faults` selects which
failures a run includes (`thread_asks` has no crash, no job's return and no knowledge that cannot be read, so what those do to `AtRest` and
`SwitchAsLogged`, section 5, is outside it); `MaxBatch`, `MaxCalls`, `MaxIterations`, `MaxPosts`, `MaxInterrupts`,
`MaxCrashes`, `MaxReturns` and `MaxSwitches` bound the rest.

### Runs, jobs, compaction

| Run | Checks | Bounds |
|---|---|---|
| `runner` | `AttemptsApart` (`TypeOK`, `PromptedOnce`, `ReportIsOwnUnlessRenumbered`, `SentBackOnce`), `SpendHeld` (`CallsChargedOnce`, `FigureHeld`), `PushedChecked`, `WritesUnderLock`, `ImplementsPath`, `RunSettles` | 3 workflows, 2 answers, 1 mishap, 1 call an attempt |
| `runner_raise` | `LogFolds` is violated (section 5) | one workflow, 2 answers |
| `registry` | `OneDriver`, `OneRun`, `CountsTrue` (`CountsDriven`, `CountsOnlyHeld`), `RepliesTrue`, `HolderWrites`, `CallsReturn` | 2 daemons, 2 calls, 3 leads, 2 tasks, 2 gates, 2 asks, 1 death |
| `jobs` | `ReturnedOnce`, `ReturnsSound` (`TypeOK`, `ReturnAsLogged`), `ReturnComes` | 1 job, 2 messages and 2 replies in its thread, 2 deaths, 1 failed write |
| `compaction` | `WordsKept` (`NothingForgotten`, `SaidOnce`), `ChainSound` (`TypeOK`, `ChainContiguous`, `BoundaryAdvances`), `PairsKept`, `MeasureFits`, `SweepFreesEnough` | 5 messages and calls, 1 crash or `/compact`, two settings, one ratio (100; the theorems are for any) |

The three workflows have between them every kind of step: one that routes into a writing step with checks, a figure
and an install; a gate that a decider's report may answer before a judge whose approval ends the run; a writing
step that waits on CI and hands on. A mishap is a crash, a failed call, a dead turn, or somebody else's doing (a
rival's lock, a commit at the remote); two answers allow a raise after a retry. `SpendHeld` also holds where an attempt may make two
calls and a raise may be to less than was spent: with `Figures = {1, 7}` in `MCRunnerFrees.cfg` (one workflow, 400,847 states). Two calls and two daemons suffice for
every pair to meet at every lock, and a daemon that dies starts again with a scan of its own while the other goes on.
One job has, with its driver, its failure report and two scans, four posters of one return. The sizes of
`compaction` are scaled so that a log of five messages and calls meets every rule: two links, a nested summary over a link
and a link over a nested summary, two sweeps, a saturated sweep, cuts that are enough and cuts that are not.

Some properties of `runner` make an exception, each of a case the code really gets into and a violation
configuration shows: `RetryParked`, a raise asked for by the move that acted on an answer (`RunSettles`), and `Renumbered`, a step that goes on in a child whose first attempt was not its first
(`ReportIsOwnUnlessRenumbered`, `CallsChargedOnce`, `FigureHeld`). `MeasureFits` excepts a result superseded by a newer one of its
tool and a count with the reminder in it; `ReturnComes` excepts a job whose turn a crash cut and one whose second
try cannot be written either, and it promises nothing while a turn of the front goes on for ever: a return that arrives meanwhile waits in
`job_notes` (actor.rs:1476) for that turn's end, and a turn may wait for a person who never comes. `ReturnAsLogged` excepts a job a turn of which broke.

### The table, the store, the guard

| Run | Checks | Bounds |
|---|---|---|
| `table` | `TableSound` (`TypeOK`, `CountExact`, `SessionsShareActor`), `UnusedUnloads` | 3 sessions, 3 actors built, 2 turns |
| `log_store` | `LogSound` (`DamageIsBlind`, `AckedKept`), `CacheSound` (`TypeOK`, `CacheIsPrefix`), `OnlyGrows` | one process with two handles and one with a third, 3 events, 1 crash, 1 failed write |
| `keep_awake` | `HoldsCounted`, `NoChildLeft`, `SleepsAgain` | 3 clients |

Three sessions are enough for one to wait for the lock while another builds and a third closes; three
clients for a release to be overtaken by a hold and both by a third; three handles of the store for one to be late while another of its process appends and a third of another process waits for the lock or
repairs. Three events and a crash, or a refused write, suffice for a torn tail that is cut while others have read it, a line written
by a handle that did not read the one before, and an append on top of the damage.

The store's properties hold of everything the handles do, the append between another's read and its stat included, and say what comes of that.
`DamageIsBlind`: the log is damaged only if a late handle wrote. `AckedKept`: whatever was acknowledged is there for good, the blind events
themselves excepted. `CacheIsPrefix`: a handle shows what the log holds, its own blind events excepted. All of them, and `OnlyGrows`, stop at
the moment two handles of one process are under its lock at once (`overlapped`), since from there on both may write over one another;
handles of one process that take turns are covered. `MCLogStoreRace` and `MCLogStoreShared` show that neither exception can be dropped.

### Fairness

* **Thread**: weak fairness of the actor's own task, nothing else. The runtime polls a ready task again;
  model and tool calls end, because the adapters time out (a reply that never ends is the fault
  `stream`). People, job returns, crashes and the start-up check are not fair: nobody has to answer,
  which is why `TurnsEnd` ends in a question as well as in idleness.
* **Table**: weak fairness of a session's own request once it is under way, of an actor's work, and of
  the sweeper's timer. No session has to open or to close. An answer is given only when a
  mailbox reaches the actor.
* **Runner**: weak fairness of the moves, the effects, the child's turn and the start of a task for an unfinished run
  (the start-up scan, a build or an answer starts it). Nobody has to answer, so `RunSettles` ends in a gate too.
* **Registry**: weak fairness of each call and each task once it is under way. Nobody has to call, to crash or to restart.
* **Jobs**: weak fairness of the notes the front's actor writes after a turn and of the restart of a daemon that died, and strong
  fairness of a driver and of the scan: the front's actor takes their mail at every place but while it writes its notes, which comes and
  goes. No step of a turn is fair, the front's or a job's: either may wait for a person or a model. A job's own turn is
  ended by its driver's deadline; that the front's turns end is a premise of `ReturnComes` (`FrontTurnsEnd`).
* **Guard**: weak fairness of a client's step once it is inside `hold` or `release`; `SleepsAgain` assumes
  only that every client stops working for good.

## 4. Proofs

### The guard

`KeepAwakeProofs` proves for every finite set of clients (`ClientsFinite`, the only assumption):

* `TypeCorrect`: `Spec => []TypeOK`.
* `CountExact`: `Spec => []HoldsCounted`, the counter equals the number of clients that are counted.
* `NoChildLeftInvariant`: `Spec => []NoChildLeft`, when nobody is inside `hold` or `release` and nobody works, no child
  lives.

The last is not inductive: a client that found the child alive leaves it behind without a
trace. The strengthening `ChildOwed` says that whenever a child is alive some client is counted, or some
client stands between its counter and the lock in `release` and will take the child. Every step preserves
it because the only step that removes the last such client takes the child too.

### The thread

`ThreadProofs` proves for every set of tools and faults and every bound on calls, iterations, posts,
interrupts, crashes, returns and moves (`TurnConstants`, `ActorConstants`: the bounds are naturals, the
tools are kinds of tools):

* `TypeCorrect`: `Spec => []TypeOK`. `TypeOK` gives every event of the log its exact shape, so this says
  too that every reply's calls, every settled proposal and every repaired call is one the log names, and
  that what the clients are shown never counts more steered messages than queued ones.
* `ShownCorrect`: `Spec => []ShownTrue`, from `AwakeCorrect` (`AwakeWhileWorking`) and `WaitCorrect` (`WaitShown`).
* `JobsCorrect`: `Spec => []JobsNoted`.
* `CrashCorrect`: `Spec => []CrashNotedOnce`.

None is inductive alone. The inductive invariant `IInv` is

* `TypeInv`: `TypeOK`, a batch that is not empty wherever the code looks at its head (`BatchAtHand`), and
  a budget that is not spent wherever a model call goes out (`BudgetLasts`, without which `spent` would
  leave its range);
* `ShownInv`: the state shown and the hold at every place they depend on, the places between a turn's
  mail and its first append and between an agreed switch and its recorded yes among them, and that
  nothing is waited for outside a question. `WaitShown` and `AwakeWhileWorking` are what a client can see of
  it;
* `TurnClosed`: at every place outside a turn the log has no open turn. It is why a return that is
  noted there is never inside one: `AppendedTurn` shows that an event that is no turn's own opens none
  and that an end closes whatever was open, and `OpenTurn` restates "open" without a last place so that
  an append can be followed;
* `JobsNoted` and `CrashNotedOnce` themselves, for which `NextAppends` sorts every step by what it appends:
  nothing or an ordinary event, a return the log lacks, or the first note of a crash.

`LastPlace` (a set of places of a log that is not empty has a greatest one) carries all that the operators
which look for the last event of a kind need.

With nothing further assumed, it goes on to what is asked and answered:

* `AllowedCorrect`: `Spec => []AllowedRuns`, a gated call is decided once and runs only after it was allowed, and a session
  grant is used only after a person's yes and never across a move.
* `SettledCorrect`: `Spec => []AllSettled`, every call gets one result and every proposal one answer before the next turn begins.

Its invariant adds three parts to `IInv`, each about the log and about what the task still has to do:

* `CallsInv`. `CallLog` says that ids are given out in order and once, that results and decisions are of calls made and that each
  call has one of both at most, that a gated call that ran was allowed before, and that a reply or the end of a turn finds all calls
  before it answered. `BatchSound` ties it to the task: what hangs, the calls with no result, is exactly the batch, except while a
  resume has the log alone. There `HangingLast` and `ResumeHangs` show that what hangs is of the last reply of the open turn, hence
  what `Unanswered` finds; that is why a resume, which reads only that reply, and which may crash between any two repairs, leaves
  nothing. `Fits` names what an event must meet to be appended, and `CallLogGrows` that the log stays sound if it does.
* `GrantInv`. Every use of a grant has a person's yes behind it with no move since, and a grant that is held has one too
  (`Backed`). `GrantMove` names the four ways a step may treat the grant.
* `ProposalsInv`. What is unanswered is what waits: the last proposal while a call's own is asked about or was agreed to, the
  start-up proposal while the thread is idle, and the recorded choice until its answer is written; nothing at any other place but
  a resume, where it is what `OpenProposals` finds (`OpenUnsettled`).

The second half of `ThreadProofs` follows the messages, what a request shows of them, and the moves between projects:

* `DeliveryAlways`: `"compaction" \notin Faults => (Spec => ImplementsDelivery)`. The initial states map to Delivery's, and every step
  of a thread, its crashes and resumes included, maps to one of Delivery's actions or a stutter. The hypothesis is what the code
  needs: a compaction that fails drops the inbox (`MCThreadLost`, section 5).
* `PlacedAlways`: `Spec => []NoPostTwice`.
* `QueueAlways`: `Spec => [](count.crashes = 0 => QueueExact)`, and `AnsweredAlways`: `Spec => [](count.crashes = 0 =>
  MidTurnAnswered)`. The queue a client sees and the promise of a second turn live in memory: a crash leaves the turn's messages in
  the log and starts the count at 0, so both hold until the first crash and not after it, which is also why the run that checks
  them has none.
* `RequestsAlways`: `Spec => []RequestsAcceptable`, crashes and repairs included: what the providers refuse is never sent.
* `ProjectAlways`: `"knowledge" \notin Faults => (Spec => []ProjectAsLogged)`, crashes and restarts included;
  `WithdrawnAlways`: `Spec => [](count.crashes = 0 => WithdrawnNeverMoved)`; and from both `SwitchesAlways`, for `SwitchAsLogged`.
* `RestAlways`: `Spec => [](count.crashes = 0 => AtRest)`. The conditions of these three are exact: section 5 says what a
  failed read and a crash do to each.

Its parts, each proved by itself:

* The projection. `Projected(log)[n]` is defined by recursion on n. `MadeAll` and `UpTo` take the least n at which a claim would
  fail, so that what holds of nothing and of one event more holds of the whole log (`ProjectedSteps`); the library's induction
  theorems are out of the provers' reach. `CarriedSoFar` and `ShownIs` then say that a request shows exactly the messages the
  horizon lets through: none is dropped by the hold-back and none appears twice.
* `PostsInv`: a post is in the log, in the inbox, held, or about to start a turn, in one of them and once, and a model call is shown
  only what is logged. `PostsMove` sorts every step by what it does to the posts (takes one in, holds it, gathers, drains, flushes,
  starts a turn with it, dies), and `PostsTurn` and `PostsActor` show that there is no other.
* `PlacesInv`: no message waits in the inbox where a turn ends, and none is held outside a turn, unless a compaction fails.
* `QueueInv`: the counts shown are those of the unread messages of the open turn (`Unread`, `Steered`) at every place of a turn, and
  what is unread is steered too, except where a turn leaves (`Leaving`: `interrupt` and `end`), where what was held is queued
  unsteered.
* `AnsweredInv`: what is neglected (`Neglected`: posted while a turn ran and not read) has, right after a turn, two ends behind it or a
  queue that is not empty, so that the next turn is owed; and two ends wherever the thread rests.
* The conversation. `SettledFirst`: a reply finds every call before it answered, because a turn goes on only when its batch is
  done and ends only when nothing hangs. `IdsAll` makes a pigeonhole of `CallsInv`: the ids of n calls are 1 to n, so that a
  result's call is one made before. `Awaits` ties the projection to the log after every event: the calls it still waits for are those with no
  result yet, it holds back plain messages only and only while it waits, and its body is `Grouped`: the results told so far of every reply
  stand right behind it, no result stands elsewhere, and the reply with open calls is the last with its results. `ReplyGrouped`, `ResultGrouped` and
  `PlainGrouped` keep that, `AwaitsAll` goes through the log, and `GroupedAccepted` reads `Acceptable` off at a model call, where nothing is open.
* `MovesInv`: the project is the one the log names at every place, between a switch and its yes too (`ProjectInv`, with `SwitchedLast`: the
  last switch of a log decides); no switch stands behind a proposal that waits, save between that switch and its yes (`NotYetMoved`,
  `WithdrawnInv`, for which `ProposalsInv` says which proposal that is); and `RestInv`: the state shown while no turn runs, and that every turn that ended on an
  answer has another behind it (`Continued`), except right after such a turn, which is where `MustContinue` is asked. `SwitchMove` and `RestMove` sort the steps.

### The run registry

`RunRegistryProofs` proves for every set of daemons, calls and gates and every bound (`CallsAssumption`, `BoundsAssumption`:
no call is the value None, the bounds are naturals):

* `TypeCorrect`: `Spec => []TypeOK`.
* `OneDriverAlways`: `Spec => []OneDriver`.
* `SlotsTrueAlways`: `Spec => []SlotsTrue`.
* `HolderWritesAlways`: `Spec => HolderWrites`, the action property.

The inductive invariant `Sound` is `TypeOK` and `LocksSound`: a call between its claim and its task's start owns the task it
made and no other call has the same (`CallSound`, `CallsApart`), a call that makes a lead owns it until it is a run, a task holds
its lead's lock from the claim until `Unlock` (`TaskSound`), and a slot names a task that still has it (`SlotSound`). `OneDriver`
follows because two drivers would both be the lock's holder. `SlotSound` is stronger than `SlotsTrue`: that a slot's task has not
yet given it up is what keeps the slot true while the task lets go of its lock. Calls' and tasks' steps are
proved apart: `CallAlone` and `TaskAlone` say what a step of one leaves of all the others.

Its second half goes on from there to what the calls are told, with nothing further assumed:

* `OneRunAlways`: `Spec => []OneRun`.
* `CountsTrueAlways`: `Spec => []CountsTrue`.
* `RepliesTrueAlways`: `Spec => []RepliesTrue`.

Its invariant `CallsInv` adds three parts to `Sound`, each about one of them and each with its own lemma for a step of a call, of a task
and of the rest:

* `BuildSound`: who looks, creates or records for the issue has its lock; who is past the look knows that no run is unfinished, because
  only a build that has the lock records one; and two unfinished runs are one run.
* `CountSound`: `CountsTrue`'s driven leads are counted; each counted lead has a task of that daemon that has not yet given up its
  place; and a call between claim and spawn has counted the lead it claimed.
* `ReplySound`: an answer waits in one queue, once, for the call that stands there; it is in no log until its task writes it, and then
  once, in the lead the call named, at the head of the queue of the task that is about to reply. A queue is empty when its task is gone.

### The store

`LogStoreProofs` proves for any handles of any processes and any number of events, crashes and failed writes (`LogConstants`: the handles
are finitely many and each has a process; nothing else is assumed):

* `LogSoundAlways`: `Spec => []LogSound`.
* `CacheSoundAlways`: `Spec => []CacheSound`, the type invariant with it.
* `OnlyGrowsAlways`: `Spec => OnlyGrows`, the action property.

The inductive invariant `LInv` is the type invariant, that an append under way knows its event (`WritingKnown`), and, until two handles of one process
overlapped, `Sound`: `DamageIsBlind` and `AckedKept`; the lock is one process's (`OneLocks`) and one handle acts under it (`OneActs`); and what a
handle knows of the file where it is (`HandleSound`). That is: its cache is a beginning of the good lines, up to blind events of its own; its
length is that of its cache's lines once it took one, and more than that exactly if it is late, so an unequal length
means that another wrote; the length is the file's before a write; and a piece half written is the
writer's own, at the file's end. So a handle that is not late writes the seq after the last good line. One that is late writes one that was written
before: that line is never a good one (`GoodLine`), nor is any line behind it, and the good lines stay. A repair cuts no more than the torn tail it has seen
under the lock, which nobody can have completed since.

### The runner

`RunnerProofs` proves for every set of workflows, figures, proposals and faults and every bound:

* `TurnsUnderLockAlways`: `Spec => [](turn # NoTurn /\ wf.steps[turn.step].writes => lock = "mine")`.
* `WritesUnderLockAlways`: `Spec => []WritesUnderLock`, of the push as well.
* `PushedCheckedAlways`: `Spec => []PushedChecked`.
* `AttemptsApartAlways`: `Spec => []AttemptsApart`, all four parts of it.
* `ImplementsPathAlways`: `Spec => ImplementsPath`, the refinement of RunPath.

All assume `WorkflowsLoad`, the part of the loader's checks they need: the first step is one of the steps and no checkpoint has the
name of a gate of the runner's own. The second assumes `PushesGuarded` too, that a step which pushes writes and names
checks: the shipped workflows are so, but the loader does not ask for it, and the push of a step without checks leaves without
the lock when a rebuilt runner finds its end in the log (`Handover`).

The inductive invariant `LockInv` has four parts. `LogSound`: what the lead's events and their fold say can be read back, so that a
move that looks for the record of an ended or checked attempt finds one (`Reached`: the move that an ask interrupted counts, since a
raise gives it back), and a retry finds the event its gate was about (`AskSound`). `ChildrenSound`: a report closes its attempt.
`PlanSound`: what waits in `todo` is what may be written. `LockSound`: a list with an effect that needs the lock either takes it
with its head or finds it held, and gives it up nowhere (`Guarded`); a turn of a writing step holds it. The moves are proved once as
operators (`StartStepTame`, `ReAwaitFits`, `AfterStepTame`, `ChecksDoneFits`, …), then each action.

For the refinement `PathSound` says where the run is, and what that leaves to do: on its course, with a list that asks or ends at most once
and as its last effect (`OneStop`), or that asks and answers itself (`SaysItself`, a checkpoint whose `decided_by` step said go);
parked, with nothing to do but that answer; or over. An unreadable log stays where it is: its events are `Work`. A note of an
error, a crash, a failed call and all that happens in a child show nothing; a comment whose call failed after it was
posted is a `Post`. `WorkRead` and `StopRead` read the phase off the fold of one more event, `Counted` the moves and answers.

`PushedChecked` is about the log's past, and a push is decided from what the fold keeps of it, which may be long after the checks,
by another task and with an ask, an answer and a raise in between. `PushInv` follows that. `FoldBacked`: each move the fold may still
call for (`MayCall`: the one due, or the one that the raise at the gate last asked about gives back) that is about a closed step, or about its
checks, is about the newest record, whose step was closed in the log, and whose checks came out as the record says with no checks and no close
after them. `PlanBacked`: what waits to be written that claims something of the world (checks, a push, a raise) is true
of the log (`Justified`), and nothing is written before it. `LogBacked`: each push on the log has its checks behind it. `EventBacked` is the
induction over the log's events, `MoveBacked` reads a move off the fold, and `KnownOn` says that the log's past stays as it was.

`AttemptsApart` relates five things that are written at different times, with crashes, asks and other daemons in between: the records of
the fold, the events of the lead's log, the prompts and reports in each child's log, what the current move still has to do, and
the workflow's order of steps. `ApartInv` says that they tell the same attempts. `RecordsSound`: records are numbered, children are created in turn
and work for one step each, only the newest record may be open, and it is furthest along the workflow. `LogMatches`: a step has as many
starts in the log as records, so that `PromptDue`, which counts the former, is about the latter. `CourseSound`: where each move the fold may
still call for can lead is ahead of where the run has been (`Ahead`), or at the newest step (`Top`). `LogSentBack`: a start right after failed checks, or after a
partial report, comes after the step's only one. `ChildrenApart`: a child has a prompt for each closed record and at most one for each
record, and a report stands after the prompt its attempt counts to. `PlanApart`: a list that prompts, resumes or closes is one of the few that
`ReAwait` makes and what is left of them (`Ending`), with the prompt in it exactly when the open record is owed one; what it starts,
routes or closes is right for the log as it stands (`Rests`), and it writes that first. The four are inductive only together and with
`LockInv`, `PathSound` and `PushInv`; TLC checked them on the instance of run `runner` before. `Begun` says that the log begins with the run's start.

It assumes `WorkflowsRunOn`: there is a rank that rises along every next step and route, and no checkpoint has the name of any of the runner's own gates.
Both shipped workflows, and those of `MCRunner`, are so, but the loader does not ask for the first. Where a route
leads back, `FollowRoute` starts the step's second visit at attempt 1, in a new child, and the numbers of `TypeOK`
begin again. Of the gates, the loader's list (`RUNNER_GATES`, workflow/mod.rs:245) lacks "budget" and "no_push".

### The thread table

`ThreadTableProofs` proves for every finite set of sessions and every number of actors and turns (`TableConstants`):

* `TableCorrect`: `Spec => []TableSound`.

The inductive invariant `TInv` adds to `TypeOK` and `CountExact` that no mailbox, the table's or a session's, leads to an actor
that has not begun or has ended (`HeldAlive`), and which places have a mailbox (`PlacesTrue`: a session that has the
thread open has the table's). The sweeper may then set the entry aside only because a count of 0 means that nobody has the
thread open (`Unused`), and `End` may end an actor only because nobody holds it; `OneMore`, `OneLess` and `NoneIn` count.

### Jobs

`JobsProofs` proves for any number of jobs, messages, crashes and failed writes (`JobsAssumption`, `BoundsAssumption`):

* `ReturnedOnceAlways`: `Spec => []ReturnedOnce`;
* `ReturnsSoundAlways`: `Spec => []ReturnsSound`, the type invariant with it.

A job whose last turn fell over *after* its final answer is returned as finished (jobs.rs:443-504, and the test
`a_job_that_failed_after_its_answer_is_reported_finished`, jobs.rs:681). So "finished" has an end that went well to show for it, or a final answer
(`EndedWell`), and "failed" an end that fell over. `Answered` is what the code asks of the replies.

`ReturnedOnce` rests on the front's look at its own log before it writes a note. What a return says was decided long before
it is written, by a driver or the scan, and may have waited in the front's notes, so the inductive invariant `JInv` follows it:
a log bears out what the front holds (`ReturnsBacked`), what waits (`NotesBacked`) and what a driver or the scan is about to
say (`SaysBacked`); a driver past its job's turn has an end to read or the turn broke (`EndToRead`); and a job's log is made
once, after its yes and before anyone opens it (`MadeOnce`), since making it again would take its ends away. A log only grows
from there (`LogGrows`), and `LastEnd` reads an end that is in it (`ReadsBacked`).

### Compaction

`CompactionProofs` proves for any tools, sizes, settings and bounds (`SizesAssumption`, `BoundsAssumption`), whatever the settings
become at a restart:

* `WordsKeptAlways`: `Spec => []WordsKept`, no message's words are lost and none are said twice.
* `ChainSoundAlways`: `Spec => []ChainSound`, the type invariant with it; `PairsKeptAlways`: `Spec => []PairsKept`;
  `MeasureFitsAlways`: `Spec => []MeasureFits`.
* `SweepFreesEnoughAlways`: `Spec => SweepFreesEnough`, an action property.

What is shown is computed from the whole log at each request, and a summary's words are what was shown when it was written, which may
itself hold summaries. So none of the four invariants is inductive; `CompactInv` is:

* `ChainInv`. Each summary lies between two ends of turns, begins at 0 or right behind an earlier one, reaches further than those
  before it, and its text is exactly the messages of the log between its two ends (`Said`): nested words are counted once, when written.
  `LinkText` and `SummaryText` show it of the two ways to write one, and `ShownIs`, `WordsRead` and `LinksShown` read what the log
  shows off such a chain: each summary that no later one swallowed, and the messages past the chain's end.
* `PairsSound`. A result stands right behind its call, and only the call that is running waits for one. With `ChainInv`'s ends of
  turns no summary can come between the two, and `SentForm` shows that both get the same form.
* `RangeSound`. The range a summary is asked for, and which outlives several awaits, still reaches further than every summary: nothing
  else writes one meanwhile.
* `MeasureSound`. No mark was appended since the measure was taken, and it was not taken between a call and its result; so what it
  counted is shown first, and as it was. `Grows` and its lemmas say what an append leaves as it was.
* `BatchesSound` and `TurnSound`: a batch reaches to the end of a turn, and a turn that works has a message behind the last end.

`SweepFreesEnough` compares the tokens shown before and after a step, and the rule compares two projections that are never
written: the log with the sweep it would write, and the log with the last sweep written again. `SweptCounts` shows that the appended sweep
shows what the projected one did, place by place and form by form, and `SweptBefore`, with the invariant that a sweep reaches to a place of
the log (`SweepsSound`), that a sweep up to the calls swept before changes nothing; `StepsWriteElse` that no other step writes one.

Sizes are sums over sets, and the induction the library offers takes an operator; `SumExists` and `AddsGrows` take a least
counterexample instead.

### Not proved

Liveness under fairness is out of the prover's reach and stays with TLC. Of the safety properties only the runner's `SpendHeld`
is model-checked and not proved: it compares sums of costs with a step's figure over all its children, and the fold's own sum is a function over
the records that each event would have to be followed through.

## 5. Where the code and its documents disagree

One is a run of the project, with the comment it contradicts quoted in `PROJECT.json`:

* `runner_raise` (`LogFolds`): a step that failed is retried by a person, and the retry would start over a spent figure. The
  runner asks for a raise at the same gate. That ask remembers the move it interrupted, which is the *answer* to the first ask. When the raise
  is written the fold hands that move back; the answer standing now is the raise, so a second raise is written,
  and no ask waits for it: the fold refuses the log from then on, and no task can read the run again.

The others are kept as configurations: `tlc -config <file>.cfg <module>` shows the trace, in the smallest instance
that has it. The module is the longest of `MCThread`, `MCThreadTable`, `MCLogStore`, `MCKeepAwake`, `MCRunner`, `MCRunRegistry`, `MCJobs`,
`MCCompaction` that the configuration's name begins with. The three named `Traces` hold several such properties: `tlc -continue` shows
them all.

| Configuration | Property violated | What the code does |
|---|---|---|
| `MCThreadLost` | `NothingLost` | when the emergency compaction's call fails, the inbox is dropped with the turn: an accepted message never reaches the log |
| `MCThreadTableRace` | `OneTurn` | two sessions that build the same thread each spawn an actor, and both resume it |
| `MCLogStoreRace` | `NeverDamaged` | the length of a file is taken after its events, without the lock: an append of another process in between goes unseen, and the next append of the handle repeats its seq. The comments (store.rs:107-110, 352-356) say that a seq is never written twice, since an append catches up first |
| `MCKeepAwakeOn` | `OnWhileWorking` | a hold between the last release's counter and its lock relies on a child that is then stopped |
| `MCThreadAnswer` | `AcceptedAnswerStands` | an interrupt that comes after an accepted answer, and before the turn is polled, discards the answer |
| `MCThreadInterrupt` | `InterruptStands` | a crash between `interrupted` and `turn_ended` makes the restart continue the turn a person stopped |
| `MCThreadTableSweep` | `UnloadsOnlyIdle` | a request through a borrowed mailbox starts a turn between the sweeper's question and the removal |
| `MCLogStoreShared` | `DamageIsBlind` | two handles of one process share the lock: both catch up, then both write the same seq. The comment (store.rs:352-356) says that their turns interleave without a clash, which holds of appends that do not overlap |
| `MCRunnerStale` | `ReportIsOwn` | a retry goes on in a fresh child under the step's next number, while the child's prompts count from one: the attempt after it reads from the wrong prompt and may close on an older report |
| `MCRunnerFrees` | `RaiseFrees` | a raise is weighed against the step's closed attempts, while the park counts the one in flight too: after a crash in an attempt that spent its figure, a raise below what it spent is written, and the run parks again. The doc comment (runner/mod.rs:545) and a test's (runtime/tests/runner.rs:9238) say that such a raise is refused |
| `MCRunRegistryTraces` | `AnswersItsAsk` | the runner compares the gate's name: an answer to one ask is applied to a later ask at the same gate |
| `MCRunRegistryTraces` | `ElsewhereIsElsewhere` | a call between a task's slot and its lock file is told that another process drives the run, when it is its own that stops |
| `MCJobsTraces` | `FinishedEnded` | a job whose turn breaks without an end in its log is returned as finished |
| `MCJobsTraces` | `RunsAsApproved` | a visitor opens the job's thread before its driver: the job runs with the visitor's narrow rights |
| `MCJobsTraces` | `NumbersDistinct` | two jobs approved before either reads the log get the same number |
| `MCCompactionTraces` | `BatchFreesEnough` | a link's worth counts the prefix and the schemas, which it does not free (here with `Overhead` 3) |
| `MCCompactionTraces` | `FillCountsAppended` | the checklist's reminder is counted as a message of the context, so the next fill misses the first one appended |
| `MCCompactionTraces` | `OnlyMarksRewrite` | a newer result of a tool takes the place of the one that stays, and the older is stubbed in mid-turn with no event |

Crashes show more of the kind, each with a property of a passing run once crashes are let in (the run's configuration with
`MaxCrashes` 1, and `MaxReturns` 1 for the job's note): what a turn left unread is remembered by a count in memory, which a crash before the next turn
forgets (`MidTurnAnswered`); a switch is logged before its yes, so a crash in between records it as withdrawn
(`WithdrawnNeverMoved`); a restart that withdraws an idle proposal shows the thread running for good (`NothingRunsIdle`); a
job's note behind an answer hides it from the restart (`AnswerContinues`); and a message held while a reply streams is lost
(`dropped` in Delivery). And with `Faults = {"knowledge"}` a switch whose knowledge cannot be read moves the runtime and not the
log (`ProjectAsLogged`).

Seen while modelling, and not stated as a property: a push after a rebuild, when it is the first effect of a step without
checks, is made without the write lock; a crash between `route_taken` and the ask above the ceiling skips that ask;
one between `step_finished` (failed) and its ask loses the offer to retry; a crash between a yes and `create_job` loses the
job; recording a start-up ask shows idle while a proposal waits; an actor that lost the race for its thread waits for a person
no mailbox reaches; a return whose first write fails is reported as "could not be run".

A property that such a trace breaks also stands in a passing run wherever it holds without
that cause: `MidTurnAnswered`, `NothingRunsIdle` and `AnswerContinues` without crashes, `WithdrawnNeverMoved` without
crashes, `ProjectAsLogged` without failed reads, and `NeverDamaged` as `DamageIsBlind`, for any handles that take turns and
go by no length of a file they have not read.

## 6. What is left out

* Of the turn: a skill as the start, `finish_step`, the wall-clock, token and dollar budgets (the iteration
  budget takes the same exit), knowledge that cannot be read before the loop, appends that
  fail, compaction inside the turn (one step there that succeeds or fails; its rules are module Compaction's) and the retries inside an adapter.
* Of the questions: what an allowed rule adds to the rules file, boundary asks, a job's own refusals and
  the harness tools that ask nobody. Of an answer the model keeps yes, no and withdrawn: "corrected" follows the code
  of "no".
* Of the actor while idle: pin, remember, rename, set mode, report, subscribe, compact, and
  identity announcements; none changes what the properties tell apart.
* Of the table: the index, listings and creation. Of the guard: the drop at exit and the status text.
* Of the runner: budget warnings, which change nothing a move reads; amendments and the texts of prompts, comments and
  asks; the base a step is stacked on; what the checks run. Three ways into an ask: the gate `no_start_record` (a start
  the log has no record of), the gate `checks_error` (git fails to read the worktree), and a checkpoint whose template cannot be
  filled. A provider retries inside a call.
* Of the registry: watchers, status ticks, notices, the keep-awake hold while a run waits, leads that cannot be read.
  `stop_tasks` comes with the daemon's end and is a `Crash`.
* Of jobs: their place in the working count, questions forwarded to the front, the text of a return, all replies but the last of a
  kind. A write to the front's log fails; one to a job's own log does not.
* Of compaction: pins, provider blobs, skills, replies of several calls (Projection has their hold-back), and how
  the ratio's average moves between two samples (anywhere between them).
* Text: formatting, summaries' wording.
* Components without a module, and why: the permission rules' shell parser and the rules are sequential functions over strings;
  memory, brief and knowledge are best-effort side jobs; providers, tools, skills and the wire are adapters whose outcomes
  the models choose freely; the terminal client draws what the daemon says.

## 7. What could follow

1. **Rules**: the precedence of `decide` as a pure function, against "the strictest rule that matches".
2. **Sessions**: subscribe and the notices, so that a client's view is shown to follow the log.
3. **Memory**: the cursor in the log of the notes a side job has read.
4. Proofs: the runner's `SpendHeld`, from `ApartInv`.
