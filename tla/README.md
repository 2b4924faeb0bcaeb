# A TLA+ verification of sediman-agent

sediman-agent ("OpenSkynet", its terminal program "terminator") is an agent that
plans a task with a language model, executes the plan in a browser or with
tools, learns skills from what it did and repeats tasks on a schedule. This
directory holds TLA+ models of the parts of it whose correctness depends on the
order in which things happen: the recovery loop of a run, the server that
several clients share, the orchestrator of concurrent coding agents, the files
of the scheduler, the store of skills and the memory, the gateway to messaging
platforms, the worker and the recordings of the HTTP server, and the main loop
of the terminal program. TLC checks each model on small instances; the TLA+
proof system proves the safety properties of all of them for every value of the
constants.

Contents:

1. [The system](#1-the-system): its parts, their state and how they interact 2.
[The models](#2-the-models): what each module says and how it corresponds to the
code 3. [The runs](#3-the-runs): what TLC checks, the bounds, what the runs show
4. [The proofs](#4-the-proofs): what is proved, and by which argument 5. [What
the code does](#5-what-the-code-does): where it departs from its docs and tests
6. [Not modelled](#6-not-modelled), and the [plan](#7-plan)

Paths below are relative to `src/src/sediman/` unless they start with `src/`.

## 1. The system

The Python package is the program. The Rust terminal interface in `src/crates`
and the desktop application in `src/app` are its clients; the TypeScript library
in `src/packages` and the Go sandbox in `src/sandbox` stand apart.

```
   terminal UI, desktop        messaging platforms        sediman <command>
          | JSON-RPC / HTTP           | gateway                |
   +------v---------------------------v------------------------v--------+
   |  rpc_server.py, api/app.py, gateway/         cli.py                |
   |        one AgentLoop per process, shared by every client           |
   |  agent/loop.py  -> reflection/recovery.py -> post_task/handler.py  |
   |        | steps                                                     |
   |  execution/  tool_dispatch.py  subagents/  browser/                |
   |  agent/system/orchestrator.py (issues, workers, worktrees)         |
   +---------|-----------------------|-------------------|--------------+
             v                       v                   v
     scheduler/cron.py         skills/engine.py     memory/storage
     one file per job          one directory        two text files
             shared by all processes, without locks
```

| Part | State it keeps | Operations | Hard behaviour | What makes it correct |
|---|---|---|---|---|
| **Agent loop**: `agent/loop.py`, `state.py`, `reflection/`, `post_task/` | list of plan steps with status, retry count and fallback mark, an index into the list, iteration and replan counts, signatures of earlier plans, errors | plan, delegate in parallel, execute, reflect, retry, fall back, replan, settle, assemble, post-task | the recovery branches change the list under the index; counters are reset; parallel delegates fail in two ways | attempts are bounded, settled steps stay settled, every failure is reported once, no step is passed over |
| **RPC server**: `rpc_server.py`, `agent/interrupt.py`, `tool_dispatch.py` | one agent with callbacks and a cached executor, one interrupt signal per process, one reader per connection | answer, run, cancel, switch model, close | coroutines interleave at every await; callbacks are saved and restored around overlapping runs; two coroutines read one stream | tokens go to their client, a cancel hits the run it was meant for, every request is answered |
| **Orchestrator**: `agent/system/` | a board of issues with dependencies, status and failure counts; rounds; a git stash | decompose, run a batch of workers, verify, review, retry, replan, integrate | concurrent workers, errors that escape `gather`, issues deleted while others depend on them | dependencies first, every issue decided and reported once, bounded attempts, the stash comes back |
| **Scheduler**: `scheduler/cron.py` | a JSON file per job; per process a cached list and the jobs of an APScheduler | create, update, remove, list, load, fire, record | several processes read and write the same files without locks; writes truncate first; reloads overlap writes | no torn file, no lost change, no job that comes back, a scheduler that agrees with the files |
| **Skill engine**: `skills/engine.py` | per skill `skill.json`, `SKILL.md` and a history of versions; per engine a cache | create, install, patch, roll back, use, delete, read | engines with stale caches, two processes on one skill, a crash between two files | no text lost, caches current, deleted skills stay deleted |
| **Gateway**: `gateway/`, `integrations/` | active sessions, queued messages, a circuit breaker per adapter, running agents, a cursor in a file, the messages seen and confirmed | fetch or be handed a message, queue, command, run the agent, send, confirm, start, halt | coroutines per message, sends that fail, a process that dies between fetching and handling, a platform that sends again | one agent per session, a session that becomes free, no message fetched twice or confirmed unhandled |
| **Memory**: `memory/storage`, `memory/strategies` | two bounded files of entries, caches of them in every store, an index | add, replace, remove, migrate, search | caches nobody invalidates, two processes on one file, file and index written one after the other, a crash between | no entry lost or made up, limits kept, an exact search |
| **Task API**: `api/app.py` | a queue, a table of tasks, one worker, a lazily made agent and browser | submit, run, look | one worker for all clients; what it makes on the way may fail | every task reaches a final status |
| **Recordings**: `agent/recording_manager.py`, `agent/screen_recorder.py` | recorders by name, the active one, a capture each | start, stop, expire, convert | requests that overlap across an await, a stop that is repeated | a recording that goes on can be stopped, converted once |
| **Terminal**: `src/crates/sediman-tui` | one queue of events, the busy flag, the interrupt flag, the messages of the screen | submit, interrupt, reset, forward, show | events that do not say which task they are from; one interrupt flag for all tasks | a message shows its own task, an interrupt is heard, the terminal does not stay busy |
| **Subagents**: `agent/subagents/`, `delegate.py`, `execution/` | sessions with depth and budget | spawn, spawn in parallel | bounded concurrency | order of results, depth limit |
| **Browser**: `browser/`, `agentbrowser/`, `openbrowser/` | one shared browser, or an external process | start, stop, act | start and stop overlap | at most one browser, no use after close |
| **Others** | | | | see [6](#6-not-modelled) |

How they interact: the servers call `AgentLoop.run` and receive callbacks
(`on_step`, `on_streaming`) from it; a run calls the executors step by step and
the recovery strategy in between; its tool loop looks at the process-wide
interrupt signal that `agent.cancel` sets; the post-task handler and the tools
write jobs and skills, which other processes read from the file system. Every
process has memory stores of its own on the same two files. A terminal opens a
connection per request to the RPC server and cancels by closing it.

## 2. The models

| Module | Models | Composes |
|---|---|---|
| `PlanLoop` | one call of `AgentLoop.run` | |
| `RpcServer` | the server's coroutines, with a run seen through its callbacks and the signal | the shared agent, executor and signal |
| `SystemOrchestrator` | one call of `SystemOrchestrator.run` with its workers | implements `TaskGraph` |
| `TaskGraph` | the promise of a workflow over dependent issues | |
| `CronJobs` | the job files and the processes on them | |
| `SkillStore` | one skill and the engines on it | |
| `Gateway` | the listeners, the adapters and the runner behind them | three listeners and the platforms' way of handing out messages |
| `MemoryStore` | the memory files, the stores and the index of the strategy | stores of several processes |
| `ApiServer` | the worker of the HTTP server and the recordings | worker, requests, recorders, the shared browser |
| `Terminal` | the main loop of the terminal and its tasks | tasks, streams, the screen |

`MC...` modules give the constants values for TLC, `...Proofs` modules hold
theorems. In every module an action is what the code does between two points at
which another actor can run: a whole synchronous function, the code between two
awaits, or the code up to the next access to a shared file.

### PlanLoop

| State | In the code |
|---|---|
| `pc` | where `run()` stands |
| `plan` | the `ManagerPlan` |
| `steps`, `listed`, `cur` | `state.plan_steps`: `steps` are all that ever were, `listed` those still in the list; `current_step_index` |
| `iteration`, `replans`, `sigs`, `errors` | the fields of `AgentState` of those names (`errors` is their number) |
| `seen`, `verdict` | what the observation and the reflection come to |
| `jobs`, `background` | jobs stored by the run, background work started |
| `attempts`, `cut`, `unreported` | history, read by properties only |

The language model and the browser choose plans and results freely; the
`Reflector` is translated (`Verdicts`), so that the verdicts are those its
thresholds allow. Each branch of `handle_reflection_result` is an action
(`Accept`, `Retry`, `FallBack`, `ReplanDuplicate`, `ReplanNew`, `Settle`), and
its guard negates the branches above it.

Four names in this code do not resolve (`random` in `recovery.py:61`,
`AgentPhase` in `delegate_executor.py:132`, `self._recorder` in
`handler.py:74`, `AgentState.PlanStep` in `turbo_handler.py:82` and
`url_handler.py:59`): Python raises when it gets there. The variable
`unresolved` says which of them a build lacks. The runs and proofs cover the
program as it stands and the program its text intends; the recovery behind a
first retry exists only in the second.

Things the model shows by their absence: `Reflector.reflect` never returns
None, the retry budget of `Budget` is used by nobody, and
`try_lightweight_recovery` can never make its HTTP request (proved as
`HttpRecoveryIsDead`).

### RpcServer

A client is the sequence of lines it sends. `handle_connection` and
`read_cancel` are two coroutines per connection (`MainLoop`, `Watcher`), a run
is a third actor (`Progress`, `StreamPlan`). What the run of `PlanLoop` does
matters here only through the callbacks it calls, the executor it caches
(`captured`) and the interrupt signal it looks at, so a run is reduced to
"plan", "steps", "call" (inside a tool-loop round) and "work" (inside the
browser agent or a subagent). A callback is the set of runs it notifies, since
`on_step` wraps the one it replaces.

`due`, `astray`, `mixed` and `crossed` are history variables. Not modelled:
token accounting, the text of answers, and requests that touch none of this
state, which are all "call".

### SystemOrchestrator and TaskGraph

`issues` holds every issue the run created; `onBoard` is FALSE for those a
replan deleted. A worker is the field `at` of its issue ("begin", "code",
"verify", "review", "giveUp"), and stands between two awaits. Subagents,
verifiers, git and the language model choose their results; `writable` says
whether `_to_scratchpad` works in this build (it does not in the repository,
see 5), `isolated` whether there is a repository to make worktrees in.

`Prepare` is `run()` up to the stash. It leads into the `try` (`Start`), or out of
`run()` at once (`StashTimesOut`): `stash_push` gives git 15 seconds and raises,
with the stash made or not, where no `finally` follows. The git commands of the
`finally` itself may raise too, once the stash is popped or could not be.

Nothing in the repository constructs the orchestrator yet; it is described as
"Terminator Mode" in `src/docs/ROADMAP.md:52`.

`TaskGraph` is the abstract specification: issues are only added at the end, an
issue is decided once, and it is resolved only when all it depends on is.
`SystemOrchestrator` implements it under the mapping that forgets workers,
rounds, the board and counts (`ImplementsTaskGraph`).

### CronJobs

A job's file is absent, emptied by `write_text` and not yet filled, garbled by
two writers, or a content; of a content the model keeps whether it is enabled,
what becomes of its expression, and how many results it has. An expression is
"good", or "refused" by `CronTrigger` although `validate_cron_expr` lets it
through (it ends the load at that job), or "short": not of five fields. Only the
command line, which does not validate, writes the last; `_load_jobs` passes over
such a job and goes on, so the load is "ok" and the job is not scheduled.
`CronManager` is synchronous, so the operations of one process never interleave;
those of two processes do at every access. An operation is `op[p]`: what it has
read and what it will write. `Daemons` are the processes with a `CronScheduler`:
what they have `loaded` is what their APScheduler will fire.

`table` (history) is what the files would be if every operation were atomic,
`clashed` are the jobs two processes worked on at once or a writer died on,
`touched[p]` those whose file changed since `p` last began to load, `gone[p]`
those `p` removed.

The creation through the agent (tool, schedule handler, plan) and the command
line does not reload a scheduler, the HTTP API and the RPC removal do; both are
possible for any daemon.

### SkillStore

The directory of one skill (`dir`, `json`, `md`, `archive`) and the engines with
their caches. A text stands for everything a skill says, numbered by the call
that brought it. An engine drops its cache only when the modification time of
the directory of all skills has changed, looked at every five seconds, and that
changes only when some skill is created or deleted: so a read finds the cache or
the file, whichever. Between the two reads of one call the cache does not age.

The calls of one process take turns (`Free`); every file is replaced by a rename
and is one action. Two engines of one process behave as two in two processes
that happen not to overlap, so the instance has one engine per process. `stale`
(history) are the engines another one has overtaken since they read or wrote,
`spoilt` says that such an engine wrote all the same, `torn` that the last call
that wrote `skill.json` did not come to `SKILL.md`; `ever`, `born`, `forgot` and
`interrupted` are history too.

`Raise` ends a call before any of its writes: at the latest when the directory is
gone, but any write may fail, and `to_skill_md` is evaluated between the two
files on fields the validator does not check. What was written stays, and the
engine's cache is not touched: it is then behind `skill.json`, or, in a patch,
ahead of it. `Crash` is the same for all calls of a process, and loses its caches.

`PatchAlias` is `patch` by an engine that has not cached the skill: `read` then
returns the very object it put in the cache, and the updates show in what
`ensure_skill` takes for the existing skill.

Left out: usage counts, the copies of `SKILL.md` in the history, the list cache,
the project directory that shadows the global one, `rmtree` file by file. The
two archive writes of `rollback` have one content and are one action.

### Gateway

| State | In the code |
|---|---|
| `stage`, `outcome` | where the coroutine that handles a delivery waits, what became of it |
| `active`, `pending`, `failures`, `tripped` | `_active_sessions`, `_pending_messages`, the circuit breaker of `BaseAdapter` |
| `running` | `GatewayRunner._running_agents` |
| `cursor`, `saved` | `WeChatListener._sync_buf` and its file |
| `seen`, `acked` | the deduplicator, the envelopes confirmed |
| `wired` | adapters registered with the runner |
| `sent`, `arrived` | what the platforms send (external) |
| `halts`, `forgot`, `missed` | history |

A delivery is one handling of one message. Between two sends nothing suspends
it, so from one send to the next is one action: `Begin` (from the listener
through the adapter into the runner, up to the first send), `SendEnds` (the
send comes back or raises, and what follows), `Acknowledge`. `GatewayRunner`'s
agent is a stand-in (`_run_agent`) that awaits nothing but sends. `Halt` is a
crash or a shutdown: what the process held is lost, what a platform has and the
cursor file are not. `SaveCursor` writes in place and swallows errors, so a
halt or an error may leave no cursor.

`Poll` is a round of `_poll_loop`. A response that brings a cursor moves and saves
it (`Advance`), one that brings none leaves it (`StandStill`); tasks are made of
its messages in either case, and in the second the next round brings them
again. `HaltInPoll` is a crash between the save and the tasks. `missed` are the
messages it left behind the saved cursor without a task, `forgot` those that were
given a task while the file did not hold a cursor past them, or no longer does.

External assumption: a platform asked with an empty cursor hands out everything
again, and Slack repeats an envelope that was not confirmed.

### MemoryStore

A file is a bag of texts (the order of entries is left out), `cache[s]` what a
store has read of it, `op[s]` the call a store is in: it has read, or begun to
migrate, or written the file and not yet the index. A text is a model value
with its length, what `strip` makes of it and what a file that holds it is read
as: a text with the separator in it comes back as several. `behind` (history)
are the caches another store has overtaken, `drifted` are the texts about which
something happened that the index does not follow, errors of `Index` and
`Unindex` among it: both are swallowed. Calls of one process are synchronous;
those of two processes interleave at every access.

### ApiServer

The worker (`Take`, `RunEnds`), submissions, the requests about recordings
(`StartBegins`, `StartEnds`, `StartFails`, `StopBegins`, `StopEnds`,
`ConvertEnds`) and the recorders (`Expire`, `CaptureEnds`) are coroutines of one
loop; an action is what happens between two awaits that may suspend. A session
number is the index into `rec`. `overlapped` (history) are the names on which a
start was at work beside another request. `AgentLoopRaises` leaves the browser
set and unstarted, as the code does.

### Terminal

`queue` is the channel of the main loop; every event has its task in the model
and not in the code, and the model uses it only to tell what a message shows.
`tasks[t]` is a coroutine (`at`, `inbox`, `out`), and its message: `shown` says of
each step on the screen which task it is from, `result` whose result it has.
`AppendStep` drains the oldest steps above `StepsCap`, which is 500 in the code.
`beside` and `disturbed` are history: whether the task was ever alive at the same
time as another, and whether it was that or interrupted or had a message put
behind its own. `LoopHead` and `Timeout` are the two places where
`run_agent_task_inner` looks at the flag. A key is taken at any time: it was
pressed after the last event taken and before those now in the queue. A skill
is one call without an interrupt; an external coder holds the main loop itself
and is one action. "-- Interrupted --" and what the screen draws are left out,
as are tokens that are only streamed.

## 3. The runs

| Run | Checks | Distinct states |
|---|---|---|
| `plan_loop` | `TypeOK AttemptsBounded FailuresAccounted NoStepPassedOver SettledStaysSettled` | 82 355 |
| `rpc` | `TypeOK OneReader CallbacksFollowRuns InterruptIsFresh CancelSticks HangupCloses` | 245 369 |
| `orchestrator` | `TypeOK DependenciesFirst ResultIsExact AttemptsBounded ImplementsTaskGraph` | 93 956 |
| `cron` | `TypeOK TableIsSerial SchedulerFollowsFiles` | 3 709 543 |
| `skills` | `TypeOK CacheIsCurrent MarkdownAgrees HistoryComplete DeletedStaysDeleted` | 3 302 678 |
| `gateway` | `TypeOK OneAgentPerSession FetchedOnce ConfirmedWasHandled SessionsBecomeFree` | 187 368 |
| `memory` | `TypeOK CacheIsFileUnlessBehind WritesAreFaithful SearchIsExact` | 1 159 546 |
| `api` | `TypeOK RecordingsCanBeStopped ConvertsWhatItStopped TasksAreAnswered` | 1 129 795 |
| `terminal` | `MessagesAreExact InterruptIsHeard SpinnerStops` | 2 709 097 |
| `rpc_stream`, `rpc_cancel`, `skills_patch` | one property each that the code violates, see 5 | |

What the passing runs show, and why their bounds are enough:

- **plan_loop**. Whatever the order of retries, fallbacks and replans, a step is
  started at most `2 * (MaxRetries + 1)` times, a settled step is never touched
  again, the failed steps are exactly the errors the user is told of plus those
  replaced by a replan plus failed delegates, and the index passes no unsettled
  step unless a purge or a failed pool is to blame. Eight plans: one of every
  kind, two that have the same signature, delegations of one and two subtasks.
  `MaxIterations = 11`, `MaxRetries = 2`, `MaxReplans = 2` let a step exhaust its
  retries, fall back, exhaust them again and be replanned; `PurgeAfter = 1`
  (10 in the code) makes the purge of the list happen.
- **rpc**. Three connections and four workloads: a run with a cancel and another
  run pipelined behind it, overlapping runs with a cancel from a third client,
  three runs that end in any order, a change of model between runs, and lines
  that are no requests. One step of two tool-loop rounds is enough for a signal
  to arrive before, in and after a round. Callbacks follow the runs unless runs
  overlap and end out of order (then a stale callback stays, which
  `crossed` records), an interrupt belongs to a run that was cancelled after it
  began, a cancel sticks until another run begins, and a client that hangs up is
  let go.
- **orchestrator**. Six lists of dependencies (independent, chain, fork, one on an
  issue that only a replan creates, one on an issue that never exists, none), two
  workers, two failures and two rejections per issue, four rounds, one replan,
  with and without worktrees, with and without the scratchpad error, and a stash
  that takes too long.
- **cron**. A server and a second process on two jobs, one recorded run, one
  update, one crash, expressions of all three kinds. Two jobs are the least for
  a load that reads one while the other changes; what goes wrong between
  processes needs only two of them.
- **skills**. An engine of a server and one of a command, four versions, two
  texts, one crash, any number of calls that raise: the least in which both
  engines have replaced what the other has cached, one of them leaves a call
  between `skill.json` and `SKILL.md`, and a later call repairs what it left.

- **gateway**. Seven loads of up to two messages: two in one chat of each kind of
  listener, a command beside a message, two platforms at a time, an unwelcome
  sender. Two deliveries of a message, two failures to open a circuit (five in
  the code), two crashes or shutdowns. A session has one agent, whichever send
  fails; a message behind the saved cursor was given a task unless the process
  died between save and tasks, and one task only unless its response brought no
  cursor or a cursor past it did not stay in the file; a message confirmed was
  handled, or a copy of it was dropped as the duplicate of one still at work.
- **memory**. The server's strategy, the store made for one request beside it,
  and the strategy of a second process; two texts and one that is read as both;
  a file for two entries and one for one, old memory over the limit; three
  calls, one crash. A third call is what it takes for a store to fall behind,
  notice nothing and write.
- **api**. Two tasks, three requests about recordings on two names, three
  recordings: a start beside a start, a stop beside a start, a repeated stop,
  and a name taken again while an older recording of it is converted.
- **terminal**. Two tasks, three lines of the server: a stream has then more to
  bring than an interrupted task may still report, and the second task meets
  every event the first one can leave behind. `StepsCap = 2` stands for 500, so
  that a message loses steps. Three tasks of one line have too many states for a
  run of this size; `RpcProofs` proves the two safety properties for any number of
  tasks and any cap.

Every property of these runs is broken by a plausible bug in a mapped definition
(the operators commented "Mutant:", which nothing else uses).

*Deadlock* is checked but for `skills` and `memory`, where the bound on calls
may leave nothing to do, and for `gateway`, `api` and `terminal`, which wait for
messages, requests and keys that may never come. The models of runs that end say
so (`Finished`, `Over`, `Stopped`).

*Fairness.* `PlanLoop` and `SystemOrchestrator` have weak fairness of their next
step: everything they await returns or raises. `RpcServer` has weak fairness of
every connection's coroutines and of every run, as asyncio schedules ready
coroutines in turn and what the executors await returns or raises; none is
assumed of clients, which may stop sending at any time (`HangupCloses` speaks of
those that close). `Gateway` has weak fairness of each delivery (its sends
return or raise) and of polling, `ApiServer` of the worker's two steps (budgets
bound a run), `Terminal` of the main loop, of every task and of every stream:
the server ends each run, closes, or is silent for the 120 seconds after which
the reader gives up. A skill called from the terminal has no such limit; there
it is assumed of the server, as is that an agent does not send lines for ever.
The three models of files have no fairness: their properties are safety.

## 4. The proofs

`tlapm` checks every theorem from nothing. Each file proves an inductive
invariant `IInv`, one step per action, and derives the properties from it.

**PlanLoopProofs** (any set of plans, any bounds, any set of unresolved names).
`IInv == TypeOK /\ JobsOnce /\ Phase /\ Charged /\ VerdictSound`. `Phase` says
which steps may be in progress at which `pc`; `Charged` ties the attempts of a
step to its retry count and its fallback mark, which is why a reset of the retry
count cannot happen twice; `VerdictSound` says what a verdict implies about the
step it is about, which is why the guard of the HTTP recovery is false.
`Books` and `InOrder` strengthen it for `FailuresAccounted` and
`NoStepPassedOver`. Proved: `TypeCorrect`, `StartsAreBounded`,
`HttpRecoveryIsDead`, `SettledStepsAreFinal`, `FailuresAreAccounted`,
`StepsAreTakenInOrder`.

**SystemOrchestratorProofs** (any decompositions and limits).
`IInv == TypeOK /\ IssuesSound /\ AttemptsBounded /\ Phase /\ DependenciesFirst`.
`IssuesSound` has, per issue, that the status fits the worker (`StatusFits`),
that attempts are paid for by failures (`Paid`), that the result lists agree
with the status (`Listed`) and that workers exist in the batch only (`Placed`).
All invariants of the run are proved, that no worker outlives its round
(`NothingRunsBetweenRounds`), and
`OrchestratorImplementsTaskGraph`: the initial state maps to the initial state
and every action maps to `Add`, `Resolve`, `Fail` or a stutter. That an issue
resolved is one whose dependencies are resolved *at that moment* is what
`DependenciesFirst` is needed for: they were when the worker was started, and
nothing un-resolves or deletes them. `StashComesBack` is about `run()` from its
`try` on; nothing pops a stash `stash_push` made too slowly.

**CronJobsProofs** (any number of processes, daemons and jobs).
`IInv == TypeOK /\ Serials /\ Follows /\ Forgets`. `Serials`: a job that is not
clashed has at most one writer, which finds the file as it read it, and its file
is the table's. `Follows` speaks of loads in progress too: what a load has read
so far agrees with the files not touched since it began: it has tried the enabled
jobs of five fields and passed over the others, and its misfits are what cuts
the load off. `Forgets` speaks of the
lists being read and the caches: no cached list shows a job its process removed
(`ListsForget`). The properties of the run are all proved.

**SkillStoreProofs** (any number of engines and processes, any bounds). `IInv ==
TypeOK /\ Calls /\ Cached /\ Bare /\ Current /\ MdFollows /\ Kept /\ Alive /\
HistoryComplete /\ DeletedStaysDeleted`. `Current` extends `CacheIsCurrent` to
calls: what an engine that nobody has overtaken has read is what the file says,
until it writes. `Cached` says that until then the cache has what the call read,
which is why a call that raises before `skill.json` leaves a cache that is
right, unless `patch` changed the cached object. `MdFollows`: the files agree,
or the call that is about to write `SKILL.md` has written `skill.json`, or none
will (`torn`). `Kept` is what `HistoryComplete` needs to survive an archive
write: archived versions are below the current one or equal to it in content, so
nothing is overwritten, and a call that has archived finds its text there.
`Alive` is `DeletedStaysDeleted` for calls that are about to write. All five
properties of the run are proved.

**RpcProofs** has the proofs of both ends of the connection. `RpcServer` (any
connections, any lines, any limits):
`IInv == TypeOK /\ OneRunEach /\ Stacked /\ SignalIsMeant`. `OneRunEach`: a
connection is "running" because of exactly one run without an answer, and only
then does `read_cancel` wait. `Stacked` is why callbacks are right as long as
runs end last-in first-out: what the runs of an agent have saved forms a stack,
each having the callbacks of those that began before it. `SignalIsMeant`: while
the signal is set every active run has been cancelled, and it is set for every
run a cancel was meant for. All five safety properties of the run are proved,
and two facts no run lists:

- `TokensStrayForACause`. `TokensReachTheirClient` is false (run `rpc_stream`);
  the theorem says by what alone. On an agent that never served two runs at a
  time the streaming callback belongs to its one active run (`Stacked`, and
  `MixedIsSeen`: two active runs, or a run that ended before a later one, make
  the agent mixed), so a token of planning never strays. What remains is the
  callback the executor captured when it was made, which no step changes
  (`Attached`).
- `HangupsStay`, the safety core of `HangupCloses`: the end of a stream stays the
  last line, whoever reads the lines before it, and no run answers into a
  closed connection, because `OneRunEach` has its connection "running".

`Terminal` (any number of tasks and lines). `Basic` has the types, `Placed` (what
a task has still to report fits the place where it stands) and `Heard`: since
the flag was set a task has reported nothing, or one step and has still to look
at the flag; and nothing at all while it waits for the stream or the flag is
clear. That is inductive although a new task clears the flag, because the clear
also ends the count (`late`), and gives `InterruptsAreHeard`. `Messages` is the
invariant for `MessagesOfTasks`. Of each task it follows what is under way: its
events in the channel and then what its coroutine has still to report.
`Ordered`: these are in the order step, result or error, "done". `Fits`: a task
that has not ended has only steps under way, and no result or error but that of
its end. `Apart`: a task that begins while another is under way disturbs both.
`Shown`: the message of an undisturbed task has nothing foreign, its length is
that of what was sent and taken, up to the cap, it is the last of a busy screen
while the end is ahead, and has the result afterwards. `Unmixed`: interrupted,
reset or not, the message of a task never alive beside another has steps of its
own and of the terminal only. The key
lemma is `QuietIsOver`: an undisturbed task of which nothing is under way cannot
be shown wrong by anything that follows, which is why a second task need not
disturb the first. `SpinnerHasACause`, the safety core of `SpinnerStops`: a busy
terminal has still to hear "done" of its newest task.

**GatewayProofs** (any platforms, messages, sessions and traffic). `IInv ==
TypeOK /\ CopiesInOrder /\ OneAgentPerSession`; deliveries of a message are
numbered as they begin, which is what makes "the next copy" a new one.
`Fetching` extends it for `FetchedOnce` (messages arrive in order; what a
cursor, in memory or in the file, has passed was given a task or is `missed`; a
message with a task whose cursor never slipped lies behind both cursors, has no
second one and gets none), `Confirming` for `ConfirmedWasHandled` (a message
that was seen has a delivery that is no duplicate, and whoever waits to confirm
has an outcome). `HandledOnce` says that what became of a delivery is decided
once: `Decided` ties the outcome to the stage, so neither the error notice after
a result that could not be sent, nor the confirmation, nor the next process
finds one to overwrite.

**MemoryStoreProofs** (any stores, processes, texts and limits). `IInv == TypeOK
/\ MigratesUnread /\ CacheIsFileUnlessBehind`: a store that migrates has read
nothing yet, so its write cannot leave a cache that differs. For
`MemoryIsNotLost` (`WritesAreFaithful`), `Relies` says on what a call relies
between its read and its write: what its store has cached would still accept it,
and a migration finds the file empty unless another store has overtaken it.
`IndexFollows` is the invariant of `SearchesAreExact`, text by text: about a
text to which nothing happened that the index does not follow, at most one call
owes the index something, it is known what (`Owes`), and if none does index and
files agree. A swallowed error of the index drifts the text of its call and no
other. The length of a file is the size of the set of its characters (one per
entry, copy and place), so the sums that would need induction over data are
cardinalities of finite sets. Assumed: there are finitely many texts, and what a
file is read as consists of stripped ones.

**ApiServerProofs** (any tasks, requests and names). Besides the
types and `RecordingsCanBeStopped`, `IInv` says that the manager files a recorder
under its own name, that requests which overlap a start are noticed, that while
a request for a name is at work nothing of that name records unless they
overlapped, and that what a request stops is its own. `TasksInPlace` (a task is
"queued" exactly if it is in the queue, where it is once, and "running" exactly
if the worker has it) is an invariant, proved as `TasksAreKept`; it gives
`TasksAreInOrder`, the safety core of `TasksAreAnswered`: a step moves a waiting
task up by one place or leaves it, takes only the first, the one that runs comes
to nothing but an answer, and answers stand.

Assumptions on constants are those the modules name (`...Assumption`); TLC
evaluates them in every run.

Model-checked only: the four liveness properties, `HangupCloses`,
`SessionsBecomeFree`, `TasksAreAnswered` and `SpinnerStops`. Liveness and
ENABLED are beyond the installed provers. What each of them rests on is proved:
`HangupsStay`, `OneAgent` with `HandledOnce` (a session marked busy has exactly
one coroutine that will free it, and it comes to its end once),
`TasksAreInOrder`, `SpinnerHasACause`. The last step, that under the stated
fairness something that is there to be done is done, is TLC's. Invariants that
no run lists (`TasksInPlace`, `MixedIsSeen`, `StraysHaveACause`, `Decided`,
`BusyForATask`) held on the runs' instances before they were proved.

## 5. What the code does

Found while modelling; the first three have a run that shows them.

- `rpc_stream`: the `DirectExecutor` keeps the streaming callback of the first
  run (`loop.py:221`), so a later run streams its tokens to the first client.
- `rpc_cancel`: the interrupt raised in the tool loop is caught as any other
  exception (`direct_executor.py:169`), the step goes on in the browser agent
  and the run is answered as a success.
- `skills_patch`: a patch by an engine that has not read the skill before, which
  is how the agent, the healer and the API patch, archives the new text in
  place of the old and resets the version to 2 (`engine.py:176`).

Noted, without a run of their own:

*Agent loop.* `handler.py:74` reads `self._recorder`, which nothing sets: a run
that has assembled its result raises, perhaps after it stored a job. A replan's
steps run after those the old plan has left. The signature of the first plan is
not recorded, so it may be repeated once. When the delegate pool raises, the
steps it was given stay pending behind the index and are never run.

*RPC server.* While a run is served, `read_cancel` reads the lines behind it and
drops those that are no cancel (`rpc_server.py:1147`); after a first cancel it
stops reading, so later requests survive. The `memory.*` handlers and
`record.stop` import modules that do not exist.

*Orchestrator.* A `stash_push` that takes more than 15 seconds raises before the
`try`: the user's changes may stay in the stash (`orchestrator.py:226`).
`_to_scratchpad` passes a keyword `SharedScratchpad.write` does
not have (`orchestrator.py:456`): `run()` raises after the first resolved issue
and integrates nothing. After a replan the deleted issues stay in
`result.failed`, so integration never follows a replan; an issue is attempted up
to `max_failures + max_review_failures - 1` times, and only once when worktrees
are used; the sleep of the round loop is dead.

*Scheduler.* An expression of five fields that `CronTrigger` refuses makes a load
raise, and the jobs behind it are not scheduled (`cron.py:404`); one that has not
five fields, which the command line accepts (`cli.py:936`), is passed over with a
warning (`cron.py:400`): its job stays enabled and never runs. Jobs the agent
creates do not fire before the server restarts, and those it removes keep firing
until then: the tool writes the file without dropping the list cache or
reloading (`agent/tools/misc.py:242`). Every process with a scheduler loads
every job, so one job may fire in two processes at once (`cron.py:411`).
Two processes that write one job undo each other's change or spoil the file
(`cron.py:166`), and an empty or torn file stops every list and load.
`_trim_result_history` rewrites what it read and drops a line appended in
between (`cron.py:194`).

*Skills.* A call that raises behind `skill.json`, in a write or in `to_skill_md`
(`engine.py:265`), leaves `SKILL.md` and the engine's own cache old, until the
next write or the next creation of a skill; a patch that raises leaves its
updates in the cache and in no file (`engine.py:176`). `rollback` picks the
archive by a part of the file name and as text, so from ten versions on it takes
the wrong one (`engine.py:313`).

*Gateway.* As it is wired, nothing is handled: `setup_integrations` registers
the adapter before `listen()` has made it; the WeChat and Slack listeners call
`gateway_runner.handle_message`, which does not exist; the adapters of Discord
and Telegram have no handler. The agent is a stub, and the handler the RPC
server defines for it is unused. The model therefore chooses freely which
adapters are registered, and covers the program its text intends. There, a
message that meets a running agent is answered "Your message has been queued."
(`runner.py:142`), and the queue is taken into a variable nobody reads
(`runner.py:160`): it is dropped. A response of WeChat that brings messages and
no cursor has them handled again in the next round (`listener.py:189`), and a
crash between the saved cursor and the tasks loses them (`listener.py:191`). A
plain listener sends an answer twice; /stop and /new stop nothing; an open
circuit never closes (`base.py:170`).

*Memory.* An error of the index is swallowed (`file_memory.py:297`,
`vector_store.py:555`): a removed entry may still be found, a new one not.
Consolidation never works: it reads an attribute that a store does not
have, and the error is swallowed (`core/consolidator.py:37`). The migration of
the old format is lost when the directory exists already or the process dies
within it. Metadata is keyed by the hash of the content, so the two targets
share it (`store.py:546`).

*Recordings and the browser.* Two overlapping starts of one name, or a cleanup
after an awaited conversion, leave a recorder that nothing leads to; it records
until its longest time is over. Stopping an old session stops the newer
recording of that name. A recorder that reached its longest time still calls
itself recording and blocks its name. A browser whose start fails stays set and
unstarted. Shutdown stops the browser under a running worker, without the lock
a start takes (`browser/session.py:117`).

*Terminal.* `update/mod.rs:115` says of the check of the busy flag "This
prevents steps from previous task appearing in new task". It does not: Esc and a
new task within the 100 milliseconds in which a silent stream looks at the flag
clear the interrupt (`agent.rs:22`), the first task goes on, and its steps and
its result appear in the message of the second. This is the exception
`disturbed` of `MessagesAreExact`. An input while the agent is busy is answered
"Agent is busy. Queued." and dropped (`mod.rs:68`); that line, as any other put
behind the agent's message, makes the rest of the steps and the result vanish
from the screen (`app.rs:495`), which
`test_complete_agent_message_non_agent_last` expects. Of more than 500 steps a
message shows the last 500 (`app.rs:477`). An interrupt only closes the
connection, so the server's run goes on.

## 6. Not modelled

| Part | Reason |
|---|---|
| Hierarchical memory | `HyMemoryStrategy` does nothing inside a running event loop (`write` returns True all the same), its conflict resolver, chain builder and scheduler have no effective caller; what is left is scores and statements that sqlite serialises |
| Memory beside `MemoryStore` | metadata only orders entries in a prompt; consolidation never works |
| Messaging platforms beside the three kinds | Telegram works as Discord does; Lark and WhatsApp are webhooks; media, typing and text batches (`TextBatchAggregator` has no caller) |
| HTTP routes beside tasks and recordings | routes for jobs, skills and memory are operations of those models; `ws/chat` treats callbacks as `RpcServer` does; shutdown |
| Subagents | a depth check and a semaphore of three around `gather`; nothing shared but the scratchpad. Their results are choices of `PlanLoop` |
| Tools, guardrails, coding agent | their results are choices of the models; permissions are tables over free text |
| Checkpoints, compression, progress | written for inspection, not read back |
| Skill learning, healing, execution | clients of `SkillStore`; texts come from a language model |
| Skill hub | one command at a time: an installation by force deletes before it installs, the lock file is an unguarded read and write. Updating a GitHub skill looks for a skill named like its repository |
| Browser back ends | wrappers of external browsers; who starts the shared one is in `ApiServer` |
| Search, web extraction, language models, relational store | wrappers of external services |
| Command line, settings, display | input and output |
| Terminal beside tasks | drawing, editing, modals, settings; `/terminator` cannot be reached from the command parser |
| Desktop, TypeScript library, Go sandbox | views of what the server says; separate systems |
| Benchmarks, packaged skills, docs, tests | data |

Within the modelled parts, each section of 2 names what it leaves out.

## 7. Plan

The modules of the plan are written: `PlanLoop`, `RpcServer`,
`SystemOrchestrator` with `TaskGraph`, `CronJobs`, `SkillStore`, `Gateway`,
`MemoryStore`, `ApiServer` and `Terminal`, all with their proofs. What would add
most next:

1. An abstract memory (a set of entries only named calls change) that
   `MemoryStore` implements while no store is behind, and an abstract task queue
   that `ApiServer` implements; `MemoryIsNotLost` and `TasksAreInOrder` are the
   step simulations they need.
2. `Terminal` composed with `RpcServer`: a client that closes instead of
   cancelling, and runs the server goes on with.
3. Subagents: depth and bounded concurrency, with the scratchpad.
4. The start and stop of the browser session.
