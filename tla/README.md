# Clementine in TLA+

Clementine is a personal assistant that runs as one Node.js daemon: chat
channels, a cron scheduler, background tasks and heartbeats all end in calls of
an agent SDK. What is hard about it is not any single call but their order: all
the handlers share maps, files and counters, each `await` lets any other handler
in, a second process (the dashboard, the MCP tool server) edits the same files,
and a restart may come between any two steps.

This directory models the parts of the daemon whose correctness depends on that
order, checks them with TLC on small instances and proves the central results
with TLAPS for all instances. Paths below are relative to the repository's
`src/` (`gateway/lanes.ts` is `src/gateway/lanes.ts`).

## 1. Inventory

### Modelled

| Component | State it keeps | Operations | Modules |
|---|---|---|---|
| Execution lanes (`gateway/lanes.ts`) | a counter and a FIFO of waiters per lane | acquire, the waiter's continuation, release | `Lanes`, `LanePool` |
| Chat sessions of the gateway (`gateway/router.ts`) | map of session entries: lock promise, abort controller, suppress signal, streamed and pending text | handleMessage, acquireSessionLock, stop, clear, eviction, timeouts | `SessionLock` |
| Cron timers (`gateway/cron-scheduler.ts`) | job table from three kinds of file, `disabledJobs`, `scheduledTasks`, two file watchers | start, reload, toggle, add, remove, schedule and pause a skill, enable, disable, auto-disable, planner suggestions | `CronSchedule` |
| Cron runs (`gateway/cron-scheduler.ts`, `gateway/job-health.ts`, `gateway/credit-guard.ts`, `agent/execution-advisor.ts`) | `runningJobs`, `cron-running.json`, run log, credit block, approval resolvers | runJob from trigger to finally, reconcile at start | `CronRunLog`, `CronJob` |
| Background tasks (`agent/background-tasks.ts` and its callers) | a JSON file per task, worker promises | create, pick up, finish, cancel, resume, clear, interrupt, mirror, backfill | `BackgroundTasks` |
| Background chains (`agent/bg-orchestrator.ts`, `agent/bg-planner.ts`, plan mode in `gateway/router.ts`) | a plan file, the plan awaiting approval in the session | ask, revise, offer, approve, decline, advance, pause, complete | `BgChain` |
| Delivery queue (`gateway/delivery-queue.ts`) | retry queue, dead letters, their files | enqueue, drain, save, load | `DeliveryQueue` |
| Workflow runner and wave scheduler (`agent/workflow-runner.ts`, `agent/wave-scheduler.ts`) | waves, workers, outputs of the steps, log entry | trigger, validate, run the waves, collect, log, report | `DataFlow`, `Workflow`, `WaveRecursion` |
| Team bus (`agent/team-bus.ts`, `tools/team-tools.ts`, the agents' bots in `channels/`) | the message log, the bots with their channels, the Discord bot's window of texts | send, log, deliverPending, the bots' deliveries, start and stop of a bot | `TeamBus` |
| Agents' heartbeats (`gateway/agent-heartbeat-manager.ts`, `gateway/agent-heartbeat-scheduler.ts`) | a state file per agent, debounce timers, the `ticking` flag | sweep, tick, wake, reconcile, start, stop | `AgentHeartbeats` |

How they interact. A chat message takes a slot of the `chat` lane, then the lock
of its session; cron runs and workflows take the `cron` lane. runJob reads the
timers' table and, at its end, may disable its own job there. Cron and background
workers report through the dispatcher, which falls back on the delivery queue.
Background tasks are created from chat or by a chain, picked up by a 3 s tick of
the cron scheduler, and cancelled or cleared by the dashboard through their files;
the callback of a step's task moves its chain. A team message is logged by the
dashboard or by the tool in the agent's own process and delivered by the daemon;
heartbeats are woken through files that other processes write. No path of today's
code holds one lane while it acquires another, so the lanes cannot deadlock on
each other.

What is hard in each, and what makes it correct:

* **Lanes.** A slot is handed to a waiter by resolving its promise; the waiter
  goes on in a later microtask, and newcomers may come in between. Correct: the
  counter equals the owners, never exceeds the limit, nobody waits beside a free
  slot, and waiters are served in order.
* **Sessions.** Interrupts, timeouts, stop, clear and eviction meet a handler at
  any await. Correct: one message of a session at a time, no waiter on
  a lock nobody will release, every message answered, slots given back on each of
  the many returns, timeouts reported.
* **Cron timers.** Definitions come from three sources (CRON.md, the agents' own,
  `schedules.json`), disabling from four, and edits reach the daemon through polled
  `stat`s of some of the files only. Correct: timers belong to jobs that are on and
  unchained, a disabled job has none, no enabled job with a valid schedule is
  stranded, off means off eventually, at least in the file that is polled.
* **Cron runs.** The check for a running job, the confirmation gate, the breaker,
  retries and the finally block are separated by awaits; a crash may come at each.
  Correct: no mark outlives its run, the crash file covers each run, only real
  streaks are punished, silence is consent at the gate and a no is a no, the breaker
  heals.
* **Background tasks.** The worker's outcome races cancel, clear, resume and a
  restart. Correct: one worker per task, a final status stays, every task's
  outcome reaches its chat.
* **Chains.** The plan is one file and the task of a step another, written one
  after the other; the callback that moves the chain awaits imports, and the
  planner is awaited while its session may be cleared. Correct: steps in order
  and one at a time, the plan claims no more than the tasks did, a failure
  pauses, a plan the owner cleared never runs (but for one a message had just read),
  an undisturbed chain ends.
* **Delivery queue.** Messages are queued while drains await their sends, drains
  overlap, and the file is overwritten in place. Correct: no failed message is lost
  but to a torn file or to a drain of an older queue, what is settled is not sent
  again, and each message is settled in the end.
* **Workflows.** Workers share one index into the wave; a step's prompt is filled
  in from outputs of others; a failure is an output too. Correct: no step before
  its dependencies, none twice, none left out, no idle worker beside waiting
  steps, the log says what happened, cycles are refused and nothing else is.
* **Team bus.** Two processes append to a file that the daemon reads, awaits bots
  over and rewrites as a whole; calls of deliverPending overlap; the tool logs a
  message itself when the dashboard's answer is late; bots come and go and have no
  channel at first. Correct: a message is worked on once per dedup window (Discord's;
  Slack's bot has none), a line marked delivered was shown, no line stays open.
* **Agents' heartbeats.** A sweep awaits LLM runs while signals change, watchers
  fire and wakes write the files the sweep will write as well. Correct: an agent
  never thinks twice at once, what changes meanwhile counts as a change at the
  next tick, and polling alone shows every lasting change.

### Not modelled

| Component | Why |
|---|---|
| Memory write queue (`memory/write-queue.ts`) | one buffer in one process, flushed synchronously into SQLite by a timer: no interleaving is left that its unit tests do not reach |
| MCP circuit breaker (`agent/mcp-circuit-breaker.ts`) | nothing imports it: `recordToolOutcome` and `isServerTripped` have no callers |
| Side-effect idempotency | a check before a tool call and a record after it; the window between them is in section 5, the fingerprints are data |
| Clementine's own heartbeat (`gateway/heartbeat-scheduler.ts`) | its work queue is on the plan; the rest assembles prompts |
| Claims, commitments, fix verification | small file stores read and written by one sweep each; what reading them showed is in section 5 |
| Self-improvement, source edits, safe restart | the edits are LLM output, and source edits are off by default (`agent/safe-restart.ts:74-81`) |
| Agent runtime (`agent/run-agent*.ts`, hooks) | a call of an external SDK; the modules use its outcomes: result, error, abort |
| Memory store, retrieval, brain ingestion | data transformations over SQLite and files, no concurrency of their own |
| Channels, dashboard, CLI, integrations, voice, desktop | I/O and presentation; the dashboard's writes to shared files are actions of `CronSchedule`, `BackgroundTasks` and `TeamBus`, an agent's bot is part of `TeamBus` |
| Configuration, secrets, security, migrations; vendored code, skills, tests | parsing and storage; read only for what they say of the rest |

Most of the repository's lines are in these: the dashboard alone is more than a quarter of
them. What `PROJECT.json` maps is therefore a small share of the lines, and most of
the code whose correctness depends on the order of steps.

Parts of the modelled components that are left out are named in section 3 and in
the component notes of `PROJECT.json`.

## 2. Plan

Done, each module after what it builds on:

1. `Lanes` with the abstract `LanePool`; proofs in `LanesProofs`.
2. `SessionLock` on an instance of `Lanes`; proofs in `SessionLockProofs`.
3. `CronRunLog`, `CronSchedule`, `CronJob` (which composes both); proofs in
   `CronProofs`.
4. `BackgroundTasks` and, on top of it, `BgChain`; proofs in `BgChainProofs`.
5. `DeliveryQueue`; proofs in `DeliveryQueueProofs`.
6. `Workflow` with the abstract `DataFlow`, and `WaveRecursion`; proofs in
   `WorkflowProofs`.
7. `TeamBus`; proofs in `TeamBusProofs`.
8. `AgentHeartbeats`; proofs in `AgentHeartbeatsProofs`.

Left, in order: the verdict of a fix from the run log (`FixVerification`, on
`CronRunLog`), the work queue of Clementine's heartbeat, several pending
approvals at once (`Approvals`).

## 3. Modules and the code

In all modules a step is what the event loop runs between two awaits: JavaScript
does not preempt. Operators whose comment begins with *Mutant* are faulty
variants of the operator below them; no specification uses them. They document
which bug each property catches.

**Lanes.** A *ticket* is one `acquire` call together with the closure it returns.
`AcquireFast` and `AcquireQueue` are the two branches of `acquire`,
`ReleaseHandOver` and `ReleaseFree` those of the closure, `Resume` the
continuation of the woken waiter, `ReleaseAgain` a second call of the closure,
which the `released` flag turns into nothing. `LanePool` forgets counters, queues
and continuations: it has sets of owners and of those who asked, a slot is
entered, left or passed on.

**SessionLock.** A message stands for its lock promise, its controller and its
streamed text, which are all compared by identity. `Arrive`, `LaneGranted`,
`LockFree`, `LockBusy`, `StartRun`, `Stream` and `Timeout` follow the handler up
to the agent; `ReturnEarly`, `PlanReply`, `Succeed`, `FailAborted`, `FailError` and
`FailOneMillion` are its ways out, each with what it does to the entry before the
two `finally` blocks (`Leave`). The release only resolves the promise: those who
awaited it stay in the queue of the message that left, and `WakeFree` and `WakeBusy`
are their continuations, one by one: the session is free, or somebody else has come
to the lock first and is awaited next, at the end of his queue. So a session is not
served in the order of arrival. A context overflow is an ordinary `FailError`: that
branch calls `clearSession` of the assistant (`router.ts:3363`,
`agent/assistant.ts:3749`), which forgets the transcript and knows nothing of the
gateway's entries; the only failure that calls the gateway's own `clearSession` is
the one million context (3353), `FailOneMillion`. Team-task controllers and the plan, approval and provenance fields of a
session are left out.

**CronSchedule.** `file` is what the files say, `loaded` the table of the
last reload, `stale` that a watched path changed since. A job has one of three
sources: CRON.md, which is polled if it was there at the start (`watched`); the
CRON.md of an agent, which is not, since only the directory above it is; and
`schedules.json`, the registry of scheduled skills (`Registry`), which nobody polls and
which the schedule tools and the dashboard write (`SetSchedule`). A `bad` definition is
enabled with a schedule that `cron.validate` refuses: the reload logs an error and
sets no timer. The writers of the registry refuse such a schedule, and a skill has no
`after:`. One name in two sources (the registry wins over CRON.md) is left out.
`Planned` are the jobs a suggestion of the daily planner may name; such a
suggestion marks the job and leaves its timer alone. `Cycled` says what the
cycle detection finds: a job whose chain of parents never ends.

**CronRunLog, CronJob.** A log is its ten newest entries, each one of four kinds.
A *run* is a call of `runJob`. `Trigger` runs to the first await, which with a
gate is the send of the confirmation request; only when that has settled is the
approval registered (`Asked`), and a reply before it (`OwnerAnswersEarly`) is plain
chat: `answer` is what the owner said, `heard` what the gate heard. `GateOpens` and
`GateShuts` are the race between the owner, the job's timer and the approval's
timer; `BreakerSkips` and `Begin` come after the advisor; `Succeed`,
`FailTransient`, `FailForGood`, `FailCredit`, `Retry` and `Close` are the attempts;
`Finish` is the finally block with the auto-disable, a step of
`CronSchedule`, which `CronJob` extends: `TableChanges` interleaves edits, commands,
suggestions and reloads with the runs, and `Start` rebuilds the table. An edit made
while the daemon is down is one made before the crash, since the start reads the files. Trigger files, chained triggers and the advisor's rules about
budgets are left out; so are the notices about the breaker, and a reply that resolves
the approval of some other request, since the newest is taken. Of the returns before the
gate (1157-1236) the pre-check that finds no work is `PreCheckFails`; an agent that is
paused or over its budget and the cooldown of an unleashed job are triggers that
do nothing. The fairness of `Trigger`, and so `SelfHeals`, assumes that none of these
refuses every trigger for ever. `streak` is a history
variable for the properties.

**BackgroundTasks.** A task file has a status and a delivery stamp; `worker` are the
tasks with a live promise. Each function of `background-tasks.ts` reads, checks
and writes the file in one synchronous call and is one step. `told` records what
the chat heard last. Torn writes and the seven-day limit of the backfill are left
out. The module is checked and proved as part of `BgChain`, which has plain tasks too.

**BgChain.** The task of step i of chain c is `<<c, i>>`, one of `StepTask`.
`Ask` (a new plan or a revision), `PlanReady`, `PlanFails`, `ReadEntry`, `Decline`, `Approve`, `LetPass` and
`ClearSession` are plan mode in chat, one message at a time. `_maybeHandlePlanMode`
reads the session's entry (`ReadEntry`, `held`), awaits three imports and then acts on
that entry: `attached` says whether it is still the session's, as it must be asked
again after the planner was awaited. A plan that was asked for or on offer at a clear is
`dropped`, but for one that a message has just read: the clear does not stop it. `dispatchChain` and `advanceChain` write the
task's file and then the plan's: `Queue` is the first write and `SavePlan` the
second, and only a crash or another process comes between (`Idle`). `SettleStep`
is the end of a step's worker with what it reads back, `Advance` its callback
after the awaited imports. `hurt` and `dropped` are history for the properties.
`pauseChain` and `resumeChain` have no callers.

**DeliveryQueue.** The queue is a reference to an array; a drain keeps the array it
began with, which grows when messages are queued before some drain replaces the
queue. That is why arrays have an identity (`content`, `queue`), and messages too:
`attempts` are counted by every drain that meets a message. Drains start from an
interval and a timeout that do not look for one another, so any number of them
walk at once. `enqueue` and the end of a drain write the file in a synchronous call of
their own (`Save`); a full disk (`SaveFails`) or a crash in the middle tears it, and
`Load` takes a torn file for an empty one, as the catch branch of `load` does.
`exposed`, `shared` and `revived` are history: the messages that a torn or unsaved file
or a drain of an older array met, those two drains had in hand together, those
settled and read back by a start. `replayDlq` has no callers and nobody sets the
permanent-failure hook; the dead letters' own file and its cap of 500 are left out.

**Workflow, DataFlow, WaveRecursion.** `Trigger` is `runWorkflow` up to the lane,
`Reject` and `Admit` validation and the first wave, `Settle` one turn of a worker
of `settledWithLimit`: the step settles and the worker takes the next. `Collect`
adds the outputs of a wave when all its workers have returned. `IsWave` states the
waves by equations, so that the module stays free of recursion and can be proved
about; `WaveRecursion` is `getWave` as the code computes it, and a property of the
run compares the two on every graph. Prompts, synthesis and the parsing of
workflow files are data. `DataFlow` forgets waves, workers and the log.

**TeamBus.** `BusAccepts`, `Answered` and `GiveUp` are the sending tool and the
dashboard, whose answer may come late. `Tick` begins a call of deliverPending, with the
copy of the log it read. Each open line of it goes to the Discord bot: `Hush` (it has
no channel, and says so), `Duplicate` (the text is in its window), `BeginPost`,
`Posted`, `PostFails`, `RunEnds`; then, if there is no such bot, its post threw or its
answer was empty, to the Slack bot: `NoSlack`, `SlackHush`, `SlackPost`, `SlackPosted`,
`SlackFails`, `SlackRunEnds`, which remembers no texts; then to the session's context
(`Fallback`). `Mark` goes on with the next open line and writes the copy back after the
last one. A Discord bot is among the bots from its login on (`BotStarts`) and has its
channels only with ClientReady (`BotReady`); a Slack bot has looked for them
when it is entered (`SlackStarts`). `runs`, `windows`, `shown` and `missed` are history; `missed` are the messages a bot without a channel answered for, and those
whose post ended with the bots or the daemon. Requests and answers (`respond` has no
callers), broadcasts and shared context are left out.

**AgentHeartbeats.** A sweep is a call of `outerTick`, with the fingerprint each of
its ticks took before its run. The interval (`Minute`), a wake (`Wake`) and the
start begin one; `StillTicking` is the flag that its `finally` puts down. The
lengths of the intervals are abstracted to the bit `due` of the state file. An
agent without a state file is compared with a clock read after the sweep's own
(`DueIn`: it is due only if both readings fall in one millisecond, `early`). A
watcher event may be missed (`heard` is false in `Change`). The branch of `tick` for
an agent that is not runnable cannot be reached through the manager. `shown` is
history.

## 4. Runs

| Run | Bounds | What it shows |
|---|---|---|
| `lanes` | 2 lanes with 1 and 2 slots, 4 tickets | `SlotsAccounted`, `NoIdleSlot`, `NoOvertaking`, `EveryWaiterServed`; implements `LanePool` (`PoolSpec`) |
| `session_lock` | 3 messages, 2 sessions, 2 slots, interrupt mode, no clear | `SerializedUnlessCleared`, `TimeoutIsReported` |
| `session_clear` | 3 messages, 1 session, 3 slots, one clear | `SlotPerMessage`, `WaitersFollowHolder`, `EveryMessageAnswered` |
| `cron_schedule` | 3 jobs, one of each source: a scheduled skill, a job of CRON.md that the planner may name, an agent's job; the last two form a cycle when both exist | `DisabledHasNoTimer`, `EnabledJobsCanRun`, `OffTakesEffect` |
| `cron_job` | 1 run at a time, window 3, breaker at 2, disable at 3, 1 retry, gate, 1 crash, the job's timer edited and reloaded at will | `NoGhostRun`, `CrashFileCoversRun`, `OnlyStreaksArePunished`, `OnlyOwnerRefuses`, `SelfHeals` |
| `cron_twice` | 2 runs, thresholds of the code | violation of `OneRunPerJob` |
| `chain` | 1 plan of 3 steps, 1 plain task, 2 crashes | `RunningHasWorker`, `OneWorkerPerTask`, `FinalStaysFinal`, `EveryTaskReported`; `OneStepAtATime`, `StepsInOrder`, `PlanMatchesTasks`, `ClearedPlanNeverRuns`, `EveryChainEnds` |
| `delivery` | 2 messages, 2 drains, 2 crashes or failed saves, 3 attempts | `NothingLost`, `SentOnce`, `EveryMessageSettled` |
| `workflow` | every graph on 3 steps, 2 workers | `NoIdleWorker`, `RecursionFindsWaves`, `EveryRunEnds` (with `HonestLog`); implements `DataFlow` (`DataFlowSpec`) |
| `heartbeats` | 2 agents, 2 states of their tasks, 2 sweeps, 1 crash | `OneTickPerAgent`, `NoChangeSwallowed`, `EveryChangeShown` |
| `team` | 1 message, 2 lines, 2 overlapping calls, a Discord and a Slack bot, 2 faults | `OneRunPerWindow`, `DeliveredWasShown`, `EveryLineSettles` |
| `team_forgets` | 2 messages, 3 lines, 1 call, no fault | violation of `NoMessageForgotten` |

Why these bounds. Four tickets fill the two-slot lane and leave two waiters, the
least at which order matters. Three messages give a holder and two waiters on one
session, or a waiter for the lane and one for the lock; the slots differ between
the session runs for that reason. Three jobs give one of each source, a
cycle, and an orphan when one job of the cycle is gone; longer chains are left to the proofs. The thresholds of the cron runs keep the order of the code's, breaker < disable
<= window (5, 10, 10), and let one run with a retry step over one of them. Two
crashes let a resumed task be interrupted twice; three steps give one before and
one after the step at work. One plan is asked for, offered, cleared and approved in any order; that a plan is
revised needs a second one and is covered by the proofs only. Two drains are one beside
an older one, two messages let one be queued before and one during them, and two faults
let a start from a torn file be torn again. Three steps give every shape that matters to a wave: chain, fork, join, a
longer and a shorter way to one step, and cycles of each length; two workers leave
one step of a wave of three waiting. Two agents let one wait for the other's run,
two sweeps show whether the flag keeps them apart. Two lines in the team log are the two
a message can get; two calls are one beside a stale one. One message will do, since lines
of different messages meet only in the copies that calls write back.

Deadlock is checked where the system never stops (`lanes`, `cron_schedule`,
`cron_job`, `workflow`, `heartbeats`). In the other runs the messages or tasks of the
instance are finite, and a behaviour may end when all are settled; what must not be
left open then is a liveness property.

Fairness. Continuations of resolved promises run (`Resume`, `LaneGranted`,
`LockFree`/`LockBusy`, `WakeFree`/`WakeBusy`). A holder of a lane slot releases it in a `finally` block; a
chat run ends because an idle and a wall-clock timer abort it; a workflow step, a
heartbeat run and a team run have a limit of turns. The file watchers of cron, the
cron tick, the eviction sweep, the drain, the heartbeat minute and the tick of
deliverPending are intervals that live as long as the daemon, and the daemon is
restarted by its supervisor (`Start`, `Load`, `Boot`). Cron runs go on because each
await has a timeout or settles; the planner, an import and a write to disk arrive
(`SavePlan`, `Advance`); a save of the queue is synchronous and ends, well or not (`Save`,
`SaveFails`). Every send and post is assumed to settle: the code has no
timeout of its own there. The clock goes on (`TimePasses`). Nothing is assumed of users:
they need not answer, cancel, resume or clear; nor of the watchers of heartbeats,
which need never fire, nor of the senders of team messages.

## 5. Divergences with a run

* `cron_twice`: `runningJobs` is checked at line 1189 and filled at line 1360 of
  `cron-scheduler.ts`, with awaits in between.
* `team_forgets`: deliverPending writes back the lines it read before it awaited
  the bots; a line another process appended meanwhile is gone and never delivered.

### Divergences without a run

Seen while the modules were written; each follows from the mapped lines by hand.

Sessions and chat:

* Clear deletes the entry with its lock (`router.ts:3999`); the next message runs
  beside the one in flight, although line 2009 says "Serialize access to a
  session". Hence `SerializedUnlessCleared`.
* An interrupt folds in `lastStreamedText`, which no run resets: the text may be
  that of a completed run (`router.ts:2025`, comment at 335).
* A run that succeeds keeps its controller on the entry: stop then "aborts" it and
  returns true (1991), and the entry is never evicted (4012).

Cron:

* Skips fill the ten-entry window in which ten failures are looked for
  (`cron-scheduler.ts:589`), so a job that only fails is probed for ever and never
  disabled, although "Auto-disable after too many consecutive failures" (1753).
* `requestApproval` answers no after five minutes, so a `confirmationTimeoutMin`
  above five skips the job instead of running it (`router.ts:3864`). The property is
  `OnlyOwnerRefuses`; `ConfirmMin` above `ApprovalMin` breaks it.
* Retries attempt a failing job within the hour the breaker's probe is meant to be
  alone in; the breaker's notice needs a count of exactly five and can be jumped
  over; its recovery notice can follow a skip (`cron-scheduler.ts:1710-1718`).
* A job auto-disabled stays so when the dashboard re-enables it (986, message at
  1767); the agents' jobs are dropped from `disabledJobs` on each reload (919-933); a
  dashboard toggle of an agent's job triggers no reload (`dashboard.ts:8034`), and the
  first toggle of a job without an `enabled` field changes nothing.
* An edit of an agent's CRON.md, or of a CRON.md that was created after the start
  (`cron-scheduler.ts:854`), takes effect only at the next reload for another reason.
* `pause_schedule`, `unschedule_skill` and the dashboard's `/api/schedules` write only
  `schedules.json`, which no watcher polls (852-867, 880-895): a paused skill runs on until
  something else reloads, although "When false, schedule is saved but the runner skips
  it" (`tools/schedule-tools.ts:37`). Hence `OffTakesEffect` is about CRON.md alone.
* The confirmation request is sent, and the send awaited, before the approval is
  registered (1246-1264): a no in between meets no pending approval, is taken for chat,
  and the job runs, although the request says "`no` or `skip` to cancel". Hence
  `OnlyOwnerRefuses` is about what the gate has heard.
* A job with an invalid schedule gets no timer, and only the log says so (993-996).
* A suggested disable leaves the timer running until the next reload (2812): hence
  the exception for `Planned` in two properties of `CronSchedule`.
* The dashboard runs a workflow past `runningWorkflows` (`cli/dashboard.ts:3900`).

Background tasks and chains:

* Cancelling a running background task writes a file nobody reads
  (`router.ts:1014`).
* Resume keeps the delivery stamp (`background-tasks.ts:261`), so a second
  interruption of the task is told to nobody at boot (289-293): the exception in
  `EveryTaskReported`.
* A message reads the session's entry (`router.ts:685`), awaits three imports and acts on
  the plan it finds there: a clear in between does not keep it from dispatching the plan
  (712). Hence `dropped` leaves out a plan that is `held`.
* The plan of a project is saved in the project's directory; advanceChain looks in
  the global one only, whatever its comment says (`bg-orchestrator.ts:117-121`).
  Such a chain stops after its first step in silence: the exception for `Project`.
* A crash between the end of a step's task and the advance of its chain leaves the
  step running for ever, although "The state machine lives across daemon restarts"
  (`bg-orchestrator.ts:21`): the exception for `hurt`.
* Cancelling a chain's step before it is picked up leaves the plan in progress for
  ever, with no worker to call back, although "failures pause the chain and notify the
  owner" (`bg-orchestrator.ts:10-11`): the exception for `Cancelled` in
  `NoChainForgotten`.
* `pauseChain`, `resumeChain` and the kind `planner` have no users.
* `require('./claim-verification.js')` (`background-tasks.ts:221`) does not exist in an
  ES module built by tsc; the error is caught and the check never happens.

Delivery and team bus:

* The slower of two drains replaces the queue by what it kept of an older array
  (`delivery-queue.ts:140`), without what was queued since the faster one did.
* A crash in the middle of `writeFileSync` (193) tears the queue's file, and the next
  start begins with no message (185-187). Both are the exception `exposed`.
* Two drains that have a message in hand send it twice and count both as attempts
  (`delivery-queue.ts:104-119`): the exception for `shared` in `SentOnce`.
* The first send counts as an attempt, so the delivery queue retries twice, not three
  times (`delivery-queue.ts:88`, header at 5).
* A Discord bot is registered before it has channels; until then it answers "(no channels
  available)" (`discord-agent-bot.ts:540`), which deliverPending takes for a delivery
  (`team-bus.ts:551`): the exception `missed` of `DeliveredWasShown`. Every start of the
  daemon passes through it.
* A call that awaits a bot leaves its line open in the file, and the next call, 15 s
  later, takes it up as well; the Slack bot has no window of texts, so its agent works on
  the message again each time. Hence `OneRunPerWindow` is about Discord.
* An empty answer of the Discord bot counts as no delivery (`team-bus.ts:549-567`), so
  that the message it has just worked on goes to the Slack bot or the session as well.
* A slow call writes back its stale copy; the line is open again and, once the
  five-minute window is over, the agent works on it again.
* `TeamBus.respond` has no callers, so every `team_request` times out.

Heartbeats:

* A wake during the agent's own tick is overwritten when the tick saves its state
  (`agent-heartbeat-scheduler.ts:367` after 455), although `wake_agent` says "They'll
  tick within ~3 seconds" (`tools/agent-heartbeat-tools.ts:77`).
* An agent without a state file is hardly ever due: `isDue(now)` compares a fresh
  `new Date()` taken after the sweep's `now` (147-153, 178-181; "return a fresh state
  ready to tick now"). Only a wake starts it, hence `file[a] # NoFile` in
  `EveryChangeShown`.
* A tick whose run failed still saves the fingerprint: the change counts as seen.
* One long run holds `ticking` and keeps all other agents waiting, although a buggy
  agent cannot "stall others" (`agent-heartbeat-manager.ts:11`).
* Wake files written while the daemon is down are never read.
* Clementine's own heartbeat has no guard against overlapping ticks, and
  claimNextItem keeps items `running` for ever after a crash
  (`heartbeat-scheduler.ts:1999-2022`); they block new work with the same key.

Fix verification and side effects:

* `require(...)` in `fix-verification.ts` (246, 272, 273) throws in an ES module and
  is caught: a failed automatic fix is never reverted, and its owner is told that
  the file was already gone; the tests pass because their runner provides `require`.
  A run in flight when a fix is recorded counts as its first; a hand edit
  overwrites the tracker of an automatic fix; two fixes can share a file, and one
  verdict deletes the other's.
* Two runs can pass the check of one side effect before either records it
  (`side-effect-idempotency.ts:470`).
* The three runs a fix is judged by are log entries: a retried attempt is an entry of
  its own (`cron-scheduler.ts:1618`), so one run with two retries is a verdict.

Failures, source edits and restart:

* `failure-fix-consumer.ts` reads a trigger, awaits the notification and then unlinks
  it: a newer trigger written under the same name meanwhile (`cron-scheduler.ts:1741`)
  is deleted unread; a crash before the unlink proposes the fix twice.
* `failure-monitor.ts` loads its state before an awaited send and saves it after, and
  sweeps may overlap; the cooldown of a recovered job is cleared only when no job is
  broken.
* `source-mods.ts` calls `require` in an ES module inside the type-check's `try`: every
  change that is applied again after an update is rolled back and marked failed.
  Several changes of one file are rolled back first to last, and not last to first.
* A restarted daemon clears the restart's sentinel first (`index.ts:590`), so a crash
  later in its start is not rolled back. The PID file is checked and then written
  (`index.ts:89`): the child and the supervisor's own restart can both pass.

## 6. Proofs

Each proof module extends the module it is about; the assumptions are the `ASSUME`s of
that module. None of the safety properties is inductive as it stands, so each proof
names an invariant, shows that the initial states satisfy it and that every action keeps
it, and derives the property.

`LanesProofs` (any lanes, limits in Nat \ {0}, a finite set of tickets). `IInv` joins
type correctness, the accounting of the counter, "nobody waits beside a free slot", the
exactness of the queues and that a ticket in use knows its lane: that a hand-over keeps
the counter right needs the queue to hold exactly the waiting tickets, and that no slot
idles needs both. From it: `TypeCorrect`, `SlotsAreAccounted`, `LaneLimit`,
`NoLostWakeUp`, `QueueIsExact`, the action property `FirstComeFirstServed` (with the
lemma `QueueOrderKept`: no step reorders a queue), and `ImplementsPool`, the refinement
of `LanePool` under owners and waiters as sets, one step per action.

`SessionLockProofs` (any finite set of messages, any sessions and slots). `LockInv`: outside cleared
sessions, who is inside a session holds its lock, who holds a lock is inside, everybody
who waits is queued at one message of his session, in one place, and only a message
that got its lock has a queue: it is inside, or it has left and its promise is resolved.
That is what makes a wake-up safe: whom it wakes belongs to the session and holds nothing,
and takes the lock only if nobody is inside. From it `OneAtATime` and
`WaitersFollow`. `StopInv` adds that whatever a session suppresses was aborted for a
successor or by its user, and abort reasons never change: `TimeoutsReported`.
`TypeCorrect` adds the types of the rest. `KeepsToTheLane` shows that the handler uses the
chat lane as `Lanes` means it (`Spec => ChatLane!Spec`: a message asks once and gives back
once, on every way out), so that the theorems of `LanesProofs`, instantiated for the chat
lane, hold of it: `ChatLaneIsFair`. `SlotInv` pairs the slots with the messages: whoever
waits for the lock or is past it has one, who has left or not arrived has none. From both:
`SlotsAreReturned`, and `LaneBoundsTheChat`, the messages that only wait for a session
included: a burst to one session fills the lane for all. Yet it cannot stall:
`ChatCannotStall` says that a message under way goes on by itself, or waits for its
session, where it is queued at somebody who goes on, or waits for a slot while all are
taken and somebody goes on. It joins `LockInv` (who waits is queued, and only somebody
inside or just gone has a queue, cleared sessions included), `SlotInv` (who is inside has
a slot) and `NoIdleSlot` of the lane.

`CronProofs` (any jobs, chains and agents; any finite set of runs, any window,
thresholds and retries). Lemmas say what the parser, the cycle detection and the rebuild
return for every table; `LoadedChains` is the key one: the chains in memory are those
of the file, so that the timers can be judged from memory alone. `TableIInv` is then
that every timer belongs to a job that is on, unchained and outside any cycle; a
rebuild establishes it from any state and every other step only removes timers. From
it: `TableTypeCorrect`, `OnlyDefinedTimers`. With the agreement of the timers with
`disabledJobs`: `DisabledStaysQuiet` and `NobodyIsStranded` (a job whose schedule is
refused is excepted: the code leaves it without a timer). `RunsKeepTheTable` shows
that the runs of a job implement the table (`Spec => TableSpec`), so that all this
holds while jobs run, crash and disable themselves. `EditsAreSeen`: while no reload is
due and CRON.md is watched, memory has the jobs of that file, and what is on or has a
timer is on there; `OffTakesEffect` needs only the fairness of the poll besides. Of the
registry and the agents' files nothing of the kind holds (section 5). The other lemmas are about the run
log: `LoggedIs` says what the window keeps, and `ErrorsAfter` how a new entry changes
the count of consecutive errors, by an injection from the entries counted after it to
those counted before. `LogInv` bounds that count by the true streak; `RunInv` joins types,
budgets and that a mark belongs to a run in flight. From them: `TypeCorrect`, `NoGhosts`,
`StreaksOnly`, `OwnerDecides` (for timers in that order, see section 5; it is about what the gate has
heard, and a no during the send is not), and
`CrashesAreSeen`, whose hypothesis `[]OneRunPerJob` is what `cron_twice` shows the code
not to guarantee: of two overlapping runs the first to end removes the mark of both. `RunsOfAJobEnd` counts
the steps a run has left, from the bounds on its attempts (`AttemptsBounded`): each of its
own steps leaves fewer, those of others never more.

`BgChainProofs` (any chains, steps, tasks and crashes). `IInv` says, besides types, what
a worker and a callback imply for the task's status (`Workers`, `Callbacks`), that when a
step's task exists the earlier ones are over for good (`OneFront`), that plan files run
behind the tasks and never ahead (`PlanBehind`), that a plan being written, on offer or
dropped has no task (`Untouched`), and that what a plan file says, or is about to say, is
what the tasks did (`Matches`). From it: `TypeCorrect`, `RunningIsReal`, `OneAtATime`,
`PlansAreHonest`, `ClearedIsForgotten` (but for a plan that a message had read when the
clear came), and the action properties `NeverTwoWorkers`,
`FinalIsFinal`, `InOrder`. `AtWorkInv` adds that a plan about to be saved names a step at
work, and that a running step has a worker even in a stopped daemon unless the chain is
`hurt`: `ChainsAreAtWork`, on which `EveryChainEnds` rests besides fairness. `ReportInv`
follows what the chat heard of a plain task through its states: `OutcomesAreTold`.

`DeliveryQueueProofs` (any messages, attempts and faults, any finite set of drains). `IInv`
is `TypeOK /\ Walks /\ Once /\ Kept4Retry /\ LeftAlone`. `Walks`: a drain is at a message of
its array, and only a running daemon has drains. `Once`: a message is once in an array,
once in what a drain kept of it, which is of what it has passed, and once in the file,
so that replacing one by another duplicates nothing. `Kept4Retry` follows an open message, one neither settled nor
exposed: it is in the queue, in the hand of every drain under way, kept or ahead, and
in the file whenever that was saved, so that whichever drain replaces the queue, the
message stays. `LeftAlone` is the converse for a settled one: no drain has it in hand, and a
queue that the next drain will walk does not hold it, unless it was shared or revived. From these: `TypeCorrect`, `NeverLost`,
`NeverTwiceInQueue`, `NeverResent`, with nothing assumed of the drains or the disk; what
the exceptions `exposed`, `shared` and `revived` stand for is in section 5.

`WorkflowProofs` (any finite graph and any workers). `IInv` says that workers hold
different steps, that what waits or is in flight belongs to the wave of the moment, that
earlier waves have settled and were collected and later ones are untouched, and that the
flag and the log agree with the outcomes. From it: `TypeCorrect`, `InputsThere` (a
step in flight finds the outputs of its dependencies), `WorkersBusy`, `LogIsHonest` and
`ImplementsDataFlow`, the refinement. The waves are the subject of three lemmas: a graph
that has waves has no cycle, since the least step of one would wait for a lesser;
two assignments of waves agree, since a least step at which they differ depends on steps
at which they do not; and without a cycle there is one, since a largest part of the graph
that has waves is all of it. Hence `OnlyCyclesAreRefused`. `RunsCannotStall` (a run under
way has a step to take) and `RunsAreBounded` (at most 2n + 4 of them) are what
`EveryRunEnds` rests on besides fairness.

`TeamBusProofs` (any messages, lines, calls, bots and faults). `Budget`: runs of a message by
the Discord bot's agent and posts of it under way are at most the windows that ended,
and one if it is in the window now: a post begins only when it enters the window.
`Recorded`: the window, the log and every call's copy claim only what is in `Reached`:
shown, missed, or in the hand of a call that has begun to post it and knows of no result.
From them: `TypeCorrect`, `OncePerWindow`, `MarksAreTrue`, with nothing assumed of the bots.
`CallsEnd` counts the steps a call has left on its copy, at most six for a line: each of its
own leaves fewer, those of others never more.

`AgentHeartbeatsProofs` (any agents, signals, sweeps and crashes). `IInv`: the flag is up while
a run is in flight, runs in flight belong to one sweep, and each holds what its tick
looked at. From it: `TypeCorrect`, `NeverTwice`, `ChangesSurvive`. Conversely a flag that is
up belongs to a run in flight (`FlagHeld`): `FlagComesDown`, so that neither a sweep that
awaits nothing nor runs that end in any order leave the sweeps shut out.

Model-checked only: the liveness properties (`EveryWaiterServed`, `EveryMessageAnswered`,
`OffTakesEffect`, `SelfHeals`, `EveryTaskReported`, `EveryChainEnds`,
`EveryMessageSettled`, `EveryRunEnds`, `EveryLineSettles`, `EveryChangeShown`), which need
fairness and ENABLED, out of the prover's reach; what is proved of most of them is the
part that fairness does not give: nothing is lost, nobody waits for nobody, work under way
counts down. And `RecursionFindsWaves`, about a RECURSIVE operator: TLC compares it with the
equations of the waves, which are proved to have exactly one solution if there is no
cycle and none if there is.
