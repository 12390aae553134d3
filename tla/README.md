# A TLA+ model of n8n's execution control

n8n runs workflows. This project models the part of it that decides *when an
execution may run, who owns it, how it is stopped, and how its slot, its job
and its row are given back* - in regular mode, where one Node.js process does
the work, and in queue mode, where workers do - together with what decides
*which main process may act*: leader election, the publication of workflows and
the tracking of waiting executions. Two subsystems built on the same ideas, the
evaluation test runner and the task broker with its runners, complete it.
Everything below names files relative to `src/packages/`.

## 1. The system

| Component | State | Operations | Hard because |
|---|---|---|---|
| Concurrency gate: `cli/src/concurrency/*` | two queues with a capacity that goes negative, a master switch, a lazily resolved limit | throttle, release, remove, disable | every caller shares it; a lost wakeup or slot shows up much later |
| Active executions: `cli/src/active-executions.ts` | one entry per execution id: status, attached workflow, post-execute promise, reserved slot | add, stopExecution, finalizeExecution, setStatus, shutdown | entries are looked up by id after awaits, and may have been replaced or removed |
| Workflow runner: `cli/src/workflow-runner.ts` | where each `run()` call is; the timeout timer | run, failExecution, runMainProcess | six awaits between the row and the engine; stop and timeout race with each |
| Execution rows: `@n8n/db/.../execution.repository.ts`, `cli/src/executions/execution-persistence.ts`, `cli/src/execution-lifecycle/*` | the status column | create, setRunning, conditional updates, save, delete, markAsCrashed | written by runs, stops, mains and recovery |
| Stop: `cli/src/executions/execution.service.ts` | none: read, stop, write | stop | three steps, not atomic |
| Process: `cli/src/commands/start.ts`, `cli/src/eventbus/...` | up, draining, down | shutdown, startup recovery, runEnqueuedExecutions | crash between any two steps |
| Test runner: `cli/src/evaluation.ee/test-runner/*` and its repositories | run and case rows, abort controllers, the cancel flag, pLimit | executeTestRun, cancelTestRun, cancel of a case | two runs compete for the gate; four ways to cancel |
| Task broker: `cli/src/task-runners/task-broker/*`; requester: `.../task-managers/*`; runner: `@n8n/task-runner/src/*` | offers, requests, accepts in progress, tasks; per runner open offers and task states | request, offer, accept, settings, done, cancel, three timers, disconnect, drain | two processes, FIFO channels, timers on both sides |
| Wait tracker: `cli/src/wait-tracker.ts`, `cli/src/webhooks/waiting-webhooks.ts` | timers of waiting executions, per main; promises of sub-executions | track, query, set timers, resume, resume a parent, stop tracking | timers outlive the wait they were set for; leadership changes; three ways to resume compete for the row |
| Queue mode: `cli/src/scaling/scaling.service.ts`, `job-processor.ts`, `cli/src/workflow-runner.ts` | Bull jobs, running jobs, the entry on the creating main, the recovery timer | enqueue, process, stop, abort, stall, recover | row and job are two stores that main, worker, stop and recovery write without a common lock |
| Leader election: `cli/src/scaling/multi-main-setup.ee.ts`, `leader-election-client.ts` | a Redis key with a TTL, the local role | init, renew, claim, step down, shut down | commands time out and are executed all the same |
| Publication outbox: `cli/src/workflows/publication/*`, `@n8n/db/.../workflow-publication-outbox.repository.ts` | requests, records, published versions, triggers in memory, lifecycle lock | publish, unpublish, claim, apply, report, return, tear down | memory and rows must agree over stepdowns, crashes and failures |
| Engine: `core/src/execution-engine/workflow-execute.ts` | node execution stack, waiting inputs | node loop, partial execution | only its ends are modelled |

How they interact: `WorkflowRunner.run()` calls `ActiveExecutions.add()`, which
creates or updates the row and reserves a slot of the gate; the engine's save
hook writes the row, and `finalizeExecution()` settles the entry's promise,
whose `.finally` releases the slot and removes the entry. `ExecutionService.stop()`
goes through the gate (queued) or the registry (running), then writes the row.
The test runner takes slots of the same gate itself, one per case, and its
executions (mode `evaluation`) reserve none. The broker is called by Code
nodes of running executions through the local requester. In queue mode the
row's life is split: the main creates it and awaits the job, a worker writes
what comes of it, and the leader's recovery marks what neither will end.
`leader-takeover` and `leader-stepdown` start and stop the wait tracker, the
queue recovery and the outbox consumer; none of them asks the key again.

The hazards of this code, each at its line with the properties that watch it,
are listed in `PROJECT.json`.

## 2. Modules

| Module | Extends | Models |
|---|---|---|
| `ConcurrencyControl` | | the gate; callers are abstract |
| `ConcurrencyControlProofs` | `ConcurrencyControl` | theorems about it |
| `ActiveExecutions` | `ConcurrencyControl` | runs, registry, rows, stop, shutdown, crash, restart |
| `ActiveExecutionsProofs` | `ActiveExecutions`, `ConcurrencyControlProofs` | theorems about it and about the gate under it |
| `TestRunner` | `ConcurrencyControl` | evaluation runs and their cases |
| `TestRunnerProofs` | `TestRunner`, `ConcurrencyControlProofs` | theorems about it and about the gate under it |
| `TaskBroker` | | broker, runners, requester |
| `TaskBrokerProofs` | `TaskBroker` | theorems about it |
| `LeaderElection` | | mains, their Redis commands, the key |
| `LeaderElectionProofs` | `LeaderElection` | the refinement, step by step, and how many leaders a lease allows |
| `LeaderLease` | | abstract: what an election promises; `LeaderElection` implements it (`Lease == INSTANCE LeaderLease WITH ...`) |
| `Publication` | | outbox, consumer, applier, lock, teardown |
| `PublicationProofs` | `Publication` | theorems about it |
| `WaitTracker` | | waiting rows, timers, resumes, parents |
| `WaitTrackerProofs` | `WaitTracker` | theorems about it |
| `QueueMode` | | main, job, workers, stop, recovery |
| `QueueModeProofs` | `QueueMode` | theorems about it |
| `MC*` | one of the above | small constants and symmetry for TLC |

`ActiveExecutions` and `TestRunner` are compositions: a *caller* of the gate is
a `run()` call in the one and an evaluation case in the other, and their
actions take the gate's `Throttle`, `Release`, `Evict` and `Disable` as
conjuncts. `Publication`, `WaitTracker` and `QueueMode` do not contain the
election: they take leadership as it comes, and `Ops` says how bad it may be
(two mains that believe they lead, a main that leads again while it still tears
down). What an election may do to them is what `LeaderLease` states.

**Grain.** JavaScript runs to the next `await`, so an action is what happens
between two awaits of database, network or node work. Chains of promise
callbacks that contain no such await (the `.finally` of an entry, the abort
listeners of one signal, the hand-over from `taskready` to the settings) are
part of the step that triggers them.

### ConcurrencyControl

`promise[c]` is what the promise of caller `c`'s `throttle()` has come to:
`granted` (holds a slot), `free` (let through uncounted), `waiting`,
`evicted` (spliced out by `remove()`: its promise never settles), `done`.
`Enqueue`, `Dequeue`, `RemoveEntry`, `ResolveNext` are the methods of
`ConcurrencyQueue`; `Throttle`, `Release`, `Evict`, `Disable` those of the
service, each with the lazy resolution of the evaluation limit in front.
`disabled` is a history variable.

### ActiveExecutions

`pc[r]` is where `run()` call `r` is; `active[e]` is the run whose entry is
registered for execution `e`; `status[e]` is the row. `Create`, `Reserve`,
`UpdateRow`/`UpdateRefused` and `Register` are `add()`; `FailExecution`,
`Preflight`, `StartMain`, `Launch` are `run()` and `runMainProcess()`;
`Finish`, `PutToWait`, `Save`, `Finalize` the end of a run; `Settle` is the
`.finally` of an entry. `StopRead`, `StopInRegularMode`, `StopWrite` are the
three steps of `stop()`. `Restart` is a new process: the gate is new, memory is
gone, rows left `running` are marked `crashed`, and rows still `new` are found
by `runEnqueuedExecutions()`. `Ops` says which of waits, stops, timeouts,
failures, discards, shutdown and crash a run of the model has.

### TestRunner

`stage[c]` is where the callback of case `c` is, `caseRow[c]` its row. `Abort`
is one firing of the abort signal with everything that follows before the event
loop turns: the listening cases, in queue order, lose their race and call
`remove()` (`Evicted`, a fold over the queue). `CancelTestRun` is a cancel on the main that executes the run,
`CancelOnForeignMain` on another, whose broadcast `DeliverCancel` may deliver
late or never, and `PollCancellation` is the database flag. pLimit starts
queued cases in any order, which includes the code's order.

### TaskBroker

A websocket is a FIFO queue in each direction and is emptied when it closes.
`accepting[t]` is an `acceptOffer()` that waits for the runner, `tasks` the
broker's table, `answer[q]` what `startTask()` has come to. Each timer may fire
whenever it is set. Offers go stale on either side independently. `owner` and
`executions` are history variables.

### LeaderElection and LeaderLease

A Redis command is sent (`pipe`), executed (`Execute`) and answered (`reply`)
in three steps; `Timeout` is `commandTimeout`, after which the command may still
be executed or be lost. `check[m]` is the command that the one `init()` or
`checkLeader()` under way awaits. `Expire` is a TTL that runs out under a main
that no longer relies on the key; under one that does it is a `Lapse`, and
`MaxLapses` bounds those. The refinement maps the holder of the lease to the
key, the leaders to the running mains with `isLeader`, and the stale mains to
those that rely on a key that does not name them. `LeaderLease` does not say
that there is one leader, because the code does not achieve it; it says what
each extra leader costs.

### Publication

`outbox` holds the pending and the in-progress records in the order of their
ids; `drain[m]` is what the `activeDrain` of main `m` awaits, `plan[m]` the diff
it computed. `Claim` is the claiming transaction, `ReturnRecord` the path of a
record whose main lost leadership, `Resolve` to `Report` are `apply()` and
`report()`. `lock[m][w]` is a queue with its owner at the head, for the record
and for the teardowns, which are numbered because one that is late can overlap
the next. A trigger that does not close makes `remove()` throw, in the applier
(`DeactivateFails`) and in the teardown (`TeardownThrows`), which nobody catches:
the teardown ends, and this workflow and those it had left keep their triggers.
On a stepdown the process goes on as a follower (the rejection is only
reported, `core/src/errors/error-reporter.ts`); on a shutdown the service logs
it. `escaped` and `outcome` are history variables: a workflow escapes when its
triggers change outside the lock (a teardown after its 30 seconds, the recovery
of a runtime failure) or when a teardown that threw leaves it, until a teardown
removes it under its lock or the process restarts.

### WaitTracker

Each wait of an execution has a time of its own (`far`, `soon`, `due`, `never`),
so that a timer can be compared with the wait it resumes. A behaviour starts from
one of the `Scenarios`: the executions that run at first, and the bounds of what
may happen to them, which keeps unrelated interleavings apart. `Run` is
`startExecution()` and a webhook's resume with the compare-and-set of
`ActiveExecutions.add()`. A run ends in two steps: `WaitAgain` and `End` are the
row's save in the hook `hookFunctionsSave()`, and `Finalize` the
`finalizeExecution()` that comes later and settles whatever promise goes by the
execution's id. `attached` are the promises that a `resumeParentExecution()`
awaits, `Attached` the promise of a resume, which takes the place of an older
one; `Finalize` goes on to the parent or, of a run that waits, gives up. Both
rows begin as running, so a sub-execution can wait, be resumed and end before
its parent's row waits (`ChildWaits` is what the parent needs for its own wait).
A run survives its main, as it does on a worker. `resumed`, `missed` (why a
parent was not resumed) and `led` are history. `WithoutEntry` drops a timer with
its entry, also in a parent's resume, where `startExecution()` leaves the timer
running (`wait-tracker.ts:122`): a parent's wait for its sub-execution is for
`WAIT_INDEFINITELY`, which no query finds, so there is no timer to leave.

### QueueMode

`pc[e]` is where `enqueueExecution()` is on the main that created `e`, `work[w][e]`
where `processJob()` is on worker `w`, `cancel[e]` where `stopJob()` is,
`recovery[m]` where `recoverFromQueue()` is, with the ids it has read. `job[e]` is
the job in Redis. `Write` is an update by id alone, which is what every writer
here except `markAsCrashed()` does. `starts`, `aborted` and `late` are history.

## 3. Runs

Passing:

| Run | Shows | Bounds |
|---|---|---|
| `gate` | `CapacityConserved`, `NoIdleCapacity`, `OnlyEvictionOverAdmits`, `GateTypeOK`, and the inductive invariant `GateInv` | production limit 2 with 4 callers, evaluation limit 1 (resolved at first use) with 3 callers, 1 ungated: each queue gets two entries deep, which an eviction from the middle needs |
| `exec_stop` | `CanceledIsFinalOnceLaunched`; liveness `ThrottledRunProceeds`, `SlotComesBack`, `ShutdownCompletes` | 2 executions, 1 slot; stop, timeout, failed preflight, failed update, shutdown |
| `exec_crash` | `RunningRowIsOwned` | 2 executions, 1 slot; waits, stops, timeouts, discarded rows, shutdown, a crash anywhere, 1 restart |
| `exec_resume` | `ExclusiveExecution` | 1 execution and 2 competing resumes, 2 slots; stop, shutdown, crash, 1 restart |
| `eval` | `FinishedCaseHoldsNoSlot`, `EndedRunHasNoPendingCase`, `EndedRunIsFinal`; liveness `RunEnds` | 2 runs with 1 and 2 cases, 1 shared slot, per-run concurrency 1, several mains, 2 cancels per run, database faults |
| `broker_faults` | `BrokerTypeOK`, `OrphanMeansExpired`, `ExecutedOnce`, `SettingsAreExpected`, `NoOvercommitment` | 2 requests and 2 runners of one type, 1 request of a type nobody serves, 1 task and 1 offer per runner, 2 task ids; expiry, accept timeout, stale offers, cancel, disconnect, stop |
| `broker_live` | liveness `RequestIsAnswered`, `RunnerSlotComesBack`, `DrainingEnds` | 2 requests, 1 runner; all timers, disconnect, drain |
| `leader` | `ElectionTypeOK`, `LeadersBounded`; the refinement `ImplementsLease`; liveness `OneLeaderEventually` | 3 mains, so that two can compete for a key a third has lost; 1 timeout, 1 lapse, 1 shutdown or crash |
| `publication` | `NoTriggerOnFollower`, `LeaderRunsPublished`, `PublishedFollowsRequests`; liveness `PublicationConverges` | 2 mains, 1 workflow, 2 versions between which a trigger stays, one changes and one comes; 2 requests, 2 takeovers, a shutdown, 1 fault, a teardown that throws among them; about 440,000 states |
| `waits` | `ResumedOnce`, `EarlyOnlyByOldTimer`; liveness `DueWaitEnds`, `ParentResumes` | 2 mains and one of three scenarios: an execution with 2 waits, 2 takeovers (by the first leader again or the other main), 1 webhook request and 1 fault; the same with 1 takeover, no webhook and 2 faults; a sub-execution with 2 waits and its parent, from their first runs on, with 1 webhook request and 2 faults. Faults: a second main that tracks, stops, failed resumes, restarts; about 490,000 states |
| `queue` | `StartedOnce`, `CrashedMeansAbsent`, `CancelledRunStaysCanceled`; liveness `InProgressRowEnds`, `EntryIsReleased` | 2 mains, 2 workers, 1 execution; 1 stop, 2 faults; about 310,000 states |

Two runs are enough to compete for one slot, and two resumes to race for one
row; the gate's own accounting for any number is what the theorems are for.
Offer and task ids are taken again once they are nowhere, so `OfferIds` and
`TaskIds` bound how many are alive at once, never how many there are in a
behaviour; so are the outbox `Ids` (`EnoughIds` is the guard that an insert
finds a free one). In queue mode executions share nothing but
the workers, and in publication nothing but the drain, so one of each meets
every race of its own; what they would add is delay, which fairness hides.
`queue` takes two faults because its worst cases need two (a worker lost and the
main that awaits its job). Deadlock is not checked: when every caller is done the model stops,
as the system idles.

**Fairness.** `exec_stop` assumes that a started `run()` and a started stop go
on (their awaits return and nodes end); it does not assume that executions
start or that anyone stops them. `eval` assumes the same of runs and cases, and
nothing of broadcasts. `broker_live` assumes that messages arrive, that a timer
that stays set fires, and that code whose abort signal fired ends; code that is
running need not end, and no runner has to connect. `leader` assumes that the
interval fires, that Redis executes what is not lost, and that a TTL runs out;
`publication` that a poll timer fires while polling and that the database and
the triggers answer; `waits` that something of what comes by itself (time,
timers, the poll, answers, the end of a run and its finalization) happens as long as anything can,
and that a resume under way comes to its row; `queue` that awaits come back,
that a free worker takes a job, and that Bull's stalled check and the recovery timer run. None assumes
anything of users, role changes or faults, and faults are bounded: liveness says
what happens once they are over.

One run expects a violation, where the code does not do what a comment says:

| Run | What TLC finds |
|---|---|
| `early_resume` | A wait node's webhook ends a wait whose timer is set; the execution waits again, for longer; the timer of the first wait fires and resumes the second before its time. "Add timers for each waiting execution that they get started at the correct time" (`wait-tracker.ts:96`). `EarlyOnlyByOldTimer` is what does hold. |

Observed with the same modules and other constants or properties, and not kept
as runs:

*Gate and registry*

- `remove()` of a queued execution raises the capacity and wakes the next one
  although no slot was freed (`concurrency-queue.ts:52`): with limit 1, one
  running and two queued, stopping a queued one starts the other.
  `OnlyEvictionOverAdmits` is what does hold.
- `disable()` is undone by the first evaluation case that resolves its limit
  afterwards (`concurrency-control.service.ts:129`), so throttled executions can
  resume during shutdown.
- A stop between registration and launch writes `canceled`; the unconditional
  `setRunning()` of `runMainProcess()` (`workflow-runner.ts:387`) overwrites it.
  `CanceledIsFinalOnceLaunched` is what does hold.
- `putExecutionToWait()` sets the entry's status while the run still goes on; a
  stop in that window deletes the entry without settling its promise
  (`active-executions.ts:231`), and the slot is never released. Add `wait` to the
  `Ops` of `exec_stop` and `SlotComesBack` fails.
- An execution still `new` when the process ends is found at the next start, but
  `add()` only updates a row that is `waiting`: it is refused as already being
  resumed and stays `new` (`active-executions.ts:131`).
- With `wait` and `shutdown` in `Ops`, `ShutdownCompletes` fails: an execution
  that goes to wait while n8n drains keeps its entry and the loop goes on until
  the process is forced to exit.
- With resumes added to `exec_crash`, `RunningRowIsOwned` fails: a resume may
  register between the save and the `finalizeExecution()` of the waiting run,
  which then settles the promise of the new entry.

*Evaluation and broker*

- When two cases of one run wait in the queue and the run is aborted, the
  eviction of the first hands the slot to the second, which has already lost its
  race: the slot is lost to every later evaluation
  (`test-runner.service.ee.ts:889`). It takes a per-run concurrency of 2; at 1
  `FinishedCaseHoldsNoSlot` holds.
- A foreign main may cancel the row of a run that then marks itself as running
  or completed; the status is final only once `executeTestRun()` is over.
- A request that expires while a runner accepts it leaves a task without a
  requester in the broker until the runner's own timeout
  (`OrphanMeansExpired` says that this is the only way).

*Leadership and publication*

- With `overlap` in `Ops`, `LeaderRunsPublished` fails: two mains that both
  believe they lead (which `multi-main-setup.ee.ts:128` accepts) each register
  triggers.
- With `retake`, a teardown that started before a main leads again removes the
  triggers it has registered since; and a takeover whose enqueue returns after
  the stepdown starts to poll on a follower, where the applier relies on "The
  consumer only polls on the leader." (`workflow-publication-applier.ts:57`).
- With `lease`, a record that is claimed again while its first processing is
  merely slow can set the published version back, and the leader's triggers no
  longer be those of the published version.
- "Deactivates all non-webhook triggers with a workflow specific lock"
  (`published-workflow-trigger-deactivator.ts:37`) does not hold when a trigger of
  one workflow does not close: the error ends the loop, and with two workflows
  the healthy second one keeps its triggers on the main that stepped down.
- The recovery of a trigger that failed at runtime, a teardown that ran without
  the lock after 30 seconds, and a teardown that threw can leave triggers
  on a demoted main (`escaped` marks them). When that main leads again,
  what it has left counts as registered
  (`getUnregisteredNonWebhookTriggerNodeIds()`): it is not registered anew, and
  one of a version that another main has replaced lies outside the next diff.

*Waiting and queue mode*

- `stopTracking()` keeps the entries whose timers it clears, so a main that leads
  again does not resume those executions until it restarts (`DueWaitEnds` names
  this exception).
- "on child execution completion, resume parent execution" (`wait-tracker.ts:172`;
  the parent is to stay in `waiting` only "If every attempt fails", `:187`) has
  three more exceptions, which `ParentResumes` names. Drop one of the reasons from
  its `ParentResumesBut()` and TLC shows the behaviour:
  - `main`: the wake-up lives in a promise, which a restart of the main that
    resumed the sub-execution loses.
  - `settled`: a run of the sub-execution saves its row as `waiting`; before it
    calls `finalizeExecution()`, a webhook (or a timer) gets the row, and the
    promise of its new entry is what that call settles, with `waiting`.
    `resumeParentExecution()` returns, and nobody awaits the end, though no main is
    lost and no attempt fails (`active-executions.ts:241`).
  - `early`: the sub-execution goes to wait, is resumed and ends while its parent's
    run is still on its way to save its own row as `waiting` - long, when that run
    starts sub-executions for more items. The parent's resume is refused as already
    being resumed and ends quietly (`wait-tracker.ts:157`).
- The compare-and-set asks for the status `waiting` only: a resume that loaded
  wait n may get the row in wait n+1, with the data of wait n.
- Recovery marks a `new` row as crashed whose job is added a moment later
  (`late`); the worker then leaves the job alone.
- `abort-job` is ignored before `runningJobs` has the job, and the worker's
  `setRunning()` and save write over `canceled`. A stop on a main that did not
  create the execution never reaches the job: the worker's save, which lacks the
  condition of the regular mode (`execution-lifecycle-hooks.ts:610`), writes over
  `canceled`.
- `processError()` returns for a job that failed on a successful row without
  finalizing the entry (`workflow-runner.ts:129`; `EntryIsReleased` names this
  exception).
- If `stopQueueRecovery()` comes while a check is under way, the check schedules
  the next one on the follower (`scaling.service.ts:576`).

## 4. Proofs

Every theorem below holds for all values of the constants that satisfy the
module's ASSUME, so for any number of runs, mains, workers, runners, requests
and faults. The assumptions are those the code justifies (a limit is not zero,
because the constructor throws; the constants have their types; ids are finite
sets); the theorems that need more say so in their statement, and each such
hypothesis is one without which TLC finds the property violated (section 3). The
inductive invariants were checked with TLC on the runs' instances before they
were proved; `GateInv` is an invariant of `gate`, the others stand in a section
of their own at the end of the component's module or at the start of its proofs.

| Module | Theorem | States |
|---|---|---|
| `ConcurrencyControlProofs` | `GateInvariant` | `GateSpec => []GateInv` |
| | `GateTypeCorrect` | `GateSpec => []GateTypeOK` |
| | `SlotsAreConserved` | `GateSpec => []CapacityConserved` |
| | `NoLostWakeup` | `GateSpec => []NoIdleCapacity` |
| | `EvictionAloneOverAdmits` | `GateSpec => OnlyEvictionOverAdmits` |
| `ActiveExecutionsProofs` | `RegistryInvariant` | `Spec => []RegistryInv` |
| | `OneRunPerExecution` | `Spec => []ExclusiveExecution` |
| | `CanceledIsFinal` | `Spec => CanceledIsFinalOnceLaunched` |
| | `GateUnderRegistry`, `RegistryConservesSlots`, `RegistryKeepsQueueMoving` | the gate's invariant, `CapacityConserved` and `NoIdleCapacity` of the composition |
| | `RunningRowsAreOwned` | `Fresh = Callers` implies `Spec => []RunningRowIsOwned` |
| `TestRunnerProofs` | `EvalInvariant` | `Spec => []EvalInv` |
| | `NoCaseStaysPending` | `Spec => []EndedRunHasNoPendingCase` |
| | `EndedIsFinal` | `Spec => EndedRunIsFinal` |
| | `GateUnderEvaluation`, `EvaluationConservesSlots`, `EvaluationKeepsQueueMoving` | the gate's invariant, `CapacityConserved` and `NoIdleCapacity` of the composition |
| | `FinishedCasesHoldNothing` | `Concurrency = 1` implies `Spec => []FinishedCaseHoldsNoSlot` |
| `TaskBrokerProofs` | `RunnerKeepsItsPromises` | `Spec => []NoOvercommitment` |
| | `BrokerInvariant` | `Spec => []TasksInv` |
| | `BrokerTypes` | `Spec => []BrokerTypeOK` |
| | `OrphansAreExpired` | `Spec => []OrphanMeansExpired` |
| | `CodeStartsOnce` | `Spec => []ExecutedOnce` |
| | `SettingsExpected` | `Spec => []SettingsAreExpected` |
| `LeaderElectionProofs` | `LeaseBoundsLeaders` | `Lease!LeaseSpec => []LeadersBounded`: a lease has at most `1 + lapses` leaders |
| | `ElectionTypes` | `Spec => []ElectionTypeOK` |
| | `ElectionImplementsLease` | `Spec => ImplementsLease` |
| | `ElectionBoundsLeaders` | `Spec => []LeadersBounded` |
| `WaitTrackerProofs` | `WaitInvariant` | `Spec => [](ResumeInv /\ TimerInv)` |
| | `WaitResumesOnce` | `Spec => []ResumedOnce` |
| | `EarlyTimersAreOld` | `Spec => EarlyOnlyByOldTimer` |
| `QueueModeProofs` | `QueueInvariant` | `Spec => [](JobInv /\ LookInv /\ RowInv /\ CancelInv)` |
| | `WorkflowStartsOnce` | `Spec => []StartedOnce` |
| | `RecoverySparesQueued` | `Spec => CrashedMeansAbsent` |
| | `CancelledStaysCanceled` | `Spec => CancelledRunStaysCanceled` |
| `PublicationProofs` | `FollowerInvariant` | `Spec => []FollowerInv` |
| | `FollowersRunNothing` | `Spec => []NoTriggerOnFollower` |
| | `RequestInvariant` | `"lease" \notin Ops` implies `Spec => [](FollowerInv /\ RequestInv)` |
| | `PublishedFollows` | `"lease" \notin Ops` implies `Spec => PublishedFollowsRequests` |
| | `LeaderInvariant` | `Ops` without `lease`, `overlap` and `retake` implies `Spec => [](FollowerInv /\ RequestInv /\ LeaderInv)` |
| | `LeaderRuns` | under the same hypotheses, `Spec => []LeaderRunsPublished` |

**The gate.** Neither `CapacityConserved` nor `NoIdleCapacity` is inductive.
Conservation breaks if a caller that passed uncounted is later released into a
queue: so `FreeMeansUngated` and `EnabledUntilDisabled` say that until
`disable()` a queue that exists is switched on, and who passed uncounted has
none. It also breaks if a queue entry is not a waiter or is there twice:
`QueueHoldsWaiters`, `SlotMeansQueue`. The lazily built evaluation queue needs
its future capacity accounted for before it exists: `LimitsFinal`,
`SlotsAccounted`. `NoIdleCapacity` follows from conservation with
`BacklogCovered`: the queue is never longer than the capacity is below zero (it
may be shorter, because an eviction admits beyond the limit). The lemmas are
about splicing and shifting sequences and about the number of holders, then one
per queue method, saying how it changes the total of capacity, holders and
queue length, then one step per action. `EvictionAloneOverAdmits` uses the same
totals: every other way to a slot leaves the capacity at zero or above, or hands
on the slot of one that ends.

**The registry.** Two runs execute the same execution only if a resume passes
`add()`, which needs the row `waiting`. `RegistryInv` says why it is not: of the
runs of an execution one is *in use* (`OneInUse`) - it executes, or it is about
to finalize while its entry is still there for a stop that sends it back to
saving - and the row of a run in use does not wait (`InUseNotWaiting`). The
second half of *in use* is needed because a stop between save and finalize makes
a run execute again.
`WaitIsFinal` says that a run about to save `waiting` is out of a stop's reach,
`CreatorIsFirst` that nobody resumes an execution before the run that creates it
is past `add()`. The gate's theorems carry over because each step of the
registry is a step of the gate or leaves it alone (`RegistryStepsGate`), except
a restart, which is `GateInit` again. `RunningRowIsOwned` fails with resumes
(section 3), so its theorem assumes that every run creates its own execution;
`Owned` adds that a registered run has its entry unless a stop took it.

**Evaluation.** `EvalInv` ties the row and the callback of a case to the stage
of its run: no row before the seeding, a returned callback has written its row
unless the run is aborted, and nothing is under way once a run ended without a
fault. The gate plays no part in that: a case may get its slot at any time.
That the gate keeps its accounts under evaluation runs, of any concurrency,
needs the abort: it may evict any number of cases in one step, so it is no step
of the gate. `EvictFromFacts` says that one eviction keeps the queue in order
and the total of its slots, and `EvictedFacts` that all of them do, by the least
turn after which it would not hold. `FinishedCaseHoldsNoSlot` is false when two
cases of a run wait (section 3), so its theorem assumes an effective concurrency
of 1. `SlotInv` then says why it holds: pLimit has let one case of the run in
(`OneInFlight`), so an abort evicts one case and the slot that the eviction
hands on goes to a case that still awaits it (`AsksOnceClaimed`).

**The broker.** `NoOvercommitment` is about a runner alone, with its types
inductive; the work is counting (an accept gives back the offer it takes a slot
for, new offers fill what is left). The other three follow a request through
three processes, and none is inductive. `OneAcceptOrTask` and `AcceptIsOwners`
say what `acceptInProgress` is for: at most one accept or task of a request, and
the accept is of a request that still waits or has expired. `SettingsBeforeStart`
and `SettingsOnce` say that settings on their way are the only ones of their
request, whose code has not started; `AcceptedNotStarted`, that a task that is
being accepted has none; `StartedOnce`, that a request without an answer has
started nothing. What makes them hold is that ids are fresh: a task id that
`settleTasks()` takes is in no table and no message (`UsedTasks`).

The loops of `settleTasks()` and the splices are recursive functions over the
indices of a sequence, and what they compute is proved for every input:
`KeptExists` and `TurnsExist` that the functions exist, `WithoutIs` and
`MatchAllSettles` what holds after every turn, each by the least index at which
it would fail (`LeastNumber`), since the library's induction theorems take an
operator as a parameter, which the provers cannot instantiate.

**Leader election.** Under `LeaseSpec` there are never more than `1 + lapses`
leaders: who leads holds the lease or is stale, and each stale main cost a
lapse. `ElectionImplementsLease` proves that the election is such a lease, and
`ElectionBoundsLeaders` combines the two. The refinement rests on
`ElectionInv`: a pipe holds at most one command that is awaited, and one `DEL`
(`AwaitedIsAsked`); a `DEL` is only sent by a main that closes, and the answer
on its way fits the command asked (`LifeInOrder`). Each step is then a `Grant`,
`Lead`, `Retire`, `Release`, `Vacate` or `Lapse` of the lease, or changes nothing
of it.

**Waits.** `ResumedOnce` needs that a wait that is not over was not resumed
(`NotYetResumed`), so that the compare-and-set on the row decides, whenever the
run before it is finalized. For
`EarlyOnlyByOldTimer`, `TimerInv` follows a timer from the query over the entry
to the resume: each is of a wait the execution has come to, and a timer that has
fired is of a wait that is over or due.

**Queue mode.** `StartedOnce` is not inductive: a worker that prepares a run must
not have started it before (`NotStarted`), two must not prepare the same one
(`OneWorker`), and a job that can still be taken must have started nothing
(`Untaken`), which needs that a job is added once (`NotAdded`).
`CrashedMeansAbsent` follows from `MarkedAreAbsent`, that between a recovery's
look and its write a job can only come late, and from `RowNext`, that nothing
but a recovery writes `crashed`.

For `CancelledRunStaysCanceled`, `CancelInv` follows a cancel: a job is only
cancelled through the promise that awaits it (`AskedAwaits`), a run that was
cancelled is being saved as canceled on the one worker that has it and its job
will be (`CancelledIsSaved`, `BusyIsActive`), and the main writes an error over
such a row, or discards it, only when its job has failed or completed
(`ErrorsFailed`, `DiscardsCompleted`), so after a stall alone.

**Publication.** The longest argument, in three layers. `FollowerInv` is about
memory and the lifecycle lock, whatever faults there are, leases that end early
and two leaders included: a lock's queue is the record that is processed and
the teardowns whose turn the workflow is, each once, and who applies a record
is at its head (`LockQueues`); a teardown never starts over another
(`TeardownsInOrder`); so triggers, or a record about to register some, are on a
leader, before a teardown, or of a workflow that escaped (`TriggersCovered`).
Of these a theorem says nothing: they are what a late lock, a runtime recovery
or a teardown that threw leaves, which the code does not clean up either.
`RequestInv` is about the table: one row of each status per workflow, a record
is one main's and its row stays, a row that is not up to date has been
overtaken by a pending one. It needs that a lease does not end under a main
that is merely slow, which is the case where `PublishedFollowsRequests` fails.
`LeaderInv` joins the two: while one main leads, the diff a record was given
stays true until it is applied, because who holds the record alone changes the
published version (`PlanIsCurrent`), and a leader runs what is published or
something is left to do that will make it so (`RunsOrWill`) - a takeover's
enqueue, a pending record, a record with a complete plan. A former leader that
still applies a record is why `RunsAtMostPublished` and `RunsOrWill` speak of
the other mains. It needs one leader at a time, who does not lead again before
its teardown and its enqueue are done; section 3 says what happens otherwise.
The lemmas on the way are about the upsert (`Upserted` updates in place and
inserts what is missing, with ids that nothing refers to) and about taking one
entry out of a sequence.

**Only model-checked.** Liveness under fairness and ENABLED, which are out of
the prover's reach. Every invariant and action property of the passing runs is
stated by a theorem. What a theorem's hypothesis leaves out does not hold
there: `FinishedCaseHoldsNoSlot` at a concurrency above 1, `RunningRowIsOwned`
where runs are resumed, `PublishedFollowsRequests` with leases that end early,
`LeaderRunsPublished` with those or with two leaders.

## 5. Not modelled

- Most of the repository by lines: the nodes (`nodes-base`, `@n8n/nodes-langchain`),
  the editor (`frontend/*`), the AI builder and agents, the workflow SDK, the
  public API, SSO, credentials. They transform data, render, or call other
  systems; what they share is the execution core, which is what is modelled. No
  state machine of theirs has a property that a model would show better than
  their tests do.
- The engine (`core/src/execution-engine/workflow-execute.ts`): the node stack,
  waiting inputs and partial execution are data structures over arbitrary
  graphs, sequential within one run; only the ends of a run are modelled.
- The older activation path (`active-workflow-manager.ts`) and webhook rows.
- `processError()` in regular mode, where the engine throws before its save hook;
  response promises, streaming, push messages, telemetry.
- Crash recovery from the event log; only its default mode, which marks rows as
  crashed. The forced exit at the end of a shutdown's time limit.
- New executions while n8n drains.
- `cancelTestRun()` is one step: its later writes are conditional on the row.
  `cancelCollection()` and the startup cleanup of interrupted runs.
- The broker's data, node-type and RPC messages; the heartbeat (its effect is a
  disconnect); the delay of `removeConnection()` while it analyses the reason;
  the restart of a runner process on timeout in internal mode (a disconnect
  followed by a registration).
- Queue mode: sub-workflows that run inline on a worker, resumed executions (a
  resume is a new job on the same row), the worker's shutdown, job results and
  messages that only carry data, recovery's batches.
- Publication: webhook triggers, the per-trigger status table, notifications,
  deleted workflows.
- Payloads everywhere: node data, results, errors, metrics.

## 6. Plan

1. Extend: resumed executions in queue mode (`WaitTracker` composed with
   `QueueMode`), and the older activation path against the same trigger registry.
2. Compose `Publication` and `WaitTracker` with `LeaderLease`, so that `Ops` is
   derived from what an election may do instead of assumed.
