# PowerOn Agent Host: a TLA+ verification project

The repository is the PowerOn Hub, a business application (React front end, serverless
functions, Supabase database), and the **Agent Host** (`agent-host/`), a long-running Node
process on the owner's machine that lets AI coding agents work on a repository under the
owner's control. The hub asks for plans, approvals, cancellations and the application of
results through a table of requests; the host executes them, keeps a durable record of every
Run, Task and Attempt in SQLite, survives crashes and restarts, retries what may be retried,
and stops at human gates.

This project models the Agent Host: its orchestration core is where state machines,
durable transactions, awaits, cancellations, crashes and restarts meet, and where a mistake
spends money, repeats work that needed a human, or reports a success that was none.

## 1. Inventory

### The orchestration core

| Component | Code | State | Operations | What is hard |
|---|---|---|---|---|
| Host lock | `lib/lock.ts` | `lock.json`, `lock-recovery.json`, `heartbeat.json` on disk | `acquireLock` (create, judge, recover), `releaseLockIfOwned`, heartbeat | several processes between any two file-system calls, stale files, crashes under the guard |
| Orchestration store | `lib/store.ts`, `lib/transitions.ts` | runs, tasks, dependencies, attempts, events | one SQLite transaction per operation, guarded by transition tables | a sequence of transactions is not a transaction |
| Supervisor | `supervisor/supervisor.ts`, `stateMachine.ts` | none of its own: it reads the store anew on each tick | `supervisorTick`: recover, reconcile, start, launch, classify, retry, pause, evaluate | state read before the execution is awaited and used after it; crashes between transactions; the order in which causes are looked at |
| Drive, approval, cancellation | `control/worker.ts` | the live set of cancelled Runs, the Run being driven | `handleApprovePlan`, `driveRunToCompletion`, `handleCancelRun`, `finalizeRunCancellation`, `resumeResumableRuns`, shutdown | two handlers on one thread interleave at every await; who finalizes a cancelled Run |
| Attempt executor | `providers/executor.ts`, `control/supervisorPort.ts` | the active execution, whether it accepts new ones | `execute`, `runExecution`, `cancel`, `shutdown`, fail-closed paths | result, verdict and status are written one after the other |
| Control requests | `control/requestPump.ts`, `lostClaims.ts`, `orphanClaims.ts`, `supabaseControl.ts` | request rows (pending, claimed, completed, failed), held and poisoned ids, one job slot and its queue | claim, offer, pump, complete, fail, recover lost claims, sweep orphans | lost answers, retried claims, two hosts, a timer racing a late answer |
| Apply of a candidate | `control/applyCandidate.ts` | the owner's working tree, the applied event | preflight, write file by file with a re-check, verify, roll back, record | the owner edits meanwhile; a write fails half way; the host dies before the record |
| Process runner | `providers/processRunner.ts` | runner state, pending reason, timers, the tree's snapshot | spawn, activity, timeouts, cancel, kill and retry, settle | exit, output, timeouts, kill answers and errors in any order; descendants that outlive their parent |
| Host runtime | `control/worker.ts`, `index.ts`, `lib/heartbeat.ts`, `status.ts` | `heartbeat.json` and its temporary file, timers, the flags of shutdown and exit | start, heartbeat timer, drive, signals, uncaught exceptions, shutdown, status | timer ticks racing the shutdown, steps of it that throw, a drive that outlasts it |
| Snapshot publisher | `control/snapshotPublisher.ts` | one job in flight and one pending per Run | publish, pump | superseded publishes, calls that fail |
| Workspaces, policy, providers | `workspace.ts`, `policy/`, the adapters of `providers/` | directories | copy and compare trees, judge paths and commands, build command lines | little protocol of their own |
| Planning, telemetry, operator tools | `control/planning.ts`, `telemetry.ts`, `dispatch.ts`, ... | derived views | one request, one answer | little beyond text |

All paths are under `agent-host/`.

**How they interact.** The browser inserts request rows; the host *claims* them, hands
`cancel_run` straight to its handler and everything else to one background slot.
`approve_plan` writes a Run, its Tasks and their dependencies into the *store* and then
*drives* the Run: the loop calls `supervisorTick` until the Run is over. A tick launches at
most one *Attempt* through the port and awaits the *executor*, which runs the provider in a
*workspace*, asks the *policy* for a verdict, and writes result, verdict and terminal status
into the store. The tick then reads them back and moves the task and the Run. A cancellation
is a durable event plus an in-memory mark plus an abort of the execution; either the drive or
the handler then sweeps what is left. At start a host takes the *lock*, marks the attempts of
earlier instances interrupted, resumes unfinished Runs, and only then claims requests.

**What makes each component correct.**

- *Lock*: one live owner per repository; a live owner's lock is never taken away; a dead one's
  never keeps the repository locked; every contender decides.
- *Supervisor, drive and executor*: a provider works only for a running task of a running Run,
  one at a time; no more attempts than the budget, a new one only after a failed or
  interrupted one; a pass is a pass the policy accepted; dependencies before dependants; a Run
  fails only for a task that really ended; an accepted cancellation beats any later outcome; a
  human gate is not retried past; nothing moves a Run that has ended; every Run ends or waits
  at a gate.
- *Requests*: a row is worked on at most once, by one host; the first answer stands; what a host
  has in hand is held, and only that; a row that was failed as lost is not dispatched (it can be,
  section 4); no row is left in a queue beside an idle slot; every row is answered in the end,
  and a cancellation whatever occupies the slot.
- *Apply*: never over an edit of the owner's; "applied" only when every file was found as the
  candidate has it; a rollback names what it has not put back; nothing is applied twice.
- *Process runner*: every run settles, once, with its first cause; a terminated one was killed
  before it is reported; survivors are told of; it arms nothing and begins no kill afterwards, and
  what still takes effect is a kill it had given up.
- *Host runtime*: `status` says what is so; the lock outlives the work; the process ends when it
  is asked to, with the exit code its end deserves; a started host comes to claim requests; the
  owner is shown the Run's states in order, the last one in the end.

### The rest of the repository

The hub front end (`src/`), finance and banking, the Netlify and Supabase functions, the SQL of
the time clock and of the other features, and the mobile and desktop shells are listed in
`PROJECT.json` as not modelled, each with the reason: they are presentation, arithmetic, or
independent request handlers of one transaction each, and no part of the orchestration core.

## 2. Modules

| Module | Models | Lines of thought |
|---|---|---|
| `HostLock` | `lib/lock.ts` | any number of processes, every file-system call a step |
| `MCHostLock` | | symmetry for TLC |
| `HostLock_proofs` | | the inductive invariant of the lock and what follows from it |
| `OrchestrationStore` | `lib/store.ts`, `transitions.ts` | the rows of one Run, one operator per transaction |
| `Supervisor` | `supervisor/`, `control/worker.ts`, `providers/executor.ts` | one Run from approval to end, on successive host instances |
| `MCSupervisor` | | tasks, budgets and plans for TLC |
| `RunLifecycle` | what a Run promises the owner who approved it | the abstract specification `Supervisor` implements |
| `Supervisor_proofs` | | types, cancellation, retries and executions, proved |
| `SupervisorOutcomes_proofs` | | passes, plans, gates, failures, ended Runs, and the refinement of `RunLifecycle`, proved |
| `RequestClaims` | `control/requestPump.ts`, `lostClaims.ts`, `orphanClaims.ts`, the calls of `supabaseControl.ts`, the wiring in `worker.ts`, the SQL claim | request rows served by any number of host instances |
| `RequestBoard` | what the requests table promises its owner | the abstract specification `RequestClaims` implements |
| `RequestClaims_proofs` | | types, all the safety properties of the requests, and the refinement, proved |
| `ApplyCandidate` | `control/applyCandidate.ts` | one candidate, file by file, with an owner in the same tree |
| `MCApplyCandidate` | | the kinds of the changes for TLC |
| `ApplyCandidate_proofs` | | all the safety properties of the application, proved |
| `ProcessRunner` | `providers/processRunner.ts`, `windowsProcessSnapshot.ts` | one process, its descendants, the timers and the kill |
| `ProcessRunner_proofs` | | all the safety properties of a run, proved |
| `SnapshotPublisher` | `control/snapshotPublisher.ts` | latest wins |
| `HostRuntime` | `control/worker.ts`, the shutdown it shares with `index.ts`, `lib/heartbeat.ts`, `status.ts`; extends `SnapshotPublisher` | one host from start to end |
| `HostRuntime_proofs` | | all the safety properties of the host, proved |

### HostLock

`lock`, `guard` and `beat` are the files. A document is who wrote it and whether its text is
complete: `writeFile(..., 'wx')` creates the file before it fills it. `pc[p]` is the point a
process has reached in `acquireLock` or `releaseLockIfOwned`; `seenLock` and `seenGuard` are
the documents it holds in memory, `tries` and `guardTry` its positions in the two bounded
loops. Actions carry the names of the steps: `EnsureRead`, `EnsurePid`, `DropRead` and
`DropUnlink` are `ensureNoActiveRecovery`, `CreateLock` to `CreateGuard` the search for an
owner, `RecheckLock` to `RemoveLock` the part under the guard, `FreeRead` and `FreeUnlink` the
release of the guard. `Crash` ends a process anywhere and leaves its files.
`staleTo` is the set of processes that find the heartbeat older than the threshold: time only
makes it staler, so once one does, later callers do.

### OrchestrationStore and Supervisor

The store's state is one Run's rows: `run`, `task`, `edge`, `attempt` (the statuses by ordinal),
`owner` (the host instance of the latest attempt), `evidence` (what the events of the latest
attempt record) and `intent` (the durable cancellation event). Each operator is one SQLite
transaction: whole or not at all, and it survives a crash. `RUN_TRANSITIONS` and
`TASK_TRANSITIONS` are the tables of `transitions.ts`; what the store refuses is not a step.

`Supervisor` adds the host. It is one JavaScript thread: `pc` names the synchronous section it
is in and is `"loop"` between sections, the only place where another handler can run. `drive`
says where the drive loop waits: not started, approved and waiting for the request's answer,
asleep between ticks, ticking, awaiting the execution, ended, thrown, or reporting its error.
`exec` is how far `runExecution` has come, `killed` whether the execution was cancelled,
`marked` the in-memory cancellation. Each transaction of a section is a step of its own, so
the process may die between any two of them (`Crash`), or be stopped in order (`Shutdown`,
`Halt`), and the next instance (`Start`) recovers and resumes.

| Code | Actions |
|---|---|
| `recoverInterruptedAttempts`, `resumeResumableRuns` | `Start`, `Recover`, `Resume` |
| `handleApprovePlan` | `ApproveRun`, `ApproveTask`, `ApproveDependency`, `ApproveFail`, `ApproveDone`, `Reapprove`, `CompleteRequest` |
| `driveRunToCompletion`, `supervisorTick` (A) to (H) | `Wake`, `Recover`, `Reconcile`, `NoReadyTask`, `StartRun`, `Launch` |
| `AttemptExecutor.runExecution` | `ExecReport`, `ExecJudge`, `ExecSettle`, `ExecFail`, `ExecStrand` |
| `applyReconciledTaskAction`, `scheduleRetry`, `pauseForGate`, `evaluateAndApplyRun` | `MarkTask`, `ScheduleRetry`, `RetryBlocked`, `RetryPending`, `PauseForGate`, `PauseRun`, `EvaluateRun` |
| the end of a drive, `dispatchNonCancel` | `TickThrows`, `Finally`, `ReportError` |
| `handleCancelRun`, `finalizeRunCancellation` | `CancelRun`, `SweepTask`, `SweepRun`, `SweepFail` |
| `AttemptExecutor.shutdown`, the worker's shutdown | `Shutdown`, `Halt` |

`torn` is a history variable: it records that a sequence of transactions ended half done
(`"approve"`, `"retry"`, `"gate"`, `"sweep"`), that the process ended between a gate's event
and its attempt's status (`"verdict"`), or that a stop cancelled an execution (`"stop"`). Two
invariants hold except after such an event; they say so, and section 4 says what the code does
then.

`RunLifecycle` is what the owner is promised: a plan laid down while the Run is pending and fixed
after that; tasks tried in a running Run only, within their budget, after their dependencies have
passed, and not once a cancellation was asked for; one end, which stays, cancelled only when asked
or before anything was tried. `ImplementsLifecycle` says that `Supervisor` is such a Run: its
status, dependencies and intent are the rows themselves, `Created` its tasks, `Passed` those
marked passed, and `Tries` the numbers of their attempts. Instances, crashes, ticks, retries,
evidence and sweeps do not show. `EndedStays` follows from it, and is proved by itself.

Abstracted: names, prompts, payloads and timestamps; the provider and the policy, whose
outcomes are nondeterministic choices; snapshots and telemetry, which are written and never read
back; the control plane, of which only the answer to an approval matters here.

### RequestClaims

A row has a `status` (with the reason it failed for, since two of them are of interest), the
instance that claimed it (`claimer`), and whether it was claimed longer ago than the two
thresholds, both 120 s (`old`). An instance has a `life` (off, up, stopping, down), a presence
that is `fresh` or not, and in memory: the rows of the claim whose answer it awaits (`flight`),
the `held` and `poisoned` sets, the rows `offer()` has still to come to (`batch`), whether it awaits
the notice that a row was queued (`notice`), the `queue`, and in `work` two slots, the
cancellation `offer()` awaits and the active job. `cancels` are the rows inserted as
cancellations. Between these two awaits `offer()` runs to its end without letting anything else
run on the one JavaScript thread (`OfferRuns`); timers, handlers, signals and answers find it
before it, at an await, or done. A claim, an
answer, a failing of a row by either recovery are calls: their effect on the table and the
instance's taking note of it are distinct steps, or one of them does not happen.

| Code | Actions |
|---|---|
| the browser's insert; time | `Submit`; `Age`, `Expire` |
| `runControlWorker`: presence, shutdown, end | `Start`, `Publish`, `Stop`, `Exit` |
| `claim_agent_control_requests` through `withRetry` | `Claim`, `LoseAnswer`, `Receive` |
| `ControlRequestScheduler.offer` | `Receive`, `OfferPoisoned`, `OfferCancel`, `OfferJob`, `EndNotice`, `EndOffer` |
| `pump`, `runJob` | `Pump` in `EndOffer` and `Finish`; `Handle`, `Throw`, `FailSafely` |
| `dispatchNonCancel` of `approve_plan` | `Approve`, `EndDrive` |
| `recoverLostClaims` | `Judge`, `FailLost`, `LostCallFails` |
| `sweepOrphanClaims` | `Sweep`, `FailOrphan`, `SweepCallFails` |

A handler is one step up to its answer, because nothing but the answer is shared with other
requests here; what `approve_plan` does is `Supervisor`'s. `Handle` may leave the row unanswered,
which `gateRestartRequiredRequest` does when its call fails. Abstracted: payloads and results,
the delays and the budget of `withRetry` (a call "fails" when its retries are spent), the health
tracker, and progress notes.

`RequestBoard` is what the owner is promised: a request is submitted, taken, dispatched at most
once and answered once. `ImplementsBoard` says that `RequestClaims` is such a board, its row
being `OwnerSees`, the status with the two recoveries' failures shown as "given up".

### ApplyCandidate

`disk[f]` is what a path of the owner's tree holds, reduced to what the code tells apart: the
captured baseline, what the candidate makes of it, bytes of the owner's, a torn write, nothing.
`unsafe` are the paths that lead through a junction or to a symbolic link, `event` is the durable
applied event, `pc` and `at` are the step of `handleApplyCandidate` and the file in hand. The
look at a path, the read of its bytes and the write are awaited one by one, and are three steps,
on the way forward and on the way back; the owner edits or swaps any path between any two of them,
every call may fail, a failing write leaves any prefix, and `Crash` leaves the files.

| Code | Actions |
|---|---|
| the applied event, the preflight, the comparison with the baseline | `Begin`, `Refuse`, `Prepare`, `Read` |
| `commitPreparedWrites` | `Recheck`, `Compare`, `Write`, `WriteFails`, `Verify`, `Abort` in them |
| `rollbackTouched`, `canProveApplyChangeStillIntact` | `StillSafe`, `Prove`, `LeaveAlone`, `Restore`, `RestoreFails`, `Confirm`, `RollbackFails` |
| the event and the answer | `Record`, `Reply` |
| the owner, the end of the host | `OwnerEdit`, `Crash` |

`swapped` records that the path in hand was swapped for one through a junction after
`resolveSafePath` had looked at it, `raced` that the file in hand was edited after its bytes
were compared: between a look and the call that relies on it this code cannot help, and a path
swapped between the two looks passes the second when what is behind it has the known bytes.
`torn` records the file whose write failed once begun. The conditions of the preflight (run,
verdict, policy, workspace) are one choice, `Refuse`.

### ProcessRunner

`state`, `reason` and `timers` are the runner's; `kill` is the call of `killFn` under way, or on
Windows the step of the tree's termination (snapshot, `taskkill`, sweep); `alive` are the
processes of a chain of descendants, of which the first is the one spawned. `abandoned` are the
Windows commands given up at their bound: they are told to abort, nobody awaits them, and they
may still end processes (`LateKill`). Process ids are not used again in the model, a kill
elsewhere than on Windows ends the spawned process only, as in the code, and a `spawn` that
throws at once, which has no run, is left out.

| Code | Actions |
|---|---|
| the operating system | `Fork`, `Exit` |
| the streams, `cancel`, the error and close events | `Output`, `Cancel`, `SpawnError`, `Close` |
| the clocks, `pollWorkspace` | `TimedOut`, `Poll`, `Scanned` |
| `terminate`, `settle`, `markActivity` | operators of the same names in the actions above |
| `forceKill`, its answer, `finishAfterKill` | `forceKill`, `Killed`, `PostKill` |
| `terminateWindowsProcessTree` | `Snapshot`, `Taskkill`, `Sweep`, `LateKill` |

### HostRuntime and SnapshotPublisher

`pc` is where `runControlWorker` is, `tick` and `sd` where the heartbeat callback and the
shutdown are, `file` and `write` the heartbeat file, its temporary file and what each writer of
it has open. `drive` is a drive of a Run as the host sees it (between ticks, executing, after a
tick, parked at a paused Run), `version` counts the changes of that Run. `SnapshotPublisher`
holds the snapshots in flight and the pending slot, and is driven by the drive's actions.
`Status` is `classifyStatus`.

| Code | Actions |
|---|---|
| `runControlWorker` up to its loop, the loop, its end | `Boot`, `FirstBeat`, `Ready`, `PublishPresence`, `ResumeRuns`, `ClaimRound`, `Return`, `Exit` |
| the heartbeat timer, `writeJsonAtomic` | `HeartbeatTimer`, `TickRefreshed`; `OpenTemporary`, `FillTemporary`, `RenameTemporary`, `WriteFails` |
| the signal handlers, `processGuards.ts` | `Signal`, `UncaughtException` |
| `shutdown`, `shutdownHostRuntime` | `ShutdownRefreshed`, `SayStopping`, `ExecutorShutdown`, `ExecutionOver`, `Drained`, `SayStopped`, `CloseStore`, `ReleaseLock`, `ShutdownFails` |
| `driveRunToCompletion` | `StartDrive` in others, `SupervisorTick`, `AttemptReturns`, `AfterTick`, `LookAgain`, `DriveThrows` |
| `createLatestWinsPublisher` | `publish` in the drive's actions, `SnapshotSettled` |
| the system | `Kill` |

The host does not share state with `Supervisor` or `RequestClaims` in the model: what a tick
decides and which request is claimed are choices here, and the host's stop and crash are actions
there. The process that `index.ts` runs without a control plane shares the heartbeat, the
shutdown and the status; its own loop is not modelled (section 6).

## 3. Runs

`TLC` checks every run below; `PROJECT.json` has one deliberate bug (mutant) for each property
of each passing run, and TLC finds each of them.

| Run | Instance | Shows |
|---|---|---|
| `lock_safety` | 2 processes, 2 earlier instances, 3 rounds, fair | one owner unless a recoverer died under its guard, no live lock stolen, the invariant the proof uses; every acquisition ends; a host alone over stale, complete leftovers gets the lock |
| `lock_single` | 2 processes, 2 earlier instances, symmetry | expected violation, section 4 |
| `supervisor_safety` | 3 tasks, 3 plans, 3 host instances, fair, no failing writes | the plan and the budget hold; every Run ends or waits at a gate; a cancellation takes effect |
| `supervisor_faults` | 2 tasks, 2 plans, 2 host instances, every write may fail | half-done sequences, stranded attempts and plans approved again break no safety property; the refinement of `RunLifecycle` |
| `supervisor_stop`, `supervisor_cancel` | 2 tasks, 1 plan, 2 host instances | expected violations, section 4 |
| `claims` | 2 requests, one of which may be a cancellation, an instance that may stop, die or fall silent, one that serves to the end, fair | the refinement of `RequestBoard`; the held set is exact, no row waits beside an idle slot; neither recovery nor a late answer breaks this; every request is answered, or waits behind the drive of a Run; every cancellation is answered |
| `claims_poisoned` | 2 requests, one instance | expected violation, section 4 |
| `apply_safety` | a modified, an added and a deleted file | nothing but known bytes is overwritten, and inside the repository, unless the path was swapped or the file edited after the last look at it; "applied" and a rollback's report are true; nothing is applied twice |
| `apply_torn` | the same | expected violation, section 4 |
| `process_runner` | a process with two generations of descendants, both platforms, 4 waits, fair | the first cause is kept, the kill precedes the report, survivors are told of, after it no timer is armed, no kill begun and none lands but one that was given up; every run settles |
| `host_runtime` | a Run that changes twice, fair | status, lock, exit code, order of snapshots; the host stops, serves, shows the last state |

**Bounds.** Two lock processes are enough for a recoverer and a fresh owner, with the stale
judgement of either, and for the two owners of `lock_single`, where the recoverer that died
under its guard is one of the earlier instances. Two earlier instances make a stale lock and a
stale guard of different owners; the invariant is proved for any number of both. The three plans
contain a task two others wait for, a task that waits for two, and a cycle (which the store
refuses half way through an approval). Budgets are one attempt (the default) and two, so both
outcomes of `evaluateRetryBudget` occur. `MaxHosts` bounds crashes and stops: with three
instances an attempt may be interrupted, retried, and interrupted again, which exhausts the
larger budget; the last instance does not crash, which is what lets liveness be asked. Two
requests make one wait behind the other, in the batch and in the queue, and behind the drive of
a Run; two instances make one sweep the other's rows while it is dead, or alive and silent.
`MayCancel` are the rows that may be inserted as cancellations: one may, so that both mixtures
occur; when it is none, the two rows are interchangeable, so that `Answers` is asked of the other
only. `Mortal` and `Silent` say which instances may stop or die, and which may fail to publish:
one may not, or no request need ever be answered. The proofs cover any mixture of all three.
Nothing else of `RequestClaims` is bounded: each instance starts once and each request is a row
of its own. Three files of the three kinds make a file before, in and after the hand of every
step of `ApplyCandidate`, and requests are repeated without bound. Three processes in a chain
make an orphan with a living parent and one with a dead one; `MaxWaits` is the code's own bound,
4. `MaxVersion` 2 makes a snapshot that is sent, one that is superseded while it is, and one
that is pending; the bound is reached in both an attempt's result and a tick. It also ends every
drive but that of a paused Run: that Runs do end or wait at a gate is `RunSettles`, and `Stops`
and `Serves` rest on it. `StoreMayFail` and `PlaneMayFail` switch on write failures; they are a
run of their own because every step then has two outcomes. `CHECK_DEADLOCK FALSE` is set, except
for `ApplyCandidate`, because these systems really stop: one Run ends and is not followed by
another, lock processes exit, all host instances may be gone, a run of a process is settled.
Each module has one type invariant, `TypeOK`; where it is proved (all but `OrchestrationStore`,
whose types are part of `Supervisor`'s) the runs do not list it again.

**Fairness.** For the lock, a live process keeps making file-system calls. For the supervisor:
the event loop goes on (`Approve`, `Tick`, `Settle`, `Close`); an execution ends, because the
executor arms a hard timeout and kills the process tree (`Executor`); a shutdown ends in an
exit, because its drains are bounded (`Halt`); the operator starts the host again (`Start` in
`Boot`). For the requests: the claim loop goes on and handlers end, since the calls and the
planner they wait for have time limits (`LoopStep`, `SlotStep`), the timers go on (`Judge`,
`Sweep`), the operator starts instances, a stopping one exits, its presence expires, rows get
old, and the database does not refuse the recoveries' calls forever (`RecoveryCall`, the one
strong fairness). A started instance is assumed to get past the Runs it resumes. What the
instances outside of their own loop need is one operator, `Surroundings`. The drive of a Run is
not assumed to end, since that of a paused Run does not: hence `WaitsForDrive` in `Answers`. For
the process runner: armed timers fire (the overall clock, grace, retry, the waits after the
kill) and the commands used on Windows have time limits (`Windows`); nothing is assumed of the
process, its output, its pipes, or of `killFn`'s answer. For the host: the event loop runs the
continuations of the main path, of the heartbeat callback, of the shutdown and of the drive, and
every call it awaits returns or throws (`Main`, `Beating`, `Stopping`, `Driving`, `Sending`); an
attempt ends by `Settles`. Nothing is assumed of the owner's approvals and cancellations, of
signals, exceptions, crashes or failures. Liveness is checked without write failures: after one
the code does not retry, and an attempt can stay "running" until the next start.

## 4. What the runs found

Each of these is a run with a counterexample, and a finding in `PROJECT.json` that quotes the
sentence it contradicts.

- `lock_single`: the recovery guard is read and then unlinked by path. An earlier instance died
  under its guard, another left a stale lock. A and B both find the guard dead. A unlinks it,
  takes a guard of its own and judges the stale lock; B, which has read the dead guard, unlinks
  A's in its place, takes its own, judges the lock, removes it and frees its guard. In the next
  round B finds no guard and no lock, creates the lock and owns it. A had its last look at the
  lock before: it removes B's, finds no guard of its own to free, and creates the lock in its
  next round. Both own it. Two live contenders are enough; while nobody dies under the guard
  this cannot happen, which is proved.
- `supervisor_stop`: a graceful stop cancels the execution, and the tick that awaits it marks
  the task cancelled and fails the Run, which was to stay resumable.
- `supervisor_cancel`: a cancellation of a Run that waits at a gate, while its drive sleeps, is
  never carried out; a restart looks only at pending and running Runs. What is behind it is a
  finding of its own: `worker.ts:1356` says that a drive stops at a paused Run, and the set it looks
  at (`worker.ts:1247`) holds "paused", so it goes on. The same drive keeps the only job slot, so
  that an approval behind it does not start (the exception of `Answers`), and, resumed at startup
  and then paused, keeps the host from claiming (that of `Serves`) and, when the shutdown fails,
  the process from ending (that of `Stops`).
- `claims_poisoned`: a row is looked up in the poisoned set when `offer()` comes to it and not when
  the slot takes it. One whose claim was answered more than 120 s late, and which the recovery was
  already failing, is queued; the call comes back and poisons it while `offer()` awaits the notice
  of the row behind it; the slot then dispatches it. The owner reads that it was lost.
- `apply_torn`: a file counts as touched once its write has returned. One whose write fails after
  it has truncated the file is neither restored nor named, and when the others are restored the
  owner is told that the rollback passed. The next request finds a conflict and stops.

The model also shows, without a run of their own: a gate's event is durable before the attempt's
status, and after a crash between the two the attempt is "interrupted", which `supervisor.ts:542`
looks at before the events, and is retried past the gate (the exception of `GateHolds`); a
cancellation handled while a failed drive reports its error is left to a drive that has already
run its finally clause (`worker.ts:1235`, `:1959`); a crash between the transactions of a retry
(`failed`, `blocked`, `pending`) or of a pause leaves a blocked task, for which the resumed Run
is failed (hence the exceptions of `FailedForCause`); a crash during an approval leaves a Run
with part of its plan, which is resumed (the exception of `PlanRespected`).

Of the requests the model shows, as well, the following. The sweep of another instance fails the
row of one that is alive but silent, which goes on working on it. A handler that throws, and
whose failing call fails too, leaves a row that is later reported as lost although it ran. In
these cases, and in `claims_poisoned`, the owner is told to submit again what has been done, or
is being done, once: no request runs twice, but the two answers of the same wish are two
requests.

Of the host it shows the exceptions its properties name. A heartbeat callback already past its
check of the shutdown writes "running" after "stopped", and shares its temporary file with the
shutdown's writes, so that `heartbeat.json` may even be left half written (`raced`). An attempt
that outlasts the executor's shutdown goes on after the lock is released (`overran`), and so does
the drive of a startup resume, which is no job and is not drained: it ends at the closed
database. A step of the shutdown that throws (`sd = "failed"`) skips the rest of it, the
release of the lock included; the process then ends unless a paused Run is being driven. A first
presence that fails leaves a process whose timers beat and which claims nothing (`"rejected"`).
An exception that comes during an orderly shutdown is ignored and the process exits 0. On the
process runner: a kill that did not answer in all the waits, or a Windows command that ignores the
abort at its bound, may take effect after the run was reported (`NothingAfterSettle` says when);
elsewhere than on Windows the descendants of a killed provider are neither killed
nor told of; `SurvivorsTold` is about Windows, where the code promises it.

## 5. Proofs

Checked by TLAPS for every value of the constants under the named assumptions of the modules
(tasks are naturals, budgets are positive, the absent values are distinct from the others).

- `HostLock_proofs`: `LockInvariant` proves `LockInv` inductive. It says what each stage may
  rely on: an owner's own lock is on disk (`LockHeld`), the guard on disk is the one live
  recoverer's (`GuardHeld`), the lock confirmed under the guard stays there (`Confirmed`), and
  what was judged dead has ended (`Judged`). `SingleOwner`, `SingleRecoverer` and
  `LockNeverStolen` follow. Single ownership alone is not inductive: it depends on no process
  being about to remove a lock that is no longer the one it judged.
- `Supervisor_proofs`: `TypeCorrect` (with `InHand`: an execution is awaited outside every
  synchronous section, for the task in hand). `CancellationWins` needs `CancelInv`: the mark
  equals the durable intent in a live process, a tick that began unmarked has not awaited
  yet, and only a marked Run is swept. `RetriesAreBounded` needs `RetryInv`: a pending task
  has no attempt or may have another, so only `scheduleRetry` leads to a second one.
  `OneExecution` needs `WorkInv` and `CancelInv`: unless the Run is being cancelled, an attempt
  running on this host belongs to a running task, so a host without a running task runs none.
  The proofs also cover `StoreMayFail` and `PlaneMayFail`.
- `SupervisorOutcomes_proofs`: every other safety property of the two Supervisor runs, and
  `LifecycleImplemented`. They share `Base`, the invariants above with `InStage`: which sections
  belong to a ticking drive, that a Run is ticked only while pending or running, that the task in
  hand was attempted, and that a task never attempted has no evidence. On top of it each result
  has an invariant of its own, because none is inductive alone. `PassesAreReal` needs `PassInv`:
  an attempt passes without a rejection, and gets no event afterwards. `GatesAreHeld` needs
  `GateInv`, the one way past a gate: an attempt still running in the store of a host that is
  gone, then interrupted, then retried, all of it behind `"verdict"` in `torn`. `PlansAreRespected`
  needs `PlanInv`: outside of an approval the dependencies written are the plan's.
  `FailuresHaveCause` needs `CauseInv`: a task is cancelled only when the owner asked or a stop
  came, failed only when it is spent, and blocked only inside a retry or a pause, or in a Run that
  waits or is cancelled. `LifecycleImplemented` needs `LifeInv`: what was attempted was so in a Run
  that had begun, a Run is paused for the blocked task in hand, and judged only when it has tasks.
  `Silent` says which rows show in the lifecycle; each action is shown to be one of its steps or
  to leave those rows alone. `EndedForGood` needs `Base` only.
- `RunLifecycle` holds one theorem of its own, `PromiseKept`: what its rules mean for every
  reachable state, among it that a Run of which anything was tried is cancelled only on request.
  `PromiseKeptByHost` carries it over the refinement to the Supervisor, where it holds without the
  exceptions that `PlanRespected` and `FailedForCause` have to make: those are about the plan and
  the causes, which a crash can tear, this about the rows that are recorded.

- `RequestClaims_proofs`: `TypeCorrect`, every safety property that `claims` checks, and
  `BoardImplemented`, that every step is one of `RequestBoard`'s or a stutter, for any number of
  requests and instances. `ClaimInv` is a ledger of each instance and a place for each row.
  `Ledger` says that a claim and an offer do not overlap, that a row is in at most one of
  answer, batch, queue and slots, at one position of the queue, and that what is held is what is
  in hand; `Place`, that a row waits or is worked on only at the instance that claimed it, after
  it was claimed, and has been dispatched exactly when it left the waiting. `AtMostOnce` alone
  is not inductive: it depends on no row being in two places, which depends on rows being
  claimed only while they are pending. `NeverIdle` is proved beside `ClaimInv`; the action
  properties follow from it step by step. Nothing is assumed of the calls, so lost, late and
  failing ones are covered.

- `ApplyCandidate_proofs`: `ApplyInvariant`, for any number of files of any kinds. `InHand` says
  that between its check and its call the path in hand is safe or was swapped, and that between its
  comparison and its call the file holds the bytes it was found with, or the owner raced;
  `Verified`, that the files before the one in hand are intact or edited since; `Undone`, that
  every file that was wholly written is still to be undone, left alone, put back or confirmed;
  `Recorded` and `Fresh`, that the event came from a verification and that a new request starts
  from nothing. The report of a rollback alone is not inductive: it depends on where the rollback
  is among the written files.
- `ProcessRunner_proofs`: `RunInvariant`, for a chain of any length and any bound on the waits.
  `Staged` gives each state its timers and its cause (only the clocks while running, only grace,
  retry and wait while terminating, none once settled); `Posix` and `Windows32` say what a step of
  the kill implies, so that neither `Close` nor a timer can settle a run before it was killed, and
  that a kill still to come after the settle was given up: after all the waits, or with
  possibleSurvivors noted.
- `HostRuntime_proofs`: `HostInvariant`, for any number of changes of the driven Run. `Progress`
  says what each step of the shutdown has done already, `Writers` that the shutdown writes the
  heartbeat alone unless it raced with a tick, `Whole` that what is then renamed was whole,
  `Code` where an exit code comes from, and `Ordered` that at most one snapshot is in flight, not
  older than the one shown.

Each step lemma has one case per action. `FirstIn` (every non-empty set of tasks has a first
one) comes from the library's well-foundedness of the naturals; `AttemptEnds` and
`AttemptBegins` say what the two transactions do to the sequences of attempts.

`AtMostOnce`, `OneRecoverer` and `EndedStays` are proved and not listed in a run: the refinements
and `LockInv` say more. Nothing of the fairness is used in a proof.

Only model-checked: liveness (`RunSettles`, `CancelTakesEffect`, `Decides`, `RecoversAlone`,
`Answers`, `CancelAnswered`, `Settles`, `Stops`, `Serves`, `LastSnapshotShown`), which
needs fairness and ENABLED, outside the prover. Every safety property of a passing run is proved.

## 6. Not modelled, and why

Within the Agent Host:

- *Attempt workspaces, policy engine, provider adapters, planning and scope packs*: copies and
  comparisons of trees, classification of text, command lines, parsing. They keep no state
  between calls and share none; their outcomes are the choices of `ExecJudge`, `Refuse` and the
  constant `Plans`.
- *Operator commands*: sequential tools over the store, excluded by the host's lock.
- *The control plane's database*: its claim is one SQL statement, the action `Claim`; the rest is
  tables and row-level security.
- *`index.ts` without a control plane*: a host that only beats. It shares the heartbeat and the
  shutdown with `HostRuntime`. It differs in that a signal during the startup is noted but never
  ends the process, and that `handleFatalError` sets the exit code and leaves the lock to the next
  host's recovery. Telemetry, host checks and the event file's format are data.
- *A snapshot that reaches the control plane after its call has failed*: the upsert of
  `supabaseControl.ts:387` has no condition on what it replaces, so an older state stored that late
  would be shown after a newer one. `SnapshotsInOrder` is about calls whose failure means that
  nothing was stored.
- *Process ids used again, the prompt written to stdin, encodings*: out of `ProcessRunner`.

The rest of the repository is by far the larger part (some 600,000 lines, most of them React
components and generated data) and no part of the orchestration: the hub front end, finance and
banking, the serverless functions, the shells, and the SQL of the time clock. These are
presentation, arithmetic, or handlers of one transaction each. The share of the repository's
lines that the modules cover is small for that reason; of the Agent Host's control, supervision,
lock, runner and apply code they cover the operations that change state.

## 7. Plan

1. The invariants the proofs share (`Base`, `ClaimInv`, `HostInvariant`) as premises of the
   remaining questions about two components at once: a drive as `HostRuntime` sees it and as
   `Supervisor` does.
2. The SQL of the work sessions, if it comes to have more than one transaction per call.
