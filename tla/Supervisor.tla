----------------------------- MODULE Supervisor -----------------------------
(***************************************************************************)
(* One Run from its approval to its end: the Supervisor's tick             *)
(* (agent-host/supervisor/supervisor.ts, stateMachine.ts), the drive loop, *)
(* approve_plan, cancel_run and the startup resume of the control worker   *)
(* (control/worker.ts), and the AttemptExecutor as they see it             *)
(* (providers/executor.ts).                                                *)
(*                                                                         *)
(* The host is one JavaScript thread: pc is the synchronous section it is  *)
(* in, "loop" between two of them, and drive is where the Run's drive loop *)
(* awaits.  Every store transaction is a step of its own, so the host may  *)
(* die between any two; another handler runs only in "loop".               *)
(***************************************************************************)
EXTENDS OrchestrationStore

CONSTANTS
  Plans,     \* the dependencies an approved plan may ask for
  NoTask,    \* cur when no tick has a task in hand
  MaxHosts,  \* host instances; the last one neither crashes nor is stopped
  StoreMayFail,  \* a write of the store, or of the control plane, may fail
  PlaneMayFail

ASSUME PlansAssumption  == \A p \in Plans : p \subseteq Task \X Task
ASSUME NoTaskAssumption == NoTask \notin Task
ASSUME HostsAssumption  == MaxHosts \in Nat \ {0}
ASSUME FaultsAssumption == StoreMayFail \in BOOLEAN /\ PlaneMayFail \in BOOLEAN

VARIABLES
  plan,     \* the dependencies of the plan under approval
  host,     \* the number of this host instance
  pc,       \* the section the thread is in, "down" when there is no process
  drive,    \* driveRunToCompletion of the Run
  cur,      \* the task of the tick in progress
  polling,  \* the startup resume is over, requests are claimed
  exec,     \* how far AttemptExecutor.runExecution is with cur
  result,   \* the provider's result it holds
  killed,   \* the execution's cancel() was called
  marked,   \* the Run is in cancelRequestedRuns
  closing,  \* shutdown() was called
  torn      \* history: multi-step changes that ended half done

hostVars == <<drive, cur, polling, exec, result, killed, marked, closing>>
vars == <<run, task, edge, attempt, owner, evidence, intent,
          plan, host, pc, drive, cur, polling, exec, result, killed, marked, closing, torn>>

Section == {"down", "loop", "approve", "recover", "decide", "retry", "gate", "evaluate", "sweep"}
Drive   == {"off", "approved", "asleep", "ticking", "awaiting", "ended", "thrown", "erring"}
Result  == {"none", "success", "timeout", "failed", "cancelled"}

-----------------------------------------------------------------------------
(* Fault: a retryable cause is looked for before a human gate. *)
Cause_gateLast(t) ==
  IF Latest(t) = "interrupted" THEN "host-interrupted"
  ELSE IF "timeout" \in evidence[t] THEN "execution-timeout"
  ELSE IF "failure" \in evidence[t] THEN "provider-process-failure"
  ELSE IF "gate" \in evidence[t] THEN "human-gate"
  ELSE IF "policy" \in evidence[t] THEN "policy-rejection"
  ELSE IF "cancelled" \in evidence[t] THEN "cancelled"
  ELSE "unknown"

(* What the durable events of a failed attempt mean: a human gate first,   *)
(* then what must not be retried, then what may be.                        *)
Cause(t) ==
  IF Latest(t) = "interrupted" THEN "host-interrupted"
  ELSE IF "gate" \in evidence[t] THEN "human-gate"
  ELSE IF "policy" \in evidence[t] THEN "policy-rejection"
  ELSE IF "cancelled" \in evidence[t] THEN "cancelled"
  ELSE IF "timeout" \in evidence[t] THEN "execution-timeout"
  ELSE IF "failure" \in evidence[t] THEN "provider-process-failure"
  ELSE "unknown"

RETRYABLE_CAUSES == {"provider-process-failure", "execution-timeout", "host-interrupted"}

(* Fault: the budget counts retries, not attempts. *)
RetryAllowed_offByOne(t) == Cause(t) \in RETRYABLE_CAUSES /\ Len(attempt[t]) <= MaxAttempts[t]
RetryAllowed(t) == Cause(t) \in RETRYABLE_CAUSES /\ Len(attempt[t]) < MaxAttempts[t]

Goto(section) == pc' = section
Drives(state) == drive' = state

-----------------------------------------------------------------------------
(* Host instances: a start, a crash, a graceful stop. *)
Off ==
  /\ pc' = "down" /\ drive' = "off" /\ cur' = NoTask /\ polling' = FALSE
  /\ exec' = "off" /\ result' = "none" /\ killed' = FALSE
  /\ marked' = FALSE /\ closing' = FALSE

Init ==
  /\ StoreInit
  /\ plan \in Plans
  /\ host = 0
  /\ pc = "down" /\ drive = "off" /\ cur = NoTask /\ polling = FALSE
  /\ exec = "off" /\ result = "none" /\ killed = FALSE
  /\ marked = FALSE /\ closing = FALSE
  /\ torn = {}

(* A new instance: the set of cancelled runs is seeded from the store. *)
Start ==
  /\ pc = "down" /\ host < MaxHosts
  /\ host' = host + 1
  /\ Goto("recover")
  /\ marked' = intent
  /\ UNCHANGED <<storeVars, plan, drive, cur, polling, exec, result, killed, closing, torn>>

(* The process ends between a gate's evidence and its attempt's status. *)
UnwrittenVerdict ==
  {s \in {"verdict"} : \E t \in Task : Runs(t) /\ "gate" \in evidence[t]}

Crash ==
  /\ pc # "down" /\ host < MaxHosts
  /\ Off
  /\ torn' = torn \cup ({pc} \cap {"approve", "retry", "gate"}) \cup UnwrittenVerdict
  /\ UNCHANGED <<storeVars, plan, host>>

(* shutdown(): no new execution is accepted, the active one is cancelled. *)
Shutdown ==
  /\ pc = "loop" /\ ~closing /\ host < MaxHosts
  /\ closing' = TRUE
  /\ killed' = (killed \/ exec # "off")
  /\ torn' = torn \cup {s \in {"stop"} : exec # "off"}
  /\ UNCHANGED <<storeVars, plan, host, pc, drive, cur, polling, exec, result, marked>>

(* The executor and the slot are drained, or the drain has timed out. *)
Halt ==
  /\ pc = "loop" /\ closing
  /\ Off
  /\ torn' = torn \cup UnwrittenVerdict
  /\ UNCHANGED <<storeVars, plan, host>>

-----------------------------------------------------------------------------
(* Startup, before requests are claimed. *)

(* recoverInterruptedAttempts, one attempt per step. *)
Recover ==
  /\ pc = "recover" /\ Stale(host) # {}
  /\ TransitionAttempt(First(Stale(host)), "interrupted")
  /\ UNCHANGED <<plan, host, pc, hostVars, torn>>

(* resumeResumableRuns: finalize a cancelled run, drive an unfinished one. *)
Resume ==
  /\ pc = "recover" /\ drive = "off" /\ Stale(host) = {}
  /\ \/ run \in {"pending", "running"} /\ intent /\ Goto("sweep") /\ UNCHANGED <<drive, polling>>
     \/ run \in {"pending", "running"} /\ ~intent /\ Goto("loop") /\ Drives("asleep")
          /\ UNCHANGED polling
     \/ run \notin {"pending", "running"} /\ Goto("loop") /\ polling' = TRUE /\ UNCHANGED drive
  /\ UNCHANGED <<storeVars, plan, host, cur, exec, result, killed, marked, closing, torn>>

-----------------------------------------------------------------------------
(* approve_plan: the run, its tasks, its dependencies, then its drive. *)
ApproveRun ==
  /\ pc = "loop" /\ polling /\ drive = "off" /\ ~closing
  /\ CreateRun
  /\ Goto("approve")
  /\ UNCHANGED <<plan, host, hostVars, torn>>

ApproveTask ==
  /\ pc = "approve" /\ Created # Task
  /\ CreateTask(First(Task \ Created))
  /\ UNCHANGED <<plan, host, pc, hostVars, torn>>

Missing == {t \in Task : \E d \in Task : <<t, d>> \in plan \ edge}

ApproveDependency ==
  /\ pc = "approve" /\ Created = Task
  /\ \E d \in Task :
       /\ Missing # {} /\ <<First(Missing), d>> \in plan \ edge
       /\ AddDependency(First(Missing), d)
  /\ UNCHANGED <<plan, host, pc, hostVars, torn>>

ClosesCycle ==
  Created = Task /\ \E d \in Task :
    Missing # {} /\ <<First(Missing), d>> \in plan \ edge /\ WouldCycle(First(Missing), d)

(* A creation that throws cancels the run it began; that may fail as well. *)
ApproveFail ==
  /\ pc = "approve" /\ (StoreMayFail \/ ClosesCycle)
  /\ \/ TransitionRun("cancelled") /\ UNCHANGED torn
     \/ StoreMayFail /\ torn' = torn \cup {"approve"} /\ UNCHANGED storeVars
  /\ Goto("loop")
  /\ UNCHANGED <<plan, host, hostVars>>

ApproveDone ==
  /\ pc = "approve" /\ Created = Task /\ edge = plan
  /\ Goto("loop") /\ Drives("approved")
  /\ UNCHANGED <<storeVars, plan, host, cur, polling, exec, result, killed, marked, closing, torn>>

(* The plan is approved again: the run it made is answered with, and driven. *)
Reapprove ==
  /\ pc = "loop" /\ polling /\ drive = "off" /\ ~closing
  /\ Created = Task /\ run \notin {"absent", "cancelled", "failed"}
  /\ Drives("approved")
  /\ UNCHANGED <<storeVars, plan, host, pc, cur, polling, exec, result, killed, marked, closing, torn>>

(* The answer to the browser is awaited before the drive; if it fails, there is none. *)
CompleteRequest ==
  /\ pc = "loop" /\ drive = "approved"
  /\ \/ Drives("asleep")
     \/ PlaneMayFail /\ Drives("off")
  /\ UNCHANGED <<storeVars, plan, host, pc, cur, polling, exec, result, killed, marked, closing, torn>>

-----------------------------------------------------------------------------
(* Fault: a paused run is ticked like a running one. *)
Wake_paused ==
  /\ pc = "loop" /\ drive = "asleep"
  /\ \/ run \notin Active /\ Drives("ended") /\ UNCHANGED pc
     \/ run \in Active /\ marked /\ Goto("evaluate") /\ Drives("ticking")
     \/ run \in Active /\ ~marked /\ Goto("recover") /\ Drives("ticking")
  /\ UNCHANGED <<storeVars, plan, host, cur, polling, exec, result, killed, marked, closing, torn>>

(* driveRunToCompletion wakes and ticks. *)
Wake ==
  /\ pc = "loop" /\ drive = "asleep"
  /\ \/ run \notin Active /\ Drives("ended") /\ UNCHANGED pc
     \/ run = "paused" /\ UNCHANGED <<pc, drive>>                           \* (A2)
     \/ run \in {"pending", "running"} /\ marked /\ Goto("evaluate") /\ Drives("ticking")   \* (A3)
     \/ run \in {"pending", "running"} /\ ~marked /\ Goto("recover") /\ Drives("ticking")   \* (B)
  /\ UNCHANGED <<storeVars, plan, host, cur, polling, exec, result, killed, marked, closing, torn>>

Running == {t \in Task : task[t] = "running"}
Choosing == pc = "recover" /\ drive = "ticking" /\ Stale(host) = {}

(* Fault: a running task is taken to be at work, whatever its attempt says. *)
Reconcile_leaves ==
  /\ Choosing /\ Running # {}
  /\ Goto("loop") /\ Drives("asleep")
  /\ UNCHANGED <<storeVars, plan, host, cur, polling, exec, result, killed, marked, closing, torn>>

(* (C) A running task is reconciled before anything else starts. *)
Reconcile ==
  /\ Choosing /\ Running # {}
  /\ LET t == First(Running) IN
       \/ Runs(t) /\ Goto("loop") /\ Drives("asleep") /\ UNCHANGED cur
       \/ ~Runs(t) /\ Goto("decide") /\ cur' = t /\ UNCHANGED drive
  /\ UNCHANGED <<storeVars, plan, host, polling, exec, result, killed, marked, closing, torn>>

(* (D) Nothing is ready: only the Run is evaluated; a run without tasks is left alone. *)
NoReadyTask ==
  /\ Choosing /\ Running = {} /\ Ready = {}
  /\ \/ Created = {} /\ Goto("loop") /\ Drives("asleep")
     \/ Created # {} /\ Goto("evaluate") /\ UNCHANGED drive
  /\ UNCHANGED <<storeVars, plan, host, cur, polling, exec, result, killed, marked, closing, torn>>

(* (F) *)
StartRun ==
  /\ Choosing /\ Running = {} /\ Ready # {} /\ run = "pending"
  /\ TransitionRun("running")
  /\ UNCHANGED <<plan, host, pc, hostVars, torn>>

(* (E), (G), (H): one attempt, handed to the executor; a closing one throws. *)
Launch ==
  /\ Choosing /\ Running = {} /\ Ready # {} /\ run = "running"
  /\ LET t == First(Ready) IN ~Runs(t) /\ CreateAttempt(t, host) /\ cur' = t
  /\ Goto("loop")
  /\ \/ ~closing /\ exec' = "launched" /\ Drives("awaiting")
     \/ closing /\ Drives("thrown") /\ UNCHANGED exec
  /\ UNCHANGED <<plan, host, polling, result, killed, marked, closing, torn>>

-----------------------------------------------------------------------------
(* AttemptExecutor.runExecution: the provider's result, the policy's       *)
(* verdict, then the attempt's terminal status, each written in its turn.  *)
Executing == pc = "loop" /\ drive = "awaiting"

ExecReport ==
  /\ Executing /\ exec = "launched"
  /\ \/ result' = "success" /\ AppendEvidence(cur, {})
     \/ result' = "timeout" /\ AppendEvidence(cur, {"timeout"})
     \/ result' = "failed"  /\ AppendEvidence(cur, {"failure"})
     \/ killed /\ result' = "cancelled" /\ AppendEvidence(cur, {"cancelled"})
  /\ exec' = "reported"
  /\ UNCHANGED <<plan, host, pc, drive, cur, polling, killed, marked, closing, torn>>

ExecJudge ==
  /\ Executing /\ exec = "reported"
  /\ \E verdict \in {{}, {"policy"}, {"policy", "gate"}} : AppendEvidence(cur, verdict)
  /\ exec' = "judged"
  /\ UNCHANGED <<plan, host, pc, drive, cur, polling, result, killed, marked, closing, torn>>

(* Fault: a success the policy rejected passes. *)
TerminalStatus_anySuccess ==
  IF result = "success" THEN "passed" ELSE IF result = "cancelled" THEN "cancelled" ELSE "failed"

(* resolveEffectiveAttemptStatus, and what the host checks may add to it. *)
TerminalStatus ==
  IF result = "success" /\ "policy" \notin evidence[cur] THEN "passed"
  ELSE IF result = "cancelled" THEN "cancelled" ELSE "failed"

(* The port's promise resolves: the tick goes on. *)
ToDecide == exec' = "off" /\ result' = "none" /\ Goto("decide") /\ Drives("ticking")

ExecSettle ==
  /\ Executing /\ exec = "judged"
  /\ TransitionAttempt(cur, TerminalStatus)
  /\ ToDecide
  /\ UNCHANGED <<plan, host, cur, polling, killed, marked, closing, torn>>

(* finishExecutionAttemptFailure, from any point: failed, with the evidence so far. *)
ExecFail ==
  /\ Executing /\ exec # "off"
  /\ TransitionAttempt(cur, "failed")
  /\ ToDecide
  /\ UNCHANGED <<plan, host, cur, polling, killed, marked, closing, torn>>

(* The terminal write itself fails: thrown by the executor, swallowed by failClosedLaunch. *)
ExecStrand ==
  /\ Executing /\ StoreMayFail
  /\ exec' = "off" /\ result' = "none"
  /\ \/ Drives("thrown")
     \/ exec = "launched" /\ Drives("asleep")
  /\ UNCHANGED <<storeVars, plan, host, pc, cur, polling, killed, marked, closing, torn>>

-----------------------------------------------------------------------------
(* (K) decideTaskAfterAttempt, then the transactions that apply it. *)
Deciding == pc = "decide"
LeaveTask == cur' = NoTask /\ killed' = FALSE
ToLoop == Goto("loop") /\ Drives("asleep") /\ LeaveTask

MarkTask ==
  /\ Deciding
  /\ \/ Latest(cur) = "passed" /\ TransitionTask(cur, "passed")
     \/ Latest(cur) = "cancelled" /\ TransitionTask(cur, "cancelled")
     \/ /\ Latest(cur) \in {"failed", "interrupted"}
        /\ Cause(cur) # "human-gate" /\ ~RetryAllowed(cur)
        /\ TransitionTask(cur, "failed")
  /\ Goto("evaluate") /\ LeaveTask
  /\ UNCHANGED <<plan, host, drive, polling, exec, result, marked, closing, torn>>

(* Fault: the run is evaluated while the retry is half written. *)
ScheduleRetry_evaluates ==
  /\ Deciding /\ Latest(cur) \in {"failed", "interrupted"} /\ RetryAllowed(cur)
  /\ TransitionTask(cur, "failed")
  /\ Goto("evaluate")
  /\ UNCHANGED <<plan, host, hostVars, torn>>

(* scheduleRetry: running -> failed -> blocked -> pending. *)
ScheduleRetry ==
  /\ Deciding /\ Latest(cur) \in {"failed", "interrupted"} /\ RetryAllowed(cur)
  /\ TransitionTask(cur, "failed")
  /\ Goto("retry")
  /\ UNCHANGED <<plan, host, hostVars, torn>>

RetryBlocked ==
  /\ pc = "retry" /\ task[cur] = "failed"
  /\ TransitionTask(cur, "blocked")
  /\ UNCHANGED <<plan, host, pc, hostVars, torn>>

RetryPending ==
  /\ pc = "retry" /\ task[cur] = "blocked"
  /\ TransitionTask(cur, "pending")
  /\ ToLoop
  /\ UNCHANGED <<plan, host, polling, exec, result, marked, closing, torn>>

(* pauseForGate: the task is blocked, then the run paused. *)
PauseForGate ==
  /\ Deciding /\ Latest(cur) = "failed" /\ Cause(cur) = "human-gate"
  /\ TransitionTask(cur, "blocked")
  /\ Goto("gate")
  /\ UNCHANGED <<plan, host, hostVars, torn>>

PauseRun ==
  /\ pc = "gate"
  /\ TransitionRun("paused")
  /\ ToLoop
  /\ UNCHANGED <<plan, host, polling, exec, result, marked, closing, torn>>

(* Fault: the run fails before an owner's cancellation is looked at. *)
NextRunStatus_failedFirst ==
  IF \E t \in Created : task[t] \in {"cancelled", "failed", "blocked"} THEN "failed"
  ELSE IF marked THEN "cancelled"
  ELSE IF \A t \in Created : task[t] = "passed" THEN "completed" ELSE "running"
(* evaluateRunLifecycle, with retryAvailable = FALSE as evaluateAndApplyRun passes it. *)
NextRunStatus ==
  IF marked THEN "cancelled"
  ELSE IF \A t \in Created : task[t] = "passed" THEN "completed"
  ELSE IF \E t \in Created : task[t] \in {"cancelled", "failed", "blocked"} THEN "failed"
  ELSE "running"

EvaluateRun ==
  /\ pc = "evaluate"
  /\ TransitionRun(NextRunStatus)
  /\ Goto("loop") /\ Drives(IF NextRunStatus \in Active THEN "asleep" ELSE "ended")
  /\ UNCHANGED <<plan, host, cur, polling, exec, result, killed, marked, closing, torn>>

(* A write of the tick fails: what it has written stays, and the drive throws. *)
TickThrows ==
  /\ StoreMayFail /\ drive = "ticking" /\ pc # "loop"
  /\ torn' = torn \cup ({pc} \cap {"retry", "gate"})
  /\ Goto("loop") /\ Drives("thrown")
  /\ UNCHANGED <<storeVars, plan, host, cur, polling, exec, result, killed, marked, closing>>

-----------------------------------------------------------------------------
(* The finally clause of the drive, then the error report of one that threw. *)
Finally ==
  /\ pc = "loop" /\ drive \in {"ended", "thrown"}
  /\ \/ marked /\ Goto("sweep") /\ UNCHANGED <<drive, polling>>
     \/ ~marked /\ drive = "ended" /\ Drives("off") /\ polling' = TRUE /\ UNCHANGED pc
     \/ ~marked /\ drive = "thrown" /\ Drives("erring") /\ UNCHANGED <<pc, polling>>
  /\ LeaveTask
  /\ UNCHANGED <<storeVars, plan, host, exec, result, marked, closing, torn>>

ReportError ==
  /\ pc = "loop" /\ drive = "erring"
  /\ Drives("off") /\ polling' = TRUE
  /\ UNCHANGED <<storeVars, plan, host, pc, cur, exec, result, killed, marked, closing, torn>>

(* Faults: the run is finalized under its drive; the live signal is not set. *)
CancelRun_finalizes ==
  /\ pc = "loop" /\ polling /\ ~closing /\ drive # "thrown" /\ run \in Active
  /\ RecordRunCancelIntent
  /\ marked' = TRUE
  /\ killed' = (killed \/ exec # "off")
  /\ Goto("sweep")
  /\ UNCHANGED <<plan, host, drive, cur, polling, exec, result, closing, torn>>
CancelRun_unmarked ==
  /\ pc = "loop" /\ polling /\ ~closing /\ drive # "thrown" /\ run \in Active
  /\ RecordRunCancelIntent
  /\ killed' = (killed \/ exec # "off")
  /\ Goto(IF drive \in {"off", "approved"} THEN "sweep" ELSE "loop")
  /\ UNCHANGED <<plan, host, drive, cur, polling, exec, result, marked, closing, torn>>

(* handleCancelRun: the intent is durable before anything is aborted; the  *)
(* drive finalizes the run it drives, this handler any other.              *)
CancelRun ==
  /\ pc = "loop" /\ polling /\ ~closing /\ drive # "thrown" /\ run \in Active
  /\ RecordRunCancelIntent
  /\ marked' = TRUE
  /\ killed' = (killed \/ exec # "off")
  /\ Goto(IF drive \in {"off", "approved"} THEN "sweep" ELSE "loop")
  /\ UNCHANGED <<plan, host, drive, cur, polling, exec, result, closing, torn>>

(* finalizeRunCancellation: every task that has not ended, then the run. *)
Unended == {t \in Task : task[t] \in {"pending", "running", "blocked"}}

SweepTask ==
  /\ pc = "sweep" /\ run \notin {"completed", "failed"} /\ Unended # {}
  /\ TransitionTask(First(Unended), "cancelled")
  /\ UNCHANGED <<plan, host, pc, hostVars, torn>>

(* A task that cannot be cancelled is passed over. *)
SweepRun ==
  /\ pc = "sweep" /\ (run \in {"completed", "failed"} \/ Unended = {} \/ StoreMayFail)
  /\ TransitionRun(IF run \in {"completed", "failed"} THEN run ELSE "cancelled")
  /\ Goto("loop") /\ polling' = TRUE
  /\ Drives(IF drive = "ended" THEN "off" ELSE IF drive = "thrown" THEN "erring" ELSE drive)
  /\ UNCHANGED <<plan, host, cur, exec, result, killed, marked, closing, torn>>

(* The run itself cannot be cancelled: the sweep throws. *)
SweepFail ==
  /\ pc = "sweep" /\ StoreMayFail
  /\ torn' = torn \cup {"sweep"}
  /\ Goto("loop") /\ polling' = TRUE
  /\ Drives(IF drive \in {"ended", "thrown"} THEN "erring" ELSE drive)
  /\ UNCHANGED <<storeVars, plan, host, cur, exec, result, killed, marked, closing>>

-----------------------------------------------------------------------------
Approve  == ApproveTask \/ ApproveDependency \/ ApproveFail \/ ApproveDone \/ CompleteRequest
Tick     == Wake \/ Reconcile \/ NoReadyTask \/ StartRun \/ Launch
Executor == ExecReport \/ ExecJudge \/ ExecSettle \/ ExecFail
Settle   == MarkTask \/ ScheduleRetry \/ RetryBlocked \/ RetryPending \/ PauseForGate
              \/ PauseRun \/ EvaluateRun
Close    == Finally \/ ReportError \/ SweepTask \/ SweepRun
Boot     == Start \/ Recover \/ Resume

(* What the owner does, and what goes wrong: nothing obliges it to happen. *)
Environment == ApproveRun \/ Reapprove \/ CancelRun \/ Shutdown \/ Crash
                 \/ ExecStrand \/ TickThrows \/ SweepFail

Next == Approve \/ Tick \/ Executor \/ Settle \/ Close \/ Boot \/ Halt \/ Environment

Spec == Init /\ [][Next]_vars

(* The thread goes on, the executor's hard timeout ends every execution, a *)
(* stop ends in an exit, and the operator starts the next instance.        *)
FairSpec == Spec /\ WF_vars(Approve) /\ WF_vars(Tick) /\ WF_vars(Executor) /\ WF_vars(Settle)
                 /\ WF_vars(Close) /\ WF_vars(Boot) /\ WF_vars(Halt)

-----------------------------------------------------------------------------
(* Every variable has its type: the rows of the store, and the one thread. *)
TypeOK ==
  /\ StoreTypeOK
  /\ plan \in Plans
  /\ host \in 0..MaxHosts
  /\ pc \in Section /\ drive \in Drive
  /\ cur \in Task \cup {NoTask}
  /\ polling \in BOOLEAN /\ killed \in BOOLEAN /\ marked \in BOOLEAN /\ closing \in BOOLEAN
  /\ exec \in {"off", "launched", "reported", "judged"} /\ result \in Result
  /\ torn \subseteq {"approve", "retry", "gate", "verdict", "stop", "sweep"}

(* The provider works only for the live host's own, latest attempt of a    *)
(* running task of a running Run: nothing is cancelled, failed or paused   *)
(* under an execution, and at most one attempt runs on this host.          *)
ExecutesOnlyRunning ==
  exec # "off" =>
    /\ run = "running" /\ task[cur] = "running"
    /\ Runs(cur) /\ owner[cur] = host
    /\ \A t \in Task \ {cur} : ~(Runs(t) /\ owner[t] = host)

(* Retries: never more attempts than the budget, a new one only after the  *)
(* last one failed or was interrupted, never after a pass or a cancel.     *)
RetriesBounded ==
  \A t \in Task :
    /\ Len(attempt[t]) <= MaxAttempts[t]
    /\ \A i \in 1..(Len(attempt[t]) - 1) : attempt[t][i] \in {"failed", "interrupted"}

(* A task that passed has a latest attempt that passed and that no policy  *)
(* rejected, and a completed Run has only such tasks.                      *)
PassedForReal ==
  /\ \A t \in Task : task[t] = "passed" =>
       Attempted(t) /\ Latest(t) = "passed" /\ "policy" \notin evidence[t]
  /\ run = "completed" => \A t \in Created : task[t] = "passed"

(* A task is attempted only after all that the plan makes it depend on has *)
(* passed, and a Run completes only with every task of the plan: unless    *)
(* the host died while it created the Run.                                 *)
PlanRespected ==
  "approve" \notin torn =>
    /\ \A t, d \in Task : Attempted(t) /\ <<t, d>> \in plan => task[d] = "passed"
    /\ run = "completed" => Created = Task

(* A task whose retry budget is spent, or that may not be retried. *)
Spent(t) == task[t] = "failed" /\ Attempted(t)
              /\ Latest(t) \in {"failed", "interrupted"} /\ ~RetryAllowed(t)

(* A Run fails only for a task that is spent, unless the host died between *)
(* the transactions of a retry or of a pause, or was stopped at work.      *)
FailedForCause ==
  run = "failed" => (\E t \in Task : Spent(t)) \/ torn \cap {"retry", "gate", "stop"} # {}

(* An owner's cancellation accepted while the Run was active wins over any *)
(* outcome that comes after it.                                            *)
CancelWins == intent => run \notin {"completed", "failed"}

NewAttempt(t) == Len(attempt'[t]) # Len(attempt[t])

(* A durable human gate is never answered by another attempt, unless the   *)
(* host died before the attempt's own status was written.                  *)
GateHolds ==
  [][\A t \in Task : "gate" \in evidence[t] /\ NewAttempt(t) => "verdict" \in torn]_vars

(* Nothing starts in a Run that has ended or waits at a gate, and only a   *)
(* cancellation moves one that waits.                                      *)
Over == run \in Terminal \cup {"paused"}
StaysEnded ==
  /\ run' = run \/ (run = "paused" /\ run' = "cancelled" /\ intent)
  /\ \A t \in Task : ~NewAttempt(t)
EndedStays == [][Over => StaysEnded]_vars

(* What the owner sees of a Run, whatever the hosts do. *)
Passed == {t \in Task : task[t] = "passed"}
Tries  == [t \in Task |-> Len(attempt[t])]
Lifecycle == INSTANCE RunLifecycle
               WITH status <- run, planned <- Created, needs <- edge,
                    tries <- Tries, passed <- Passed, asked <- intent

(* The Run is such a lifecycle: every transaction of every instance of the *)
(* host is one of its steps, or does not show.                             *)
ImplementsLifecycle == Lifecycle!Spec

(* A Run that has tasks ends, or waits at a gate. *)
RunSettles == Created # {} ~> Over

(* A cancellation takes effect, unless the Run waits at a gate. *)
CancelTakesEffect == intent ~> run \in {"cancelled", "paused"}

-----------------------------------------------------------------------------
(* What the code's comments and tests promise, and the model refutes.       *)

(* control.test.ts:2180: after a host shutdown "the Run stays resumable". *)
StopResumable == "stop" \in torn /\ run = "failed" => \E t \in Task : Spent(t)

(* worker.ts:1228: a crash after the intent "still ends the run cancelled on restart". *)
CancelHonoured == intent ~> run = "cancelled"

=============================================================================
