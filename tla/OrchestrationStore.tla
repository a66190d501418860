------------------------- MODULE OrchestrationStore -------------------------
(***************************************************************************)
(* The durable orchestration store of the Agent Host (agent-host/lib/      *)
(* store.ts, transitions.ts), for one Run: its status, its Tasks, the      *)
(* dependencies between them, their Attempts and the events the Supervisor *)
(* reads back.  Every operation below is one SQLite transaction: it        *)
(* happens whole or not at all, and survives a crash.  A step that the     *)
(* store would refuse (INVALID_TRANSITION) is not a step.                  *)
(***************************************************************************)
EXTENDS Integers, Sequences

CONSTANTS
  Task,         \* the plan's tasks, named by their position
  MaxAttempts   \* resolveMaxAttempts of each task's spec

ASSUME TaskAssumption        == Task \subseteq Nat
ASSUME MaxAttemptsAssumption == MaxAttempts \in [Task -> Nat \ {0}]

VARIABLES
  run,       \* runs.status, "absent" before the row is inserted
  task,      \* tasks.status of each task, "absent" likewise
  edge,      \* task_dependencies: pairs <<taskId, dependsOnTaskId>>
  attempt,   \* attempts.status of each task's attempts, by ordinal
  owner,     \* attempts.hostInstanceId of each task's latest attempt, 0 for none
  evidence,  \* what the events of each task's latest attempt record
  intent     \* a control.run.cancel_requested event exists

storeVars == <<run, task, edge, attempt, owner, evidence, intent>>

-----------------------------------------------------------------------------
RunStatus     == {"pending", "running", "paused", "completed", "failed", "cancelled"}
TaskStatus    == {"pending", "running", "passed", "failed", "blocked", "cancelled"}
AttemptStatus == {"running", "passed", "failed", "interrupted", "cancelled"}
Evidence      == {"gate", "policy", "cancelled", "timeout", "failure"}

Terminal == {"completed", "failed", "cancelled"}     \* TERMINAL_RUN_STATUSES
Active   == {"pending", "running", "paused"}         \* ACTIVE_RUN_STATUSES_SET

RUN_TRANSITIONS ==
  [from \in RunStatus |->
     IF from = "pending" THEN {"running", "cancelled"}
     ELSE IF from = "running" THEN {"paused", "completed", "failed", "cancelled"}
     ELSE IF from = "paused" THEN {"running", "failed", "cancelled"}
     ELSE {}]

TASK_TRANSITIONS ==
  [from \in TaskStatus |->
     IF from = "pending" THEN {"blocked", "cancelled"}
     ELSE IF from = "running" THEN {"passed", "failed", "blocked", "cancelled"}
     ELSE IF from = "failed" THEN {"blocked", "cancelled"}
     ELSE IF from = "blocked" THEN {"pending", "failed", "cancelled"}
     ELSE {}]

-----------------------------------------------------------------------------
Created     == {t \in Task : task[t] # "absent"}             \* listTasks
Latest(t)   == attempt[t][Len(attempt[t])]                   \* latestAttemptFor
Attempted(t) == attempt[t] # <<>>
Runs(t)     == Attempted(t) /\ Latest(t) = "running"

Ready_anyPending == {t \in Task : task[t] = "pending"}     \* Fault: dependencies unread

(* getReadyTasks *)
Ready == {t \in Task : task[t] = "pending"
                         /\ \A d \in Task : <<t, d>> \in edge => task[d] = "passed"}

(* findInterruptedAttempts: running, and made by another host instance. *)
Stale(instance) == {t \in Task : Runs(t) /\ owner[t] # instance}

(* detectCycle: d depends on t, directly or through other tasks. *)
WouldCycle(t, d) ==
  \A S \in SUBSET Task :
    (d \in S /\ \A p \in edge : p[1] \in S => p[2] \in S) => t \in S

First(S) == CHOOSE t \in S : \A u \in S : t <= u             \* ORDER BY position

-----------------------------------------------------------------------------
StoreInit ==
  /\ run = "absent"
  /\ task = [t \in Task |-> "absent"]
  /\ edge = {}
  /\ attempt = [t \in Task |-> <<>>]
  /\ owner = [t \in Task |-> 0]
  /\ evidence = [t \in Task |-> {}]
  /\ intent = FALSE

CreateRun ==
  /\ run = "absent"
  /\ run' = "pending"
  /\ UNCHANGED <<task, edge, attempt, owner, evidence, intent>>

CreateTask(t) ==
  /\ task[t] = "absent"
  /\ task' = [task EXCEPT ![t] = "pending"]
  /\ UNCHANGED <<run, edge, attempt, owner, evidence, intent>>

AddDependency(t, d) ==
  /\ <<t, d>> \notin edge /\ ~WouldCycle(t, d)
  /\ edge' = edge \cup {<<t, d>>}
  /\ UNCHANGED <<run, task, attempt, owner, evidence, intent>>

TransitionRun(status) ==
  /\ status = run \/ status \in RUN_TRANSITIONS[run]
  /\ run' = status
  /\ UNCHANGED <<task, edge, attempt, owner, evidence, intent>>

TransitionTask(t, status) ==
  /\ status = task[t] \/ status \in TASK_TRANSITIONS[task[t]]
  /\ task' = [task EXCEPT ![t] = status]
  /\ UNCHANGED <<run, edge, attempt, owner, evidence, intent>>

(* A task pending (or failed) gets its next attempt and runs. *)
CreateAttempt(t, instance) ==
  /\ task[t] \in {"pending", "failed"}
  /\ task' = [task EXCEPT ![t] = "running"]
  /\ attempt' = [attempt EXCEPT ![t] = Append(@, "running")]
  /\ owner' = [owner EXCEPT ![t] = instance]
  /\ evidence' = [evidence EXCEPT ![t] = {}]
  /\ UNCHANGED <<run, edge, intent>>

(* The latest attempt ends; an ended attempt never changes again. *)
TransitionAttempt(t, status) ==
  /\ Runs(t)
  /\ attempt' = [attempt EXCEPT ![t] = [@ EXCEPT ![Len(@)] = status]]
  /\ UNCHANGED <<run, task, edge, owner, evidence, intent>>

(* appendEvent of execution.* and policy.* for the latest attempt. *)
AppendEvidence(t, facts) ==
  /\ evidence' = [evidence EXCEPT ![t] = @ \cup facts]
  /\ UNCHANGED <<run, task, edge, attempt, owner, intent>>

(* appendEvent of control.run.cancel_requested; its id makes it idempotent. *)
RecordRunCancelIntent ==
  /\ intent' = TRUE
  /\ UNCHANGED <<run, task, edge, attempt, owner, evidence>>

StoreTypeOK ==
  /\ run \in RunStatus \cup {"absent"}
  /\ task \in [Task -> TaskStatus \cup {"absent"}]
  /\ edge \subseteq Task \X Task
  /\ attempt \in [Task -> Seq(AttemptStatus)]
  /\ owner \in [Task -> Nat]
  /\ evidence \in [Task -> SUBSET Evidence]
  /\ intent \in BOOLEAN
=============================================================================
