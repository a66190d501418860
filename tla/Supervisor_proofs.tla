-------------------------- MODULE Supervisor_proofs --------------------------
(***************************************************************************)
(* Proofs about Supervisor, for any tasks, plans, budgets and number of    *)
(* host instances, with any of the faults: types; an accepted cancellation *)
(* wins over any later outcome; the retry budget is never exceeded; one    *)
(* execution at a time, of a running task of a running Run.                *)
(* Each rests on an inductive invariant (InHand, CancelInv, RetryInv,      *)
(* WorkInv) proved step by step, one step per action of Supervisor.        *)
(***************************************************************************)
EXTENDS Supervisor, SequenceTheorems, WellFoundedInduction, TLAPS

USE TaskAssumption, MaxAttemptsAssumption, NoTaskAssumption, HostsAssumption

(* Every set of tasks that is not empty has a first one: getReadyTasks()[0], *)
(* pickRunningTask and the sweeps always find the task they look for.        *)
LEMMA FirstIn ==
  ASSUME NEW S \in SUBSET Task, S # {}
  PROVE  First(S) \in S
<1> DEFINE R == OpToRel(<, Nat)
<1>1. IsWellFoundedOn(R, Nat)
  BY NatLessThanWellFounded
<1>2. S \subseteq Nat
  OBVIOUS
<1>3. \A x, y \in Nat : x < y => <<x, y>> \in R
  BY DEF OpToRel
<1> HIDE DEF R
<1>4. \E t \in S : \A u \in S : ~ (<<u, t>> \in R)
  BY <1>1, <1>2, WFMin
<1>5. \E t \in S : \A u \in S : t <= u
  <2>1. PICK t \in S : \A u \in S : ~ (<<u, t>> \in R)
    BY <1>4
  <2>2. ASSUME NEW u \in S PROVE t <= u
    <3>1. ~ (u < t)
      BY <1>2, <1>3, <2>1
    <3> QED
      BY <1>2, <3>1
  <2> QED
    BY <2>2
<1> QED
  BY <1>5 DEF First

-----------------------------------------------------------------------------
(* The store's transactions keep its rows well typed. *)

LEMMA TransitionTaskType ==
  ASSUME StoreTypeOK, NEW t, NEW status \in TaskStatus, TransitionTask(t, status)
  PROVE  StoreTypeOK'
BY DEF StoreTypeOK, TransitionTask

LEMMA TransitionRunType ==
  ASSUME StoreTypeOK, NEW status \in RunStatus, TransitionRun(status)
  PROVE  StoreTypeOK'
BY DEF StoreTypeOK, TransitionRun

LEMMA CreateAttemptType ==
  ASSUME StoreTypeOK, NEW t \in Task, NEW i \in Nat, CreateAttempt(t, i)
  PROVE  StoreTypeOK'
<1>1. attempt' \in [Task -> Seq(AttemptStatus)]
  BY DEF StoreTypeOK, CreateAttempt, AttemptStatus
<1> QED
  BY <1>1 DEF StoreTypeOK, CreateAttempt, TaskStatus

LEMMA TransitionAttemptType ==
  ASSUME StoreTypeOK, NEW t \in Task, NEW status \in AttemptStatus, TransitionAttempt(t, status)
  PROVE  StoreTypeOK'
<1>1. attempt[t] \in Seq(AttemptStatus)
  BY DEF StoreTypeOK
<1>0. Len(attempt[t]) \in 1 .. Len(attempt[t])
  BY <1>1 DEF TransitionAttempt, Runs, Attempted
<1>2. [attempt[t] EXCEPT ![Len(attempt[t])] = status] \in Seq(AttemptStatus)
  BY <1>0, <1>1, ExceptSeq
<1>3. attempt' \in [Task -> Seq(AttemptStatus)]
  BY <1>2 DEF StoreTypeOK, TransitionAttempt
<1> QED
  BY <1>3 DEF StoreTypeOK, TransitionAttempt

LEMMA AppendEvidenceType ==
  ASSUME StoreTypeOK, NEW t, NEW facts \in SUBSET Evidence, AppendEvidence(t, facts)
  PROVE  StoreTypeOK'
BY DEF StoreTypeOK, AppendEvidence

-----------------------------------------------------------------------------
(* The tasks the thread picks are tasks.                                    *)
LEMMA FirstStale == ASSUME Stale(host) # {} PROVE First(Stale(host)) \in Task
BY FirstIn DEF Stale

LEMMA FirstRunning == ASSUME Running # {} PROVE First(Running) \in Task
BY FirstIn DEF Running

LEMMA FirstReady == ASSUME Ready # {} PROVE First(Ready) \in Ready /\ First(Ready) \in Task
BY FirstIn DEF Ready

LEMMA FirstMissing == ASSUME Missing # {} PROVE First(Missing) \in Task
BY FirstIn DEF Missing

(* An execution is awaited, outside of every synchronous section, for the  *)
(* task in hand; without a process there is none.                          *)
InHand ==
  /\ drive = "awaiting" => cur \in Task /\ pc = "loop"
  /\ pc = "down" => drive = "off" /\ exec = "off"
  /\ exec # "off" => drive = "awaiting"

LEMMA Stepped ==
  ASSUME [Next]_vars
  PROVE  \/ UNCHANGED vars
         \/ Start
         \/ Recover
         \/ Resume
         \/ ApproveRun
         \/ ApproveTask
         \/ ApproveDependency
         \/ ApproveFail
         \/ ApproveDone
         \/ Reapprove
         \/ CompleteRequest
         \/ Wake
         \/ Reconcile
         \/ NoReadyTask
         \/ StartRun
         \/ Launch
         \/ ExecReport
         \/ ExecJudge
         \/ ExecSettle
         \/ ExecFail
         \/ ExecStrand
         \/ MarkTask
         \/ ScheduleRetry
         \/ RetryBlocked
         \/ RetryPending
         \/ PauseForGate
         \/ PauseRun
         \/ EvaluateRun
         \/ TickThrows
         \/ Finally
         \/ ReportError
         \/ CancelRun
         \/ SweepTask
         \/ SweepRun
         \/ SweepFail
         \/ Shutdown
         \/ Crash
         \/ Halt
BY DEF Next, Approve, Tick, Executor, Settle, Close, Boot, Environment

LEMMA StepTypeOK ==
  ASSUME TypeOK, InHand, [Next]_vars
  PROVE  TypeOK' /\ InHand'
<1> USE DEF TypeOK, InHand, Section, Drive, Result, Goto, Drives, hostVars
<1>0. CASE UNCHANGED vars
  BY <1>0 DEF vars, StoreTypeOK
<1>1. CASE Start
  BY <1>1 DEF Start, storeVars, StoreTypeOK
<1>2. CASE Recover
  <2>1. StoreTypeOK'
    BY <1>2, FirstStale, TransitionAttemptType DEF Recover, AttemptStatus
  <2> QED
    BY <1>2, <2>1 DEF Recover
<1>3. CASE Resume
  BY <1>3 DEF Resume, storeVars, StoreTypeOK
<1>4. CASE ApproveRun
  <2>1. StoreTypeOK'
    BY <1>4 DEF ApproveRun, CreateRun, StoreTypeOK, RunStatus
  <2> QED
    BY <1>4, <2>1 DEF ApproveRun
<1>5. CASE ApproveTask
  <2>1. StoreTypeOK'
    BY <1>5 DEF ApproveTask, CreateTask, StoreTypeOK, TaskStatus
  <2> QED
    BY <1>5, <2>1 DEF ApproveTask
<1>6. CASE ApproveDependency
  <2>1. StoreTypeOK'
    BY <1>6, FirstMissing DEF ApproveDependency, AddDependency, StoreTypeOK
  <2> QED
    BY <1>6, <2>1 DEF ApproveDependency
<1>7. CASE ApproveFail
  <2>1. StoreTypeOK'
    BY <1>7, TransitionRunType DEF ApproveFail, RunStatus, storeVars, StoreTypeOK
  <2> QED
    BY ZenonT(30), <1>7, <2>1 DEF ApproveFail
<1>8. CASE ApproveDone
  BY <1>8 DEF ApproveDone, storeVars, StoreTypeOK
<1>9. CASE Reapprove
  BY <1>9 DEF Reapprove, storeVars, StoreTypeOK
<1>10. CASE CompleteRequest
  BY <1>10 DEF CompleteRequest, storeVars, StoreTypeOK
<1>11. CASE Wake
  BY <1>11 DEF Wake, storeVars, StoreTypeOK
<1>12. CASE Reconcile
  BY <1>12, FirstRunning DEF Reconcile, Choosing, Running, storeVars, StoreTypeOK
<1>13. CASE NoReadyTask
  BY <1>13 DEF NoReadyTask, Choosing, storeVars, StoreTypeOK
<1>14. CASE StartRun
  <2>1. StoreTypeOK'
    BY <1>14, TransitionRunType DEF StartRun, RunStatus
  <2> QED
    BY <1>14, <2>1 DEF StartRun, Choosing
<1>15. CASE Launch
  <2>1. StoreTypeOK'
    <3>1. host \in Nat
      OBVIOUS
    <3>2. First(Ready) \in Task /\ CreateAttempt(First(Ready), host)
      BY <1>15, FirstReady DEF Launch
    <3> QED
      BY <3>1, <3>2, CreateAttemptType
  <2> QED
    BY <1>15, <2>1, FirstReady DEF Launch, Choosing
<1>16. CASE ExecReport
  <2>1. StoreTypeOK'
    BY <1>16, AppendEvidenceType DEF ExecReport, Evidence
  <2> QED
    BY <1>16, <2>1 DEF ExecReport, Executing
<1>17. CASE ExecJudge
  <2>1. StoreTypeOK'
    BY <1>17, AppendEvidenceType DEF ExecJudge, Evidence
  <2> QED
    BY <1>17, <2>1 DEF ExecJudge, Executing
<1>18. CASE ExecSettle
  <2>1. StoreTypeOK'
    BY <1>18, TransitionAttemptType DEF ExecSettle, TerminalStatus, AttemptStatus, ToDecide, Executing
  <2> QED
    BY <1>18, <2>1 DEF ExecSettle, ToDecide, Executing
<1>19. CASE ExecFail
  <2>1. StoreTypeOK'
    BY <1>19, TransitionAttemptType DEF ExecFail, AttemptStatus, ToDecide, Executing
  <2> QED
    BY <1>19, <2>1 DEF ExecFail, ToDecide, Executing
<1>20. CASE ExecStrand
  BY <1>20 DEF ExecStrand, Executing, storeVars, StoreTypeOK
<1>21. CASE MarkTask
  <2>1. StoreTypeOK'
    BY <1>21, TransitionTaskType DEF MarkTask, TaskStatus
  <2> QED
    BY <1>21, <2>1 DEF MarkTask, LeaveTask, Deciding
<1>22. CASE ScheduleRetry
  <2>1. StoreTypeOK'
    BY <1>22, TransitionTaskType DEF ScheduleRetry, TaskStatus
  <2> QED
    BY <1>22, <2>1 DEF ScheduleRetry, Deciding
<1>23. CASE RetryBlocked
  <2>1. StoreTypeOK'
    BY <1>23, TransitionTaskType DEF RetryBlocked, TaskStatus
  <2> QED
    BY <1>23, <2>1 DEF RetryBlocked
<1>24. CASE RetryPending
  <2>1. StoreTypeOK'
    BY <1>24, TransitionTaskType DEF RetryPending, TaskStatus
  <2> QED
    BY <1>24, <2>1 DEF RetryPending, ToLoop, LeaveTask
<1>25. CASE PauseForGate
  <2>1. StoreTypeOK'
    BY <1>25, TransitionTaskType DEF PauseForGate, TaskStatus
  <2> QED
    BY <1>25, <2>1 DEF PauseForGate, Deciding
<1>26. CASE PauseRun
  <2>1. StoreTypeOK'
    BY <1>26, TransitionRunType DEF PauseRun, RunStatus
  <2> QED
    BY <1>26, <2>1 DEF PauseRun, ToLoop, LeaveTask
<1>27. CASE EvaluateRun
  <2>1. StoreTypeOK'
    BY <1>27, TransitionRunType DEF EvaluateRun, NextRunStatus, RunStatus
  <2> QED
    BY <1>27, <2>1 DEF EvaluateRun
<1>28. CASE TickThrows
  BY <1>28 DEF TickThrows, storeVars, StoreTypeOK
<1>29. CASE Finally
  BY <1>29 DEF Finally, LeaveTask, storeVars, StoreTypeOK
<1>30. CASE ReportError
  BY <1>30 DEF ReportError, storeVars, StoreTypeOK
<1>31. CASE CancelRun
  <2>1. StoreTypeOK'
    BY <1>31 DEF CancelRun, RecordRunCancelIntent, StoreTypeOK
  <2> QED
    BY <1>31, <2>1 DEF CancelRun
<1>32. CASE SweepTask
  <2>1. StoreTypeOK'
    BY <1>32, TransitionTaskType DEF SweepTask, TaskStatus
  <2> QED
    BY <1>32, <2>1 DEF SweepTask
<1>33. CASE SweepRun
  <2>1. StoreTypeOK'
    BY <1>33, TransitionRunType DEF SweepRun, RunStatus
  <2> QED
    BY <1>33, <2>1 DEF SweepRun
<1>34. CASE SweepFail
  BY <1>34 DEF SweepFail, storeVars, StoreTypeOK
<1>35. CASE Shutdown
  BY <1>35 DEF Shutdown, storeVars, StoreTypeOK
<1>36. CASE Crash
  BY <1>36 DEF Crash, Off, UnwrittenVerdict, storeVars, StoreTypeOK
<1>37. CASE Halt
  BY <1>37 DEF Halt, Off, UnwrittenVerdict, storeVars, StoreTypeOK
<1> QED
  BY <1>0, <1>1, <1>2, <1>3, <1>4, <1>5, <1>6, <1>7, <1>8, <1>9, <1>10, <1>11, <1>12, <1>13, <1>14, <1>15, <1>16, <1>17, <1>18, <1>19, <1>20, <1>21, <1>22, <1>23, <1>24, <1>25, <1>26, <1>27, <1>28, <1>29, <1>30, <1>31, <1>32, <1>33, <1>34, <1>35, <1>36, <1>37, Stepped

LEMMA InitTypeOK == Init => TypeOK /\ InHand
<1> SUFFICES ASSUME Init PROVE TypeOK /\ InHand
  OBVIOUS
<1>1. StoreTypeOK
  <2>1. <<>> \in Seq(AttemptStatus)
    OBVIOUS
  <2>2. attempt \in [Task -> Seq(AttemptStatus)]
    BY <2>1 DEF Init, StoreInit
  <2> QED
    BY <2>2 DEF Init, StoreInit, StoreTypeOK
<1>2. host \in 0..MaxHosts
  BY DEF Init
<1> QED
  BY <1>1, <1>2 DEF Init, TypeOK, InHand, Section, Drive, Result

(* TypeOK for every plan, budget and number of host instances: the rows of *)
(* the store keep their types, and so does the state of the one thread.    *)
THEOREM TypeCorrect == Spec => []TypeOK
<1>1. Init => TypeOK /\ InHand
  BY InitTypeOK
<1>2. TypeOK /\ InHand /\ [Next]_vars => (TypeOK /\ InHand)'
  BY StepTypeOK
<1> QED
  BY <1>1, <1>2, PTL DEF Spec

-----------------------------------------------------------------------------
(* An accepted cancellation is marked in the live process; a tick that     *)
(* began without one meets none before it awaits; only a marked run is     *)
(* swept.                                                                  *)
CancelInv ==
  /\ CancelWins
  /\ pc # "down" => marked = intent
  /\ pc = "sweep" => marked
  /\ pc = "recover" /\ drive = "ticking" => ~marked

LEMMA StepCancel ==
  ASSUME TypeOK, InHand, CancelInv, [Next]_vars
  PROVE  CancelInv'
<1> USE DEF TypeOK, InHand, CancelInv, CancelWins, Goto, Drives, hostVars, Active
<1>0. CASE UNCHANGED vars
  BY <1>0 DEF vars
<1>1. CASE Start
  BY <1>1 DEF Start, storeVars
<1>2. CASE Recover
  BY <1>2 DEF Recover, TransitionAttempt
<1>3. CASE Resume
  BY <1>3 DEF Resume, storeVars
<1>4. CASE ApproveRun
  BY <1>4 DEF ApproveRun, CreateRun
<1>5. CASE ApproveTask
  BY <1>5 DEF ApproveTask, CreateTask
<1>6. CASE ApproveDependency
  BY <1>6 DEF ApproveDependency, AddDependency
<1>7. CASE ApproveFail
  BY <1>7 DEF ApproveFail, TransitionRun, storeVars
<1>8. CASE ApproveDone
  BY <1>8 DEF ApproveDone, storeVars
<1>9. CASE Reapprove
  BY <1>9 DEF Reapprove, storeVars
<1>10. CASE CompleteRequest
  BY <1>10 DEF CompleteRequest, storeVars
<1>11. CASE Wake
  BY <1>11 DEF Wake, storeVars
<1>12. CASE Reconcile
  BY <1>12 DEF Reconcile, storeVars, Choosing, Running
<1>13. CASE NoReadyTask
  BY <1>13 DEF NoReadyTask, storeVars, Choosing
<1>14. CASE StartRun
  BY <1>14 DEF StartRun, TransitionRun, Choosing
<1>15. CASE Launch
  BY <1>15 DEF Launch, CreateAttempt, Choosing
<1>16. CASE ExecReport
  BY <1>16 DEF ExecReport, AppendEvidence, Executing
<1>17. CASE ExecJudge
  BY <1>17 DEF ExecJudge, AppendEvidence, Executing
<1>18. CASE ExecSettle
  BY <1>18 DEF ExecSettle, TransitionAttempt, ToDecide, Executing
<1>19. CASE ExecFail
  BY <1>19 DEF ExecFail, TransitionAttempt, ToDecide, Executing
<1>20. CASE ExecStrand
  BY <1>20 DEF ExecStrand, storeVars, Executing
<1>21. CASE MarkTask
  BY <1>21 DEF MarkTask, TransitionTask, Deciding, LeaveTask
<1>22. CASE ScheduleRetry
  BY <1>22 DEF ScheduleRetry, TransitionTask, Deciding
<1>23. CASE RetryBlocked
  BY <1>23 DEF RetryBlocked, TransitionTask
<1>24. CASE RetryPending
  BY <1>24 DEF RetryPending, TransitionTask, ToLoop, LeaveTask
<1>25. CASE PauseForGate
  BY <1>25 DEF PauseForGate, TransitionTask, Deciding
<1>26. CASE PauseRun
  BY <1>26 DEF PauseRun, TransitionRun, ToLoop, LeaveTask
<1>27. CASE EvaluateRun
  BY <1>27 DEF EvaluateRun, TransitionRun, NextRunStatus
<1>28. CASE TickThrows
  BY <1>28 DEF TickThrows, storeVars
<1>29. CASE Finally
  BY <1>29 DEF Finally, storeVars, LeaveTask
<1>30. CASE ReportError
  BY <1>30 DEF ReportError, storeVars
<1>31. CASE CancelRun
  BY <1>31 DEF CancelRun, RecordRunCancelIntent
<1>32. CASE SweepTask
  BY <1>32 DEF SweepTask, TransitionTask
<1>33. CASE SweepRun
  BY <1>33 DEF SweepRun, TransitionRun
<1>34. CASE SweepFail
  BY <1>34 DEF SweepFail, storeVars
<1>35. CASE Shutdown
  BY <1>35 DEF Shutdown, storeVars
<1>36. CASE Crash
  BY <1>36 DEF Crash, storeVars, Off
<1>37. CASE Halt
  BY <1>37 DEF Halt, storeVars, Off
<1> QED
  BY <1>0, <1>1, <1>2, <1>3, <1>4, <1>5, <1>6, <1>7, <1>8, <1>9, <1>10, <1>11, <1>12, <1>13, <1>14, <1>15, <1>16, <1>17, <1>18, <1>19, <1>20, <1>21, <1>22, <1>23, <1>24, <1>25, <1>26, <1>27, <1>28, <1>29, <1>30, <1>31, <1>32, <1>33, <1>34, <1>35, <1>36, <1>37, Stepped

(* CancelWins: once handleCancelRun has recorded the owner's cancellation  *)
(* of an active Run, no crash, restart, retry or late success makes the    *)
(* Run completed or failed.                                                *)
THEOREM CancellationWins == Spec => []CancelWins
<1>1. Init => TypeOK /\ InHand /\ CancelInv
  BY InitTypeOK DEF Init, StoreInit, CancelInv, CancelWins
<1>2. TypeOK /\ InHand /\ CancelInv /\ [Next]_vars => (TypeOK /\ InHand /\ CancelInv)'
  BY StepTypeOK, StepCancel
<1>3. CancelInv => CancelWins
  BY DEF CancelInv
<1> QED
  BY <1>1, <1>2, <1>3, PTL DEF Spec

-----------------------------------------------------------------------------
(* What the two transactions on attempts do to every task's attempts.       *)

LEMMA AttemptEnds ==
  ASSUME StoreTypeOK, NEW t \in Task, NEW status \in AttemptStatus \ {"running"},
         TransitionAttempt(t, status)
  PROVE  /\ \A u \in Task \ {t} : attempt'[u] = attempt[u]
         /\ attempt[t] # <<>> /\ Latest(t) = "running" /\ Latest(t)' = status
         /\ Len(attempt'[t]) = Len(attempt[t]) /\ attempt'[t] # <<>>
         /\ \A i \in 1..(Len(attempt[t]) - 1) : attempt'[t][i] = attempt[t][i]
<1>1. attempt[t] \in Seq(AttemptStatus) /\ attempt[t] # <<>>
  BY DEF StoreTypeOK, TransitionAttempt, Runs, Attempted
<1>2. Len(attempt[t]) \in 1..Len(attempt[t])
  BY <1>1
<1>3. attempt'[t] = [attempt[t] EXCEPT ![Len(attempt[t])] = status]
  BY DEF StoreTypeOK, TransitionAttempt
<1>4. /\ Len(attempt'[t]) = Len(attempt[t])
      /\ \A i \in 1..Len(attempt[t]) :
           attempt'[t][i] = IF i = Len(attempt[t]) THEN status ELSE attempt[t][i]
  BY <1>1, <1>2, <1>3, ExceptSeq
<1>5. attempt'[t] # <<>>
  BY <1>2, <1>4
<1>6. Latest(t)' = status
  BY <1>2, <1>4 DEF Latest
<1>7. \A i \in 1..(Len(attempt[t]) - 1) : attempt'[t][i] = attempt[t][i]
  BY <1>1, <1>4
<1>8. \A u \in Task \ {t} : attempt'[u] = attempt[u]
  BY DEF StoreTypeOK, TransitionAttempt
<1> QED
  BY <1>1, <1>4, <1>5, <1>6, <1>7, <1>8 DEF TransitionAttempt, Runs

LEMMA AttemptBegins ==
  ASSUME StoreTypeOK, NEW t \in Task, NEW i \in Nat, CreateAttempt(t, i)
  PROVE  /\ \A u \in Task \ {t} : attempt'[u] = attempt[u]
         /\ Len(attempt'[t]) = Len(attempt[t]) + 1 /\ attempt'[t] # <<>>
         /\ Latest(t)' = "running"
         /\ \A k \in 1..Len(attempt[t]) : attempt'[t][k] = attempt[t][k]
<1>1. attempt[t] \in Seq(AttemptStatus)
  BY DEF StoreTypeOK
<1>2. attempt'[t] = Append(attempt[t], "running")
  BY DEF StoreTypeOK, CreateAttempt
<1>3. /\ Len(attempt'[t]) = Len(attempt[t]) + 1
      /\ attempt'[t][Len(attempt[t]) + 1] = "running"
      /\ \A k \in 1..Len(attempt[t]) : attempt'[t][k] = attempt[t][k]
  BY <1>1, <1>2
<1>4. attempt'[t] # <<>>
  BY <1>1, <1>3
<1>5. \A u \in Task \ {t} : attempt'[u] = attempt[u]
  BY DEF StoreTypeOK, CreateAttempt
<1> QED
  BY <1>3, <1>4, <1>5 DEF Latest

-----------------------------------------------------------------------------
(* A pending task has no attempt, or one that may be followed by another:  *)
(* its last one failed or was interrupted, with some of the budget left.   *)
(* Only scheduleRetry makes an attempted task pending again.               *)
MayFollow(t) == Latest(t) \in {"failed", "interrupted"} /\ Len(attempt[t]) < MaxAttempts[t]

RetryInv ==
  /\ RetriesBounded
  /\ \A t \in Task : task[t] = "absent" => attempt[t] = <<>>
  /\ \A t \in Task : task[t] = "pending" => attempt[t] = <<>> \/ MayFollow(t)
  /\ pc = "retry" => cur \in Task /\ MayFollow(cur)
  /\ pc = "decide" => cur \in Task

LEMMA StepRetry ==
  ASSUME TypeOK, InHand, RetryInv, [Next]_vars
  PROVE  RetryInv'
<1> USE DEF TypeOK, StoreTypeOK, InHand, RetryInv, RetriesBounded, MayFollow, Latest,
            Goto, Drives, hostVars
<1>0. CASE UNCHANGED vars
  BY <1>0 DEF vars
<1>1. CASE Start
  BY <1>1 DEF Start, storeVars
<1>2. CASE Recover
  <2>1. First(Stale(host)) \in Task /\ TransitionAttempt(First(Stale(host)), "interrupted")
    BY <1>2, FirstStale DEF Recover
  <2>2. "interrupted" \in AttemptStatus \ {"running"}
    BY DEF AttemptStatus
  <2> QED
    BY SMTT(30), <1>2, <2>1, <2>2, AttemptEnds DEF Recover, TransitionAttempt
<1>3. CASE Resume
  BY <1>3 DEF Resume, storeVars
<1>4. CASE ApproveRun
  BY <1>4 DEF ApproveRun, CreateRun
<1>5. CASE ApproveTask
  BY <1>5 DEF ApproveTask, CreateTask
<1>6. CASE ApproveDependency
  BY <1>6 DEF ApproveDependency, AddDependency
<1>7. CASE ApproveFail
  BY <1>7 DEF ApproveFail, TransitionRun, storeVars
<1>8. CASE ApproveDone
  BY <1>8 DEF ApproveDone, storeVars
<1>9. CASE Reapprove
  BY <1>9 DEF Reapprove, storeVars
<1>10. CASE CompleteRequest
  BY <1>10 DEF CompleteRequest, storeVars
<1>11. CASE Wake
  BY <1>11 DEF Wake, storeVars
<1>12. CASE Reconcile
  BY <1>12, FirstRunning DEF Reconcile, storeVars, Choosing
<1>13. CASE NoReadyTask
  BY <1>13 DEF NoReadyTask, storeVars, Choosing
<1>14. CASE StartRun
  BY <1>14 DEF StartRun, TransitionRun, Choosing
<1>15. CASE Launch
  <2>1. First(Ready) \in Task /\ CreateAttempt(First(Ready), host) /\ host \in Nat
    BY <1>15, FirstReady DEF Launch
  <2>2. task[First(Ready)] = "pending"
    BY <1>15, FirstReady DEF Launch, Ready
  <2>3. pc' = "loop"
    BY <1>15 DEF Launch
  <2>4. /\ task'[First(Ready)] = "running"
        /\ \A t \in Task \ {First(Ready)} : task'[t] = task[t] /\ attempt'[t] = attempt[t]
    BY <2>1, AttemptBegins DEF CreateAttempt
  <2>5. RetriesBounded'
    <3> DEFINE t == First(Ready)
    <3> DEFINE n == Len(attempt[t])
    <3>0. attempt[t] \in Seq(AttemptStatus) /\ (attempt[t] = <<>> \/ MayFollow(t))
      BY <2>1, <2>2
    <3>1. n \in Nat /\ (n = 0 \/ (n < MaxAttempts[t] /\ attempt[t][n] \in {"failed", "interrupted"}))
      BY <3>0
    <3>2. MaxAttempts[t] \in Nat \ {0}
      BY <2>1
    <3>3. \A k \in 1..(n - 1) : attempt[t][k] \in {"failed", "interrupted"}
      BY <2>1
    <3>4. Len(attempt'[t]) = n + 1 /\ \A k \in 1..n : attempt'[t][k] = attempt[t][k]
      BY <2>1, AttemptBegins
    <3> HIDE DEF t, n
    <3>5. n + 1 <= MaxAttempts[t]
      BY <3>1, <3>2
    <3>6. \A k \in 1..n : attempt[t][k] \in {"failed", "interrupted"}
      BY <3>1, <3>3
    <3>7. \A k \in 1..(Len(attempt'[t]) - 1) : attempt'[t][k] \in {"failed", "interrupted"}
      BY <3>1, <3>4, <3>6
    <3>8. Len(attempt'[t]) <= MaxAttempts[t]
      BY <3>4, <3>5
    <3> QED
      BY <2>4, <3>7, <3>8 DEF t
  <2> QED
    BY <2>3, <2>4, <2>5
<1>16. CASE ExecReport
  BY <1>16 DEF ExecReport, AppendEvidence, Executing
<1>17. CASE ExecJudge
  BY <1>17 DEF ExecJudge, AppendEvidence, Executing
<1>18. CASE ExecSettle
  <2>1. PICK s \in AttemptStatus \ {"running"} : TransitionAttempt(cur, s)
    BY <1>18 DEF ExecSettle, TerminalStatus, AttemptStatus
  <2>2. cur \in Task /\ task' = task /\ cur' = cur /\ pc' = "decide"
    BY <1>18 DEF ExecSettle, Executing, TransitionAttempt, ToDecide
  <2>3. /\ \A u \in Task \ {cur} : attempt'[u] = attempt[u]
        /\ attempt[cur] # <<>> /\ Latest(cur) = "running"
        /\ Len(attempt'[cur]) = Len(attempt[cur])
        /\ \A i \in 1..(Len(attempt[cur]) - 1) : attempt'[cur][i] = attempt[cur][i]
    <3> HIDE DEF TypeOK, StoreTypeOK, RetryInv, RetriesBounded, MayFollow, Latest
    <3>1. StoreTypeOK
      BY DEF TypeOK
    <3> QED
      BY <2>1, <2>2, <3>1, AttemptEnds
  <2> QED
    BY ZenonT(30), <2>2, <2>3
<1>19. CASE ExecFail
  <2>1. cur \in Task /\ TransitionAttempt(cur, "failed")
    BY <1>19 DEF ExecFail, Executing
  <2>2. "failed" \in AttemptStatus \ {"running"}
    BY DEF AttemptStatus
  <2> QED
    BY <1>19, <2>1, <2>2, AttemptEnds DEF ExecFail, TransitionAttempt, ToDecide
<1>20. CASE ExecStrand
  BY <1>20 DEF ExecStrand, storeVars, Executing
<1>21. CASE MarkTask
  BY <1>21 DEF MarkTask, TransitionTask, Deciding, LeaveTask
<1>22. CASE ScheduleRetry
  BY <1>22 DEF ScheduleRetry, TransitionTask, Deciding, RetryAllowed
<1>23. CASE RetryBlocked
  BY <1>23 DEF RetryBlocked, TransitionTask
<1>24. CASE RetryPending
  BY <1>24 DEF RetryPending, TransitionTask, ToLoop, LeaveTask
<1>25. CASE PauseForGate
  BY <1>25 DEF PauseForGate, TransitionTask, Deciding
<1>26. CASE PauseRun
  BY <1>26 DEF PauseRun, TransitionRun, ToLoop, LeaveTask
<1>27. CASE EvaluateRun
  BY <1>27 DEF EvaluateRun, TransitionRun
<1>28. CASE TickThrows
  BY <1>28 DEF TickThrows, storeVars
<1>29. CASE Finally
  BY <1>29 DEF Finally, storeVars, LeaveTask
<1>30. CASE ReportError
  BY <1>30 DEF ReportError, storeVars
<1>31. CASE CancelRun
  BY <1>31 DEF CancelRun, RecordRunCancelIntent
<1>32. CASE SweepTask
  BY <1>32 DEF SweepTask, TransitionTask
<1>33. CASE SweepRun
  BY <1>33 DEF SweepRun, TransitionRun
<1>34. CASE SweepFail
  BY <1>34 DEF SweepFail, storeVars
<1>35. CASE Shutdown
  BY <1>35 DEF Shutdown, storeVars
<1>36. CASE Crash
  BY <1>36 DEF Crash, storeVars, Off
<1>37. CASE Halt
  BY <1>37 DEF Halt, storeVars, Off
<1> QED
  BY <1>0, <1>1, <1>2, <1>3, <1>4, <1>5, <1>6, <1>7, <1>8, <1>9, <1>10, <1>11, <1>12, <1>13, <1>14, <1>15, <1>16, <1>17, <1>18, <1>19, <1>20, <1>21, <1>22, <1>23, <1>24, <1>25, <1>26, <1>27, <1>28, <1>29, <1>30, <1>31, <1>32, <1>33, <1>34, <1>35, <1>36, <1>37, Stepped

(* RetriesBounded: no task ever has more attempts than resolveMaxAttempts  *)
(* allows, and each but the last failed or was interrupted, over any       *)
(* number of crashes, recoveries and restarts.                             *)
THEOREM RetriesAreBounded == Spec => []RetriesBounded
<1>1. Init => TypeOK /\ InHand /\ RetryInv
  <2> SUFFICES ASSUME Init PROVE TypeOK /\ InHand /\ RetryInv
    OBVIOUS
  <2>1. \A t \in Task : attempt[t] = <<>> /\ Len(attempt[t]) = 0
    BY DEF Init, StoreInit
  <2> QED
    BY <2>1, InitTypeOK DEF Init, StoreInit, RetryInv, RetriesBounded
<1>2. TypeOK /\ InHand /\ RetryInv /\ [Next]_vars => (TypeOK /\ InHand /\ RetryInv)'
  BY StepTypeOK, StepRetry
<1>3. RetryInv => RetriesBounded
  BY DEF RetryInv
<1> QED
  BY <1>1, <1>2, <1>3, PTL DEF Spec

-----------------------------------------------------------------------------
(* No attempt was made by a later host than the live one; unless the Run   *)
(* is being cancelled, a running attempt of the live host is one of a      *)
(* running task, so that a host with no running task runs no attempt.      *)
WorkInv ==
  /\ ExecutesOnlyRunning
  /\ \A t \in Task : owner[t] <= host
  /\ pc # "down" /\ ~marked =>
       \A t \in Task : Runs(t) /\ owner[t] = host => task[t] = "running"

LEMMA StepWork ==
  ASSUME TypeOK, InHand, CancelInv, WorkInv, [Next]_vars
  PROVE  WorkInv'
<1> USE DEF TypeOK, StoreTypeOK, InHand, WorkInv, ExecutesOnlyRunning, Runs, Attempted, Latest,
            Goto, Drives, hostVars
<1>0. CASE UNCHANGED vars
  BY <1>0 DEF vars
<1>1. CASE Start
  BY <1>1 DEF Start, storeVars
<1>2. CASE Recover
  <2>1. First(Stale(host)) \in Task /\ TransitionAttempt(First(Stale(host)), "interrupted")
    BY <1>2, FirstStale DEF Recover
  <2>2. "interrupted" \in AttemptStatus \ {"running"}
    BY DEF AttemptStatus
  <2> QED
    BY <1>2, <2>1, <2>2, AttemptEnds DEF Recover, TransitionAttempt
<1>3. CASE Resume
  BY <1>3 DEF Resume, storeVars
<1>4. CASE ApproveRun
  BY <1>4 DEF ApproveRun, CreateRun
<1>5. CASE ApproveTask
  BY <1>5 DEF ApproveTask, CreateTask
<1>6. CASE ApproveDependency
  BY <1>6 DEF ApproveDependency, AddDependency
<1>7. CASE ApproveFail
  BY <1>7 DEF ApproveFail, TransitionRun, storeVars
<1>8. CASE ApproveDone
  BY <1>8 DEF ApproveDone, storeVars
<1>9. CASE Reapprove
  BY <1>9 DEF Reapprove, storeVars
<1>10. CASE CompleteRequest
  BY <1>10 DEF CompleteRequest, storeVars
<1>11. CASE Wake
  BY <1>11 DEF Wake, storeVars
<1>12. CASE Reconcile
  BY <1>12 DEF Reconcile, storeVars, Choosing
<1>13. CASE NoReadyTask
  BY <1>13 DEF NoReadyTask, storeVars, Choosing, Running
<1>14. CASE StartRun
  BY <1>14 DEF StartRun, TransitionRun, Choosing
<1>15. CASE Launch
  <2>1. First(Ready) \in Task /\ CreateAttempt(First(Ready), host) /\ host \in Nat
    BY <1>15, FirstReady DEF Launch
  <2>2. ~marked /\ exec = "off"
    BY <1>15 DEF Launch, Choosing, CancelInv
  <2>3. \A t \in Task : ~(Runs(t) /\ owner[t] = host)
    BY <1>15, <2>2 DEF Launch, Choosing, Running
  <2> QED
    BY SMTT(30), <1>15, <2>1, <2>2, <2>3, AttemptBegins DEF Launch, CreateAttempt
<1>16. CASE ExecReport
  BY <1>16 DEF ExecReport, AppendEvidence, Executing
<1>17. CASE ExecJudge
  BY <1>17 DEF ExecJudge, AppendEvidence, Executing
<1>18. CASE ExecSettle
  <2>1. cur \in Task /\ TransitionAttempt(cur, TerminalStatus)
    BY <1>18 DEF ExecSettle, Executing
  <2>2. TerminalStatus \in AttemptStatus \ {"running"}
    BY DEF AttemptStatus, TerminalStatus
  <2> QED
    BY <1>18, <2>1, <2>2, AttemptEnds DEF ExecSettle, TransitionAttempt, ToDecide
<1>19. CASE ExecFail
  <2>1. cur \in Task /\ TransitionAttempt(cur, "failed")
    BY <1>19 DEF ExecFail, Executing
  <2>2. "failed" \in AttemptStatus \ {"running"}
    BY DEF AttemptStatus
  <2> QED
    BY <1>19, <2>1, <2>2, AttemptEnds DEF ExecFail, TransitionAttempt, ToDecide
<1>20. CASE ExecStrand
  BY <1>20 DEF ExecStrand, storeVars, Executing
<1>21. CASE MarkTask
  BY <1>21 DEF MarkTask, TransitionTask, Deciding, LeaveTask
<1>22. CASE ScheduleRetry
  BY <1>22 DEF ScheduleRetry, TransitionTask, Deciding
<1>23. CASE RetryBlocked
  BY <1>23 DEF RetryBlocked, TransitionTask
<1>24. CASE RetryPending
  BY <1>24 DEF RetryPending, TransitionTask, ToLoop, LeaveTask
<1>25. CASE PauseForGate
  BY <1>25 DEF PauseForGate, TransitionTask, Deciding
<1>26. CASE PauseRun
  BY <1>26 DEF PauseRun, TransitionRun, ToLoop, LeaveTask
<1>27. CASE EvaluateRun
  BY <1>27 DEF EvaluateRun, TransitionRun
<1>28. CASE TickThrows
  BY <1>28 DEF TickThrows, storeVars
<1>29. CASE Finally
  BY <1>29 DEF Finally, storeVars, LeaveTask
<1>30. CASE ReportError
  BY <1>30 DEF ReportError, storeVars
<1>31. CASE CancelRun
  BY <1>31 DEF CancelRun, RecordRunCancelIntent
<1>32. CASE SweepTask
  BY <1>32 DEF SweepTask, TransitionTask, CancelInv
<1>33. CASE SweepRun
  BY <1>33 DEF SweepRun, TransitionRun, CancelInv
<1>34. CASE SweepFail
  BY <1>34 DEF SweepFail, storeVars
<1>35. CASE Shutdown
  BY <1>35 DEF Shutdown, storeVars
<1>36. CASE Crash
  BY <1>36 DEF Crash, storeVars, Off
<1>37. CASE Halt
  BY <1>37 DEF Halt, storeVars, Off
<1> QED
  BY <1>0, <1>1, <1>2, <1>3, <1>4, <1>5, <1>6, <1>7, <1>8, <1>9, <1>10, <1>11, <1>12, <1>13, <1>14, <1>15, <1>16, <1>17, <1>18, <1>19, <1>20, <1>21, <1>22, <1>23, <1>24, <1>25, <1>26, <1>27, <1>28, <1>29, <1>30, <1>31, <1>32, <1>33, <1>34, <1>35, <1>36, <1>37, Stepped

(* ExecutesOnlyRunning: the provider works only for the live host's own    *)
(* attempt of a running task of a running Run, and for one at a time,      *)
(* whatever was cancelled, crashed, recovered or retried before.           *)
THEOREM OneExecution == Spec => []ExecutesOnlyRunning
<1>1. Init => TypeOK /\ InHand /\ CancelInv /\ WorkInv
  BY InitTypeOK DEF Init, StoreInit, CancelInv, CancelWins, WorkInv, ExecutesOnlyRunning
<1>2. TypeOK /\ InHand /\ CancelInv /\ WorkInv /\ [Next]_vars
        => (TypeOK /\ InHand /\ CancelInv /\ WorkInv)'
  BY StepTypeOK, StepCancel, StepWork
<1>3. WorkInv => ExecutesOnlyRunning
  BY DEF WorkInv
<1> QED
  BY <1>1, <1>2, <1>3, PTL DEF Spec

=============================================================================
