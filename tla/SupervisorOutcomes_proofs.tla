----------------------- MODULE SupervisorOutcomes_proofs -----------------------
(***************************************************************************)
(* Proofs about the outcomes Supervisor reaches, for any tasks, plans,     *)
(* budgets and number of host instances, with any of the faults: a Run     *)
(* that has ended stays ended; a pass is a pass; the plan is respected; a  *)
(* human gate holds; a Run fails for a cause; and the Run implements the   *)
(* lifecycle of RunLifecycle.                                              *)
(* Each rests on InStage, which says where the one thread can be and what  *)
(* it has in hand there.                                                   *)
(***************************************************************************)
EXTENDS Supervisor_proofs

USE TaskAssumption, MaxAttemptsAssumption, NoTaskAssumption, HostsAssumption

-----------------------------------------------------------------------------
(* The sections of a tick belong to a drive that ticks, and a Run that is  *)
(* ticked is pending or running; an approval has no drive yet; the task in *)
(* hand was attempted, and is running when it is decided on; a task that   *)
(* was never attempted has no evidence and has not run.                    *)
InStage ==
  /\ drive = "awaiting" => exec # "off"
  /\ pc \in {"decide", "retry", "gate", "evaluate"} => drive = "ticking"
  /\ drive = "ticking" =>
       /\ pc \in {"recover", "decide", "retry", "gate", "evaluate"}
       /\ run \in {"pending", "running"}
  /\ pc = "approve" => run = "pending" /\ drive = "off"
  /\ pc \in {"decide", "retry", "gate"} => cur \in Task /\ Attempted(cur)
  /\ pc = "decide" => task[cur] = "running"
  /\ \A t \in Task :
       attempt[t] = <<>> =>
         evidence[t] = {} /\ task[t] \notin {"running", "passed", "failed", "blocked"}

(* What the invariants below share. *)
Base == TypeOK /\ InHand /\ CancelInv /\ RetryInv /\ WorkInv /\ InStage

(* findInterruptedAttempts and pickRunningTask find what they look for. *)
LEMMA PickedStale ==
  ASSUME Stale(host) # {}
  PROVE  First(Stale(host)) \in Task /\ Runs(First(Stale(host))) /\ owner[First(Stale(host))] #
      host
BY FirstIn DEF Stale

LEMMA PickedRuns ==
  ASSUME Running # {} PROVE First(Running) \in Task /\ task[First(Running)] = "running"
BY FirstIn DEF Running

LEMMA StepInStage ==
  ASSUME TypeOK, InHand, CancelInv, WorkInv, InStage, [Next]_vars
  PROVE  InStage'
<1> USE DEF TypeOK, StoreTypeOK, InHand, WorkInv, ExecutesOnlyRunning, InStage, Runs, Attempted,
    Goto, Drives, hostVars
<1>0. CASE UNCHANGED vars
  BY <1>0 DEF vars
<1>1. CASE Start
  BY <1>1 DEF Start, storeVars
<1>2. CASE Recover
  <2>1. First(Stale(host)) \in Task /\ TransitionAttempt(First(Stale(host)), "interrupted")
    BY <1>2, FirstStale DEF Recover
  <2>2. "interrupted" \in AttemptStatus \ {"running"}
    BY DEF AttemptStatus
  <2> QED
    BY <1>2, <2>1, <2>2, AttemptEnds DEF Recover, TransitionAttempt
<1>3. CASE Resume
  BY <1>3 DEF Resume, storeVars
<1>4. CASE ApproveRun
  BY <1>4 DEF ApproveRun, CreateRun
<1>5. CASE ApproveTask
  BY <1>5 DEF ApproveTask, CreateTask
<1>6. CASE ApproveDependency
  BY <1>6 DEF ApproveDependency, AddDependency
<1>7. CASE ApproveFail
  BY <1>7 DEF ApproveFail, TransitionRun, storeVars
<1>8. CASE ApproveDone
  BY <1>8 DEF ApproveDone, storeVars
<1>9. CASE Reapprove
  BY <1>9 DEF Reapprove, storeVars
<1>10. CASE CompleteRequest
  BY <1>10 DEF CompleteRequest, storeVars
<1>11. CASE Wake
  BY <1>11 DEF Wake, storeVars, Active
<1>12. CASE Reconcile
  <2>1. First(Running) \in Task /\ task[First(Running)] = "running"
    BY <1>12, PickedRuns DEF Reconcile
  <2> QED
    BY <1>12, <2>1 DEF Reconcile, Choosing, storeVars
<1>13. CASE NoReadyTask
  BY <1>13 DEF NoReadyTask, storeVars, Choosing
<1>14. CASE StartRun
  BY <1>14 DEF StartRun, TransitionRun, Choosing, RUN_TRANSITIONS, RunStatus
<1>15. CASE Launch
  <2>1. First(Ready) \in Task /\ CreateAttempt(First(Ready), host) /\ host \in Nat
    BY <1>15, FirstReady DEF Launch
  <2> QED
    BY <1>15, <2>1, AttemptBegins DEF Launch, CreateAttempt, Choosing
<1>16. CASE ExecReport
  BY <1>16 DEF ExecReport, AppendEvidence, Executing
<1>17. CASE ExecJudge
  BY <1>17 DEF ExecJudge, AppendEvidence, Executing
<1>18. CASE ExecSettle
  <2>1. cur \in Task /\ TransitionAttempt(cur, TerminalStatus)
    BY <1>18 DEF ExecSettle, Executing
  <2>2. TerminalStatus \in AttemptStatus \ {"running"}
    BY DEF AttemptStatus, TerminalStatus
  <2> QED
    BY <1>18, <2>1, <2>2, AttemptEnds DEF ExecSettle, TransitionAttempt, ToDecide, Executing
<1>19. CASE ExecFail
  <2>1. cur \in Task /\ TransitionAttempt(cur, "failed")
    BY <1>19 DEF ExecFail, Executing
  <2>2. "failed" \in AttemptStatus \ {"running"}
    BY DEF AttemptStatus
  <2> QED
    BY <1>19, <2>1, <2>2, AttemptEnds DEF ExecFail, TransitionAttempt, ToDecide, Executing
<1>20. CASE ExecStrand
  BY <1>20 DEF ExecStrand, storeVars, Executing
<1>21. CASE MarkTask
  BY <1>21 DEF MarkTask, TransitionTask, Deciding, LeaveTask
<1>22. CASE ScheduleRetry
  BY <1>22 DEF ScheduleRetry, TransitionTask, Deciding
<1>23. CASE RetryBlocked
  BY <1>23 DEF RetryBlocked, TransitionTask
<1>24. CASE RetryPending
  BY <1>24 DEF RetryPending, TransitionTask, ToLoop, LeaveTask
<1>25. CASE PauseForGate
  BY <1>25 DEF PauseForGate, TransitionTask, Deciding
<1>26. CASE PauseRun
  BY <1>26 DEF PauseRun, TransitionRun, ToLoop, LeaveTask
<1>27. CASE EvaluateRun
  BY <1>27 DEF EvaluateRun, TransitionRun, NextRunStatus, RUN_TRANSITIONS, RunStatus, Active
<1>28. CASE TickThrows
  BY <1>28 DEF TickThrows, storeVars
<1>29. CASE Finally
  BY <1>29 DEF Finally, storeVars, LeaveTask
<1>30. CASE ReportError
  BY <1>30 DEF ReportError, storeVars
<1>31. CASE CancelRun
  BY <1>31 DEF CancelRun, RecordRunCancelIntent, Active
<1>32. CASE SweepTask
  BY <1>32, FirstIn DEF SweepTask, TransitionTask, Unended, CancelInv
<1>33. CASE SweepRun
  BY <1>33 DEF SweepRun, TransitionRun, CancelInv
<1>34. CASE SweepFail
  BY <1>34 DEF SweepFail, storeVars
<1>35. CASE Shutdown
  BY <1>35 DEF Shutdown, storeVars
<1>36. CASE Crash
  BY <1>36 DEF Crash, storeVars, Off
<1>37. CASE Halt
  BY <1>37 DEF Halt, storeVars, Off
<1> QED
  BY <1>0, <1>1, <1>2, <1>3, <1>4, <1>5, <1>6, <1>7, <1>8, <1>9, <1>10, <1>11, <1>12, <1>13,
      <1>14, <1>15, <1>16, <1>17, <1>18, <1>19, <1>20, <1>21, <1>22, <1>23, <1>24, <1>25, <1>26,
      <1>27, <1>28, <1>29, <1>30, <1>31, <1>32, <1>33, <1>34, <1>35, <1>36, <1>37, Stepped

(* The invariants of the thread and of the stages hold in every reachable state. *)
LEMMA BaseHolds == Spec => []Base
<1>1. Init => Base
  <2> SUFFICES ASSUME Init PROVE Base
    OBVIOUS
  <2>1. CancelInv /\ WorkInv
    BY InitTypeOK DEF Init, StoreInit, CancelInv, CancelWins, WorkInv, ExecutesOnlyRunning
  <2>2. RetryInv
    <3>1. \A t \in Task : attempt[t] = <<>> /\ Len(attempt[t]) = 0
      BY DEF Init, StoreInit
    <3> QED
      BY <3>1 DEF Init, StoreInit, RetryInv, RetriesBounded
  <2>3. InStage
    BY DEF Init, StoreInit, InStage
  <2> QED
    BY <2>1, <2>2, <2>3, InitTypeOK DEF Base
<1>2. Base /\ [Next]_vars => Base'
  BY StepTypeOK, StepCancel, StepRetry, StepWork, StepInStage DEF Base
<1> QED
  BY <1>1, <1>2, PTL DEF Spec

-----------------------------------------------------------------------------
(* What has ended stays ended. *)
LEMMA StepEnded ==
  ASSUME Base, Over, [Next]_vars
  PROVE  StaysEnded
<1> USE DEF Base, InStage, WorkInv, ExecutesOnlyRunning, Over, StaysEnded, NewAttempt, Terminal,
    Goto, Drives, hostVars
<1>0. CASE UNCHANGED vars
  BY <1>0 DEF vars
<1>1. CASE Start
  BY <1>1 DEF Start, storeVars
<1>2. CASE Recover
  <2>1. First(Stale(host)) \in Task /\ TransitionAttempt(First(Stale(host)), "interrupted")
    BY <1>2, FirstStale DEF Recover
  <2>2. StoreTypeOK /\ "interrupted" \in AttemptStatus \ {"running"}
    BY DEF TypeOK, AttemptStatus
  <2> QED
    BY <2>1, <2>2, AttemptEnds DEF TransitionAttempt
<1>3. CASE Resume
  BY <1>3 DEF Resume, storeVars
<1>4. CASE ApproveRun
  BY <1>4 DEF ApproveRun, CreateRun
<1>5. CASE ApproveTask
  BY <1>5 DEF ApproveTask, CreateTask
<1>6. CASE ApproveDependency
  BY <1>6 DEF ApproveDependency, AddDependency
<1>7. CASE ApproveFail
  BY <1>7 DEF ApproveFail, TransitionRun, storeVars, RUN_TRANSITIONS, RunStatus
<1>8. CASE ApproveDone
  BY <1>8 DEF ApproveDone, storeVars
<1>9. CASE Reapprove
  BY <1>9 DEF Reapprove, storeVars
<1>10. CASE CompleteRequest
  BY <1>10 DEF CompleteRequest, storeVars
<1>11. CASE Wake
  BY <1>11 DEF Wake, storeVars
<1>12. CASE Reconcile
  BY <1>12 DEF Reconcile, storeVars, Choosing, Running
<1>13. CASE NoReadyTask
  BY <1>13 DEF NoReadyTask, storeVars, Choosing
<1>14. CASE StartRun
  BY <1>14 DEF StartRun, TransitionRun, Choosing
<1>15. CASE Launch
  BY <1>15 DEF Launch, CreateAttempt, Choosing
<1>16. CASE ExecReport
  BY <1>16 DEF ExecReport, AppendEvidence, Executing
<1>17. CASE ExecJudge
  BY <1>17 DEF ExecJudge, AppendEvidence, Executing
<1>18. CASE ExecSettle
  BY <1>18 DEF ExecSettle, Executing
<1>19. CASE ExecFail
  BY <1>19 DEF ExecFail, Executing
<1>20. CASE ExecStrand
  BY <1>20 DEF ExecStrand, storeVars, Executing
<1>21. CASE MarkTask
  BY <1>21 DEF MarkTask, TransitionTask, Deciding, LeaveTask
<1>22. CASE ScheduleRetry
  BY <1>22 DEF ScheduleRetry, TransitionTask, Deciding
<1>23. CASE RetryBlocked
  BY <1>23 DEF RetryBlocked, TransitionTask
<1>24. CASE RetryPending
  BY <1>24 DEF RetryPending, TransitionTask, ToLoop, LeaveTask
<1>25. CASE PauseForGate
  BY <1>25 DEF PauseForGate, TransitionTask, Deciding
<1>26. CASE PauseRun
  BY <1>26 DEF PauseRun, TransitionRun, ToLoop, LeaveTask, RUN_TRANSITIONS, RunStatus
<1>27. CASE EvaluateRun
  BY <1>27 DEF EvaluateRun, TransitionRun
<1>28. CASE TickThrows
  BY <1>28 DEF TickThrows, storeVars
<1>29. CASE Finally
  BY <1>29 DEF Finally, storeVars, LeaveTask
<1>30. CASE ReportError
  BY <1>30 DEF ReportError, storeVars
<1>31. CASE CancelRun
  BY <1>31 DEF CancelRun, RecordRunCancelIntent
<1>32. CASE SweepTask
  BY <1>32 DEF SweepTask, TransitionTask
<1>33. CASE SweepRun
  BY <1>33 DEF SweepRun, TransitionRun, CancelInv
<1>34. CASE SweepFail
  BY <1>34 DEF SweepFail, storeVars
<1>35. CASE Shutdown
  BY <1>35 DEF Shutdown, storeVars
<1>36. CASE Crash
  BY <1>36 DEF Crash, storeVars, Off
<1>37. CASE Halt
  BY <1>37 DEF Halt, storeVars, Off
<1> QED
  BY <1>0, <1>1, <1>2, <1>3, <1>4, <1>5, <1>6, <1>7, <1>8, <1>9, <1>10, <1>11, <1>12, <1>13,
      <1>14, <1>15, <1>16, <1>17, <1>18, <1>19, <1>20, <1>21, <1>22, <1>23, <1>24, <1>25, <1>26,
      <1>27, <1>28, <1>29, <1>30, <1>31, <1>32, <1>33, <1>34, <1>35, <1>36, <1>37, Stepped

(* EndedStays: a Run that has completed, failed or been cancelled is never *)
(* moved or worked on again, and one that waits at a gate only cancelled,  *)
(* whatever drives, approvals, recoveries and restarts come after.         *)
THEOREM EndedForGood == Spec => EndedStays
<1>1. Base /\ [Next]_vars => [Over => StaysEnded]_vars
  BY StepEnded
<1> QED
  BY <1>1, BaseHolds, PTL DEF Spec, EndedStays


-----------------------------------------------------------------------------
(* An attempt passes only without a policy rejection among its events, and *)
(* no event is appended to an attempt that has ended.                      *)
PassInv ==
  /\ PassedForReal
  /\ \A t \in Task : Attempted(t) /\ Latest(t) = "passed" => "policy" \notin evidence[t]

LEMMA StepPass ==
  ASSUME Base, PassInv, [Next]_vars
  PROVE  PassInv'
<1> USE DEF Base, TypeOK, StoreTypeOK, InHand, InStage, WorkInv, ExecutesOnlyRunning, PassInv,
    PassedForReal, Runs, Attempted, Latest, Created, Goto, Drives, hostVars
<1>0. CASE UNCHANGED vars
  BY <1>0 DEF vars
<1>1. CASE Start
  BY <1>1 DEF Start, storeVars
<1>2. CASE Recover
  <2>1. First(Stale(host)) \in Task /\ TransitionAttempt(First(Stale(host)), "interrupted")
    BY <1>2, FirstStale DEF Recover
  <2>2. "interrupted" \in AttemptStatus \ {"running"}
    BY DEF AttemptStatus
  <2> QED
    BY <1>2, <2>1, <2>2, AttemptEnds DEF Recover, TransitionAttempt
<1>3. CASE Resume
  BY <1>3 DEF Resume, storeVars
<1>4. CASE ApproveRun
  BY <1>4 DEF ApproveRun, CreateRun
<1>5. CASE ApproveTask
  BY <1>5 DEF ApproveTask, CreateTask
<1>6. CASE ApproveDependency
  BY <1>6 DEF ApproveDependency, AddDependency
<1>7. CASE ApproveFail
  BY <1>7 DEF ApproveFail, TransitionRun, storeVars
<1>8. CASE ApproveDone
  BY <1>8 DEF ApproveDone, storeVars
<1>9. CASE Reapprove
  BY <1>9 DEF Reapprove, storeVars
<1>10. CASE CompleteRequest
  BY <1>10 DEF CompleteRequest, storeVars
<1>11. CASE Wake
  BY <1>11 DEF Wake, storeVars
<1>12. CASE Reconcile
  BY <1>12 DEF Reconcile, storeVars, Choosing, Running
<1>13. CASE NoReadyTask
  BY <1>13 DEF NoReadyTask, storeVars, Choosing
<1>14. CASE StartRun
  BY <1>14 DEF StartRun, TransitionRun, Choosing
<1>15. CASE Launch
  <2>1. First(Ready) \in Task /\ CreateAttempt(First(Ready), host) /\ host \in Nat
    BY <1>15, FirstReady DEF Launch
  <2>2. task[First(Ready)] = "pending" /\ run = "running" /\ run' = run
    BY <1>15, FirstReady DEF Launch, Ready, CreateAttempt
  <2> QED
    BY <1>15, <2>1, <2>2, AttemptBegins DEF Launch, CreateAttempt, Choosing
<1>16. CASE ExecReport
  BY <1>16 DEF ExecReport, AppendEvidence, Executing
<1>17. CASE ExecJudge
  BY <1>17 DEF ExecJudge, AppendEvidence, Executing
<1>18. CASE ExecSettle
  <2>1. cur \in Task /\ TransitionAttempt(cur, TerminalStatus)
    BY <1>18 DEF ExecSettle, Executing
  <2>2. TerminalStatus \in AttemptStatus \ {"running"}
    BY DEF AttemptStatus, TerminalStatus
  <2>3. TerminalStatus = "passed" => "policy" \notin evidence[cur]
    BY DEF TerminalStatus
  <2>4. task' = task /\ run' = run /\ evidence' = evidence /\ task[cur] = "running" /\ cur' =
      cur
    BY <1>18 DEF ExecSettle, Executing, TransitionAttempt
  <2>5. /\ attempt'[cur] # <<>> /\ Latest(cur)' = TerminalStatus
        /\ \A u \in Task \ {cur} : attempt'[u] = attempt[u]
    <3> HIDE DEF Base, TypeOK, StoreTypeOK, InHand, InStage, WorkInv, PassInv, Runs
    <3>1. StoreTypeOK
      BY DEF Base, TypeOK
    <3> QED
      BY <2>1, <2>2, <2>4, <3>1, AttemptEnds
  <2>6. \A u \in Task \ {cur} : Latest(u)' = Latest(u)
    BY <2>5
  <2> HIDE DEF Latest, TypeOK, StoreTypeOK, InHand, WorkInv
  <2> QED
    BY <2>3, <2>4, <2>5, <2>6
<1>19. CASE ExecFail
  <2>1. cur \in Task /\ TransitionAttempt(cur, "failed")
    BY <1>19 DEF ExecFail, Executing
  <2>2. "failed" \in AttemptStatus \ {"running"}
    BY DEF AttemptStatus
  <2> QED
    BY <1>19, <2>1, <2>2, AttemptEnds DEF ExecFail, TransitionAttempt, ToDecide, Executing
<1>20. CASE ExecStrand
  BY <1>20 DEF ExecStrand, storeVars, Executing
<1>21. CASE MarkTask
  BY <1>21 DEF MarkTask, TransitionTask, Deciding, LeaveTask, TASK_TRANSITIONS, TaskStatus
<1>22. CASE ScheduleRetry
  BY <1>22 DEF ScheduleRetry, TransitionTask, Deciding, TASK_TRANSITIONS, TaskStatus
<1>23. CASE RetryBlocked
  BY <1>23 DEF RetryBlocked, TransitionTask, TASK_TRANSITIONS, TaskStatus
<1>24. CASE RetryPending
  BY <1>24 DEF RetryPending, TransitionTask, ToLoop, LeaveTask, TASK_TRANSITIONS, TaskStatus
<1>25. CASE PauseForGate
  BY <1>25 DEF PauseForGate, TransitionTask, Deciding, TASK_TRANSITIONS, TaskStatus
<1>26. CASE PauseRun
  BY <1>26 DEF PauseRun, TransitionRun, ToLoop, LeaveTask
<1>27. CASE EvaluateRun
  BY <1>27 DEF EvaluateRun, TransitionRun, NextRunStatus, RUN_TRANSITIONS, RunStatus
<1>28. CASE TickThrows
  BY <1>28 DEF TickThrows, storeVars
<1>29. CASE Finally
  BY <1>29 DEF Finally, storeVars, LeaveTask
<1>30. CASE ReportError
  BY <1>30 DEF ReportError, storeVars
<1>31. CASE CancelRun
  BY <1>31 DEF CancelRun, RecordRunCancelIntent
<1>32. CASE SweepTask
  BY <1>32 DEF SweepTask, TransitionTask, TASK_TRANSITIONS, TaskStatus
<1>33. CASE SweepRun
  BY <1>33 DEF SweepRun, TransitionRun
<1>34. CASE SweepFail
  BY <1>34 DEF SweepFail, storeVars
<1>35. CASE Shutdown
  BY <1>35 DEF Shutdown, storeVars
<1>36. CASE Crash
  BY <1>36 DEF Crash, storeVars, Off
<1>37. CASE Halt
  BY <1>37 DEF Halt, storeVars, Off
<1> QED
  BY <1>0, <1>1, <1>2, <1>3, <1>4, <1>5, <1>6, <1>7, <1>8, <1>9, <1>10, <1>11, <1>12, <1>13,
      <1>14, <1>15, <1>16, <1>17, <1>18, <1>19, <1>20, <1>21, <1>22, <1>23, <1>24, <1>25, <1>26,
      <1>27, <1>28, <1>29, <1>30, <1>31, <1>32, <1>33, <1>34, <1>35, <1>36, <1>37, Stepped

(* PassedForReal: a task counts as passed only by an attempt that passed   *)
(* without a policy rejection, and a Run completes only with such tasks.   *)
THEOREM PassesAreReal == Spec => []PassedForReal
<1>1. Init => PassInv
  BY DEF Init, StoreInit, PassInv, PassedForReal, Attempted
<1>2. Base /\ PassInv /\ [Next]_vars => PassInv'
  BY StepPass
<1>3. PassInv => PassedForReal
  BY DEF PassInv
<1> QED
  BY <1>1, <1>2, <1>3, BaseHolds, PTL DEF Spec


-----------------------------------------------------------------------------
(* A gate is left behind only by a host that ended before the attempt's    *)
(* status was written: then the attempt runs on under a dead host, becomes *)
(* interrupted, and its task may become pending again.                     *)
Unwritten(t) == Runs(t) /\ (pc = "down" \/ owner[t] # host)

GateInv ==
  /\ \A t \in Task :
       "gate" \in evidence[t]
         /\ (Unwritten(t) \/ Latest(t) = "interrupted" \/ task[t] = "pending")
       => "verdict" \in torn
  /\ pc = "retry" /\ "gate" \in evidence[cur] => "verdict" \in torn

LEMMA StepGate ==
  ASSUME Base, GateInv, [Next]_vars
  PROVE  GateInv'
<1> USE DEF Base, TypeOK, StoreTypeOK, InHand, InStage, WorkInv, ExecutesOnlyRunning, GateInv,
    Unwritten, Runs, Attempted, Latest, Goto, Drives, hostVars
<1>0. CASE UNCHANGED vars
  BY <1>0 DEF vars
<1>1. CASE Start
  BY <1>1 DEF Start, storeVars
<1>2. CASE Recover
  <2>1. /\ First(Stale(host)) \in Task /\ TransitionAttempt(First(Stale(host)), "interrupted")
        /\ Runs(First(Stale(host))) /\ owner[First(Stale(host))] # host
    BY <1>2, PickedStale DEF Recover
  <2>2. "interrupted" \in AttemptStatus \ {"running"}
    BY DEF AttemptStatus
  <2> QED
    BY <1>2, <2>1, <2>2, AttemptEnds DEF Recover, TransitionAttempt
<1>3. CASE Resume
  BY <1>3 DEF Resume, storeVars
<1>4. CASE ApproveRun
  BY <1>4 DEF ApproveRun, CreateRun
<1>5. CASE ApproveTask
  BY <1>5 DEF ApproveTask, CreateTask, RetryInv
<1>6. CASE ApproveDependency
  BY <1>6 DEF ApproveDependency, AddDependency
<1>7. CASE ApproveFail
  BY <1>7 DEF ApproveFail, TransitionRun, storeVars
<1>8. CASE ApproveDone
  BY <1>8 DEF ApproveDone, storeVars
<1>9. CASE Reapprove
  BY <1>9 DEF Reapprove, storeVars
<1>10. CASE CompleteRequest
  BY <1>10 DEF CompleteRequest, storeVars
<1>11. CASE Wake
  BY <1>11 DEF Wake, storeVars
<1>12. CASE Reconcile
  BY <1>12 DEF Reconcile, storeVars, Choosing, Running
<1>13. CASE NoReadyTask
  BY <1>13 DEF NoReadyTask, storeVars, Choosing
<1>14. CASE StartRun
  BY <1>14 DEF StartRun, TransitionRun, Choosing
<1>15. CASE Launch
  <2>1. First(Ready) \in Task /\ CreateAttempt(First(Ready), host) /\ host \in Nat
    BY <1>15, FirstReady DEF Launch
  <2> QED
    BY <1>15, <2>1, AttemptBegins DEF Launch, CreateAttempt, Choosing
<1>16. CASE ExecReport
  BY <1>16 DEF ExecReport, AppendEvidence, Executing
<1>17. CASE ExecJudge
  BY <1>17 DEF ExecJudge, AppendEvidence, Executing
<1>18. CASE ExecSettle
  <2>1. PICK s \in AttemptStatus \ {"running"} : s # "interrupted" /\ TransitionAttempt(cur, s)
    BY <1>18 DEF ExecSettle, TerminalStatus, AttemptStatus
  <2>2. cur \in Task /\ task' = task /\ evidence' = evidence /\ task[cur] = "running" /\ cur' =
      cur
    BY <1>18 DEF ExecSettle, Executing, TransitionAttempt
  <2> QED
    BY <1>18, <2>1, <2>2, AttemptEnds DEF ExecSettle, TransitionAttempt, ToDecide, Executing
<1>19. CASE ExecFail
  <2>1. cur \in Task /\ TransitionAttempt(cur, "failed")
    BY <1>19 DEF ExecFail, Executing
  <2>2. "failed" \in AttemptStatus \ {"running"}
    BY DEF AttemptStatus
  <2> QED
    BY <1>19, <2>1, <2>2, AttemptEnds DEF ExecFail, TransitionAttempt, ToDecide, Executing
<1>20. CASE ExecStrand
  BY <1>20 DEF ExecStrand, storeVars, Executing
<1>21. CASE MarkTask
  BY <1>21 DEF MarkTask, TransitionTask, Deciding, LeaveTask, TASK_TRANSITIONS, TaskStatus
<1>22. CASE ScheduleRetry
  BY <1>22 DEF ScheduleRetry, TransitionTask, Deciding, RetryAllowed, Cause, RETRYABLE_CAUSES,
      TASK_TRANSITIONS, TaskStatus
<1>23. CASE RetryBlocked
  BY <1>23 DEF RetryBlocked, TransitionTask, TASK_TRANSITIONS, TaskStatus
<1>24. CASE RetryPending
  BY <1>24 DEF RetryPending, TransitionTask, ToLoop, LeaveTask
<1>25. CASE PauseForGate
  BY <1>25 DEF PauseForGate, TransitionTask, Deciding
<1>26. CASE PauseRun
  BY <1>26 DEF PauseRun, TransitionRun, ToLoop, LeaveTask
<1>27. CASE EvaluateRun
  BY <1>27 DEF EvaluateRun, TransitionRun
<1>28. CASE TickThrows
  BY <1>28 DEF TickThrows, storeVars
<1>29. CASE Finally
  BY <1>29 DEF Finally, storeVars, LeaveTask
<1>30. CASE ReportError
  BY <1>30 DEF ReportError, storeVars
<1>31. CASE CancelRun
  BY <1>31 DEF CancelRun, RecordRunCancelIntent
<1>32. CASE SweepTask
  BY <1>32 DEF SweepTask, TransitionTask
<1>33. CASE SweepRun
  BY <1>33 DEF SweepRun, TransitionRun
<1>34. CASE SweepFail
  BY <1>34 DEF SweepFail, storeVars
<1>35. CASE Shutdown
  BY <1>35 DEF Shutdown, storeVars
<1>36. CASE Crash
  BY <1>36 DEF Crash, storeVars, Off, UnwrittenVerdict
<1>37. CASE Halt
  BY <1>37 DEF Halt, storeVars, Off, UnwrittenVerdict
<1> QED
  BY <1>0, <1>1, <1>2, <1>3, <1>4, <1>5, <1>6, <1>7, <1>8, <1>9, <1>10, <1>11, <1>12, <1>13,
      <1>14, <1>15, <1>16, <1>17, <1>18, <1>19, <1>20, <1>21, <1>22, <1>23, <1>24, <1>25, <1>26,
      <1>27, <1>28, <1>29, <1>30, <1>31, <1>32, <1>33, <1>34, <1>35, <1>36, <1>37, Stepped

LEMMA StepGateHolds ==
  ASSUME Base, GateInv, [Next]_vars, NEW t \in Task, "gate" \in evidence[t], NewAttempt(t)
  PROVE  "verdict" \in torn
<1> USE DEF Base, TypeOK, StoreTypeOK, GateInv, NewAttempt, Goto, Drives, hostVars
<1>0. CASE UNCHANGED vars
  BY <1>0 DEF vars
<1>1. CASE Start
  BY <1>1 DEF Start, storeVars
<1>2. CASE Recover
  <2>1. First(Stale(host)) \in Task /\ TransitionAttempt(First(Stale(host)), "interrupted")
    BY <1>2, FirstStale DEF Recover
  <2>2. "interrupted" \in AttemptStatus \ {"running"}
    BY DEF AttemptStatus
  <2> QED
    BY <2>1, <2>2, AttemptEnds DEF TransitionAttempt
<1>3. CASE Resume
  BY <1>3 DEF Resume, storeVars
<1>4. CASE ApproveRun
  BY <1>4 DEF ApproveRun, CreateRun
<1>5. CASE ApproveTask
  BY <1>5 DEF ApproveTask, CreateTask
<1>6. CASE ApproveDependency
  BY <1>6 DEF ApproveDependency, AddDependency
<1>7. CASE ApproveFail
  BY <1>7 DEF ApproveFail, TransitionRun, storeVars
<1>8. CASE ApproveDone
  BY <1>8 DEF ApproveDone, storeVars
<1>9. CASE Reapprove
  BY <1>9 DEF Reapprove, storeVars
<1>10. CASE CompleteRequest
  BY <1>10 DEF CompleteRequest, storeVars
<1>11. CASE Wake
  BY <1>11 DEF Wake, storeVars
<1>12. CASE Reconcile
  BY <1>12 DEF Reconcile, storeVars, Choosing, Running
<1>13. CASE NoReadyTask
  BY <1>13 DEF NoReadyTask, storeVars, Choosing
<1>14. CASE StartRun
  BY <1>14 DEF StartRun, TransitionRun, Choosing
<1>15. CASE Launch
  <2>1. First(Ready) \in Task /\ CreateAttempt(First(Ready), host) /\ task[First(Ready)] =
      "pending"
    BY <1>15, FirstReady DEF Launch, Ready
  <2>2. t = First(Ready)
    BY <2>1 DEF CreateAttempt
  <2> QED
    BY <2>1, <2>2
<1>16. CASE ExecReport
  BY <1>16 DEF ExecReport, AppendEvidence, Executing
<1>17. CASE ExecJudge
  BY <1>17 DEF ExecJudge, AppendEvidence, Executing
<1>18. CASE ExecSettle
  <2>1. PICK s \in AttemptStatus \ {"running"} : TransitionAttempt(cur, s) /\ cur \in Task
    BY <1>18 DEF ExecSettle, Executing, TerminalStatus, AttemptStatus, InHand
  <2> QED
    BY <2>1, AttemptEnds DEF TransitionAttempt
<1>19. CASE ExecFail
  <2>1. PICK s \in AttemptStatus \ {"running"} : TransitionAttempt(cur, s) /\ cur \in Task
    BY <1>19 DEF ExecFail, Executing, AttemptStatus, InHand
  <2> QED
    BY <2>1, AttemptEnds DEF TransitionAttempt
<1>20. CASE ExecStrand
  BY <1>20 DEF ExecStrand, storeVars, Executing
<1>21. CASE MarkTask
  BY <1>21 DEF MarkTask, TransitionTask, Deciding, LeaveTask
<1>22. CASE ScheduleRetry
  BY <1>22 DEF ScheduleRetry, TransitionTask, Deciding
<1>23. CASE RetryBlocked
  BY <1>23 DEF RetryBlocked, TransitionTask
<1>24. CASE RetryPending
  BY <1>24 DEF RetryPending, TransitionTask, ToLoop, LeaveTask
<1>25. CASE PauseForGate
  BY <1>25 DEF PauseForGate, TransitionTask, Deciding
<1>26. CASE PauseRun
  BY <1>26 DEF PauseRun, TransitionRun, ToLoop, LeaveTask
<1>27. CASE EvaluateRun
  BY <1>27 DEF EvaluateRun, TransitionRun
<1>28. CASE TickThrows
  BY <1>28 DEF TickThrows, storeVars
<1>29. CASE Finally
  BY <1>29 DEF Finally, storeVars, LeaveTask
<1>30. CASE ReportError
  BY <1>30 DEF ReportError, storeVars
<1>31. CASE CancelRun
  BY <1>31 DEF CancelRun, RecordRunCancelIntent
<1>32. CASE SweepTask
  BY <1>32 DEF SweepTask, TransitionTask
<1>33. CASE SweepRun
  BY <1>33 DEF SweepRun, TransitionRun
<1>34. CASE SweepFail
  BY <1>34 DEF SweepFail, storeVars
<1>35. CASE Shutdown
  BY <1>35 DEF Shutdown, storeVars
<1>36. CASE Crash
  BY <1>36 DEF Crash, storeVars, Off
<1>37. CASE Halt
  BY <1>37 DEF Halt, storeVars, Off
<1> QED
  BY <1>0, <1>1, <1>2, <1>3, <1>4, <1>5, <1>6, <1>7, <1>8, <1>9, <1>10, <1>11, <1>12, <1>13,
      <1>14, <1>15, <1>16, <1>17, <1>18, <1>19, <1>20, <1>21, <1>22, <1>23, <1>24, <1>25, <1>26,
      <1>27, <1>28, <1>29, <1>30, <1>31, <1>32, <1>33, <1>34, <1>35, <1>36, <1>37, Stepped

(* GateHolds: after a durable human gate no further attempt of the task    *)
(* starts, over retries, failing writes, restarts and resumed Runs, unless *)
(* the host ended before the gate attempt's own status was written.        *)
THEOREM GatesAreHeld == Spec => GateHolds
<1>1. Init => GateInv
  BY DEF Init, StoreInit, GateInv
<1>2. Base /\ GateInv /\ [Next]_vars => GateInv'
  BY StepGate
<1> DEFINE Held == \A t \in Task : "gate" \in evidence[t] /\ NewAttempt(t) => "verdict" \in torn
<1>3. Base /\ GateInv /\ [Next]_vars => [Held]_vars
  BY StepGateHolds
<1>4. GateHolds <=> [][Held]_vars
  BY DEF GateHolds
<1> HIDE DEF Held
<1> QED
  BY <1>1, <1>2, <1>3, <1>4, BaseHolds, PTL DEF Spec


-----------------------------------------------------------------------------
(* Unless its creation was broken off, a Run that is no longer being       *)
(* created, and was not cancelled, is the plan's.                          *)
PlanInv ==
  /\ PlanRespected
  /\ "approve" \notin torn /\ run \notin {"absent", "cancelled"} /\ pc # "approve" =>
       Created = Task /\ edge = plan

LEMMA StepPlan ==
  ASSUME Base, PlanInv, [Next]_vars
  PROVE  PlanInv'
<1> USE DEF Base, TypeOK, StoreTypeOK, InHand, InStage, WorkInv, ExecutesOnlyRunning, PlanInv,
    PlanRespected, Attempted, Created, Goto, Drives, hostVars
<1>0. CASE UNCHANGED vars
  BY <1>0 DEF vars
<1>1. CASE Start
  BY <1>1 DEF Start, storeVars
<1>2. CASE Recover
  <2>1. First(Stale(host)) \in Task /\ TransitionAttempt(First(Stale(host)), "interrupted")
    BY <1>2, FirstStale DEF Recover
  <2>2. "interrupted" \in AttemptStatus \ {"running"}
    BY DEF AttemptStatus
  <2> QED
    BY <1>2, <2>1, <2>2, AttemptEnds DEF Recover, TransitionAttempt
<1>3. CASE Resume
  BY <1>3 DEF Resume, storeVars
<1>4. CASE ApproveRun
  BY <1>4 DEF ApproveRun, CreateRun
<1>5. CASE ApproveTask
  <2>1. PICK t \in Task : task[t] = "absent" /\ task' = [task EXCEPT ![t] = "pending"]
    <3>1. Task \ Created # {} /\ Task \ Created \in SUBSET Task
      BY <1>5 DEF ApproveTask
    <3>2. First(Task \ Created) \in Task
      BY <3>1, FirstIn
    <3> QED
      BY <1>5, <3>2 DEF ApproveTask, CreateTask
  <2>2. pc' = "approve" /\ run' = "pending" /\ attempt' = attempt /\ plan' = plan /\ torn' =
      torn
    BY <1>5 DEF ApproveTask, CreateTask
  <2>3. \A d \in Task : task[d] = "passed" => task'[d] = "passed"
    BY <2>1
  <2> QED
    BY <2>2, <2>3
<1>6. CASE ApproveDependency
  BY <1>6 DEF ApproveDependency, AddDependency
<1>7. CASE ApproveFail
  BY <1>7 DEF ApproveFail, TransitionRun, storeVars
<1>8. CASE ApproveDone
  BY <1>8 DEF ApproveDone, storeVars
<1>9. CASE Reapprove
  BY <1>9 DEF Reapprove, storeVars
<1>10. CASE CompleteRequest
  BY <1>10 DEF CompleteRequest, storeVars
<1>11. CASE Wake
  BY <1>11 DEF Wake, storeVars
<1>12. CASE Reconcile
  BY <1>12 DEF Reconcile, storeVars, Choosing, Running
<1>13. CASE NoReadyTask
  BY <1>13 DEF NoReadyTask, storeVars, Choosing
<1>14. CASE StartRun
  BY <1>14 DEF StartRun, TransitionRun, Choosing
<1>15. CASE Launch
  <2>1. First(Ready) \in Task /\ CreateAttempt(First(Ready), host) /\ host \in Nat
    BY <1>15, FirstReady DEF Launch
  <2>2. /\ task[First(Ready)] = "pending"
        /\ \A d \in Task : <<First(Ready), d>> \in edge => task[d] = "passed"
    BY <1>15, FirstReady DEF Launch, Ready
  <2>3. /\ run = "running" /\ pc = "recover" /\ run' = run /\ edge' = edge /\ plan' = plan
        /\ torn' = torn /\ pc' = "loop"
        /\ task' = [task EXCEPT ![First(Ready)] = "running"]
    BY <1>15 DEF Launch, Choosing, CreateAttempt
  <2>4. \A u \in Task \ {First(Ready)} : attempt'[u] = attempt[u]
    BY <2>1, AttemptBegins
  <2>5. "approve" \notin torn => edge = plan /\ Created = Task
    BY <2>3
  <2> QED
    BY <2>1, <2>2, <2>3, <2>4, <2>5
<1>16. CASE ExecReport
  BY <1>16 DEF ExecReport, AppendEvidence, Executing
<1>17. CASE ExecJudge
  BY <1>17 DEF ExecJudge, AppendEvidence, Executing
<1>18. CASE ExecSettle
  <2>1. PICK s \in AttemptStatus \ {"running"} : TransitionAttempt(cur, s) /\ cur \in Task
    BY <1>18 DEF ExecSettle, Executing, AttemptStatus, TerminalStatus
  <2> QED
    BY <1>18, <2>1, AttemptEnds DEF ExecSettle, TransitionAttempt, ToDecide, Executing
<1>19. CASE ExecFail
  <2>1. PICK s \in AttemptStatus \ {"running"} : TransitionAttempt(cur, s) /\ cur \in Task
    BY <1>19 DEF ExecFail, Executing, AttemptStatus, TerminalStatus
  <2> QED
    BY <1>19, <2>1, AttemptEnds DEF ExecFail, TransitionAttempt, ToDecide, Executing
<1>20. CASE ExecStrand
  BY <1>20 DEF ExecStrand, storeVars, Executing
<1>21. CASE MarkTask
  <2>1. PICK s \in TaskStatus : task' = [task EXCEPT ![cur] = s]
    BY <1>21 DEF MarkTask, TransitionTask, TaskStatus
  <2>2. /\ cur \in Task /\ task[cur] = "running" /\ pc = "decide" /\ pc' = "evaluate"
        /\ UNCHANGED <<run, edge, attempt, plan, torn>>
    BY <1>21 DEF MarkTask, TransitionTask, Deciding
  <2>3. \A d \in Task : task[d] = "passed" => task'[d] = "passed"
    BY <2>1, <2>2
  <2>4. Created' = Created
    BY <2>1, <2>2 DEF TaskStatus
  <2> QED
    BY <2>2, <2>3, <2>4
<1>22. CASE ScheduleRetry
  BY <1>22 DEF ScheduleRetry, TransitionTask, Deciding, TASK_TRANSITIONS, TaskStatus
<1>23. CASE RetryBlocked
  BY <1>23 DEF RetryBlocked, TransitionTask, TASK_TRANSITIONS, TaskStatus
<1>24. CASE RetryPending
  BY <1>24 DEF RetryPending, TransitionTask, ToLoop, LeaveTask, TASK_TRANSITIONS, TaskStatus
<1>25. CASE PauseForGate
  BY <1>25 DEF PauseForGate, TransitionTask, Deciding, TASK_TRANSITIONS, TaskStatus
<1>26. CASE PauseRun
  BY <1>26 DEF PauseRun, TransitionRun, ToLoop, LeaveTask
<1>27. CASE EvaluateRun
  BY <1>27 DEF EvaluateRun, TransitionRun, NextRunStatus, RUN_TRANSITIONS, RunStatus
<1>28. CASE TickThrows
  BY <1>28 DEF TickThrows, storeVars
<1>29. CASE Finally
  BY <1>29 DEF Finally, storeVars, LeaveTask
<1>30. CASE ReportError
  BY <1>30 DEF ReportError, storeVars
<1>31. CASE CancelRun
  BY <1>31 DEF CancelRun, RecordRunCancelIntent
<1>32. CASE SweepTask
  BY <1>32 DEF SweepTask, TransitionTask, TASK_TRANSITIONS, TaskStatus
<1>33. CASE SweepRun
  BY <1>33 DEF SweepRun, TransitionRun, CancelInv, RUN_TRANSITIONS, RunStatus
<1>34. CASE SweepFail
  BY <1>34 DEF SweepFail, storeVars
<1>35. CASE Shutdown
  BY <1>35 DEF Shutdown, storeVars
<1>36. CASE Crash
  BY <1>36 DEF Crash, storeVars, Off
<1>37. CASE Halt
  BY <1>37 DEF Halt, storeVars, Off
<1> QED
  BY <1>0, <1>1, <1>2, <1>3, <1>4, <1>5, <1>6, <1>7, <1>8, <1>9, <1>10, <1>11, <1>12, <1>13,
      <1>14, <1>15, <1>16, <1>17, <1>18, <1>19, <1>20, <1>21, <1>22, <1>23, <1>24, <1>25, <1>26,
      <1>27, <1>28, <1>29, <1>30, <1>31, <1>32, <1>33, <1>34, <1>35, <1>36, <1>37, Stepped

(* PlanRespected: unless the host died, or a write failed, while the Run   *)
(* was created, no task is attempted before all it depends on have passed, *)
(* and a completed Run has every task of the plan.                         *)
THEOREM PlansAreRespected == Spec => []PlanRespected
<1>1. Init => PlanInv
  BY DEF Init, StoreInit, PlanInv, PlanRespected, Attempted
<1>2. Base /\ PlanInv /\ [Next]_vars => PlanInv'
  BY StepPlan
<1>3. PlanInv => PlanRespected
  BY DEF PlanInv
<1> QED
  BY <1>1, <1>2, <1>3, BaseHolds, PTL DEF Spec


-----------------------------------------------------------------------------
(* The run was cancelled by its owner, or the host stopped while it worked. *)
Asked == intent \/ "stop" \in torn

(* What a run can fail for: a task is cancelled only when that was asked   *)
(* for, failed only when it is spent, and blocked only inside a retry or a *)
(* pause, or where the run waits; or a retry or a pause was broken off.    *)
CauseInv ==
  /\ FailedForCause
  /\ killed \/ result = "cancelled" => Asked
  /\ \A t \in Task :
       task[t] = "cancelled" \/ (Attempted(t) /\ Latest(t) = "cancelled") => Asked
  /\ \A t \in Task :
       task[t] = "failed" => Spent(t) \/ "retry" \in torn \/ (pc = "retry" /\ cur = t)
  /\ \A t \in Task :
       task[t] = "blocked" =>
         \/ torn \cap {"retry", "gate"} # {}
         \/ pc \in {"retry", "gate"} /\ cur = t
         \/ run \in {"paused", "cancelled"}

(* Whether a task is spent depends on its own rows only. *)
LEMMA SpentSame ==
  ASSUME NEW t \in Task,
         task'[t] = task[t], attempt'[t] = attempt[t], evidence'[t] = evidence[t]
  PROVE  (Spent(t)' <=> Spent(t)) /\ (Attempted(t)' <=> Attempted(t)) /\ Latest(t)' = Latest(t)
BY DEF Spent, Attempted, Latest, RetryAllowed, Cause

LEMMA StepCause ==
  ASSUME Base, CauseInv, [Next]_vars
  PROVE  CauseInv'
<1> USE DEF Base, TypeOK, StoreTypeOK, InHand, InStage, CancelInv, WorkInv, ExecutesOnlyRunning,
    CauseInv, Asked, FailedForCause, Goto, Drives, hostVars
<1>0. CASE UNCHANGED vars
  BY <1>0, SpentSame DEF vars
<1>1. CASE Start
  BY <1>1, SpentSame DEF Start, storeVars
<1>2. CASE Recover
  <2>1. PICK t \in Task : TransitionAttempt(t, "interrupted")
    BY <1>2, FirstStale DEF Recover
  <2>2. /\ task' = task /\ evidence' = evidence /\ intent' = intent
        /\ UNCHANGED <<run, pc, cur, result, killed, torn>>
    BY <1>2, <2>1 DEF Recover, TransitionAttempt
  <2>3. /\ attempt[t] # <<>> /\ Latest(t) = "running" /\ Latest(t)' = "interrupted"
        /\ \A u \in Task \ {t} : attempt'[u] = attempt[u]
    <3> HIDE DEF Base, TypeOK, StoreTypeOK, InHand, InStage, WorkInv, CauseInv
    <3>1. StoreTypeOK /\ "interrupted" \in AttemptStatus \ {"running"}
      BY DEF Base, TypeOK, AttemptStatus
    <3> QED
      BY <2>1, <3>1, AttemptEnds
  <2>4. \A u \in Task \ {t} :
          (Spent(u)' <=> Spent(u)) /\ (Attempted(u)' <=> Attempted(u)) /\ Latest(u)' = Latest(u)
    BY <2>2, <2>3, SpentSame
  <2>5. ~Spent(t)
    BY <2>3 DEF Spent
  <2>6. task[t] = "failed" => "retry" \in torn \/ (pc = "retry" /\ cur = t)
    BY <2>1, <2>5
  <2>8. run # "failed" \/ (\E u \in Task \ {t} : Spent(u)) \/ torn \cap {"retry", "gate",
      "stop"} # {}
    BY <2>5
  <2> QED
    BY <2>2, <2>3, <2>4, <2>6, <2>8
<1>3. CASE Resume
  BY <1>3, SpentSame DEF Resume, storeVars
<1>4. CASE ApproveRun
  BY <1>4, SpentSame DEF ApproveRun, CreateRun
<1>5. CASE ApproveTask
  <2>1. PICK t \in Task : task[t] = "absent" /\ task' = [task EXCEPT ![t] = "pending"]
    <3>1. Task \ Created # {} /\ Task \ Created \in SUBSET Task
      BY <1>5 DEF ApproveTask, Created
    <3>2. First(Task \ Created) \in Task
      BY <3>1, FirstIn
    <3> QED
      BY <1>5, <3>2 DEF ApproveTask, CreateTask
  <2>2. /\ pc = "approve" /\ pc' = "approve" /\ run = "pending"
        /\ attempt' = attempt /\ evidence' = evidence
        /\ UNCHANGED <<run, intent, torn, killed, result, cur>>
    BY <1>5 DEF ApproveTask, CreateTask
  <2>3. \A u \in Task \ {t} : (Spent(u)' <=> Spent(u))
    BY <2>1, <2>2, SpentSame
  <2>4. \A u \in Task : (Attempted(u)' <=> Attempted(u)) /\ Latest(u)' = Latest(u)
    BY <2>2 DEF Attempted, Latest
  <2> QED
    BY <2>1, <2>2, <2>3, <2>4
<1>6. CASE ApproveDependency
  BY <1>6, SpentSame DEF ApproveDependency, AddDependency
<1>7. CASE ApproveFail
  BY <1>7, SpentSame DEF ApproveFail, TransitionRun, storeVars
<1>8. CASE ApproveDone
  BY <1>8, SpentSame DEF ApproveDone, storeVars
<1>9. CASE Reapprove
  BY <1>9, SpentSame DEF Reapprove, storeVars
<1>10. CASE CompleteRequest
  BY <1>10, SpentSame DEF CompleteRequest, storeVars
<1>11. CASE Wake
  BY <1>11, SpentSame DEF Wake, storeVars
<1>12. CASE Reconcile
  BY <1>12, SpentSame DEF Reconcile, storeVars, Choosing, Running
<1>13. CASE NoReadyTask
  BY <1>13, SpentSame DEF NoReadyTask, storeVars, Choosing
<1>14. CASE StartRun
  BY <1>14, SpentSame DEF StartRun, TransitionRun, Choosing
<1>15. CASE Launch
  <2>1. PICK t \in Task : task[t] = "pending" /\ CreateAttempt(t, host) /\ host \in Nat
    BY <1>15, FirstReady DEF Launch, Ready
  <2>2. /\ task' = [task EXCEPT ![t] = "running"] /\ evidence' = [evidence EXCEPT ![t] = {}]
        /\ run = "running" /\ pc = "recover" /\ pc' = "loop"
        /\ UNCHANGED <<run, intent, torn, killed, result>>
    BY <1>15, <2>1 DEF Launch, Choosing, CreateAttempt
  <2>3. Latest(t)' = "running" /\ \A u \in Task \ {t} : attempt'[u] = attempt[u]
    <3> HIDE DEF Base, TypeOK, StoreTypeOK, InHand, InStage, WorkInv, CauseInv
    <3>1. StoreTypeOK
      BY DEF Base, TypeOK
    <3> QED
      BY <2>1, <3>1, AttemptBegins
  <2>4. \A u \in Task \ {t} :
          (Spent(u)' <=> Spent(u)) /\ (Attempted(u)' <=> Attempted(u)) /\ Latest(u)' = Latest(u)
    BY <2>2, <2>3, SpentSame
  <2> QED
    BY <2>2, <2>3, <2>4
<1>16. CASE ExecReport
  <2>1. /\ cur \in Task /\ task[cur] = "running" /\ run = "running" /\ pc = "loop"
        /\ task' = task /\ attempt' = attempt /\ \A u \in Task \ {cur} : evidence'[u] =
            evidence[u]
        /\ UNCHANGED <<run, intent, torn, killed, pc, cur>>
        /\ result' = "cancelled" => killed \/ result = "cancelled"
    BY <1>16 DEF ExecReport, Executing, AppendEvidence
  <2>2. \A u \in Task \ {cur} : Spent(u)' <=> Spent(u)
    BY <2>1, SpentSame
  <2>3. \A u \in Task : (Attempted(u)' <=> Attempted(u)) /\ Latest(u)' = Latest(u)
    BY <2>1 DEF Attempted, Latest
  <2> QED
    BY <2>1, <2>2, <2>3
<1>17. CASE ExecJudge
  <2>1. /\ cur \in Task /\ task[cur] = "running" /\ run = "running" /\ pc = "loop"
        /\ task' = task /\ attempt' = attempt /\ \A u \in Task \ {cur} : evidence'[u] =
            evidence[u]
        /\ UNCHANGED <<run, intent, torn, killed, pc, cur>>
        /\ result' = "cancelled" => killed \/ result = "cancelled"
    BY <1>17 DEF ExecJudge, Executing, AppendEvidence
  <2>2. \A u \in Task \ {cur} : Spent(u)' <=> Spent(u)
    BY <2>1, SpentSame
  <2>3. \A u \in Task : (Attempted(u)' <=> Attempted(u)) /\ Latest(u)' = Latest(u)
    BY <2>1 DEF Attempted, Latest
  <2> QED
    BY <2>1, <2>2, <2>3
<1>18. CASE ExecSettle
  <2>1. PICK s \in AttemptStatus \ {"running"} :
          TransitionAttempt(cur, s) /\ (s = "cancelled" => result = "cancelled")
    BY <1>18 DEF ExecSettle, TerminalStatus, AttemptStatus
  <2>2. /\ cur \in Task /\ cur' = cur /\ task' = task /\ evidence' = evidence /\ run = "running"
        /\ run' = run /\ torn' = torn /\ intent' = intent /\ killed' = killed
        /\ pc = "loop" /\ pc' = "decide" /\ result' = "none" /\ task[cur] = "running"
    BY <1>18 DEF ExecSettle, Executing, ToDecide, TransitionAttempt
  <2>3. Latest(cur)' = s /\ \A u \in Task \ {cur} : attempt'[u] = attempt[u]
    <3> HIDE DEF Base, TypeOK, StoreTypeOK, InHand, InStage, WorkInv, CauseInv
    <3>1. StoreTypeOK
      BY DEF Base, TypeOK
    <3> QED
      BY <2>1, <2>2, <3>1, AttemptEnds
  <2>4. \A u \in Task \ {cur} :
          (Spent(u)' <=> Spent(u)) /\ (Attempted(u)' <=> Attempted(u)) /\ Latest(u)' = Latest(u)
    BY <2>2, <2>3, SpentSame
  <2> QED
    BY <2>1, <2>2, <2>3, <2>4
<1>19. CASE ExecFail
  <2>1. PICK s \in AttemptStatus \ {"running"} :
          TransitionAttempt(cur, s) /\ (s = "cancelled" => result = "cancelled")
    BY <1>19 DEF ExecFail, TerminalStatus, AttemptStatus
  <2>2. /\ cur \in Task /\ cur' = cur /\ task' = task /\ evidence' = evidence /\ run = "running"
        /\ run' = run /\ torn' = torn /\ intent' = intent /\ killed' = killed
        /\ pc = "loop" /\ pc' = "decide" /\ result' = "none" /\ task[cur] = "running"
    BY <1>19 DEF ExecFail, Executing, ToDecide, TransitionAttempt
  <2>3. Latest(cur)' = s /\ \A u \in Task \ {cur} : attempt'[u] = attempt[u]
    <3> HIDE DEF Base, TypeOK, StoreTypeOK, InHand, InStage, WorkInv, CauseInv
    <3>1. StoreTypeOK
      BY DEF Base, TypeOK
    <3> QED
      BY <2>1, <2>2, <3>1, AttemptEnds
  <2>4. \A u \in Task \ {cur} :
          (Spent(u)' <=> Spent(u)) /\ (Attempted(u)' <=> Attempted(u)) /\ Latest(u)' = Latest(u)
    BY <2>2, <2>3, SpentSame
  <2> QED
    BY <2>1, <2>2, <2>3, <2>4
<1>20. CASE ExecStrand
  BY <1>20, SpentSame DEF ExecStrand, storeVars, Executing
<1>21. CASE MarkTask
  <2> DEFINE Marks(t) ==
        /\ pc = "decide" /\ pc' = "evaluate" /\ run \in {"pending", "running"}
        /\ UNCHANGED <<run, intent, torn, result, attempt, evidence>> /\ ~killed'
        /\ \A u \in Task \ {t} : task'[u] = task[u]
        /\ \/ task'[t] = "passed"
           \/ task'[t] = "cancelled" /\ Attempted(t) /\ Latest(t) = "cancelled"
           \/ /\ task'[t] = "failed" /\ Attempted(t)
              /\ Latest(t) \in {"failed", "interrupted"} /\ ~RetryAllowed(t)
  <2>1. PICK t \in Task : Marks(t)
    <3>1. /\ cur \in Task /\ Attempted(cur) /\ pc = "decide" /\ pc' = "evaluate"
          /\ run \in {"pending", "running"} /\ task \in [Task -> TaskStatus \cup {"absent"}]
      BY <1>21 DEF MarkTask, Deciding
    <3> HIDE DEF Base, TypeOK, StoreTypeOK, InHand, InStage, CancelInv, WorkInv, CauseInv
    <3>2. Marks(cur)
      BY <1>21, <3>1 DEF MarkTask, TransitionTask, Deciding, LeaveTask
    <3> QED
      BY <3>1, <3>2
  <2>2. \A u \in Task \ {t} :
          (Spent(u)' <=> Spent(u)) /\ (Attempted(u)' <=> Attempted(u)) /\ Latest(u)' = Latest(u)
    BY <2>1, SpentSame
  <2>3. Attempted(t)' = Attempted(t) /\ Latest(t)' = Latest(t) /\ RetryAllowed(t)' =
      RetryAllowed(t)
    BY <2>1 DEF Attempted, Latest, RetryAllowed, Cause
  <2>4. task'[t] = "failed" => Spent(t)'
    BY <2>1, <2>3 DEF Spent
  <2> QED
    BY <2>1, <2>2, <2>3, <2>4
<1>22. CASE ScheduleRetry
  <2>1. PICK t \in Task : t = cur /\ task[t] = "running" /\ task' = [task EXCEPT ![t] =
      "failed"]
    BY <1>22 DEF ScheduleRetry, TransitionTask, Deciding, TASK_TRANSITIONS, TaskStatus
  <2>2. /\ attempt' = attempt /\ evidence' = evidence
        /\ run' = run /\ intent' = intent /\ torn' = torn /\ (killed' => killed) /\ result' =
            result
        /\ pc = "decide" /\ pc' = "retry" /\ cur' = cur /\ run \in {"pending", "running"}
    BY <1>22 DEF ScheduleRetry, TransitionTask, Deciding
  <2>3. \A u \in Task \ {t} : Spent(u)' <=> Spent(u)
    BY <2>1, <2>2, SpentSame
  <2>4. \A u \in Task : (Attempted(u)' <=> Attempted(u)) /\ Latest(u)' = Latest(u)
    BY <2>2 DEF Attempted, Latest
  <2> QED
    BY <2>1, <2>2, <2>3, <2>4
<1>23. CASE RetryBlocked
  <2>1. PICK t \in Task : t = cur /\ task[t] = "failed" /\ task' = [task EXCEPT ![t] =
      "blocked"]
    BY <1>23 DEF RetryBlocked, TransitionTask, TASK_TRANSITIONS, TaskStatus
  <2>2. /\ attempt' = attempt /\ evidence' = evidence
        /\ run' = run /\ intent' = intent /\ torn' = torn /\ (killed' => killed) /\ result' =
            result
        /\ pc = "retry" /\ pc' = "retry" /\ cur' = cur /\ run \in {"pending", "running"}
    BY <1>23 DEF RetryBlocked, TransitionTask
  <2>3. \A u \in Task \ {t} : Spent(u)' <=> Spent(u)
    BY <2>1, <2>2, SpentSame
  <2>4. \A u \in Task : (Attempted(u)' <=> Attempted(u)) /\ Latest(u)' = Latest(u)
    BY <2>2 DEF Attempted, Latest
  <2> QED
    BY <2>1, <2>2, <2>3, <2>4
<1>24. CASE RetryPending
  <2>1. PICK t \in Task : t = cur /\ task[t] = "blocked" /\ task' = [task EXCEPT ![t] =
      "pending"]
    BY <1>24 DEF RetryPending, ToLoop, LeaveTask, TransitionTask, TASK_TRANSITIONS, TaskStatus
  <2>2. /\ attempt' = attempt /\ evidence' = evidence
        /\ run' = run /\ intent' = intent /\ torn' = torn /\ (killed' => killed) /\ result' =
            result
        /\ pc = "retry" /\ run \in {"pending", "running"}
    BY <1>24 DEF RetryPending, ToLoop, LeaveTask, TransitionTask
  <2>3. \A u \in Task \ {t} : Spent(u)' <=> Spent(u)
    BY <2>1, <2>2, SpentSame
  <2>4. \A u \in Task : (Attempted(u)' <=> Attempted(u)) /\ Latest(u)' = Latest(u)
    BY <2>2 DEF Attempted, Latest
  <2> QED
    BY <2>1, <2>2, <2>3, <2>4
<1>25. CASE PauseForGate
  <2>1. PICK t \in Task : t = cur /\ task[t] = "running" /\ task' = [task EXCEPT ![t] =
      "blocked"]
    BY <1>25 DEF PauseForGate, TransitionTask, Deciding, TASK_TRANSITIONS, TaskStatus
  <2>2. /\ attempt' = attempt /\ evidence' = evidence
        /\ run' = run /\ intent' = intent /\ torn' = torn /\ (killed' => killed) /\ result' =
            result
        /\ pc = "decide" /\ pc' = "gate" /\ cur' = cur /\ run \in {"pending", "running"}
    BY <1>25 DEF PauseForGate, TransitionTask, Deciding
  <2>3. \A u \in Task \ {t} : Spent(u)' <=> Spent(u)
    BY <2>1, <2>2, SpentSame
  <2>4. \A u \in Task : (Attempted(u)' <=> Attempted(u)) /\ Latest(u)' = Latest(u)
    BY <2>2 DEF Attempted, Latest
  <2> QED
    BY <2>1, <2>2, <2>3, <2>4
<1>26. CASE PauseRun
  BY <1>26, SpentSame DEF PauseRun, TransitionRun, ToLoop, LeaveTask, RUN_TRANSITIONS, RunStatus
<1>27. CASE EvaluateRun
  <2>1. \A u \in Task :
          (Spent(u)' <=> Spent(u)) /\ (Attempted(u)' <=> Attempted(u)) /\ Latest(u)' = Latest(u)
    BY <1>27, SpentSame DEF EvaluateRun, TransitionRun
  <2>2. run' = "failed" => (\E t \in Task : Spent(t)) \/ torn \cap {"retry", "gate", "stop"} #
      {}
    <3> SUFFICES ASSUME run' = "failed"
                 PROVE  (\E t \in Task : Spent(t)) \/ torn \cap {"retry", "gate", "stop"} # {}
      OBVIOUS
    <3>1. pc = "evaluate" /\ run \in {"pending", "running"} /\ run' = NextRunStatus
      BY <1>27 DEF EvaluateRun, TransitionRun
    <3>2. ~marked /\ \E t \in Created : task[t] \in {"cancelled", "failed", "blocked"}
      BY <3>1 DEF NextRunStatus
    <3>3. ~intent
      BY <3>1, <3>2
    <3> QED
      BY <3>1, <3>2, <3>3 DEF Created
  <2> QED
    BY <1>27, <2>1, <2>2 DEF EvaluateRun, TransitionRun
<1>28. CASE TickThrows
  BY <1>28, SpentSame DEF TickThrows, storeVars
<1>29. CASE Finally
  BY <1>29, SpentSame DEF Finally, storeVars, LeaveTask
<1>30. CASE ReportError
  BY <1>30, SpentSame DEF ReportError, storeVars
<1>31. CASE CancelRun
  BY <1>31, SpentSame DEF CancelRun, RecordRunCancelIntent
<1>32. CASE SweepTask
  <2>a. Unended # {} /\ Unended \in SUBSET Task
    BY <1>32 DEF SweepTask, Unended
  <2>0. First(Unended) \in Unended
    BY <2>a, FirstIn
  <2>1. PICK t \in Task : task[t] \in {"pending", "running", "blocked"} /\ task' = [task EXCEPT
      ![t] = "cancelled"]
    BY <1>32, <2>0 DEF SweepTask, Unended, TransitionTask, TASK_TRANSITIONS, TaskStatus
  <2>2. /\ attempt' = attempt /\ evidence' = evidence
        /\ run' = run /\ intent' = intent /\ torn' = torn /\ (killed' => killed) /\ result' =
            result
        /\ intent /\ pc = "sweep" /\ pc' = "sweep" /\ run # "failed"
    BY <1>32 DEF SweepTask, TransitionTask
  <2>3. \A u \in Task \ {t} : Spent(u)' <=> Spent(u)
    BY <2>1, <2>2, SpentSame
  <2>4. \A u \in Task : (Attempted(u)' <=> Attempted(u)) /\ Latest(u)' = Latest(u)
    BY <2>2 DEF Attempted, Latest
  <2> QED
    BY <2>1, <2>2, <2>3, <2>4
<1>33. CASE SweepRun
  BY <1>33, SpentSame DEF SweepRun, TransitionRun, RUN_TRANSITIONS, RunStatus
<1>34. CASE SweepFail
  BY <1>34, SpentSame DEF SweepFail, storeVars
<1>35. CASE Shutdown
  BY <1>35, SpentSame DEF Shutdown, storeVars
<1>36. CASE Crash
  BY <1>36, SpentSame DEF Crash, storeVars, Off
<1>37. CASE Halt
  BY <1>37, SpentSame DEF Halt, storeVars, Off
<1> QED
  BY <1>0, <1>1, <1>2, <1>3, <1>4, <1>5, <1>6, <1>7, <1>8, <1>9, <1>10, <1>11, <1>12, <1>13,
      <1>14, <1>15, <1>16, <1>17, <1>18, <1>19, <1>20, <1>21, <1>22, <1>23, <1>24, <1>25, <1>26,
      <1>27, <1>28, <1>29, <1>30, <1>31, <1>32, <1>33, <1>34, <1>35, <1>36, <1>37, Stepped

(* FailedForCause: a Run fails only for a task whose budget is spent or    *)
(* that may not be retried; or the host died, or a write failed, inside a  *)
(* retry or a pause; or the host was stopped while an execution ran.       *)
THEOREM FailuresHaveCause == Spec => []FailedForCause
<1>1. Init => CauseInv
  BY DEF Init, StoreInit, CauseInv, FailedForCause, Attempted
<1>2. Base /\ CauseInv /\ [Next]_vars => CauseInv'
  BY StepCause
<1>3. CauseInv => FailedForCause
  BY DEF CauseInv
<1> QED
  BY <1>1, <1>2, <1>3, BaseHolds, PTL DEF Spec


-----------------------------------------------------------------------------
(* The Run is a RunLifecycle.  A cancellation is accepted of an existing   *)
(* Run only; what was attempted was so in a Run that had begun; the run is *)
(* paused for the blocked task in hand, and judged when it has tasks.      *)
LifeInv ==
  /\ intent => run # "absent"
  /\ \A t \in Task : Attempted(t) => run \notin {"absent", "pending"}
  /\ pc = "gate" => task[cur] = "blocked"
  /\ pc = "evaluate" /\ ~marked => Created # {}

LEMMA StepLife ==
  ASSUME Base, LifeInv, [Next]_vars
  PROVE  LifeInv'
<1> USE DEF Base, TypeOK, StoreTypeOK, InHand, InStage, WorkInv, ExecutesOnlyRunning, LifeInv,
    Attempted, Created, Goto, Drives, hostVars
<1>0. CASE UNCHANGED vars
  BY <1>0 DEF vars
<1>1. CASE Start
  BY <1>1 DEF Start, storeVars
<1>2. CASE Recover
  <2>1. PICK t \in Task, s \in AttemptStatus \ {"running"} : TransitionAttempt(t, s)
    BY <1>2, FirstStale DEF Recover, AttemptStatus
  <2> QED
    BY <1>2, <2>1, AttemptEnds DEF Recover, TransitionAttempt
<1>3. CASE Resume
  BY <1>3 DEF Resume, storeVars
<1>4. CASE ApproveRun
  BY <1>4 DEF ApproveRun, CreateRun
<1>5. CASE ApproveTask
  BY <1>5 DEF ApproveTask, CreateTask
<1>6. CASE ApproveDependency
  BY <1>6 DEF ApproveDependency, AddDependency
<1>7. CASE ApproveFail
  BY <1>7 DEF ApproveFail, TransitionRun, storeVars, RUN_TRANSITIONS, RunStatus
<1>8. CASE ApproveDone
  BY <1>8 DEF ApproveDone, storeVars
<1>9. CASE Reapprove
  BY <1>9 DEF Reapprove, storeVars
<1>10. CASE CompleteRequest
  BY <1>10 DEF CompleteRequest, storeVars
<1>11. CASE Wake
  BY <1>11 DEF Wake, storeVars, CancelInv
<1>12. CASE Reconcile
  BY <1>12 DEF Reconcile, storeVars, Choosing, Running
<1>13. CASE NoReadyTask
  BY <1>13 DEF NoReadyTask, storeVars, Choosing
<1>14. CASE StartRun
  BY <1>14 DEF StartRun, TransitionRun, Choosing, RUN_TRANSITIONS, RunStatus
<1>15. CASE Launch
  <2>1. /\ run = "running" /\ run' = run /\ intent' = intent /\ pc' = "loop"
        /\ First(Ready) \in Task /\ task' = [task EXCEPT ![First(Ready)] = "running"]
    BY <1>15, FirstReady DEF Launch, Choosing, CreateAttempt
  <2> QED
    BY <2>1
<1>16. CASE ExecReport
  BY <1>16 DEF ExecReport, AppendEvidence, Executing
<1>17. CASE ExecJudge
  BY <1>17 DEF ExecJudge, AppendEvidence, Executing
<1>18. CASE ExecSettle
  <2>1. PICK s \in AttemptStatus \ {"running"} : TransitionAttempt(cur, s) /\ cur \in Task
    BY <1>18 DEF ExecSettle, Executing, AttemptStatus, TerminalStatus
  <2> QED
    BY <1>18, <2>1, AttemptEnds DEF ExecSettle, TransitionAttempt, ToDecide, Executing
<1>19. CASE ExecFail
  <2>1. PICK s \in AttemptStatus \ {"running"} : TransitionAttempt(cur, s) /\ cur \in Task
    BY <1>19 DEF ExecFail, Executing, AttemptStatus, TerminalStatus
  <2> QED
    BY <1>19, <2>1, AttemptEnds DEF ExecFail, TransitionAttempt, ToDecide, Executing
<1>20. CASE ExecStrand
  BY <1>20 DEF ExecStrand, storeVars, Executing
<1>21. CASE MarkTask
  BY <1>21 DEF MarkTask, TransitionTask, Deciding, LeaveTask, TASK_TRANSITIONS, TaskStatus
<1>22. CASE ScheduleRetry
  BY <1>22 DEF ScheduleRetry, TransitionTask, Deciding, TASK_TRANSITIONS, TaskStatus
<1>23. CASE RetryBlocked
  BY <1>23 DEF RetryBlocked, TransitionTask, TASK_TRANSITIONS, TaskStatus
<1>24. CASE RetryPending
  BY <1>24 DEF RetryPending, TransitionTask, ToLoop, LeaveTask, TASK_TRANSITIONS, TaskStatus
<1>25. CASE PauseForGate
  BY <1>25 DEF PauseForGate, TransitionTask, Deciding, TASK_TRANSITIONS, TaskStatus
<1>26. CASE PauseRun
  BY <1>26 DEF PauseRun, TransitionRun, ToLoop, LeaveTask, RUN_TRANSITIONS, RunStatus
<1>27. CASE EvaluateRun
  BY <1>27 DEF EvaluateRun, TransitionRun, NextRunStatus, RUN_TRANSITIONS, RunStatus
<1>28. CASE TickThrows
  BY <1>28 DEF TickThrows, storeVars
<1>29. CASE Finally
  BY <1>29 DEF Finally, storeVars, LeaveTask
<1>30. CASE ReportError
  BY <1>30 DEF ReportError, storeVars
<1>31. CASE CancelRun
  BY <1>31 DEF CancelRun, RecordRunCancelIntent, Active
<1>32. CASE SweepTask
  BY <1>32 DEF SweepTask, TransitionTask, CancelInv, TASK_TRANSITIONS, TaskStatus
<1>33. CASE SweepRun
  BY <1>33 DEF SweepRun, TransitionRun, CancelInv, RUN_TRANSITIONS, RunStatus
<1>34. CASE SweepFail
  BY <1>34 DEF SweepFail, storeVars
<1>35. CASE Shutdown
  BY <1>35 DEF Shutdown, storeVars
<1>36. CASE Crash
  BY <1>36 DEF Crash, storeVars, Off
<1>37. CASE Halt
  BY <1>37 DEF Halt, storeVars, Off
<1> QED
  BY <1>0, <1>1, <1>2, <1>3, <1>4, <1>5, <1>6, <1>7, <1>8, <1>9, <1>10, <1>11, <1>12, <1>13,
      <1>14, <1>15, <1>16, <1>17, <1>18, <1>19, <1>20, <1>21, <1>22, <1>23, <1>24, <1>25, <1>26,
      <1>27, <1>28, <1>29, <1>30, <1>31, <1>32, <1>33, <1>34, <1>35, <1>36, <1>37, Stepped

(* Before the Run has begun nothing was tried. *)
LEMMA PendingUntried == ASSUME LifeInv, run = "pending" PROVE Lifecycle!Untried
<1>1. \A t \in Task : attempt[t] = <<>>
  BY DEF LifeInv, Attempted
<1>2. Len(<<>>) = 0
  OBVIOUS
<1>3. \A t \in Task : Tries[t] = 0
  BY <1>1, <1>2 DEF Tries
<1> QED
  BY <1>3 DEF Lifecycle!Untried

(* A step that leaves the rows of tasks and attempts alone shows nothing of them. *)
LEMMA RowsSame ==
  ASSUME UNCHANGED <<task, edge, attempt, intent>>
  PROVE  UNCHANGED <<Created, edge, Tries, Passed, intent>>
BY DEF Created, Tries, Passed

(* A step does not show when the Run's status, dependencies and intent, the *)
(* tasks that exist and have passed, and the number of attempts stay.       *)
LEMMA Silent ==
  ASSUME UNCHANGED <<run, edge, intent>>,
         \A t \in Task : /\ (task'[t] = "absent" <=> task[t] = "absent")
                         /\ (task'[t] = "passed" <=> task[t] = "passed")
                         /\ Len(attempt'[t]) = Len(attempt[t])
  PROVE  UNCHANGED Lifecycle!lifecycle
<1>1. Created' = Created /\ Passed' = Passed
  <2>1. \A t : (t \in Created' <=> t \in Created) /\ (t \in Passed' <=> t \in Passed)
    BY DEF Created, Passed
  <2> QED
    BY <2>1
<1>2. Tries' = Tries
  <2>1. Tries' = [t \in Task |-> Len(attempt'[t])]
    BY DEF Tries
  <2> QED
    BY <2>1 DEF Tries
<1> QED
  BY <1>1, <1>2 DEF Lifecycle!lifecycle

LEMMA LifecycleStep ==
  ASSUME Base, LifeInv, [Next]_vars
  PROVE  Lifecycle!Next \/ UNCHANGED Lifecycle!lifecycle
<1> USE DEF Goto, Drives, hostVars
<1>0. CASE UNCHANGED vars
  BY <1>0, Silent DEF vars
<1>1. CASE Start
  BY <1>1, Silent DEF Start, storeVars
<1>2. CASE Recover
  <2>1. PICK t \in Task, s \in AttemptStatus \ {"running"} : TransitionAttempt(t, s)
    BY <1>2, FirstStale DEF Recover, AttemptStatus
  <2>2. /\ UNCHANGED <<run, task, edge, intent>>
        /\ \A u \in Task : Len(attempt'[u]) = Len(attempt[u])
    BY <2>1, AttemptEnds DEF Base, TypeOK, TransitionAttempt
  <2> QED
    BY <2>2, Silent
<1>3. CASE Resume
  BY <1>3, Silent DEF Resume, storeVars
<1>4. CASE ApproveRun
  <2>1. run = "absent" /\ run' = "pending" /\ UNCHANGED <<task, edge, attempt, intent>>
    BY <1>4 DEF ApproveRun, CreateRun
  <2>2. UNCHANGED <<Created, edge, Tries, Passed, intent>>
    BY <2>1, RowsSame
  <2> QED
    BY <2>1, <2>2 DEF Lifecycle!Approve, Lifecycle!Becomes, Lifecycle!Next
<1>5. CASE ApproveTask
  <2>1. PICK t \in Task : task[t] = "absent" /\ task' = [task EXCEPT ![t] = "pending"]
    <3>1. Task \ Created # {} /\ Task \ Created \in SUBSET Task
      BY <1>5 DEF ApproveTask, Created
    <3>2. First(Task \ Created) \in Task
      BY <3>1, FirstIn
    <3> QED
      BY <1>5, <3>2 DEF ApproveTask, CreateTask
  <2>2. run = "pending" /\ UNCHANGED <<run, edge, intent, attempt>>
    BY <1>5 DEF ApproveTask, CreateTask, Base, InStage
  <2>3. Created' = Created \cup {t} /\ t \in Task \ Created /\ Passed' = Passed /\ Tries' =
      Tries
    BY <2>1, <2>2 DEF Created, Passed, Tries, Base, TypeOK, StoreTypeOK
  <2> QED
    BY <2>2, <2>3, PendingUntried DEF Lifecycle!Plan, Lifecycle!Next
<1>6. CASE ApproveDependency
  <2>1. PICK d \in Task : Missing # {} /\ AddDependency(First(Missing), d)
    BY <1>6 DEF ApproveDependency
  <2>2. First(Missing) \in Created /\ d \in Created
    BY <1>6, <2>1, FirstMissing DEF ApproveDependency
  <2>3. edge' = edge \cup {<<First(Missing), d>>} /\ UNCHANGED <<run, task, intent, attempt>>
    BY <2>1 DEF AddDependency
  <2>4. run = "pending" /\ Created' = Created /\ Passed' = Passed /\ Tries' = Tries
    BY <1>6, <2>3 DEF ApproveDependency, Created, Passed, Tries, Base, InStage
  <2> QED
    BY <2>2, <2>3, <2>4, PendingUntried DEF Lifecycle!Plan, Lifecycle!Next
<1>7. CASE ApproveFail
  <2>1. /\ run = "pending" /\ run' \in {run, "cancelled"}
        /\ UNCHANGED <<task, edge, attempt, intent>>
    BY <1>7 DEF ApproveFail, TransitionRun, storeVars, Base, InStage
  <2>2. UNCHANGED <<Created, edge, Tries, Passed, intent>>
    BY <2>1, RowsSame
  <2> QED
    BY <2>1, <2>2, PendingUntried
    DEF Lifecycle!Cancel, Lifecycle!Becomes, Lifecycle!Next, Lifecycle!lifecycle
<1>8. CASE ApproveDone
  BY <1>8, Silent DEF ApproveDone, storeVars
<1>9. CASE Reapprove
  BY <1>9, Silent DEF Reapprove, storeVars
<1>10. CASE CompleteRequest
  BY <1>10, Silent DEF CompleteRequest, storeVars
<1>11. CASE Wake
  BY <1>11, Silent DEF Wake, storeVars
<1>12. CASE Reconcile
  BY <1>12, Silent DEF Reconcile, storeVars, Choosing, Running
<1>13. CASE NoReadyTask
  BY <1>13, Silent DEF NoReadyTask, storeVars, Choosing
<1>14. CASE StartRun
  <2>1. run = "pending" /\ run' = "running" /\ ~intent /\ UNCHANGED <<task, edge, attempt,
      intent>>
    BY <1>14 DEF StartRun, TransitionRun, Choosing, Base, CancelInv
  <2>2. UNCHANGED <<Created, edge, Tries, Passed, intent>>
    BY <2>1, RowsSame
  <2> QED
    BY <2>1, <2>2 DEF Lifecycle!Begin, Lifecycle!Becomes, Lifecycle!Next
<1>15. CASE Launch
  <2>1. PICK t \in Ready : t \in Task /\ CreateAttempt(t, host) /\ host \in Nat
    BY <1>15, FirstReady DEF Launch, Base, TypeOK
  <2>2. /\ run = "running" /\ ~intent /\ UNCHANGED <<run, edge, intent>>
    BY <1>15, <2>1 DEF Launch, Choosing, CreateAttempt, Base, CancelInv
  <2>3. /\ task[t] = "pending" /\ task' = [task EXCEPT ![t] = "running"]
        /\ \A d \in Task : <<t, d>> \in edge => d \in Passed
    BY <2>1 DEF Ready, CreateAttempt, Passed
  <2>4. Created' = Created /\ Passed' = Passed /\ t \in Created \ Passed
    BY <2>1, <2>3 DEF Created, Passed, Base, TypeOK, StoreTypeOK
  <2>5. Tries' = [Tries EXCEPT ![t] = Tries[t] + 1]
    <3>1. /\ \A u \in Task \ {t} : attempt'[u] = attempt[u]
          /\ Len(attempt'[t]) = Len(attempt[t]) + 1
      BY <2>1, AttemptBegins DEF Base, TypeOK
    <3>2. \A u \in Task : Tries'[u] = IF u = t THEN Tries[t] + 1 ELSE Tries[u]
      BY <2>1, <3>1 DEF Tries
    <3>3. Tries' = [u \in Task |-> Tries'[u]] /\ Tries = [u \in Task |-> Tries[u]]
      BY DEF Tries
    <3> QED
      BY <2>1, <3>2, <3>3
  <2>6. Tries[t] < MaxAttempts[t]
    <3>1. attempt[t] = <<>> \/ MayFollow(t)
      BY <2>1, <2>3 DEF Base, RetryInv
    <3>2. attempt[t] = <<>> => Len(attempt[t]) = 0
      OBVIOUS
    <3>3. MaxAttempts[t] \in Nat \ {0}
      BY <2>1, MaxAttemptsAssumption
    <3> QED
      BY <2>1, <3>1, <3>2, <3>3 DEF Tries, MayFollow
  <2> QED
    <3>1. Lifecycle!Try(t)
      BY <2>2, <2>3, <2>4, <2>5, <2>6 DEF Lifecycle!Try
    <3> QED
      BY <2>1, <3>1 DEF Lifecycle!Next
<1>16. CASE ExecReport
  BY <1>16, Silent DEF ExecReport, AppendEvidence, Executing
<1>17. CASE ExecJudge
  BY <1>17, Silent DEF ExecJudge, AppendEvidence, Executing
<1>18. CASE ExecSettle
  <2>1. PICK s \in AttemptStatus \ {"running"} : TransitionAttempt(cur, s) /\ cur \in Task
    BY <1>18 DEF ExecSettle, Executing, AttemptStatus, TerminalStatus, Base, InHand
  <2>2. /\ UNCHANGED <<run, task, edge, intent>>
        /\ \A u \in Task : Len(attempt'[u]) = Len(attempt[u])
    BY <2>1, AttemptEnds DEF Base, TypeOK, TransitionAttempt
  <2> QED
    BY <2>2, Silent
<1>19. CASE ExecFail
  <2>1. PICK s \in AttemptStatus \ {"running"} : TransitionAttempt(cur, s) /\ cur \in Task
    BY <1>19 DEF ExecFail, Executing, AttemptStatus, TerminalStatus, Base, InHand
  <2>2. /\ UNCHANGED <<run, task, edge, intent>>
        /\ \A u \in Task : Len(attempt'[u]) = Len(attempt[u])
    BY <2>1, AttemptEnds DEF Base, TypeOK, TransitionAttempt
  <2> QED
    BY <2>2, Silent
<1>20. CASE ExecStrand
  BY <1>20, Silent DEF ExecStrand, storeVars, Executing
<1>21. CASE MarkTask
  <2>1. /\ cur \in Task /\ task[cur] = "running" /\ Attempted(cur)
        /\ UNCHANGED <<run, edge, intent, attempt>>
    BY <1>21 DEF MarkTask, Deciding, TransitionTask, Base, InStage
  <2>2. run = "running" /\ Tries[cur] > 0
    <3>1. Len(attempt[cur]) \in Nat /\ Len(attempt[cur]) # 0
      BY <2>1 DEF Attempted, Base, TypeOK, StoreTypeOK
    <3>2. run = "running"
      BY <2>1, <1>21 DEF MarkTask, Deciding, Base, InStage, LifeInv
    <3> QED
      BY <2>1, <3>1, <3>2 DEF Tries
  <2>3. CASE TransitionTask(cur, "passed")
    <3>1. task' = [task EXCEPT ![cur] = "passed"]
      BY <2>3 DEF TransitionTask
    <3>2. Created' = Created /\ Passed' = Passed \cup {cur} /\ Tries' = Tries
      BY <2>1, <3>1 DEF Created, Passed, Tries, Base, TypeOK, StoreTypeOK
    <3> QED
      BY <2>1, <2>2, <3>2 DEF Lifecycle!Pass, Lifecycle!Next
  <2>4. CASE TransitionTask(cur, "cancelled") \/ TransitionTask(cur, "failed")
    <3>1. \A u \in Task : /\ (task'[u] = "absent" <=> task[u] = "absent")
                          /\ (task'[u] = "passed" <=> task[u] = "passed")
      BY <2>1, <2>4 DEF TransitionTask, Base, TypeOK, StoreTypeOK
    <3> QED
      BY <2>1, <3>1, Silent
  <2> QED
    BY <1>21, <2>3, <2>4 DEF MarkTask
<1>22. CASE ScheduleRetry
  <2>1. /\ UNCHANGED <<run, edge, intent, attempt>>
        /\ \A u \in Task : /\ (task'[u] = "absent" <=> task[u] = "absent")
                           /\ (task'[u] = "passed" <=> task[u] = "passed")
    BY <1>22 DEF ScheduleRetry, Deciding, TransitionTask, Base, TypeOK, StoreTypeOK, InStage,
        TASK_TRANSITIONS, TaskStatus
  <2> QED
    BY <2>1, Silent
<1>23. CASE RetryBlocked
  <2>1. /\ UNCHANGED <<run, edge, intent, attempt>>
        /\ \A u \in Task : /\ (task'[u] = "absent" <=> task[u] = "absent")
                           /\ (task'[u] = "passed" <=> task[u] = "passed")
    BY <1>23 DEF RetryBlocked, RetryInv, TransitionTask, Base, TypeOK, StoreTypeOK, InStage,
        TASK_TRANSITIONS, TaskStatus
  <2> QED
    BY <2>1, Silent
<1>24. CASE RetryPending
  <2>1. /\ UNCHANGED <<run, edge, intent, attempt>>
        /\ \A u \in Task : /\ (task'[u] = "absent" <=> task[u] = "absent")
                           /\ (task'[u] = "passed" <=> task[u] = "passed")
    BY <1>24 DEF RetryPending, RetryInv, TransitionTask, Base, TypeOK, StoreTypeOK, InStage,
        TASK_TRANSITIONS, TaskStatus
  <2> QED
    BY <2>1, Silent
<1>25. CASE PauseForGate
  <2>1. /\ UNCHANGED <<run, edge, intent, attempt>>
        /\ \A u \in Task : /\ (task'[u] = "absent" <=> task[u] = "absent")
                           /\ (task'[u] = "passed" <=> task[u] = "passed")
    BY <1>25 DEF PauseForGate, Deciding, TransitionTask, Base, TypeOK, StoreTypeOK, InStage,
        TASK_TRANSITIONS, TaskStatus
  <2> QED
    BY <2>1, Silent
<1>26. CASE PauseRun
  <2>1. /\ run = "running" /\ run' = "paused" /\ UNCHANGED <<task, edge, attempt, intent>>
        /\ cur \in Task /\ Attempted(cur) /\ task[cur] = "blocked"
    BY <1>26 DEF PauseRun, TransitionRun, RUN_TRANSITIONS, RunStatus, Base, InStage, LifeInv
  <2>2. UNCHANGED <<Created, edge, Tries, Passed, intent>>
    BY <2>1, RowsSame
  <2>3. cur \in Created \ Passed
    BY <2>1 DEF Created, Passed
  <2>4. Tries[cur] > 0
    <3>1. Len(attempt[cur]) \in Nat /\ Len(attempt[cur]) # 0
      BY <2>1 DEF Attempted, Base, TypeOK, StoreTypeOK
    <3> QED
      BY <2>1, <3>1 DEF Tries
  <2> QED
    BY <2>1, <2>2, <2>3, <2>4 DEF Lifecycle!Pause, Lifecycle!Becomes, Lifecycle!Next
<1>27. CASE EvaluateRun
  <2>1. /\ run \in {"pending", "running"} /\ pc = "evaluate" /\ marked = intent
        /\ run' = NextRunStatus /\ (run' = run \/ run' \in RUN_TRANSITIONS[run])
        /\ UNCHANGED <<task, edge, attempt, intent>>
    BY <1>27 DEF EvaluateRun, TransitionRun, Base, InStage, CancelInv
  <2>2. UNCHANGED <<Created, edge, Tries, Passed, intent>>
    BY <2>1, RowsSame
  <2>3. CASE marked
    BY <2>1, <2>2, <2>3 DEF NextRunStatus, Lifecycle!Cancel, Lifecycle!Becomes, Lifecycle!Next
  <2>4. CASE ~marked /\ \A t \in Created : task[t] = "passed"
    <3>1. run' = "completed" /\ run = "running"
      BY <2>1, <2>4 DEF NextRunStatus, RUN_TRANSITIONS, RunStatus
    <3>2. Created # {} /\ Created = Passed
      BY <2>1, <2>4 DEF LifeInv, Created, Passed
    <3> QED
      BY <2>1, <2>2, <2>4, <3>1, <3>2 DEF Lifecycle!Complete, Lifecycle!Becomes, Lifecycle!Next
  <2>5. CASE /\ ~marked /\ ~(\A t \in Created : task[t] = "passed")
             /\ \E t \in Created : task[t] \in {"cancelled", "failed", "blocked"}
    <3>1. run' = "failed" /\ run = "running"
      BY <2>1, <2>5 DEF NextRunStatus, RUN_TRANSITIONS, RunStatus
    <3>2. Created # Passed
      BY <2>5 DEF Created, Passed
    <3> QED
      BY <2>1, <2>2, <2>5, <3>1, <3>2 DEF Lifecycle!Fail, Lifecycle!Becomes, Lifecycle!Next
  <2>6. CASE /\ ~marked /\ ~(\A t \in Created : task[t] = "passed")
             /\ ~ \E t \in Created : task[t] \in {"cancelled", "failed", "blocked"}
    <3>1. run' = "running"
      BY <2>1, <2>6 DEF NextRunStatus
    <3>2. CASE run = "running"
      BY <2>1, <2>2, <3>1, <3>2 DEF Lifecycle!lifecycle
    <3>3. CASE run = "pending"
      BY <2>1, <2>2, <2>6, <3>1, <3>3 DEF Lifecycle!Begin, Lifecycle!Becomes, Lifecycle!Next
    <3> QED
      BY <2>1, <3>2, <3>3
  <2> QED
    BY <2>3, <2>4, <2>5, <2>6
<1>28. CASE TickThrows
  BY <1>28, Silent DEF TickThrows, storeVars
<1>29. CASE Finally
  BY <1>29, Silent DEF Finally, storeVars, LeaveTask
<1>30. CASE ReportError
  BY <1>30, Silent DEF ReportError, storeVars
<1>31. CASE CancelRun
  <2>1. run \in {"pending", "running", "paused"} /\ intent' /\ UNCHANGED <<run, task, edge,
      attempt>>
    BY <1>31 DEF CancelRun, RecordRunCancelIntent, Active
  <2>2. UNCHANGED <<Created, Tries, Passed>>
    BY <2>1 DEF Created, Tries, Passed
  <2>3. intent' = TRUE
    BY <1>31 DEF CancelRun, RecordRunCancelIntent
  <2> QED
    BY <2>1, <2>2, <2>3 DEF Lifecycle!AskToCancel, Lifecycle!Next
<1>32. CASE SweepTask
  <2>0. First(Unended) \in Unended /\ First(Unended) \in Task
    <3>1. Unended # {} /\ Unended \in SUBSET Task
      BY <1>32 DEF SweepTask, Unended
    <3> QED
      BY <3>1, FirstIn
  <2>1. /\ UNCHANGED <<run, edge, intent, attempt>>
        /\ \A u \in Task : /\ (task'[u] = "absent" <=> task[u] = "absent")
                           /\ (task'[u] = "passed" <=> task[u] = "passed")
    BY <1>32, <2>0 DEF SweepTask, Unended, TransitionTask, Base, TypeOK, StoreTypeOK, InStage,
        TASK_TRANSITIONS, TaskStatus
  <2> QED
    BY <2>1, Silent
<1>33. CASE SweepRun
  <2>1. /\ intent /\ run # "absent" /\ UNCHANGED <<task, edge, attempt, intent>>
        /\ \/ run' = run
           \/ run' = "cancelled" /\ "cancelled" \in RUN_TRANSITIONS[run]
    BY <1>33 DEF SweepRun, TransitionRun, Base, CancelInv, LifeInv
  <2>2. run' # run => run \in {"pending", "running", "paused"}
    BY <2>1 DEF RUN_TRANSITIONS, RunStatus, Base, TypeOK, StoreTypeOK
  <2>3. UNCHANGED <<Created, edge, Tries, Passed, intent>>
    BY <2>1, RowsSame
  <2> QED
    BY <2>1, <2>2, <2>3
    DEF Lifecycle!Cancel, Lifecycle!Becomes, Lifecycle!Next, Lifecycle!lifecycle
<1>34. CASE SweepFail
  BY <1>34, Silent DEF SweepFail, storeVars
<1>35. CASE Shutdown
  BY <1>35, Silent DEF Shutdown, storeVars
<1>36. CASE Crash
  BY <1>36, Silent DEF Crash, storeVars, Off
<1>37. CASE Halt
  BY <1>37, Silent DEF Halt, storeVars, Off
<1> QED
  BY <1>0, <1>1, <1>2, <1>3, <1>4, <1>5, <1>6, <1>7, <1>8, <1>9, <1>10, <1>11, <1>12, <1>13,
      <1>14, <1>15, <1>16, <1>17, <1>18, <1>19, <1>20, <1>21, <1>22, <1>23, <1>24, <1>25, <1>26,
      <1>27, <1>28, <1>29, <1>30, <1>31, <1>32, <1>33, <1>34, <1>35, <1>36, <1>37, Stepped

(* ImplementsLifecycle: whatever hosts drive the Run, crash, are stopped   *)
(* or fail to write, and whenever it is cancelled, every transaction is a  *)
(* step of the lifecycle its owner was promised, or does not show in it.   *)
THEOREM LifecycleImplemented == Spec => ImplementsLifecycle
<1>1. Init => LifeInv
  BY DEF Init, StoreInit, LifeInv, Attempted
<1>2. Base /\ LifeInv /\ [Next]_vars => LifeInv'
  BY StepLife
<1>3. Init => Lifecycle!Init
  BY DEF Init, StoreInit, Created, Passed, Tries, Lifecycle!Init
<1>4. Base /\ LifeInv /\ [Next]_vars => [Lifecycle!Next]_(Lifecycle!lifecycle)
  BY LifecycleStep
<1> QED
  BY <1>1, <1>2, <1>3, <1>4, BaseHolds, PTL DEF Spec, ImplementsLifecycle, Lifecycle!Spec

(* Promise of the lifecycle, carried over the refinement: on every         *)
(* reachable state of the host, without an exception for crashes or torn   *)
(* writes, a task was attempted only after all its recorded dependencies   *)
(* had passed, a completed Run has passed whole, and a Run of which any    *)
(* attempt was made is cancelled only because its owner asked.             *)
THEOREM PromiseKeptByHost == Spec => []Lifecycle!Promise
<1>1. MaxAttempts \in [Task -> Nat]
  BY MaxAttemptsAssumption
<1>2. Lifecycle!Spec => []Lifecycle!Promise
  BY <1>1, Lifecycle!PromiseKept
<1> QED
  BY <1>2, LifecycleImplemented, PTL DEF ImplementsLifecycle
=============================================================================
