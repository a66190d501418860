------------------------- MODULE HostRuntime_proofs -------------------------
(***************************************************************************)
(* Proofs about HostRuntime, for any number of changes of the driven Run:  *)
(* types; what status says of the host; the lock outlives the work; the    *)
(* exit code of an uncaught exception; snapshots arrive in order.          *)
(***************************************************************************)
EXTENDS HostRuntime, TLAPS

USE VersionAssumption

(* Before the handlers are there nothing stops, before the lock is taken nothing is written. *)
Early ==
  /\ alive <=> pc # "gone"
  /\ pc \in {"boot", "beat", "ready"} => sd = "no" /\ ~armed /\ tick = "idle"
  /\ pc = "boot" => store = "none"
  /\ store = "none" =>
       /\ pc \in {"boot", "gone"} /\ sd = "no" /\ tick = "idle" /\ drive = "idle"
       /\ ~lock /\ file["target"] = "absent"
  /\ forced \/ raced => sd # "no"

(* How far the shutdown is. *)
Spoken   == {"stopped", "close", "release", "done"}
Awaited  == {"drain", "sayStopped"} \cup Spoken
Progress ==
  /\ sd # "done" /\ store # "none" => lock
  /\ sd = "done" => ~lock
  /\ sd \in {"release", "done"} => store = "closed"
  /\ sd \in Spoken => logged = "host.stopped"
  /\ sd \in Awaited \cup {"execution"} => ~accepting
  /\ sd \in Awaited /\ drive = "executing" => overran

Code ==
  /\ sd = "failed" \/ (sd = "done" /\ forced) => exitCode \in {"1", "killed"}
  /\ ~alive /\ forced => exitCode \in {"1", "killed"}

(* One writer at a time, unless a tick was in flight when the shutdown began. *)
Writers ==
  /\ tick # "write" => write["tick"] = Idle
  /\ sd \notin {"stopping", "stopped"} => write["shutdown"] = Idle
  /\ \A w \in Writer : write[w].step \in {"idle", "open"} => write[w].fd = "none"

Whole ==
  ~raced =>
    /\ sd # "no" => tick = "idle"
    /\ \A w \in Writer :
         /\ write[w].step = "fill" => write[w].fd = "tmp" /\ file["tmp"] = "torn"
         /\ write[w].step = "rename" => write[w].fd = "tmp" /\ file["tmp"] = BeatOf(w)
    /\ file["target"] \notin {"torn"}
    /\ sd \in {"sayStopping", "executor", "execution", "drain", "sayStopped", "stopped"} =>
         file["target"] = "stopping"
    /\ sd \in {"close", "release", "done"} => file["target"] = "stopped"

Ordered ==
  /\ shown <= version
  /\ \A s \in inFlight : shown <= s /\ s <= version
  /\ \A s, t \in inFlight : s = t

HostInv == Early /\ Progress /\ Code /\ Writers /\ Whole /\ Ordered

LEMMA Stepped ==
  ASSUME [Next]_vars
  PROVE  \/ UNCHANGED vars
         \/ Boot
         \/ FirstBeat
         \/ Ready
         \/ PublishPresence
         \/ ResumeRuns
         \/ ClaimRound
         \/ Return
         \/ HeartbeatTimer
         \/ TickRefreshed
         \/ \E w \in Writer : OpenTemporary(w)
         \/ \E w \in Writer : FillTemporary(w)
         \/ \E w \in Writer : RenameTemporary(w)
         \/ \E w \in Writer : WriteFails(w)
         \/ Signal
         \/ UncaughtException
         \/ ShutdownRefreshed
         \/ SayStopping
         \/ ExecutorShutdown
         \/ ExecutionOver
         \/ Drained
         \/ SayStopped
         \/ CloseStore
         \/ ReleaseLock
         \/ ShutdownFails
         \/ SupervisorTick
         \/ AttemptReturns
         \/ AfterTick
         \/ LookAgain
         \/ DriveThrows
         \/ \E s \in inFlight, sent \in BOOLEAN : SnapshotSettled(s, sent)
         \/ Exit
         \/ Kill
BY DEF Next, Main, Beating, Stopping, Driving, Sending, Writing, Writer

-----------------------------------------------------------------------------
(* Types, one group of variables at a time. *)

FlagTypes ==
  /\ alive \in BOOLEAN /\ running \in BOOLEAN /\ armed \in BOOLEAN /\ forced \in BOOLEAN
  /\ lock \in BOOLEAN /\ accepting \in BOOLEAN /\ raced \in BOOLEAN /\ overran \in BOOLEAN
  /\ unsent \in BOOLEAN /\ pending \in BOOLEAN

LEMMA FlagType ==
  ASSUME FlagTypes, [Next]_vars
  PROVE  FlagTypes'
<1> USE DEF FlagTypes, process, files, ending, durable, driving, sending
<1>1. CASE UNCHANGED vars
  BY <1>1 DEF vars
<1>2. CASE Boot
  BY <1>2 DEF Boot
<1>3. CASE FirstBeat
  BY <1>3 DEF FirstBeat
<1>4. CASE Ready
  BY <1>4 DEF Ready
<1>5. CASE PublishPresence
  BY <1>5 DEF PublishPresence
<1>6. CASE ResumeRuns
  BY <1>6 DEF ResumeRuns, StartDrive, publish, Snapshot
<1>7. CASE ClaimRound
  BY <1>7 DEF ClaimRound, StartDrive, publish, Snapshot
<1>8. CASE Return
  BY <1>8 DEF Return
<1>9. CASE HeartbeatTimer
  BY <1>9 DEF HeartbeatTimer
<1>10. CASE TickRefreshed
  BY <1>10 DEF TickRefreshed, begin
<1>11. ASSUME NEW w \in Writer, OpenTemporary(w) PROVE FlagTypes'
  BY <1>11 DEF OpenTemporary
<1>12. ASSUME NEW w \in Writer, FillTemporary(w) PROVE FlagTypes'
  BY <1>12 DEF FillTemporary, BeatOf
<1>13. ASSUME NEW w \in Writer, RenameTemporary(w) PROVE FlagTypes'
  BY <1>13 DEF RenameTemporary, written, abandon, StepAfter, Idle
<1>14. ASSUME NEW w \in Writer, WriteFails(w) PROVE FlagTypes'
  BY <1>14 DEF WriteFails, written, abandon, Idle
<1>15. CASE Signal
  BY <1>15 DEF Signal, shutdown
<1>16. CASE UncaughtException
  BY <1>16 DEF UncaughtException, shutdown
<1>17. CASE ShutdownRefreshed
  BY <1>17 DEF ShutdownRefreshed, advance, StepAfter, begin, idleEnding
<1>18. CASE SayStopping
  BY <1>18 DEF SayStopping, advance, StepAfter, idleEnding
<1>19. CASE ExecutorShutdown
  BY <1>19 DEF ExecutorShutdown, advance, StepAfter, idleEnding
<1>20. CASE ExecutionOver
  BY <1>20 DEF ExecutionOver, advance, StepAfter, idleEnding
<1>21. CASE Drained
  BY <1>21 DEF Drained, advance, StepAfter, idleEnding
<1>22. CASE SayStopped
  BY <1>22 DEF SayStopped, advance, StepAfter, begin, idleEnding
<1>23. CASE CloseStore
  BY <1>23 DEF CloseStore, advance, StepAfter, idleEnding
<1>24. CASE ReleaseLock
  BY <1>24 DEF ReleaseLock, idleEnding
<1>25. CASE ShutdownFails
  BY <1>25 DEF ShutdownFails, abandon, idleEnding
<1>26. CASE SupervisorTick
  BY <1>26 DEF SupervisorTick, changed, quiet
<1>27. CASE AttemptReturns
  BY <1>27 DEF AttemptReturns, changed, quiet
<1>28. CASE AfterTick
  BY <1>28 DEF AfterTick, publish, Snapshot, quiet
<1>29. CASE LookAgain
  BY <1>29 DEF LookAgain, publish, Snapshot, quiet
<1>30. CASE DriveThrows
  BY <1>30 DEF DriveThrows, quiet
<1>31. ASSUME NEW s \in inFlight, NEW sent \in BOOLEAN, SnapshotSettled(s, sent) PROVE FlagTypes'
  BY <1>31 DEF SnapshotSettled, Settled, Snapshot, quiet
<1>32. CASE Exit
  BY <1>32 DEF Exit, gone, Idle
<1>33. CASE Kill
  BY <1>33 DEF Kill, gone, Idle
<1> QED
  BY <1>1, <1>2, <1>3, <1>4, <1>5, <1>6, <1>7, <1>8, <1>9, <1>10, <1>11, <1>12, <1>13,
     <1>14, <1>15, <1>16, <1>17, <1>18, <1>19, <1>20, <1>21, <1>22, <1>23, <1>24,
     <1>25, <1>26, <1>27, <1>28, <1>29, <1>30, <1>31, <1>32, <1>33, Stepped

StageTypes ==
  /\ pc \in {"boot", "beat", "ready", "presence", "resume", "poll",
             "returned", "rejected", "gone"}
  /\ tick \in {"idle", "refresh", "write"}
  /\ sd \in StepsOf /\ exitCode \in {"none", "0", "1", "killed"}
  /\ store \in {"none", "open", "closed"}
  /\ logged \in {"none", "host.started", "host.stopping", "host.stopped"}
  /\ drive \in {"idle", "between", "executing", "after", "parked"}

LEMMA StageType ==
  ASSUME StageTypes, Writers, [Next]_vars
  PROVE  StageTypes'
<1> USE DEF StageTypes, StepsOf, process, files, ending, durable, driving, sending
<1>1. CASE UNCHANGED vars
  BY <1>1 DEF vars
<1>2. CASE Boot
  BY <1>2 DEF Boot
<1>3. CASE FirstBeat
  BY <1>3 DEF FirstBeat
<1>4. CASE Ready
  BY <1>4 DEF Ready
<1>5. CASE PublishPresence
  BY <1>5 DEF PublishPresence
<1>6. CASE ResumeRuns
  BY <1>6 DEF ResumeRuns, StartDrive, publish, Snapshot
<1>7. CASE ClaimRound
  BY <1>7 DEF ClaimRound, StartDrive, publish, Snapshot
<1>8. CASE Return
  BY <1>8 DEF Return
<1>9. CASE HeartbeatTimer
  BY <1>9 DEF HeartbeatTimer
<1>10. CASE TickRefreshed
  BY <1>10 DEF TickRefreshed, begin
<1>11. ASSUME NEW w \in Writer, OpenTemporary(w) PROVE StageTypes'
  BY <1>11 DEF OpenTemporary
<1>12. ASSUME NEW w \in Writer, FillTemporary(w) PROVE StageTypes'
  BY <1>12 DEF FillTemporary, BeatOf
<1>13. ASSUME NEW w \in Writer, RenameTemporary(w) PROVE StageTypes'
  <2>1. w = "shutdown" => sd = "stopping" \/ sd = "stopped"
    BY <1>13 DEF RenameTemporary, Writers, Idle, Writer
  <2>2. StepAfter["stopping"] = "sayStopping" /\ StepAfter["stopped"] = "close"
    BY DEF StepAfter
  <2> QED
    BY <1>13, <2>1, <2>2 DEF RenameTemporary, written, abandon, Writer
<1>14. ASSUME NEW w \in Writer, WriteFails(w) PROVE StageTypes'
  BY <1>14 DEF WriteFails, written, abandon, Idle
<1>15. CASE Signal
  BY <1>15 DEF Signal, shutdown
<1>16. CASE UncaughtException
  BY <1>16 DEF UncaughtException, shutdown
<1>17. CASE ShutdownRefreshed
  BY <1>17 DEF ShutdownRefreshed, advance, StepAfter, begin, idleEnding
<1>18. CASE SayStopping
  BY <1>18 DEF SayStopping, advance, StepAfter, idleEnding
<1>19. CASE ExecutorShutdown
  BY <1>19 DEF ExecutorShutdown, advance, StepAfter, idleEnding
<1>20. CASE ExecutionOver
  BY <1>20 DEF ExecutionOver, advance, StepAfter, idleEnding
<1>21. CASE Drained
  BY <1>21 DEF Drained, advance, StepAfter, idleEnding
<1>22. CASE SayStopped
  BY <1>22 DEF SayStopped, advance, StepAfter, begin, idleEnding
<1>23. CASE CloseStore
  BY <1>23 DEF CloseStore, advance, StepAfter, idleEnding
<1>24. CASE ReleaseLock
  BY <1>24 DEF ReleaseLock, idleEnding
<1>25. CASE ShutdownFails
  BY <1>25 DEF ShutdownFails, abandon, idleEnding
<1>26. CASE SupervisorTick
  BY <1>26 DEF SupervisorTick, changed, quiet
<1>27. CASE AttemptReturns
  BY <1>27 DEF AttemptReturns, changed, quiet
<1>28. CASE AfterTick
  BY <1>28 DEF AfterTick, publish, Snapshot, quiet
<1>29. CASE LookAgain
  BY <1>29 DEF LookAgain, publish, Snapshot, quiet
<1>30. CASE DriveThrows
  BY <1>30 DEF DriveThrows, quiet
<1>31. ASSUME NEW s \in inFlight, NEW sent \in BOOLEAN, SnapshotSettled(s, sent) PROVE StageTypes'
  BY <1>31 DEF SnapshotSettled, Settled, Snapshot, quiet
<1>32. CASE Exit
  BY <1>32 DEF Exit, gone, Idle
<1>33. CASE Kill
  BY <1>33 DEF Kill, gone, Idle
<1> QED
  BY <1>1, <1>2, <1>3, <1>4, <1>5, <1>6, <1>7, <1>8, <1>9, <1>10, <1>11, <1>12, <1>13,
     <1>14, <1>15, <1>16, <1>17, <1>18, <1>19, <1>20, <1>21, <1>22, <1>23, <1>24,
     <1>25, <1>26, <1>27, <1>28, <1>29, <1>30, <1>31, <1>32, <1>33, Stepped

FileTypes ==
  /\ file \in [{"target", "tmp"} -> Content]
  /\ write \in [Writer -> [step : {"idle", "open", "fill", "rename"},
                           fd : {"none", "tmp", "target", "gone"}]]

LEMMA FileType ==
  ASSUME FileTypes, StageTypes, Writers, [Next]_vars
  PROVE  FileTypes'
<1> USE DEF FileTypes, Content, Writer, process, files, ending, durable, driving, sending
<1>1. CASE UNCHANGED vars
  BY <1>1 DEF vars
<1>2. CASE Boot
  BY <1>2 DEF Boot
<1>3. CASE FirstBeat
  BY <1>3 DEF FirstBeat
<1>4. CASE Ready
  BY <1>4 DEF Ready
<1>5. CASE PublishPresence
  BY <1>5 DEF PublishPresence
<1>6. CASE ResumeRuns
  BY <1>6 DEF ResumeRuns, StartDrive, publish, Snapshot
<1>7. CASE ClaimRound
  BY <1>7 DEF ClaimRound, StartDrive, publish, Snapshot
<1>8. CASE Return
  BY <1>8 DEF Return
<1>9. CASE HeartbeatTimer
  BY <1>9 DEF HeartbeatTimer
<1>10. CASE TickRefreshed
  BY <1>10 DEF TickRefreshed, begin
<1>11. ASSUME NEW w \in Writer, OpenTemporary(w) PROVE FileTypes'
  BY <1>11 DEF OpenTemporary
<1>12. ASSUME NEW w \in Writer, FillTemporary(w) PROVE FileTypes'
  <2>1. w = "shutdown" => sd = "stopping" \/ sd = "stopped"
    BY <1>12 DEF FillTemporary, Writers, Idle
  <2>2. BeatOf(w) \in Content \ {"absent"} /\ "torn" \in Content
    BY <2>1 DEF BeatOf
  <2>3. write' \in [Writer -> [step : {"idle", "open", "fill", "rename"},
                              fd : {"none", "tmp", "target", "gone"}]]
    <3>1. write' = [write EXCEPT ![w].step = "rename"]
      BY <1>12 DEF FillTemporary
    <3> QED
      BY <3>1
  <2>4. file' \in [{"target", "tmp"} -> Content]
    <3>1. UNCHANGED file \/ \E f, c \in Content \cup {write[w].fd} :
            c \in Content /\ file' = [file EXCEPT ![f] = c]
      BY <1>12, <2>2 DEF FillTemporary
    <3> QED
      BY <3>1
  <2> QED
    BY <2>3, <2>4
<1>13. ASSUME NEW w \in Writer, RenameTemporary(w) PROVE FileTypes'
  BY <1>13 DEF RenameTemporary, written, abandon, StepAfter, Idle
<1>14. ASSUME NEW w \in Writer, WriteFails(w) PROVE FileTypes'
  BY <1>14 DEF WriteFails, written, abandon, Idle
<1>15. CASE Signal
  BY <1>15 DEF Signal, shutdown
<1>16. CASE UncaughtException
  BY <1>16 DEF UncaughtException, shutdown
<1>17. CASE ShutdownRefreshed
  BY <1>17 DEF ShutdownRefreshed, advance, StepAfter, begin, idleEnding
<1>18. CASE SayStopping
  BY <1>18 DEF SayStopping, advance, StepAfter, idleEnding
<1>19. CASE ExecutorShutdown
  BY <1>19 DEF ExecutorShutdown, advance, StepAfter, idleEnding
<1>20. CASE ExecutionOver
  BY <1>20 DEF ExecutionOver, advance, StepAfter, idleEnding
<1>21. CASE Drained
  BY <1>21 DEF Drained, advance, StepAfter, idleEnding
<1>22. CASE SayStopped
  BY <1>22 DEF SayStopped, advance, StepAfter, begin, idleEnding
<1>23. CASE CloseStore
  BY <1>23 DEF CloseStore, advance, StepAfter, idleEnding
<1>24. CASE ReleaseLock
  BY <1>24 DEF ReleaseLock, idleEnding
<1>25. CASE ShutdownFails
  BY <1>25 DEF ShutdownFails, abandon, idleEnding
<1>26. CASE SupervisorTick
  BY <1>26 DEF SupervisorTick, changed, quiet
<1>27. CASE AttemptReturns
  BY <1>27 DEF AttemptReturns, changed, quiet
<1>28. CASE AfterTick
  BY <1>28 DEF AfterTick, publish, Snapshot, quiet
<1>29. CASE LookAgain
  BY <1>29 DEF LookAgain, publish, Snapshot, quiet
<1>30. CASE DriveThrows
  BY <1>30 DEF DriveThrows, quiet
<1>31. ASSUME NEW s \in inFlight, NEW sent \in BOOLEAN, SnapshotSettled(s, sent) PROVE FileTypes'
  BY <1>31 DEF SnapshotSettled, Settled, Snapshot, quiet
<1>32. CASE Exit
  BY <1>32 DEF Exit, gone, Idle
<1>33. CASE Kill
  BY <1>33 DEF Kill, gone, Idle
<1> QED
  BY <1>1, <1>2, <1>3, <1>4, <1>5, <1>6, <1>7, <1>8, <1>9, <1>10, <1>11, <1>12, <1>13,
     <1>14, <1>15, <1>16, <1>17, <1>18, <1>19, <1>20, <1>21, <1>22, <1>23, <1>24,
     <1>25, <1>26, <1>27, <1>28, <1>29, <1>30, <1>31, <1>32, <1>33, Stepped

RunTypes ==
  /\ version \in 0 .. MaxVersion /\ shown \in 0 .. MaxVersion
  /\ inFlight \subseteq 0 .. MaxVersion

LEMMA RunType ==
  ASSUME RunTypes, [Next]_vars
  PROVE  RunTypes'
<1> USE DEF RunTypes, process, files, ending, durable, driving, sending
<1>1. CASE UNCHANGED vars
  BY <1>1 DEF vars
<1>2. CASE Boot
  BY <1>2 DEF Boot
<1>3. CASE FirstBeat
  BY <1>3 DEF FirstBeat
<1>4. CASE Ready
  BY <1>4 DEF Ready
<1>5. CASE PublishPresence
  BY <1>5 DEF PublishPresence
<1>6. CASE ResumeRuns
  BY <1>6 DEF ResumeRuns, StartDrive, publish, Snapshot
<1>7. CASE ClaimRound
  BY <1>7 DEF ClaimRound, StartDrive, publish, Snapshot
<1>8. CASE Return
  BY <1>8 DEF Return
<1>9. CASE HeartbeatTimer
  BY <1>9 DEF HeartbeatTimer
<1>10. CASE TickRefreshed
  BY <1>10 DEF TickRefreshed, begin
<1>11. ASSUME NEW w \in Writer, OpenTemporary(w) PROVE RunTypes'
  BY <1>11 DEF OpenTemporary
<1>12. ASSUME NEW w \in Writer, FillTemporary(w) PROVE RunTypes'
  BY <1>12 DEF FillTemporary, BeatOf
<1>13. ASSUME NEW w \in Writer, RenameTemporary(w) PROVE RunTypes'
  BY <1>13 DEF RenameTemporary, written, abandon, StepAfter, Idle
<1>14. ASSUME NEW w \in Writer, WriteFails(w) PROVE RunTypes'
  BY <1>14 DEF WriteFails, written, abandon, Idle
<1>15. CASE Signal
  BY <1>15 DEF Signal, shutdown
<1>16. CASE UncaughtException
  BY <1>16 DEF UncaughtException, shutdown
<1>17. CASE ShutdownRefreshed
  BY <1>17 DEF ShutdownRefreshed, advance, StepAfter, begin, idleEnding
<1>18. CASE SayStopping
  BY <1>18 DEF SayStopping, advance, StepAfter, idleEnding
<1>19. CASE ExecutorShutdown
  BY <1>19 DEF ExecutorShutdown, advance, StepAfter, idleEnding
<1>20. CASE ExecutionOver
  BY <1>20 DEF ExecutionOver, advance, StepAfter, idleEnding
<1>21. CASE Drained
  BY <1>21 DEF Drained, advance, StepAfter, idleEnding
<1>22. CASE SayStopped
  BY <1>22 DEF SayStopped, advance, StepAfter, begin, idleEnding
<1>23. CASE CloseStore
  BY <1>23 DEF CloseStore, advance, StepAfter, idleEnding
<1>24. CASE ReleaseLock
  BY <1>24 DEF ReleaseLock, idleEnding
<1>25. CASE ShutdownFails
  BY <1>25 DEF ShutdownFails, abandon, idleEnding
<1>26. CASE SupervisorTick
  BY <1>26 DEF SupervisorTick, changed, quiet
<1>27. CASE AttemptReturns
  BY <1>27 DEF AttemptReturns, changed, quiet
<1>28. CASE AfterTick
  BY <1>28 DEF AfterTick, publish, Snapshot, quiet
<1>29. CASE LookAgain
  BY <1>29 DEF LookAgain, publish, Snapshot, quiet
<1>30. CASE DriveThrows
  BY <1>30 DEF DriveThrows, quiet
<1>31. ASSUME NEW s \in inFlight, NEW sent \in BOOLEAN, SnapshotSettled(s, sent) PROVE RunTypes'
  BY <1>31 DEF SnapshotSettled, Settled, Snapshot, quiet
<1>32. CASE Exit
  BY <1>32 DEF Exit, gone, Idle
<1>33. CASE Kill
  BY <1>33 DEF Kill, gone, Idle
<1> QED
  BY <1>1, <1>2, <1>3, <1>4, <1>5, <1>6, <1>7, <1>8, <1>9, <1>10, <1>11, <1>12, <1>13,
     <1>14, <1>15, <1>16, <1>17, <1>18, <1>19, <1>20, <1>21, <1>22, <1>23, <1>24,
     <1>25, <1>26, <1>27, <1>28, <1>29, <1>30, <1>31, <1>32, <1>33, Stepped

LEMMA Types == TypeOK <=> FlagTypes /\ StageTypes /\ FileTypes /\ RunTypes
BY DEF TypeOK, FlagTypes, StageTypes, FileTypes, RunTypes

-----------------------------------------------------------------------------
(* The strengthening is inductive, one part at a time. *)

(* What the steps of a write do, component by component. *)

LEMMA Steps ==
  /\ StepAfter["refresh"] = "stopping" /\ StepAfter["stopping"] = "sayStopping"
  /\ StepAfter["sayStopping"] = "executor" /\ StepAfter["executor"] = "execution"
  /\ StepAfter["execution"] = "drain" /\ StepAfter["drain"] = "sayStopped"
  /\ StepAfter["sayStopped"] = "stopped" /\ StepAfter["stopped"] = "close"
  /\ StepAfter["close"] = "release"
BY DEF StepAfter

LEMMA Writes ==
  ASSUME Writers, NEW w \in Writer, write[w].step # "idle"
  PROVE  (w = "tick" /\ tick = "write") \/ (w = "shutdown" /\ sd \in {"stopping", "stopped"})
BY DEF Writers, Idle, Writer

LEMMA Written ==
  ASSUME Writers, NEW w \in Writer, write[w].step # "idle", NEW ok \in BOOLEAN, written(w, ok)
  PROVE  \/ w = "tick" /\ tick' = "idle" /\ sd' = sd /\ exitCode' = exitCode
         \/ /\ w = "shutdown" /\ tick' = tick /\ ok /\ exitCode' = exitCode
            /\ \/ sd = "stopping" /\ sd' = "sayStopping"
               \/ sd = "stopped" /\ sd' = "close"
         \/ /\ w = "shutdown" /\ tick' = tick /\ ~ok
            /\ sd \in {"stopping", "stopped"} /\ sd' = "failed" /\ exitCode' = "1"
BY Writes, Steps DEF written, abandon

LEMMA Opens ==
  ASSUME FileTypes, NEW w \in Writer, OpenTemporary(w)
  PROVE  /\ file'["tmp"] = "torn" /\ file'["target"] = file["target"]
         /\ write'[w].step = "fill" /\ write'[w].fd = "tmp"
         /\ \A v \in Writer : v # w => write'[v] = write[v]
BY DEF OpenTemporary, FileTypes

LEMMA Fills ==
  ASSUME FileTypes, NEW w \in Writer, FillTemporary(w)
  PROVE  /\ write'[w].step = "rename" /\ write'[w].fd = write[w].fd
         /\ \A v \in Writer : v # w => write'[v] = write[v]
         /\ write[w].fd = "tmp" /\ file["tmp"] = "torn" =>
              file'["tmp"] = BeatOf(w) /\ file'["target"] = file["target"]
<1>1. /\ write'[w].step = "rename" /\ write'[w].fd = write[w].fd
      /\ \A v \in Writer : v # w => write'[v] = write[v]
  BY DEF FillTemporary, FileTypes
<1>2. ASSUME write[w].fd = "tmp", file["tmp"] = "torn"
      PROVE  file'["tmp"] = BeatOf(w) /\ file'["target"] = file["target"]
  <2>1. file' = [file EXCEPT !["tmp"] = BeatOf(w)]
    BY <1>2 DEF FillTemporary
  <2> QED
    BY <2>1 DEF FileTypes
<1> QED
  BY <1>1, <1>2

LEMMA Renames ==
  ASSUME FileTypes, NEW w \in Writer, RenameTemporary(w)
  PROVE  /\ write[w].step = "rename" /\ write'[w] = Idle
         /\ \A v \in Writer : v # w /\ write[v] = Idle => write'[v] = Idle
         /\ \/ file["tmp"] = "absent" /\ file' = file /\ written(w, FALSE)
            \/ file["tmp"] # "absent" /\ file'["target"] = file["tmp"] /\ written(w, TRUE)
<1>1. CASE file["tmp"] = "absent"
  BY <1>1 DEF RenameTemporary, FileTypes
<1>2. CASE file["tmp"] # "absent"
  <2>1. /\ write[w].step = "rename" /\ written(w, TRUE)
        /\ file' = [target |-> file["tmp"], tmp |-> "absent"]
    BY <1>2 DEF RenameTemporary
  <2>2. file'["target"] = file["tmp"]
    BY <2>1
  <2>3. write' = [v \in Writer |-> IF v = w THEN Idle
                        ELSE CASE write[v].fd = "target" -> [write[v] EXCEPT !.fd = "gone"]
                               [] write[v].fd = "tmp" -> [write[v] EXCEPT !.fd = "target"]
                               [] OTHER -> write[v]]
    BY <1>2 DEF RenameTemporary
  <2>4. write'[w] = Idle
    BY <2>3
  <2>5. ASSUME NEW v \in Writer, v # w, write[v] = Idle PROVE write'[v] = Idle
    <3>1. write[v].fd = "none"
      BY <2>5 DEF Idle
    <3> QED
      BY <2>3, <2>5, <3>1
  <2> QED
    BY <1>2, <2>1, <2>2, <2>4, <2>5
<1> QED
  BY <1>1, <1>2

LEMMA Fails ==
  ASSUME FileTypes, NEW w \in Writer, WriteFails(w)
  PROVE  /\ write[w].step # "idle" /\ write'[w] = Idle /\ file' = file
         /\ \A v \in Writer : v # w => write'[v] = write[v]
         /\ written(w, FALSE)
BY DEF WriteFails, FileTypes

LEMMA EarlyStep ==
  ASSUME FlagTypes, StageTypes, FileTypes, Writers, Early, [Next]_vars
  PROVE  Early'
<1> USE DEF Early, StageTypes, process, files, ending, durable, driving, sending
<1>1. CASE UNCHANGED vars
  BY <1>1 DEF vars
<1>2. CASE Boot
  BY <1>2 DEF Boot
<1>3. CASE FirstBeat
  BY <1>3 DEF FirstBeat
<1>4. CASE Ready
  BY <1>4 DEF Ready
<1>5. CASE PublishPresence
  BY <1>5 DEF PublishPresence
<1>6. CASE ResumeRuns
  BY <1>6 DEF ResumeRuns, StartDrive, publish, Snapshot
<1>7. CASE ClaimRound
  BY <1>7 DEF ClaimRound, StartDrive, publish, Snapshot
<1>8. CASE Return
  BY <1>8 DEF Return
<1>9. CASE HeartbeatTimer
  BY <1>9 DEF HeartbeatTimer
<1>10. CASE TickRefreshed
  BY <1>10 DEF TickRefreshed, begin
<1>11. ASSUME NEW w \in Writer, OpenTemporary(w) PROVE Early'
  <2>1. store # "none"
    BY <1>11, Writes DEF OpenTemporary
  <2> QED
    BY <1>11, <2>1 DEF OpenTemporary
<1>12. ASSUME NEW w \in Writer, FillTemporary(w) PROVE Early'
  <2>1. store # "none"
    BY <1>12, Writes DEF FillTemporary
  <2> QED
    BY <1>12, <2>1 DEF FillTemporary
<1>13. ASSUME NEW w \in Writer, RenameTemporary(w) PROVE Early'
  <2>1. write[w].step # "idle"
    BY <1>13, Renames
  <2>2. written(w, FALSE) \/ written(w, TRUE)
    BY <1>13, Renames
  <2>3. \/ w = "tick" /\ tick' = "idle" /\ sd' = sd /\ exitCode' = exitCode
        \/ /\ w = "shutdown" /\ tick' = tick /\ exitCode' = exitCode
           /\ \/ sd = "stopping" /\ sd' = "sayStopping"
              \/ sd = "stopped" /\ sd' = "close"
        \/ /\ w = "shutdown" /\ tick' = tick
           /\ sd \in {"stopping", "stopped"} /\ sd' = "failed" /\ exitCode' = "1"
    BY <2>1, <2>2, Written
  <2> QED
    BY <1>13, <2>1, <2>3, Writes DEF RenameTemporary
<1>14. ASSUME NEW w \in Writer, WriteFails(w) PROVE Early'
  <2>1. write[w].step # "idle" /\ written(w, FALSE)
    BY <1>14, Fails
  <2>2. \/ w = "tick" /\ tick' = "idle" /\ sd' = sd /\ exitCode' = exitCode
        \/ /\ w = "shutdown" /\ tick' = tick
           /\ sd \in {"stopping", "stopped"} /\ sd' = "failed" /\ exitCode' = "1"
    BY <2>1, Written
  <2> QED
    BY <1>14, <2>1, <2>2, Writes DEF WriteFails
<1>15. CASE Signal
  BY <1>15 DEF Signal, shutdown, Handlers
<1>16. CASE UncaughtException
  BY <1>16 DEF UncaughtException, shutdown, Handlers
<1>17. CASE ShutdownRefreshed
  BY <1>17 DEF ShutdownRefreshed, advance, StepAfter, begin, idleEnding
<1>18. CASE SayStopping
  BY <1>18 DEF SayStopping, advance, StepAfter, idleEnding
<1>19. CASE ExecutorShutdown
  BY <1>19 DEF ExecutorShutdown, advance, StepAfter, idleEnding
<1>20. CASE ExecutionOver
  BY <1>20 DEF ExecutionOver, advance, StepAfter, idleEnding
<1>21. CASE Drained
  BY <1>21 DEF Drained, advance, StepAfter, idleEnding
<1>22. CASE SayStopped
  BY <1>22 DEF SayStopped, advance, StepAfter, begin, idleEnding
<1>23. CASE CloseStore
  BY <1>23 DEF CloseStore, advance, StepAfter, idleEnding
<1>24. CASE ReleaseLock
  BY <1>24 DEF ReleaseLock, idleEnding
<1>25. CASE ShutdownFails
  BY <1>25 DEF ShutdownFails, abandon, idleEnding
<1>26. CASE SupervisorTick
  BY <1>26 DEF SupervisorTick, changed, quiet
<1>27. CASE AttemptReturns
  BY <1>27 DEF AttemptReturns, changed, quiet
<1>28. CASE AfterTick
  BY <1>28 DEF AfterTick, publish, Snapshot, quiet
<1>29. CASE LookAgain
  BY <1>29 DEF LookAgain, publish, Snapshot, quiet
<1>30. CASE DriveThrows
  BY <1>30 DEF DriveThrows, quiet
<1>31. ASSUME NEW s \in inFlight, NEW sent \in BOOLEAN, SnapshotSettled(s, sent) PROVE Early'
  BY <1>31 DEF SnapshotSettled, Settled, Snapshot, quiet
<1>32. CASE Exit
  BY <1>32 DEF Exit, gone, Idle, Ended
<1>33. CASE Kill
  BY <1>33 DEF Kill, gone, Idle
<1> QED
  BY <1>1, <1>2, <1>3, <1>4, <1>5, <1>6, <1>7, <1>8, <1>9, <1>10, <1>11, <1>12, <1>13,
     <1>14, <1>15, <1>16, <1>17, <1>18, <1>19, <1>20, <1>21, <1>22, <1>23, <1>24,
     <1>25, <1>26, <1>27, <1>28, <1>29, <1>30, <1>31, <1>32, <1>33, Stepped

LEMMA ProgressStep ==
  ASSUME FlagTypes, StageTypes, FileTypes, Writers, Early, Progress, [Next]_vars
  PROVE  Progress'
<1> USE DEF Progress, Spoken, Awaited, Early, StageTypes, process, files, ending, durable, driving, sending
<1>1. CASE UNCHANGED vars
  BY <1>1 DEF vars
<1>2. CASE Boot
  BY <1>2 DEF Boot
<1>3. CASE FirstBeat
  BY <1>3 DEF FirstBeat
<1>4. CASE Ready
  BY <1>4 DEF Ready
<1>5. CASE PublishPresence
  BY <1>5 DEF PublishPresence
<1>6. CASE ResumeRuns
  BY <1>6 DEF ResumeRuns, StartDrive, publish, Snapshot
<1>7. CASE ClaimRound
  BY <1>7 DEF ClaimRound, StartDrive, publish, Snapshot
<1>8. CASE Return
  BY <1>8 DEF Return
<1>9. CASE HeartbeatTimer
  BY <1>9 DEF HeartbeatTimer
<1>10. CASE TickRefreshed
  BY <1>10 DEF TickRefreshed, begin
<1>11. ASSUME NEW w \in Writer, OpenTemporary(w) PROVE Progress'
  BY <1>11 DEF OpenTemporary
<1>12. ASSUME NEW w \in Writer, FillTemporary(w) PROVE Progress'
  BY <1>12 DEF FillTemporary, BeatOf
<1>13. ASSUME NEW w \in Writer, RenameTemporary(w) PROVE Progress'
  <2>1. write[w].step # "idle"
    BY <1>13, Renames
  <2>2. written(w, FALSE) \/ written(w, TRUE)
    BY <1>13, Renames
  <2>3. \/ w = "tick" /\ tick' = "idle" /\ sd' = sd /\ exitCode' = exitCode
        \/ /\ w = "shutdown" /\ tick' = tick /\ exitCode' = exitCode
           /\ \/ sd = "stopping" /\ sd' = "sayStopping"
              \/ sd = "stopped" /\ sd' = "close"
        \/ /\ w = "shutdown" /\ tick' = tick
           /\ sd \in {"stopping", "stopped"} /\ sd' = "failed" /\ exitCode' = "1"
    BY <2>1, <2>2, Written
  <2> QED
    BY <1>13, <2>1, <2>3, Writes DEF RenameTemporary
<1>14. ASSUME NEW w \in Writer, WriteFails(w) PROVE Progress'
  <2>1. write[w].step # "idle" /\ written(w, FALSE)
    BY <1>14, Fails
  <2>2. \/ w = "tick" /\ tick' = "idle" /\ sd' = sd /\ exitCode' = exitCode
        \/ /\ w = "shutdown" /\ tick' = tick
           /\ sd \in {"stopping", "stopped"} /\ sd' = "failed" /\ exitCode' = "1"
    BY <2>1, Written
  <2> QED
    BY <1>14, <2>1, <2>2, Writes DEF WriteFails
<1>15. CASE Signal
  BY <1>15 DEF Signal, shutdown, Handlers
<1>16. CASE UncaughtException
  BY <1>16 DEF UncaughtException, shutdown, Handlers
<1>17. CASE ShutdownRefreshed
  BY <1>17 DEF ShutdownRefreshed, advance, StepAfter, begin, idleEnding
<1>18. CASE SayStopping
  BY <1>18 DEF SayStopping, advance, StepAfter, idleEnding
<1>19. CASE ExecutorShutdown
  BY <1>19 DEF ExecutorShutdown, advance, StepAfter, idleEnding
<1>20. CASE ExecutionOver
  BY <1>20 DEF ExecutionOver, advance, StepAfter, idleEnding
<1>21. CASE Drained
  BY <1>21 DEF Drained, advance, StepAfter, idleEnding
<1>22. CASE SayStopped
  BY <1>22 DEF SayStopped, advance, StepAfter, begin, idleEnding
<1>23. CASE CloseStore
  BY <1>23 DEF CloseStore, advance, StepAfter, idleEnding
<1>24. CASE ReleaseLock
  BY <1>24 DEF ReleaseLock, idleEnding
<1>25. CASE ShutdownFails
  BY <1>25 DEF ShutdownFails, abandon, idleEnding
<1>26. CASE SupervisorTick
  BY <1>26 DEF SupervisorTick, changed, quiet
<1>27. CASE AttemptReturns
  BY <1>27 DEF AttemptReturns, changed, quiet
<1>28. CASE AfterTick
  BY <1>28 DEF AfterTick, publish, Snapshot, quiet
<1>29. CASE LookAgain
  BY <1>29 DEF LookAgain, publish, Snapshot, quiet
<1>30. CASE DriveThrows
  BY <1>30 DEF DriveThrows, quiet
<1>31. ASSUME NEW s \in inFlight, NEW sent \in BOOLEAN, SnapshotSettled(s, sent) PROVE Progress'
  BY <1>31 DEF SnapshotSettled, Settled, Snapshot, quiet
<1>32. CASE Exit
  BY <1>32 DEF Exit, gone, Idle, Ended
<1>33. CASE Kill
  BY <1>33 DEF Kill, gone, Idle
<1> QED
  BY <1>1, <1>2, <1>3, <1>4, <1>5, <1>6, <1>7, <1>8, <1>9, <1>10, <1>11, <1>12, <1>13,
     <1>14, <1>15, <1>16, <1>17, <1>18, <1>19, <1>20, <1>21, <1>22, <1>23, <1>24,
     <1>25, <1>26, <1>27, <1>28, <1>29, <1>30, <1>31, <1>32, <1>33, Stepped

LEMMA CodeStep ==
  ASSUME FlagTypes, StageTypes, FileTypes, Early, Writers, Code, [Next]_vars
  PROVE  Code'
<1> USE DEF Code, Early, StageTypes, process, files, ending, durable, driving, sending
<1>1. CASE UNCHANGED vars
  BY <1>1 DEF vars
<1>2. CASE Boot
  BY <1>2 DEF Boot
<1>3. CASE FirstBeat
  BY <1>3 DEF FirstBeat
<1>4. CASE Ready
  BY <1>4 DEF Ready
<1>5. CASE PublishPresence
  BY <1>5 DEF PublishPresence
<1>6. CASE ResumeRuns
  BY <1>6 DEF ResumeRuns, StartDrive, publish, Snapshot
<1>7. CASE ClaimRound
  BY <1>7 DEF ClaimRound, StartDrive, publish, Snapshot
<1>8. CASE Return
  BY <1>8 DEF Return
<1>9. CASE HeartbeatTimer
  BY <1>9 DEF HeartbeatTimer
<1>10. CASE TickRefreshed
  BY <1>10 DEF TickRefreshed, begin
<1>11. ASSUME NEW w \in Writer, OpenTemporary(w) PROVE Code'
  BY <1>11 DEF OpenTemporary
<1>12. ASSUME NEW w \in Writer, FillTemporary(w) PROVE Code'
  BY <1>12 DEF FillTemporary, BeatOf
<1>13. ASSUME NEW w \in Writer, RenameTemporary(w) PROVE Code'
  <2>1. write[w].step # "idle"
    BY <1>13, Renames
  <2>2. written(w, FALSE) \/ written(w, TRUE)
    BY <1>13, Renames
  <2>3. \/ w = "tick" /\ tick' = "idle" /\ sd' = sd /\ exitCode' = exitCode
        \/ /\ w = "shutdown" /\ tick' = tick /\ exitCode' = exitCode
           /\ \/ sd = "stopping" /\ sd' = "sayStopping"
              \/ sd = "stopped" /\ sd' = "close"
        \/ /\ w = "shutdown" /\ tick' = tick
           /\ sd \in {"stopping", "stopped"} /\ sd' = "failed" /\ exitCode' = "1"
    BY <2>1, <2>2, Written
  <2> QED
    BY <1>13, <2>1, <2>3, Writes DEF RenameTemporary
<1>14. ASSUME NEW w \in Writer, WriteFails(w) PROVE Code'
  <2>1. write[w].step # "idle" /\ written(w, FALSE)
    BY <1>14, Fails
  <2>2. \/ w = "tick" /\ tick' = "idle" /\ sd' = sd /\ exitCode' = exitCode
        \/ /\ w = "shutdown" /\ tick' = tick
           /\ sd \in {"stopping", "stopped"} /\ sd' = "failed" /\ exitCode' = "1"
    BY <2>1, Written
  <2> QED
    BY <1>14, <2>1, <2>2, Writes DEF WriteFails
<1>15. CASE Signal
  BY <1>15 DEF Signal, shutdown, Handlers
<1>16. CASE UncaughtException
  BY <1>16 DEF UncaughtException, shutdown, Handlers
<1>17. CASE ShutdownRefreshed
  BY <1>17 DEF ShutdownRefreshed, advance, StepAfter, begin, idleEnding
<1>18. CASE SayStopping
  BY <1>18 DEF SayStopping, advance, StepAfter, idleEnding
<1>19. CASE ExecutorShutdown
  BY <1>19 DEF ExecutorShutdown, advance, StepAfter, idleEnding
<1>20. CASE ExecutionOver
  BY <1>20 DEF ExecutionOver, advance, StepAfter, idleEnding
<1>21. CASE Drained
  BY <1>21 DEF Drained, advance, StepAfter, idleEnding
<1>22. CASE SayStopped
  BY <1>22 DEF SayStopped, advance, StepAfter, begin, idleEnding
<1>23. CASE CloseStore
  BY <1>23 DEF CloseStore, advance, StepAfter, idleEnding
<1>24. CASE ReleaseLock
  BY <1>24 DEF ReleaseLock, idleEnding
<1>25. CASE ShutdownFails
  BY <1>25 DEF ShutdownFails, abandon, idleEnding
<1>26. CASE SupervisorTick
  BY <1>26 DEF SupervisorTick, changed, quiet
<1>27. CASE AttemptReturns
  BY <1>27 DEF AttemptReturns, changed, quiet
<1>28. CASE AfterTick
  BY <1>28 DEF AfterTick, publish, Snapshot, quiet
<1>29. CASE LookAgain
  BY <1>29 DEF LookAgain, publish, Snapshot, quiet
<1>30. CASE DriveThrows
  BY <1>30 DEF DriveThrows, quiet
<1>31. ASSUME NEW s \in inFlight, NEW sent \in BOOLEAN, SnapshotSettled(s, sent) PROVE Code'
  BY <1>31 DEF SnapshotSettled, Settled, Snapshot, quiet
<1>32. CASE Exit
  BY <1>32 DEF Exit, gone, Idle, Ended
<1>33. CASE Kill
  BY <1>33 DEF Kill, gone, Idle
<1> QED
  BY <1>1, <1>2, <1>3, <1>4, <1>5, <1>6, <1>7, <1>8, <1>9, <1>10, <1>11, <1>12, <1>13,
     <1>14, <1>15, <1>16, <1>17, <1>18, <1>19, <1>20, <1>21, <1>22, <1>23, <1>24,
     <1>25, <1>26, <1>27, <1>28, <1>29, <1>30, <1>31, <1>32, <1>33, Stepped

LEMMA WritersStep ==
  ASSUME StageTypes, FileTypes, Writers, [Next]_vars
  PROVE  Writers'
<1> USE DEF Writers, StageTypes, FileTypes, Idle, Writer, process, files, ending, durable, driving, sending
<1>1. CASE UNCHANGED vars
  BY <1>1 DEF vars
<1>2. CASE Boot
  BY <1>2 DEF Boot
<1>3. CASE FirstBeat
  BY <1>3 DEF FirstBeat
<1>4. CASE Ready
  BY <1>4 DEF Ready
<1>5. CASE PublishPresence
  BY <1>5 DEF PublishPresence
<1>6. CASE ResumeRuns
  BY <1>6 DEF ResumeRuns, StartDrive, publish, Snapshot
<1>7. CASE ClaimRound
  BY <1>7 DEF ClaimRound, StartDrive, publish, Snapshot
<1>8. CASE Return
  BY <1>8 DEF Return
<1>9. CASE HeartbeatTimer
  BY <1>9 DEF HeartbeatTimer
<1>10. CASE TickRefreshed
  BY <1>10 DEF TickRefreshed, begin
<1>11. ASSUME NEW w \in Writer, OpenTemporary(w) PROVE Writers'
  BY <1>11 DEF OpenTemporary
<1>12. ASSUME NEW w \in Writer, FillTemporary(w) PROVE Writers'
  BY <1>12 DEF FillTemporary, BeatOf
<1>13. ASSUME NEW w \in Writer, RenameTemporary(w) PROVE Writers'
  BY <1>13 DEF RenameTemporary, written, abandon, StepAfter
<1>14. ASSUME NEW w \in Writer, WriteFails(w) PROVE Writers'
  BY <1>14 DEF WriteFails, written, abandon
<1>15. CASE Signal
  BY <1>15 DEF Signal, shutdown, Handlers
<1>16. CASE UncaughtException
  BY <1>16 DEF UncaughtException, shutdown, Handlers
<1>17. CASE ShutdownRefreshed
  BY <1>17 DEF ShutdownRefreshed, advance, StepAfter, begin, idleEnding
<1>18. CASE SayStopping
  BY <1>18 DEF SayStopping, advance, StepAfter, idleEnding
<1>19. CASE ExecutorShutdown
  BY <1>19 DEF ExecutorShutdown, advance, StepAfter, idleEnding
<1>20. CASE ExecutionOver
  BY <1>20 DEF ExecutionOver, advance, StepAfter, idleEnding
<1>21. CASE Drained
  BY <1>21 DEF Drained, advance, StepAfter, idleEnding
<1>22. CASE SayStopped
  BY <1>22 DEF SayStopped, advance, StepAfter, begin, idleEnding
<1>23. CASE CloseStore
  BY <1>23 DEF CloseStore, advance, StepAfter, idleEnding
<1>24. CASE ReleaseLock
  BY <1>24 DEF ReleaseLock, idleEnding
<1>25. CASE ShutdownFails
  BY <1>25 DEF ShutdownFails, abandon, idleEnding
<1>26. CASE SupervisorTick
  BY <1>26 DEF SupervisorTick, changed, quiet
<1>27. CASE AttemptReturns
  BY <1>27 DEF AttemptReturns, changed, quiet
<1>28. CASE AfterTick
  BY <1>28 DEF AfterTick, publish, Snapshot, quiet
<1>29. CASE LookAgain
  BY <1>29 DEF LookAgain, publish, Snapshot, quiet
<1>30. CASE DriveThrows
  BY <1>30 DEF DriveThrows, quiet
<1>31. ASSUME NEW s \in inFlight, NEW sent \in BOOLEAN, SnapshotSettled(s, sent) PROVE Writers'
  BY <1>31 DEF SnapshotSettled, Settled, Snapshot, quiet
<1>32. CASE Exit
  BY <1>32 DEF Exit, gone, Ended
<1>33. CASE Kill
  BY <1>33 DEF Kill, gone
<1> QED
  BY <1>1, <1>2, <1>3, <1>4, <1>5, <1>6, <1>7, <1>8, <1>9, <1>10, <1>11, <1>12, <1>13,
     <1>14, <1>15, <1>16, <1>17, <1>18, <1>19, <1>20, <1>21, <1>22, <1>23, <1>24,
     <1>25, <1>26, <1>27, <1>28, <1>29, <1>30, <1>31, <1>32, <1>33, Stepped

LEMMA OneWriter ==
  ASSUME Writers, Whole, ~raced, NEW w \in Writer, write[w].step # "idle"
  PROVE  \A v \in Writer : v # w => write[v] = Idle
<1>1. CASE w = "tick"
  <2>1. sd = "no"
    BY <1>1, Writes DEF Whole
  <2> QED
    BY <1>1, <2>1 DEF Writers, Writer
<1>2. CASE w = "shutdown"
  <2>1. tick = "idle"
    BY <1>2, Writes DEF Whole
  <2> QED
    BY <1>2, <2>1 DEF Writers, Writer
<1> QED
  BY <1>1, <1>2 DEF Writer

LEMMA AllIdle ==
  ASSUME Writers, tick = "idle", sd \notin {"stopping", "stopped"}
  PROVE  \A w \in Writer : write[w] = Idle /\ write[w].step = "idle"
BY DEF Writers, Writer, Idle

LEMMA WholeStep ==
  ASSUME FlagTypes, StageTypes, FileTypes, Early, Writers, Whole, [Next]_vars
  PROVE  Whole'
<1> USE DEF process, files, ending, durable, driving, sending
<1>1. CASE UNCHANGED vars
  BY <1>1 DEF vars, Whole, BeatOf
<1>2. CASE Boot
  BY <1>2 DEF Boot, Whole, BeatOf
<1>3. CASE FirstBeat
  <2>1. tick = "idle" /\ sd = "no" /\ UNCHANGED <<tick, sd, write, raced>>
    BY <1>3 DEF FirstBeat, Early
  <2>2. \A w \in Writer : write[w].step = "idle"
    BY <2>1, AllIdle
  <2>3. file' = file \/ file' = [file EXCEPT !["target"] = "running"]
    BY <1>3 DEF FirstBeat
  <2>4. file'["target"] \in {file["target"], "running"}
    BY <2>3 DEF FileTypes
  <2> QED
    BY <2>1, <2>2, <2>4 DEF Whole
<1>4. CASE Ready
  BY <1>4 DEF Ready, Whole, BeatOf
<1>5. CASE PublishPresence
  BY <1>5 DEF PublishPresence, Whole, BeatOf
<1>6. CASE ResumeRuns
  BY <1>6 DEF ResumeRuns, StartDrive, publish, Snapshot, Whole, BeatOf
<1>7. CASE ClaimRound
  BY <1>7 DEF ClaimRound, StartDrive, publish, Snapshot, Whole, BeatOf
<1>8. CASE Return
  BY <1>8 DEF Return, Whole, BeatOf
<1>9. CASE HeartbeatTimer
  BY <1>9 DEF HeartbeatTimer, Whole, BeatOf
<1>10. CASE TickRefreshed
  <2>1. SUFFICES ASSUME ~raced' PROVE Whole'
    BY DEF Whole
  <2>2. ~raced /\ UNCHANGED file
    BY <1>10, <2>1 DEF TickRefreshed
  <2>3. write["tick"].step = "idle" /\ write["shutdown"].step = "idle"
    BY <1>10, <2>2 DEF TickRefreshed, Whole, Writers, Idle
  <2>4. \A w \in Writer : write'[w].step \in {"idle", "open"}
    BY <1>10, <2>3 DEF TickRefreshed, begin, FileTypes, Writer
  <2> QED
    BY <1>10, <2>2, <2>4, Steps DEF TickRefreshed, Whole
<1>11. ASSUME NEW w \in Writer, OpenTemporary(w) PROVE Whole'
  <2>1. SUFFICES ASSUME ~raced' PROVE Whole'
    BY DEF Whole
  <2>2. ~raced /\ write[w].step # "idle"
    BY <1>11, <2>1 DEF OpenTemporary
  <2>3. \A v \in Writer : v # w => write[v] = Idle
    BY <2>2, OneWriter
  <2>4. \A v \in Writer : v # w => write'[v].step = "idle"
    BY <1>11, <2>3, Opens DEF Idle
  <2> QED
    BY <1>11, <2>2, <2>4, Opens DEF OpenTemporary, Whole
<1>12. ASSUME NEW w \in Writer, FillTemporary(w) PROVE Whole'
  <2>1. SUFFICES ASSUME ~raced' PROVE Whole'
    BY DEF Whole
  <2>2. ~raced /\ write[w].step # "idle"
    BY <1>12, <2>1 DEF FillTemporary
  <2>3. \A v \in Writer : v # w => write[v] = Idle
    BY <2>2, OneWriter
  <2>4. \A v \in Writer : v # w => write'[v].step = "idle"
    BY <1>12, <2>3, Fills DEF Idle
  <2>5. write[w].fd = "tmp" /\ file["tmp"] = "torn"
    BY <1>12, <2>2 DEF FillTemporary, Whole
  <2>6. sd' = sd /\ tick' = tick /\ BeatOf(w)' = BeatOf(w)
    BY <1>12 DEF FillTemporary, BeatOf
  <2> QED
    BY <1>12, <2>2, <2>4, <2>5, <2>6, Fills DEF Whole
<1>13. ASSUME NEW w \in Writer, RenameTemporary(w) PROVE Whole'
  <2>1. SUFFICES ASSUME ~raced' PROVE Whole'
    BY DEF Whole
  <2>2. ~raced /\ write[w].step # "idle"
    BY <1>13, <2>1 DEF RenameTemporary
  <2>3. \A v \in Writer : v # w => write[v] = Idle
    BY <2>2, OneWriter
  <2>4. \A v \in Writer : write'[v].step = "idle"
    <3>1. ASSUME NEW v \in Writer PROVE write'[v] = Idle
      <4>1. CASE v = w
        BY <1>13, <4>1, Renames
      <4>2. CASE v # w
        BY <1>13, <2>3, <4>2, Renames
      <4> QED
        BY <4>1, <4>2
    <3> QED
      BY <3>1 DEF Idle
  <2>5. file["tmp"] = BeatOf(w) /\ file["tmp"] # "absent"
    BY <1>13, <2>2, Renames, Writes DEF Whole, BeatOf
  <2>6. file'["target"] = BeatOf(w) /\ written(w, TRUE)
    BY <1>13, <2>5, Renames
  <2>7. CASE w = "tick"
    <3>1. tick' = "idle" /\ sd' = sd /\ sd = "no" /\ file'["target"] = "running"
      BY <2>2, <2>6, <2>7, Written, Writes DEF Whole, BeatOf
    <3> QED
      BY <2>4, <3>1 DEF Whole
  <2>8. CASE w = "shutdown"
    <3>1. /\ tick' = "idle"
          /\ \/ sd' = "sayStopping" /\ file'["target"] = "stopping"
             \/ sd' = "close" /\ file'["target"] = "stopped"
      BY <2>2, <2>6, <2>8, Written, Writes DEF Whole, BeatOf
    <3> QED
      BY <2>4, <3>1 DEF Whole
  <2> QED
    BY <2>7, <2>8 DEF Writer
<1>14. ASSUME NEW w \in Writer, WriteFails(w) PROVE Whole'
  <2>1. SUFFICES ASSUME ~raced' PROVE Whole'
    BY DEF Whole
  <2>2. ~raced /\ write[w].step # "idle"
    BY <1>14, <2>1 DEF WriteFails
  <2>3. \A v \in Writer : v # w => write[v] = Idle
    BY <2>2, OneWriter
  <2>4. \A v \in Writer : write'[v].step = "idle"
    <3>1. ASSUME NEW v \in Writer PROVE write'[v] = Idle
      <4>1. CASE v = w
        BY <1>14, <4>1, Fails
      <4>2. CASE v # w
        BY <1>14, <2>3, <4>2, Fails
      <4> QED
        BY <4>1, <4>2
    <3> QED
      BY <3>1 DEF Idle
  <2>5. file' = file /\ written(w, FALSE)
    BY <1>14, Fails
  <2>6. CASE w = "tick"
    <3>1. tick' = "idle" /\ sd' = sd
      BY <2>2, <2>5, <2>6, Written
    <3> QED
      BY <2>2, <2>4, <2>5, <3>1 DEF Whole
  <2>7. CASE w = "shutdown"
    <3>1. tick' = "idle" /\ sd' = "failed"
      BY <2>2, <2>5, <2>7, Written, Writes DEF Whole
    <3> QED
      BY <2>2, <2>4, <2>5, <3>1 DEF Whole
  <2> QED
    BY <2>6, <2>7 DEF Writer
<1>15. CASE Signal
  <2>1. SUFFICES ASSUME ~raced' PROVE Whole'
    BY DEF Whole
  <2>2. sd = "no" /\ ~raced
    BY <1>15 DEF Signal, Early
  <2>3. tick = "idle" /\ sd' = "refresh" /\ tick' = tick
    BY <1>15, <2>1 DEF Signal, shutdown
  <2>4. \A w \in Writer : write[w].step = "idle"
    BY <2>2, <2>3, AllIdle
  <2>5. file' = file /\ write' = write
    BY <1>15 DEF Signal
  <2> QED
    BY <2>2, <2>3, <2>4, <2>5 DEF Whole
<1>16. CASE UncaughtException
  <2>1. SUFFICES ASSUME ~raced' PROVE Whole'
    BY DEF Whole
  <2>2. sd = "no" /\ ~raced
    BY <1>16 DEF UncaughtException, Early
  <2>3. tick = "idle" /\ sd' = "refresh" /\ tick' = tick
    BY <1>16, <2>1 DEF UncaughtException, shutdown
  <2>4. \A w \in Writer : write[w].step = "idle"
    BY <2>2, <2>3, AllIdle
  <2>5. file' = file /\ write' = write
    BY <1>16 DEF UncaughtException
  <2> QED
    BY <2>2, <2>3, <2>4, <2>5 DEF Whole
<1>17. CASE ShutdownRefreshed
  <2>1. SUFFICES ASSUME ~raced' PROVE Whole'
    BY DEF Whole
  <2>2. ~raced /\ UNCHANGED file
    BY <1>17, <2>1 DEF ShutdownRefreshed, advance, idleEnding
  <2>3. write["tick"].step = "idle" /\ write["shutdown"].step = "idle"
    BY <1>17, <2>2 DEF ShutdownRefreshed, Whole, Writers, Idle
  <2>4. \A w \in Writer : write'[w].step \in {"idle", "open"}
    BY <1>17, <2>3 DEF ShutdownRefreshed, begin, FileTypes, Writer
  <2> QED
    BY <1>17, <2>2, <2>4, Steps DEF ShutdownRefreshed, advance, idleEnding, Whole
<1>18. CASE SayStopping
  <2>1. SUFFICES ASSUME ~raced' PROVE Whole'
    BY DEF Whole
  <2>2. tick = "idle" /\ sd \notin {"stopping", "stopped"} /\ ~raced
    BY <1>18, <2>1 DEF SayStopping, advance, idleEnding, Whole
  <2>3. \A w \in Writer : write[w].step = "idle"
    BY <2>2, AllIdle
  <2> QED
    BY <1>18, <2>2, <2>3, Steps DEF SayStopping, advance, idleEnding, Whole
<1>19. CASE ExecutorShutdown
  <2>1. SUFFICES ASSUME ~raced' PROVE Whole'
    BY DEF Whole
  <2>2. tick = "idle" /\ sd \notin {"stopping", "stopped"} /\ ~raced
    BY <1>19, <2>1 DEF ExecutorShutdown, advance, idleEnding, Whole
  <2>3. \A w \in Writer : write[w].step = "idle"
    BY <2>2, AllIdle
  <2> QED
    BY <1>19, <2>2, <2>3, Steps DEF ExecutorShutdown, advance, idleEnding, Whole
<1>20. CASE ExecutionOver
  <2>1. SUFFICES ASSUME ~raced' PROVE Whole'
    BY DEF Whole
  <2>2. tick = "idle" /\ sd \notin {"stopping", "stopped"} /\ ~raced
    BY <1>20, <2>1 DEF ExecutionOver, advance, idleEnding, Whole
  <2>3. \A w \in Writer : write[w].step = "idle"
    BY <2>2, AllIdle
  <2> QED
    BY <1>20, <2>2, <2>3, Steps DEF ExecutionOver, advance, idleEnding, Whole
<1>21. CASE Drained
  <2>1. SUFFICES ASSUME ~raced' PROVE Whole'
    BY DEF Whole
  <2>2. tick = "idle" /\ sd \notin {"stopping", "stopped"} /\ ~raced
    BY <1>21, <2>1 DEF Drained, advance, idleEnding, Whole
  <2>3. \A w \in Writer : write[w].step = "idle"
    BY <2>2, AllIdle
  <2> QED
    BY <1>21, <2>2, <2>3, Steps DEF Drained, advance, idleEnding, Whole
<1>22. CASE SayStopped
  <2>1. SUFFICES ASSUME ~raced' PROVE Whole'
    BY DEF Whole
  <2>2. ~raced /\ UNCHANGED file
    BY <1>22, <2>1 DEF SayStopped, advance, idleEnding
  <2>3. write["tick"].step = "idle" /\ write["shutdown"].step = "idle"
    BY <1>22, <2>2 DEF SayStopped, Whole, Writers, Idle
  <2>4. \A w \in Writer : write'[w].step \in {"idle", "open"}
    BY <1>22, <2>3 DEF SayStopped, begin, FileTypes, Writer
  <2> QED
    BY <1>22, <2>2, <2>4, Steps DEF SayStopped, advance, idleEnding, Whole
<1>23. CASE CloseStore
  <2>1. SUFFICES ASSUME ~raced' PROVE Whole'
    BY DEF Whole
  <2>2. tick = "idle" /\ sd \notin {"stopping", "stopped"} /\ ~raced
    BY <1>23, <2>1 DEF CloseStore, advance, idleEnding, Whole
  <2>3. \A w \in Writer : write[w].step = "idle"
    BY <2>2, AllIdle
  <2> QED
    BY <1>23, <2>2, <2>3, Steps DEF CloseStore, advance, idleEnding, Whole
<1>24. CASE ReleaseLock
  <2>1. SUFFICES ASSUME ~raced' PROVE Whole'
    BY DEF Whole
  <2>2. tick = "idle" /\ sd \notin {"stopping", "stopped"} /\ ~raced
    BY <1>24, <2>1 DEF ReleaseLock, idleEnding, Whole
  <2>3. \A w \in Writer : write[w].step = "idle"
    BY <2>2, AllIdle
  <2> QED
    BY <1>24, <2>2, <2>3, Steps DEF ReleaseLock, idleEnding, Whole
<1>25. CASE ShutdownFails
  <2>1. SUFFICES ASSUME ~raced' PROVE Whole'
    BY DEF Whole
  <2>2. tick = "idle" /\ sd \notin {"stopping", "stopped"} /\ ~raced
    BY <1>25, <2>1 DEF ShutdownFails, abandon, idleEnding, Whole
  <2>3. \A w \in Writer : write[w].step = "idle"
    BY <2>2, AllIdle
  <2> QED
    BY <1>25, <2>2, <2>3, Steps DEF ShutdownFails, abandon, idleEnding, Whole
<1>26. CASE SupervisorTick
  BY <1>26 DEF SupervisorTick, changed, quiet, Whole, BeatOf
<1>27. CASE AttemptReturns
  BY <1>27 DEF AttemptReturns, changed, quiet, Whole, BeatOf
<1>28. CASE AfterTick
  BY <1>28 DEF AfterTick, publish, Snapshot, quiet, Whole, BeatOf
<1>29. CASE LookAgain
  BY <1>29 DEF LookAgain, publish, Snapshot, quiet, Whole, BeatOf
<1>30. CASE DriveThrows
  BY <1>30 DEF DriveThrows, quiet, Whole, BeatOf
<1>31. ASSUME NEW s \in inFlight, NEW sent \in BOOLEAN, SnapshotSettled(s, sent) PROVE Whole'
  BY <1>31 DEF SnapshotSettled, Settled, Snapshot, quiet, Whole, BeatOf
<1>32. CASE Exit
  <2>1. \A w \in Writer : write'[w].step = "idle"
    BY <1>32 DEF Exit, gone, Idle
  <2> QED
    BY <1>32, <2>1 DEF Exit, gone, Whole
<1>33. CASE Kill
  <2>1. \A w \in Writer : write'[w].step = "idle"
    BY <1>33 DEF Kill, gone, Idle
  <2> QED
    BY <1>33, <2>1 DEF Kill, gone, Whole
<1> QED
  BY <1>1, <1>2, <1>3, <1>4, <1>5, <1>6, <1>7, <1>8, <1>9, <1>10, <1>11, <1>12, <1>13,
     <1>14, <1>15, <1>16, <1>17, <1>18, <1>19, <1>20, <1>21, <1>22, <1>23, <1>24,
     <1>25, <1>26, <1>27, <1>28, <1>29, <1>30, <1>31, <1>32, <1>33, Stepped

LEMMA OrderedStep ==
  ASSUME RunTypes, Ordered, [Next]_vars
  PROVE  Ordered'
<1> USE DEF Ordered, RunTypes, process, files, ending, durable, driving, sending
<1>1. CASE UNCHANGED vars
  BY <1>1 DEF vars
<1>2. CASE Boot
  BY <1>2 DEF Boot
<1>3. CASE FirstBeat
  BY <1>3 DEF FirstBeat
<1>4. CASE Ready
  BY <1>4 DEF Ready
<1>5. CASE PublishPresence
  BY <1>5 DEF PublishPresence
<1>6. CASE ResumeRuns
  <2>1. publish(Snapshot) \/ UNCHANGED sending
    BY <1>6 DEF ResumeRuns, StartDrive
  <2>2. Snapshot \subseteq {version} /\ version' = version
    BY <1>6 DEF ResumeRuns, StartDrive, Snapshot
  <2>3. shown' = shown /\ (inFlight' = inFlight \/ inFlight' \subseteq {version})
    BY <2>1, <2>2 DEF publish
  <2>4. CASE inFlight' = inFlight
    BY <2>2, <2>3, <2>4
  <2>5. CASE inFlight' \subseteq {version}
    <3>1. \A s \in inFlight' : s = version
      BY <2>5
    <3>2. inFlight' \subseteq 0 .. MaxVersion
      BY <2>5
    <3> QED
      BY <2>2, <2>3, <3>1, <3>2
  <2> QED
    BY <2>3, <2>4, <2>5
<1>7. CASE ClaimRound
  <2>1. publish(Snapshot) \/ UNCHANGED sending
    BY <1>7 DEF ClaimRound, StartDrive
  <2>2. Snapshot \subseteq {version} /\ version' = version
    BY <1>7 DEF ClaimRound, StartDrive, Snapshot
  <2>3. shown' = shown /\ (inFlight' = inFlight \/ inFlight' \subseteq {version})
    BY <2>1, <2>2 DEF publish
  <2>4. CASE inFlight' = inFlight
    BY <2>2, <2>3, <2>4
  <2>5. CASE inFlight' \subseteq {version}
    <3>1. \A s \in inFlight' : s = version
      BY <2>5
    <3>2. inFlight' \subseteq 0 .. MaxVersion
      BY <2>5
    <3> QED
      BY <2>2, <2>3, <3>1, <3>2
  <2> QED
    BY <2>3, <2>4, <2>5
<1>8. CASE Return
  BY <1>8 DEF Return
<1>9. CASE HeartbeatTimer
  BY <1>9 DEF HeartbeatTimer
<1>10. CASE TickRefreshed
  BY <1>10 DEF TickRefreshed, begin
<1>11. ASSUME NEW w \in Writer, OpenTemporary(w) PROVE Ordered'
  BY <1>11 DEF OpenTemporary
<1>12. ASSUME NEW w \in Writer, FillTemporary(w) PROVE Ordered'
  BY <1>12 DEF FillTemporary, BeatOf
<1>13. ASSUME NEW w \in Writer, RenameTemporary(w) PROVE Ordered'
  BY <1>13 DEF RenameTemporary, written, abandon, StepAfter, Idle
<1>14. ASSUME NEW w \in Writer, WriteFails(w) PROVE Ordered'
  BY <1>14 DEF WriteFails, written, abandon, Idle
<1>15. CASE Signal
  BY <1>15 DEF Signal, shutdown, Handlers
<1>16. CASE UncaughtException
  BY <1>16 DEF UncaughtException, shutdown, Handlers
<1>17. CASE ShutdownRefreshed
  BY <1>17 DEF ShutdownRefreshed, advance, StepAfter, begin, idleEnding
<1>18. CASE SayStopping
  BY <1>18 DEF SayStopping, advance, StepAfter, idleEnding
<1>19. CASE ExecutorShutdown
  BY <1>19 DEF ExecutorShutdown, advance, StepAfter, idleEnding
<1>20. CASE ExecutionOver
  BY <1>20 DEF ExecutionOver, advance, StepAfter, idleEnding
<1>21. CASE Drained
  BY <1>21 DEF Drained, advance, StepAfter, idleEnding
<1>22. CASE SayStopped
  BY <1>22 DEF SayStopped, advance, StepAfter, begin, idleEnding
<1>23. CASE CloseStore
  BY <1>23 DEF CloseStore, advance, StepAfter, idleEnding
<1>24. CASE ReleaseLock
  BY <1>24 DEF ReleaseLock, idleEnding
<1>25. CASE ShutdownFails
  BY <1>25 DEF ShutdownFails, abandon, idleEnding
<1>26. CASE SupervisorTick
  BY <1>26 DEF SupervisorTick, changed, quiet
<1>27. CASE AttemptReturns
  BY <1>27 DEF AttemptReturns, changed, quiet
<1>28. CASE AfterTick
  <2>1. publish(Snapshot) \/ UNCHANGED sending
    BY <1>28 DEF AfterTick, quiet
  <2>2. Snapshot \subseteq {version} /\ version' = version
    BY <1>28 DEF AfterTick, quiet, Snapshot
  <2>3. shown' = shown /\ (inFlight' = inFlight \/ inFlight' \subseteq {version})
    BY <2>1, <2>2 DEF publish
  <2>4. CASE inFlight' = inFlight
    BY <2>2, <2>3, <2>4
  <2>5. CASE inFlight' \subseteq {version}
    <3>1. \A s \in inFlight' : s = version
      BY <2>5
    <3>2. inFlight' \subseteq 0 .. MaxVersion
      BY <2>5
    <3> QED
      BY <2>2, <2>3, <3>1, <3>2
  <2> QED
    BY <2>3, <2>4, <2>5
<1>29. CASE LookAgain
  <2>1. publish(Snapshot) \/ UNCHANGED sending
    BY <1>29 DEF LookAgain, quiet
  <2>2. Snapshot \subseteq {version} /\ version' = version
    BY <1>29 DEF LookAgain, quiet, Snapshot
  <2>3. shown' = shown /\ (inFlight' = inFlight \/ inFlight' \subseteq {version})
    BY <2>1, <2>2 DEF publish
  <2>4. CASE inFlight' = inFlight
    BY <2>2, <2>3, <2>4
  <2>5. CASE inFlight' \subseteq {version}
    <3>1. \A s \in inFlight' : s = version
      BY <2>5
    <3>2. inFlight' \subseteq 0 .. MaxVersion
      BY <2>5
    <3> QED
      BY <2>2, <2>3, <3>1, <3>2
  <2> QED
    BY <2>3, <2>4, <2>5
<1>30. CASE DriveThrows
  BY <1>30 DEF DriveThrows, quiet
<1>31. ASSUME NEW s \in inFlight, NEW sent \in BOOLEAN, SnapshotSettled(s, sent) PROVE Ordered'
  BY <1>31 DEF SnapshotSettled, Settled, Snapshot, quiet
<1>32. CASE Exit
  BY <1>32 DEF Exit, gone, Idle, Ended
<1>33. CASE Kill
  BY <1>33 DEF Kill, gone, Idle
<1> QED
  BY <1>1, <1>2, <1>3, <1>4, <1>5, <1>6, <1>7, <1>8, <1>9, <1>10, <1>11, <1>12, <1>13,
     <1>14, <1>15, <1>16, <1>17, <1>18, <1>19, <1>20, <1>21, <1>22, <1>23, <1>24,
     <1>25, <1>26, <1>27, <1>28, <1>29, <1>30, <1>31, <1>32, <1>33, Stepped

-----------------------------------------------------------------------------
(* The theorems. *)

Strong == TypeOK /\ HostInv

LEMMA InitStrong == Init => Strong
<1> SUFFICES ASSUME Init PROVE Strong
  OBVIOUS
<1> USE DEF Init, PublisherInit
<1>1. FlagTypes /\ RunTypes
  <2>1. FlagTypes
    BY DEF FlagTypes
  <2>2. version = 0 /\ shown = 0 /\ inFlight = {} /\ 0 \in 0 .. MaxVersion
    OBVIOUS
  <2>3. RunTypes
    BY <2>2 DEF RunTypes
  <2> QED
    BY <2>1, <2>3
<1>2. StageTypes
  BY DEF StageTypes, StepsOf
<1>3. FileTypes
  BY DEF FileTypes, Content, Writer
<1>4. Early /\ Progress /\ Code
  BY DEF Early, Progress, Code, Spoken, Awaited
<1>5. Writers /\ Whole
  BY DEF Writers, Whole, Writer, Idle, BeatOf
<1>6. Ordered
  BY DEF Ordered
<1> QED
  BY <1>1, <1>2, <1>3, <1>4, <1>5, <1>6, Types DEF Strong, HostInv

LEMMA StrongStep == Strong /\ [Next]_vars => Strong'
<1> SUFFICES ASSUME Strong, [Next]_vars PROVE Strong'
  OBVIOUS
<1>1. FlagTypes /\ StageTypes /\ FileTypes /\ RunTypes
  BY Types DEF Strong
<1>2. Early /\ Progress /\ Code /\ Writers /\ Whole /\ Ordered
  BY DEF Strong, HostInv
<1>3. FlagTypes' /\ StageTypes' /\ FileTypes' /\ RunTypes'
  BY <1>1, <1>2, FlagType, StageType, FileType, RunType
<1>4. Early' /\ Progress' /\ Code' /\ Writers' /\ Whole' /\ Ordered'
  BY <1>1, <1>2, EarlyStep, ProgressStep, CodeStep, WritersStep, WholeStep, OrderedStep
<1>5. TypeOK'
  BY <1>3 DEF TypeOK, FlagTypes, StageTypes, FileTypes, RunTypes
<1> QED
  BY <1>4, <1>5 DEF Strong, HostInv

(* The strengthened invariant holds in every reachable state. *)
THEOREM HostInvariant == Spec => []Strong
<1> QED
  BY InitStrong, StrongStep, PTL DEF Spec

(* Every variable of the host keeps its type. *)
THEOREM TypeCorrect == Spec => []TypeOK
<1>1. Strong => TypeOK
  BY DEF Strong
<1> QED
  BY <1>1, HostInvariant, PTL

(* What status prints is so: "stopped" is the end of an orderly shutdown, and an   *)
(* orderly shutdown that raced with no heartbeat is seen as "stopped" (status.ts). *)
THEOREM StatusHonest == Spec => []StatusTrue
<1>1. Strong => StatusTrue
  <2> SUFFICES ASSUME Early, Progress, Whole, StageTypes, FlagTypes PROVE StatusTrue
    BY Types DEF Strong, HostInv
  <2>1. Status(TRUE) = "state-corrupt" => file["target"] = "torn"
    BY DEF Status
  <2>2. Status(TRUE) = "stopped" => file["target"] = "stopped" /\ ~lock
    BY DEF Status
  <2>3. Status(TRUE) = "running" => file["target"] = "running" /\ lock /\ alive
    BY DEF Status
  <2>4. file["target"] = "stopped" /\ ~lock => Status(TRUE) = "stopped"
    BY DEF Status
  <2>5. file["target"] = "stopped" /\ ~lock =>
          logged = "host.stopped" /\ store = "closed" /\ sd = "done"
    BY DEF Early, Progress, Spoken
  <2>6. file["target"] = "running" =>
          sd \in {"no", "refresh", "stopping", "failed"} \/ raced
    BY DEF Whole, StageTypes, StepsOf
  <2>7. sd = "done" /\ ~raced => file["target"] = "stopped" /\ ~lock
    BY DEF Whole, Progress
  <2>8. file["target"] = "torn" => raced
    BY DEF Whole
  <2> QED
    BY <2>1, <2>2, <2>3, <2>4, <2>5, <2>6, <2>7, <2>8 DEF StatusTrue
<1> QED
  BY <1>1, HostInvariant, PTL

(* Once the lock is given up the database is closed and no attempt runs, unless the *)
(* executor's shutdown gave up on it (shutdownHostRuntime's order of steps).        *)
THEOREM LockOutlivesWork == Spec => []LockCoversWork
<1>1. Strong => LockCoversWork
  BY DEF Strong, HostInv, Early, Progress, Spoken, Awaited, LockCoversWork
<1> QED
  BY <1>1, HostInvariant, PTL

(* The code 1 of an uncaught exception survives the loop's own exit code. *)
THEOREM ExceptionCode == Spec => []ExceptionExitsNonZero
<1>1. Strong => ExceptionExitsNonZero
  BY DEF Strong, HostInv, Code, ExceptionExitsNonZero
<1> QED
  BY <1>1, HostInvariant, PTL

LEMMA ShownStep ==
  ASSUME RunTypes, Ordered, [Next]_vars
  PROVE  shown' = shown \/ shown' \in inFlight
<1> USE DEF process, files, ending, durable, driving, sending
<1>1. CASE UNCHANGED vars
  BY <1>1 DEF vars
<1>2. CASE Boot
  BY <1>2 DEF Boot
<1>3. CASE FirstBeat
  BY <1>3 DEF FirstBeat
<1>4. CASE Ready
  BY <1>4 DEF Ready
<1>5. CASE PublishPresence
  BY <1>5 DEF PublishPresence
<1>6. CASE ResumeRuns
  BY <1>6 DEF ResumeRuns, StartDrive, publish, Snapshot
<1>7. CASE ClaimRound
  BY <1>7 DEF ClaimRound, StartDrive, publish, Snapshot
<1>8. CASE Return
  BY <1>8 DEF Return
<1>9. CASE HeartbeatTimer
  BY <1>9 DEF HeartbeatTimer
<1>10. CASE TickRefreshed
  BY <1>10 DEF TickRefreshed, begin
<1>11. ASSUME NEW w \in Writer, OpenTemporary(w) PROVE shown' = shown \/ shown' \in inFlight
  BY <1>11 DEF OpenTemporary
<1>12. ASSUME NEW w \in Writer, FillTemporary(w) PROVE shown' = shown \/ shown' \in inFlight
  BY <1>12 DEF FillTemporary, BeatOf
<1>13. ASSUME NEW w \in Writer, RenameTemporary(w) PROVE shown' = shown \/ shown' \in inFlight
  BY <1>13 DEF RenameTemporary, written, abandon, StepAfter, Idle
<1>14. ASSUME NEW w \in Writer, WriteFails(w) PROVE shown' = shown \/ shown' \in inFlight
  BY <1>14 DEF WriteFails, written, abandon, Idle
<1>15. CASE Signal
  BY <1>15 DEF Signal, shutdown, Handlers
<1>16. CASE UncaughtException
  BY <1>16 DEF UncaughtException, shutdown, Handlers
<1>17. CASE ShutdownRefreshed
  BY <1>17 DEF ShutdownRefreshed, advance, StepAfter, begin, idleEnding
<1>18. CASE SayStopping
  BY <1>18 DEF SayStopping, advance, StepAfter, idleEnding
<1>19. CASE ExecutorShutdown
  BY <1>19 DEF ExecutorShutdown, advance, StepAfter, idleEnding
<1>20. CASE ExecutionOver
  BY <1>20 DEF ExecutionOver, advance, StepAfter, idleEnding
<1>21. CASE Drained
  BY <1>21 DEF Drained, advance, StepAfter, idleEnding
<1>22. CASE SayStopped
  BY <1>22 DEF SayStopped, advance, StepAfter, begin, idleEnding
<1>23. CASE CloseStore
  BY <1>23 DEF CloseStore, advance, StepAfter, idleEnding
<1>24. CASE ReleaseLock
  BY <1>24 DEF ReleaseLock, idleEnding
<1>25. CASE ShutdownFails
  BY <1>25 DEF ShutdownFails, abandon, idleEnding
<1>26. CASE SupervisorTick
  BY <1>26 DEF SupervisorTick, changed, quiet
<1>27. CASE AttemptReturns
  BY <1>27 DEF AttemptReturns, changed, quiet
<1>28. CASE AfterTick
  BY <1>28 DEF AfterTick, publish, Snapshot, quiet
<1>29. CASE LookAgain
  BY <1>29 DEF LookAgain, publish, Snapshot, quiet
<1>30. CASE DriveThrows
  BY <1>30 DEF DriveThrows, quiet
<1>31. ASSUME NEW s \in inFlight, NEW sent \in BOOLEAN, SnapshotSettled(s, sent) PROVE shown' = shown \/ shown' \in inFlight
  BY <1>31 DEF SnapshotSettled, Settled, Snapshot, quiet
<1>32. CASE Exit
  BY <1>32 DEF Exit, gone, Idle, Ended
<1>33. CASE Kill
  BY <1>33 DEF Kill, gone, Idle
<1> QED
  BY <1>1, <1>2, <1>3, <1>4, <1>5, <1>6, <1>7, <1>8, <1>9, <1>10, <1>11, <1>12, <1>13,
     <1>14, <1>15, <1>16, <1>17, <1>18, <1>19, <1>20, <1>21, <1>22, <1>23, <1>24,
     <1>25, <1>26, <1>27, <1>28, <1>29, <1>30, <1>31, <1>32, <1>33, Stepped

(* publishRunSnapshot's upserts never take the control plane back to an older state. *)
THEOREM PublishedInOrder == Spec => SnapshotsInOrder
<1>1. Strong /\ [Next]_vars => [shown' >= shown]_shown
  <2> SUFFICES ASSUME Strong, [Next]_vars PROVE shown' >= shown
    OBVIOUS
  <2>1. RunTypes /\ Ordered
    BY Types DEF Strong, HostInv
  <2>2. shown' = shown \/ shown' \in inFlight
    BY <2>1, ShownStep
  <2>3. shown \in Nat /\ \A s \in inFlight : s \in Nat /\ shown <= s
    BY <2>1 DEF RunTypes, Ordered
  <2> QED
    BY <2>2, <2>3
<1> QED
  BY <1>1, HostInvariant, PTL DEF Spec, SnapshotsInOrder
=============================================================================
