------------------------ MODULE ProcessRunner_proofs ------------------------
(***************************************************************************)
(* Proofs about ProcessRunner, for a process tree of any depth and any     *)
(* bound on the waits: types; the first cause is the one reported; a       *)
(* settled run arms nothing and ends only what it had given up; a          *)
(* terminated run was killed before it was reported; and on Windows        *)
(* nothing the snapshot had seen outlives a run without possibleSurvivors. *)
(***************************************************************************)
EXTENDS ProcessRunner, TLAPS

USE DepthAssumption, MaxWaitsAssumption

(* Each stage of a run has its own timers, and its own cause. *)
Staged ==
  /\ state = "running" =>
       /\ first = "none" /\ kill = "none" /\ attempts = 0
       /\ timers \cap {"grace", "postKill", "retry"} = {}
  /\ state = "terminating" =>
       /\ spawned /\ reason = first /\ first \notin {"none", "exited"}
       /\ timers \subseteq {"grace", "postKill", "retry"}
  /\ state = "settled" =>
       /\ outcome = first /\ first # "none" /\ timers = {}
       /\ spawned /\ outcome # "exited" =>
            attempts > 0 /\ (platform = "win32" => kill = "over")

(* posix: at most two kills, one at a time. *)
Posix ==
  platform = "posix" =>
    /\ kill \in {"none", "pending"}
    /\ kill = "pending" => attempts \in {1, 2} /\ timers \cap {"grace", "retry"} = {}
    /\ "grace" \in timers => attempts = 0 /\ "retry" \notin timers
    /\ "retry" \in timers => attempts = 1
    /\ "postKill" \in timers => attempts > 0
    /\ abandoned = {}
    /\ state = "settled" /\ kill = "pending" => waits > MaxWaits

(* win32: the steps of the tree's termination, and what they leave alive. *)
Windows32 ==
  platform = "win32" =>
    /\ kill # "pending" /\ timers \cap {"grace", "retry"} = {}
    /\ kill \in {"snapshot", "taskkill", "sweep"} => state = "terminating" /\ timers = {}
    /\ kill = "none" => state # "terminating" /\ captured = {}
    /\ kill \in {"none", "snapshot", "taskkill"} => attempts = 0
    /\ kill \in {"sweep", "over"} => attempts = 1
    /\ "postKill" \in timers => kill = "over"
    /\ kill = "taskkill" /\ captured = {} => suspect
    /\ kill = "sweep" => captured # {}
    /\ abandoned # {} => kill \in {"sweep", "over"} /\ suspect
    /\ kill = "over" /\ ~suspect => captured # {} /\ alive \cap captured = {}

RunInv == Staged /\ Posix /\ Windows32 /\ captured \subseteq born
LEMMA Stepped ==
  ASSUME [Next]_vars
  PROVE  \/ UNCHANGED vars
         \/ \E p \in Process : Fork(p)
         \/ \E p \in Process : Exit(p)
         \/ Output
         \/ Cancel
         \/ SpawnError
         \/ Close
         \/ Poll
         \/ Scanned
         \/ \E ok \in BOOLEAN : Killed(ok)
         \/ \E t \in Timeout : TimedOut(t)
         \/ \E t \in {"grace", "retry"} : forceKill(t)
         \/ PostKill
         \/ Snapshot
         \/ Taskkill
         \/ Sweep
         \/ \E command \in {"taskkill", "sweep"} : LateKill(command)
BY DEF Next, Clock, Windows

-----------------------------------------------------------------------------
(* Types, one group of variables at a time. *)

CauseTypes ==
  /\ state \in {"running", "terminating", "settled"}
  /\ reason \in Cause \cup {"none"} /\ outcome \in Cause \cup {"none"}
  /\ first \in Cause \cup {"none"}

LEMMA CauseType ==
  ASSUME CauseTypes, [Next]_vars
  PROVE  CauseTypes'
<1> USE DEF CauseTypes, Cause, Timeout, process, killing
<1>1. CASE UNCHANGED vars
  BY <1>1 DEF vars
<1>2. ASSUME NEW p \in Process, Fork(p) PROVE CauseTypes'
  BY <1>2 DEF Fork
<1>3. ASSUME NEW p \in Process, Exit(p) PROVE CauseTypes'
  BY <1>3 DEF Exit
<1>4. CASE Output
  BY <1>4 DEF Output, markActivity, terminate, Saw, settle
<1>5. CASE Cancel
  BY <1>5 DEF Cancel, terminate, Saw, settle
<1>6. CASE SpawnError
  BY <1>6 DEF SpawnError, terminate, Saw, settle
<1>7. CASE Close
  BY <1>7 DEF Close, Saw, settle
<1>8. CASE Poll
  BY <1>8 DEF Poll
<1>9. CASE Scanned
  BY <1>9 DEF Scanned, markActivity
<1>10. ASSUME NEW ok \in BOOLEAN, Killed(ok) PROVE CauseTypes'
  BY <1>10 DEF Killed, Struck, settle
<1>11. ASSUME NEW t \in Timeout, TimedOut(t) PROVE CauseTypes'
  BY <1>11 DEF TimedOut, terminate, Saw, settle
<1>12. ASSUME NEW t \in {"grace", "retry"}, forceKill(t) PROVE CauseTypes'
  BY <1>12 DEF forceKill
<1>13. CASE PostKill
  BY <1>13 DEF PostKill, settle
<1>14. CASE Snapshot
  BY <1>14 DEF Snapshot, Tree
<1>15. CASE Taskkill
  BY <1>15 DEF Taskkill, Unsure, Struck, TreeOver, settle, Tree
<1>16. CASE Sweep
  BY <1>16 DEF Sweep, Unsure, Struck, TreeOver, settle
<1>17. ASSUME NEW command \in {"taskkill", "sweep"}, LateKill(command) PROVE CauseTypes'
  BY <1>17 DEF LateKill, Struck
<1> QED
  BY <1>1, <1>2, <1>3, <1>4, <1>5, <1>6, <1>7, <1>8, <1>9,
     <1>10, <1>11, <1>12, <1>13, <1>14, <1>15, <1>16, <1>17, Stepped

TimerTypes == timers \subseteq Timer

LEMMA TimerType ==
  ASSUME TimerTypes, [Next]_vars
  PROVE  TimerTypes'
<1> USE DEF TimerTypes, Timer, Timeout, process, killing
<1>1. CASE UNCHANGED vars
  BY <1>1 DEF vars
<1>2. ASSUME NEW p \in Process, Fork(p) PROVE TimerTypes'
  BY <1>2 DEF Fork
<1>3. ASSUME NEW p \in Process, Exit(p) PROVE TimerTypes'
  BY <1>3 DEF Exit
<1>4. CASE Output
  BY <1>4 DEF Output, markActivity, terminate, Saw, settle
<1>5. CASE Cancel
  BY <1>5 DEF Cancel, terminate, Saw, settle
<1>6. CASE SpawnError
  BY <1>6 DEF SpawnError, terminate, Saw, settle
<1>7. CASE Close
  BY <1>7 DEF Close, Saw, settle
<1>8. CASE Poll
  BY <1>8 DEF Poll
<1>9. CASE Scanned
  BY <1>9 DEF Scanned, markActivity
<1>10. ASSUME NEW ok \in BOOLEAN, Killed(ok) PROVE TimerTypes'
  BY <1>10 DEF Killed, Struck, settle
<1>11. ASSUME NEW t \in Timeout, TimedOut(t) PROVE TimerTypes'
  BY <1>11 DEF TimedOut, terminate, Saw, settle
<1>12. ASSUME NEW t \in {"grace", "retry"}, forceKill(t) PROVE TimerTypes'
  BY <1>12 DEF forceKill
<1>13. CASE PostKill
  BY <1>13 DEF PostKill, settle
<1>14. CASE Snapshot
  BY <1>14 DEF Snapshot, Tree
<1>15. CASE Taskkill
  BY <1>15 DEF Taskkill, Unsure, Struck, TreeOver, settle, Tree
<1>16. CASE Sweep
  BY <1>16 DEF Sweep, Unsure, Struck, TreeOver, settle
<1>17. ASSUME NEW command \in {"taskkill", "sweep"}, LateKill(command) PROVE TimerTypes'
  BY <1>17 DEF LateKill, Struck
<1> QED
  BY <1>1, <1>2, <1>3, <1>4, <1>5, <1>6, <1>7, <1>8, <1>9,
     <1>10, <1>11, <1>12, <1>13, <1>14, <1>15, <1>16, <1>17, Stepped

FlagTypes ==
  /\ platform \in {"win32", "posix"} /\ spawned \in BOOLEAN
  /\ scanning \in BOOLEAN /\ closed \in BOOLEAN /\ suspect \in BOOLEAN
  /\ abandoned \subseteq {"taskkill", "sweep"}

LEMMA FlagType ==
  ASSUME FlagTypes, [Next]_vars
  PROVE  FlagTypes'
<1> USE DEF FlagTypes, process, killing
<1>1. CASE UNCHANGED vars
  BY <1>1 DEF vars
<1>2. ASSUME NEW p \in Process, Fork(p) PROVE FlagTypes'
  BY <1>2 DEF Fork
<1>3. ASSUME NEW p \in Process, Exit(p) PROVE FlagTypes'
  BY <1>3 DEF Exit
<1>4. CASE Output
  BY <1>4 DEF Output, markActivity, terminate, Saw, settle
<1>5. CASE Cancel
  BY <1>5 DEF Cancel, terminate, Saw, settle
<1>6. CASE SpawnError
  BY <1>6 DEF SpawnError, terminate, Saw, settle
<1>7. CASE Close
  BY <1>7 DEF Close, Saw, settle
<1>8. CASE Poll
  BY <1>8 DEF Poll
<1>9. CASE Scanned
  BY <1>9 DEF Scanned, markActivity
<1>10. ASSUME NEW ok \in BOOLEAN, Killed(ok) PROVE FlagTypes'
  BY <1>10 DEF Killed, Struck, settle
<1>11. ASSUME NEW t \in Timeout, TimedOut(t) PROVE FlagTypes'
  BY <1>11 DEF TimedOut, terminate, Saw, settle
<1>12. ASSUME NEW t \in {"grace", "retry"}, forceKill(t) PROVE FlagTypes'
  BY <1>12 DEF forceKill
<1>13. CASE PostKill
  BY <1>13 DEF PostKill, settle
<1>14. CASE Snapshot
  BY <1>14 DEF Snapshot, Tree
<1>15. CASE Taskkill
  BY <1>15 DEF Taskkill, Unsure, Struck, TreeOver, settle, Tree
<1>16. CASE Sweep
  BY <1>16 DEF Sweep, Unsure, Struck, TreeOver, settle
<1>17. ASSUME NEW command \in {"taskkill", "sweep"}, LateKill(command) PROVE FlagTypes'
  BY <1>17 DEF LateKill, Struck
<1> QED
  BY <1>1, <1>2, <1>3, <1>4, <1>5, <1>6, <1>7, <1>8, <1>9,
     <1>10, <1>11, <1>12, <1>13, <1>14, <1>15, <1>16, <1>17, Stepped

KillTypes == kill \in Kill /\ attempts \in 0 .. 2 /\ waits \in 0 .. MaxWaits + 1

LEMMA KillType ==
  ASSUME KillTypes, FlagTypes, RunInv, [Next]_vars
  PROVE  KillTypes'
<1> USE DEF KillTypes, Kill, process, killing
<1>1. CASE UNCHANGED vars
  BY <1>1 DEF vars
<1>2. ASSUME NEW p \in Process, Fork(p) PROVE KillTypes'
  BY <1>2 DEF Fork
<1>3. ASSUME NEW p \in Process, Exit(p) PROVE KillTypes'
  BY <1>3 DEF Exit
<1>4. CASE Output
  BY <1>4 DEF Output, markActivity, terminate, Saw, settle
<1>5. CASE Cancel
  BY <1>5 DEF Cancel, terminate, Saw, settle
<1>6. CASE SpawnError
  BY <1>6 DEF SpawnError, terminate, Saw, settle
<1>7. CASE Close
  BY <1>7 DEF Close, Saw, settle
<1>8. CASE Poll
  BY <1>8 DEF Poll
<1>9. CASE Scanned
  BY <1>9 DEF Scanned, markActivity
<1>10. ASSUME NEW ok \in BOOLEAN, Killed(ok) PROVE KillTypes'
  BY <1>10 DEF Killed, Struck, settle
<1>11. ASSUME NEW t \in Timeout, TimedOut(t) PROVE KillTypes'
  BY <1>11 DEF TimedOut, terminate, Saw, settle
<1>12. ASSUME NEW t \in {"grace", "retry"}, forceKill(t) PROVE KillTypes'
  <2>1. attempts \in {0, 1}
    BY <1>12 DEF forceKill, FlagTypes, RunInv, Posix, Windows32
  <2> QED
    BY <1>12, <2>1 DEF forceKill
<1>13. CASE PostKill
  BY <1>13 DEF PostKill, settle
<1>14. CASE Snapshot
  BY <1>14 DEF Snapshot, Tree
<1>15. CASE Taskkill
  <2>1. attempts = 0
    BY <1>15 DEF Taskkill, FlagTypes, RunInv, Posix, Windows32
  <2> QED
    BY <1>15, <2>1 DEF Taskkill, Unsure, Struck, TreeOver, settle, Tree
<1>16. CASE Sweep
  BY <1>16 DEF Sweep, Unsure, Struck, TreeOver, settle
<1>17. ASSUME NEW command \in {"taskkill", "sweep"}, LateKill(command) PROVE KillTypes'
  BY <1>17 DEF LateKill, Struck
<1> QED
  BY <1>1, <1>2, <1>3, <1>4, <1>5, <1>6, <1>7, <1>8, <1>9,
     <1>10, <1>11, <1>12, <1>13, <1>14, <1>15, <1>16, <1>17, Stepped

ProcessTypes ==
  /\ captured \subseteq Process /\ alive \subseteq born /\ born \subseteq Process
  /\ killed \subseteq born

LEMMA ProcessType ==
  ASSUME ProcessTypes, [Next]_vars
  PROVE  ProcessTypes'
<1> USE DEF ProcessTypes, process, killing
<1>1. CASE UNCHANGED vars
  BY <1>1 DEF vars
<1>2. ASSUME NEW p \in Process, Fork(p) PROVE ProcessTypes'
  BY <1>2 DEF Fork
<1>3. ASSUME NEW p \in Process, Exit(p) PROVE ProcessTypes'
  BY <1>3 DEF Exit
<1>4. CASE Output
  BY <1>4 DEF Output, markActivity, terminate, Saw, settle
<1>5. CASE Cancel
  BY <1>5 DEF Cancel, terminate, Saw, settle
<1>6. CASE SpawnError
  BY <1>6 DEF SpawnError, terminate, Saw, settle
<1>7. CASE Close
  BY <1>7 DEF Close, Saw, settle
<1>8. CASE Poll
  BY <1>8 DEF Poll
<1>9. CASE Scanned
  BY <1>9 DEF Scanned, markActivity
<1>10. ASSUME NEW ok \in BOOLEAN, Killed(ok) PROVE ProcessTypes'
  BY <1>10 DEF Killed, Struck, settle
<1>11. ASSUME NEW t \in Timeout, TimedOut(t) PROVE ProcessTypes'
  BY <1>11 DEF TimedOut, terminate, Saw, settle
<1>12. ASSUME NEW t \in {"grace", "retry"}, forceKill(t) PROVE ProcessTypes'
  BY <1>12 DEF forceKill
<1>13. CASE PostKill
  BY <1>13 DEF PostKill, settle
<1>14. CASE Snapshot
  BY <1>14 DEF Snapshot, Tree
<1>15. CASE Taskkill
  BY <1>15 DEF Taskkill, Unsure, Struck, TreeOver, settle, Tree
<1>16. CASE Sweep
  BY <1>16 DEF Sweep, Unsure, Struck, TreeOver, settle
<1>17. ASSUME NEW command \in {"taskkill", "sweep"}, LateKill(command) PROVE ProcessTypes'
  BY <1>17 DEF LateKill, Struck
<1> QED
  BY <1>1, <1>2, <1>3, <1>4, <1>5, <1>6, <1>7, <1>8, <1>9,
     <1>10, <1>11, <1>12, <1>13, <1>14, <1>15, <1>16, <1>17, Stepped

LEMMA Types == TypeOK <=> CauseTypes /\ TimerTypes /\ FlagTypes /\ KillTypes /\ ProcessTypes
BY DEF TypeOK, CauseTypes, TimerTypes, FlagTypes, KillTypes, ProcessTypes

LEMMA TypeStep == TypeOK /\ RunInv /\ [Next]_vars => TypeOK'
<1> SUFFICES ASSUME TypeOK, RunInv, [Next]_vars PROVE TypeOK'
  OBVIOUS
<1>1. CauseTypes' /\ TimerTypes' /\ FlagTypes' /\ KillTypes' /\ ProcessTypes'
  BY Types, CauseType, TimerType, FlagType, KillType, ProcessType
<1> QED
  BY <1>1 DEF TypeOK, CauseTypes, TimerTypes, FlagTypes, KillTypes, ProcessTypes

-----------------------------------------------------------------------------
(* The strengthening is inductive, one part at a time. *)

LEMMA StagedStep ==
  ASSUME TypeOK, CauseTypes, TimerTypes, FlagTypes, KillTypes, RunInv, Staged, [Next]_vars
  PROVE  Staged'
<1> USE DEF Staged, CauseTypes, TimerTypes, FlagTypes, KillTypes, Cause, Timer, Timeout, process, killing
<1>1. CASE UNCHANGED vars
  BY <1>1 DEF vars
<1>2. ASSUME NEW p \in Process, Fork(p) PROVE Staged'
  BY <1>2 DEF Fork
<1>3. ASSUME NEW p \in Process, Exit(p) PROVE Staged'
  BY <1>3 DEF Exit
<1>4. CASE Output
  BY <1>4 DEF Output, markActivity, terminate, Saw, settle
<1>5. CASE Cancel
  BY <1>5 DEF Cancel, terminate, Saw, settle
<1>6. CASE SpawnError
  BY <1>6 DEF SpawnError, terminate, Saw, settle
<1>7. CASE Close
  <2>1. CASE state = "running"
    BY <1>7, <2>1 DEF Close, Saw, settle
  <2>2. CASE state # "running"
    <3>1. platform = "win32" /\ kill = "over" => attempts = 1
      BY DEF RunInv, Windows32
    <3>2. UNCHANGED <<spawned, platform, reason, kill, attempts, first>>
      BY <1>7, <2>2 DEF Close
    <3>3. CASE UNCHANGED <<state, timers, outcome>>
      BY <3>2, <3>3
    <3>4. CASE settle(reason) /\ platform = "win32" /\ kill = "over" /\ state = "terminating"
      BY <3>1, <3>2, <3>4 DEF settle
    <3> QED
      BY <1>7, <2>2, <3>3, <3>4 DEF Close
  <2> QED
    BY <2>1, <2>2
<1>8. CASE Poll
  BY <1>8 DEF Poll
<1>9. CASE Scanned
  BY <1>9 DEF Scanned, markActivity
<1>10. ASSUME NEW ok \in BOOLEAN, Killed(ok) PROVE Staged'
  <2>1. attempts > 0 /\ platform # "win32" /\ state # "running"
    BY <1>10 DEF Killed, RunInv, Posix
  <2> QED
    BY <1>10, <2>1 DEF Killed, Struck, settle
<1>11. ASSUME NEW t \in Timeout, TimedOut(t) PROVE Staged'
  BY <1>11 DEF TimedOut, terminate, Saw, settle
<1>12. ASSUME NEW t \in {"grace", "retry"}, forceKill(t) PROVE Staged'
  BY <1>12 DEF forceKill
<1>13. CASE PostKill
  <2>1. attempts > 0 /\ (platform = "win32" => kill = "over")
    BY <1>13 DEF PostKill, RunInv, Posix, Windows32
  <2>2. state = "terminating"
    BY <1>13 DEF PostKill
  <2> QED
    BY <1>13, <2>1, <2>2 DEF PostKill, settle
<1>14. CASE Snapshot
  BY <1>14 DEF Snapshot, Tree
<1>15. CASE Taskkill
  <2>1. attempts = 0 /\ platform = "win32" /\ state = "terminating" /\ timers = {}
    BY <1>15 DEF Taskkill, RunInv, Posix, Windows32
  <2> QED
    BY <1>15, <2>1 DEF Taskkill, Unsure, Struck, TreeOver, settle
<1>16. CASE Sweep
  <2>1. attempts = 1 /\ platform = "win32" /\ state = "terminating" /\ timers = {}
    BY <1>16 DEF Sweep, RunInv, Posix, Windows32
  <2> QED
    BY <1>16, <2>1 DEF Sweep, Unsure, Struck, TreeOver, settle
<1>17. ASSUME NEW command \in {"taskkill", "sweep"}, LateKill(command) PROVE Staged'
  BY <1>17 DEF LateKill, Struck
<1> QED
  BY <1>1, <1>2, <1>3, <1>4, <1>5, <1>6, <1>7, <1>8, <1>9,
     <1>10, <1>11, <1>12, <1>13, <1>14, <1>15, <1>16, <1>17, Stepped

LEMMA PosixStep ==
  ASSUME CauseTypes, FlagTypes, KillTypes, Staged, Posix, [Next]_vars
  PROVE  Posix'
<1> USE DEF Posix, CauseTypes, FlagTypes, KillTypes, Kill, Staged, process, killing
<1>1. CASE UNCHANGED vars
  BY <1>1 DEF vars
<1>2. ASSUME NEW p \in Process, Fork(p) PROVE Posix'
  BY <1>2 DEF Fork
<1>3. ASSUME NEW p \in Process, Exit(p) PROVE Posix'
  BY <1>3 DEF Exit
<1>4. CASE Output
  BY <1>4 DEF Output, markActivity, terminate, Saw, settle
<1>5. CASE Cancel
  BY <1>5 DEF Cancel, terminate, Saw, settle
<1>6. CASE SpawnError
  BY <1>6 DEF SpawnError, terminate, Saw, settle
<1>7. CASE Close
  BY <1>7 DEF Close, Saw, settle
<1>8. CASE Poll
  BY <1>8 DEF Poll
<1>9. CASE Scanned
  BY <1>9 DEF Scanned, markActivity
<1>10. ASSUME NEW ok \in BOOLEAN, Killed(ok) PROVE Posix'
  BY <1>10 DEF Killed, Struck, settle
<1>11. ASSUME NEW t \in Timeout, TimedOut(t) PROVE Posix'
  BY <1>11 DEF TimedOut, terminate, Saw, settle
<1>12. ASSUME NEW t \in {"grace", "retry"}, forceKill(t) PROVE Posix'
  BY <1>12 DEF forceKill
<1>13. CASE PostKill
  BY <1>13 DEF PostKill, settle
<1>14. CASE Snapshot
  BY <1>14 DEF Snapshot, Tree
<1>15. CASE Taskkill
  BY <1>15 DEF Taskkill, Unsure, Struck, TreeOver, settle, Tree
<1>16. CASE Sweep
  BY <1>16 DEF Sweep, Unsure, Struck, TreeOver, settle
<1>17. ASSUME NEW command \in {"taskkill", "sweep"}, LateKill(command) PROVE Posix'
  BY <1>17 DEF LateKill, Struck
<1> QED
  BY <1>1, <1>2, <1>3, <1>4, <1>5, <1>6, <1>7, <1>8, <1>9,
     <1>10, <1>11, <1>12, <1>13, <1>14, <1>15, <1>16, <1>17, Stepped

LEMMA WindowsStep ==
  ASSUME FlagTypes, KillTypes, ProcessTypes, captured \subseteq born, Staged, Windows32, [Next]_vars
  PROVE  Windows32'
<1> USE DEF Windows32, FlagTypes, KillTypes, Kill, Staged, ProcessTypes, process, killing
<1>1. CASE UNCHANGED vars
  BY <1>1 DEF vars
<1>2. ASSUME NEW p \in Process, Fork(p) PROVE Windows32'
  BY <1>2 DEF Fork
<1>3. ASSUME NEW p \in Process, Exit(p) PROVE Windows32'
  BY <1>3 DEF Exit
<1>4. CASE Output
  BY <1>4 DEF Output, markActivity, terminate, Saw, settle
<1>5. CASE Cancel
  BY <1>5 DEF Cancel, terminate, Saw, settle
<1>6. CASE SpawnError
  BY <1>6 DEF SpawnError, terminate, Saw, settle
<1>7. CASE Close
  BY <1>7 DEF Close, Saw, settle
<1>8. CASE Poll
  BY <1>8 DEF Poll
<1>9. CASE Scanned
  BY <1>9 DEF Scanned, markActivity
<1>10. ASSUME NEW ok \in BOOLEAN, Killed(ok) PROVE Windows32'
  BY <1>10 DEF Killed, Struck, settle
<1>11. ASSUME NEW t \in Timeout, TimedOut(t) PROVE Windows32'
  BY <1>11 DEF TimedOut, terminate, Saw, settle
<1>12. ASSUME NEW t \in {"grace", "retry"}, forceKill(t) PROVE Windows32'
  BY <1>12 DEF forceKill
<1>13. CASE PostKill
  BY <1>13 DEF PostKill, settle
<1>14. CASE Snapshot
  BY <1>14 DEF Snapshot, Tree
<1>15. CASE Taskkill
  BY <1>15 DEF Taskkill, Unsure, Struck, TreeOver, settle, Tree
<1>16. CASE Sweep
  BY <1>16 DEF Sweep, Unsure, Struck, TreeOver, settle
<1>17. ASSUME NEW command \in {"taskkill", "sweep"}, LateKill(command) PROVE Windows32'
  BY <1>17 DEF LateKill, Struck
<1> QED
  BY <1>1, <1>2, <1>3, <1>4, <1>5, <1>6, <1>7, <1>8, <1>9,
     <1>10, <1>11, <1>12, <1>13, <1>14, <1>15, <1>16, <1>17, Stepped

LEMMA CapturedStep ==
  ASSUME ProcessTypes, captured \subseteq born, [Next]_vars
  PROVE  (captured \subseteq born)'
<1> USE DEF ProcessTypes, process, killing
<1>1. CASE UNCHANGED vars
  BY <1>1 DEF vars
<1>2. ASSUME NEW p \in Process, Fork(p) PROVE (captured \subseteq born)'
  BY <1>2 DEF Fork
<1>3. ASSUME NEW p \in Process, Exit(p) PROVE (captured \subseteq born)'
  BY <1>3 DEF Exit
<1>4. CASE Output
  BY <1>4 DEF Output, markActivity, terminate, Saw, settle
<1>5. CASE Cancel
  BY <1>5 DEF Cancel, terminate, Saw, settle
<1>6. CASE SpawnError
  BY <1>6 DEF SpawnError, terminate, Saw, settle
<1>7. CASE Close
  BY <1>7 DEF Close, Saw, settle
<1>8. CASE Poll
  BY <1>8 DEF Poll
<1>9. CASE Scanned
  BY <1>9 DEF Scanned, markActivity
<1>10. ASSUME NEW ok \in BOOLEAN, Killed(ok) PROVE (captured \subseteq born)'
  BY <1>10 DEF Killed, Struck, settle
<1>11. ASSUME NEW t \in Timeout, TimedOut(t) PROVE (captured \subseteq born)'
  BY <1>11 DEF TimedOut, terminate, Saw, settle
<1>12. ASSUME NEW t \in {"grace", "retry"}, forceKill(t) PROVE (captured \subseteq born)'
  BY <1>12 DEF forceKill
<1>13. CASE PostKill
  BY <1>13 DEF PostKill, settle
<1>14. CASE Snapshot
  BY <1>14 DEF Snapshot, Tree
<1>15. CASE Taskkill
  BY <1>15 DEF Taskkill, Unsure, Struck, TreeOver, settle, Tree
<1>16. CASE Sweep
  BY <1>16 DEF Sweep, Unsure, Struck, TreeOver, settle
<1>17. ASSUME NEW command \in {"taskkill", "sweep"}, LateKill(command) PROVE (captured \subseteq born)'
  BY <1>17 DEF LateKill, Struck
<1> QED
  BY <1>1, <1>2, <1>3, <1>4, <1>5, <1>6, <1>7, <1>8, <1>9,
     <1>10, <1>11, <1>12, <1>13, <1>14, <1>15, <1>16, <1>17, Stepped

LEMMA InvStep == TypeOK /\ RunInv /\ [Next]_vars => RunInv'
<1> SUFFICES ASSUME TypeOK, RunInv, [Next]_vars PROVE RunInv'
  OBVIOUS
<1>1. CauseTypes /\ TimerTypes /\ FlagTypes /\ KillTypes /\ ProcessTypes
  BY Types
<1>2. Staged /\ Posix /\ Windows32 /\ captured \subseteq born
  BY DEF RunInv
<1>3. Staged'
  BY <1>1, <1>2, StagedStep
<1>4. Posix'
  BY <1>1, <1>2, PosixStep
<1>5. Windows32'
  BY <1>1, <1>2, WindowsStep
<1>6. (captured \subseteq born)'
  BY <1>1, <1>2, CapturedStep
<1> QED
  BY <1>3, <1>4, <1>5, <1>6 DEF RunInv

(* The inductive invariant: types, and what holds in each stage of a run on  *)
(* each platform.                                                            *)
THEOREM RunInvariant == Spec => [](TypeOK /\ RunInv)
<1>1. Init => CauseTypes /\ TimerTypes /\ KillTypes
  BY DEF Init, CauseTypes, TimerTypes, KillTypes, Timer, Timeout, Cause, Kill
<1>2. Init => FlagTypes
  BY DEF Init, FlagTypes
<1>3. ASSUME Init PROVE ProcessTypes
  <2>1. 1 \in Process
    BY DEF Process
  <2>2. CASE spawned
    BY <1>3, <2>1, <2>2 DEF Init, ProcessTypes
  <2>3. CASE ~spawned
    BY <1>3, <2>3 DEF Init, ProcessTypes
  <2> QED
    BY <2>2, <2>3
<1>4. Init => RunInv
  BY DEF Init, RunInv, Staged, Posix, Windows32
<1>5. Init => TypeOK /\ RunInv
  BY <1>1, <1>2, <1>3, <1>4, Types
<1> QED
  BY <1>5, TypeStep, InvStep, PTL DEF Spec

(* Every variable of the runner keeps its type. *)
THEOREM TypeCorrect == Spec => []TypeOK
BY RunInvariant, PTL

(* The reported reason is the first cause, whatever else comes while the run *)
(* is being ended.                                                           *)
THEOREM FirstCauseWins == Spec => []CauseKept
<1>1. RunInv => CauseKept
  BY DEF RunInv, Staged, CauseKept
<1> QED
  BY <1>1, RunInvariant, PTL

(* A terminated run is reported only after a kill was tried. *)
THEOREM KilledFirst == Spec => []KilledBeforeSettled
<1>1. RunInv => KilledBeforeSettled
  BY DEF RunInv, Staged, KilledBeforeSettled
<1> QED
  BY <1>1, RunInvariant, PTL

(* On Windows a process of the snapshot outlives a terminated run only if the *)
(* run says so.                                                               *)
THEOREM NoSilentSurvivor == Spec => []SurvivorsTold
<1>1. RunInv => SurvivorsTold
  BY DEF RunInv, Staged, Windows32, SurvivorsTold
<1> QED
  BY <1>1, RunInvariant, PTL

(* A settled run has no timer left and begins no kill; what it still ends, it had *)
(* given up.                                                                      *)
THEOREM Quiet == Spec => NothingAfterSettle
<1> DEFINE GivenUp == killed' # killed =>
                        IF platform = "win32" THEN suspect ELSE waits > MaxWaits
           Late == /\ timers' = {}
                   /\ state = "settled" =>
                        /\ attempts' = attempts /\ (kill' = kill \/ kill' = "none")
                        /\ GivenUp
<1>1. ASSUME TypeOK, RunInv, [Next]_vars, state' = "settled" PROVE Late
  <2>1. timers' = {}
    BY <1>1, InvStep DEF RunInv, Staged
  <2>2. ASSUME state = "settled"
        PROVE  attempts' = attempts /\ (kill' = kill \/ kill' = "none") /\ GivenUp
    <3>1. timers = {} /\ kill \notin {"snapshot", "taskkill", "sweep"}
      BY <1>1, <2>2 DEF RunInv, Staged, Posix, Windows32, TypeOK
    <3>2. CASE UNCHANGED <<attempts, kill, killed>>
      BY <3>2
    <3>3. ASSUME NEW ok \in BOOLEAN, Killed(ok)
          PROVE  attempts' = attempts /\ kill' = "none" /\ GivenUp
      <4>1. platform = "posix" /\ kill = "pending"
        BY <3>3 DEF Killed
      <4>2. waits > MaxWaits
        BY <1>1, <2>2, <4>1 DEF RunInv, Posix
      <4> QED
        BY <3>3, <4>1, <4>2 DEF Killed
    <3>4. ASSUME NEW command \in {"taskkill", "sweep"}, LateKill(command)
          PROVE  attempts' = attempts /\ kill' = kill /\ GivenUp
      <4>1. abandoned # {}
        BY <3>4 DEF LateKill
      <4>2. platform = "win32" /\ suspect
        BY <1>1, <4>1 DEF RunInv, Posix, Windows32, TypeOK
      <4> QED
        BY <3>4, <4>2 DEF LateKill, killing
    <3>5. \/ UNCHANGED <<attempts, kill, killed>>
          \/ \E ok \in BOOLEAN : Killed(ok)
          \/ \E command \in {"taskkill", "sweep"} : LateKill(command)
          \/ \E t \in {"grace", "retry"} : forceKill(t)
          \/ Snapshot \/ Taskkill \/ Sweep
      BY <1>1, <2>2, Stepped DEF vars, Fork, Exit, Output, Cancel, SpawnError, Close, Poll,
         Scanned, TimedOut, PostKill, terminate, process, killing
    <3>6. ~\E t \in {"grace", "retry"} : forceKill(t)
      BY <3>1 DEF forceKill
    <3>7. ~Snapshot /\ ~Taskkill /\ ~Sweep
      BY <3>1 DEF Snapshot, Taskkill, Sweep
    <3> QED
      BY <3>2, <3>3, <3>4, <3>5, <3>6, <3>7
  <2> QED
    BY <2>1, <2>2
<1>2. TypeOK /\ RunInv /\ [Next]_vars => [state' = "settled" => Late]_vars
  BY <1>1
<1> QED
  BY <1>2, RunInvariant, PTL DEF Spec, NothingAfterSettle
=============================================================================
