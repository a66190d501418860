---------------------------- MODULE ProcessRunner ----------------------------
(***************************************************************************)
(* One provider process under ProcessRunner.run                            *)
(* (agent-host/providers/processRunner.ts): the timers, the activity that  *)
(* re-arms them, the first cause that ends the run, the killing of the     *)
(* process tree on Windows and elsewhere, and the settling of the result.  *)
(* The process, its descendants, the events of its streams and the kill    *)
(* commands come in any order or never; only timers are sure to fire.      *)
(* A spawn that throws at once has no run and is left out.                 *)
(***************************************************************************)
EXTENDS Naturals

CONSTANTS
  Depth,    \* processes 1..Depth: 1 is the one spawned, p + 1 a child of p
  MaxWaits  \* how often finishAfterKill waits again for a kill under way: 4

ASSUME DepthAssumption    == Depth \in Nat \ {0}
ASSUME MaxWaitsAssumption == MaxWaits \in Nat

VARIABLES
  platform, \* "win32", or "posix" for the others
  spawned,  \* capturedPid is a process id
  state,    \* RunnerState
  reason,   \* pendingReason
  timers,   \* the timers that are armed
  scanning, \* workspaceScanPending
  closed,   \* closeObserved
  kill,     \* posix: the call of killFn under way; win32: the step of the tree's termination
  attempts, \* calls of killFn made
  waits,    \* postKillWaits
  captured, \* the processes in the Windows snapshot
  suspect,  \* possibleSurvivors
  abandoned, \* the Windows commands given up at their bound, which may act all the same
  outcome,  \* terminationReason of the result, once done is resolved
  alive,    \* the processes that live
  born,     \* history: the processes that ever lived
  killed,   \* history: the processes the runner's own commands ended
  first     \* history: the first cause that met the run

process == <<alive, born, killed>>
killing == <<kill, attempts, waits, captured, suspect, abandoned>>
vars == <<platform, spawned, state, reason, timers, scanning, closed, kill, attempts, waits,
          captured, suspect, abandoned, outcome, alive, born, killed, first>>

Process == 1 .. Depth
Timeout == {"timeout-overall", "timeout-startup", "timeout-idle"}
Timer   == Timeout \cup {"poll", "grace", "postKill", "retry"}
Cause   == Timeout \cup {"cancelled", "output-limit", "callback-error", "spawn-failed", "exited"}
Kill    == {"none", "pending", "snapshot", "taskkill", "sweep", "over"}

TypeOK ==
  /\ platform \in {"win32", "posix"} /\ spawned \in BOOLEAN
  /\ state \in {"running", "terminating", "settled"}
  /\ reason \in Cause \cup {"none"} /\ outcome \in Cause \cup {"none"}
  /\ first \in Cause \cup {"none"}
  /\ timers \subseteq Timer /\ scanning \in BOOLEAN /\ closed \in BOOLEAN
  /\ kill \in Kill /\ attempts \in 0 .. 2 /\ waits \in 0 .. MaxWaits + 1
  /\ captured \subseteq Process /\ suspect \in BOOLEAN
  /\ abandoned \subseteq {"taskkill", "sweep"}
  /\ alive \subseteq born /\ born \subseteq Process /\ killed \subseteq born

(* After spawn: the overall and the startup clock, and the first workspace scan. *)
Init ==
  /\ platform \in {"win32", "posix"} /\ spawned \in BOOLEAN
  /\ state = "running" /\ reason = "none" /\ outcome = "none" /\ first = "none"
  /\ timers = {"timeout-overall", "timeout-startup", "poll"} /\ scanning = TRUE
  /\ closed = FALSE /\ kill = "none" /\ attempts = 0 /\ waits = 0
  /\ captured = {} /\ suspect = FALSE /\ abandoned = {} /\ killed = {}
  /\ alive = (IF spawned THEN {1} ELSE {}) /\ born = alive

Saw(r) == first' = IF first = "none" THEN r ELSE first

settle(r) == state' = "settled" /\ outcome' = r /\ timers' = {}

(* Fault: a later cause takes the place of the first. *)
terminate_again(r) ==
  /\ state # "settled"
  /\ Saw(r)
  /\ reason' = r
  /\ IF ~spawned THEN settle(r) /\ UNCHANGED kill
     ELSE /\ state' = "terminating" /\ UNCHANGED outcome
          /\ IF platform = "win32" THEN kill' = "snapshot" /\ timers' = {}
                                   ELSE UNCHANGED kill /\ timers' = {"grace"}

(* The first cause stops the running clocks; the kill goes its own way. *)
terminate(r) ==
  /\ state = "running"
  /\ Saw(r)
  /\ reason' = r
  /\ IF ~spawned THEN settle(r) /\ UNCHANGED kill
     ELSE /\ state' = "terminating" /\ UNCHANGED outcome
          /\ IF platform = "win32" THEN kill' = "snapshot" /\ timers' = {}
                                   ELSE UNCHANGED kill /\ timers' = {"grace"}

markActivity ==
  IF state = "running"
  THEN timers' = (timers \ {"timeout-startup"}) \cup {"timeout-idle"}
  ELSE UNCHANGED timers

-----------------------------------------------------------------------------
(* The processes *)

Fork(p) ==
  /\ p - 1 \in alive /\ p \in Process \ born
  /\ alive' = alive \cup {p} /\ born' = born \cup {p}
  /\ UNCHANGED <<platform, spawned, state, reason, timers, scanning, closed, outcome, first,
                 killed, killing>>

Exit(p) ==
  /\ p \in alive
  /\ alive' = alive \ {p}
  /\ UNCHANGED <<platform, spawned, state, reason, timers, scanning, closed, outcome, first,
                 born, killed, killing>>

-----------------------------------------------------------------------------
(* What the runner hears while it listens: output, errors, the end, cancel() *)

(* A chunk the callback takes for activity, is too much, or lets the callback throw. *)
Output ==
  /\ state # "settled" /\ spawned
  /\ \/ markActivity /\ UNCHANGED <<state, reason, outcome, first, kill>>
     \/ \E r \in {"output-limit", "callback-error"} : terminate(r)
  /\ UNCHANGED <<platform, spawned, scanning, closed, attempts, waits, captured, suspect,
                 abandoned, process>>

Cancel ==
  /\ terminate("cancelled")
  /\ UNCHANGED <<platform, spawned, scanning, closed, attempts, waits, captured, suspect,
                 abandoned, process>>

(* The error event: no process at all, or one that lives on and is terminated. *)
SpawnError ==
  /\ \/ ~spawned /\ state # "settled" /\ Saw("spawn-failed") /\ settle("spawn-failed")
        /\ UNCHANGED <<reason, kill>>
     \/ spawned /\ terminate("spawn-failed")
  /\ UNCHANGED <<platform, spawned, scanning, closed, attempts, waits, captured, suspect,
                 abandoned, process>>

(* Fault: close settles the run whether or not its tree is being killed. *)
Close_early ==
  /\ state # "settled" /\ spawned /\ 1 \notin alive /\ ~closed
  /\ closed' = TRUE
  /\ IF state = "running" THEN Saw("exited") /\ settle("exited")
                          ELSE settle(reason) /\ UNCHANGED first
  /\ UNCHANGED <<platform, spawned, reason, scanning, process, killing>>

(* close comes after the exit, when nobody holds the pipes; while the tree is being   *)
(* killed it is only noted.  graceTimer is never cleared by firing.                   *)
Close ==
  /\ state # "settled" /\ spawned /\ 1 \notin alive /\ ~closed
  /\ closed' = TRUE
  /\ \/ state = "running" /\ Saw("exited") /\ settle("exited")
     \/ /\ state = "terminating" /\ (platform = "posix" \/ kill # "over")
        /\ UNCHANGED <<state, timers, outcome, first>>
     \/ /\ state = "terminating" /\ platform = "win32" /\ kill = "over"
        /\ settle(reason) /\ UNCHANGED first
  /\ UNCHANGED <<platform, spawned, reason, scanning, process, killing>>

-----------------------------------------------------------------------------
(* Clocks and the workspace scan *)

TimedOut(t) ==
  /\ t \in timers \cap Timeout
  /\ terminate(t)
  /\ UNCHANGED <<platform, spawned, scanning, closed, attempts, waits, captured, suspect,
                 abandoned, process>>

(* pollWorkspace arms itself again and starts a scan unless one is under way. *)
Poll ==
  /\ "poll" \in timers
  /\ scanning' = TRUE
  /\ UNCHANGED <<platform, spawned, state, reason, timers, closed, outcome, first, process,
                 killing>>

(* A scan that ends after the run has no say; one that found a change is activity. *)
Scanned ==
  /\ scanning /\ scanning' = FALSE
  /\ markActivity \/ UNCHANGED timers
  /\ UNCHANGED <<platform, spawned, state, reason, closed, outcome, first, process, killing>>

-----------------------------------------------------------------------------
(* posix: grace, kill, one retry, and the time left for close *)

forceKill(t) ==
  /\ t \in timers /\ t \in {"grace", "retry"}
  /\ attempts' = attempts + 1 /\ kill' = "pending"
  /\ timers' = (timers \ {t}) \cup (IF attempts = 0 THEN {"postKill"} ELSE {})
  /\ UNCHANGED <<platform, spawned, state, reason, scanning, closed, outcome, first, process,
                 waits, captured, suspect, abandoned>>

(* What the step ends is ended by the runner. *)
Struck == killed' = killed \cup (alive \ alive')

(* killFn kills the process itself; its answer may come after the run was settled. *)
Killed(ok) ==
  /\ platform = "posix" /\ kill = "pending" /\ kill' = "none"
  /\ alive' = (IF ok THEN alive \ {1} ELSE alive) /\ Struck
  /\ \/ /\ ~ok /\ attempts < 2 /\ state = "terminating"
        /\ timers' = timers \cup {"retry"} /\ UNCHANGED <<state, outcome>>
     \/ (ok \/ attempts = 2) /\ closed /\ state = "terminating" /\ settle(reason)
     \/ /\ ((ok \/ attempts = 2) /\ ~closed) \/ state = "settled"
        /\ UNCHANGED <<state, timers, outcome>>
  /\ UNCHANGED <<platform, spawned, reason, scanning, closed, first, born, attempts, waits,
                 captured, suspect, abandoned>>

(* Fault: it waits for the kill without a bound. *)
PostKill_unbounded ==
  /\ "postKill" \in timers
  /\ kill # "pending" /\ "retry" \notin timers
  /\ settle(reason)
  /\ UNCHANGED <<platform, spawned, reason, scanning, closed, first, process, killing>>

(* Fault: it does not wait for the kill under way. *)
PostKill_impatient ==
  /\ "postKill" \in timers
  /\ settle(reason)
  /\ UNCHANGED <<platform, spawned, reason, scanning, closed, first, process, killing>>

(* finishAfterKill, or on Windows the end of the wait for close. *)
PostKill ==
  /\ "postKill" \in timers
  /\ \/ /\ kill = "pending" \/ "retry" \in timers
        /\ waits <= MaxWaits /\ waits' = waits + 1
        /\ IF waits < MaxWaits THEN UNCHANGED <<state, outcome, timers>> ELSE settle(reason)
     \/ /\ kill # "pending" /\ "retry" \notin timers
        /\ settle(reason) /\ UNCHANGED waits
  /\ UNCHANGED <<platform, spawned, reason, scanning, closed, first, process,
                 kill, attempts, captured, suspect, abandoned>>

-----------------------------------------------------------------------------
(* win32: terminateWindowsProcessTree, three commands of bounded time *)

(* What a walk from the process id reaches over the parents of the living. *)
Tree == {p \in alive : 2 .. p - 1 \subseteq alive}

Snapshot ==
  /\ kill = "snapshot" /\ kill' = "taskkill"
  /\ \/ captured' = Tree /\ suspect' = (Tree = {})
     \/ captured' = {} /\ suspect' = TRUE
  /\ UNCHANGED <<platform, spawned, state, reason, timers, scanning, closed, outcome, first,
                 process, attempts, waits, abandoned>>

(* The finally clause: close has come, or is waited for. *)
TreeOver ==
  /\ kill' = "over"
  /\ IF closed THEN settle(reason)
               ELSE timers' = timers \cup {"postKill"} /\ UNCHANGED <<state, outcome>>

(* The command failed, or its bound has come: it is told to abort and not awaited. *)
Unsure(command) == suspect' = TRUE /\ abandoned' \in {abandoned, abandoned \cup {command}}

(* Fault: taskkill's word is taken, nothing is swept. *)
Taskkill_alone ==
  /\ kill = "taskkill"
  /\ attempts' = attempts + 1
  /\ \/ 1 \in alive /\ alive' = alive \ Tree /\ UNCHANGED <<suspect, abandoned>>
     \/ 1 \notin alive /\ UNCHANGED <<alive, suspect, abandoned>>
     \/ \E some \in SUBSET Tree : alive' = alive \ some /\ Unsure("taskkill")
  /\ Struck
  /\ TreeOver
  /\ UNCHANGED <<platform, spawned, reason, scanning, closed, first, born, waits, captured>>

(* "not found" counts as killed; a failure or the bound leaves any part of the tree. *)
Taskkill ==
  /\ kill = "taskkill"
  /\ attempts' = attempts + 1
  /\ \/ 1 \in alive /\ alive' = alive \ Tree /\ UNCHANGED <<suspect, abandoned>>
     \/ 1 \notin alive /\ UNCHANGED <<alive, suspect, abandoned>>
     \/ \E some \in SUBSET Tree : alive' = alive \ some /\ Unsure("taskkill")
  /\ Struck
  /\ IF captured = {} THEN TreeOver ELSE kill' = "sweep" /\ UNCHANGED <<state, timers, outcome>>
  /\ UNCHANGED <<platform, spawned, reason, scanning, closed, first, born, waits, captured>>

Sweep ==
  /\ kill = "sweep"
  /\ \/ alive' = alive \ captured /\ UNCHANGED <<suspect, abandoned>>
     \/ \E some \in SUBSET captured : alive' = alive \ some /\ Unsure("sweep")
  /\ Struck
  /\ TreeOver
  /\ UNCHANGED <<platform, spawned, reason, scanning, closed, first, born, attempts, waits,
                 captured>>

(* A command given up ends what it still reaches, however late: nothing stops it.     *)
(* All processes here are in the tree; the sweep looks at start times as well.        *)
LateKill(command) ==
  /\ command \in abandoned
  /\ \E some \in SUBSET (IF command = "sweep" THEN alive \cap captured ELSE alive) \ {{}} :
       alive' = alive \ some
  /\ Struck
  /\ UNCHANGED <<platform, spawned, state, reason, timers, scanning, closed, outcome, first,
                 born, killing>>

Clock ==
  \/ \E t \in Timeout : TimedOut(t)
  \/ \E t \in {"grace", "retry"} : forceKill(t)
  \/ PostKill

Windows == Snapshot \/ Taskkill \/ Sweep

Next ==
  \/ \E p \in Process : Fork(p) \/ Exit(p)
  \/ Output \/ Cancel \/ SpawnError \/ Close \/ Poll \/ Scanned
  \/ \E ok \in BOOLEAN : Killed(ok)
  \/ \E command \in {"taskkill", "sweep"} : LateKill(command)
  \/ Clock \/ Windows

Spec == Init /\ [][Next]_vars

(* Only armed timers, and commands with a time limit, are sure to come to an end. *)
FairSpec ==
  /\ Spec /\ WF_vars(TimedOut("timeout-overall")) /\ WF_vars(Windows)
  /\ WF_vars(PostKill) /\ \A t \in {"grace", "retry"} : WF_vars(forceKill(t))

-----------------------------------------------------------------------------
(* The result names the first thing that ended the run: a timeout, a cancellation, an *)
(* overflow and the end of the process may all come while it is being ended, and the  *)
(* executor classifies the attempt by this one reason (settle, terminate).            *)
CauseKept == state = "settled" => outcome = first

(* A run that was terminated is not reported before its process was gone for: the     *)
(* close of a process that ends meanwhile does not stop the killing of its tree.      *)
KilledBeforeSettled ==
  state = "settled" /\ spawned /\ outcome # "exited" => attempts > 0

(* Once done is resolved no timer is left or armed, by a late scan, kill answer or     *)
(* close (clearAllTimers), and no kill is begun.  A process is ended by the runner    *)
(* after that only by a kill it had given up: elsewhere one that did not answer in    *)
(* the whole of the bounded waits, on Windows a command past its bound, and then the  *)
(* result says possibleSurvivors.  A run never settles with a kill it still counts on.*)
NothingAfterSettle ==
  [][state' = "settled" =>
       /\ timers' = {}
       /\ state = "settled" =>
            /\ attempts' = attempts /\ (kill' = kill \/ kill' = "none")
            /\ killed' # killed =>
                 IF platform = "win32" THEN suspect ELSE waits > MaxWaits]_vars

(* On Windows a terminated run without possibleSurvivors left no process alive that   *)
(* the snapshot had seen, also when the spawned process ended first and its children  *)
(* were orphaned, or when taskkill found nothing.                                     *)
SurvivorsTold ==
  state = "settled" /\ platform = "win32" /\ spawned /\ outcome # "exited" /\ ~suspect =>
    captured # {} /\ alive \cap captured = {}

(* Every run settles, whatever the process, its pipes and the kill commands do: the   *)
(* overall clock, the grace, the bounded waits and commands are enough.               *)
Settles == <>(state = "settled")
=============================================================================
