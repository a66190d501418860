---------------------------- MODULE HostRuntime ----------------------------
(***************************************************************************)
(* One control host from its start to the end of its process: the startup, *)
(* the timers and the loop of runControlWorker (agent-host/control/        *)
(* worker.ts), the orderly shutdown it shares with index.ts, the atomic    *)
(* heartbeat file (lib/heartbeat.ts), the drive of a Run, its snapshots,   *)
(* and what `status` (status.ts) then says of the host.  Every await is a  *)
(* point where the others go on; every call on the file system and on the  *)
(* control plane may fail, and the process may be killed at any point.     *)
(* Which Run and which request is driven, and how a tick decides, is in    *)
(* Supervisor and RequestClaims; how the lock is taken, in HostLock.       *)
(***************************************************************************)
EXTENDS SnapshotPublisher

CONSTANT MaxVersion  \* bound: how often the driven Run changes
ASSUME VersionAssumption == MaxVersion \in Nat \ {0}

VARIABLES
  alive,     \* the process exists
  pc,        \* where runControlWorker is
  running,   \* its flag running
  armed,     \* the interval timers exist
  tick,      \* the heartbeat timer's callback: "idle", "refresh", "write"
  sd,        \* where the shutdown is: "no" is ~shutdownStarted
  forced,    \* shutdown was called with forcedExitCode 1
  exitCode,  \* process.exitCode
  lock,      \* lock.json exists and is ours
  store,     \* the orchestration database: "none", "open", "closed"
  logged,    \* the last lifecycle event appended
  file,      \* heartbeat.json and its temporary file
  write,     \* of each writer of the heartbeat: its step and what it has open
  accepting, \* AttemptExecutor.acceptingExecutions
  drive,     \* the drive of a Run, by the startup resume or in the job slot
  version,   \* how often that Run has changed
  raced,     \* history: a heartbeat tick was in flight when the shutdown began
  overran,   \* history: the executor's shutdown gave up on a running attempt
  unsent     \* history: a snapshot was not stored

process == <<alive, pc, running, armed, exitCode>>
files   == <<file, write, tick>>
ending  == <<sd, forced, raced>>
durable == <<lock, store, logged>>
driving == <<drive, version, accepting, overran>>
sending == <<pending, inFlight, shown, unsent>>
vars == <<alive, pc, running, armed, tick, sd, forced, exitCode, lock, store, logged, file,
          write, accepting, drive, version, raced, overran, unsent,
          pending, inFlight, shown>>

Writer  == {"tick", "shutdown"}
Content == {"absent", "torn", "running", "stopping", "stopped"}
Ended   == {"no", "done", "failed"}
StepsOf == {"no", "refresh", "stopping", "sayStopping", "executor", "execution", "drain",
            "sayStopped", "stopped", "close", "release", "done", "failed"}

TypeOK ==
  /\ {alive, running, armed, forced, lock, accepting} \subseteq BOOLEAN
  /\ {raced, overran, unsent, pending} \subseteq BOOLEAN
  /\ pc \in {"boot", "beat", "ready", "presence", "resume", "poll",
             "returned", "rejected", "gone"}
  /\ tick \in {"idle", "refresh", "write"}
  /\ sd \in StepsOf
  /\ exitCode \in {"none", "0", "1", "killed"}
  /\ store \in {"none", "open", "closed"}
  /\ logged \in {"none", "host.started", "host.stopping", "host.stopped"}
  /\ file \in [{"target", "tmp"} -> Content]
  /\ write \in [Writer -> [step : {"idle", "open", "fill", "rename"},
                           fd : {"none", "tmp", "target", "gone"}]]
  /\ drive \in {"idle", "between", "executing", "after", "parked"}
  /\ {version, shown} \cup inFlight \subseteq 0 .. MaxVersion

Init ==
  /\ alive = TRUE /\ pc = "boot" /\ running = TRUE /\ armed = FALSE
  /\ tick = "idle" /\ sd = "no" /\ forced = FALSE /\ exitCode = "none"
  /\ lock = FALSE /\ store = "none" /\ logged = "none"
  /\ file = [f \in {"target", "tmp"} |-> "absent"]
  /\ write = [w \in Writer |-> [step |-> "idle", fd |-> "none"]]
  /\ accepting = TRUE /\ drive = "idle" /\ version = 0
  /\ raced = FALSE /\ overran = FALSE /\ unsent = FALSE
  /\ PublisherInit

-----------------------------------------------------------------------------
(* The heartbeat file: writeJsonAtomic.  All the writes of one process share *)
(* one temporary file, named by the instance.                                *)

Idle == [step |-> "idle", fd |-> "none"]
begin(w) == write' = [write EXCEPT ![w] = [step |-> "open", fd |-> "none"]]
BeatOf(w) == IF w = "tick" THEN "running" ELSE sd

StepAfter == [refresh |-> "stopping", stopping |-> "sayStopping",
              sayStopping |-> "executor", executor |-> "execution",
              execution |-> "drain", drain |-> "sayStopped",
              sayStopped |-> "stopped", stopped |-> "close", close |-> "release"]

(* shutdownHostRuntime throws: the rest of it is skipped. *)
abandon == sd' = "failed" /\ exitCode' = "1"

(* A write is over: a tick ignores a failure, the shutdown does not. *)
written(w, ok) ==
  IF w = "tick" THEN tick' = "idle" /\ UNCHANGED <<sd, exitCode>>
  ELSE /\ UNCHANGED tick
       /\ IF ok THEN sd' = StepAfter[sd] /\ UNCHANGED exitCode ELSE abandon

(* writeFile truncates or creates the temporary file. *)
OpenTemporary(w) ==
  /\ alive /\ write[w].step = "open"
  /\ file' = [file EXCEPT !["tmp"] = "torn"]
  /\ write' = [write EXCEPT ![w] = [step |-> "fill", fd |-> "tmp"]]
  /\ UNCHANGED <<process, tick, ending, durable, driving, sending>>

(* It writes what it has open: over another writer's text, some of which may *)
(* be left behind its own; and if the other has renamed the file meanwhile,  *)
(* into heartbeat.json, or into a file that has no name any more.            *)
FillTemporary(w) ==
  LET f == write[w].fd IN
  /\ alive /\ write[w].step = "fill"
  /\ write' = [write EXCEPT ![w].step = "rename"]
  /\ IF f = "gone" THEN UNCHANGED file
     ELSE \E c \in {BeatOf(w)} \cup (IF file[f] = "torn" THEN {} ELSE {"torn"}) :
            file' = [file EXCEPT ![f] = c]
  /\ UNCHANGED <<process, tick, ending, durable, driving, sending>>

(* rename replaces heartbeat.json, if the temporary file is still there. *)
RenameTemporary(w) ==
  /\ alive /\ write[w].step = "rename"
  /\ IF file["tmp"] = "absent"
     THEN /\ written(w, FALSE)
          /\ write' = [write EXCEPT ![w] = Idle]
          /\ UNCHANGED file
     ELSE /\ written(w, TRUE)
          /\ file' = [target |-> file["tmp"], tmp |-> "absent"]
          /\ write' = [v \in Writer |-> IF v = w THEN Idle
                        ELSE CASE write[v].fd = "target" -> [write[v] EXCEPT !.fd = "gone"]
                               [] write[v].fd = "tmp" -> [write[v] EXCEPT !.fd = "target"]
                               [] OTHER -> write[v]]
  /\ UNCHANGED <<alive, pc, running, armed, forced, raced, durable, driving, sending>>

(* Any of the three fails and leaves the files as they are. *)
WriteFails(w) ==
  /\ alive /\ write[w].step # "idle"
  /\ written(w, FALSE)
  /\ write' = [write EXCEPT ![w] = Idle]
  /\ UNCHANGED <<alive, pc, running, armed, forced, raced, file, durable, driving,
                 sending>>

-----------------------------------------------------------------------------
(* The startup of runControlWorker and its loop. *)

(* acquireLock, then the database is opened: nothing else runs yet. *)
Boot ==
  /\ alive /\ pc = "boot"
  /\ lock' = TRUE /\ store' = "open" /\ pc' = "beat"
  /\ UNCHANGED <<alive, running, armed, exitCode, logged, files, ending, driving, sending>>

(* The first heartbeat; until the timers are set a throw ends the process. *)
FirstBeat ==
  /\ alive /\ pc = "beat"
  /\ \/ pc' = "ready" /\ file' = [file EXCEPT !["target"] = "running"] /\ UNCHANGED exitCode
     \/ pc' = "rejected" /\ exitCode' = "1" /\ UNCHANGED file
  /\ UNCHANGED <<alive, running, armed, write, tick, ending, durable, driving, sending>>

(* host.started is appended; the timers are set and the handlers installed. *)
Ready ==
  /\ alive /\ pc = "ready"
  /\ \/ logged' = "host.started" /\ armed' = TRUE /\ pc' = "presence" /\ UNCHANGED exitCode
     \/ pc' = "rejected" /\ exitCode' = "1" /\ UNCHANGED <<logged, armed>>
  /\ UNCHANGED <<alive, running, lock, store, files, ending, driving, sending>>

(* The first presence is not guarded: without the control plane               *)
(* runControlWorker throws, and the timers it has set keep the process going. *)
PublishPresence ==
  /\ alive /\ pc = "presence"
  /\ \/ pc' = "resume" /\ UNCHANGED exitCode
     \/ pc' = "rejected" /\ exitCode' = "1"
  /\ UNCHANGED <<alive, running, armed, files, ending, durable, driving, sending>>

Snapshot == IF store = "open" THEN {version} ELSE {}

(* driveRunToCompletion is called and publishes before its first tick. *)
StartDrive ==
  /\ drive = "idle" /\ drive' = "between"
  /\ publish(Snapshot)
  /\ UNCHANGED <<version, accepting, overran, unsent>>

(* Fault: the list of resumable Runs is read anew after every drive. *)
ResumeRuns_restless ==
  /\ alive /\ pc = "resume" /\ drive = "idle"
  /\ IF running THEN StartDrive /\ UNCHANGED pc
     ELSE pc' = "poll" /\ UNCHANGED <<driving, sending>>
  /\ UNCHANGED <<alive, running, armed, exitCode, files, ending, durable>>

(* resumeResumableRuns: the next resumable Run if the host still runs, or the loop. *)
ResumeRuns ==
  /\ alive /\ pc = "resume" /\ drive = "idle"
  /\ \/ running /\ version < MaxVersion /\ StartDrive /\ UNCHANGED pc
     \/ pc' = "poll" /\ UNCHANGED <<driving, sending>>
  /\ UNCHANGED <<alive, running, armed, exitCode, files, ending, durable>>

(* A round of the loop that claims an approval drives its Run, if the slot is free. *)
ClaimRound ==
  /\ alive /\ pc = "poll" /\ running /\ StartDrive
  /\ UNCHANGED <<process, files, ending, durable>>

(* Fault: the loop's end sets exit code 0 whatever was set before. *)
Return_zero ==
  /\ alive /\ pc = "poll" /\ ~running /\ pc' = "returned" /\ exitCode' = "0"
  /\ UNCHANGED <<alive, running, armed, files, ending, durable, driving, sending>>

(* The loop ends and the main module sets the exit code it returns. *)
Return ==
  /\ alive /\ pc = "poll" /\ ~running /\ pc' = "returned"
  /\ exitCode' = IF exitCode = "none" THEN "0" ELSE exitCode
  /\ UNCHANGED <<alive, running, armed, files, ending, durable, driving, sending>>

(* Fault: the timer is neither cleared nor looks at shutdownStarted. *)
HeartbeatTimer_deaf ==
  /\ alive /\ tick = "idle" /\ pc \notin {"boot", "beat", "ready"}
  /\ tick' = "refresh"
  /\ UNCHANGED <<process, file, write, ending, durable, driving, sending>>

(* The heartbeat timer fires unless its last callback or a shutdown is under way. *)
HeartbeatTimer ==
  /\ alive /\ armed /\ tick = "idle" /\ sd = "no"
  /\ tick' = "refresh"
  /\ UNCHANGED <<process, file, write, ending, durable, driving, sending>>

(* refreshRepoStatusIfNeeded is back, or has thrown. *)
TickRefreshed ==
  /\ alive /\ tick = "refresh"
  /\ \/ tick' = "write" /\ begin("tick")
     \/ tick' = "idle" /\ UNCHANGED write
  /\ UNCHANGED <<process, file, ending, durable, driving, sending>>

-----------------------------------------------------------------------------
(* The shutdown.  Its handlers are there from Ready on. *)

Handlers == pc \notin {"boot", "beat", "ready"} /\ (pc = "rejected" => armed)

(* Fault: the timers are not cleared. *)
shutdown_ticking(code) ==
  /\ running' = FALSE /\ armed' = armed
  /\ sd' = "refresh" /\ forced' = code
  /\ raced' = (tick # "idle")

(* shutdown, the first call of it.  Ticks past their check go on. *)
shutdown(code) ==
  /\ running' = FALSE /\ armed' = FALSE
  /\ sd' = "refresh" /\ forced' = code
  /\ raced' = (tick # "idle")

Signal ==
  /\ alive /\ Handlers /\ sd = "no"
  /\ shutdown(FALSE)
  /\ UNCHANGED <<alive, pc, exitCode, files, durable, driving, sending>>

(* An uncaught exception shuts down with a forced exit code; one that comes *)
(* when the shutdown is under way changes nothing.                         *)
UncaughtException ==
  /\ alive /\ Handlers /\ sd = "no"
  /\ shutdown(TRUE)
  /\ UNCHANGED <<alive, pc, exitCode, files, durable, driving, sending>>

(* The next step of shutdownHostRuntime is done ... *)
advance == sd' = StepAfter[sd] /\ UNCHANGED <<exitCode, tick>>
idleEnding == UNCHANGED <<alive, pc, running, armed, forced, raced>>

(* ... or has thrown: a git, file or event call. *)
ShutdownFails ==
  /\ alive /\ sd \in {"refresh", "sayStopping", "sayStopped", "release"}
  /\ abandon
  /\ idleEnding /\ UNCHANGED <<files, durable, driving, sending>>

ShutdownRefreshed ==
  /\ alive /\ sd = "refresh" /\ advance /\ begin("shutdown")
  /\ idleEnding /\ UNCHANGED <<file, durable, driving, sending>>

SayStopping ==
  /\ alive /\ sd = "sayStopping" /\ advance /\ logged' = "host.stopping"
  /\ idleEnding /\ UNCHANGED <<file, write, lock, store, driving, sending>>

(* executor.shutdown: no attempt is accepted any more, the active one is cancelled. *)
ExecutorShutdown ==
  /\ alive /\ sd = "executor" /\ advance /\ accepting' = FALSE
  /\ idleEnding /\ UNCHANGED <<file, write, durable, drive, version, overran, sending>>

(* It waits for the attempt, for a while. *)
ExecutionOver ==
  /\ alive /\ sd = "execution" /\ advance
  /\ overran' = (drive = "executing")
  /\ idleEnding /\ UNCHANGED <<file, write, durable, drive, version, accepting, sending>>

(* scheduler.drain waits for the job, for a while; a startup resume is no job. *)
Drained ==
  /\ alive /\ sd = "drain" /\ advance
  /\ idleEnding /\ UNCHANGED <<file, write, durable, driving, sending>>

(* Fault: the lock goes first, the database after it. *)
CloseStore_late ==
  /\ alive /\ sd = "close" /\ advance /\ lock' = FALSE
  /\ idleEnding /\ UNCHANGED <<file, write, store, logged, driving, sending>>

SayStopped ==
  /\ alive /\ sd = "sayStopped" /\ advance
  /\ logged' = "host.stopped" /\ begin("shutdown")
  /\ idleEnding /\ UNCHANGED <<file, lock, store, driving, sending>>

CloseStore ==
  /\ alive /\ sd = "close" /\ advance /\ store' = "closed"
  /\ idleEnding /\ UNCHANGED <<file, write, lock, logged, driving, sending>>

(* The lock is released, finishProcess and the forced exit code follow at once. *)
ReleaseLock ==
  /\ alive /\ sd = "release" /\ sd' = "done" /\ lock' = FALSE
  /\ exitCode' = IF forced THEN "1" ELSE exitCode
  /\ idleEnding /\ UNCHANGED <<files, store, logged, driving, sending>>

-----------------------------------------------------------------------------
(* The drive of a Run (driveRunToCompletion), as far as the host sees it. *)

quiet == UNCHANGED <<process, files, ending, durable>>
changed == version' = IF version < MaxVersion THEN version + 1 ELSE version

(* A tick: nothing to start, or an attempt, if the executor accepts one. *)
SupervisorTick ==
  /\ alive /\ store = "open" /\ drive = "between"
  /\ \/ drive' = "after"
     \/ accepting /\ drive' = "executing"
  /\ changed
  /\ quiet /\ UNCHANGED <<accepting, overran, sending>>

(* The attempt is over; its outcome is stored if the database is still open. *)
AttemptReturns ==
  /\ alive /\ drive = "executing" /\ drive' = "after"
  /\ IF store = "open" THEN changed ELSE UNCHANGED version
  /\ quiet /\ UNCHANGED <<accepting, overran, sending>>

(* The state after the tick is published; the Run is over, or waits for a gate, or goes on. *)
AfterTick ==
  /\ alive /\ store = "open" /\ drive = "after" /\ publish(Snapshot)
  /\ drive' \in {"idle", "parked"} \cup (IF version < MaxVersion THEN {"between"} ELSE {})
  /\ quiet /\ UNCHANGED <<version, accepting, overran, unsent>>

(* The drive of a paused Run looks at it again and again and publishes it;    *)
(* one that sleeps or awaits an attempt publishes it for the owner to see on. *)
LookAgain ==
  /\ alive /\ store = "open" /\ drive \in {"between", "executing", "parked"}
  /\ publish(Snapshot)
  /\ quiet /\ UNCHANGED <<driving, unsent>>

(* Without the database every drive throws, and nothing can be published. *)
DriveThrows ==
  /\ alive /\ store = "closed" /\ drive \in {"between", "after", "parked"}
  /\ drive' = "idle"
  /\ quiet /\ UNCHANGED <<version, accepting, overran, sending>>

(* The control plane stores a snapshot, or the call gives up. *)
SnapshotSettled(s, sent) ==
  /\ alive /\ s \in inFlight
  /\ Settled(s, Snapshot, sent)
  /\ unsent' = (unsent \/ ~sent)
  /\ quiet /\ UNCHANGED driving

-----------------------------------------------------------------------------
(* The end of the process. *)

(* What the process held in memory is gone; its files and the plane stay. *)
gone ==
  /\ alive' = FALSE /\ pc' = "gone" /\ running' = FALSE /\ armed' = FALSE
  /\ tick' = "idle" /\ write' = [w \in Writer |-> Idle]
  /\ accepting' = FALSE /\ drive' = "idle"
  /\ pending' = FALSE /\ inFlight' = {}
  /\ UNCHANGED <<file, ending, durable, version, overran, shown, unsent>>

(* Nothing is left to wait for. *)
Exit ==
  /\ alive /\ pc \in {"returned", "rejected"} /\ ~armed
  /\ tick = "idle" /\ sd \in Ended /\ drive = "idle" /\ inFlight = {}
  /\ gone /\ UNCHANGED exitCode

(* The process is killed, by the system or before its handlers are there. *)
Kill == alive /\ gone /\ exitCode' = "killed"

Writing(w) == OpenTemporary(w) \/ FillTemporary(w) \/ RenameTemporary(w) \/ WriteFails(w)
Main == \/ Boot \/ FirstBeat \/ Ready \/ PublishPresence
        \/ ResumeRuns \/ Return \/ Exit
Beating == HeartbeatTimer \/ TickRefreshed \/ Writing("tick")
Stopping ==
  \/ ShutdownRefreshed \/ SayStopping \/ ExecutorShutdown \/ ExecutionOver \/ Drained
  \/ SayStopped \/ CloseStore \/ ReleaseLock \/ ShutdownFails \/ Writing("shutdown")
Driving == SupervisorTick \/ AttemptReturns \/ AfterTick \/ DriveThrows
Sending == \E s \in inFlight, sent \in BOOLEAN : SnapshotSettled(s, sent)

Next ==
  \/ Main \/ Beating \/ Stopping \/ Driving \/ Sending
  \/ ClaimRound \/ LookAgain \/ Signal \/ UncaughtException \/ Kill

Spec == Init /\ [][Next]_vars

(* The event loop runs every callback whose time has come, and every call  *)
(* returns or throws; approvals, signals, exceptions, kills need not come.  *)
Fairness ==
  /\ WF_vars(Main) /\ WF_vars(Beating) /\ WF_vars(Stopping)
  /\ WF_vars(Driving) /\ WF_vars(Sending)

FairSpec == Spec /\ Fairness

-----------------------------------------------------------------------------
(* What the host is seen to do. *)

(* classifyStatus, for a heartbeat that is fresh or not. *)
Status(fresh) ==
  LET beat == file["target"] IN
  CASE beat = "torn"                                  -> "state-corrupt"
    [] beat = "absent" /\ ~lock                       -> "never-started"
    [] beat = "stopped" /\ ~lock                      -> "stopped"
    [] beat \in {"running", "stopping"} /\ ~lock      -> "stale"
    [] beat = "running" /\ lock /\ alive /\ fresh     -> "running"
    [] lock /\ alive /\ beat # "torn" /\ ~(beat = "running" /\ fresh) -> "stale"
    [] beat = "stopped" /\ lock /\ ~alive             -> "stale"
    [] OTHER                                          -> "crashed"

(* What status says of the host is so: "stopped" only once everything of the *)
(* shutdown but its last words is done, "running" not once the host has said *)
(* that it stops, and "stopped" whenever an orderly shutdown went to its     *)
(* end; and it never finds heartbeat.json half written, killed or not.  Out  *)
(* of the reach of the code: a heartbeat tick that was in flight when the    *)
(* shutdown began (raced), and a shutdown that threw before it could say so. *)
StatusTrue ==
  /\ Status(TRUE) = "state-corrupt" => raced
  /\ Status(TRUE) = "stopped" =>
       logged = "host.stopped" /\ store = "closed" /\ sd = "done"
  /\ Status(TRUE) = "running" => sd \in {"no", "refresh", "stopping", "failed"} \/ raced
  /\ (~alive /\ sd = "done" /\ ~raced) => Status(TRUE) = "stopped"

(* The lock outlives the work: when this process has given it up it can write the *)
(* orchestration database no more, and no attempt is executing, unless the        *)
(* executor's shutdown gave up on it.  The next host's recovery marks what it     *)
(* finds running as interrupted, and may run it again.                            *)
LockCoversWork ==
  (alive /\ ~lock) => store # "open" /\ (drive = "executing" => overran)

(* A process that an uncaught exception shut down exits non-zero, although the *)
(* shutdown succeeds and the loop returns a code of its own.  An exception     *)
(* that comes once the shutdown is under way changes nothing.                  *)
ExceptionExitsNonZero ==
  (~alive /\ forced /\ exitCode # "killed") => exitCode = "1"

(* The control plane never goes back to an older state of the Run. *)
SnapshotsInOrder == [][shown' >= shown]_shown

(* Once asked to stop, the process ends.  It does not if a step of the shutdown *)
(* throws while the drive of a paused Run looks at its Run for ever.            *)
Stops == (sd # "no") ~> (~alive \/ (sd = "failed" /\ drive = "parked"))

(* A host that has started comes to claim requests.  It does not if the startup *)
(* resume drives a Run that gets paused, or its first presence fails: then the  *)
(* timers go on and status says "running".                                      *)
Serves ==
  alive ~> (~alive \/ ~running \/ pc = "poll" \/ pc = "rejected"
            \/ (pc = "resume" /\ drive = "parked"))

(* What the Run has become is shown in the end, though superseded publishes are *)
(* dropped: unless the control plane refused a snapshot, or the host was asked  *)
(* to stop.                                                                     *)
LastSnapshotShown ==
  (shown # version) ~> (shown = version \/ unsent \/ sd # "no" \/ ~alive)
=============================================================================
