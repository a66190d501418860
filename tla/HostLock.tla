------------------------------ MODULE HostLock ------------------------------
(***************************************************************************)
(* The single-instance lock of the Agent Host (agent-host/lib/lock.ts):    *)
(* lock.json names the running host, lock-recovery.json guards the removal *)
(* of a lock whose owner died, heartbeat.json says whether the owner was   *)
(* still at work.  Every file-system call and every check of a pid is a    *)
(* step of its own, so host processes interleave between any two of them,  *)
(* and a process may crash at every step.                                  *)
(***************************************************************************)
EXTENDS Naturals

CONSTANTS
  Proc,     \* host processes that may start; each has its own instanceId and pid
  Ghost,    \* instances of earlier sessions: all dead, their files may remain
  Nobody,   \* the instance of a file that does not exist
  MaxTries  \* rounds of both acquisition loops (3 in the code)

ASSUME NobodyAssumption == Nobody \notin Proc \cup Ghost
ASSUME GhostAssumption  == Proc \cap Ghost = {}
ASSUME TriesAssumption  == MaxTries \in Nat \ {0}

VARIABLES
  lock,     \* lock.json: who created it, and whether its text is complete
  guard,    \* lock-recovery.json, likewise
  beat,     \* state of heartbeat.json: "none", "running" or "over"
  staleTo,  \* processes to whose reference time the heartbeat is stale
  pc,       \* where each process stands
  tries,     \* rounds of acquireLock each process began before this one
  guardTry,  \* creations of the guard that failed in this round
  seenLock,  \* the instance each process read in lock.json (existingLock)
  seenGuard, \* ... and in lock-recovery.json (recoveryDocument)
  again,     \* the guarded part is left by "continue", not by an error
  orphaned  \* history: a process died while its recovery guard was on disk

files == <<lock, guard>>
mem   == <<tries, guardTry, seenLock, seenGuard, again>>
vars  == <<lock, guard, beat, staleTo, pc, tries, guardTry, seenLock, seenGuard, again, orphaned>>

Instance == Proc \cup Ghost
Document == [by : Instance \cup {Nobody}, whole : BOOLEAN]
NoFile   == [by |-> Nobody, whole |-> FALSE]
Begun(i) == [by |-> i, whole |-> FALSE]     \* created, still without its text
Full(i)  == [by |-> i, whole |-> TRUE]

EnsureStage  == {"ensureRead", "ensurePid", "dropRead", "dropUnlink"}
SearchStage  == {"createLock", "readLock", "readBeat", "judge", "createGuard"}
OwningStage  == {"verify", "owner", "releaseUnlink"}
GuardedStage == {"recheckLock", "recheckBeat", "rejudge", "removeLock",
                 "freeRead", "freeUnlink"}
EndStage     == {"refused", "stopped", "crashed"}
Stage == EnsureStage \cup SearchStage \cup OwningStage \cup GuardedStage
           \cup {"off", "fillLock", "fillGuard", "releaseRead"} \cup EndStage

Alive(i) == i \in Proc /\ pc[i] \notin {"off"} \cup EndStage

-----------------------------------------------------------------------------
Goto(p, stage) == pc' = [pc EXCEPT ![p] = stage]

(* A process forgets a round when the next begins, and everything when it ends. *)
ForgetRound(p) ==
  /\ guardTry'  = [guardTry EXCEPT ![p] = 0]
  /\ seenLock'  = [seenLock EXCEPT ![p] = Nobody]
  /\ seenGuard' = [seenGuard EXCEPT ![p] = Nobody]
  /\ again'     = [again EXCEPT ![p] = FALSE]
Forget(p) == tries' = [tries EXCEPT ![p] = 0] /\ ForgetRound(p)

End(p, stage) == Goto(p, stage) /\ Forget(p)
Refuse(p)     == End(p, "refused")     \* acquireLock throws, the process exits

(* The next round of acquireLock, or its final refusal. *)
NextRound(p) ==
  \/ /\ tries[p] + 1 < MaxTries
     /\ Goto(p, "ensureRead")
     /\ tries' = [tries EXCEPT ![p] = @ + 1]
     /\ ForgetRound(p)
  \/ tries[p] + 1 >= MaxTries /\ Refuse(p)

(* ensureNoActiveRecovery returned: on to the creation it precedes. *)
EnsureDone(p) ==
  \/ /\ guardTry[p] < MaxTries
     /\ Goto(p, IF guardTry[p] = 0 THEN "createLock" ELSE "createGuard")
     /\ seenGuard' = [seenGuard EXCEPT ![p] = Nobody]
     /\ UNCHANGED <<tries, guardTry, seenLock, again>>
  \/ guardTry[p] >= MaxTries /\ Refuse(p)

(* canRecoverStaleLock, at p's fixed reference time. *)
CanRecover(p) == beat # "running" \/ p \in staleTo

-----------------------------------------------------------------------------
(* What earlier sessions may leave: a dead owner's lock, a dead recoverer's guard. *)
Init ==
  /\ \E g \in Ghost : lock \in {NoFile, Begun(g), Full(g)}
  /\ \E g \in Ghost : guard \in {NoFile, Full(g)}
  /\ guard.by = lock.by => guard = NoFile       \* an owner has freed its guard
  /\ beat \in {"none", "running", "over"}
  /\ staleTo = {}
  /\ pc = [p \in Proc |-> "off"]
  /\ tries = [p \in Proc |-> 0]
  /\ guardTry = [p \in Proc |-> 0]
  /\ seenLock = [p \in Proc |-> Nobody]
  /\ seenGuard = [p \in Proc |-> Nobody]
  /\ again = [p \in Proc |-> FALSE]
  /\ orphaned = (guard # NoFile)

(* acquireLock is called; the heartbeat on disk may be older than the       *)
(* threshold by now, and once it is, later callers find it stale too.       *)
Start(p) ==
  /\ pc[p] = "off"
  /\ Goto(p, "ensureRead")
  /\ \/ staleTo' = staleTo \cup {p}
     \/ staleTo = {} /\ UNCHANGED staleTo
  /\ UNCHANGED <<files, beat, mem, orphaned>>

(* Fault: a malformed guard is read again instead of refused. *)
EnsureRead_waits(p) ==
  /\ pc[p] = "ensureRead"
  /\ \/ guard.by \in {Nobody, p} /\ EnsureDone(p)
     \/ guard.by \notin {Nobody, p} /\ guard.whole
          /\ Goto(p, "ensurePid") /\ seenGuard' = [seenGuard EXCEPT ![p] = guard.by]
          /\ UNCHANGED <<tries, guardTry, seenLock, again>>
     \/ guard.by \notin {Nobody, p} /\ ~guard.whole /\ UNCHANGED <<pc, mem>>
  /\ UNCHANGED <<files, beat, staleTo, orphaned>>

(* ensureNoActiveRecovery: read the guard. *)
EnsureRead(p) ==
  /\ pc[p] = "ensureRead"
  /\ \/ guard.by \in {Nobody, p} /\ (guard.by = p => guard.whole) /\ EnsureDone(p)
     \/ guard.by \notin {Nobody, p} /\ guard.whole
          /\ Goto(p, "ensurePid") /\ seenGuard' = [seenGuard EXCEPT ![p] = guard.by]
          /\ UNCHANGED <<tries, guardTry, seenLock, again>>
     \/ guard.by # Nobody /\ ~guard.whole /\ Refuse(p)            \* state-corrupt
  /\ UNCHANGED <<files, beat, staleTo, orphaned>>

(* Fault: a recoverer is respected without a look at its pid. *)
EnsurePid_refuses(p) ==
  pc[p] = "ensurePid" /\ Refuse(p) /\ UNCHANGED <<files, beat, staleTo, orphaned>>

(* ensureNoActiveRecovery: a live recoverer is respected, a dead one's guard dropped. *)
EnsurePid(p) ==
  /\ pc[p] = "ensurePid"
  /\ IF Alive(seenGuard[p]) THEN Refuse(p) ELSE Goto(p, "dropRead") /\ UNCHANGED mem
  /\ UNCHANGED <<files, beat, staleTo, orphaned>>

(* releaseRecoveryIfOwned of the dead instance: read the guard once more ... *)
DropRead(p) ==
  /\ pc[p] = "dropRead"
  /\ IF guard = Full(seenGuard[p]) THEN Goto(p, "dropUnlink") /\ UNCHANGED mem ELSE EnsureDone(p)
  /\ UNCHANGED <<files, beat, staleTo, orphaned>>

(* ... and unlink whatever is there by now. *)
DropUnlink(p) ==
  /\ pc[p] = "dropUnlink"
  /\ guard' = NoFile
  /\ EnsureDone(p)
  /\ UNCHANGED <<lock, beat, staleTo, orphaned>>

(* writeLock: open(..., 'wx') creates the file or fails with EEXIST. *)
CreateLock(p) ==
  /\ pc[p] = "createLock"
  /\ IF lock = NoFile
     THEN lock' = Begun(p) /\ Goto(p, "fillLock")
     ELSE UNCHANGED lock /\ Goto(p, "readLock")
  /\ UNCHANGED <<guard, beat, staleTo, mem, orphaned>>

(* writeLock: writeFile on the open handle (a path unlinked meanwhile stays gone). *)
FillLock(p) ==
  /\ pc[p] = "fillLock"
  /\ Goto(p, "verify")
  /\ lock' = IF lock = Begun(p) THEN Full(p) ELSE lock
  /\ UNCHANGED <<guard, beat, staleTo, mem, orphaned>>

(* verifyLockOwnership; false, or a malformed file, ends acquireLock with an error. *)
Verify(p) ==
  /\ pc[p] = "verify"
  /\ IF lock = Full(p) THEN Goto(p, "owner") /\ Forget(p) ELSE Refuse(p)
  /\ UNCHANGED <<files, beat, staleTo, orphaned>>

(* EEXIST: who holds the lock? *)
ReadLock(p) ==
  /\ pc[p] = "readLock"
  /\ \/ lock = NoFile /\ NextRound(p)
     \/ lock # NoFile /\ ~lock.whole /\ Refuse(p)                 \* state-corrupt
     \/ lock.whole /\ Goto(p, "readBeat") /\ seenLock' = [seenLock EXCEPT ![p] = lock.by]
          /\ UNCHANGED <<tries, guardTry, seenGuard, again>>
  /\ UNCHANGED <<files, beat, staleTo, orphaned>>

(* A heartbeat that still looks active means refusal, whether the owner lives or not. *)
ReadBeat(p) ==
  /\ pc[p] = "readBeat"
  /\ IF CanRecover(p) THEN Goto(p, "judge") /\ UNCHANGED mem ELSE Refuse(p)
  /\ UNCHANGED <<files, beat, staleTo, orphaned>>

(* Fault: the owner's pid is not checked. *)
Judge_noPid(p) ==
  pc[p] = "judge" /\ Goto(p, "createGuard") /\ UNCHANGED <<files, beat, staleTo, mem, orphaned>>

(* A lock is never taken from a living owner. *)
Judge(p) ==
  /\ pc[p] = "judge"
  /\ IF Alive(seenLock[p]) THEN Refuse(p) ELSE Goto(p, "createGuard") /\ UNCHANGED mem
  /\ UNCHANGED <<files, beat, staleTo, orphaned>>

(* acquireRecoveryGuard: exclusive creation; EEXIST goes through ensureNoActiveRecovery. *)
CreateGuard(p) ==
  /\ pc[p] = "createGuard"
  /\ IF guard = NoFile
     THEN guard' = Begun(p) /\ Goto(p, "fillGuard") /\ UNCHANGED mem
     ELSE /\ UNCHANGED guard
          /\ Goto(p, "ensureRead")
          /\ guardTry' = [guardTry EXCEPT ![p] = @ + 1]
          /\ UNCHANGED <<tries, seenLock, seenGuard, again>>
  /\ UNCHANGED <<lock, beat, staleTo, orphaned>>

FillGuard(p) ==
  /\ pc[p] = "fillGuard"
  /\ Goto(p, "recheckLock")
  /\ guard' = IF guard = Begun(p) THEN Full(p) ELSE guard
  /\ UNCHANGED <<lock, beat, staleTo, mem, orphaned>>

(* Leave the guarded part: its finally clause frees the guard, then "continue" or throw. *)
Leave(p, cont) ==
  /\ Goto(p, "freeRead")
  /\ again' = [again EXCEPT ![p] = cont]
  /\ UNCHANGED <<tries, guardTry, seenLock, seenGuard>>

(* Fault: whatever lock is there now is taken for the one that was judged. *)
RecheckLock_anyLock(p) ==
  /\ pc[p] = "recheckLock"
  /\ IF lock.whole THEN Goto(p, "recheckBeat") /\ UNCHANGED mem ELSE Leave(p, lock = NoFile)
  /\ UNCHANGED <<files, beat, staleTo, orphaned>>

(* Under the guard: is the lock still the one that was judged? *)
RecheckLock(p) ==
  /\ pc[p] = "recheckLock"
  /\ \/ lock = Full(seenLock[p]) /\ Goto(p, "recheckBeat") /\ UNCHANGED mem
     \/ lock.whole /\ lock # Full(seenLock[p]) /\ Leave(p, TRUE)
     \/ lock = NoFile /\ Leave(p, TRUE)
     \/ lock # NoFile /\ ~lock.whole /\ Leave(p, FALSE)
  /\ UNCHANGED <<files, beat, staleTo, orphaned>>

RecheckBeat(p) ==
  /\ pc[p] = "recheckBeat"
  /\ IF CanRecover(p) THEN Goto(p, "rejudge") /\ UNCHANGED mem ELSE Leave(p, FALSE)
  /\ UNCHANGED <<files, beat, staleTo, orphaned>>

Rejudge(p) ==
  /\ pc[p] = "rejudge"
  /\ IF Alive(seenLock[p]) THEN Leave(p, FALSE) ELSE Goto(p, "removeLock") /\ UNCHANGED mem
  /\ UNCHANGED <<files, beat, staleTo, orphaned>>

RemoveLock(p) ==
  /\ pc[p] = "removeLock"
  /\ lock' = NoFile
  /\ Leave(p, TRUE)
  /\ UNCHANGED <<guard, beat, staleTo, orphaned>>

(* The finally clause: read, and unlink if the guard is p's own. *)
LeaveTo(p) == IF again[p] THEN NextRound(p) ELSE Refuse(p)

FreeRead(p) ==
  /\ pc[p] = "freeRead"
  /\ IF guard = Full(p) THEN Goto(p, "freeUnlink") /\ UNCHANGED mem ELSE LeaveTo(p)
  /\ UNCHANGED <<files, beat, staleTo, orphaned>>

FreeUnlink(p) ==
  /\ pc[p] = "freeUnlink"
  /\ guard' = NoFile
  /\ LeaveTo(p)
  /\ UNCHANGED <<lock, beat, staleTo, orphaned>>

(* The owner refreshes its heartbeat; after the last one it releases the lock. *)
Beat(p) ==
  /\ pc[p] = "owner"
  /\ beat' = "running"
  /\ staleTo' = {}
  /\ UNCHANGED <<files, pc, mem, orphaned>>

Stop(p) ==
  /\ pc[p] = "owner"
  /\ Goto(p, "releaseRead")
  /\ beat' = "over"
  /\ staleTo' = {}
  /\ UNCHANGED <<files, mem, orphaned>>

(* releaseLockIfOwned: read, and unlink if it is the own lock. *)
ReleaseRead(p) ==
  /\ pc[p] = "releaseRead"
  /\ IF lock = Full(p) THEN Goto(p, "releaseUnlink") /\ UNCHANGED mem ELSE End(p, "stopped")
  /\ UNCHANGED <<files, beat, staleTo, orphaned>>

ReleaseUnlink(p) ==
  /\ pc[p] = "releaseUnlink"
  /\ lock' = NoFile
  /\ End(p, "stopped")
  /\ UNCHANGED <<guard, beat, staleTo, orphaned>>

(* A process dies; its files stay. *)
Crash(p) ==
  /\ Alive(p)
  /\ End(p, "crashed")
  /\ orphaned' = (orphaned \/ guard.by = p)
  /\ UNCHANGED <<files, beat, staleTo>>

-----------------------------------------------------------------------------
(* What process p does of its own accord, besides staying in operation. *)
Advance(p) ==
  \/ EnsureRead(p)  \/ EnsurePid(p)   \/ DropRead(p)   \/ DropUnlink(p)
  \/ CreateLock(p)  \/ FillLock(p)    \/ Verify(p)
  \/ ReadLock(p)    \/ ReadBeat(p)    \/ Judge(p)
  \/ CreateGuard(p) \/ FillGuard(p)   \/ RecheckLock(p) \/ RecheckBeat(p)
  \/ Rejudge(p)     \/ RemoveLock(p)  \/ FreeRead(p)    \/ FreeUnlink(p)
  \/ ReleaseRead(p) \/ ReleaseUnlink(p)

Next == \E p \in Proc : Start(p) \/ Advance(p) \/ Beat(p) \/ Stop(p) \/ Crash(p)

Spec == Init /\ [][Next]_vars

(* A process that is scheduled keeps taking its steps; starting, stopping *)
(* and crashing are never promised.                                       *)
FairSpec == Spec /\ \A p \in Proc : WF_vars(Advance(p))

-----------------------------------------------------------------------------
TypeOK ==
  /\ lock \in Document
  /\ guard \in Document
  /\ beat \in {"none", "running", "over"}
  /\ staleTo \subseteq Proc
  /\ pc \in [Proc -> Stage]
  /\ tries \in [Proc -> 0 .. MaxTries - 1]
  /\ guardTry \in [Proc -> 0 .. MaxTries]
  /\ seenLock \in [Proc -> Instance \cup {Nobody}]
  /\ seenGuard \in [Proc -> Instance \cup {Nobody}]
  /\ again \in [Proc -> BOOLEAN]
  /\ orphaned \in BOOLEAN

Owns(p) == pc[p] \in {"owner", "releaseRead", "releaseUnlink"}

(* "Single-instance lock" (agent-host/README.md:12): at most one live host  *)
(* has come out of acquireLock successfully and not yet released.           *)
SingleInstance == \A p, q \in Proc : Owns(p) /\ Owns(q) => p = q

(* The same, as long as no process ever died inside the guarded part of a   *)
(* recovery: exclusive creation, the two identity checks and the guard      *)
(* leave room for one owner however many processes contend.                 *)
SingleInstanceUnlessOrphaned == ~orphaned => SingleInstance

(* One recoverer at a time works under the guard (same condition).          *)
OneRecoverer ==
  ~orphaned => \A p, q \in Proc : pc[p] \in GuardedStage /\ pc[q] \in GuardedStage => p = q

(* Why that is so (the inductive invariant, while nobody died under a guard): *)
(* an owner-to-be and an owner have their own lock on disk ...                *)
Ended(i)    == i \in Ghost \/ (i \in Proc /\ pc[i] \in EndStage)
Started(i)  == i \in Ghost \/ (i \in Proc /\ pc[i] # "off")
Recovers(p) == pc[p] \in GuardedStage \cup {"fillGuard"}

LockHeld == \A p \in Proc :
  /\ pc[p] = "fillLock" => lock = Begun(p)
  /\ pc[p] \in OwningStage \cup {"releaseRead"} => lock = Full(p)

(* ... the guard on disk is that of the one live recoverer, and nobody is     *)
(* about to unlink it for a dead one's ...                                    *)
GuardHeld ==
  /\ \A p \in Proc : /\ pc[p] = "fillGuard" => guard = Begun(p)
                     /\ pc[p] \in GuardedStage => guard = Full(p)
                     /\ pc[p] # "dropUnlink"
  /\ guard.by # Nobody => guard.by \in Proc /\ Recovers(guard.by)

(* ... the lock a recoverer has confirmed under its guard stays there ...     *)
Confirmed == \A p \in Proc :
  pc[p] \in {"recheckBeat", "rejudge", "removeLock"} => lock = Full(seenLock[p])

(* ... and whatever was judged dead has ended, for good (and the guard loop   *)
(* stays within its rounds).                                                  *)
Judged == \A p \in Proc :
  /\ pc[p] \in {"readBeat", "judge"} => Started(seenLock[p])
  /\ pc[p] \in {"createGuard", "fillGuard"} \cup (GuardedStage \ {"freeRead", "freeUnlink"})
       => Ended(seenLock[p])
  /\ pc[p] \in EnsureStage /\ guardTry[p] > 0 => Ended(seenLock[p])
  /\ pc[p] \in {"off"} \cup (SearchStage \ {"createGuard"}) => guardTry[p] = 0
  /\ pc[p] = "createGuard" => guardTry[p] < MaxTries
  /\ pc[p] = "ensurePid" => Started(seenGuard[p])
  /\ pc[p] \in {"dropRead", "dropUnlink"} => Ended(seenGuard[p])

Written ==
  /\ lock # NoFile => Started(lock.by)
  /\ guard # NoFile => Started(guard.by)

LockInv ==
  /\ TypeOK /\ Written /\ Judged
  /\ ~orphaned => LockHeld /\ GuardHeld /\ Confirmed

(* The lock of a live owner is never taken from disk by somebody else, and  *)
(* a recovery removes nothing but what a dead process left (lock.test:      *)
(* "lock acquisition never steals a live matching instance").               *)
NeverSteals ==
  [][\A p \in Proc :
       ~orphaned /\ Alive(p) /\ lock.by = p /\ lock'.by # p => pc[p] = "releaseUnlink"]_vars

(* A contender is never stuck: the bounded loops end with the lock, a       *)
(* refusal, or a crash.                                                     *)
Acquiring(p) == Alive(p) /\ ~Owns(p)
Decides == \A p \in Proc : Acquiring(p) ~> (Owns(p) \/ pc[p] \in EndStage)

(* A dead owner does not keep the repository locked: a host that starts     *)
(* alone, after the heartbeat went stale, over complete leftover files ends *)
(* up owning the lock, unless it dies or others start.                      *)
Alone(p) == \A q \in Proc \ {p} : ~Alive(q)
Recoverable(p) ==
  /\ pc[p] = "ensureRead" /\ tries[p] = 0 /\ guardTry[p] = 0 /\ Alone(p)
  /\ CanRecover(p)
  /\ lock = NoFile \/ lock.whole
  /\ guard = NoFile \/ guard.whole
RecoversAlone ==
  \A p \in Proc : Recoverable(p) ~> (Owns(p) \/ pc[p] = "crashed" \/ ~Alone(p))
=============================================================================
