---------------------------- MODULE ApplyCandidate ----------------------------
(***************************************************************************)
(* The application of a verified candidate to the owner's working tree     *)
(* (agent-host/control/applyCandidate.ts): preflight, one write per file   *)
(* with a re-check before it, verification, rollback of what was written,  *)
(* the durable applied event, the answer to the request.  The owner works  *)
(* in the same tree without any lock, every file-system call may fail, a   *)
(* write may fail half way, and the host may die at any await.  Requests   *)
(* for the same candidate come one after the other: the host has one slot. *)
(***************************************************************************)
EXTENDS Naturals

CONSTANTS
  N,    \* the candidate changes the files 1..N, in the order of the change list
  Kind  \* the kind of each change

File  == 1 .. N
Kinds == {"add", "modify", "delete"}

ASSUME NAssumption    == N \in Nat \ {0}
ASSUME KindAssumption == Kind \in [File -> Kinds]

VARIABLES
  disk,      \* what each path holds in the owner's tree
  unsafe,    \* paths that lead through a junction or to a symbolic link
  event,     \* control.candidate.applied is in the store
  pc,        \* where handleApplyCandidate is; "idle" between requests
  at,        \* the file in hand
  conflicts, \* files whose bytes were not the baseline's in the preflight
  partial,   \* partialPaths: files the rollback left alone
  restored,  \* files the rollback put back and has not yet confirmed
  answer,    \* the outcome of the latest request: being told at "reply", told at "idle"
  swapped,   \* history: the owner swapped the path in hand after its safety check
  raced,     \* history: the owner edited the file in hand after its bytes were compared
  wrote,     \* history: files whose bytes this request changed
  torn,      \* history: the file whose write failed after it had begun
  seen,      \* history: files found as intended by the verification, or by the rollback's
  edited     \* history: of those, the files the owner has edited since

request == <<pc, at, conflicts, partial, restored, answer>>
history == <<swapped, raced, wrote, torn, seen, edited>>
vars == <<disk, unsafe, event, pc, at, conflicts, partial, restored, answer,
          swapped, raced, wrote, torn, seen, edited>>

(* The captured baseline, what the candidate makes of it, an owner's edit, a torn write. *)
Bytes  == {"absent", "old", "new", "mine", "half"}
Step   == {"idle", "prepare", "read", "recheck", "compare", "write", "verify", "record",
           "rollback", "prove", "restore", "confirm", "reply"}
Answer == {"none", "already", "refused", "applied", "PASS", "PARTIAL", "FAIL", "filesystem",
           "lost"}

Base(f)   == IF Kind[f] = "add" THEN "absent" ELSE "old"
Target(f) == IF Kind[f] = "delete" THEN "absent" ELSE "new"

canonicalMatchesBaseline(f)     == disk[f] = Base(f)
canProveApplyChangeStillIntact(f) == disk[f] = Target(f)

TypeOK ==
  /\ disk \in [File -> Bytes] /\ unsafe \subseteq File /\ event \in BOOLEAN
  /\ pc \in Step /\ at \in File /\ answer \in Answer
  /\ conflicts \subseteq File /\ partial \subseteq File /\ restored \subseteq File
  /\ swapped \in BOOLEAN /\ raced \in BOOLEAN /\ wrote \subseteq File /\ torn \subseteq File
  /\ seen \subseteq File /\ edited \subseteq File

Init ==
  /\ disk = [f \in File |-> Base(f)] /\ unsafe = {} /\ event = FALSE
  /\ pc = "idle" /\ at = 1 /\ answer = "none"
  /\ conflicts = {} /\ partial = {} /\ restored = {}
  /\ swapped = FALSE /\ raced = FALSE
  /\ wrote = {} /\ torn = {} /\ seen = {} /\ edited = {}

GoTo(step, f) == pc' = step /\ at' = f
Outcome(a)    == pc' = "reply" /\ answer' = a

-----------------------------------------------------------------------------
(* Preflight *)

(* Fault: the request does not look for the applied event. *)
Begin_again ==
  /\ pc = "idle"
  /\ GoTo("prepare", 1) /\ answer' = "none"
  /\ conflicts' = {} /\ partial' = {} /\ restored' = {}
  /\ wrote' = {} /\ torn' = {} /\ seen' = {} /\ edited' = {}
  /\ UNCHANGED <<disk, unsafe, event, swapped, raced>>

(* A candidate whose applied event is recorded is answered at once. *)
Begin ==
  /\ pc = "idle"
  /\ \/ event /\ Outcome("already")
        /\ UNCHANGED <<at, conflicts, partial, restored, history>>
     \/ /\ ~event
        /\ GoTo("prepare", 1) /\ answer' = "none"
        /\ conflicts' = {} /\ partial' = {} /\ restored' = {}
        /\ wrote' = {} /\ torn' = {} /\ seen' = {} /\ edited' = {}
        /\ UNCHANGED <<swapped, raced>>
  /\ UNCHANGED <<disk, unsafe, event>>

(* The run, its verdict, the policy, the workspace or a path does not allow the      *)
(* application, or a call of the preflight throws.                                   *)
Refuse ==
  /\ pc \in {"prepare", "read"}
  /\ \E a \in {"refused", "filesystem"} : Outcome(a)
  /\ UNCHANGED <<disk, unsafe, event, at, conflicts, partial, restored, history>>

(* resolveSafePath, for the path and for the workspace's; the candidate's bytes.    *)
Prepare ==
  /\ pc = "prepare" /\ at \notin unsafe
  /\ pc' = "read"
  /\ UNCHANGED <<disk, unsafe, event, at, conflicts, partial, restored, answer, history>>

(* The file in hand is compared with the baseline; all conflicts are collected. *)
Read ==
  /\ pc = "read"
  /\ conflicts' = IF canonicalMatchesBaseline(at) THEN conflicts ELSE conflicts \cup {at}
  /\ \/ at < N /\ GoTo("prepare", at + 1) /\ UNCHANGED answer
     \/ at = N /\ conflicts' = {} /\ GoTo("recheck", 1) /\ UNCHANGED answer
     \/ at = N /\ conflicts' # {} /\ Outcome("refused") /\ UNCHANGED at
  /\ UNCHANGED <<disk, unsafe, event, partial, restored, history>>

-----------------------------------------------------------------------------
(* commitPreparedWrites *)

(* Something threw after the first k files were written: they are rolled back. *)
Abort(k) ==
  /\ IF k = 0 THEN Outcome("PASS") /\ UNCHANGED at
              ELSE GoTo("rollback", k) /\ UNCHANGED answer
  /\ seen' = {} /\ edited' = {}

(* Fault: the path is not checked again before the write. *)
Recheck_bytesOnly ==
  /\ pc = "recheck"
  /\ pc' = "compare" /\ swapped' = FALSE
  /\ UNCHANGED <<disk, unsafe, event, at, conflicts, partial, restored, answer,
                 raced, wrote, torn, seen, edited>>

(* resolveSafePath: the path in hand is still one inside the repository. *)
Recheck ==
  /\ pc = "recheck"
  /\ \/ /\ at \notin unsafe
        /\ pc' = "compare" /\ swapped' = FALSE
        /\ UNCHANGED <<at, answer, seen, edited>>
     \/ Abort(at - 1) /\ UNCHANGED swapped
  /\ UNCHANGED <<disk, unsafe, event, conflicts, partial, restored, raced, wrote, torn>>

(* Then its bytes, read through whatever the path has become: a failing read, or a   *)
(* target that is a link by now, is taken for a drifted file.                        *)
Compare ==
  /\ pc = "compare"
  /\ \/ /\ canonicalMatchesBaseline(at)
        /\ pc' = "write" /\ raced' = FALSE
        /\ UNCHANGED <<at, answer, seen, edited>>
     \/ Abort(at - 1) /\ UNCHANGED raced
  /\ UNCHANGED <<disk, unsafe, event, conflicts, partial, restored, swapped, wrote, torn>>

(* rm with force: false fails on a file that is not there. *)
Write ==
  /\ pc = "write"
  /\ Kind[at] = "delete" => disk[at] # "absent"
  /\ disk' = [disk EXCEPT ![at] = Target(at)]
  /\ wrote' = wrote \cup {at}
  /\ IF at < N THEN GoTo("recheck", at + 1) ELSE GoTo("verify", 1)
  /\ UNCHANGED <<unsafe, event, conflicts, partial, restored, answer, swapped, raced,
                 torn, seen, edited>>

(* What a call that fails, or a host that dies in it, leaves of the bytes b written to f. *)
Remains(f, b) == IF b = "absent" THEN {disk[f], b} ELSE {disk[f], "half", b}

(* touched.push comes after the write: a file whose write failed is not rolled back. *)
WriteFails ==
  /\ pc = "write"
  /\ \E b \in Remains(at, Target(at)) :
       /\ disk' = [disk EXCEPT ![at] = b]
       /\ IF b = disk[at] THEN UNCHANGED <<wrote, torn>>
          ELSE wrote' = wrote \cup {at} /\ torn' = torn \cup {at}
  /\ Abort(at - 1)
  /\ UNCHANGED <<unsafe, event, conflicts, partial, restored, swapped, raced>>

(* Fault: off by one, the last file is not verified. *)
Verify_short ==
  /\ pc = "verify"
  /\ \/ /\ disk[at] = Target(at)
        /\ seen' = seen \cup {at}
        /\ IF at + 1 < N THEN GoTo("verify", at + 1) ELSE pc' = "record" /\ UNCHANGED at
        /\ UNCHANGED <<answer, edited>>
     \/ Abort(N)
  /\ UNCHANGED <<disk, unsafe, event, conflicts, partial, restored, swapped, raced,
                 wrote, torn>>

(* The note before it, a read, or the comparison may throw. *)
Verify ==
  /\ pc = "verify"
  /\ \/ /\ disk[at] = Target(at)
        /\ seen' = seen \cup {at}
        /\ IF at < N THEN GoTo("verify", at + 1) ELSE pc' = "record" /\ UNCHANGED at
        /\ UNCHANGED <<answer, edited>>
     \/ Abort(N)
  /\ UNCHANGED <<disk, unsafe, event, conflicts, partial, restored, swapped, raced,
                 wrote, torn>>

-----------------------------------------------------------------------------
(* rollbackTouched, from the last file written to the first *)

NextBack == IF at > 1 THEN GoTo("rollback", at - 1) ELSE pc' = "confirm" /\ UNCHANGED at

(* Fault: the file left alone is not reported. *)
LeaveAlone_silent ==
  /\ \/ pc = "rollback" /\ at \in unsafe
     \/ pc = "prove" /\ (~canProveApplyChangeStillIntact(at) \/ Kind[at] # "delete")
  /\ NextBack
  /\ UNCHANGED <<disk, unsafe, event, conflicts, partial, restored, answer, history>>

(* A file whose path is unsafe, that no longer holds what was written, or, unless a  *)
(* deletion is undone, that cannot be read, is left alone.                           *)
LeaveAlone ==
  /\ \/ pc = "rollback" /\ at \in unsafe
     \/ pc = "prove" /\ (~canProveApplyChangeStillIntact(at) \/ Kind[at] # "delete")
  /\ partial' = partial \cup {at}
  /\ NextBack
  /\ UNCHANGED <<disk, unsafe, event, conflicts, restored, answer, history>>

(* resolveSafePath again ... *)
StillSafe ==
  /\ pc = "rollback" /\ at \notin unsafe
  /\ pc' = "prove" /\ swapped' = FALSE
  /\ UNCHANGED <<disk, unsafe, event, at, conflicts, partial, restored, answer,
                 raced, wrote, torn, seen, edited>>

(* ... and then the bytes. *)
Prove ==
  /\ pc = "prove" /\ canProveApplyChangeStillIntact(at)
  /\ pc' = "restore" /\ raced' = FALSE
  /\ UNCHANGED <<disk, unsafe, event, at, conflicts, partial, restored, answer,
                 swapped, wrote, torn, seen, edited>>

Restore ==
  /\ pc = "restore"
  /\ Kind[at] = "add" => disk[at] # "absent"
  /\ disk' = [disk EXCEPT ![at] = Base(at)]
  /\ restored' = restored \cup {at}
  /\ NextBack
  /\ UNCHANGED <<unsafe, event, conflicts, partial, answer, history>>

RestoreFails ==
  /\ pc = "restore"
  /\ \E b \in Remains(at, Base(at)) : disk' = [disk EXCEPT ![at] = b]
  /\ Outcome("FAIL")
  /\ UNCHANGED <<unsafe, event, at, conflicts, partial, restored, history>>

(* Every restore is read again, the latest file first; then the rollback is over. *)
Confirm ==
  /\ pc = "confirm"
  /\ \/ \E f \in restored :
          /\ \A g \in restored : g <= f
          /\ disk[f] = Base(f)
          /\ restored' = restored \ {f} /\ seen' = seen \cup {f}
          /\ UNCHANGED <<pc, answer>>
     \/ /\ restored = {}
        /\ Outcome(IF partial = {} THEN "PASS" ELSE "PARTIAL")
        /\ UNCHANGED <<restored, seen>>
  /\ UNCHANGED <<disk, unsafe, event, at, conflicts, partial, swapped, raced,
                 wrote, torn, edited>>

(* A restored file does not hold the baseline, or a look at a file throws. *)
RollbackFails ==
  /\ \/ pc = "rollback"
     \/ pc = "prove" /\ Kind[at] = "delete"
     \/ pc = "confirm" /\ restored # {}
  /\ Outcome("FAIL")
  /\ UNCHANGED <<disk, unsafe, event, at, conflicts, partial, restored, history>>

-----------------------------------------------------------------------------
(* The event, the answer, the owner and the end of the host *)

Record ==
  /\ pc = "record"
  /\ \/ event' = TRUE /\ Outcome("applied")
     \/ Outcome("filesystem") /\ UNCHANGED event
  /\ UNCHANGED <<disk, unsafe, at, conflicts, partial, restored, history>>

(* A failing call is answered by the catch clause; if that fails too, by no one here. *)
Reply ==
  /\ pc = "reply"
  /\ pc' = "idle" /\ answer' \in {answer, "filesystem", "lost"}
  /\ UNCHANGED <<disk, unsafe, event, at, conflicts, partial, restored, history>>

(* The owner writes, deletes or restores a file, or swaps what a path leads through. *)
OwnerEdit(f) ==
  /\ \E b \in Bytes \ {"half"} : disk' = [disk EXCEPT ![f] = b]
  /\ unsafe' \in {unsafe \cup {f}, unsafe \ {f}}
  /\ <<disk, unsafe>>' # <<disk, unsafe>>
  /\ swapped' = (swapped \/ (f = at /\ unsafe' # unsafe /\
                              pc \in {"compare", "write", "prove", "restore"}))
  /\ raced' = (raced \/ (f = at /\ disk' # disk /\ pc \in {"write", "restore"}))
  /\ edited' = edited \cup ({f} \cap seen)
  /\ UNCHANGED <<event, request, wrote, torn, seen>>

Crash ==
  /\ pc # "idle"
  /\ \E b \in CASE pc = "write"   -> Remains(at, Target(at))
                [] pc = "restore" -> Remains(at, Base(at))
                [] OTHER          -> {disk[at]} :
       disk' = [disk EXCEPT ![at] = b]
  /\ pc' = "idle" /\ answer' = "lost"
  /\ UNCHANGED <<unsafe, event, at, conflicts, partial, restored, history>>

Host ==
  \/ Begin \/ Refuse \/ Prepare \/ Read
  \/ Recheck \/ Compare \/ Write \/ WriteFails \/ Verify
  \/ LeaveAlone \/ StillSafe \/ Prove \/ Restore \/ RestoreFails \/ Confirm \/ RollbackFails
  \/ Record \/ Reply

Next == Host \/ Crash \/ \E f \in File : OwnerEdit(f)

Spec == Init /\ [][Next]_vars

-----------------------------------------------------------------------------
(* Apply overwrites or deletes only a file that holds the baseline, undoes only what  *)
(* holds its own bytes, and does either inside the repository: an edit, a file a dead *)
(* host left behind, what lies behind a junction survive.  The code closes neither of *)
(* two windows: bytes edited after they were compared (lines 593 and 681), and a path *)
(* swapped after its safety check (587 and 673), which the comment at 597 accepts: in *)
(* it bytes behind a junction are overwritten if they are, again, the known ones.     *)
OnlyKnownBytes ==
  [][pc' # pc => \A f \in File : disk'[f] # disk[f] =>
       /\ pc \in {"write", "restore"} /\ f = at
       /\ f \in unsafe => swapped
       /\ disk[f] # (IF pc = "write" THEN Base(f) ELSE Target(f)) => raced]_vars

(* The applied event means that every file held the candidate's bytes when the        *)
(* verification looked at it: what differs now the owner has edited since.            *)
AppliedIsOnDisk ==
  event => \A f \in File : canProveApplyChangeStillIntact(f) \/ f \in edited

(* A candidate recorded as applied is never written again, even when the owner has    *)
(* taken it back since and asks once more, or the host has died in between.           *)
AppliedOnce == [][event /\ pc' # pc => disk' = disk]_vars

(* After a rollback reported as PASS or PARTIAL each file that the request changed    *)
(* holds the baseline again, or was edited by the owner after that was confirmed, or  *)
(* is named to the owner as left alone; except the file whose write failed half way.  *)
RollbackTold ==
  pc \in {"reply", "idle"} /\ answer \in {"PASS", "PARTIAL"} =>
    \A f \in wrote \ torn : disk[f] = Base(f) \/ f \in partial \cup edited

(* What the comment at line 629 wants: "the user must hear that rollback did not      *)
(* cleanly restore the tree".                                                         *)
RollbackHeard ==
  pc \in {"reply", "idle"} /\ answer \in {"PASS", "PARTIAL"} =>
    \A f \in wrote : disk[f] = Base(f) \/ f \in partial \cup edited
=============================================================================
