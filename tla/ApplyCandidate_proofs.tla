------------------------- MODULE ApplyCandidate_proofs -------------------------
(***************************************************************************)
(* What ApplyCandidate promises, proved for any number of files of any     *)
(* kinds, however the owner, the file system and the host behave.          *)
(***************************************************************************)
EXTENDS ApplyCandidate, TLAPS

(* What was found intact by the verification, or confirmed, is so unless edited since. *)
Intact(f) == disk[f] = Target(f) \/ f \in edited
Clean(f)  == disk[f] = Base(f) \/ f \in edited

(* From its path's check on the path in hand is safe, or has been swapped since; from *)
(* the comparison on its bytes are those compared, or have been edited since.         *)
InHand ==
  /\ pc \in {"compare", "write", "prove", "restore"} => at \notin unsafe \/ swapped
  /\ pc = "write"   => disk[at] = Base(at) \/ raced
  /\ pc = "restore" => disk[at] = Target(at) \/ raced

(* The verification has seen the files before the one in hand, all of them at the end. *)
Verified ==
  /\ pc = "verify" => \A f \in File : f < at => f \in seen
  /\ pc = "record" => seen = File
  /\ pc \in {"verify", "record"} => \A f \in seen : Intact(f)

(* Every whole write is still to be undone, left alone, put back, or confirmed. *)
Undone ==
  /\ pc \in {"recheck", "compare", "write"} => \A f \in wrote : f < at
  /\ pc \in {"rollback", "prove", "restore"} =>
       \A f \in wrote \ torn : f <= at \/ f \in partial \cup restored
  /\ pc = "confirm" =>
       \A f \in wrote \ torn : f \in partial \cup restored \/ (f \in seen /\ Clean(f))
  /\ pc \in {"reply", "idle"} /\ answer \in {"PASS", "PARTIAL"} =>
       \A f \in wrote \ torn : f \in partial \/ (f \in seen /\ Clean(f))

(* The event is recorded once, with every file seen, and ends the work on the candidate. *)
Recorded ==
  /\ event => pc \in {"idle", "reply"} /\ seen = File /\ \A f \in File : Intact(f)

(* A request starts with nothing written, and nothing is verified before all is written. *)
Fresh ==
  /\ pc \in {"prepare", "read"} => wrote = {} /\ torn = {}
  /\ pc \in {"prepare", "read", "recheck", "compare", "write"} => seen = {}

ApplyInv == TypeOK /\ InHand /\ Verified /\ Undone /\ Recorded /\ Fresh

-----------------------------------------------------------------------------
(* The bytes a file starts with, should hold, and may be left with. *)
LEMMA BytesOf == ASSUME NEW f \in File
                 PROVE Base(f) \in Bytes /\ Target(f) \in Bytes
  BY DEF Base, Target, Bytes

LEMMA Left == ASSUME TypeOK, NEW f \in File, NEW b \in Bytes, NEW r \in Remains(f, b)
              PROVE r \in Bytes
  BY DEF TypeOK, Remains, Bytes

(* The file in hand moves within the candidate's files. *)
LEMMA Moves ==
  /\ 1 \in File /\ N \in File
  /\ \A f \in File : (f < N => f + 1 \in File) /\ (f > 1 => f - 1 \in File)
  /\ \A f \in File : f - 1 # 0 => f - 1 \in File
  BY NAssumption DEF File

LEMMA Order ==
  \A f, g \in File :
    /\ 1 <= f /\ f <= N /\ ~(f < 1)
    /\ f < g <=> f <= g - 1
    /\ f < g + 1 <=> f < g \/ f = g
    /\ f <= g <=> f <= g - 1 \/ f = g
    /\ f < g => g - 1 # 0
    /\ ~(g < N) => g = N
    /\ ~(g > 1) => g = 1
    /\ f <= 1 => f = 1
  BY NAssumption DEF File

LEMMA Typed == TypeOK /\ [Next]_vars => TypeOK'
<1> SUFFICES ASSUME TypeOK, [Next]_vars PROVE TypeOK'
  OBVIOUS
<1> USE Moves DEF TypeOK, Step, Answer
<1>1. CASE Begin
  BY <1>1 DEF Begin, Outcome, GoTo, history
<1>2. CASE Refuse
  BY <1>2 DEF Refuse, Outcome, history
<1>3. CASE Prepare
  BY <1>3 DEF Prepare, history
<1>4. CASE Recheck
  BY <1>4 DEF Recheck, Abort, Outcome, GoTo
<1>5. CASE Write
  BY <1>5, BytesOf, Left DEF Write, GoTo
<1>6. CASE WriteFails
  BY <1>6, BytesOf, Left DEF WriteFails, Abort, Outcome, GoTo
<1>7. CASE Verify
  BY <1>7 DEF Verify, Abort, Outcome, GoTo
<1>8. CASE LeaveAlone
  BY <1>8 DEF LeaveAlone, NextBack, GoTo, history
<1>9. CASE Prove
  BY <1>9 DEF Prove
<1>10. CASE Restore
  BY <1>10, BytesOf, Left DEF Restore, NextBack, GoTo, history
<1>11. CASE RestoreFails
  BY <1>11, BytesOf, Left DEF RestoreFails, Outcome, history
<1>12. CASE Confirm
  BY <1>12 DEF Confirm, Outcome
<1>13. CASE RollbackFails
  BY <1>13 DEF RollbackFails, Outcome, history
<1>14. CASE Record
  BY <1>14 DEF Record, Outcome, history
<1>15. CASE Reply
  BY <1>15 DEF Reply, history
<1>16. ASSUME NEW f \in File, OwnerEdit(f) PROVE TypeOK'
  BY <1>16 DEF OwnerEdit, request, Bytes
<1>17. CASE Crash
  BY <1>17, BytesOf, Left DEF Crash, history
<1>18. CASE UNCHANGED vars
  BY <1>18 DEF vars
<1>19. CASE Read
  BY <1>19 DEF Read, Outcome, GoTo, history
<1>20. CASE Compare
  BY <1>20 DEF Compare, Abort, Outcome, GoTo
<1>21. CASE StillSafe
  BY <1>21 DEF StillSafe
<1> QED
  BY <1>1, <1>2, <1>3, <1>4, <1>5, <1>6, <1>7, <1>8, <1>9, <1>10, <1>11, <1>12,
     <1>13, <1>14, <1>15, <1>16, <1>17, <1>18, <1>19, <1>20, <1>21 DEF Next, Host
-----------------------------------------------------------------------------
LEMMA Started == Init => ApplyInv
<1> SUFFICES ASSUME Init PROVE ApplyInv
  OBVIOUS
<1>1. TypeOK
  BY BytesOf, Moves DEF Init, TypeOK, Step, Answer
<1> QED
  BY <1>1 DEF Init, ApplyInv, InHand, Verified, Undone, Recorded, Fresh

LEMMA Stepped ==
  ASSUME ApplyInv, [Next]_vars, TypeOK'
  PROVE  (InHand /\ Verified /\ Undone /\ Recorded /\ Fresh)'
<1> USE Moves DEF ApplyInv, TypeOK
<1>1. CASE Begin
  <2>1. InHand'
    BY <1>1 DEF InHand, Begin, Outcome, GoTo, history
  <2>2. Verified'
    BY <1>1 DEF Verified, Intact, Begin, Outcome, GoTo, history
  <2>3. Undone'
    BY <1>1 DEF Undone, Clean, Begin, Outcome, GoTo, history
  <2>4. Recorded'
    BY <1>1 DEF Recorded, Intact, Begin, Outcome, GoTo, history
  <2>5. Fresh'
    BY <1>1 DEF Fresh, Begin, Outcome, GoTo, history
  <2> QED
    BY <2>1, <2>2, <2>3, <2>4, <2>5
<1>2. CASE Refuse
  <2>1. InHand'
    BY <1>2 DEF InHand, Refuse, Outcome, history
  <2>2. Verified'
    BY <1>2 DEF Verified, Intact, Refuse, Outcome, history
  <2>3. Undone'
    BY <1>2 DEF Undone, Clean, Refuse, Outcome, history
  <2>4. Recorded'
    BY <1>2 DEF Recorded, Intact, Refuse, Outcome, history
  <2>5. Fresh'
    BY <1>2 DEF Fresh, Refuse, Outcome, history
  <2> QED
    BY <2>1, <2>2, <2>3, <2>4, <2>5
<1>3. CASE Prepare
  <2>1. InHand'
    BY <1>3 DEF InHand, Prepare, history
  <2>2. Verified'
    BY <1>3 DEF Verified, Intact, Prepare, history
  <2>3. Undone'
    BY <1>3 DEF Undone, Clean, Prepare, history
  <2>4. Recorded'
    BY <1>3 DEF Recorded, Intact, Prepare, history
  <2>5. Fresh'
    BY <1>3 DEF Fresh, Prepare, history
  <2> QED
    BY <2>1, <2>2, <2>3, <2>4, <2>5
<1>4. CASE Recheck
  <2>1. InHand'
    BY <1>4 DEF InHand, Recheck, Abort, Outcome, GoTo
  <2>2. Verified'
    BY <1>4 DEF Verified, Intact, Recheck, Abort, Outcome, GoTo
  <2>3. Undone'
    BY <1>4, Order DEF Undone, Clean, Recheck, Abort, Outcome, GoTo
  <2>4. Recorded'
    BY <1>4 DEF Recorded, Intact, Recheck, Abort, Outcome, GoTo
  <2>5. Fresh'
    BY <1>4 DEF Fresh, Recheck, Abort, Outcome, GoTo
  <2> QED
    BY <2>1, <2>2, <2>3, <2>4, <2>5
<1>5. CASE Write
  <2>1. InHand'
    BY <1>5 DEF InHand, Write, GoTo
  <2>2. Verified'
    BY <1>5, Order DEF Fresh, Verified, Intact, Write, GoTo
  <2>3. Undone'
    BY <1>5, Order DEF Undone, Clean, Write, GoTo
  <2>4. Recorded'
    BY <1>5 DEF Recorded, Intact, Write, GoTo
  <2>5. Fresh'
    BY <1>5 DEF Fresh, Write, GoTo
  <2> QED
    BY <2>1, <2>2, <2>3, <2>4, <2>5
<1>6. CASE WriteFails
  <2>1. InHand'
    BY <1>6 DEF InHand, WriteFails, Abort, Outcome, GoTo
  <2>2. Verified'
    BY <1>6 DEF Verified, Intact, WriteFails, Abort, Outcome, GoTo
  <2>3. Undone'
    BY <1>6, Order DEF Undone, Clean, WriteFails, Abort, Outcome, GoTo
  <2>4. Recorded'
    BY <1>6 DEF Recorded, Intact, WriteFails, Abort, Outcome, GoTo
  <2>5. Fresh'
    BY <1>6 DEF Fresh, WriteFails, Abort, Outcome, GoTo
  <2> QED
    BY <2>1, <2>2, <2>3, <2>4, <2>5
<1>7. CASE Verify
  <2>1. InHand'
    BY <1>7 DEF InHand, Verify, Abort, Outcome, GoTo
  <2>2. Verified'
    BY <1>7, Order DEF Verified, Intact, Verify, Abort, Outcome, GoTo
  <2>3. Undone'
    BY <1>7, Order DEF Undone, Clean, Verify, Abort, Outcome, GoTo
  <2>4. Recorded'
    BY <1>7 DEF Recorded, Intact, Verify, Abort, Outcome, GoTo
  <2>5. Fresh'
    BY <1>7 DEF Fresh, Verify, Abort, Outcome, GoTo
  <2> QED
    BY <2>1, <2>2, <2>3, <2>4, <2>5
<1>8. CASE LeaveAlone
  <2>1. InHand'
    BY <1>8 DEF InHand, LeaveAlone, NextBack, GoTo, history
  <2>2. Verified'
    BY <1>8 DEF Verified, Intact, LeaveAlone, NextBack, GoTo, history
  <2>3. Undone'
    BY <1>8, Order DEF Undone, Clean, LeaveAlone, NextBack, GoTo, history
  <2>4. Recorded'
    BY <1>8 DEF Recorded, Intact, LeaveAlone, NextBack, GoTo, history
  <2>5. Fresh'
    BY <1>8 DEF Fresh, LeaveAlone, NextBack, GoTo, history
  <2> QED
    BY <2>1, <2>2, <2>3, <2>4, <2>5
<1>9. CASE Prove
  <2>1. InHand'
    BY <1>9 DEF InHand, Prove, canProveApplyChangeStillIntact
  <2>2. Verified'
    BY <1>9 DEF Verified, Intact, Prove, canProveApplyChangeStillIntact
  <2>3. Undone'
    BY <1>9 DEF Undone, Clean, Prove, canProveApplyChangeStillIntact
  <2>4. Recorded'
    BY <1>9 DEF Recorded, Intact, Prove, canProveApplyChangeStillIntact
  <2>5. Fresh'
    BY <1>9 DEF Fresh, Prove, canProveApplyChangeStillIntact
  <2> QED
    BY <2>1, <2>2, <2>3, <2>4, <2>5
<1>10. CASE Restore
  <2>1. InHand'
    BY <1>10 DEF InHand, Restore, NextBack, GoTo, history
  <2>2. Verified'
    BY <1>10 DEF Verified, Intact, Restore, NextBack, GoTo, history
  <2>3. Undone'
    BY <1>10, Order DEF Undone, Clean, Restore, NextBack, GoTo, history
  <2>4. Recorded'
    BY <1>10 DEF Recorded, Intact, Restore, NextBack, GoTo, history
  <2>5. Fresh'
    BY <1>10 DEF Fresh, Restore, NextBack, GoTo, history
  <2> QED
    BY <2>1, <2>2, <2>3, <2>4, <2>5
<1>11. CASE RestoreFails
  <2>1. InHand'
    BY <1>11 DEF InHand, RestoreFails, Outcome, history
  <2>2. Verified'
    BY <1>11 DEF Verified, Intact, RestoreFails, Outcome, history
  <2>3. Undone'
    BY <1>11 DEF Undone, Clean, RestoreFails, Outcome, history
  <2>4. Recorded'
    BY <1>11 DEF Recorded, Intact, RestoreFails, Outcome, history
  <2>5. Fresh'
    BY <1>11 DEF Fresh, RestoreFails, Outcome, history
  <2> QED
    BY <2>1, <2>2, <2>3, <2>4, <2>5
<1>12. CASE Confirm
  <2>1. InHand'
    BY <1>12 DEF InHand, Confirm, Outcome
  <2>2. Verified'
    BY <1>12 DEF Verified, Intact, Confirm, Outcome
  <2>3. Undone'
    BY <1>12 DEF Undone, Clean, Confirm, Outcome
  <2>4. Recorded'
    BY <1>12 DEF Recorded, Intact, Confirm, Outcome
  <2>5. Fresh'
    BY <1>12 DEF Fresh, Confirm, Outcome
  <2> QED
    BY <2>1, <2>2, <2>3, <2>4, <2>5
<1>13. CASE RollbackFails
  <2>1. InHand'
    BY <1>13 DEF InHand, RollbackFails, Outcome, history
  <2>2. Verified'
    BY <1>13 DEF Verified, Intact, RollbackFails, Outcome, history
  <2>3. Undone'
    BY <1>13 DEF Undone, Clean, RollbackFails, Outcome, history
  <2>4. Recorded'
    BY <1>13 DEF Recorded, Intact, RollbackFails, Outcome, history
  <2>5. Fresh'
    BY <1>13 DEF Fresh, RollbackFails, Outcome, history
  <2> QED
    BY <2>1, <2>2, <2>3, <2>4, <2>5
<1>14. CASE Record
  <2>1. InHand'
    BY <1>14 DEF InHand, Record, Outcome, history
  <2>2. Verified'
    BY <1>14 DEF Verified, Intact, Record, Outcome, history
  <2>3. Undone'
    BY <1>14 DEF Undone, Clean, Record, Outcome, history
  <2>4. Recorded'
    BY <1>14 DEF Recorded, Verified, Intact, Record, Outcome, history
  <2>5. Fresh'
    BY <1>14 DEF Fresh, Record, Outcome, history
  <2> QED
    BY <2>1, <2>2, <2>3, <2>4, <2>5
<1>15. CASE Reply
  <2>1. InHand'
    BY <1>15 DEF InHand, Reply, history
  <2>2. Verified'
    BY <1>15 DEF Verified, Intact, Reply, history
  <2>3. Undone'
    BY <1>15 DEF Undone, Clean, Reply, history
  <2>4. Recorded'
    BY <1>15 DEF Recorded, Intact, Reply, history
  <2>5. Fresh'
    BY <1>15 DEF Fresh, Reply, history
  <2> QED
    BY <2>1, <2>2, <2>3, <2>4, <2>5
<1>16. ASSUME NEW f \in File, OwnerEdit(f) PROVE (InHand /\ Verified /\ Undone /\ Recorded /\ Fresh)'
  <2>1. InHand'
    BY <1>16 DEF InHand, OwnerEdit, request
  <2>2. Verified'
    BY <1>16 DEF Verified, Intact, OwnerEdit, request
  <2>3. Undone'
    BY <1>16 DEF Undone, Clean, OwnerEdit, request
  <2>4. Recorded'
    BY <1>16 DEF Recorded, Intact, OwnerEdit, request
  <2>5. Fresh'
    BY <1>16 DEF Fresh, OwnerEdit, request
  <2> QED
    BY <2>1, <2>2, <2>3, <2>4, <2>5
<1>17. CASE Crash
  <2>1. InHand'
    BY <1>17 DEF InHand, Crash, history, Remains
  <2>2. Verified'
    BY <1>17 DEF Verified, Intact, Crash, history, Remains
  <2>3. Undone'
    BY <1>17 DEF Undone, Clean, Crash, history, Remains
  <2>4. Recorded'
    BY <1>17 DEF Recorded, Intact, Crash, history, Remains
  <2>5. Fresh'
    BY <1>17 DEF Fresh, Crash, history, Remains
  <2> QED
    BY <2>1, <2>2, <2>3, <2>4, <2>5
<1>18. CASE UNCHANGED vars
  <2>1. InHand'
    BY <1>18 DEF InHand, vars
  <2>2. Verified'
    BY <1>18 DEF Verified, Intact, vars
  <2>3. Undone'
    BY <1>18 DEF Undone, Clean, vars
  <2>4. Recorded'
    BY <1>18 DEF Recorded, Intact, vars
  <2>5. Fresh'
    BY <1>18 DEF Fresh, vars
  <2> QED
    BY <2>1, <2>2, <2>3, <2>4, <2>5
<1>19. CASE Read
  <2>1. InHand'
    BY <1>19 DEF InHand, Read, Outcome, GoTo, history
  <2>2. Verified'
    BY <1>19 DEF Verified, Intact, Read, Outcome, GoTo, history
  <2>3. Undone'
    BY <1>19 DEF Undone, Fresh, Clean, Read, Outcome, GoTo, history
  <2>4. Recorded'
    BY <1>19 DEF Recorded, Intact, Read, Outcome, GoTo, history
  <2>5. Fresh'
    BY <1>19 DEF Fresh, Read, Outcome, GoTo, history
  <2> QED
    BY <2>1, <2>2, <2>3, <2>4, <2>5
<1>20. CASE Compare
  <2>1. InHand'
    BY <1>20 DEF InHand, Compare, Abort, Outcome, GoTo, canonicalMatchesBaseline
  <2>2. Verified'
    BY <1>20 DEF Verified, Intact, Compare, Abort, Outcome, GoTo, canonicalMatchesBaseline
  <2>3. Undone'
    BY <1>20, Order DEF Undone, Clean, Compare, Abort, Outcome, GoTo, canonicalMatchesBaseline
  <2>4. Recorded'
    BY <1>20 DEF Recorded, Intact, Compare, Abort, Outcome, GoTo, canonicalMatchesBaseline
  <2>5. Fresh'
    BY <1>20 DEF Fresh, Compare, Abort, Outcome, GoTo, canonicalMatchesBaseline
  <2> QED
    BY <2>1, <2>2, <2>3, <2>4, <2>5
<1>21. CASE StillSafe
  <2>1. InHand'
    BY <1>21 DEF InHand, StillSafe
  <2>2. Verified'
    BY <1>21 DEF Verified, Intact, StillSafe
  <2>3. Undone'
    BY <1>21 DEF Undone, Clean, StillSafe
  <2>4. Recorded'
    BY <1>21 DEF Recorded, Intact, StillSafe
  <2>5. Fresh'
    BY <1>21 DEF Fresh, StillSafe
  <2> QED
    BY <2>1, <2>2, <2>3, <2>4, <2>5
<1> QED
  BY <1>1, <1>2, <1>3, <1>4, <1>5, <1>6, <1>7, <1>8, <1>9, <1>10, <1>11, <1>12,
     <1>13, <1>14, <1>15, <1>16, <1>17, <1>18, <1>19, <1>20, <1>21 DEF Next, Host
-----------------------------------------------------------------------------
THEOREM ApplyInvariant == Spec => []ApplyInv
<1>1. ApplyInv /\ [Next]_vars => ApplyInv'
  <2> SUFFICES ASSUME ApplyInv, [Next]_vars PROVE ApplyInv'
    OBVIOUS
  <2>1. TypeOK'
    BY Typed DEF ApplyInv
  <2> QED
    BY <2>1, Stepped DEF ApplyInv
<1> QED
  BY Started, <1>1, PTL DEF Spec

(* Types: the file in hand is one of the candidate's, at every step of every request. *)
THEOREM TypeCorrect == Spec => []TypeOK
<1>1. ApplyInv => TypeOK
  BY DEF ApplyInv
<1> QED
  BY ApplyInvariant, <1>1, PTL

(* A recorded application was verified file by file (the loop before line 626). *)
THEOREM AppliedTruly == Spec => []AppliedIsOnDisk
<1>1. ApplyInv => AppliedIsOnDisk
  BY DEF ApplyInv, Recorded, Intact, AppliedIsOnDisk, canProveApplyChangeStillIntact
<1> QED
  BY ApplyInvariant, <1>1, PTL

(* What rollbackTouched reports is what it did, but for the write that failed half way. *)
THEOREM RollbackHonest == Spec => []RollbackTold
<1>1. ApplyInv => RollbackTold
  BY DEF ApplyInv, Undone, Clean, RollbackTold
<1> QED
  BY ApplyInvariant, <1>1, PTL

(* The checks before each write and each restore protect whatever is not Apply's own, *)
(* up to the two windows the code leaves open, each from its own check to the call.   *)
THEOREM NothingElseTouched == Spec => OnlyKnownBytes
<1> DEFINE Touch == pc' # pc => \A f \in File : disk'[f] # disk[f] =>
                      /\ pc \in {"write", "restore"} /\ f = at
                      /\ f \in unsafe => swapped
                      /\ disk[f] # (IF pc = "write" THEN Base(f) ELSE Target(f)) => raced
<1>1. ASSUME ApplyInv, Next, pc' # pc, NEW f \in File, disk'[f] # disk[f]
      PROVE  pc \in {"write", "restore"} /\ f = at
  <2> USE <1>1 DEF ApplyInv, TypeOK
  <2>1. CASE Write \/ WriteFails \/ Restore \/ RestoreFails
    BY <2>1 DEF Write, WriteFails, Restore, RestoreFails
  <2>2. CASE Crash
    BY <2>2 DEF Crash
  <2>3. CASE \/ Begin \/ Refuse \/ Prepare \/ Read \/ Recheck \/ Compare \/ Verify
             \/ LeaveAlone \/ StillSafe \/ Prove \/ Confirm \/ RollbackFails \/ Record \/ Reply
    BY <2>3 DEF Begin, Refuse, Prepare, Read, Recheck, Compare, Verify, LeaveAlone, StillSafe,
                Prove, Confirm, RollbackFails, Record, Reply
  <2>4. ASSUME NEW g \in File, OwnerEdit(g) PROVE FALSE
    BY <2>4 DEF OwnerEdit, request
  <2> QED
    BY <2>1, <2>2, <2>3, <2>4 DEF Next, Host
<1>2. ApplyInv /\ [Next]_vars => [Touch]_vars
  BY <1>1 DEF ApplyInv, InHand, vars
<1> QED
  BY ApplyInvariant, <1>2, PTL DEF Spec, OnlyKnownBytes

(* Once the event is there, no request and no restart writes the candidate again. *)
THEOREM NeverAppliedTwice == Spec => AppliedOnce
<1>1. ApplyInv /\ [Next]_vars => [event /\ pc' # pc => disk' = disk]_vars
  <2> SUFFICES ASSUME ApplyInv, Next, event, pc' # pc PROVE disk' = disk
    BY DEF vars
  <2>1. pc \in {"idle", "reply"}
    BY DEF ApplyInv, Recorded
  <2>2. CASE Begin \/ Reply
    BY <2>2 DEF Begin, Reply
  <2>3. CASE Crash
    BY <2>1, <2>3 DEF Crash, ApplyInv, TypeOK
  <2>4. ASSUME NEW g \in File, OwnerEdit(g) PROVE FALSE
    BY <2>4 DEF OwnerEdit, request
  <2> QED
    BY <2>1, <2>2, <2>3, <2>4 DEF Next, Host, Refuse, Prepare, Read, Recheck, Compare, Write,
       WriteFails, Verify, LeaveAlone, StillSafe, Prove, Restore, RestoreFails, Confirm,
       RollbackFails, Record
<1> QED
  BY ApplyInvariant, <1>1, PTL DEF Spec, AppliedOnce
=============================================================================
