--------------------------- MODULE HostLock_proofs ---------------------------
(***************************************************************************)
(* Proofs about HostLock: LockInv is inductive, and single ownership, one  *)
(* recoverer at a time and "never steals" follow from it, for any set of   *)
(* processes, of earlier instances, and any number of rounds.              *)
(***************************************************************************)
EXTENDS HostLock, TLAPS

USE NobodyAssumption, GhostAssumption, TriesAssumption

(* A file created or completed by an instance is a document. *)
LEMMA FileTypes == /\ NoFile \in Document
                   /\ \A i \in Instance : Begun(i) \in Document /\ Full(i) \in Document
PROOF BY DEF NoFile, Begun, Full, Document

LEMMA StepTypeOK == TypeOK /\ Judged /\ [Next]_vars => TypeOK'
<1> SUFFICES ASSUME TypeOK, Judged, [Next]_vars PROVE TypeOK'
  OBVIOUS
<1> USE DEF TypeOK, Judged, Goto, files, mem
<1>1. ASSUME NEW p \in Proc, Start(p) PROVE TypeOK'
  BY <1>1, FileTypes DEF Start, Instance, Stage, EnsureStage, SearchStage, OwningStage, GuardedStage, EndStage
<1>2. ASSUME NEW p \in Proc, EnsureRead(p) PROVE TypeOK'
  <2>1. lock' \in Document /\ guard' \in Document
    BY <1>2, FileTypes DEF EnsureRead, Instance
  <2>2. pc' \in [Proc -> Stage]
    BY <1>2 DEF EnsureRead, EnsureDone, ForgetRound, Forget, Refuse, End, Stage, EnsureStage, SearchStage, OwningStage, GuardedStage, EndStage
  <2>3. /\ tries' \in [Proc -> 0 .. MaxTries - 1]
        /\ guardTry' \in [Proc -> 0 .. MaxTries]
    BY <1>2 DEF EnsureRead, EnsureDone, ForgetRound, Forget, Refuse, End
  <2>4. /\ seenLock' \in [Proc -> Instance \cup {Nobody}]
        /\ seenGuard' \in [Proc -> Instance \cup {Nobody}]
        /\ again' \in [Proc -> BOOLEAN]
    BY <1>2 DEF EnsureRead, EnsureDone, ForgetRound, Forget, Refuse, End, Document
  <2> QED
    BY <1>2, <2>1, <2>2, <2>3, <2>4 DEF EnsureRead
<1>3. ASSUME NEW p \in Proc, EnsurePid(p) PROVE TypeOK'
  <2>1. lock' \in Document /\ guard' \in Document
    BY <1>3, FileTypes DEF EnsurePid, Instance
  <2>2. pc' \in [Proc -> Stage]
    BY <1>3 DEF EnsurePid, ForgetRound, Forget, Refuse, End, Stage, EnsureStage, SearchStage, OwningStage, GuardedStage, EndStage
  <2>3. /\ tries' \in [Proc -> 0 .. MaxTries - 1]
        /\ guardTry' \in [Proc -> 0 .. MaxTries]
    BY <1>3 DEF EnsurePid, ForgetRound, Forget, Refuse, End
  <2>4. /\ seenLock' \in [Proc -> Instance \cup {Nobody}]
        /\ seenGuard' \in [Proc -> Instance \cup {Nobody}]
        /\ again' \in [Proc -> BOOLEAN]
    BY <1>3 DEF EnsurePid, ForgetRound, Forget, Refuse, End, Document
  <2> QED
    BY <1>3, <2>1, <2>2, <2>3, <2>4 DEF EnsurePid
<1>4. ASSUME NEW p \in Proc, DropRead(p) PROVE TypeOK'
  <2>1. lock' \in Document /\ guard' \in Document
    BY <1>4, FileTypes DEF DropRead, Instance
  <2>2. pc' \in [Proc -> Stage]
    BY <1>4 DEF DropRead, EnsureDone, ForgetRound, Forget, Refuse, End, Stage, EnsureStage, SearchStage, OwningStage, GuardedStage, EndStage
  <2>3. /\ tries' \in [Proc -> 0 .. MaxTries - 1]
        /\ guardTry' \in [Proc -> 0 .. MaxTries]
    BY <1>4 DEF DropRead, EnsureDone, ForgetRound, Forget, Refuse, End
  <2>4. /\ seenLock' \in [Proc -> Instance \cup {Nobody}]
        /\ seenGuard' \in [Proc -> Instance \cup {Nobody}]
        /\ again' \in [Proc -> BOOLEAN]
    BY <1>4 DEF DropRead, EnsureDone, ForgetRound, Forget, Refuse, End, Document
  <2> QED
    BY <1>4, <2>1, <2>2, <2>3, <2>4 DEF DropRead
<1>5. ASSUME NEW p \in Proc, DropUnlink(p) PROVE TypeOK'
  <2>1. lock' \in Document /\ guard' \in Document
    BY <1>5, FileTypes DEF DropUnlink, Instance
  <2>2. pc' \in [Proc -> Stage]
    BY <1>5 DEF DropUnlink, EnsureDone, ForgetRound, Forget, Refuse, End, Stage, EnsureStage, SearchStage, OwningStage, GuardedStage, EndStage
  <2>3. /\ tries' \in [Proc -> 0 .. MaxTries - 1]
        /\ guardTry' \in [Proc -> 0 .. MaxTries]
    BY <1>5 DEF DropUnlink, EnsureDone, ForgetRound, Forget, Refuse, End
  <2>4. /\ seenLock' \in [Proc -> Instance \cup {Nobody}]
        /\ seenGuard' \in [Proc -> Instance \cup {Nobody}]
        /\ again' \in [Proc -> BOOLEAN]
    BY <1>5 DEF DropUnlink, EnsureDone, ForgetRound, Forget, Refuse, End, Document
  <2> QED
    BY <1>5, <2>1, <2>2, <2>3, <2>4 DEF DropUnlink
<1>6. ASSUME NEW p \in Proc, CreateLock(p) PROVE TypeOK'
  <2>1. lock' \in Document /\ guard' \in Document
    BY <1>6, FileTypes DEF CreateLock, Instance
  <2>2. pc' \in [Proc -> Stage]
    BY <1>6 DEF CreateLock, Stage, EnsureStage, SearchStage, OwningStage, GuardedStage, EndStage
  <2>3. /\ tries' \in [Proc -> 0 .. MaxTries - 1]
        /\ guardTry' \in [Proc -> 0 .. MaxTries]
    BY <1>6 DEF CreateLock
  <2>4. /\ seenLock' \in [Proc -> Instance \cup {Nobody}]
        /\ seenGuard' \in [Proc -> Instance \cup {Nobody}]
        /\ again' \in [Proc -> BOOLEAN]
    BY <1>6 DEF CreateLock, Document
  <2> QED
    BY <1>6, <2>1, <2>2, <2>3, <2>4 DEF CreateLock
<1>7. ASSUME NEW p \in Proc, FillLock(p) PROVE TypeOK'
  BY <1>7, FileTypes DEF FillLock, Instance, Stage, EnsureStage, SearchStage, OwningStage, GuardedStage, EndStage
<1>8. ASSUME NEW p \in Proc, Verify(p) PROVE TypeOK'
  <2>1. lock' \in Document /\ guard' \in Document
    BY <1>8, FileTypes DEF Verify, Instance
  <2>2. pc' \in [Proc -> Stage]
    BY <1>8 DEF Verify, ForgetRound, Forget, Refuse, End, Stage, EnsureStage, SearchStage, OwningStage, GuardedStage, EndStage
  <2>3. /\ tries' \in [Proc -> 0 .. MaxTries - 1]
        /\ guardTry' \in [Proc -> 0 .. MaxTries]
    BY <1>8 DEF Verify, ForgetRound, Forget, Refuse, End
  <2>4. /\ seenLock' \in [Proc -> Instance \cup {Nobody}]
        /\ seenGuard' \in [Proc -> Instance \cup {Nobody}]
        /\ again' \in [Proc -> BOOLEAN]
    BY <1>8 DEF Verify, ForgetRound, Forget, Refuse, End, Document
  <2> QED
    BY <1>8, <2>1, <2>2, <2>3, <2>4 DEF Verify
<1>9. ASSUME NEW p \in Proc, ReadLock(p) PROVE TypeOK'
  <2>1. lock' \in Document /\ guard' \in Document
    BY <1>9, FileTypes DEF ReadLock, Instance
  <2>2. pc' \in [Proc -> Stage]
    BY <1>9 DEF ReadLock, NextRound, ForgetRound, Forget, Refuse, End, Stage, EnsureStage, SearchStage, OwningStage, GuardedStage, EndStage
  <2>3. /\ tries' \in [Proc -> 0 .. MaxTries - 1]
        /\ guardTry' \in [Proc -> 0 .. MaxTries]
    BY <1>9 DEF ReadLock, NextRound, ForgetRound, Forget, Refuse, End
  <2>4. /\ seenLock' \in [Proc -> Instance \cup {Nobody}]
        /\ seenGuard' \in [Proc -> Instance \cup {Nobody}]
        /\ again' \in [Proc -> BOOLEAN]
    BY <1>9 DEF ReadLock, NextRound, ForgetRound, Forget, Refuse, End, Document
  <2> QED
    BY <1>9, <2>1, <2>2, <2>3, <2>4 DEF ReadLock
<1>10. ASSUME NEW p \in Proc, ReadBeat(p) PROVE TypeOK'
  <2>1. lock' \in Document /\ guard' \in Document
    BY <1>10, FileTypes DEF ReadBeat, Instance
  <2>2. pc' \in [Proc -> Stage]
    BY <1>10 DEF ReadBeat, CanRecover, ForgetRound, Forget, Refuse, End, Stage, EnsureStage, SearchStage, OwningStage, GuardedStage, EndStage
  <2>3. /\ tries' \in [Proc -> 0 .. MaxTries - 1]
        /\ guardTry' \in [Proc -> 0 .. MaxTries]
    BY <1>10 DEF ReadBeat, CanRecover, ForgetRound, Forget, Refuse, End
  <2>4. /\ seenLock' \in [Proc -> Instance \cup {Nobody}]
        /\ seenGuard' \in [Proc -> Instance \cup {Nobody}]
        /\ again' \in [Proc -> BOOLEAN]
    BY <1>10 DEF ReadBeat, CanRecover, ForgetRound, Forget, Refuse, End, Document
  <2> QED
    BY <1>10, <2>1, <2>2, <2>3, <2>4 DEF ReadBeat
<1>11. ASSUME NEW p \in Proc, Judge(p) PROVE TypeOK'
  <2>1. lock' \in Document /\ guard' \in Document
    BY <1>11, FileTypes DEF Judge, Instance
  <2>2. pc' \in [Proc -> Stage]
    BY <1>11 DEF Judge, ForgetRound, Forget, Refuse, End, Stage, EnsureStage, SearchStage, OwningStage, GuardedStage, EndStage
  <2>3. /\ tries' \in [Proc -> 0 .. MaxTries - 1]
        /\ guardTry' \in [Proc -> 0 .. MaxTries]
    BY <1>11 DEF Judge, ForgetRound, Forget, Refuse, End
  <2>4. /\ seenLock' \in [Proc -> Instance \cup {Nobody}]
        /\ seenGuard' \in [Proc -> Instance \cup {Nobody}]
        /\ again' \in [Proc -> BOOLEAN]
    BY <1>11 DEF Judge, ForgetRound, Forget, Refuse, End, Document
  <2> QED
    BY <1>11, <2>1, <2>2, <2>3, <2>4 DEF Judge
<1>12. ASSUME NEW p \in Proc, CreateGuard(p) PROVE TypeOK'
  <2>1. lock' \in Document /\ guard' \in Document
    BY <1>12, FileTypes DEF CreateGuard, Instance
  <2>2. pc' \in [Proc -> Stage]
    BY <1>12 DEF CreateGuard, Stage, EnsureStage, SearchStage, OwningStage, GuardedStage, EndStage
  <2>3. /\ tries' \in [Proc -> 0 .. MaxTries - 1]
        /\ guardTry' \in [Proc -> 0 .. MaxTries]
    BY <1>12 DEF CreateGuard
  <2>4. /\ seenLock' \in [Proc -> Instance \cup {Nobody}]
        /\ seenGuard' \in [Proc -> Instance \cup {Nobody}]
        /\ again' \in [Proc -> BOOLEAN]
    BY <1>12 DEF CreateGuard, Document
  <2> QED
    BY <1>12, <2>1, <2>2, <2>3, <2>4 DEF CreateGuard
<1>13. ASSUME NEW p \in Proc, FillGuard(p) PROVE TypeOK'
  BY <1>13, FileTypes DEF FillGuard, Instance, Stage, EnsureStage, SearchStage, OwningStage, GuardedStage, EndStage
<1>14. ASSUME NEW p \in Proc, RecheckLock(p) PROVE TypeOK'
  BY <1>14, FileTypes DEF RecheckLock, Leave, Instance, Stage, EnsureStage, SearchStage, OwningStage, GuardedStage, EndStage
<1>15. ASSUME NEW p \in Proc, RecheckBeat(p) PROVE TypeOK'
  BY <1>15, FileTypes DEF RecheckBeat, CanRecover, Leave, Instance, Stage, EnsureStage, SearchStage, OwningStage, GuardedStage, EndStage
<1>16. ASSUME NEW p \in Proc, Rejudge(p) PROVE TypeOK'
  BY <1>16, FileTypes DEF Rejudge, Leave, Instance, Stage, EnsureStage, SearchStage, OwningStage, GuardedStage, EndStage
<1>17. ASSUME NEW p \in Proc, RemoveLock(p) PROVE TypeOK'
  BY <1>17, FileTypes DEF RemoveLock, Leave, Instance, Stage, EnsureStage, SearchStage, OwningStage, GuardedStage, EndStage
<1>18. ASSUME NEW p \in Proc, FreeRead(p) PROVE TypeOK'
  <2>1. lock' \in Document /\ guard' \in Document
    BY <1>18, FileTypes DEF FreeRead, Instance
  <2>2. pc' \in [Proc -> Stage]
    BY <1>18 DEF FreeRead, LeaveTo, NextRound, ForgetRound, Forget, Refuse, End, Stage, EnsureStage, SearchStage, OwningStage, GuardedStage, EndStage
  <2>3. /\ tries' \in [Proc -> 0 .. MaxTries - 1]
        /\ guardTry' \in [Proc -> 0 .. MaxTries]
    BY <1>18 DEF FreeRead, LeaveTo, NextRound, ForgetRound, Forget, Refuse, End
  <2>4. /\ seenLock' \in [Proc -> Instance \cup {Nobody}]
        /\ seenGuard' \in [Proc -> Instance \cup {Nobody}]
        /\ again' \in [Proc -> BOOLEAN]
    BY <1>18 DEF FreeRead, LeaveTo, NextRound, ForgetRound, Forget, Refuse, End, Document
  <2> QED
    BY <1>18, <2>1, <2>2, <2>3, <2>4 DEF FreeRead
<1>19. ASSUME NEW p \in Proc, FreeUnlink(p) PROVE TypeOK'
  <2>1. lock' \in Document /\ guard' \in Document
    BY <1>19, FileTypes DEF FreeUnlink, Instance
  <2>2. pc' \in [Proc -> Stage]
    BY <1>19 DEF FreeUnlink, LeaveTo, NextRound, ForgetRound, Forget, Refuse, End, Stage, EnsureStage, SearchStage, OwningStage, GuardedStage, EndStage
  <2>3. /\ tries' \in [Proc -> 0 .. MaxTries - 1]
        /\ guardTry' \in [Proc -> 0 .. MaxTries]
    BY <1>19 DEF FreeUnlink, LeaveTo, NextRound, ForgetRound, Forget, Refuse, End
  <2>4. /\ seenLock' \in [Proc -> Instance \cup {Nobody}]
        /\ seenGuard' \in [Proc -> Instance \cup {Nobody}]
        /\ again' \in [Proc -> BOOLEAN]
    BY <1>19 DEF FreeUnlink, LeaveTo, NextRound, ForgetRound, Forget, Refuse, End, Document
  <2> QED
    BY <1>19, <2>1, <2>2, <2>3, <2>4 DEF FreeUnlink
<1>20. ASSUME NEW p \in Proc, Beat(p) PROVE TypeOK'
  BY <1>20, FileTypes DEF Beat, Instance, Stage, EnsureStage, SearchStage, OwningStage, GuardedStage, EndStage
<1>21. ASSUME NEW p \in Proc, Stop(p) PROVE TypeOK'
  BY <1>21, FileTypes DEF Stop, Instance, Stage, EnsureStage, SearchStage, OwningStage, GuardedStage, EndStage
<1>22. ASSUME NEW p \in Proc, ReleaseRead(p) PROVE TypeOK'
  <2>1. lock' \in Document /\ guard' \in Document
    BY <1>22, FileTypes DEF ReleaseRead, Instance
  <2>2. pc' \in [Proc -> Stage]
    BY <1>22 DEF ReleaseRead, ForgetRound, Forget, End, Stage, EnsureStage, SearchStage, OwningStage, GuardedStage, EndStage
  <2>3. /\ tries' \in [Proc -> 0 .. MaxTries - 1]
        /\ guardTry' \in [Proc -> 0 .. MaxTries]
    BY <1>22 DEF ReleaseRead, ForgetRound, Forget, End
  <2>4. /\ seenLock' \in [Proc -> Instance \cup {Nobody}]
        /\ seenGuard' \in [Proc -> Instance \cup {Nobody}]
        /\ again' \in [Proc -> BOOLEAN]
    BY <1>22 DEF ReleaseRead, ForgetRound, Forget, End, Document
  <2> QED
    BY <1>22, <2>1, <2>2, <2>3, <2>4 DEF ReleaseRead
<1>23. ASSUME NEW p \in Proc, ReleaseUnlink(p) PROVE TypeOK'
  <2>1. lock' \in Document /\ guard' \in Document
    BY <1>23, FileTypes DEF ReleaseUnlink, Instance
  <2>2. pc' \in [Proc -> Stage]
    BY <1>23 DEF ReleaseUnlink, ForgetRound, Forget, End, Stage, EnsureStage, SearchStage, OwningStage, GuardedStage, EndStage
  <2>3. /\ tries' \in [Proc -> 0 .. MaxTries - 1]
        /\ guardTry' \in [Proc -> 0 .. MaxTries]
    BY <1>23 DEF ReleaseUnlink, ForgetRound, Forget, End
  <2>4. /\ seenLock' \in [Proc -> Instance \cup {Nobody}]
        /\ seenGuard' \in [Proc -> Instance \cup {Nobody}]
        /\ again' \in [Proc -> BOOLEAN]
    BY <1>23 DEF ReleaseUnlink, ForgetRound, Forget, End, Document
  <2> QED
    BY <1>23, <2>1, <2>2, <2>3, <2>4 DEF ReleaseUnlink
<1>24. ASSUME NEW p \in Proc, Crash(p) PROVE TypeOK'
  BY <1>24, FileTypes DEF Crash, ForgetRound, Forget, End, Instance, Stage, EnsureStage, SearchStage, OwningStage, GuardedStage, EndStage
<1>25. CASE UNCHANGED vars
  BY <1>25 DEF vars
<1> QED
  BY <1>1, <1>2, <1>3, <1>4, <1>5, <1>6, <1>7, <1>8, <1>9, <1>10, <1>11, <1>12, <1>13, <1>14, <1>15, <1>16, <1>17, <1>18, <1>19, <1>20, <1>21, <1>22, <1>23, <1>24, <1>25 DEF Next, Advance

(* Whoever has written a file has started. *)
LEMMA StepWritten == TypeOK /\ Written /\ Judged /\ [Next]_vars => Written'
<1> SUFFICES ASSUME TypeOK, Written, Judged, [Next]_vars PROVE Written'
  OBVIOUS
<1> USE DEF TypeOK, Written, Judged, Started, Goto, files, mem, NoFile, Begun, Full, Instance, EnsureStage, SearchStage, OwningStage, GuardedStage, EndStage
<1>1. ASSUME NEW p \in Proc, Start(p) PROVE Written'
  BY <1>1 DEF Start
<1>2. ASSUME NEW p \in Proc, EnsureRead(p) PROVE Written'
  BY <1>2 DEF EnsureRead, EnsureDone, ForgetRound, Forget, Refuse, End
<1>3. ASSUME NEW p \in Proc, EnsurePid(p) PROVE Written'
  BY <1>3 DEF EnsurePid, ForgetRound, Forget, Refuse, End
<1>4. ASSUME NEW p \in Proc, DropRead(p) PROVE Written'
  BY <1>4 DEF DropRead, EnsureDone, ForgetRound, Forget, Refuse, End
<1>5. ASSUME NEW p \in Proc, DropUnlink(p) PROVE Written'
  BY <1>5 DEF DropUnlink, EnsureDone, ForgetRound, Forget, Refuse, End
<1>6. ASSUME NEW p \in Proc, CreateLock(p) PROVE Written'
  BY <1>6 DEF CreateLock
<1>7. ASSUME NEW p \in Proc, FillLock(p) PROVE Written'
  BY <1>7 DEF FillLock
<1>8. ASSUME NEW p \in Proc, Verify(p) PROVE Written'
  BY <1>8 DEF Verify, ForgetRound, Forget, Refuse, End
<1>9. ASSUME NEW p \in Proc, ReadLock(p) PROVE Written'
  BY <1>9 DEF ReadLock, NextRound, ForgetRound, Forget, Refuse, End
<1>10. ASSUME NEW p \in Proc, ReadBeat(p) PROVE Written'
  BY <1>10 DEF ReadBeat, CanRecover, ForgetRound, Forget, Refuse, End
<1>11. ASSUME NEW p \in Proc, Judge(p) PROVE Written'
  BY <1>11 DEF Judge, ForgetRound, Forget, Refuse, End
<1>12. ASSUME NEW p \in Proc, CreateGuard(p) PROVE Written'
  BY <1>12 DEF CreateGuard
<1>13. ASSUME NEW p \in Proc, FillGuard(p) PROVE Written'
  BY <1>13 DEF FillGuard
<1>14. ASSUME NEW p \in Proc, RecheckLock(p) PROVE Written'
  BY <1>14 DEF RecheckLock, Leave
<1>15. ASSUME NEW p \in Proc, RecheckBeat(p) PROVE Written'
  BY <1>15 DEF RecheckBeat, CanRecover, Leave
<1>16. ASSUME NEW p \in Proc, Rejudge(p) PROVE Written'
  BY <1>16 DEF Rejudge, Leave
<1>17. ASSUME NEW p \in Proc, RemoveLock(p) PROVE Written'
  BY <1>17 DEF RemoveLock, Leave
<1>18. ASSUME NEW p \in Proc, FreeRead(p) PROVE Written'
  BY <1>18 DEF FreeRead, LeaveTo, NextRound, ForgetRound, Forget, Refuse, End
<1>19. ASSUME NEW p \in Proc, FreeUnlink(p) PROVE Written'
  BY <1>19 DEF FreeUnlink, LeaveTo, NextRound, ForgetRound, Forget, Refuse, End
<1>20. ASSUME NEW p \in Proc, Beat(p) PROVE Written'
  BY <1>20 DEF Beat
<1>21. ASSUME NEW p \in Proc, Stop(p) PROVE Written'
  BY <1>21 DEF Stop
<1>22. ASSUME NEW p \in Proc, ReleaseRead(p) PROVE Written'
  BY <1>22 DEF ReleaseRead, ForgetRound, Forget, End
<1>23. ASSUME NEW p \in Proc, ReleaseUnlink(p) PROVE Written'
  BY <1>23 DEF ReleaseUnlink, ForgetRound, Forget, End
<1>24. ASSUME NEW p \in Proc, Crash(p) PROVE Written'
  BY <1>24 DEF Crash, ForgetRound, Forget, End
<1>25. CASE UNCHANGED vars
  BY <1>25 DEF vars
<1> QED
  BY <1>1, <1>2, <1>3, <1>4, <1>5, <1>6, <1>7, <1>8, <1>9, <1>10, <1>11, <1>12, <1>13, <1>14, <1>15, <1>16, <1>17, <1>18, <1>19, <1>20, <1>21, <1>22, <1>23, <1>24, <1>25 DEF Next, Advance

(* What a process judged dead stays dead: no instance starts twice. *)
LEMMA StepJudged == TypeOK /\ Written /\ Judged /\ [Next]_vars => Judged'
<1> SUFFICES ASSUME TypeOK, Written, Judged, [Next]_vars PROVE Judged'
  OBVIOUS
<1> USE DEF TypeOK, Judged, Written, Started, Ended, Alive, Goto, files, mem, NoFile, Begun, Full, Document, Instance, Stage, EnsureStage, SearchStage, OwningStage, GuardedStage, EndStage
<1>1. ASSUME NEW p \in Proc, Start(p) PROVE Judged'
  BY <1>1 DEF Start
<1>2. ASSUME NEW p \in Proc, EnsureRead(p) PROVE Judged'
  BY <1>2 DEF EnsureRead, EnsureDone, ForgetRound, Forget, Refuse, End
<1>3. ASSUME NEW p \in Proc, EnsurePid(p) PROVE Judged'
  BY <1>3 DEF EnsurePid, ForgetRound, Forget, Refuse, End
<1>4. ASSUME NEW p \in Proc, DropRead(p) PROVE Judged'
  BY <1>4 DEF DropRead, EnsureDone, ForgetRound, Forget, Refuse, End
<1>5. ASSUME NEW p \in Proc, DropUnlink(p) PROVE Judged'
  BY <1>5 DEF DropUnlink, EnsureDone, ForgetRound, Forget, Refuse, End
<1>6. ASSUME NEW p \in Proc, CreateLock(p) PROVE Judged'
  BY <1>6 DEF CreateLock
<1>7. ASSUME NEW p \in Proc, FillLock(p) PROVE Judged'
  BY <1>7 DEF FillLock
<1>8. ASSUME NEW p \in Proc, Verify(p) PROVE Judged'
  BY <1>8 DEF Verify, ForgetRound, Forget, Refuse, End
<1>9. ASSUME NEW p \in Proc, ReadLock(p) PROVE Judged'
  BY <1>9 DEF ReadLock, NextRound, ForgetRound, Forget, Refuse, End
<1>10. ASSUME NEW p \in Proc, ReadBeat(p) PROVE Judged'
  BY <1>10 DEF ReadBeat, CanRecover, ForgetRound, Forget, Refuse, End
<1>11. ASSUME NEW p \in Proc, Judge(p) PROVE Judged'
  BY <1>11 DEF Judge, ForgetRound, Forget, Refuse, End
<1>12. ASSUME NEW p \in Proc, CreateGuard(p) PROVE Judged'
  BY <1>12 DEF CreateGuard
<1>13. ASSUME NEW p \in Proc, FillGuard(p) PROVE Judged'
  BY <1>13 DEF FillGuard
<1>14. ASSUME NEW p \in Proc, RecheckLock(p) PROVE Judged'
  BY <1>14 DEF RecheckLock, Leave
<1>15. ASSUME NEW p \in Proc, RecheckBeat(p) PROVE Judged'
  BY <1>15 DEF RecheckBeat, CanRecover, Leave
<1>16. ASSUME NEW p \in Proc, Rejudge(p) PROVE Judged'
  BY <1>16 DEF Rejudge, Leave
<1>17. ASSUME NEW p \in Proc, RemoveLock(p) PROVE Judged'
  BY <1>17 DEF RemoveLock, Leave
<1>18. ASSUME NEW p \in Proc, FreeRead(p) PROVE Judged'
  BY <1>18 DEF FreeRead, LeaveTo, NextRound, ForgetRound, Forget, Refuse, End
<1>19. ASSUME NEW p \in Proc, FreeUnlink(p) PROVE Judged'
  BY <1>19 DEF FreeUnlink, LeaveTo, NextRound, ForgetRound, Forget, Refuse, End
<1>20. ASSUME NEW p \in Proc, Beat(p) PROVE Judged'
  BY <1>20 DEF Beat
<1>21. ASSUME NEW p \in Proc, Stop(p) PROVE Judged'
  BY <1>21 DEF Stop
<1>22. ASSUME NEW p \in Proc, ReleaseRead(p) PROVE Judged'
  BY <1>22 DEF ReleaseRead, ForgetRound, Forget, End
<1>23. ASSUME NEW p \in Proc, ReleaseUnlink(p) PROVE Judged'
  BY <1>23 DEF ReleaseUnlink, ForgetRound, Forget, End
<1>24. ASSUME NEW p \in Proc, Crash(p) PROVE Judged'
  BY <1>24 DEF Crash, ForgetRound, Forget, End
<1>25. CASE UNCHANGED vars
  BY <1>25 DEF vars
<1> QED
  BY <1>1, <1>2, <1>3, <1>4, <1>5, <1>6, <1>7, <1>8, <1>9, <1>10, <1>11, <1>12, <1>13, <1>14, <1>15, <1>16, <1>17, <1>18, <1>19, <1>20, <1>21, <1>22, <1>23, <1>24, <1>25 DEF Next, Advance

(* Only its owner takes the lock of a live owner from disk. *)
LEMMA StepLockHeld == LockInv /\ ~orphaned' /\ [Next]_vars => LockHeld'
<1> SUFFICES ASSUME LockInv, ~orphaned', [Next]_vars PROVE LockHeld'
  OBVIOUS
<1>0. TypeOK /\ Written /\ Judged
  BY DEF LockInv
<1>a. ~orphaned
  BY DEF Next, Advance, vars, EnsureRead, EnsurePid, DropRead, DropUnlink, CreateLock, FillLock, Verify, ReadLock, ReadBeat, Judge, CreateGuard, FillGuard, RecheckLock, RecheckBeat, Rejudge, RemoveLock, FreeRead, FreeUnlink, Start, Beat, Stop, ReleaseRead, ReleaseUnlink, Crash
<1>b. LockHeld /\ GuardHeld /\ Confirmed
  BY <1>a DEF LockInv
<1> USE <1>0, <1>a, <1>b DEF TypeOK, Written, Judged, Started, Ended, Alive, LockHeld, GuardHeld, Confirmed, Recovers, Goto, files, mem, NoFile, Begun, Full, Document, Instance, Stage, EnsureStage, SearchStage, OwningStage, GuardedStage, EndStage
<1>1. ASSUME NEW p \in Proc, Start(p) PROVE LockHeld'
  BY <1>1 DEF Start
<1>2. ASSUME NEW p \in Proc, EnsureRead(p) PROVE LockHeld'
  BY <1>2 DEF EnsureRead, EnsureDone, ForgetRound, Forget, Refuse, End
<1>3. ASSUME NEW p \in Proc, EnsurePid(p) PROVE LockHeld'
  BY <1>3 DEF EnsurePid, ForgetRound, Forget, Refuse, End
<1>4. ASSUME NEW p \in Proc, DropRead(p) PROVE LockHeld'
  BY <1>4 DEF DropRead, EnsureDone, ForgetRound, Forget, Refuse, End
<1>5. ASSUME NEW p \in Proc, DropUnlink(p) PROVE LockHeld'
  BY <1>5 DEF DropUnlink, EnsureDone, ForgetRound, Forget, Refuse, End
<1>6. ASSUME NEW p \in Proc, CreateLock(p) PROVE LockHeld'
  BY <1>6 DEF CreateLock
<1>7. ASSUME NEW p \in Proc, FillLock(p) PROVE LockHeld'
  <2>1. lock = Begun(p) /\ lock' = Full(p) /\ pc' = [pc EXCEPT ![p] = "verify"]
    BY <1>7 DEF FillLock
  <2>2. ASSUME NEW q \in Proc, q # p
        PROVE  pc[q] \notin OwningStage \cup {"releaseRead", "fillLock"}
    <3>1. lock.by = p
      BY <2>1
    <3>2. lock.by = q => FALSE
      BY <3>1, <2>2
    <3> QED
      BY <3>2
  <2>3. ASSUME NEW q \in Proc, q # p PROVE pc'[q] = pc[q]
    BY <2>1, <2>3
  <2>4. pc'[p] = "verify"
    BY <2>1
  <2> SUFFICES ASSUME NEW q \in Proc
               PROVE  /\ pc'[q] = "fillLock" => lock' = Begun(q)
                      /\ pc'[q] \in OwningStage \cup {"releaseRead"} => lock' = Full(q)
    BY DEF LockHeld
  <2>5. CASE q = p
    BY <2>1, <2>4, <2>5
  <2>6. CASE q # p
    BY <2>2, <2>3, <2>6
  <2> QED
    BY <2>5, <2>6
<1>8. ASSUME NEW p \in Proc, Verify(p) PROVE LockHeld'
  BY <1>8 DEF Verify, ForgetRound, Forget, Refuse, End
<1>9. ASSUME NEW p \in Proc, ReadLock(p) PROVE LockHeld'
  BY <1>9 DEF ReadLock, NextRound, ForgetRound, Forget, Refuse, End
<1>10. ASSUME NEW p \in Proc, ReadBeat(p) PROVE LockHeld'
  BY <1>10 DEF ReadBeat, CanRecover, ForgetRound, Forget, Refuse, End
<1>11. ASSUME NEW p \in Proc, Judge(p) PROVE LockHeld'
  BY <1>11 DEF Judge, ForgetRound, Forget, Refuse, End
<1>12. ASSUME NEW p \in Proc, CreateGuard(p) PROVE LockHeld'
  BY <1>12 DEF CreateGuard
<1>13. ASSUME NEW p \in Proc, FillGuard(p) PROVE LockHeld'
  BY <1>13 DEF FillGuard
<1>14. ASSUME NEW p \in Proc, RecheckLock(p) PROVE LockHeld'
  BY <1>14 DEF RecheckLock, Leave
<1>15. ASSUME NEW p \in Proc, RecheckBeat(p) PROVE LockHeld'
  BY <1>15 DEF RecheckBeat, CanRecover, Leave
<1>16. ASSUME NEW p \in Proc, Rejudge(p) PROVE LockHeld'
  BY <1>16 DEF Rejudge, Leave
<1>17. ASSUME NEW p \in Proc, RemoveLock(p) PROVE LockHeld'
  BY <1>17 DEF RemoveLock, Leave
<1>18. ASSUME NEW p \in Proc, FreeRead(p) PROVE LockHeld'
  BY <1>18 DEF FreeRead, LeaveTo, NextRound, ForgetRound, Forget, Refuse, End
<1>19. ASSUME NEW p \in Proc, FreeUnlink(p) PROVE LockHeld'
  BY <1>19 DEF FreeUnlink, LeaveTo, NextRound, ForgetRound, Forget, Refuse, End
<1>20. ASSUME NEW p \in Proc, Beat(p) PROVE LockHeld'
  BY <1>20 DEF Beat
<1>21. ASSUME NEW p \in Proc, Stop(p) PROVE LockHeld'
  BY <1>21 DEF Stop
<1>22. ASSUME NEW p \in Proc, ReleaseRead(p) PROVE LockHeld'
  BY <1>22 DEF ReleaseRead, ForgetRound, Forget, End
<1>23. ASSUME NEW p \in Proc, ReleaseUnlink(p) PROVE LockHeld'
  BY <1>23 DEF ReleaseUnlink, ForgetRound, Forget, End
<1>24. ASSUME NEW p \in Proc, Crash(p) PROVE LockHeld'
  BY <1>24 DEF Crash, ForgetRound, Forget, End
<1>25. CASE UNCHANGED vars
  BY <1>25 DEF vars
<1> QED
  BY <1>1, <1>2, <1>3, <1>4, <1>5, <1>6, <1>7, <1>8, <1>9, <1>10, <1>11, <1>12, <1>13, <1>14, <1>15, <1>16, <1>17, <1>18, <1>19, <1>20, <1>21, <1>22, <1>23, <1>24, <1>25 DEF Next, Advance

(* Only the live recoverer takes its guard from disk, and nobody is about to. *)
LEMMA StepGuardHeld == LockInv /\ ~orphaned' /\ [Next]_vars => GuardHeld'
<1> SUFFICES ASSUME LockInv, ~orphaned', [Next]_vars PROVE GuardHeld'
  OBVIOUS
<1>0. TypeOK /\ Written /\ Judged
  BY DEF LockInv
<1>a. ~orphaned
  BY DEF Next, Advance, vars, EnsureRead, EnsurePid, DropRead, DropUnlink, CreateLock, FillLock, Verify, ReadLock, ReadBeat, Judge, CreateGuard, FillGuard, RecheckLock, RecheckBeat, Rejudge, RemoveLock, FreeRead, FreeUnlink, Start, Beat, Stop, ReleaseRead, ReleaseUnlink, Crash
<1>b. LockHeld /\ GuardHeld /\ Confirmed
  BY <1>a DEF LockInv
<1> USE <1>0, <1>a, <1>b DEF TypeOK, Written, Judged, Started, Ended, Alive, LockHeld, GuardHeld, Confirmed, Recovers, Goto, files, mem, NoFile, Begun, Full, Document, Instance, Stage, EnsureStage, SearchStage, OwningStage, GuardedStage, EndStage
<1>1. ASSUME NEW p \in Proc, Start(p) PROVE GuardHeld'
  BY <1>1 DEF Start
<1>2. ASSUME NEW p \in Proc, EnsureRead(p) PROVE GuardHeld'
  BY <1>2 DEF EnsureRead, EnsureDone, ForgetRound, Forget, Refuse, End
<1>3. ASSUME NEW p \in Proc, EnsurePid(p) PROVE GuardHeld'
  BY <1>3 DEF EnsurePid, ForgetRound, Forget, Refuse, End
<1>4. ASSUME NEW p \in Proc, DropRead(p) PROVE GuardHeld'
  BY <1>4 DEF DropRead, EnsureDone, ForgetRound, Forget, Refuse, End
<1>5. ASSUME NEW p \in Proc, DropUnlink(p) PROVE GuardHeld'
  BY <1>5 DEF DropUnlink, EnsureDone, ForgetRound, Forget, Refuse, End
<1>6. ASSUME NEW p \in Proc, CreateLock(p) PROVE GuardHeld'
  BY <1>6 DEF CreateLock
<1>7. ASSUME NEW p \in Proc, FillLock(p) PROVE GuardHeld'
  BY <1>7 DEF FillLock
<1>8. ASSUME NEW p \in Proc, Verify(p) PROVE GuardHeld'
  BY <1>8 DEF Verify, ForgetRound, Forget, Refuse, End
<1>9. ASSUME NEW p \in Proc, ReadLock(p) PROVE GuardHeld'
  BY <1>9 DEF ReadLock, NextRound, ForgetRound, Forget, Refuse, End
<1>10. ASSUME NEW p \in Proc, ReadBeat(p) PROVE GuardHeld'
  BY <1>10 DEF ReadBeat, CanRecover, ForgetRound, Forget, Refuse, End
<1>11. ASSUME NEW p \in Proc, Judge(p) PROVE GuardHeld'
  BY <1>11 DEF Judge, ForgetRound, Forget, Refuse, End
<1>12. ASSUME NEW p \in Proc, CreateGuard(p) PROVE GuardHeld'
  BY <1>12 DEF CreateGuard
<1>13. ASSUME NEW p \in Proc, FillGuard(p) PROVE GuardHeld'
  <2>1. guard = Begun(p) /\ guard' = Full(p) /\ pc' = [pc EXCEPT ![p] = "recheckLock"]
    BY <1>13 DEF FillGuard
  <2>2. ASSUME NEW q \in Proc, q # p PROVE pc[q] \notin GuardedStage \cup {"fillGuard"}
    <3>1. guard.by = p
      BY <2>1
    <3>2. guard.by = q => FALSE
      BY <3>1, <2>2
    <3> QED
      BY <3>2
  <2>3. ASSUME NEW q \in Proc, q # p PROVE pc'[q] = pc[q]
    BY <2>1, <2>3
  <2>4. pc'[p] = "recheckLock"
    BY <2>1
  <2> QED
    BY ZenonT(30), <2>1, <2>2, <2>3, <2>4
<1>14. ASSUME NEW p \in Proc, RecheckLock(p) PROVE GuardHeld'
  BY <1>14 DEF RecheckLock, Leave
<1>15. ASSUME NEW p \in Proc, RecheckBeat(p) PROVE GuardHeld'
  BY <1>15 DEF RecheckBeat, CanRecover, Leave
<1>16. ASSUME NEW p \in Proc, Rejudge(p) PROVE GuardHeld'
  BY <1>16 DEF Rejudge, Leave
<1>17. ASSUME NEW p \in Proc, RemoveLock(p) PROVE GuardHeld'
  BY <1>17 DEF RemoveLock, Leave
<1>18. ASSUME NEW p \in Proc, FreeRead(p) PROVE GuardHeld'
  BY <1>18 DEF FreeRead, LeaveTo, NextRound, ForgetRound, Forget, Refuse, End
<1>19. ASSUME NEW p \in Proc, FreeUnlink(p) PROVE GuardHeld'
  BY <1>19 DEF FreeUnlink, LeaveTo, NextRound, ForgetRound, Forget, Refuse, End
<1>20. ASSUME NEW p \in Proc, Beat(p) PROVE GuardHeld'
  BY <1>20 DEF Beat
<1>21. ASSUME NEW p \in Proc, Stop(p) PROVE GuardHeld'
  BY <1>21 DEF Stop
<1>22. ASSUME NEW p \in Proc, ReleaseRead(p) PROVE GuardHeld'
  BY <1>22 DEF ReleaseRead, ForgetRound, Forget, End
<1>23. ASSUME NEW p \in Proc, ReleaseUnlink(p) PROVE GuardHeld'
  BY <1>23 DEF ReleaseUnlink, ForgetRound, Forget, End
<1>24. ASSUME NEW p \in Proc, Crash(p) PROVE GuardHeld'
  BY <1>24 DEF Crash, ForgetRound, Forget, End
<1>25. CASE UNCHANGED vars
  BY <1>25 DEF vars
<1> QED
  BY <1>1, <1>2, <1>3, <1>4, <1>5, <1>6, <1>7, <1>8, <1>9, <1>10, <1>11, <1>12, <1>13, <1>14, <1>15, <1>16, <1>17, <1>18, <1>19, <1>20, <1>21, <1>22, <1>23, <1>24, <1>25 DEF Next, Advance

(* A lock confirmed under the guard stays until the recoverer removes it. *)
LEMMA StepConfirmed == LockInv /\ ~orphaned' /\ [Next]_vars => Confirmed'
<1> SUFFICES ASSUME LockInv, ~orphaned', [Next]_vars PROVE Confirmed'
  OBVIOUS
<1>0. TypeOK /\ Written /\ Judged
  BY DEF LockInv
<1>a. ~orphaned
  BY DEF Next, Advance, vars, EnsureRead, EnsurePid, DropRead, DropUnlink, CreateLock, FillLock, Verify, ReadLock, ReadBeat, Judge, CreateGuard, FillGuard, RecheckLock, RecheckBeat, Rejudge, RemoveLock, FreeRead, FreeUnlink, Start, Beat, Stop, ReleaseRead, ReleaseUnlink, Crash
<1>b. LockHeld /\ GuardHeld /\ Confirmed
  BY <1>a DEF LockInv
<1> USE <1>0, <1>a, <1>b DEF TypeOK, Written, Judged, Started, Ended, Alive, LockHeld, GuardHeld, Confirmed, Recovers, Goto, files, mem, NoFile, Begun, Full, Document, Instance, Stage, EnsureStage, SearchStage, OwningStage, GuardedStage, EndStage
<1>1. ASSUME NEW p \in Proc, Start(p) PROVE Confirmed'
  BY <1>1 DEF Start
<1>2. ASSUME NEW p \in Proc, EnsureRead(p) PROVE Confirmed'
  BY <1>2 DEF EnsureRead, EnsureDone, ForgetRound, Forget, Refuse, End
<1>3. ASSUME NEW p \in Proc, EnsurePid(p) PROVE Confirmed'
  BY <1>3 DEF EnsurePid, ForgetRound, Forget, Refuse, End
<1>4. ASSUME NEW p \in Proc, DropRead(p) PROVE Confirmed'
  BY <1>4 DEF DropRead, EnsureDone, ForgetRound, Forget, Refuse, End
<1>5. ASSUME NEW p \in Proc, DropUnlink(p) PROVE Confirmed'
  BY <1>5 DEF DropUnlink, EnsureDone, ForgetRound, Forget, Refuse, End
<1>6. ASSUME NEW p \in Proc, CreateLock(p) PROVE Confirmed'
  BY <1>6 DEF CreateLock
<1>7. ASSUME NEW p \in Proc, FillLock(p) PROVE Confirmed'
  BY <1>7 DEF FillLock
<1>8. ASSUME NEW p \in Proc, Verify(p) PROVE Confirmed'
  BY <1>8 DEF Verify, ForgetRound, Forget, Refuse, End
<1>9. ASSUME NEW p \in Proc, ReadLock(p) PROVE Confirmed'
  BY <1>9 DEF ReadLock, NextRound, ForgetRound, Forget, Refuse, End
<1>10. ASSUME NEW p \in Proc, ReadBeat(p) PROVE Confirmed'
  BY <1>10 DEF ReadBeat, CanRecover, ForgetRound, Forget, Refuse, End
<1>11. ASSUME NEW p \in Proc, Judge(p) PROVE Confirmed'
  BY <1>11 DEF Judge, ForgetRound, Forget, Refuse, End
<1>12. ASSUME NEW p \in Proc, CreateGuard(p) PROVE Confirmed'
  BY <1>12 DEF CreateGuard
<1>13. ASSUME NEW p \in Proc, FillGuard(p) PROVE Confirmed'
  BY <1>13 DEF FillGuard
<1>14. ASSUME NEW p \in Proc, RecheckLock(p) PROVE Confirmed'
  BY <1>14 DEF RecheckLock, Leave
<1>15. ASSUME NEW p \in Proc, RecheckBeat(p) PROVE Confirmed'
  BY <1>15 DEF RecheckBeat, CanRecover, Leave
<1>16. ASSUME NEW p \in Proc, Rejudge(p) PROVE Confirmed'
  BY <1>16 DEF Rejudge, Leave
<1>17. ASSUME NEW p \in Proc, RemoveLock(p) PROVE Confirmed'
  BY <1>17 DEF RemoveLock, Leave
<1>18. ASSUME NEW p \in Proc, FreeRead(p) PROVE Confirmed'
  BY <1>18 DEF FreeRead, LeaveTo, NextRound, ForgetRound, Forget, Refuse, End
<1>19. ASSUME NEW p \in Proc, FreeUnlink(p) PROVE Confirmed'
  BY <1>19 DEF FreeUnlink, LeaveTo, NextRound, ForgetRound, Forget, Refuse, End
<1>20. ASSUME NEW p \in Proc, Beat(p) PROVE Confirmed'
  BY <1>20 DEF Beat
<1>21. ASSUME NEW p \in Proc, Stop(p) PROVE Confirmed'
  BY <1>21 DEF Stop
<1>22. ASSUME NEW p \in Proc, ReleaseRead(p) PROVE Confirmed'
  BY <1>22 DEF ReleaseRead, ForgetRound, Forget, End
<1>23. ASSUME NEW p \in Proc, ReleaseUnlink(p) PROVE Confirmed'
  BY <1>23 DEF ReleaseUnlink, ForgetRound, Forget, End
<1>24. ASSUME NEW p \in Proc, Crash(p) PROVE Confirmed'
  BY <1>24 DEF Crash, ForgetRound, Forget, End
<1>25. CASE UNCHANGED vars
  BY <1>25 DEF vars
<1> QED
  BY <1>1, <1>2, <1>3, <1>4, <1>5, <1>6, <1>7, <1>8, <1>9, <1>10, <1>11, <1>12, <1>13, <1>14, <1>15, <1>16, <1>17, <1>18, <1>19, <1>20, <1>21, <1>22, <1>23, <1>24, <1>25 DEF Next, Advance

(***************************************************************************)
(* LockInv holds of every state a run of the protocol reaches.             *)
(***************************************************************************)
LEMMA InitLockInv == Init => LockInv
<1> SUFFICES ASSUME Init PROVE LockInv
  OBVIOUS
<1>1. TypeOK
  BY FileTypes DEF Init, TypeOK, Instance, Stage
<1>2. Written
  BY DEF Init, Written, Started, NoFile, Begun, Full
<1>3. Judged
  BY DEF Init, Judged, EnsureStage, SearchStage, GuardedStage
<1>4. ~orphaned => LockHeld /\ GuardHeld /\ Confirmed
  <2> SUFFICES ASSUME ~orphaned PROVE LockHeld /\ GuardHeld /\ Confirmed
    OBVIOUS
  <2>1. guard = NoFile /\ \A p \in Proc : pc[p] = "off"
    BY DEF Init
  <2> QED
    BY <2>1 DEF LockHeld, GuardHeld, Confirmed, OwningStage, GuardedStage, Recovers, NoFile
<1> QED
  BY <1>1, <1>2, <1>3, <1>4 DEF LockInv

(* The invariant behind the lock: what is on disk belongs to those the      *)
(* protocol thinks it belongs to.                                           *)
THEOREM LockInvariant == Spec => []LockInv
<1>1. Init => LockInv
  BY InitLockInv
<1>2. LockInv /\ [Next]_vars => LockInv'
  <2> SUFFICES ASSUME LockInv, [Next]_vars PROVE LockInv'
    OBVIOUS
  <2>1. TypeOK' /\ Written' /\ Judged'
    BY StepTypeOK, StepWritten, StepJudged DEF LockInv
  <2>2. ~orphaned' => (LockHeld /\ GuardHeld /\ Confirmed)'
    BY StepLockHeld, StepGuardHeld, StepConfirmed
  <2> QED
    BY <2>1, <2>2 DEF LockInv
<1> QED
  BY <1>1, <1>2, PTL DEF Spec

(* At most one live host owns the lock, whatever the number of contenders,  *)
(* unless some process died inside the guarded part of a recovery.          *)
THEOREM SingleOwner == Spec => []SingleInstanceUnlessOrphaned
<1>1. LockInv => SingleInstanceUnlessOrphaned
  BY DEF LockInv, LockHeld, SingleInstanceUnlessOrphaned, SingleInstance, Owns, OwningStage, Full
<1> QED
  BY <1>1, LockInvariant, PTL

(* Under the same condition only one process at a time is past the guard.   *)
THEOREM SingleRecoverer == Spec => []OneRecoverer
<1>1. LockInv => OneRecoverer
  BY DEF LockInv, GuardHeld, OneRecoverer, Full
<1> QED
  BY <1>1, LockInvariant, PTL

(* The lock of a live process leaves the disk only by that process's own    *)
(* releaseLockIfOwned: a recovery never takes it.                           *)
THEOREM LockNeverStolen == Spec => NeverSteals
<1> DEFINE Kept == \A p \in Proc :
      ~orphaned /\ Alive(p) /\ lock.by = p /\ lock'.by # p => pc[p] = "releaseUnlink"
<1>1. ASSUME LockInv, Next PROVE Kept
  <2> SUFFICES ASSUME NEW p \in Proc, ~orphaned, Alive(p), lock.by = p, lock'.by # p
               PROVE  pc[p] = "releaseUnlink"
    OBVIOUS
  <2>1. LockHeld /\ Confirmed /\ Judged
    BY <1>1 DEF LockInv
  <2>2. PICK q \in Proc : CreateLock(q) \/ FillLock(q) \/ RemoveLock(q) \/ ReleaseUnlink(q)
    BY <1>1 DEF Next, Advance, files, EnsureRead, EnsurePid, DropRead, DropUnlink, Verify, ReadLock,
         ReadBeat, Judge, CreateGuard, FillGuard, RecheckLock, RecheckBeat, Rejudge, FreeRead,
         FreeUnlink, Start, Beat, Stop, ReleaseRead, Crash
  <2>3. CASE CreateLock(q)
    BY <2>3 DEF CreateLock, NoFile
  <2>4. CASE FillLock(q)
    BY <2>4 DEF FillLock, Begun, Full
  <2>5. CASE RemoveLock(q)
    <3>1. lock.by = seenLock[q] /\ Ended(seenLock[q])
      BY <2>1, <2>5 DEF RemoveLock, Confirmed, Judged, GuardedStage, Full
    <3> QED
      BY <3>1 DEF Ended, Alive
  <2>6. CASE ReleaseUnlink(q)
    BY <2>1, <2>6 DEF ReleaseUnlink, LockHeld, OwningStage, Full
  <2> QED
    BY <2>2, <2>3, <2>4, <2>5, <2>6
<1>2. LockInv /\ [Next]_vars => [Kept]_vars
  BY <1>1
<1> QED
  BY <1>2, LockInvariant, PTL DEF Spec, NeverSteals
=============================================================================
