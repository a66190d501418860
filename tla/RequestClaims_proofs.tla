------------------------ MODULE RequestClaims_proofs ------------------------
(***************************************************************************)
(* Proofs about RequestClaims, for any requests, any instances, and any of *)
(* them stopping, dying or falling silent: types; a request is dispatched  *)
(* at most once; the held set is exactly what is in hand; the slot never   *)
(* rests on a queue; an answer stands; a row in hand is never judged lost. *)
(***************************************************************************)
EXTENDS RequestClaims, TLAPS

USE CancelAssumption, HostAssumption, NobodyAssumption

LEMMA Stepped ==
  ASSUME [Next]_vars
  PROVE  \/ UNCHANGED vars
         \/ \E r \in Req : Submit(r) \/ Age(r)
         \/ \E h \in Host : Start(h) \/ Publish(h) \/ Expire(h) \/ Stop(h)
         \/ \E h \in Host : Exit(h)
         \/ \E h \in Host : Claim(h)
         \/ \E h \in Host : LoseAnswer(h)
         \/ \E h \in Host : Receive(h)
         \/ \E h \in Host : EndNotice(h)
         \/ \E h \in Host : EndOffer(h)
         \/ \E h \in Host, r \in Req : OfferPoisoned(h, r)
         \/ \E h \in Host, r \in Req : OfferJob(h, r)
         \/ \E h \in Host, r \in Req : OfferCancel(h, r)
         \/ \E h \in Host, s \in Slot : Handle(h, s)
         \/ \E h \in Host, s \in Slot : FailSafely(h, s)
         \/ \E h \in Host, s \in Slot : Throw(h, s)
         \/ \E h \in Host : Approve(h)
         \/ \E h \in Host : EndDrive(h)
         \/ \E h \in Host : Sweep(h)
         \/ \E h \in Host, r \in Req : Judge(h, r)
         \/ \E h \in Host, r \in Req : LostCallFails(h, r)
         \/ \E h \in Host, r \in Req : SweepCallFails(h, r)
         \/ \E h \in Host, r \in Req : FailLost(h, r)
         \/ \E h \in Host, r \in Req : FailOrphan(h, r)
BY DEF Next, ProcessStep, LoopStep, JobStep, SlotStep, OfferStep, RecoveryStep, Slot

-----------------------------------------------------------------------------
(* Types. *)

JobsType ==
  /\ queue \in [Host -> Seq(Req)]
  /\ work \in [Host -> [Slot -> [row : Req \cup {Nobody}, stage : Stage]]]
  /\ ran \in [Req -> Nat]

LEMMA SettleType ==
  ASSUME TypeOK, NEW r, NEW a \in Answer, Settle(r, a)
  PROVE  status' \in [Req -> Status]
BY DEF TypeOK, Settle, Status, Answer

LEMMA SlotType ==
  ASSUME work \in [Host -> [Slot -> [row : Req \cup {Nobody}, stage : Stage]]],
         NEW h \in Host, NEW s \in Slot, NEW e \in [row : Req \cup {Nobody}, stage : Stage],
         work' = [work EXCEPT ![h][s] = e]
  PROVE  work' \in [Host -> [Slot -> [row : Req \cup {Nobody}, stage : Stage]]]
OBVIOUS

LEMMA GotoType ==
  ASSUME work \in [Host -> [Slot -> [row : Req \cup {Nobody}, stage : Stage]]],
         NEW h \in Host, NEW s \in Slot, NEW stage \in Stage, Goto(h, s, stage)
  PROVE  work' \in [Host -> [Slot -> [row : Req \cup {Nobody}, stage : Stage]]]
<1>1. [row |-> Row(h, s), stage |-> stage] \in [row : Req \cup {Nobody}, stage : Stage]
  BY DEF Row
<1> QED
  BY <1>1, SlotType DEF Goto

LEMMA PumpType ==
  ASSUME JobsType, NEW h \in Host, Pump(h)
  PROVE  JobsType'
<1>1. CASE UNCHANGED <<queue, ran>> /\ work' = [work EXCEPT ![h]["job"] = Idle]
  BY <1>1, SlotType DEF JobsType, Idle, Slot, Stage
<1>2. CASE /\ queue[h] # <<>>
           /\ work' = [work EXCEPT ![h]["job"] = Begun(Head(queue[h]))]
           /\ ran' = [ran EXCEPT ![Head(queue[h])] = @ + 1]
           /\ queue' = [queue EXCEPT ![h] = Tail(@)]
  <2>1. Head(queue[h]) \in Req /\ Tail(queue[h]) \in Seq(Req)
    BY <1>2 DEF JobsType
  <2>2. Begun(Head(queue[h])) \in [row : Req \cup {Nobody}, stage : Stage]
    BY <2>1 DEF Begun, Stage
  <2>3. work' \in [Host -> [Slot -> [row : Req \cup {Nobody}, stage : Stage]]]
    BY <1>2, <2>2, SlotType DEF JobsType, Slot
  <2> QED
    BY <1>2, <2>1, <2>3 DEF JobsType
<1> QED
  BY <1>1, <1>2 DEF Pump

LEMMA FinishType ==
  ASSUME TypeOK, NEW h \in Host, NEW s \in Slot, Finish(h, s)
  PROVE  JobsType' /\ held' \in [Host -> SUBSET Req]
<1>1. JobsType
  BY DEF TypeOK, JobsType
<1>2. held' \in [Host -> SUBSET Req]
  BY DEF Finish, Remove, TypeOK
<1>3. CASE Pump(h)
  BY <1>1, <1>2, <1>3, PumpType
<1>4. CASE work' = [work EXCEPT ![h][s] = Idle] /\ UNCHANGED <<queue, ran>>
  BY <1>1, <1>2, <1>4, SlotType DEF JobsType, Idle, Stage
<1> QED
  BY <1>3, <1>4 DEF Finish

LEMMA TypeInit == Init => TypeOK
BY DEF Init, TypeOK, Status, Life, Idle, Slot, Stage

LEMMA TypeStep == TypeOK /\ [Next]_vars => TypeOK'
<1> SUFFICES ASSUME TypeOK, [Next]_vars PROVE TypeOK'
  OBVIOUS
<1> USE DEF rows, hosts, claim, tracker, jobs, recovery
<1>0. JobsType
  BY DEF TypeOK, JobsType
<1>1. CASE UNCHANGED vars
  BY <1>1 DEF TypeOK, vars
<1>2. ASSUME NEW r \in Req, Submit(r) \/ Age(r) PROVE TypeOK'
  BY <1>2 DEF TypeOK, Submit, Age, Status
<1>3. ASSUME NEW h \in Host, Start(h) \/ Publish(h) \/ Expire(h) \/ Stop(h) PROVE TypeOK'
  BY <1>3 DEF TypeOK, Start, Publish, Expire, Stop, Life
<1>4. ASSUME NEW h \in Host, Exit(h) PROVE TypeOK'
  <2>1. work' \in [Host -> [Slot -> [row : Req \cup {Nobody}, stage : Stage]]]
    BY <1>4 DEF Exit, TypeOK, Idle, Stage
  <2> QED
    BY <1>4, <2>1 DEF TypeOK, Exit, Life
<1>5. ASSUME NEW h \in Host, Claim(h) PROVE TypeOK'
  BY <1>5 DEF TypeOK, Claim, Status
<1>6. ASSUME NEW h \in Host, LoseAnswer(h) \/ EndNotice(h) PROVE TypeOK'
  BY <1>6 DEF TypeOK, LoseAnswer, EndNotice
<1>7. ASSUME NEW h \in Host, Receive(h) PROVE TypeOK'
  BY <1>7 DEF TypeOK, Receive, Add
<1>8. ASSUME NEW h \in Host, EndOffer(h) PROVE TypeOK'
  <2>1. JobsType'
    BY <1>0, <1>8, PumpType DEF EndOffer, OfferRuns, JobsType
  <2> QED
    BY <1>8, <2>1 DEF TypeOK, EndOffer, OfferRuns, JobsType
<1>9. ASSUME NEW h \in Host, NEW r \in Req, OfferPoisoned(h, r) PROVE TypeOK'
  BY <1>9 DEF TypeOK, OfferPoisoned, Remove
<1>10. ASSUME NEW h \in Host, NEW r \in Req, OfferJob(h, r) PROVE TypeOK'
  <2>1. Append(queue[h], r) \in Seq(Req)
    BY DEF TypeOK
  <2> QED
    BY <1>10, <2>1 DEF TypeOK, OfferJob, Remove
<1>11. ASSUME NEW h \in Host, NEW r \in Req, OfferCancel(h, r) PROVE TypeOK'
  <2>1. Begun(r) \in [row : Req \cup {Nobody}, stage : Stage]
    BY DEF Begun, Stage
  <2>2. work' \in [Host -> [Slot -> [row : Req \cup {Nobody}, stage : Stage]]]
    BY <1>11, <2>1, SlotType DEF OfferCancel, TypeOK, Slot
  <2> QED
    BY <1>11, <2>2 DEF TypeOK, OfferCancel, Remove
<1>12. ASSUME NEW h \in Host, NEW s \in Slot, Handle(h, s) PROVE TypeOK'
  <2>1. status' \in [Req -> Status]
    BY <1>12, SettleType DEF Handle, Answer, TypeOK
  <2> QED
    BY <1>12, <2>1, FinishType DEF TypeOK, Handle, JobsType
<1>13. ASSUME NEW h \in Host, NEW s \in Slot, FailSafely(h, s) PROVE TypeOK'
  <2>1. status' \in [Req -> Status]
    BY <1>13, SettleType DEF FailSafely, Answer, TypeOK
  <2> QED
    BY <1>13, <2>1, FinishType DEF TypeOK, FailSafely, JobsType
<1>14. ASSUME NEW h \in Host, NEW s \in Slot, Throw(h, s) PROVE TypeOK'
  <2>1. status' \in [Req -> Status]
    BY <1>14, SettleType DEF Throw, Answer, TypeOK
  <2>2. work' \in [Host -> [Slot -> [row : Req \cup {Nobody}, stage : Stage]]]
    BY <1>14, GotoType DEF Throw, TypeOK, Stage
  <2> QED
    BY <1>14, <2>1, <2>2 DEF TypeOK, Throw
<1>15. ASSUME NEW h \in Host, Approve(h) PROVE TypeOK'
  <2>1. status' \in [Req -> Status]
    BY <1>15, SettleType DEF Approve, Answer
  <2>2. work' \in [Host -> [Slot -> [row : Req \cup {Nobody}, stage : Stage]]]
    BY <1>15, GotoType DEF Approve, TypeOK, Stage, Slot
  <2> QED
    BY <1>15, <2>1, <2>2 DEF TypeOK, Approve
<1>16. ASSUME NEW h \in Host, EndDrive(h) PROVE TypeOK'
  BY <1>16, FinishType DEF TypeOK, EndDrive, JobsType, Slot
<1>17. ASSUME NEW h \in Host, Sweep(h) PROVE TypeOK'
  BY <1>17 DEF TypeOK, Sweep, Add, Orphans
<1>18. ASSUME NEW h \in Host, NEW r \in Req, Judge(h, r) PROVE TypeOK'
  BY <1>18 DEF TypeOK, Judge, Add
<1>19. ASSUME NEW h \in Host, NEW r \in Req, LostCallFails(h, r) PROVE TypeOK'
  BY <1>19 DEF TypeOK, LostCallFails, Remove
<1>20. ASSUME NEW h \in Host, NEW r \in Req, SweepCallFails(h, r) PROVE TypeOK'
  BY <1>20 DEF TypeOK, SweepCallFails, Remove
<1>21. ASSUME NEW h \in Host, NEW r \in Req, FailLost(h, r) PROVE TypeOK'
  <2>1. status' \in [Req -> Status]
    BY <1>21, SettleType DEF FailLost, Answer
  <2>2. lostCall' \in [Host -> SUBSET Req]
    BY <1>21 DEF TypeOK, FailLost, Remove
  <2>3. poisoned' = poisoned \/ poisoned' = [poisoned EXCEPT ![h] = @ \cup {r}]
    BY <1>21 DEF FailLost, Add
  <2>4. [poisoned EXCEPT ![h] = @ \cup {r}] \in [Host -> SUBSET Req]
    BY DEF TypeOK
  <2>5. poisoned' \in [Host -> SUBSET Req]
    BY <2>3, <2>4 DEF TypeOK
  <2> QED
    BY <1>21, <2>1, <2>2, <2>5 DEF TypeOK, FailLost
<1>22. ASSUME NEW h \in Host, NEW r \in Req, FailOrphan(h, r) PROVE TypeOK'
  <2>1. status' \in [Req -> Status]
    BY <1>22, SettleType DEF FailOrphan, Answer
  <2> QED
    BY <1>22, <2>1 DEF TypeOK, FailOrphan, Remove
<1> QED
  BY <1>1, <1>2, <1>3, <1>4, <1>5, <1>6, <1>7, <1>8, <1>9, <1>10, <1>11,
     <1>12, <1>13, <1>14, <1>15, <1>16, <1>17, <1>18, <1>19, <1>20, <1>21, <1>22, Stepped

(* Every variable keeps its type: rows have a status of the table, an       *)
(* instance keeps what it has been given in its three places.               *)
THEOREM TypeCorrect == Spec => []TypeOK
BY TypeInit, TypeStep, PTL DEF Spec, Safety

-----------------------------------------------------------------------------
(* Where the rows of an instance are: each waits in one place, is worked on *)
(* in one slot, and has been dispatched exactly when it left the waiting.   *)

Open(r)     == status[r] \in {"unsent", "pending"}
Waiting(h)  == flight[h] \cup batch[h] \cup Queued(h)
Distinct(q) == \A i, j \in 1 .. Len(q) : q[i] = q[j] => i = j

Ledger(h) ==
  /\ ~Alive(h) => /\ flight[h] = {} /\ h \notin offering /\ queue[h] = <<>>
                  /\ ~Busy(h, "job")
  /\ flight[h] # {} => h \notin offering
  /\ h \notin offering => batch[h] = {} /\ ~Busy(h, "inline")
  /\ \A s \in Slot : Busy(h, s) <=> Row(h, s) # Nobody
  /\ Row(h, "inline") = Row(h, "job") => Row(h, "job") = Nobody
  /\ (flight[h] \cup batch[h]) \cap Queued(h) = {}
  /\ Distinct(queue[h])
  /\ held[h] = InHand(h)

Place(r) ==
  /\ ran[r] \in {0, 1}
  /\ Open(r) => ran[r] = 0
  /\ \A h \in Host : r \in Waiting(h) => claimer[r] = h /\ ~Open(r) /\ ran[r] = 0
  /\ \A h \in Host : r \in Working(h) => claimer[r] = h /\ ~Open(r) /\ ran[r] = 1

ClaimInv == (\A h \in Host : Ledger(h)) /\ (\A r \in Req : Place(r))

(* What an instance's part of the state is. *)
Same(h) ==
  /\ flight'[h] = flight[h] /\ batch'[h] = batch[h] /\ held'[h] = held[h]
  /\ queue'[h] = queue[h] /\ work'[h] = work[h]
  /\ h \in offering' <=> h \in offering

LEMMA SameLedger ==
  ASSUME NEW h \in Host, Ledger(h), Same(h), Alive(h) => Alive(h)'
  PROVE  Ledger(h)' /\ Waiting(h)' = Waiting(h) /\ Working(h)' = Working(h)
<1>1. Queued(h)' = Queued(h) /\ Waiting(h)' = Waiting(h)
  BY DEF Same, Queued, Waiting
<1>2. /\ Row(h, "inline")' = Row(h, "inline") /\ Row(h, "job")' = Row(h, "job")
      /\ Working(h)' = Working(h) /\ InHand(h)' = InHand(h)
  BY <1>1 DEF Same, Row, Working, InHand
<1>3. \A s \in Slot : (Busy(h, s)' <=> Busy(h, s)) /\ Row(h, s)' = Row(h, s)
  BY DEF Same, Busy, Row
<1>4. Distinct(queue[h])' <=> Distinct(queue[h])
  BY DEF Same, Distinct
<1> QED
  BY <1>1, <1>2, <1>3, <1>4 DEF Ledger, Same, Slot

LEMMA AppendQueued ==
  ASSUME TypeOK, NEW h \in Host, NEW r \in Req,
         queue' = [queue EXCEPT ![h] = Append(@, r)]
  PROVE  /\ Queued(h)' = Queued(h) \cup {r}
         /\ Distinct(queue[h]) /\ r \notin Queued(h) => Distinct(queue[h])'
<1> DEFINE q == queue[h]
<1>1. q \in Seq(Req) /\ queue'[h] = Append(q, r)
  BY DEF TypeOK
<1>2. /\ Len(Append(q, r)) = Len(q) + 1 /\ Len(q) \in Nat
      /\ \A i \in 1 .. Len(q) : Append(q, r)[i] = q[i]
      /\ Append(q, r)[Len(q) + 1] = r
  BY <1>1
<1>3. Queued(h)' = {Append(q, r)[i] : i \in 1 .. Len(q) + 1}
  BY <1>1, <1>2 DEF Queued
<1>4. Queued(h)' = {q[i] : i \in 1 .. Len(q)} \cup {r}
  BY <1>2, <1>3
<1>5. ASSUME Distinct(q), r \notin Queued(h) PROVE Distinct(Append(q, r))
  BY <1>2, <1>5 DEF Distinct, Queued
<1> QED
  BY <1>1, <1>4, <1>5 DEF Queued, Distinct

LEMMA TailQueued ==
  ASSUME TypeOK, NEW h \in Host, queue[h] # <<>>, Distinct(queue[h]),
         queue' = [queue EXCEPT ![h] = Tail(@)]
  PROVE  /\ Head(queue[h]) \in Req /\ Head(queue[h]) \in Queued(h)
         /\ Queued(h)' = Queued(h) \ {Head(queue[h])}
         /\ Distinct(queue[h])'
<1> DEFINE q == queue[h]
<1>1. q \in Seq(Req) /\ q # <<>> /\ queue'[h] = Tail(q)
  BY DEF TypeOK
<1>2. /\ Len(q) \in Nat /\ Len(q) > 0 /\ Head(q) = q[1] /\ Head(q) \in Req
      /\ Len(Tail(q)) = Len(q) - 1
      /\ \A i \in 1 .. Len(q) - 1 : Tail(q)[i] = q[i + 1]
  BY <1>1
<1>3. Head(q) \in Queued(h)
  BY <1>2 DEF Queued
<1>4. Queued(h)' = {q[i + 1] : i \in 1 .. Len(q) - 1}
  BY <1>1, <1>2 DEF Queued
<1>5. {q[i + 1] : i \in 1 .. Len(q) - 1} = {q[i] : i \in 2 .. Len(q)}
  <2>1. \A i \in 2 .. Len(q) : i - 1 \in 1 .. Len(q) - 1 /\ i = (i - 1) + 1
    BY <1>2
  <2>2. \A i \in 1 .. Len(q) - 1 : i + 1 \in 2 .. Len(q)
    BY <1>2
  <2>3. {q[i + 1] : i \in 1 .. Len(q) - 1} \subseteq {q[i] : i \in 2 .. Len(q)}
    BY <2>2
  <2>4. ASSUME NEW i \in 2 .. Len(q) PROVE q[i] \in {q[j + 1] : j \in 1 .. Len(q) - 1}
    <3>1. i - 1 \in 1 .. Len(q) - 1 /\ q[i] = q[(i - 1) + 1]
      BY <2>1
    <3> QED
      BY <3>1
  <2>5. {q[i] : i \in 2 .. Len(q)} \subseteq {q[i + 1] : i \in 1 .. Len(q) - 1}
    BY <2>4
  <2> QED
    BY <2>3, <2>5
<1>6. \A i \in 2 .. Len(q) : q[i] # q[1]
  BY <1>2 DEF Distinct
<1>7. Queued(h)' = Queued(h) \ {Head(q)}
  <2>1. Queued(h) = {q[i] : i \in 2 .. Len(q)} \cup {q[1]}
    BY <1>2 DEF Queued
  <2>2. q[1] \notin {q[i] : i \in 2 .. Len(q)}
    BY <1>6
  <2> QED
    BY <1>2, <1>4, <1>5, <2>1, <2>2
<1>8. Distinct(Tail(q))
  BY <1>2 DEF Distinct
<1> QED
  BY <1>1, <1>2, <1>3, <1>7, <1>8

LEMMA Settled ==
  ASSUME TypeOK, NEW r, NEW a \in Answer, Settle(r, a), NEW q \in Req, Open(q)'
  PROVE  Open(q)
BY DEF TypeOK, Settle, Open, Answer

(* A step that moves no row keeps the invariant. *)
LEMMA QuietStep ==
  ASSUME ClaimInv, UNCHANGED <<flight, batch, held, queue, work, offering, ran, claimer>>,
         \A h \in Host : Alive(h) => Alive(h)',
         \A r \in Req : Open(r)' => Open(r)
  PROVE  ClaimInv'
<1>1. ASSUME NEW h \in Host
      PROVE  Ledger(h)' /\ Waiting(h)' = Waiting(h) /\ Working(h)' = Working(h)
  BY SameLedger DEF ClaimInv, Same
<1>2. ASSUME NEW r \in Req PROVE Place(r)'
  BY <1>1 DEF ClaimInv, Place
<1> QED
  BY <1>1, <1>2 DEF ClaimInv

(* A handler goes on to its next stage. *)
LEMMA GotoStep ==
  ASSUME TypeOK, ClaimInv, NEW h \in Host, NEW s \in Slot, NEW stage \in Stage \ {"idle"},
         Busy(h, s), Goto(h, s, stage),
         UNCHANGED <<flight, batch, held, queue, offering, ran, claimer, life>>,
         \A r \in Req : Open(r)' => Open(r)
  PROVE  ClaimInv'
<1>1. ASSUME NEW g \in Host, NEW t \in Slot
      PROVE  Row(g, t)' = Row(g, t) /\ (Busy(g, t)' <=> Busy(g, t))
  BY DEF Goto, Row, Busy, TypeOK
<1>2. ASSUME NEW g \in Host
      PROVE  /\ Queued(g)' = Queued(g) /\ Waiting(g)' = Waiting(g)
             /\ Working(g)' = Working(g) /\ InHand(g)' = InHand(g)
  BY <1>1 DEF Queued, Waiting, Working, InHand, Slot
<1>3. ASSUME NEW g \in Host PROVE Ledger(g)'
  <2>1. Ledger(g)
    BY DEF ClaimInv
  <2>2. (Alive(g)' <=> Alive(g)) /\ (Distinct(queue[g])' <=> Distinct(queue[g]))
    BY DEF Alive, Distinct
  <2> QED
    BY <1>1, <1>2, <2>1, <2>2 DEF Ledger, Slot
<1>4. ASSUME NEW r \in Req PROVE Place(r)'
  BY <1>2 DEF ClaimInv, Place
<1> QED
  BY <1>3, <1>4 DEF ClaimInv

(* The job slot lets its row go, if it has one, and takes the next, if it may. *)
LEMMA PumpStep ==
  ASSUME TypeOK, ClaimInv, NEW h \in Host, Alive(h), Pump(h),
         held' = [held EXCEPT ![h] = @ \ {Row(h, "job")}],
         UNCHANGED <<flight, batch, claimer, life>>,
         \A g \in Host \ {h} : g \in offering' <=> g \in offering,
         h \in offering' => h \in offering,
         h \notin offering' => batch[h] = {} /\ ~Busy(h, "inline"),
         \A r \in Req : Open(r)' => Open(r)
  PROVE  ClaimInv'
<1> DEFINE r0 == Row(h, "job")
           n0 == Head(queue[h])
<1>0. Ledger(h) /\ queue \in [Host -> Seq(Req)]
  BY DEF ClaimInv, TypeOK
<1>1. ASSUME NEW g \in Host, g # h
      PROVE  Ledger(g)' /\ Waiting(g)' = Waiting(g) /\ Working(g)' = Working(g)
  <2>1. Same(g)
    BY <1>1 DEF Same, Pump, TypeOK
  <2> QED
    BY <2>1, SameLedger DEF ClaimInv, Alive
<1>2. Row(h, "inline")' = Row(h, "inline") /\ (Busy(h, "inline")' <=> Busy(h, "inline"))
  <2>1. ASSUME NEW e, work' = [work EXCEPT ![h]["job"] = e]
        PROVE  work'[h]["inline"] = work[h]["inline"]
    BY <2>1 DEF TypeOK, Slot
  <2>2. work'[h]["inline"] = work[h]["inline"]
    BY <2>1 DEF Pump
  <2> QED
    BY <2>2 DEF Row, Busy
<1>3. Alive(h)' /\ flight'[h] = flight[h] /\ batch'[h] = batch[h]
  BY DEF Alive
<1>4. CASE /\ UNCHANGED <<queue, ran>>
           /\ work' = [work EXCEPT ![h]["job"] = Idle]
  <2>1. Row(h, "job")' = Nobody /\ ~Busy(h, "job")'
    BY <1>4 DEF Row, Busy, TypeOK, Slot, Idle
  <2>2. /\ Queued(h)' = Queued(h) /\ Waiting(h)' = Waiting(h)
        /\ Distinct(queue[h])' <=> Distinct(queue[h])
    BY <1>4 DEF Queued, Waiting, Distinct
  <2>3. Working(h)' = Working(h) \ {r0}
    BY <1>0, <1>2, <2>1 DEF Working, Ledger
  <2>4. r0 \notin batch[h] /\ r0 \notin Queued(h)
    <3>1. CASE r0 = Nobody
      <4>1. batch[h] \subseteq Req /\ Queued(h) \subseteq Req
        BY DEF TypeOK, Queued
      <4> QED
        BY <3>1, <4>1
    <3>2. CASE r0 # Nobody
      <4>1. r0 \in Req /\ r0 \in Working(h)
        BY <3>2 DEF TypeOK, Row, Working, Slot
      <4> QED
        BY <4>1 DEF ClaimInv, Place, Waiting
    <3> QED
      BY <3>1, <3>2
  <2>5. held'[h] = InHand(h)'
    BY <1>0, <1>3, <2>2, <2>3, <2>4 DEF InHand, Ledger, TypeOK
  <2>6. Ledger(h)'
    BY <1>0, <1>2, <1>3, <2>1, <2>2, <2>5 DEF Ledger, Slot
  <2>7. ASSUME NEW r \in Req PROVE Place(r)'
    BY <1>1, <1>4, <2>2, <2>3 DEF ClaimInv, Place
  <2> QED
    BY <1>1, <2>6, <2>7 DEF ClaimInv
<1>5. CASE /\ queue[h] # <<>>
           /\ work' = [work EXCEPT ![h]["job"] = Begun(n0)]
           /\ ran' = [ran EXCEPT ![n0] = @ + 1]
           /\ queue' = [queue EXCEPT ![h] = Tail(@)]
  <2>1. /\ n0 \in Req /\ n0 \in Queued(h) /\ Queued(h)' = Queued(h) \ {n0}
        /\ Distinct(queue[h])'
    BY <1>0, <1>5, TailQueued DEF Ledger
  <2>2. Row(h, "job")' = n0 /\ Busy(h, "job")'
    BY <1>5, <2>1 DEF Row, Busy, TypeOK, Slot, Begun
  <2>3. /\ claimer[n0] = h /\ ~Open(n0) /\ ran[n0] = 0
        /\ \A g \in Host : n0 \notin Working(g)
        /\ \A g \in Host \ {h} : n0 \notin Waiting(g)
    BY <2>1 DEF ClaimInv, Place, Waiting
  <2>4. n0 # Nobody /\ n0 # Row(h, "inline") /\ n0 # r0
    BY <2>1, <2>3 DEF Working
  <2>5. n0 \notin flight[h] \cup batch[h]
    BY <1>0, <2>1 DEF Ledger
  <2>6. Waiting(h)' = Waiting(h) \ {n0}
    BY <1>3, <2>1, <2>5 DEF Waiting
  <2>7. Working(h)' = (Working(h) \ {r0}) \cup {n0}
    BY <1>0, <1>2, <2>2, <2>4 DEF Working, Ledger
  <2>8. r0 \notin batch[h] /\ r0 \notin Queued(h)
    <3>1. CASE r0 = Nobody
      <4>1. batch[h] \subseteq Req /\ Queued(h) \subseteq Req
        BY DEF TypeOK, Queued
      <4> QED
        BY <3>1, <4>1
    <3>2. CASE r0 # Nobody
      <4>1. r0 \in Req /\ r0 \in Working(h)
        BY <3>2 DEF TypeOK, Row, Working, Slot
      <4> QED
        BY <4>1 DEF ClaimInv, Place, Waiting
    <3> QED
      BY <3>1, <3>2
  <2>9. held'[h] = InHand(h)'
    BY <1>0, <1>3, <2>1, <2>7, <2>8 DEF InHand, Ledger, TypeOK
  <2>10. Ledger(h)'
    BY <1>0, <1>2, <1>3, <2>1, <2>2, <2>4, <2>9 DEF Ledger, Slot
  <2>11. ran'[n0] = 1 /\ \A r \in Req : r # n0 => ran'[r] = ran[r]
    BY <1>5, <2>1, <2>3 DEF TypeOK
  <2>12. ASSUME NEW r \in Req, r = n0 PROVE Place(r)'
    <3>1. ~Open(r)' /\ ran'[r] = 1 /\ claimer'[r] = h
      BY <2>3, <2>11, <2>12
    <3>2. ASSUME NEW g \in Host PROVE r \notin Waiting(g)'
      BY <1>1, <2>3, <2>6, <2>12
    <3>3. ASSUME NEW g \in Host, r \in Working(g)' PROVE g = h
      BY <1>1, <2>3, <2>12, <3>3
    <3> QED
      BY <3>1, <3>2, <3>3 DEF Place
  <2>13. ASSUME NEW r \in Req, r # n0 PROVE Place(r)'
    BY <1>1, <2>6, <2>7, <2>11, <2>13 DEF ClaimInv, Place
  <2> QED
    BY <1>1, <2>10, <2>12, <2>13 DEF ClaimInv
<1> QED
  BY <1>4, <1>5 DEF Pump

(* A handler's end: the row is let go, and the job slot pumped. *)
LEMMA FinishStep ==
  ASSUME TypeOK, ClaimInv, NEW h \in Host, NEW s \in Slot, Alive(h), Busy(h, s), Finish(h, s),
         UNCHANGED <<flight, batch, offering, claimer, life>>,
         \A r \in Req : Open(r)' => Open(r)
  PROVE  ClaimInv'
<1> DEFINE r0 == Row(h, s)
<1>0. Ledger(h)
  BY DEF ClaimInv
<1>1. CASE s = "job"
  <2>1. Pump(h) /\ held' = [held EXCEPT ![h] = @ \ {Row(h, "job")}]
    BY <1>1 DEF Finish, Remove
  <2> QED
    BY <1>0, <2>1, PumpStep DEF Ledger
<1>2. CASE s = "inline"
  <2>0. /\ work' = [work EXCEPT ![h]["inline"] = Idle] /\ UNCHANGED <<queue, ran>>
        /\ held' = [held EXCEPT ![h] = @ \ {r0}]
    BY <1>2 DEF Finish, Remove
  <2>1. ASSUME NEW g \in Host, g # h
        PROVE  Ledger(g)' /\ Waiting(g)' = Waiting(g) /\ Working(g)' = Working(g)
    <3>1. Same(g)
      BY <2>0, <2>1 DEF Same, TypeOK
    <3> QED
      BY <3>1, SameLedger DEF ClaimInv, Alive
  <2>2. /\ Row(h, "inline")' = Nobody /\ ~Busy(h, "inline")'
        /\ Row(h, "job")' = Row(h, "job") /\ (Busy(h, "job")' <=> Busy(h, "job"))
    BY <2>0 DEF Row, Busy, TypeOK, Slot, Idle
  <2>3. /\ Queued(h)' = Queued(h) /\ Waiting(h)' = Waiting(h)
        /\ Distinct(queue[h])' <=> Distinct(queue[h])
    BY <2>0 DEF Queued, Waiting, Distinct
  <2>4. r0 # Nobody /\ r0 \in Req /\ r0 \in Working(h)
    BY <1>0, <1>2 DEF Ledger, TypeOK, Row, Working, Slot
  <2>5. r0 \notin batch[h] /\ r0 \notin Queued(h)
    BY <2>4 DEF ClaimInv, Place, Waiting
  <2>6. Working(h)' = Working(h) \ {r0}
    BY <1>0, <1>2, <2>2, <2>4 DEF Working, Ledger
  <2>7. held'[h] = InHand(h)'
    BY <1>0, <2>0, <2>3, <2>5, <2>6 DEF InHand, Ledger, TypeOK
  <2>8. Ledger(h)'
    BY <1>0, <2>2, <2>3, <2>7 DEF Ledger, Slot, Alive
  <2>9. ASSUME NEW r \in Req PROVE Place(r)'
    BY <2>0, <2>1, <2>3, <2>6 DEF ClaimInv, Place
  <2> QED
    BY <2>1, <2>8, <2>9 DEF ClaimInv
<1> QED
  BY <1>1, <1>2 DEF Slot

LEMMA ExitStep ==
  ASSUME TypeOK, ClaimInv, NEW h \in Host, Exit(h)
  PROVE  ClaimInv'
<1> USE DEF rows
<1>1. ASSUME NEW g \in Host, g # h
      PROVE  Ledger(g)' /\ Waiting(g)' = Waiting(g) /\ Working(g)' = Working(g)
  <2>1. Same(g) /\ (Alive(g)' <=> Alive(g))
    BY <1>1 DEF Same, Exit, TypeOK, Alive
  <2> QED
    BY <2>1, SameLedger DEF ClaimInv
<1>2. /\ flight'[h] = {} /\ batch'[h] = {} /\ held'[h] = {} /\ queue'[h] = <<>>
      /\ h \notin offering' /\ work'[h] = [s \in Slot |-> Idle]
  BY DEF Exit, TypeOK
<1>3. \A s \in Slot : Row(h, s)' = Nobody /\ ~Busy(h, s)'
  BY <1>2 DEF Row, Busy, Idle
<1>4. Queued(h)' = {} /\ Waiting(h)' = {} /\ Working(h)' = {} /\ InHand(h)' = {}
  BY <1>2, <1>3 DEF Queued, Waiting, Working, InHand, Slot
<1>5. Distinct(queue[h])'
  BY <1>2 DEF Distinct
<1>6. Ledger(h)'
  BY <1>2, <1>3, <1>4, <1>5 DEF Ledger, Slot
<1>7. ASSUME NEW r \in Req PROVE Place(r)'
  BY <1>1, <1>4 DEF ClaimInv, Place, Exit, Open
<1> QED
  BY <1>1, <1>6, <1>7 DEF ClaimInv

LEMMA ClaimingStep ==
  ASSUME TypeOK, ClaimInv, NEW h \in Host, Claim(h)
  PROVE  ClaimInv'
<1> USE DEF hosts, tracker, jobs
<1>0. PICK S \in SUBSET {r \in Req : status[r] = "pending"} \ {{}} :
        /\ status' = [r \in Req |-> IF r \in S THEN "claimed" ELSE status[r]]
        /\ claimer' = [r \in Req |-> IF r \in S THEN h ELSE claimer[r]]
        /\ flight' = [flight EXCEPT ![h] = S]
  BY DEF Claim
<1>1. ASSUME NEW r \in S
      PROVE  /\ r \in Req /\ ran[r] = 0 /\ ~Open(r)' /\ claimer'[r] = h
             /\ \A g \in Host : r \notin Waiting(g) /\ r \notin Working(g)
  BY <1>0 DEF ClaimInv, Place, Open
<1>2. ASSUME NEW r \in Req, r \notin S
      PROVE  (Open(r)' <=> Open(r)) /\ claimer'[r] = claimer[r]
  BY <1>0, <1>2 DEF Open
<1>3. ASSUME NEW g \in Host, g # h
      PROVE  Ledger(g)' /\ Waiting(g)' = Waiting(g) /\ Working(g)' = Working(g)
  <2>1. Same(g) /\ (Alive(g)' <=> Alive(g))
    BY <1>0, <1>3 DEF Same, Claim, TypeOK, Alive
  <2> QED
    BY <2>1, SameLedger DEF ClaimInv
<1>4. /\ flight'[h] = S /\ flight[h] = {} /\ h \notin offering' /\ Alive(h)'
      /\ UNCHANGED <<batch, held, queue, work, offering, ran, life>>
  BY <1>0 DEF TypeOK, Claim, Alive
<1>5. /\ Queued(h)' = Queued(h) /\ Working(h)' = Working(h) /\ InHand(h)' = InHand(h)
      /\ Waiting(h)' = Waiting(h) \cup S
  BY <1>4 DEF Queued, Working, InHand, Waiting, Row
<1>6. Ledger(h)'
  <2>1. \A s \in Slot : (Busy(h, s)' <=> Busy(h, s)) /\ Row(h, s)' = Row(h, s)
    BY <1>4 DEF Busy, Row
  <2>2. S \cap Queued(h) = {}
    BY <1>1 DEF Waiting
  <2>3. Distinct(queue[h])' <=> Distinct(queue[h])
    BY <1>4 DEF Distinct
  <2>4. Ledger(h)
    BY DEF ClaimInv
  <2> QED
    BY <1>4, <1>5, <2>1, <2>2, <2>3, <2>4 DEF Ledger, Slot
<1>7. ASSUME NEW r \in Req PROVE Place(r)'
  <2>1. CASE r \in S
    BY <1>1, <1>3, <1>4, <1>5, <2>1 DEF Place
  <2>2. CASE r \notin S
    BY <1>2, <1>3, <1>4, <1>5, <2>2 DEF ClaimInv, Place
  <2> QED
    BY <2>1, <2>2
<1> QED
  BY <1>3, <1>6, <1>7 DEF ClaimInv

LEMMA AnswerStep ==
  ASSUME TypeOK, ClaimInv, NEW h \in Host, LoseAnswer(h) \/ Receive(h)
  PROVE  ClaimInv'
<1> USE DEF rows, hosts, tracker, jobs
<1>0. Ledger(h)
  BY DEF ClaimInv
<1>1. /\ flight[h] # {} /\ h \notin offering /\ batch[h] = {} /\ ~Busy(h, "inline")
      /\ flight' = [flight EXCEPT ![h] = {}] /\ Alive(h)
      /\ UNCHANGED <<queue, work, ran, status, claimer, life>>
  BY <1>0 DEF Ledger, LoseAnswer, Receive
<1>2. \/ UNCHANGED <<batch, held, offering>>
      \/ /\ held' = [held EXCEPT ![h] = @ \cup flight[h]]
         /\ batch' = [batch EXCEPT ![h] = flight[h]]
         /\ offering' = offering \cup {h}
  BY DEF LoseAnswer, Receive, Add
<1>3. ASSUME NEW g \in Host, g # h
      PROVE  Ledger(g)' /\ Waiting(g)' = Waiting(g) /\ Working(g)' = Working(g)
  <2>1. Same(g) /\ (Alive(g)' <=> Alive(g))
    BY <1>1, <1>2, <1>3 DEF Same, TypeOK, Alive
  <2> QED
    BY <2>1, SameLedger DEF ClaimInv
<1>4. \/ batch'[h] = {} /\ held'[h] = held[h] /\ h \notin offering'
      \/ batch'[h] = flight[h] /\ held'[h] = held[h] \cup flight[h] /\ h \in offering'
  BY <1>1, <1>2 DEF TypeOK
<1>5. flight'[h] = {} /\ Queued(h)' = Queued(h) /\ Working(h)' = Working(h)
  BY <1>1 DEF TypeOK, Queued, Working, Row
<1>6. Waiting(h)' \subseteq Waiting(h) /\ held'[h] = InHand(h)'
  BY <1>0, <1>1, <1>4, <1>5 DEF Waiting, InHand, Ledger
<1>7. Ledger(h)'
  <2>1. \A s \in Slot : (Busy(h, s)' <=> Busy(h, s)) /\ Row(h, s)' = Row(h, s)
    BY <1>1 DEF Busy, Row
  <2>2. (Distinct(queue[h])' <=> Distinct(queue[h])) /\ Alive(h)'
    BY <1>1 DEF Distinct, Alive
  <2> QED
    BY <1>0, <1>1, <1>4, <1>5, <1>6, <2>1, <2>2 DEF Ledger, Slot
<1>8. ASSUME NEW r \in Req PROVE Place(r)'
  BY <1>1, <1>3, <1>5, <1>6 DEF ClaimInv, Place, Open
<1> QED
  BY <1>3, <1>7, <1>8 DEF ClaimInv

LEMMA EndOfferStep ==
  ASSUME TypeOK, ClaimInv, NEW h \in Host, EndOffer(h)
  PROVE  ClaimInv'
<1> USE DEF rows, hosts, tracker
<1>0. /\ Ledger(h) /\ Alive(h) /\ h \in offering /\ batch[h] = {} /\ ~Busy(h, "inline")
      /\ offering' = offering \ {h}
      /\ UNCHANGED <<flight, batch, held, status, claimer, life>>
  BY DEF ClaimInv, EndOffer, OfferRuns
<1>1. CASE Busy(h, "job") /\ UNCHANGED jobs
  <2>1. UNCHANGED <<queue, work, ran>> /\ Alive(h)'
    BY <1>0, <1>1 DEF jobs, Alive
  <2>2. ASSUME NEW g \in Host, g # h
        PROVE  Ledger(g)' /\ Waiting(g)' = Waiting(g) /\ Working(g)' = Working(g)
    <3>1. Same(g) /\ (Alive(g)' <=> Alive(g))
      BY <1>0, <2>1, <2>2 DEF Same, Alive
    <3> QED
      BY <3>1, SameLedger DEF ClaimInv
  <2>3. /\ Queued(h)' = Queued(h) /\ Waiting(h)' = Waiting(h)
        /\ Working(h)' = Working(h) /\ InHand(h)' = InHand(h)
        /\ Distinct(queue[h])' <=> Distinct(queue[h])
    BY <1>0, <2>1 DEF Queued, Waiting, Working, InHand, Row, Distinct
  <2>4. \A s \in Slot : (Busy(h, s)' <=> Busy(h, s)) /\ Row(h, s)' = Row(h, s)
    BY <2>1 DEF Busy, Row
  <2>5. Ledger(h)'
    BY <1>0, <2>1, <2>3, <2>4 DEF Ledger, Slot
  <2>6. ASSUME NEW r \in Req PROVE Place(r)'
    BY <1>0, <2>1, <2>2, <2>3 DEF ClaimInv, Place, Open
  <2> QED
    BY <2>2, <2>5, <2>6 DEF ClaimInv
<1>2. CASE ~Busy(h, "job") /\ Pump(h)
  <2>1. Row(h, "job") = Nobody
    BY <1>0, <1>2 DEF Ledger, Slot
  <2>2. held' = [held EXCEPT ![h] = @ \ {Row(h, "job")}]
    BY <1>0, <2>1 DEF TypeOK
  <2>3. \A r \in Req : Open(r)' => Open(r)
    BY <1>0 DEF Open
  <2> QED
    BY <1>0, <1>2, <2>2, <2>3, PumpStep
<1> QED
  BY <1>1, <1>2 DEF EndOffer, OfferRuns

(* offer() takes a row out of the batch; the other instances stay as they are. *)
LEMMA OfferedStep ==
  ASSUME TypeOK, ClaimInv, NEW h \in Host, NEW r \in Req, OffersNext(h, r),
         batch' = Remove(batch, h, {r}),
         UNCHANGED <<status, claimer, life, flight, offering>>,
         \A g \in Host \ {h} :
           held'[g] = held[g] /\ queue'[g] = queue[g] /\ work'[g] = work[g]
  PROVE  /\ Ledger(h) /\ h \in offering /\ flight[h] = {} /\ ~Busy(h, "inline")
         /\ batch'[h] = batch[h] \ {r} /\ Alive(h)' /\ r # Nobody
         /\ ran[r] = 0 /\ claimer[r] = h /\ ~Open(r) /\ r \notin Queued(h)
         /\ \A g \in Host : r \notin Working(g)
         /\ \A g \in Host \ {h} : r \notin Waiting(g)
         /\ \A g \in Host \ {h} :
              Ledger(g)' /\ Waiting(g)' = Waiting(g) /\ Working(g)' = Working(g)
<1>1. r \in batch[h] /\ Ledger(h) /\ Alive(h) /\ ~Busy(h, "inline")
  BY DEF ClaimInv, OffersNext, OfferRuns
<1>2. h \in offering /\ flight[h] = {} /\ r \notin Queued(h)
  BY <1>1 DEF Ledger
<1>3. r \in Waiting(h)
  BY <1>1 DEF Waiting
<1>4. /\ ran[r] = 0 /\ claimer[r] = h /\ ~Open(r)
      /\ \A g \in Host : r \notin Working(g)
      /\ \A g \in Host \ {h} : r \notin Waiting(g)
  BY <1>3 DEF ClaimInv, Place
<1>5. ASSUME NEW g \in Host, g # h
      PROVE  Ledger(g)' /\ Waiting(g)' = Waiting(g) /\ Working(g)' = Working(g)
  <2>1. Same(g) /\ (Alive(g)' <=> Alive(g))
    BY <1>5 DEF Same, Remove, TypeOK, Alive
  <2> QED
    BY <2>1, SameLedger DEF ClaimInv
<1>6. batch'[h] = batch[h] \ {r} /\ Alive(h)' /\ r # Nobody
  BY <1>1 DEF TypeOK, Remove, Alive
<1> QED
  BY <1>1, <1>2, <1>4, <1>5, <1>6

LEMMA OfferPoisonedStep ==
  ASSUME TypeOK, ClaimInv, NEW h \in Host, NEW r \in Req, OfferPoisoned(h, r)
  PROVE  ClaimInv'
<1> USE DEF rows, hosts, jobs
<1>1. /\ OffersNext(h, r) /\ batch' = Remove(batch, h, {r})
      /\ held' = [held EXCEPT ![h] = @ \ {r}]
      /\ UNCHANGED <<status, claimer, life, flight, offering, queue, work, ran>>
  BY DEF OfferPoisoned, Remove
<1>2. \A g \in Host \ {h} :
        held'[g] = held[g] /\ queue'[g] = queue[g] /\ work'[g] = work[g]
  BY <1>1 DEF TypeOK
<1>3. /\ Ledger(h) /\ h \in offering /\ flight[h] = {} /\ ~Busy(h, "inline")
      /\ batch'[h] = batch[h] \ {r} /\ Alive(h)' /\ r # Nobody
      /\ ran[r] = 0 /\ claimer[r] = h /\ ~Open(r) /\ r \notin Queued(h)
      /\ \A g \in Host : r \notin Working(g)
      /\ \A g \in Host \ {h} : r \notin Waiting(g)
      /\ \A g \in Host \ {h} :
           Ledger(g)' /\ Waiting(g)' = Waiting(g) /\ Working(g)' = Working(g)
  BY <1>1, <1>2, OfferedStep
<1>4. /\ Queued(h)' = Queued(h) /\ Working(h)' = Working(h)
      /\ Distinct(queue[h])' <=> Distinct(queue[h])
  BY <1>1 DEF Queued, Working, Row, Distinct
<1>5. held'[h] = InHand(h)' /\ Waiting(h)' \subseteq Waiting(h)
  <2>1. held[h] = InHand(h) /\ r \notin Working(h) /\ flight'[h] = flight[h]
    BY <1>1, <1>3 DEF Ledger
  <2>2. held'[h] = held[h] \ {r}
    BY <1>1 DEF TypeOK
  <2> QED
    BY <1>3, <1>4, <2>1, <2>2 DEF InHand, Waiting
<1>6. \A s \in Slot : (Busy(h, s)' <=> Busy(h, s)) /\ Row(h, s)' = Row(h, s)
  BY <1>1 DEF Busy, Row
<1>7. Ledger(h)'
  <2>1. flight'[h] = {} /\ h \in offering' /\ queue'[h] = queue[h]
    BY <1>1, <1>3
  <2>2. batch'[h] \subseteq batch[h]
    BY <1>3
  <2> QED
    BY <1>3, <1>4, <1>5, <1>6, <2>1, <2>2 DEF Ledger, Slot
<1>8. ASSUME NEW q \in Req PROVE Place(q)'
  BY <1>1, <1>3, <1>4, <1>5 DEF ClaimInv, Place, Open
<1> QED
  BY <1>3, <1>7, <1>8 DEF ClaimInv

LEMMA OfferJobStep ==
  ASSUME TypeOK, ClaimInv, NEW h \in Host, NEW r \in Req, OfferJob(h, r)
  PROVE  ClaimInv'
<1> USE DEF rows, hosts, tracker
<1>1. /\ OffersNext(h, r) /\ batch' = Remove(batch, h, {r})
      /\ queue' = [queue EXCEPT ![h] = Append(@, r)]
      /\ UNCHANGED <<status, claimer, life, flight, offering, held, work, ran>>
  BY DEF OfferJob
<1>2. \A g \in Host \ {h} :
        held'[g] = held[g] /\ queue'[g] = queue[g] /\ work'[g] = work[g]
  BY <1>1 DEF TypeOK
<1>3. /\ Ledger(h) /\ h \in offering /\ flight[h] = {} /\ ~Busy(h, "inline")
      /\ batch'[h] = batch[h] \ {r} /\ Alive(h)' /\ r # Nobody
      /\ ran[r] = 0 /\ claimer[r] = h /\ ~Open(r) /\ r \notin Queued(h)
      /\ \A g \in Host : r \notin Working(g)
      /\ \A g \in Host \ {h} : r \notin Waiting(g)
      /\ \A g \in Host \ {h} :
           Ledger(g)' /\ Waiting(g)' = Waiting(g) /\ Working(g)' = Working(g)
  BY <1>1, <1>2, OfferedStep
<1>4. Queued(h)' = Queued(h) \cup {r} /\ Distinct(queue[h])'
  BY <1>1, <1>3, AppendQueued DEF Ledger
<1>5. Working(h)' = Working(h)
  BY <1>1 DEF Working, Row
<1>6. r \in batch[h]
  BY <1>1 DEF OffersNext, OfferRuns
<1>7. held'[h] = InHand(h)' /\ Waiting(h)' = Waiting(h)
  <2>1. held[h] = InHand(h) /\ held'[h] = held[h] /\ flight'[h] = flight[h]
    BY <1>1, <1>3 DEF Ledger
  <2> QED
    BY <1>3, <1>4, <1>5, <1>6, <2>1 DEF InHand, Waiting
<1>8. \A s \in Slot : (Busy(h, s)' <=> Busy(h, s)) /\ Row(h, s)' = Row(h, s)
  BY <1>1 DEF Busy, Row
<1>9. Ledger(h)'
  BY ZenonT(30), <1>1, <1>3, <1>4, <1>7, <1>8 DEF Ledger, Slot
<1>10. ASSUME NEW q \in Req PROVE Place(q)'
  BY <1>1, <1>3, <1>5, <1>7 DEF ClaimInv, Place, Open
<1> QED
  BY <1>3, <1>9, <1>10 DEF ClaimInv

LEMMA OfferCancelStep ==
  ASSUME TypeOK, ClaimInv, NEW h \in Host, NEW r \in Req, OfferCancel(h, r)
  PROVE  ClaimInv'
<1> USE DEF rows, hosts, tracker
<1>1. /\ OffersNext(h, r) /\ batch' = Remove(batch, h, {r})
      /\ work' = [work EXCEPT ![h]["inline"] = Begun(r)]
      /\ ran' = [ran EXCEPT ![r] = @ + 1]
      /\ UNCHANGED <<status, claimer, life, flight, offering, held, queue>>
  BY DEF OfferCancel
<1>2. \A g \in Host \ {h} :
        held'[g] = held[g] /\ queue'[g] = queue[g] /\ work'[g] = work[g]
  BY <1>1 DEF TypeOK
<1>3. /\ Ledger(h) /\ h \in offering /\ flight[h] = {} /\ ~Busy(h, "inline")
      /\ batch'[h] = batch[h] \ {r} /\ Alive(h)' /\ r # Nobody
      /\ ran[r] = 0 /\ claimer[r] = h /\ ~Open(r) /\ r \notin Queued(h)
      /\ \A g \in Host : r \notin Working(g)
      /\ \A g \in Host \ {h} : r \notin Waiting(g)
      /\ \A g \in Host \ {h} :
           Ledger(g)' /\ Waiting(g)' = Waiting(g) /\ Working(g)' = Working(g)
  BY <1>1, <1>2, OfferedStep
<1>4. /\ Row(h, "inline")' = r /\ Busy(h, "inline")'
      /\ Row(h, "job")' = Row(h, "job") /\ (Busy(h, "job")' <=> Busy(h, "job"))
  BY <1>1 DEF Row, Busy, TypeOK, Slot, Begun
<1>5. Row(h, "inline") = Nobody /\ Row(h, "job") # r
  BY <1>3 DEF Ledger, Slot, Working
<1>6. Working(h)' = Working(h) \cup {r}
  BY <1>3, <1>4, <1>5 DEF Working
<1>7. Queued(h)' = Queued(h) /\ (Distinct(queue[h])' <=> Distinct(queue[h]))
  BY <1>1 DEF Queued, Distinct
<1>8. r \in batch[h]
  BY <1>1 DEF OffersNext, OfferRuns
<1>9. held'[h] = InHand(h)' /\ Waiting(h)' = Waiting(h) \ {r}
  <2>1. held[h] = InHand(h) /\ held'[h] = held[h] /\ flight'[h] = flight[h]
    BY <1>1, <1>3 DEF Ledger
  <2> QED
    BY <1>3, <1>6, <1>7, <1>8, <2>1 DEF InHand, Waiting
<1>10. Ledger(h)'
  <2>1. flight'[h] = {} /\ h \in offering' /\ batch'[h] \subseteq batch[h]
    BY <1>1, <1>3
  <2>2. \A s \in Slot : Busy(h, s)' <=> Row(h, s)' # Nobody
    BY <1>3, <1>4 DEF Ledger, Slot
  <2> QED
    BY <1>3, <1>4, <1>5, <1>7, <1>9, <2>1, <2>2 DEF Ledger
<1>11. ran'[r] = 1 /\ \A q \in Req : q # r => ran'[q] = ran[q]
  BY <1>1, <1>3 DEF TypeOK
<1>12. ASSUME NEW q \in Req, q # r PROVE Place(q)'
  BY <1>1, <1>3, <1>6, <1>9, <1>11, <1>12 DEF ClaimInv, Place, Open
<1>13. Place(r)'
  <2>1. ~Open(r)' /\ claimer'[r] = h
    BY <1>1, <1>3 DEF Open
  <2>2. ASSUME NEW g \in Host PROVE r \notin Waiting(g)'
    BY <1>3, <1>9
  <2>3. ASSUME NEW g \in Host, r \in Working(g)' PROVE g = h
    BY <1>3, <2>3
  <2> QED
    BY <1>11, <2>1, <2>2, <2>3 DEF Place
<1> QED
  BY <1>3, <1>10, <1>12, <1>13 DEF ClaimInv

LEMMA ClaimInit == Init => ClaimInv
<1> SUFFICES ASSUME Init PROVE ClaimInv
  OBVIOUS
<1>1. ASSUME NEW h \in Host
      PROVE  /\ Queued(h) = {} /\ Waiting(h) = {} /\ Working(h) = {} /\ InHand(h) = {}
             /\ Ledger(h)
  <2>1. \A s \in Slot : Row(h, s) = Nobody /\ ~Busy(h, s)
    BY DEF Init, Row, Busy, Idle
  <2>2. Queued(h) = {} /\ Waiting(h) = {} /\ Working(h) = {} /\ InHand(h) = {}
    BY <2>1 DEF Init, Queued, Waiting, Working, InHand, Slot
  <2>3. Distinct(queue[h])
    BY DEF Init, Distinct
  <2> QED
    BY <2>1, <2>2, <2>3 DEF Init, Ledger, Slot
<1>2. ASSUME NEW r \in Req PROVE Place(r)
  BY <1>1 DEF Init, Place
<1> QED
  BY <1>1, <1>2 DEF ClaimInv

LEMMA ClaimStep == TypeOK /\ ClaimInv /\ [Next]_vars => ClaimInv'
<1> SUFFICES ASSUME TypeOK, ClaimInv, [Next]_vars PROVE ClaimInv'
  OBVIOUS
<1> USE DEF rows, hosts, claim, tracker, jobs, recovery
<1>0. \A h \in Host : Ledger(h)
  BY DEF ClaimInv
<1>1. CASE UNCHANGED vars
  BY <1>1, QuietStep DEF vars, Alive, Open
<1>2. ASSUME NEW r \in Req, Submit(r) PROVE ClaimInv'
  <2>1. \A q \in Req : Open(q)' => Open(q)
    BY <1>2 DEF Submit, Open, TypeOK
  <2> QED
    BY <1>2, <2>1, QuietStep DEF Submit, Alive
<1>3. ASSUME NEW r \in Req, Age(r) PROVE ClaimInv'
  BY <1>3, QuietStep DEF Age, Alive, Open
<1>4. ASSUME NEW h \in Host, Start(h) \/ Publish(h) \/ Expire(h) \/ Stop(h) PROVE ClaimInv'
  <2>1. \A g \in Host : Alive(g) => Alive(g)'
    BY <1>4 DEF Start, Publish, Expire, Stop, Alive, TypeOK
  <2>2. /\ UNCHANGED <<flight, batch, held, queue, work, offering, ran, claimer>>
        /\ \A r \in Req : Open(r)' => Open(r)
    BY <1>4 DEF Start, Publish, Expire, Stop, Open
  <2> QED
    BY <2>1, <2>2, QuietStep
<1>5. ASSUME NEW h \in Host, NEW s \in Slot, Handle(h, s) PROVE ClaimInv'
  <2>1. \A q \in Req : Open(q)' => Open(q)
    BY <1>5, Settled DEF Handle, Open, Answer
  <2> QED
    BY <1>5, <2>1, FinishStep DEF Handle, At, Busy
<1>6. ASSUME NEW h \in Host, NEW s \in Slot, FailSafely(h, s) PROVE ClaimInv'
  <2>1. \A q \in Req : Open(q)' => Open(q)
    BY <1>6, Settled DEF FailSafely, Open, Answer
  <2> QED
    BY <1>6, <2>1, FinishStep DEF FailSafely, At, Busy
<1>7. ASSUME NEW h \in Host, NEW s \in Slot, Throw(h, s) PROVE ClaimInv'
  <2>1. \A q \in Req : Open(q)' => Open(q)
    BY <1>7, Settled DEF Throw, Open, Answer
  <2>2. "failing" \in Stage \ {"idle"} /\ Busy(h, s)
    BY <1>7 DEF Throw, At, Busy, Stage
  <2> QED
    BY <1>7, <2>1, <2>2, GotoStep DEF Throw
<1>8. ASSUME NEW h \in Host, Approve(h) PROVE ClaimInv'
  <2>1. \A q \in Req : Open(q)' => Open(q)
    BY <1>8, Settled DEF Approve, Answer
  <2>2. "drive" \in Stage \ {"idle"} /\ "job" \in Slot /\ Busy(h, "job")
    BY <1>8 DEF Approve, At, Busy, Stage, Slot
  <2> QED
    BY <1>8, <2>1, <2>2, GotoStep DEF Approve
<1>9. ASSUME NEW h \in Host, EndDrive(h) PROVE ClaimInv'
  BY <1>9, FinishStep DEF EndDrive, At, Busy, Slot, Open
<1>10. ASSUME NEW h \in Host, NEW r \in Req,
              Judge(h, r) \/ LostCallFails(h, r) \/ SweepCallFails(h, r)
       PROVE  ClaimInv'
  BY <1>10, QuietStep DEF Judge, LostCallFails, SweepCallFails, Alive, Open
<1>11. ASSUME NEW h \in Host, NEW r \in Req, FailLost(h, r) \/ FailOrphan(h, r) PROVE ClaimInv'
  <2>1. \A q \in Req : Open(q)' => Open(q)
    BY <1>11, Settled DEF FailLost, FailOrphan, Answer
  <2> QED
    BY <1>11, <2>1, QuietStep DEF FailLost, FailOrphan, Alive
<1>12. ASSUME NEW h \in Host, Sweep(h) PROVE ClaimInv'
  BY <1>12, QuietStep DEF Sweep, Alive, Open
<1>13. ASSUME NEW h \in Host, EndNotice(h) PROVE ClaimInv'
  BY <1>13, QuietStep DEF EndNotice, Alive, Open
<1> QED
  BY <1>1, <1>2, <1>3, <1>4, <1>5, <1>6, <1>7, <1>8, <1>9, <1>10, <1>11, <1>12, <1>13, Stepped,
     ExitStep, ClaimingStep, AnswerStep, EndOfferStep, OfferPoisonedStep, OfferJobStep,
     OfferCancelStep

LEMMA ClaimInvariant == Safety => [](TypeOK /\ ClaimInv)
BY TypeInit, TypeStep, ClaimInit, ClaimStep, PTL DEF Safety

(* A request is dispatched at most once, by whichever instance claimed it:  *)
(* a row leaves the open ones when it is claimed, and the waiting ones when *)
(* offer() or pump() starts it, and never comes back to either.             *)
THEOREM DispatchedOnce == Spec => []AtMostOnce
<1>1. ClaimInv => AtMostOnce
  <2>1. ASSUME ClaimInv, NEW r \in Req PROVE ran[r] <= 1
    <3>1. ran[r] = 0 \/ ran[r] = 1
      BY <2>1 DEF ClaimInv, Place
    <3> QED
      BY <3>1
  <2> QED
    BY <2>1 DEF AtMostOnce
<1> QED
  BY <1>1, ClaimInvariant, PTL DEF Spec

(* The held set is what the batch, the queue and the slots contain, at      *)
(* every step of every instance.                                            *)
THEOREM TrackerExact == Spec => []HeldInHand
<1>1. ClaimInv => HeldInHand
  BY DEF ClaimInv, Ledger, HeldInHand
<1> QED
  BY <1>1, ClaimInvariant, PTL DEF Spec

(* A request keeps the answer it was given, whichever call arrives later. *)
THEOREM AnswersKept == Spec => AnswerStands
<1>1. ASSUME TypeOK, NEW q, NEW a \in Answer, Settle(q, a), NEW r \in Req, Answered(r)
      PROVE  status'[r] = status[r]
  BY <1>1 DEF TypeOK, Settle, Answered, Answer
<1>2. TypeOK /\ [Next]_vars => [\A r \in Req : Answered(r) => status'[r] = status[r]]_vars
  <2> SUFFICES ASSUME TypeOK, [Next]_vars, NEW r \in Req, Answered(r)
               PROVE  status'[r] = status[r]
    OBVIOUS
  <2> USE DEF rows, hosts, claim, tracker, jobs, recovery
  <2>1. ASSUME NEW q \in Req, Submit(q) PROVE status'[r] = status[r]
    BY <2>1 DEF Submit, TypeOK, Answered, Answer
  <2>2. ASSUME NEW h \in Host, Claim(h) PROVE status'[r] = status[r]
    BY <2>2 DEF Claim, TypeOK, Answered, Answer
  <2>3. ASSUME NEW h \in Host, NEW s \in Slot, Handle(h, s) \/ FailSafely(h, s) \/ Throw(h, s)
        PROVE  status'[r] = status[r]
    BY <2>3, <1>1 DEF Handle, FailSafely, Throw, Answer
  <2>4. ASSUME NEW h \in Host, Approve(h) PROVE status'[r] = status[r]
    BY <2>4, <1>1 DEF Approve, Answer
  <2>5. ASSUME NEW h \in Host, NEW q \in Req, FailLost(h, q) \/ FailOrphan(h, q)
        PROVE  status'[r] = status[r]
    BY <2>5, <1>1 DEF FailLost, FailOrphan, Answer
  <2>6. \/ UNCHANGED status
        \/ \E q \in Req : Submit(q)
        \/ \E h \in Host : Claim(h) \/ Approve(h)
        \/ \E h \in Host, s \in Slot : Handle(h, s) \/ FailSafely(h, s) \/ Throw(h, s)
        \/ \E h \in Host, q \in Req : FailLost(h, q) \/ FailOrphan(h, q)
    BY Stepped DEF vars, Age, Start, Publish, Expire, Stop, Exit, LoseAnswer, EndNotice, Receive,
       EndOffer, OfferPoisoned, OfferJob, OfferCancel, EndDrive, Sweep, Judge,
       LostCallFails, SweepCallFails
  <2> QED
    BY <2>1, <2>2, <2>3, <2>4, <2>5, <2>6
<1> QED
  BY <1>2, TypeInit, TypeStep, PTL DEF Spec, Safety, AnswerStands

(* The recovery never sets out to fail a row that is in the batch, in the   *)
(* queue or in a slot: it asks the held set, and the held set is exact.     *)
THEOREM InHandNotJudged == Spec => QueuedNotLost
<1>1. TypeOK /\ ClaimInv /\ [Next]_vars
        => [\A h \in Host : (lostCall'[h] \ lostCall[h]) \cap InHand(h) = {}]_vars
  <2> SUFFICES ASSUME TypeOK, ClaimInv, [Next]_vars, NEW h \in Host
               PROVE  (lostCall'[h] \ lostCall[h]) \cap InHand(h) = {}
    OBVIOUS
  <2> USE DEF rows, hosts, claim, tracker, jobs, recovery
  <2>1. held[h] = InHand(h)
    BY DEF ClaimInv, Ledger
  <2>2. ASSUME NEW g \in Host, NEW r \in Req, Judge(g, r)
        PROVE  (lostCall'[h] \ lostCall[h]) \cap InHand(h) = {}
    <3>1. CASE g = h
      <4>1. lostCall'[h] = lostCall[h] \cup {r} /\ r \notin held[h]
        BY <2>2, <3>1 DEF Judge, LostClaim, Add, TypeOK
      <4> QED
        BY <2>1, <4>1
    <3>2. CASE g # h
      BY <2>2, <3>2 DEF Judge, Add, TypeOK
    <3> QED
      BY <3>1, <3>2
  <2>3. ASSUME NEW g \in Host, NEW r \in Req, FailLost(g, r) \/ LostCallFails(g, r)
        PROVE  lostCall'[h] \subseteq lostCall[h]
    <3>1. lostCall' = [lostCall EXCEPT ![g] = @ \ {r}]
      BY <2>3 DEF FailLost, LostCallFails, Remove
    <3> QED
      BY <3>1 DEF TypeOK
  <2>4. \/ UNCHANGED lostCall
        \/ \E g \in Host, r \in Req : Judge(g, r)
        \/ \E g \in Host, r \in Req : FailLost(g, r) \/ LostCallFails(g, r)
    BY Stepped DEF vars, Submit, Age, Start, Publish, Expire, Stop, Exit, Claim, LoseAnswer,
       EndNotice, Receive, EndOffer, OfferPoisoned, OfferJob, OfferCancel, Handle, FailSafely, Throw,
       Approve, EndDrive, Sweep, SweepCallFails, FailOrphan
  <2> QED
    BY <2>2, <2>3, <2>4
<1> QED
  BY <1>1, ClaimInvariant, TypeStep, ClaimStep, PTL DEF Spec, Safety, QueuedNotLost

(* A slot that is free finds the queue empty, unless offer() has still to   *)
(* pump: every end of a job pumps, and every append is inside offer().      *)
LEMMA NeverIdleStep == TypeOK /\ ClaimInv /\ NeverIdle /\ [Next]_vars => NeverIdle'
<1> SUFFICES ASSUME TypeOK, ClaimInv, NeverIdle, [Next]_vars,
                    NEW h \in Host, life'[h] = "up", h \notin offering', queue'[h] # <<>>
             PROVE  Busy(h, "job")'
  BY DEF NeverIdle
<1> USE DEF rows, hosts, claim, tracker, jobs, recovery
<1>0. Ledger(h)
  BY DEF ClaimInv
<1>1. CASE UNCHANGED <<queue, work, offering>> /\ life'[h] = life[h]
  BY <1>1 DEF NeverIdle, Busy
<1>2. ASSUME NEW g \in Host, Start(g) \/ Stop(g) PROVE Busy(h, "job")'
  <2>1. CASE life'[h] = life[h]
    BY <1>1, <1>2, <2>1 DEF Start, Stop
  <2>2. CASE life'[h] # life[h]
    <3>1. ~Alive(h) /\ queue[h] # <<>>
      BY <1>2, <2>2 DEF Start, Stop, Alive, TypeOK
    <3> QED
      BY <1>0, <3>1 DEF Ledger
  <2> QED
    BY <2>1, <2>2
<1>3. ASSUME NEW g \in Host, Exit(g) PROVE Busy(h, "job")'
  <2>1. g # h
    BY <1>3 DEF Exit, TypeOK
  <2>2. /\ queue'[h] = queue[h] /\ work'[h] = work[h] /\ life'[h] = life[h]
        /\ h \notin offering
    BY <1>3, <2>1 DEF Exit, TypeOK
  <2> QED
    BY <2>2 DEF NeverIdle, Busy
<1>4. ASSUME NEW g \in Host, Receive(g) PROVE Busy(h, "job")'
  BY <1>4 DEF Receive, NeverIdle, Busy
<1>5. ASSUME Pump(h), UNCHANGED life PROVE Busy(h, "job")'
  <2>1. work' = [work EXCEPT ![h]["job"] = Begun(Head(queue[h]))]
    BY <1>5 DEF Pump
  <2> QED
    BY <2>1 DEF TypeOK, Busy, Begun, Slot
<1>6. ASSUME NEW g \in Host, g # h, Pump(g), UNCHANGED <<life>>, h \notin offering
      PROVE  Busy(h, "job")'
  <2>1. queue'[h] = queue[h] /\ work'[h] = work[h]
    BY <1>6 DEF Pump, TypeOK
  <2> QED
    BY <1>6, <2>1 DEF NeverIdle, Busy
<1>7. ASSUME NEW g \in Host, EndOffer(g) PROVE Busy(h, "job")'
  <2>1. CASE Busy(g, "job") /\ UNCHANGED jobs
    BY <1>7, <2>1 DEF EndOffer, OfferRuns, NeverIdle, Busy
  <2>2. CASE Pump(g)
    BY <1>5, <1>6, <1>7, <2>2 DEF EndOffer, OfferRuns
  <2> QED
    BY <1>7, <2>1, <2>2 DEF EndOffer, OfferRuns
<1>8. ASSUME NEW g \in Host, NEW r \in Req, OfferJob(g, r) \/ OfferCancel(g, r)
      PROVE  Busy(h, "job")'
  <2>1. g # h
    <3>1. g \in offering
      BY <1>8 DEF ClaimInv, Ledger, OfferJob, OfferCancel, OffersNext, OfferRuns
    <3> QED
      BY <1>8, <3>1 DEF OfferJob, OfferCancel
  <2>2. queue'[h] = queue[h] /\ work'[h] = work[h] /\ UNCHANGED <<life, offering>>
    <3>1. CASE OfferJob(g, r)
      BY <2>1, <3>1 DEF OfferJob, TypeOK
    <3>2. CASE OfferCancel(g, r)
      BY <2>1, <3>2 DEF OfferCancel, TypeOK
    <3> QED
      BY <1>8, <3>1, <3>2
  <2> QED
    BY <2>2 DEF NeverIdle, Busy
<1>9. ASSUME NEW g \in Host, NEW s \in Slot, Finish(g, s), Busy(g, s), UNCHANGED <<life, offering>>
      PROVE  Busy(h, "job")'
  <2>1. CASE Pump(g)
    BY <1>5, <1>6, <1>9, <2>1
  <2>2. CASE s = "inline" /\ work' = [work EXCEPT ![g][s] = Idle] /\ UNCHANGED queue
    <3>1. g # h
      BY <1>0, <1>9, <2>2 DEF Ledger
    <3>2. work'[h] = work[h]
      BY <2>2, <3>1 DEF TypeOK
    <3> QED
      BY <1>9, <2>2, <3>2 DEF NeverIdle, Busy
  <2> QED
    BY <1>9, <2>1, <2>2 DEF Finish
<1>10. ASSUME NEW g \in Host, NEW s \in Slot, Handle(g, s) \/ FailSafely(g, s)
       PROVE  Busy(h, "job")'
  BY <1>9, <1>10 DEF Handle, FailSafely, At, Busy
<1>11. ASSUME NEW g \in Host, EndDrive(g) PROVE Busy(h, "job")'
  BY <1>9, <1>11 DEF EndDrive, At, Busy, Slot
<1>12. ASSUME NEW g \in Host, NEW s \in Slot, NEW stage \in Stage \ {"idle"},
              Goto(g, s, stage), Busy(g, s), UNCHANGED <<life, offering, queue>>
       PROVE  Busy(h, "job")'
  <2>1. Busy(h, "job")
    BY <1>12 DEF NeverIdle
  <2> QED
    BY <1>12, <2>1 DEF Goto, Busy, TypeOK, Slot
<1>13. ASSUME NEW g \in Host, NEW s \in Slot, Throw(g, s) PROVE Busy(h, "job")'
  BY <1>12, <1>13 DEF Throw, At, Busy, Stage
<1>14. ASSUME NEW g \in Host, Approve(g) PROVE Busy(h, "job")'
  BY <1>12, <1>14 DEF Approve, At, Busy, Stage, Slot
<1>15. \/ UNCHANGED <<queue, work, offering>> /\ life'[h] = life[h]
       \/ \E g \in Host : Start(g) \/ Stop(g)
       \/ \E g \in Host : Exit(g)
       \/ \E g \in Host : Receive(g)
       \/ \E g \in Host : EndOffer(g)
       \/ \E g \in Host, r \in Req : OfferJob(g, r) \/ OfferCancel(g, r)
       \/ \E g \in Host, s \in Slot : Handle(g, s) \/ FailSafely(g, s)
       \/ \E g \in Host, s \in Slot : Throw(g, s)
       \/ \E g \in Host : Approve(g)
       \/ \E g \in Host : EndDrive(g)
  BY Stepped DEF vars, Submit, Age, Publish, Expire, Claim, LoseAnswer, EndNotice,
     OfferPoisoned, Sweep, Judge, LostCallFails, SweepCallFails, FailLost, FailOrphan
<1> QED
  BY <1>1, <1>2, <1>3, <1>4, <1>7, <1>8, <1>10, <1>11, <1>13, <1>14, <1>15

(* No wake-up is lost: a running instance outside offer() whose queue holds *)
(* a row has an active job, at whose end the queue is pumped.               *)
THEOREM QueuePumped == Spec => []NeverIdle
<1>1. Init => NeverIdle
  BY DEF Init, NeverIdle
<1> QED
  BY <1>1, NeverIdleStep, ClaimInvariant, PTL DEF Spec, Safety

-----------------------------------------------------------------------------
(* The refinement: what each step shows the owner. *)

(* An answer shows as one, a row it misses as nothing. *)
LEMMA SettleShown ==
  ASSUME TypeOK, NEW r \in Req, NEW a \in Answer, Settle(r, a),
         a \in {"completed", "failed"} => ran[r] = 1
  PROVE  UNCHANGED OwnerSees \/ Board!Answer(r)
<1>1. CASE status[r] # "claimed"
  <2>1. status' = status
    BY <1>1 DEF Settle, TypeOK
  <2> QED
    BY <2>1 DEF OwnerSees
<1>2. CASE status[r] = "claimed"
  <2>1. OwnerSees[r] = "taken"
    BY <1>2 DEF OwnerSees, Shown
  <2>2. OwnerSees' = [OwnerSees EXCEPT ![r] = Shown(a)]
    BY <1>2 DEF Settle, OwnerSees, TypeOK
  <2>3. Shown(a) = "given up" \/ (ran[r] = 1 /\ Shown(a) = "served")
    BY DEF Shown, Answer
  <2> QED
    BY <2>1, <2>2, <2>3 DEF Board!Answer
<1> QED
  BY <1>1, <1>2

LEMMA WorkedOnRan ==
  ASSUME TypeOK, ClaimInv, NEW h \in Host, NEW s \in Slot, Busy(h, s)
  PROVE  Row(h, s) \in Req /\ ran[Row(h, s)] = 1
<1>1. Row(h, s) # Nobody /\ Row(h, s) \in Req \cup {Nobody}
  BY DEF ClaimInv, Ledger, TypeOK, Row
<1>2. Row(h, s) \in Working(h)
  BY <1>1 DEF Working, Slot
<1> QED
  BY <1>1, <1>2 DEF ClaimInv, Place

(* A row that leaves the queue is dispatched for the first time. *)
LEMMA PumpShown ==
  ASSUME TypeOK, ClaimInv, NEW h \in Host, Pump(h)
  PROVE  UNCHANGED ran \/ \E q \in Req : Board!Dispatch(q)
<1>1. CASE UNCHANGED ran
  BY <1>1
<1>2. CASE queue[h] # <<>> /\ ran' = [ran EXCEPT ![Head(queue[h])] = @ + 1]
  <2> DEFINE q == Head(queue[h])
  <2>1. q \in Req /\ q \in Queued(h)
    <3>1. queue[h] \in Seq(Req) /\ queue[h] # <<>>
      BY <1>2 DEF TypeOK
    <3>2. Len(queue[h]) \in Nat /\ Len(queue[h]) > 0 /\ q = queue[h][1] /\ q \in Req
      BY <3>1
    <3> QED
      BY <3>2 DEF Queued
  <2>2. ran[q] = 0 /\ ~Open(q)
    BY <2>1 DEF ClaimInv, Place, Waiting
  <2>3. OwnerSees[q] \notin {"unsent", "pending"}
    BY <2>1, <2>2 DEF OwnerSees, Shown, Open
  <2>4. ran' = [ran EXCEPT ![q] = 1]
    BY <1>2, <2>2
  <2>5. Board!Dispatch(q)
    BY <2>2, <2>3, <2>4 DEF Board!Dispatch
  <2> QED
    BY <2>1, <2>5
<1> QED
  BY <1>1, <1>2 DEF Pump

LEMMA FinishShown ==
  ASSUME TypeOK, ClaimInv, NEW h \in Host, NEW s \in Slot, Finish(h, s)
  PROVE  UNCHANGED ran \/ \E q \in Req : Board!Dispatch(q)
BY PumpShown DEF Finish

LEMMA BoardStep ==
  ASSUME TypeOK, ClaimInv, [Next]_vars
  PROVE  Board!Next \/ UNCHANGED <<OwnerSees, ran>>
<1> USE DEF rows, hosts, claim, tracker, jobs, recovery
<1>1. CASE UNCHANGED <<status, ran>>
  BY <1>1 DEF OwnerSees
<1>2. ASSUME NEW r \in Req, Submit(r) PROVE Board!Next
  <2>1. OwnerSees[r] = "unsent" /\ OwnerSees' = [OwnerSees EXCEPT ![r] = "pending"]
    BY <1>2 DEF Submit, OwnerSees, Shown, TypeOK
  <2> QED
    BY <1>2, <2>1 DEF Submit, Board!Submit, Board!Next
<1>3. ASSUME NEW h \in Host, Claim(h) PROVE Board!Next
  <2>1. PICK S \in SUBSET {r \in Req : status[r] = "pending"} :
          status' = [r \in Req |-> IF r \in S THEN "claimed" ELSE status[r]]
    BY <1>3 DEF Claim
  <2>2. \A r \in S : OwnerSees[r] = "pending"
    BY DEF OwnerSees, Shown
  <2>3. OwnerSees' = [r \in Req |-> IF r \in S THEN "taken" ELSE OwnerSees[r]]
    BY <2>1 DEF OwnerSees, Shown
  <2>4. Board!Take(S)
    BY <1>3, <2>2, <2>3 DEF Claim, Board!Take
  <2> QED
    BY <2>4 DEF Board!Next
<1>4. ASSUME NEW h \in Host, EndOffer(h) \/ EndDrive(h) PROVE Board!Next
  <2>1. UNCHANGED OwnerSees
    BY <1>4 DEF EndOffer, OfferRuns, EndDrive, OwnerSees
  <2>2. UNCHANGED ran \/ \E q \in Req : Board!Dispatch(q)
    BY <1>4, PumpShown, FinishShown DEF EndOffer, OfferRuns, EndDrive, Slot
  <2> QED
    BY <2>1, <2>2 DEF Board!Next, Board!Progress
<1>5. ASSUME NEW h \in Host, NEW r \in Req, OfferCancel(h, r) PROVE Board!Next
  <2>1. r \in Waiting(h)
    BY <1>5 DEF OfferCancel, OffersNext, OfferRuns, Waiting
  <2>2. ran[r] = 0 /\ ~Open(r)
    BY <2>1 DEF ClaimInv, Place
  <2>3. OwnerSees[r] \notin {"unsent", "pending"}
    BY <2>2 DEF OwnerSees, Shown, Open
  <2>4. Board!Dispatch(r) /\ UNCHANGED OwnerSees
    BY <1>5, <2>2, <2>3 DEF OfferCancel, Board!Dispatch, OwnerSees
  <2> QED
    BY <2>4 DEF Board!Next, Board!Progress
<1>6. ASSUME NEW h \in Host, NEW s \in Slot, Handle(h, s) \/ FailSafely(h, s)
      PROVE  Board!Next
  <2>1. Row(h, s) \in Req /\ ran[Row(h, s)] = 1
    BY <1>6, WorkedOnRan DEF Handle, FailSafely, At, Busy
  <2>2. UNCHANGED OwnerSees \/ \E r \in Req : Board!Answer(r)
    <3>1. CASE UNCHANGED status
      BY <3>1 DEF OwnerSees
    <3>2. CASE \E a \in {"completed", "failed"} : Settle(Row(h, s), a)
      BY <2>1, <3>2, SettleShown DEF Answer
    <3> QED
      BY <1>6, <3>1, <3>2 DEF Handle, FailSafely
  <2>3. UNCHANGED ran \/ \E q \in Req : Board!Dispatch(q)
    BY <1>6, FinishShown DEF Handle, FailSafely
  <2> QED
    BY <2>2, <2>3 DEF Board!Next, Board!Progress
<1>7. ASSUME NEW h \in Host, NEW s \in Slot, Throw(h, s) \/ (Approve(h) /\ s = "job")
      PROVE  Board!Next
  <2>1. Row(h, s) \in Req /\ ran[Row(h, s)] = 1
    BY <1>7, WorkedOnRan DEF Throw, Approve, At, Busy
  <2>2. UNCHANGED OwnerSees \/ \E r \in Req : Board!Answer(r)
    <3>1. CASE UNCHANGED status
      BY <3>1 DEF OwnerSees
    <3>2. CASE Settle(Row(h, s), "completed")
      BY <2>1, <3>2, SettleShown DEF Answer
    <3> QED
      BY <1>7, <3>1, <3>2 DEF Throw, Approve
  <2>3. UNCHANGED ran
    BY <1>7 DEF Throw, Approve
  <2> QED
    BY <2>2, <2>3 DEF Board!Next, Board!Progress
<1>8. ASSUME NEW h \in Host, NEW r \in Req, FailLost(h, r) \/ FailOrphan(h, r)
      PROVE  Board!Next
  <2>1. UNCHANGED OwnerSees \/ Board!Answer(r)
    BY <1>8, SettleShown DEF FailLost, FailOrphan, Answer
  <2>2. UNCHANGED ran
    BY <1>8 DEF FailLost, FailOrphan
  <2> QED
    BY <2>1, <2>2 DEF Board!Next, Board!Progress
<1>9. \/ UNCHANGED <<status, ran>>
      \/ \E r \in Req : Submit(r)
      \/ \E h \in Host : Claim(h) \/ EndOffer(h) \/ EndDrive(h)
      \/ \E h \in Host, r \in Req : OfferCancel(h, r)
      \/ \E h \in Host, s \in Slot : Handle(h, s) \/ FailSafely(h, s)
      \/ \E h \in Host, s \in Slot : Throw(h, s) \/ (Approve(h) /\ s = "job")
      \/ \E h \in Host, r \in Req : FailLost(h, r) \/ FailOrphan(h, r)
  <2>1. "job" \in Slot
    BY DEF Slot
  <2> QED
    BY <2>1, Stepped DEF vars, Age, Start, Publish, Expire, Stop, Exit, LoseAnswer, EndNotice,
       Receive, OfferPoisoned, OfferJob, Sweep, Judge, LostCallFails, SweepCallFails
<1> QED
  BY <1>1, <1>2, <1>3, <1>4, <1>5, <1>6, <1>7, <1>8, <1>9

(* The detailed system implements the owner's board: for any hosts, dying,   *)
(* silent or slow, and whatever calls are lost, the owner sees each request  *)
(* taken once, dispatched at most once, and answered once.                   *)
THEOREM BoardImplemented == Spec => ImplementsBoard
<1>1. Init => Board!Init
  BY DEF Init, Board!Init, OwnerSees, Shown
<1>2. TypeOK /\ ClaimInv /\ [Next]_vars => [Board!Next]_(Board!board)
  BY BoardStep DEF Board!board
<1> QED
  BY <1>1, <1>2, ClaimInvariant, PTL DEF Spec, Safety, ImplementsBoard, Board!Spec
=============================================================================
