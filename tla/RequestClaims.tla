---------------------------- MODULE RequestClaims ----------------------------
(***************************************************************************)
(* Control requests and the host instances that serve them                 *)
(* (agent-host/control: supabaseControl.ts, requestPump.ts, lostClaims.ts, *)
(* orphanClaims.ts, and the part of worker.ts that wires them).  A request *)
(* is a row the browser inserts; an instance claims pending rows, holds    *)
(* what the answer names, handles cancellations at once and everything     *)
(* else in one background slot, and answers each row.  Answers of the      *)
(* database get lost, calls fail, instances stop and die: rows an instance *)
(* lost track of it fails as lost, rows of a silent instance are failed by *)
(* another one as orphaned.  Every call is a step of its own.              *)
(***************************************************************************)
EXTENDS Naturals, Sequences

CONSTANTS
  Req,       \* the requests the browser may insert
  MayCancel, \* those that may turn out to be of type cancel_run
  Host,      \* host instances of this organisation and repository, each started once
  Mortal,    \* the instances that may stop or die: one that may not serves to the end
  Silent,    \* the live instances that may fail to publish their presence for a while
  Nobody     \* claimed_by_host of an unclaimed row; the row of an empty slot

ASSUME CancelAssumption == MayCancel \subseteq Req
ASSUME HostAssumption   == Mortal \subseteq Host /\ Silent \subseteq Host
ASSUME NobodyAssumption == Nobody \notin Req \cup Host

VARIABLES
  status,   \* each row's status, with the reason for which it failed
  claimer,  \* claimed_by_host
  cancels,  \* the rows of type cancel_run
  old,      \* rows claimed longer ago than both thresholds (120 s)
  fresh,    \* instances whose presence is younger than HEARTBEAT_STALE_MS
  life,     \* of each instance: "off", "up", "stopping" (running = false), "down"
  flight,   \* rows of the claim that awaits its answer, per instance
  held,     \* the HeldRequestTracker's held ...
  poisoned, \* ... and poisoned sets
  offering, \* instances whose loop is inside offer() ...
  notice,   \* ... those of them that await the notice that a row is queued
  batch,    \* rows offer() has not come to
  queue,    \* ControlRequestScheduler.queue
  work,     \* the request handled inline, and the active job: row and stage
  lostCall, \* failRequest calls of recoverLostClaims under way
  sweep,    \* failRequest calls of sweepOrphanClaims under way
  ran       \* history: how often each request was dispatched

rows     == <<status, claimer, cancels, old>>
hosts    == <<fresh, life>>
claim    == <<flight, offering, notice, batch>>
tracker  == <<held, poisoned>>
jobs     == <<queue, work, ran>>
recovery == <<lostCall, sweep>>
vars == <<status, claimer, cancels, old, fresh, life, flight, held, poisoned, offering,
          notice, batch, queue, work, lostCall, sweep, ran>>

Answer == {"completed", "failed", "lost", "orphaned"}
Status == {"unsent", "pending", "claimed"} \cup Answer
Life   == {"off", "up", "stopping", "down"}
Slot   == {"inline", "job"}
Stage  == {"idle", "work", "failing", "drive"}

Alive(h)      == life[h] \in {"up", "stopping"}
Idle          == [row |-> Nobody, stage |-> "idle"]
Begun(r)      == [row |-> r, stage |-> "work"]
Busy(h, s)    == work[h][s].stage # "idle"
Claimed(r, h) == status[r] = "claimed" /\ claimer[r] = h
Queued(h)     == {queue[h][i] : i \in 1 .. Len(queue[h])}
Row(h, s)     == work[h][s].row
Working(h)    == {Row(h, "inline"), Row(h, "job")} \ {Nobody}
InHand(h)     == batch[h] \cup Queued(h) \cup Working(h)
Answered(r)   == status[r] \in Answer

(* offer() runs, and nothing else of its process can until it awaits.        *)
OfferRuns(h) == h \in offering /\ h \notin notice /\ ~Busy(h, "inline")

TypeOK ==
  /\ status \in [Req -> Status]
  /\ claimer \in [Req -> Host \cup {Nobody}]
  /\ cancels \subseteq Req /\ old \subseteq Req
  /\ fresh \subseteq Host
  /\ life \in [Host -> Life]
  /\ offering \subseteq Host /\ notice \subseteq Host
  /\ flight \in [Host -> SUBSET Req] /\ batch \in [Host -> SUBSET Req]
  /\ held \in [Host -> SUBSET Req] /\ poisoned \in [Host -> SUBSET Req]
  /\ lostCall \in [Host -> SUBSET Req] /\ sweep \in [Host -> SUBSET Req]
  /\ queue \in [Host -> Seq(Req)]
  /\ work \in [Host -> [Slot -> [row : Req \cup {Nobody}, stage : Stage]]]
  /\ ran \in [Req -> Nat]

Init ==
  /\ status = [r \in Req |-> "unsent"]
  /\ claimer = [r \in Req |-> Nobody]
  /\ cancels = {} /\ old = {} /\ fresh = {} /\ offering = {} /\ notice = {}
  /\ life = [h \in Host |-> "off"]
  /\ flight = [h \in Host |-> {}]
  /\ held = [h \in Host |-> {}]
  /\ poisoned = [h \in Host |-> {}]
  /\ batch = [h \in Host |-> {}]
  /\ queue = [h \in Host |-> <<>>]
  /\ work = [h \in Host |-> [s \in Slot |-> Idle]]
  /\ lostCall = [h \in Host |-> {}]
  /\ sweep = [h \in Host |-> {}]
  /\ ran = [r \in Req |-> 0]

-----------------------------------------------------------------------------
(* Operations of the database. *)

Add(f, h, S)    == [f EXCEPT ![h] = @ \cup S]
Remove(f, h, S) == [f EXCEPT ![h] = @ \ S]

(* Fault: the update does not ask for status = 'claimed'. *)
Settle_unguarded(r, answer) == status' = [status EXCEPT ![r] = answer]

(* completeRequest and failRequest update only a row that is still claimed;  *)
(* they do not look at who claimed it, and a row they miss is no error.      *)
Settle(r, answer) ==
  status' = [status EXCEPT ![r] = IF @ = "claimed" THEN answer ELSE @]

(* The browser inserts a request, a cancellation or one of any other type. *)
Submit(r) ==
  /\ status[r] = "unsent"
  /\ status' = [status EXCEPT ![r] = "pending"]
  /\ cancels' \in {cancels, cancels \cup ({r} \cap MayCancel)}
  /\ UNCHANGED <<claimer, old, hosts, claim, tracker, jobs, recovery>>

(* Time passes the two thresholds for a claimed row. *)
Age(r) ==
  /\ status[r] = "claimed" /\ r \notin old
  /\ old' = old \cup {r}
  /\ UNCHANGED <<status, claimer, cancels, hosts, claim, tracker, jobs, recovery>>

-----------------------------------------------------------------------------
(* An instance starts: it publishes its presence before it claims. *)
Start(h) ==
  /\ life[h] = "off"
  /\ life' = [life EXCEPT ![h] = "up"]
  /\ fresh' = fresh \cup {h}
  /\ UNCHANGED <<rows, claim, tracker, jobs, recovery>>

Publish(h) ==
  /\ life[h] = "up" /\ h \notin fresh
  /\ fresh' = fresh \cup {h}
  /\ UNCHANGED <<rows, life, claim, tracker, jobs, recovery>>

(* Nothing was published for HEARTBEAT_STALE_MS: the instance is gone, or    *)
(* its calls fail, or its machine sleeps.                                    *)
Expire(h) ==
  /\ h \in fresh /\ (life[h] = "up" => h \in Silent)
  /\ fresh' = fresh \ {h}
  /\ UNCHANGED <<rows, life, claim, tracker, jobs, recovery>>

(* shutdown: no claim, no timer and no job begins any more. *)
Stop(h) ==
  /\ life[h] = "up" /\ h \in Mortal /\ ~OfferRuns(h)
  /\ life' = [life EXCEPT ![h] = "stopping"]
  /\ UNCHANGED <<rows, fresh, claim, tracker, jobs, recovery>>

(* The process ends and its memory with it; calls already sent may arrive. *)
Exit(h) ==
  /\ Alive(h) /\ h \in Mortal
  /\ life' = [life EXCEPT ![h] = "down"]
  /\ flight' = [flight EXCEPT ![h] = {}]
  /\ offering' = offering \ {h} /\ notice' = notice \ {h}
  /\ batch' = [batch EXCEPT ![h] = {}]
  /\ held' = [held EXCEPT ![h] = {}]
  /\ poisoned' = [poisoned EXCEPT ![h] = {}]
  /\ queue' = [queue EXCEPT ![h] = <<>>]
  /\ work' = [work EXCEPT ![h] = [s \in Slot |-> Idle]]
  /\ UNCHANGED <<rows, fresh, ran, lostCall, sweep>>

-----------------------------------------------------------------------------
(* The claim loop. *)

(* Fault: a claim also returns the rows this instance has claimed before. *)
Claim_again(h) ==
  /\ life[h] = "up" /\ h \notin offering /\ flight[h] = {}
  /\ \E S \in SUBSET {r \in Req : status[r] = "pending" \/ Claimed(r, h)} \ {{}} :
       /\ status' = [r \in Req |-> IF r \in S THEN "claimed" ELSE status[r]]
       /\ claimer' = [r \in Req |-> IF r \in S THEN h ELSE claimer[r]]
       /\ flight' = [flight EXCEPT ![h] = S]
  /\ UNCHANGED <<cancels, old, hosts, offering, notice, batch, tracker, jobs, recovery>>

(* claim_agent_control_requests: one UPDATE of pending rows; the limit and   *)
(* rows locked by another claim (SKIP LOCKED) may leave some out.            *)
Claim(h) ==
  /\ life[h] = "up" /\ h \notin offering /\ flight[h] = {}
  /\ \E S \in SUBSET {r \in Req : status[r] = "pending"} \ {{}} :
       /\ status' = [r \in Req |-> IF r \in S THEN "claimed" ELSE status[r]]
       /\ claimer' = [r \in Req |-> IF r \in S THEN h ELSE claimer[r]]
       /\ flight' = [flight EXCEPT ![h] = S]
  /\ UNCHANGED <<cancels, old, hosts, offering, notice, batch, tracker, jobs, recovery>>

(* The answer never comes: the call is retried or given up, the rows stay    *)
(* claimed.                                                                  *)
LoseAnswer(h) ==
  /\ Alive(h) /\ flight[h] # {}
  /\ flight' = [flight EXCEPT ![h] = {}]
  /\ UNCHANGED <<rows, hosts, offering, notice, batch, tracker, jobs, recovery>>

(* Fault: the rows of an answer are not held on receipt. *)
Receive_unheld(h) ==
  /\ Alive(h) /\ flight[h] # {}
  /\ batch' = [batch EXCEPT ![h] = flight[h]]
  /\ flight' = [flight EXCEPT ![h] = {}]
  /\ offering' = offering \cup {h}
  /\ UNCHANGED <<rows, hosts, notice, tracker, jobs, recovery>>

(* The answer comes, however late and even after a stop: offer() holds every *)
(* row of it before it looks at the first.                                   *)
Receive(h) ==
  /\ Alive(h) /\ flight[h] # {}
  /\ held' = Add(held, h, flight[h])
  /\ batch' = [batch EXCEPT ![h] = flight[h]]
  /\ flight' = [flight EXCEPT ![h] = {}]
  /\ offering' = offering \cup {h}
  /\ UNCHANGED <<rows, hosts, notice, poisoned, jobs, recovery>>

-----------------------------------------------------------------------------
(* The scheduler: offer, pump, runJob. *)

(* offer() comes to its next row. *)
OffersNext(h, r) == Alive(h) /\ OfferRuns(h) /\ r \in batch[h]

(* Fault: a dropped row stays in the held set. *)
OfferPoisoned_kept(h, r) ==
  /\ OffersNext(h, r) /\ r \in poisoned[h]
  /\ batch' = Remove(batch, h, {r})
  /\ UNCHANGED <<rows, hosts, flight, offering, notice, tracker, jobs, recovery>>

OfferPoisoned(h, r) ==
  /\ OffersNext(h, r) /\ r \in poisoned[h]
  /\ batch' = Remove(batch, h, {r})
  /\ held' = Remove(held, h, {r})
  /\ UNCHANGED <<rows, hosts, flight, offering, notice, poisoned, jobs, recovery>>

(* Fault: a cancellation waits in the queue like any other request. *)
OfferCancel_queued(h, r) ==
  /\ OffersNext(h, r) /\ r \notin poisoned[h] /\ r \in cancels
  /\ batch' = Remove(batch, h, {r})
  /\ queue' = [queue EXCEPT ![h] = Append(@, r)]
  /\ UNCHANGED <<rows, hosts, flight, offering, notice, tracker, work, ran, recovery>>

OfferCancel(h, r) ==
  /\ OffersNext(h, r) /\ r \notin poisoned[h] /\ r \in cancels
  /\ batch' = Remove(batch, h, {r})
  /\ work' = [work EXCEPT ![h]["inline"] = Begun(r)]
  /\ ran' = [ran EXCEPT ![r] = @ + 1]
  /\ UNCHANGED <<rows, hosts, flight, offering, notice, tracker, queue, recovery>>

(* A row that has to wait gets its notice published before the next is looked *)
(* at.                                                                        *)
OfferJob(h, r) ==
  /\ OffersNext(h, r) /\ r \notin poisoned[h] /\ r \notin cancels
  /\ batch' = Remove(batch, h, {r})
  /\ queue' = [queue EXCEPT ![h] = Append(@, r)]
  /\ notice' = IF Busy(h, "job") \/ queue[h] # <<>> THEN notice \cup {h} ELSE notice
  /\ UNCHANGED <<rows, hosts, flight, offering, tracker, work, ran, recovery>>

(* Published or not. *)
EndNotice(h) ==
  /\ Alive(h) /\ h \in notice
  /\ notice' = notice \ {h}
  /\ UNCHANGED <<rows, hosts, flight, offering, batch, tracker, jobs, recovery>>

(* The free slot takes the first row of the queue, unless the instance stops. *)
Pump(h) ==
  \/ /\ life[h] = "up" /\ queue[h] # <<>>
     /\ work' = [work EXCEPT ![h]["job"] = Begun(Head(queue[h]))]
     /\ ran' = [ran EXCEPT ![Head(queue[h])] = @ + 1]
     /\ queue' = [queue EXCEPT ![h] = Tail(@)]
  \/ /\ life[h] # "up" \/ queue[h] = <<>>
     /\ work' = [work EXCEPT ![h]["job"] = Idle]
     /\ UNCHANGED <<queue, ran>>

(* offer() is past its last row, and pumps. *)
EndOffer(h) ==
  /\ Alive(h) /\ OfferRuns(h) /\ batch[h] = {}
  /\ offering' = offering \ {h}
  /\ \/ Busy(h, "job") /\ UNCHANGED jobs
     \/ ~Busy(h, "job") /\ Pump(h)
  /\ UNCHANGED <<rows, hosts, flight, notice, batch, tracker, recovery>>

At(h, s, stage) == Alive(h) /\ ~OfferRuns(h) /\ work[h][s].stage = stage
Goto(h, s, stage) ==
  work' = [work EXCEPT ![h][s] = [row |-> Row(h, s), stage |-> stage]]

(* Fault: the end of a job frees the slot and leaves the queue alone. *)
Finish_noPump(h, s) ==
  /\ held' = Remove(held, h, {Row(h, s)})
  /\ work' = [work EXCEPT ![h][s] = Idle]
  /\ UNCHANGED <<queue, ran>>

(* Fault: the row is not released. *)
Finish_held(h, s) ==
  /\ \/ s = "job" /\ Pump(h)
     \/ s = "inline" /\ work' = [work EXCEPT ![h][s] = Idle] /\ UNCHANGED <<queue, ran>>
  /\ UNCHANGED held

(* finally: the row is released, and the slot of a job pumped. *)
Finish(h, s) ==
  /\ held' = Remove(held, h, {Row(h, s)})
  /\ \/ s = "job" /\ Pump(h)
     \/ s = "inline" /\ work' = [work EXCEPT ![h][s] = Idle] /\ UNCHANGED <<queue, ran>>

(* The handler returns.  It has answered the row, unless the answer failed   *)
(* and the handler let that pass (gateRestartRequiredRequest).               *)
Handle(h, s) ==
  /\ At(h, s, "work")
  /\ (\E a \in {"completed", "failed"} : Settle(Row(h, s), a)) \/ UNCHANGED status
  /\ Finish(h, s)
  /\ UNCHANGED <<claimer, cancels, old, hosts, claim, poisoned, recovery>>

(* approve_plan is answered before its Run is driven, in the same slot. *)
Approve(h) ==
  /\ At(h, "job", "work")
  /\ Settle(Row(h, "job"), "completed")
  /\ Goto(h, "job", "drive")
  /\ UNCHANGED <<claimer, cancels, old, hosts, claim, tracker, queue, ran, recovery>>

EndDrive(h) ==
  /\ At(h, "job", "drive")
  /\ Finish(h, "job")
  /\ UNCHANGED <<rows, hosts, claim, poisoned, recovery>>

(* The handler throws, perhaps because the return of its answer was lost. *)
Throw(h, s) ==
  /\ At(h, s, "work")
  /\ Settle(Row(h, s), "completed") \/ UNCHANGED status
  /\ Goto(h, s, "failing")
  /\ UNCHANGED <<claimer, cancels, old, hosts, claim, tracker, queue, ran, recovery>>

(* REQUEST_HANDLER_FAILED, if that call does not fail as well. *)
FailSafely(h, s) ==
  /\ At(h, s, "failing")
  /\ Settle(Row(h, s), "failed") \/ UNCHANGED status
  /\ Finish(h, s)
  /\ UNCHANGED <<claimer, cancels, old, hosts, claim, poisoned, recovery>>

-----------------------------------------------------------------------------
(* recoverLostClaims, every LOST_CLAIM_CHECK_INTERVAL_MS; a slow one may     *)
(* overlap the next.  Listing is one with judging: a row that is answered    *)
(* between the two is one its failRequest misses, poisoned to no effect.     *)

LostClaim(h, r) == Claimed(r, h) /\ r \notin held[h] /\ r \in old

Judge(h, r) ==
  /\ Alive(h) /\ ~OfferRuns(h) /\ LostClaim(h, r) /\ r \notin lostCall[h]
  /\ lostCall' = Add(lostCall, h, {r})
  /\ UNCHANGED <<rows, hosts, claim, tracker, jobs, sweep>>

(* onRecovered poisons the row, whether or not it was still claimed; unless  *)
(* the return is lost, or the instance is gone.                              *)
FailLost(h, r) ==
  /\ r \in lostCall[h]
  /\ Settle(r, "lost")
  /\ lostCall' = Remove(lostCall, h, {r})
  /\ \/ UNCHANGED poisoned
     \/ Alive(h) /\ ~OfferRuns(h) /\ poisoned' = Add(poisoned, h, {r})
  /\ UNCHANGED <<claimer, cancels, old, hosts, claim, held, jobs, sweep>>

(* onError: the retries are spent. *)
LostCallFails(h, r) ==
  /\ r \in lostCall[h]
  /\ lostCall' = Remove(lostCall, h, {r})
  /\ UNCHANGED <<rows, hosts, claim, tracker, jobs, sweep>>

-----------------------------------------------------------------------------
(* sweepOrphanClaims, at the start and every ORPHAN_SWEEP_INTERVAL_MS. *)

Orphans(h) == {r \in old : status[r] = "claimed" /\ claimer[r] \notin fresh \cup {h}}

Sweep(h) ==
  /\ life[h] = "up" /\ ~OfferRuns(h) /\ ~(Orphans(h) \subseteq sweep[h])
  /\ sweep' = Add(sweep, h, Orphans(h))
  /\ UNCHANGED <<rows, hosts, claim, tracker, jobs, lostCall>>

FailOrphan(h, r) ==
  /\ r \in sweep[h]
  /\ Settle(r, "orphaned")
  /\ sweep' = Remove(sweep, h, {r})
  /\ UNCHANGED <<claimer, cancels, old, hosts, claim, tracker, jobs, lostCall>>

SweepCallFails(h, r) ==
  /\ r \in sweep[h]
  /\ sweep' = Remove(sweep, h, {r})
  /\ UNCHANGED <<rows, hosts, claim, tracker, jobs, lostCall>>

-----------------------------------------------------------------------------
(* The claim loop of a live instance goes on: a claim is answered or fails,   *)
(* offer() comes to its rows and handles the cancellations among them.        *)
OfferStep(h, r) == OfferPoisoned(h, r) \/ OfferCancel(h, r) \/ OfferJob(h, r)
SlotStep(h, s)  == Handle(h, s) \/ Throw(h, s) \/ FailSafely(h, s)
LoopStep(h) ==
  \/ Claim(h) \/ LoseAnswer(h) \/ Receive(h) \/ EndNotice(h) \/ EndOffer(h)
  \/ SlotStep(h, "inline")
  \/ \E r \in Req : OfferStep(h, r)

ProcessStep(h) == Start(h) \/ Publish(h) \/ Expire(h) \/ Stop(h) \/ Exit(h)
JobStep(h)     == SlotStep(h, "job") \/ Approve(h) \/ EndDrive(h)
RecoveryStep(h, r) ==
  \/ Judge(h, r) \/ FailLost(h, r) \/ LostCallFails(h, r)
  \/ FailOrphan(h, r) \/ SweepCallFails(h, r)

Next ==
  \/ \E r \in Req : Submit(r) \/ Age(r)
  \/ \E h \in Host : ProcessStep(h) \/ LoopStep(h) \/ JobStep(h) \/ Sweep(h)
  \/ \E h \in Host, r \in Req : RecoveryStep(h, r)

(* Handlers end, because their calls and the planner have time limits; the    *)
(* drive of a Run need not.  The timers go on.                                *)
Works(h) ==
  /\ WF_vars(LoopStep(h)) /\ WF_vars(SlotStep(h, "job"))
  /\ WF_vars(Sweep(h)) /\ WF_vars(\E r \in Req : Judge(h, r))

(* The operator starts an instance; one that stops exits; the presence of one *)
(* that is gone runs out; time passes.  Each of these happens once.           *)
Surroundings ==
  /\ \A h \in Host :
       WF_vars(\/ Start(h)
               \/ life[h] = "stopping" /\ Exit(h)
               \/ life[h] = "down" /\ Expire(h))
  /\ WF_vars(\E r \in Req : Age(r))

(* The database does not refuse the calls of the recoveries forever. *)
RecoveryCall ==
  \E h \in Host, r \in Req : Alive(h) /\ (FailLost(h, r) \/ FailOrphan(h, r))

Safety == Init /\ [][Next]_vars
Spec == /\ Safety
        /\ Surroundings
        /\ \A h \in Host : Works(h)
        /\ SF_vars(RecoveryCall)

-----------------------------------------------------------------------------
(* No request is dispatched twice, by one instance or by two, whatever       *)
(* answers are lost: neither a retried claim nor a recovery runs it again.   *)
AtMostOnce == \A r \in Req : ran[r] <= 1

(* The tracker holds exactly the rows the instance has been given and has    *)
(* not finished: a row it forgot would be failed under its handler, a row it *)
(* kept would never be recovered.                                            *)
HeldInHand == \A h \in Host : held[h] = InHand(h)

(* The slot never rests on a queue: whenever offer() is not at work, a       *)
(* running instance with queued rows has an active job that will pump.       *)
NeverIdle ==
  \A h \in Host : life[h] = "up" /\ h \notin offering /\ queue[h] # <<>> => Busy(h, "job")

(* A request that has its answer keeps it: neither the handler, nor the      *)
(* recovery, nor the sweep of another instance, whose calls may arrive late, *)
(* replaces what the owner was told.                                         *)
AnswerStands == [][\A r \in Req : Answered(r) => status'[r] = status[r]]_vars

(* The recovery never sets out to fail a row its instance still has in hand, *)
(* however long the job ahead of it takes.                                   *)
QueuedNotLost ==
  [][\A h \in Host : (lostCall'[h] \ lostCall[h]) \cap InHand(h) = {}]_vars

(* What requestPump.ts and lostClaims.ts say of a poisoned row: it is never  *)
(* dispatched, even if it appears in a batch after all because the answer of *)
(* its claim came late.                                                      *)
PoisonedNeverDispatched ==
  [][\A h \in Host : \A r \in poisoned[h] : ran'[r] = ran[r]]_vars

(* Every request is answered in the end, or waits in the queue of an         *)
(* instance whose slot drives a Run.  It is asked of the rows that are no    *)
(* cancellation in any behaviour; one that only may be, and is not, can      *)
(* change places with them.                                                  *)
WaitsForDrive(r) == \E h \in Host : r \in Queued(h) /\ work[h]["job"].stage = "drive"
Answers ==
  \A r \in Req \ MayCancel : status[r] = "pending" ~> Answered(r) \/ WaitsForDrive(r)

(* A cancellation is answered whatever occupies the slot. *)
CancelAnswered ==
  \A r \in MayCancel : r \in cancels /\ status[r] = "pending" ~> Answered(r)

(* The refinement: the owner's board, on which a request answered by its     *)
(* handler is served and one failed by a recovery is given up.               *)
Shown(s) == IF s = "claimed" THEN "taken"
            ELSE IF s \in {"completed", "failed"} THEN "served"
            ELSE IF s \in {"lost", "orphaned"} THEN "given up" ELSE s
OwnerSees == [r \in Req |-> Shown(status[r])]
Board == INSTANCE RequestBoard WITH row <- OwnerSees

(* Instances with their batches, queues, slots, lost answers, recoveries and *)
(* deaths show the owner nothing but that board: taken once, dispatched at   *)
(* most once, one answer, and "completed" or "failed" by a handler only for  *)
(* a request that was dispatched.                                            *)
ImplementsBoard == Board!Spec
=============================================================================
