------------------------- MODULE SnapshotPublisher -------------------------
(***************************************************************************)
(* Publishing a Run's snapshots (agent-host/control/snapshotPublisher.ts): *)
(* latest wins.  One snapshot of a Run is being sent at a time; a publish  *)
(* that arrives meanwhile fills the one pending slot, whose job reads the  *)
(* Run when it starts, not when it was published.  A snapshot is the       *)
(* number of the Run's state it was built from; the key is one Run.        *)
(***************************************************************************)
EXTENDS Naturals

VARIABLES
  pending,  \* a job waits in the pending slot
  inFlight, \* the snapshots being sent: the code lets there be one
  shown     \* the state the control plane shows: publishRunSnapshot upserts it

publisher == <<pending, inFlight, shown>>

PublisherInit == pending = FALSE /\ inFlight = {} /\ shown = 0

(* Fault: pump does not look whether a job is in flight. *)
publish_unpumped(now) ==
  inFlight' = inFlight \cup now /\ UNCHANGED <<pending, shown>>

(* publish: now is what the job would build, the empty set when building throws. *)
publish(now) ==
  /\ IF inFlight = {} THEN inFlight' = now /\ UNCHANGED pending
                      ELSE pending' = TRUE /\ UNCHANGED inFlight
  /\ UNCHANGED shown

(* Fault: the key is freed without a look at the pending slot. *)
Settled_forgetful(s, now, sent) ==
  /\ shown' = IF sent THEN s ELSE shown
  /\ inFlight' = inFlight \ {s}
  /\ pending' = FALSE

(* The job of snapshot s settles, with or without having been stored, and the *)
(* loop takes the pending job if there is one.                                *)
Settled(s, now, sent) ==
  /\ shown' = IF sent THEN s ELSE shown
  /\ inFlight' = (inFlight \ {s}) \cup (IF pending THEN now ELSE {})
  /\ pending' = FALSE
=============================================================================
