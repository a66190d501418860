---------------------------- MODULE RequestBoard ----------------------------
(***************************************************************************)
(* What control requests promise the owner who inserts them, whatever      *)
(* hosts serve them: a request is taken once, dispatched at most once, and *)
(* gets one answer, which stays.  An answer that says what became of the   *)
(* request ("served") comes only after it was dispatched; any taken one    *)
(* may be given up instead.  Instances, batches, queues, slots and         *)
(* recoveries do not show here: RequestClaims implements this board.       *)
(***************************************************************************)
EXTENDS Naturals

CONSTANT Req  \* the requests

VARIABLES
  row,  \* of each request: "unsent", "pending", "taken", "served" or "given up"
  ran   \* how often it was dispatched

board == <<row, ran>>

Init == row = [r \in Req |-> "unsent"] /\ ran = [r \in Req |-> 0]

Submit(r) ==
  /\ row[r] = "unsent"
  /\ row' = [row EXCEPT ![r] = "pending"]
  /\ UNCHANGED ran

(* A claim takes some pending requests together. *)
Take(S) ==
  /\ \A r \in S : row[r] = "pending"
  /\ row' = [r \in Req |-> IF r \in S THEN "taken" ELSE row[r]]
  /\ UNCHANGED ran

(* A taken request is dispatched, even one that was given up meanwhile. *)
Dispatch(r) ==
  /\ row[r] \notin {"unsent", "pending"} /\ ran[r] = 0
  /\ ran' = [ran EXCEPT ![r] = 1]

Answer(r) ==
  /\ row[r] = "taken"
  /\ row' = [row EXCEPT ![r] = "given up"]
     \/ (ran[r] = 1 /\ row' = [row EXCEPT ![r] = "served"])

(* The end of one request's handler may be the start of the next one's. *)
Progress ==
  /\ (\E r \in Req : Answer(r)) \/ UNCHANGED row
  /\ (\E r \in Req : Dispatch(r)) \/ UNCHANGED ran

Next == (\E r \in Req : Submit(r)) \/ (\E S \in SUBSET Req : Take(S)) \/ Progress

Spec == Init /\ [][Next]_board
=============================================================================
