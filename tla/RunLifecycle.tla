---------------------------- MODULE RunLifecycle ----------------------------
(***************************************************************************)
(* What a Run promises the owner who approved its plan and may cancel it,  *)
(* whatever hosts drive it, die on it or are stopped under it:             *)
(*   - its plan is laid down while it is pending, and is fixed after that; *)
(*   - a task is tried only in a running Run, after what it depends on has *)
(*     passed, within its budget, and never again once it has passed;      *)
(*   - no try begins once the owner has asked for a cancellation, and the  *)
(*     Run then neither completes nor fails;                               *)
(*   - it completes when all its tasks have passed, waits only for a task  *)
(*     that was tried, and leaves that wait only cancelled;                *)
(*   - it is cancelled only when asked, or before anything was tried, and  *)
(*     once it has ended nothing of it changes.                            *)
(* Attempts, evidence, retries, ticks, sweeps and instances do not show    *)
(* here: Supervisor implements this lifecycle.                             *)
(***************************************************************************)
EXTENDS Naturals, TLAPS

CONSTANTS Task, MaxAttempts  \* the tasks, and how often each may be tried

VARIABLES
  status,   \* of the Run, "absent" before it is approved
  planned,  \* its tasks
  needs,    \* pairs <<t, d>>: t depends on d
  tries,    \* how often each task was tried
  passed,   \* the tasks that have passed
  asked     \* a cancellation was accepted

lifecycle == <<status, planned, needs, tries, passed, asked>>

Init ==
  /\ status = "absent"
  /\ planned = {} /\ needs = {} /\ passed = {}
  /\ tries = [t \in Task |-> 0]
  /\ asked = FALSE

Untried == \A t \in Task : tries[t] = 0

Becomes(new) == status' = new /\ UNCHANGED <<planned, needs, tries, passed, asked>>

Approve == status = "absent" /\ Becomes("pending")

Plan ==
  /\ status = "pending" /\ Untried
  /\ \/ \E t \in Task \ planned : planned' = planned \cup {t} /\ UNCHANGED needs
     \/ \E t, d \in planned : needs' = needs \cup {<<t, d>>} /\ UNCHANGED planned
  /\ UNCHANGED <<status, tries, passed, asked>>

Begin == status = "pending" /\ ~asked /\ Becomes("running")

Try(t) ==
  /\ status = "running" /\ ~asked
  /\ t \in planned \ passed /\ tries[t] < MaxAttempts[t]
  /\ \A d \in Task : <<t, d>> \in needs => d \in passed
  /\ tries' = [tries EXCEPT ![t] = @ + 1]
  /\ UNCHANGED <<status, planned, needs, passed, asked>>

Pass(t) ==
  /\ status = "running" /\ tries[t] > 0
  /\ passed' = passed \cup {t}
  /\ UNCHANGED <<status, planned, needs, tries, asked>>

(* A task waits for a human, and the Run with it. *)
Pause ==
  /\ status = "running" /\ \E t \in planned \ passed : tries[t] > 0
  /\ Becomes("paused")

Complete == status = "running" /\ ~asked /\ planned # {} /\ planned = passed /\ Becomes("completed")

Fail == status = "running" /\ ~asked /\ planned # passed /\ Becomes("failed")

AskToCancel ==
  /\ status \in {"pending", "running", "paused"}
  /\ asked' = TRUE
  /\ UNCHANGED <<status, planned, needs, tries, passed>>

Cancel ==
  /\ status \in {"pending", "running", "paused"}
  /\ asked \/ (status = "pending" /\ Untried)
  /\ Becomes("cancelled")

Next ==
  \/ Approve \/ Plan \/ Begin \/ Pause \/ Complete \/ Fail \/ AskToCancel \/ Cancel
  \/ \E t \in Task : Try(t) \/ Pass(t)

Spec == Init /\ [][Next]_lifecycle

-----------------------------------------------------------------------------
(* What follows of every reachable state of a Run: budgets hold; a task is *)
(* tried only after all it depends on; what passed was tried; a            *)
(* cancellation asked for beats completion and failure; a completed Run    *)
(* has passed whole; and nobody's Run is cancelled unasked, once any work  *)
(* was done.                                                               *)
Promise ==
  /\ \A t \in Task : tries[t] <= MaxAttempts[t]
  /\ \A t, d \in Task : <<t, d>> \in needs /\ tries[t] > 0 => d \in passed
  /\ \A t \in passed : tries[t] > 0
  /\ asked => status \notin {"completed", "failed"}
  /\ status = "completed" => planned = passed
  /\ status = "cancelled" => asked \/ Untried

Typed ==
  /\ tries \in [Task -> Nat]
  /\ planned \subseteq Task /\ passed \subseteq Task
  /\ asked \in BOOLEAN

(* Promise is inductive by itself, for any tasks and budgets. *)
THEOREM PromiseKept ==
  ASSUME MaxAttempts \in [Task -> Nat]
  PROVE  Spec => []Promise
<1>1. Init => Typed /\ Promise
  <2> SUFFICES ASSUME Init PROVE Typed /\ Promise
    OBVIOUS
  <2>1. Typed /\ \A t \in Task : tries[t] = 0
    BY DEF Init, Typed
  <2>2. \A t \in Task : tries[t] <= MaxAttempts[t]
    BY <2>1
  <2> QED
    BY <2>1, <2>2 DEF Init, Promise
<1>2. Typed /\ Promise /\ [Next]_lifecycle => (Typed /\ Promise)'
  <2> SUFFICES ASSUME Typed, Promise, [Next]_lifecycle PROVE (Typed /\ Promise)'
    OBVIOUS
  <2> USE DEF Typed, Promise, Becomes, Untried
  <2>1. CASE Approve \/ Begin \/ Pause
    BY <2>1 DEF Approve, Begin, Pause
  <2>2. CASE Plan
    BY <2>2 DEF Plan
  <2>3. CASE Complete \/ Fail \/ Cancel
    BY <2>3 DEF Complete, Fail, Cancel
  <2>4. CASE AskToCancel
    BY <2>4 DEF AskToCancel
  <2>5. ASSUME NEW t \in Task, Try(t) PROVE (Typed /\ Promise)'
    BY <2>5 DEF Try
  <2>6. ASSUME NEW t \in Task, Pass(t) PROVE (Typed /\ Promise)'
    BY <2>6 DEF Pass
  <2>7. CASE UNCHANGED lifecycle
    BY <2>7 DEF lifecycle
  <2> QED
    BY <2>1, <2>2, <2>3, <2>4, <2>5, <2>6, <2>7 DEF Next
<1> QED
  BY <1>1, <1>2, PTL DEF Spec
=============================================================================
