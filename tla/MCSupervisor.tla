---------------------------- MODULE MCSupervisor ----------------------------
(* Instances of Supervisor for TLC. *)
EXTENDS Supervisor

MCTask == {1, 2, 3}
TwoTasks == {1, 2}

(* Both kinds of budget: one attempt, the default, and a retry. *)
MCMaxAttempts == [t \in Task |-> IF t = 2 THEN 1 ELSE 2]

(* A task two others wait for, one that waits for two, a cycle. *)
MCPlans == {{<<2, 1>>, <<3, 1>>}, {<<1, 3>>, <<2, 3>>}, {<<1, 2>>, <<2, 1>>}}
OnePlan == {{<<2, 1>>}}
TwoPlans == OnePlan \cup {{<<1, 2>>, <<2, 1>>}}
=============================================================================
