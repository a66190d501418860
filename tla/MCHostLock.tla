----------------------------- MODULE MCHostLock -----------------------------
(* HostLock for TLC: any two contenders, or any two ghosts, are interchangeable. *)
EXTENDS HostLock, TLC

Symmetry == Permutations(Proc) \cup Permutations(Ghost)
=============================================================================
