--------------------------- MODULE MCApplyCandidate ---------------------------
(* Instances of ApplyCandidate for TLC. *)
EXTENDS ApplyCandidate

OneOfEach == <<"modify", "add", "delete">>
=============================================================================
