------------------------------ MODULE MCEngine ------------------------------
(* Instances of Engine for TLC: two profiles; the sessions are numbered in   *)
(* the order they start, so only callers and keys are interchangeable.       *)
EXTENDS Engine, TLC

Symmetry == Permutations(Callers) \cup Permutations(Keys)
=============================================================================
