------------------------------ MODULE MCClient ------------------------------
(* Instances of Client for TLC. Goroutines of one kind are interchangeable,  *)
(* but only the safety runs use the symmetry: it is not sound for liveness.  *)
EXTENDS Client, TLC

Symmetry ==
    Permutations(Connectors) \cup Permutations(Stoppers)
        \cup Permutations(Readers)
=============================================================================
