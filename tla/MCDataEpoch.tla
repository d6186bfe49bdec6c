----------------------------- MODULE MCDataEpoch -----------------------------
(* Instances of DataEpoch for TLC. *)
EXTENDS DataEpoch
=============================================================================
