----------------------------- MODULE MCReliable -----------------------------
(* Model-checking instances of Reliable. *)
EXTENDS Reliable

CONSTANTS MaxClient, MaxServer   \* messages of each peer, resets included

MCMaxMsgs == [e \in Peers |-> IF e = Client THEN MaxClient ELSE MaxServer]
=============================================================================
