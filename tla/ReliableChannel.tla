-------------------------- MODULE ReliableChannel --------------------------
(***************************************************************************)
(* What the control channel promises to the SSL layer and to KeyContext,   *)
(* whatever the network does: each peer reads the messages of the other,   *)
(* each one once, in the order they were sent.                             *)
(***************************************************************************)
EXTENDS Naturals, Sequences

CONSTANTS Peers,      \* the two ends
          Other(_)    \* the peer of a peer

VARIABLES sent,   \* messages each peer has given to the channel, in order
          got     \* messages each peer has read, in order

(* s is an initial part of t. *)
Prefix(s, t) ==
    /\ Len(s) <= Len(t)
    /\ \A i \in 1..Len(s) : s[i] = t[i]

Start ==
    /\ sent = [e \in Peers |-> <<>>]
    /\ got = [e \in Peers |-> <<>>]

(* One call into a peer: it may read more of what the other has sent, and    *)
(* send more.                                                                *)
Call(e) ==
    /\ Prefix(got[e], got'[e])
    /\ Prefix(got'[e], sent[Other(e)])
    /\ Prefix(sent[e], sent'[e])
    /\ \A f \in Peers \ {e} : got'[f] = got[f] /\ sent'[f] = sent[f]

Fifo == Start /\ [][\E e \in Peers : Call(e)]_<<sent, got>>
=============================================================================
