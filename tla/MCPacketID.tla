----------------------------- MODULE MCPacketID -----------------------------
(* An instance of PacketID for TLC, with a ring of a power of two.           *)
EXTENDS PacketID

(* Index is the code's mask of the low bits. *)
ASSUME \A b \in Bits, i \in (-Window)..(Window - 1) :
          Index(b, i) = (b + i + Window) % Window
=============================================================================
