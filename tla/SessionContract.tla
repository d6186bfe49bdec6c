-------------------------- MODULE SessionContract ---------------------------
(***************************************************************************)
(* What the connection controller may expect of the client that it holds   *)
(* (NotifyCallback in cliproto.hpp): client_proto_connected at most once,  *)
(* client_proto_terminate at most once, and no callback once it has stopped *)
(* the client itself. A client that has terminated may still report a      *)
(* connection, if it never did: the reply was in the packets of the same   *)
(* handler. ConnectionController takes its client steps from this promise; *)
(* ClientSession keeps it.                                                 *)
(***************************************************************************)
EXTENDS Sequences

VARIABLES stage, told

vars == <<stage, told>>

Init == stage = "connecting" /\ told = <<>>

(* client_proto_connected *)
Connect ==
    /\ stage = "connecting" /\ stage' = "up"
    /\ told' = Append(told, "connected")

(* client_proto_terminate *)
Terminate ==
    /\ stage # "down" /\ stage' = "down"
    /\ told' = Append(told, "terminate")

(* client_proto_connected, of a client that has just terminated *)
LateConnect ==
    /\ stage = "down" /\ told = <<"terminate">>
    /\ told' = Append(told, "connected")
    /\ UNCHANGED stage

(* stop(false) *)
Stop == stage # "down" /\ stage' = "down" /\ UNCHANGED told

(* new_client *)
Replace == stage' = "connecting" /\ told' = <<>>

Next == Connect \/ Terminate \/ LateConnect \/ Stop \/ Replace

Spec == Init /\ [][Next]_vars
=============================================================================
