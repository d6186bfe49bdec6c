--------------------------- MODULE ClientContract ---------------------------
(***************************************************************************)
(* What module Client promises to whoever uses one Client from outside, as *)
(* module Engine does: the stage of its one session, and what a call of    *)
(* Stop has done to it by the time it returns. No lock, pointer or gate is *)
(* visible here.                                                           *)
(*                                                                         *)
(* A Stop acts at one point of the call: it releases a client whose        *)
(* Connect did not begin, ends a session that is up, and is lost on one    *)
(* that is being set up.                                                   *)
(***************************************************************************)
CONSTANTS Stoppers      \* goroutines that call Stop

VARIABLES
    stage,   \* of the client and its session
    call     \* how far the Stop of each goroutine got

vars == <<stage, call>>

TypeOK ==
    /\ stage \in {"none", "new", "setup", "up", "stopping", "released", "ended"}
    /\ call \in [Stoppers -> {"idle", "begun", "acted"}]

Init ==
    /\ stage = "none"
    /\ call = [s \in Stoppers |-> "idle"]

Moves(from, to) == stage \in from /\ stage' = to /\ UNCHANGED call

Created == Moves({"none"}, "new")
ConnectStarts == Moves({"new"}, "setup")
GateOpens == Moves({"setup"}, "up")

(* The setup fails, the context is cancelled, or the session ends by itself. *)
WindsDown == Moves({"setup", "up"}, "stopping")

(* Connect returns: after the blocking call, or refused because the client   *)
(* is released.                                                              *)
ConnectReturns == Moves({"stopping", "released"}, "ended")

StopBegins(s) ==
    /\ stage \notin {"none", "released"}
    /\ call[s] = "idle"
    /\ call' = [call EXCEPT ![s] = "begun"]
    /\ UNCHANGED stage

(* A session that is up is stopped. The call that ends here leaves no client *)
(* behind whose Connect could still begin.                                   *)
StopActs(s) ==
    /\ call[s] = "begun"
    /\ stage' = IF stage = "up" THEN "stopping" ELSE stage
    /\ \/ call' = [call EXCEPT ![s] = "acted"]
       \/ stage # "new" /\ call' = [call EXCEPT ![s] = "idle"]

StopReleases(s) ==
    /\ call[s] = "acted"
    /\ Moves({"new"}, "released")

StopReturns(s) ==
    /\ call[s] = "acted"
    /\ stage \notin {"none", "new"}
    /\ call' = [call EXCEPT ![s] = "idle"]
    /\ UNCHANGED stage

Next ==
    \/ Created \/ ConnectStarts \/ GateOpens \/ WindsDown \/ ConnectReturns
    \/ \E s \in Stoppers :
         StopBegins(s) \/ StopActs(s) \/ StopReleases(s) \/ StopReturns(s)

Spec == Init /\ [][Next]_vars
=============================================================================
