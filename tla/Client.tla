------------------------------- MODULE Client -------------------------------
(***************************************************************************)
(* The lifetime of one openvpn3.Client (client.go): the Go object, its     *)
(* cgo.Handle, and the C++ LensrClient behind it, shared by the goroutine  *)
(* that runs Connect, the goroutines that call Stop and TransportStats,    *)
(* the goroutine Connect spawns for the blocking C call, and the C++       *)
(* library's own gate on calls from foreign threads (ovpncli.cpp).         *)
(*                                                                         *)
(* A critical section of Client.mu that makes no C call is one action.     *)
(* TransportStats keeps mu across its C call, so mu is a variable.         *)
(*                                                                         *)
(* A call into a deleted C++ object is undefined behaviour: it is recorded *)
(* in dangling and the call then proceeds as if the memory were intact; a  *)
(* process that dies there instead is a prefix of that behaviour.          *)
(***************************************************************************)
CONSTANTS Connectors,   \* goroutines that call Connect, once each
          Stoppers,     \* goroutines that call Stop, any number of times
          Readers,      \* goroutines that call TransportStats
          Nobody        \* mu is not held

Threads == Connectors \cup Stoppers \cup Readers

ASSUME ThreadsAssumption ==
    /\ Connectors \cap Stoppers = {}
    /\ Connectors \cap Readers = {}
    /\ Stoppers \cap Readers = {}
    /\ Nobody \notin Threads

VARIABLES
    mu,          \* holder of Client.mu across a C call
    running,     \* Client.running
    freed,       \* Client.freed
    cptr,        \* Client.c: TRUE when it is not nil
    obj,         \* the LensrClient: "none", "live" or "deleted"
    handle,      \* the cgo.Handle: "none", "live" or "deleted"
    pc,          \* control point of each API call
    blocked,     \* control point of the goroutine each Connect spawns
    done,        \* the buffered channel done of each Connect: filled or not
    sawRunning,  \* Stop's local copy of running; "never" before its first call
    ctxDone,     \* the context of Connect is cancelled
    attached,    \* ClientState::attach_called
    ready,       \* ClientState::foreign_thread_ready
    stopPosted,  \* graceful_stop() is posted on the io_context
    dangling     \* C++ code ran on a deleted object, or a dead handle was used

goVars   == <<mu, running, freed, cptr, handle>>
coreVars == <<attached, ready, stopPosted>>
vars == <<mu, running, freed, cptr, obj, handle, pc, blocked, done, sawRunning,
          ctxDone, attached, ready, stopPosted, dangling>>

Release == {"finish", "free", "cfree", "hdel"}

PCs == {"new", "idle", "select", "cancel", "drain", "cstop", "stats",
        "returned"} \cup Release

BlockedPCs == {"none", "spawned", "attach", "setup", "started", "run", "send",
               "sent"}

TypeOK ==
    /\ mu \in Threads \cup {Nobody}
    /\ running \in BOOLEAN /\ freed \in BOOLEAN /\ cptr \in BOOLEAN
    /\ obj \in {"none", "live", "deleted"}
    /\ handle \in {"none", "live", "deleted"}
    /\ pc \in [Threads -> PCs]
    /\ blocked \in [Connectors -> BlockedPCs]
    /\ done \in [Connectors -> BOOLEAN]
    /\ sawRunning \in [Stoppers -> {"never", "no", "yes"}]
    /\ ctxDone \in BOOLEAN
    /\ attached \in BOOLEAN /\ ready \in BOOLEAN /\ stopPosted \in BOOLEAN
    /\ dangling \in BOOLEAN

Init ==
    /\ mu = Nobody
    /\ running = FALSE /\ freed = FALSE /\ cptr = FALSE
    /\ obj = "none" /\ handle = "none"
    /\ pc = [t \in Threads |-> "new"]
    /\ blocked = [c \in Connectors |-> "none"]
    /\ done = [c \in Connectors |-> FALSE]
    /\ sawRunning = [s \in Stoppers |-> "never"]
    /\ ctxDone = FALSE
    /\ attached = FALSE /\ ready = FALSE /\ stopPosted = FALSE
    /\ dangling = FALSE

Goto(t, from, to) == pc[t] = from /\ pc' = [pc EXCEPT ![t] = to]

(* The goroutine of Connect c moves on inside, or on its way to, the C call. *)
Advance(c, from, to) ==
    blocked[c] = from /\ blocked' = [blocked EXCEPT ![c] = to]

(* The C++ object is used: undefined behaviour once it is deleted. *)
TouchObject == dangling' = (dangling \/ obj = "deleted")

(* Holding mu for one critical section that makes no C call. *)
Locked == mu = Nobody

-----------------------------------------------------------------------------
(* New: no other goroutine has the Client yet, so it is one step. The C     *)
(* allocation can fail (the handle is deleted and there is no Client), and  *)
(* so can evalConfig (free() has released everything).                      *)
New ==
    /\ handle = "none"
    /\ \/ /\ handle' = "live" /\ obj' = "live" /\ cptr' = TRUE
          /\ pc' = [t \in Threads |-> "idle"]
          /\ UNCHANGED freed
       \/ /\ handle' = "deleted"
          /\ UNCHANGED <<obj, cptr, pc, freed>>
       \/ /\ handle' = "deleted" /\ obj' = "deleted" /\ freed' = TRUE
          /\ UNCHANGED <<cptr, pc>>
    /\ UNCHANGED <<mu, running, blocked, done, sawRunning, ctxDone, coreVars,
                   dangling>>

-----------------------------------------------------------------------------
(* Connect. *)

ConnectRejected(c) ==
    /\ Locked
    /\ freed \/ running
    /\ Goto(c, "idle", "returned")
    /\ UNCHANGED <<goVars, obj, blocked, done, sawRunning, ctxDone, coreVars,
                   dangling>>

ConnectBegin(c) ==
    /\ Locked
    /\ ~freed /\ ~running
    /\ Goto(c, "idle", "select")
    /\ running' = TRUE
    /\ Advance(c, "none", "spawned")
    /\ UNCHANGED <<mu, freed, cptr, obj, handle, done, sawRunning, ctxDone,
                   coreVars, dangling>>

(* case err := <-done *)
ConnectDone(c) ==
    /\ done[c]
    /\ Goto(c, "select", "finish")
    /\ done' = [done EXCEPT ![c] = FALSE]
    /\ UNCHANGED <<goVars, obj, blocked, sawRunning, ctxDone, coreVars,
                   dangling>>

(* case <-ctx.Done() *)
ConnectCancelled(c) ==
    /\ ctxDone
    /\ Goto(c, "select", "cancel")
    /\ UNCHANGED <<goVars, obj, blocked, done, sawRunning, ctxDone, coreVars,
                   dangling>>

(* OpenVPNClient::stop(): dropped unless foreign threads are let in;         *)
(* otherwise the scope set up by connect_setup posts graceful_stop().        *)
CoreStop ==
    /\ TouchObject
    /\ stopPosted' = (stopPosted \/ ready)
    /\ UNCHANGED <<attached, ready>>

(* Mutant: the drain of done is left out after the stop. *)
ConnectStopNoDrain(c) ==
    /\ Goto(c, "cancel", "finish")
    /\ IF cptr THEN CoreStop ELSE UNCHANGED <<coreVars, dangling>>
    /\ UNCHANGED <<goVars, obj, blocked, done, sawRunning, ctxDone>>

(* C.lensr_ovpn3_stop(c.c): a null pointer is ignored by the shim.           *)
ConnectStop(c) ==
    /\ Goto(c, "cancel", "drain")
    /\ IF cptr THEN CoreStop ELSE UNCHANGED <<coreVars, dangling>>
    /\ UNCHANGED <<goVars, obj, blocked, done, sawRunning, ctxDone>>

ConnectDrain(c) ==
    /\ done[c]
    /\ Goto(c, "drain", "finish")
    /\ done' = [done EXCEPT ![c] = FALSE]
    /\ UNCHANGED <<goVars, obj, blocked, sawRunning, ctxDone, coreVars,
                   dangling>>

(* The caller's context is cancelled. *)
Cancel ==
    /\ ~ctxDone /\ handle # "none"
    /\ ctxDone' = TRUE
    /\ UNCHANGED <<goVars, obj, pc, blocked, done, sawRunning, coreVars,
                   dangling>>

-----------------------------------------------------------------------------
(* The goroutine that makes the blocking C call. *)

(* It reads c.c without the lock: a nil pointer makes the shim return at     *)
(* once with an error.                                                       *)
EnterC(c) ==
    /\ blocked[c] = "spawned"
    /\ blocked' = [blocked EXCEPT ![c] = IF cptr THEN "attach" ELSE "send"]
    /\ UNCHANGED <<goVars, obj, pc, done, sawRunning, ctxDone, coreVars,
                   dangling>>

(* connect_attach(): a ClientState can be attached once. *)
Attach(c) ==
    /\ Advance(c, "attach", IF attached THEN "send" ELSE "setup")
    /\ attached' = TRUE
    /\ TouchObject
    /\ UNCHANGED <<goVars, obj, pc, done, sawRunning, ctxDone, ready,
                   stopPosted>>

(* connect_setup() up to session->start(). It can throw, or return with an   *)
(* error status, before the session starts.                                  *)
Setup(c) ==
    /\ \E to \in {"started", "send"} : Advance(c, "setup", to)
    /\ TouchObject
    /\ UNCHANGED <<goVars, obj, pc, done, sawRunning, ctxDone, coreVars>>

(* setup_async_stop_scopes() and enable_foreign_thread_access(). *)
EnableForeign(c) ==
    /\ Advance(c, "started", "run")
    /\ ready' = TRUE
    /\ TouchObject
    /\ UNCHANGED <<goVars, obj, pc, done, sawRunning, ctxDone, attached,
                   stopPosted>>

(* session->start() and the handlers of io_context::run() call back into Go, *)
(* which resolves the cgo.Handle; Value() panics once it is deleted.         *)
Callback(c) ==
    /\ blocked[c] \in {"started", "run"}
    /\ dangling' = (dangling \/ obj = "deleted" \/ handle = "deleted")
    /\ UNCHANGED <<goVars, obj, pc, blocked, done, sawRunning, ctxDone,
                   coreVars>>

(* io_context::run() returns: graceful_stop() has run, or the session ended  *)
(* or threw by itself.                                                       *)
RunStopped(c) ==
    /\ stopPosted
    /\ Advance(c, "run", "send")
    /\ TouchObject
    /\ UNCHANGED <<goVars, obj, pc, done, sawRunning, ctxDone, coreVars>>

RunEnded(c) ==
    /\ Advance(c, "run", "send")
    /\ TouchObject
    /\ UNCHANGED <<goVars, obj, pc, done, sawRunning, ctxDone, coreVars>>

(* Mutant: the error path returns without sending on done. *)
SendNothing(c) ==
    /\ Advance(c, "send", "sent")
    /\ UNCHANGED <<goVars, obj, pc, done, sawRunning, ctxDone, coreVars,
                   dangling>>

SendDone(c) ==
    /\ Advance(c, "send", "sent")
    /\ done' = [done EXCEPT ![c] = TRUE]
    /\ UNCHANGED <<goVars, obj, pc, sawRunning, ctxDone, coreVars, dangling>>

-----------------------------------------------------------------------------
(* Stop. *)

StopFreed(s) ==
    /\ Locked
    /\ freed
    /\ pc[s] = "idle"
    /\ UNCHANGED vars

StopBegin(s) ==
    /\ Locked
    /\ ~freed
    /\ Goto(s, "idle", "cstop")
    /\ sawRunning' = [sawRunning EXCEPT ![s] = IF running THEN "yes" ELSE "no"]
    /\ UNCHANGED <<goVars, obj, blocked, done, ctxDone, coreVars, dangling>>

(* Mutant: a Stop that saw no Connect leaves the client as it is. *)
StopCallOnly(s) ==
    /\ Goto(s, "cstop", "idle")
    /\ CoreStop
    /\ UNCHANGED <<goVars, obj, blocked, done, sawRunning, ctxDone>>

(* The pointer read under the lock is used after it: freed was false then,   *)
(* so it was not nil.                                                        *)
StopCall(s) ==
    /\ Goto(s, "cstop", IF sawRunning[s] = "yes" THEN "idle" ELSE "finish")
    /\ CoreStop
    /\ UNCHANGED <<goVars, obj, blocked, done, sawRunning, ctxDone>>

-----------------------------------------------------------------------------
(* finish() and free(), run by Connect or by a Stop that saw no Connect. *)

Finish(t) ==
    /\ Locked
    /\ Goto(t, "finish", "free")
    /\ running' = FALSE
    /\ UNCHANGED <<mu, freed, cptr, handle, obj, blocked, done, sawRunning,
                   ctxDone, coreVars, dangling>>

(* Where a finished call goes: Connect is over, a Stop may be called again. *)
After(t) == IF t \in Connectors THEN "returned" ELSE "idle"

(* Mutant: free() without the freed check. *)
FreeUnchecked(t) ==
    /\ Locked
    /\ Goto(t, "free", "cfree")
    /\ freed' = TRUE
    /\ cptr' = FALSE
    /\ UNCHANGED <<mu, running, handle, obj, blocked, done, sawRunning, ctxDone,
                   coreVars, dangling>>

FreeBegin(t) ==
    /\ Locked
    /\ Goto(t, "free", IF freed THEN After(t) ELSE "cfree")
    /\ freed' = TRUE
    /\ cptr' = FALSE
    /\ UNCHANGED <<mu, running, handle, obj, blocked, done, sawRunning, ctxDone,
                   coreVars, dangling>>

(* Mutant: free() without handle.Delete(). *)
FreeObjectOnly(t) ==
    /\ Goto(t, "cfree", After(t))
    /\ TouchObject
    /\ obj' = "deleted"
    /\ UNCHANGED <<goVars, blocked, done, sawRunning, ctxDone, coreVars>>

FreeObject(t) ==
    /\ Goto(t, "cfree", "hdel")
    /\ TouchObject
    /\ obj' = "deleted"
    /\ UNCHANGED <<goVars, blocked, done, sawRunning, ctxDone, coreVars>>

FreeHandle(t) ==
    /\ Goto(t, "hdel", After(t))
    /\ dangling' = (dangling \/ handle = "deleted")
    /\ handle' = "deleted"
    /\ UNCHANGED <<mu, running, freed, cptr, obj, blocked, done, sawRunning,
                   ctxDone, coreVars>>

-----------------------------------------------------------------------------
(* TransportStats keeps mu while it is in C. *)

(* Mutant: mu is released before the C call. *)
StatsUnlocked(r) ==
    /\ Locked
    /\ ~freed /\ cptr
    /\ Goto(r, "idle", "stats")
    /\ UNCHANGED <<goVars, obj, blocked, done, sawRunning, ctxDone, coreVars,
                   dangling>>

StatsBegin(r) ==
    /\ Locked
    /\ ~freed /\ cptr
    /\ Goto(r, "idle", "stats")
    /\ mu' = r
    /\ UNCHANGED <<running, freed, cptr, handle, obj, blocked, done, sawRunning,
                   ctxDone, coreVars, dangling>>

StatsGone(r) ==
    /\ Locked
    /\ freed \/ ~cptr
    /\ pc[r] = "idle"
    /\ UNCHANGED vars

StatsEnd(r) ==
    /\ Goto(r, "stats", "idle")
    /\ mu' = Nobody
    /\ TouchObject
    /\ UNCHANGED <<running, freed, cptr, handle, obj, blocked, done, sawRunning,
                   ctxDone, coreVars>>

-----------------------------------------------------------------------------
(* Steps that happen once they can: code between two scheduling points.      *)
ConnectStep(c) ==
    \/ ConnectDone(c) \/ ConnectCancelled(c) \/ ConnectStop(c) \/ ConnectDrain(c)
ReleaseStep(t) ==
    Finish(t) \/ FreeBegin(t) \/ FreeObject(t) \/ FreeHandle(t)
BlockedStep(c) ==
    \/ EnterC(c) \/ Attach(c) \/ Setup(c) \/ EnableForeign(c) \/ RunStopped(c)
    \/ SendDone(c)

Next ==
    \/ New \/ Cancel
    \/ \E c \in Connectors :
         \/ ConnectRejected(c) \/ ConnectBegin(c) \/ ConnectStep(c)
         \/ BlockedStep(c) \/ RunEnded(c) \/ Callback(c)
    \/ \E s \in Stoppers : StopFreed(s) \/ StopBegin(s) \/ StopCall(s)
    \/ \E t \in Connectors \cup Stoppers : ReleaseStep(t)
    \/ \E r \in Readers : StatsBegin(r) \/ StatsGone(r) \/ StatsEnd(r)

(* Goroutines are scheduled, and a handler posted on the io_context runs.    *)
(* Nothing obliges a caller to call, a context to be cancelled, or a VPN     *)
(* session to end by itself.                                                 *)
Fairness ==
    /\ \A c \in Connectors : WF_vars(ConnectStep(c)) /\ WF_vars(BlockedStep(c))
    /\ \A s \in Stoppers : WF_vars(StopCall(s))
    /\ \A t \in Connectors \cup Stoppers : SF_vars(ReleaseStep(t))
    /\ \A r \in Readers : WF_vars(StatsEnd(r))

Spec == Init /\ [][Next]_vars
FairSpec == Spec /\ Fairness

-----------------------------------------------------------------------------
(* Properties. *)

InC == {"attach", "setup", "started", "run"}

(* free() says it releases the C client and the handle exactly once: however *)
(* Connect, Stop and finish() race, one goroutine at most is past the freed  *)
(* check, and what it is about to release has not been released before. A    *)
(* TransportStats holds mu across its C call: the object it reads is live    *)
(* and nobody is about to delete it.                                         *)
ReleasedOnce ==
    /\ \A t, u \in Threads :
         pc[t] \in {"cfree", "hdel"} /\ pc[u] \in {"cfree", "hdel"} => t = u
    /\ (\E t \in Threads : pc[t] = "cfree") => obj = "live" /\ handle = "live"
    /\ (\E t \in Threads : pc[t] = "hdel") => handle = "live"
    /\ (\E r \in Readers : pc[r] = "stats") =>
         obj = "live" /\ \A t \in Threads : pc[t] \notin {"cfree", "hdel"}

(* client.go:96: after Connect returns the client is stopped and its         *)
(* resources are released, unless a Stop that won the race in free() is      *)
(* still doing it; the blocking C call is over in either case.               *)
ConnectReleases ==
    \A c \in Connectors :
        (pc[c] = "returned" /\ blocked[c] # "none") =>
            /\ blocked[c] = "sent"
            /\ \/ obj = "deleted" /\ handle = "deleted"
               \/ \E t \in Threads : pc[t] \in {"cfree", "hdel"}

(* The inductive invariant behind the properties above. Life enumerates the  *)
(* stages of the two resources against freed, c.c and the releasing goroutine. *)
Releasing(t) == pc[t] \in {"cfree", "hdel"}

Life ==
    \/ /\ obj = "none" /\ handle \in {"none", "deleted"} /\ ~freed /\ ~cptr
       /\ \A t \in Threads : pc[t] = "new"
    \/ /\ obj = "live" /\ handle = "live" /\ ~freed /\ cptr
       /\ \A t \in Threads : pc[t] # "new" /\ ~Releasing(t)
    \/ /\ obj = "live" /\ handle = "live" /\ freed /\ ~cptr
       /\ \E t \in Threads : pc[t] = "cfree"
    \/ /\ obj = "deleted" /\ handle = "live" /\ freed /\ ~cptr
       /\ \E t \in Threads : pc[t] = "hdel"
    \/ /\ obj = "deleted" /\ handle = "deleted" /\ freed /\ ~cptr
       /\ \A t \in Threads : ~Releasing(t)

OneReleases ==
    \A t, u \in Threads : Releasing(t) /\ Releasing(u) => t = u

(* mu is held across a C call by the TransportStats in that call, and the    *)
(* client cannot become freed while it is.                                   *)
LockHeld == \A r \in Readers : pc[r] = "stats" => mu = r /\ ~freed

(* Only the control points of its own call are reached by each goroutine,    *)
(* and a Connect leaves its select or its drain only after the C call.       *)
Control ==
    /\ \A r \in Readers : pc[r] \in {"new", "idle", "stats"}
    /\ \A s \in Stoppers :
         /\ pc[s] \in {"new", "idle", "cstop"} \cup Release
         /\ sawRunning[s] = "never" => pc[s] \in {"new", "idle"}
    /\ \A c \in Connectors :
         /\ pc[c] \notin {"stats", "cstop"}
         /\ pc[c] \in {"new", "idle"} => blocked[c] = "none"
         /\ pc[c] \in Release => blocked[c] = "sent"
         /\ done[c] => blocked[c] = "sent"
         /\ pc[c] = "returned" =>
              blocked[c] = "none" \/ (blocked[c] = "sent" /\ freed)

LifeInv == TypeOK /\ Life /\ OneReleases /\ LockHeld /\ Control

(* Some Connect has its goroutine at one of these points. *)
In(pcs) == \E c \in Connectors : blocked[c] \in pcs

(* Everyone gets the client from New at once; what running, a Stop that saw  *)
(* it, and the gate of the core say about the goroutine in the C call.       *)
Gate ==
    /\ \A t, u \in Threads : pc[t] = "new" => pc[u] = "new"
    /\ running => In(BlockedPCs \ {"none"})
    /\ \A s \in Stoppers : sawRunning[s] = "yes" => In(BlockedPCs \ {"none"})
    /\ \A c \in Connectors :
         pc[c] = "returned" => freed \/ In(BlockedPCs \ {"none"})
    /\ stopPosted => ready
    /\ In({"run"}) => ready
    /\ ready => In({"run", "send", "sent"})

IndInv == LifeInv /\ Gate

(* At most one Connect of this client went past its checks, as in the engine, *)
(* which calls Connect once for each Client it makes.                        *)
OneConnect ==
    \A c, d \in Connectors : blocked[c] # "none" /\ blocked[d] # "none" => c = d

(* No Stop was called, and one Connect at most went past its checks. *)
CancelOnly == OneConnect /\ \A s \in Stoppers : sawRunning[s] = "never"

(* A client that is stopped only through the context of its one Connect:     *)
(* no step of Connect, of its goroutine or of TransportStats uses the C++    *)
(* object or resolves the handle after their release.                        *)
NoUseAfterRelease == CancelOnly => ~dangling

(* The client as its user sees it: the stage of the session, and of a Stop.  *)
Early == {"spawned", "attach", "setup", "started"}

Stage ==
    CASE \A t \in Threads : pc[t] = "new" -> "none"
      [] In({"run"}) -> IF stopPosted THEN "stopping" ELSE "up"
      [] In(Early) /\ ~In({"run"}) -> "setup"
      [] In({"send", "sent"}) /\ ~In(Early \cup {"run"}) ->
           IF \A c \in Connectors : blocked[c] # "none" => pc[c] = "returned"
           THEN "ended" ELSE "stopping"
      [] OTHER ->
           IF ~freed THEN "new"
           ELSE IF \E c \in Connectors : pc[c] = "returned" THEN "ended"
           ELSE "released"

Call ==
    [s \in Stoppers |-> CASE pc[s] = "cstop" -> "begun"
                          [] pc[s] \in Release -> "acted"
                          [] OTHER -> "idle"]

Contract == INSTANCE ClientContract WITH stage <- Stage, call <- Call

(* As long as no second Connect went past its checks, every step of the      *)
(* goroutines, of the core and of a racing Stop is a step of ClientContract, *)
(* which is what the engine builds on: a session that is up is stopped by    *)
(* the time Stop returns, and a client that Stop leaves cannot be connected. *)
ServesEngine ==
    /\ Contract!Init
    /\ [][OneConnect' => Contract!Next]_<<Stage, Call>>

(* client.go:131: "drain the blocking call so we never free the C client     *)
(* while connect() is still touching it".                                    *)
NeverFreedUnderConnect ==
    \A c \in Connectors : blocked[c] \in InC => obj = "live"

(* A stop request that the core accepted unwinds the blocking call and       *)
(* Connect returns.                                                          *)
AcceptedStopReturns ==
    \A c \in Connectors :
        (stopPosted /\ blocked[c] = "run") ~> (pc[c] = "returned")

(* A release that began is carried through to the object and the handle.     *)
ReleaseCompletes ==
    (\E t \in Threads : pc[t] \in Release)
        ~> (obj = "deleted" /\ handle = "deleted")

(* client.go:92: on cancellation Connect issues a Stop "and waits for the    *)
(* blocking call to unwind": a cancelled Connect returns.                    *)
CancelReturns ==
    \A c \in Connectors : (pc[c] = "select" /\ ctxDone) ~> (pc[c] = "returned")
=============================================================================
