------------------------------- MODULE Engine -------------------------------
(***************************************************************************)
(* The process-wide engine of engine_windows.go: Connect, Disconnect and   *)
(* Status on one engine value, called by any number of goroutines, and the *)
(* OpenVPN sessions (one Client each) that they start, stop, drain and     *)
(* sometimes lose.                                                         *)
(*                                                                         *)
(* A session is a Client as ClientContract describes it, which module      *)
(* Client implements: a Stop before its Connect began releases it, a Stop  *)
(* while the core is still setting up is dropped, a later Stop ends it in  *)
(* time; it may also end by itself. The atomics connected and fatal are    *)
(* kept as the session whose event set them last (None when false): the    *)
(* code's flag is the test # None, the rest is history that the properties *)
(* need.                                                                   *)
(***************************************************************************)
EXTENDS Naturals

CONSTANTS Callers,      \* goroutines that use the engine
          Keys,         \* session keys: profile paths or content hashes
          NoKey,        \* configPath = ""
          MaxSessions   \* bound: sessions started in a behaviour

ASSUME EngineAssumption ==
    /\ NoKey \notin Keys
    /\ MaxSessions \in Nat \ {0}

None == 0
Sessions == 1..MaxSessions

VARIABLES
    client,      \* engine.client and engine.connectDone
    key,         \* engine.configPath
    connectedBy, \* engine.connected
    fatalBy,     \* engine.fatal, engine.lastErr
    sess,        \* stage of each session
    pc,          \* control point of each caller
    target,      \* the session a caller drains (its local client and done)
    want,        \* the key of a caller's Connect
    abandoned,   \* history: sessions whose drain timed out
    overlapped   \* history: a call began while another was under way

flagVars == <<connectedBy, fatalBy>>
histVars == <<abandoned, overlapped>>
vars == <<client, key, flagVars, sess, pc, target, want, histVars>>

Stages == {"none", "new", "setup", "up", "stopping", "released", "ended",
           "drained"}

TypeOK ==
    /\ client \in Sessions \cup {None}
    /\ key \in Keys \cup {NoKey}
    /\ connectedBy \in Sessions \cup {None}
    /\ fatalBy \in Sessions \cup {None}
    /\ sess \in [Sessions -> Stages]
    /\ pc \in [Callers -> {"idle", "teardown", "start", "stop", "drain", "clear"}]
    /\ target \in [Callers -> Sessions \cup {None}]
    /\ want \in [Callers -> Keys \cup {NoKey}]
    /\ abandoned \subseteq Sessions
    /\ overlapped \in BOOLEAN

Init ==
    /\ client = None /\ key = NoKey
    /\ connectedBy = None /\ fatalBy = None
    /\ sess = [i \in Sessions |-> "none"]
    /\ pc = [a \in Callers |-> "idle"]
    /\ target = [a \in Callers |-> None]
    /\ want = [a \in Callers |-> NoKey]
    /\ abandoned = {} /\ overlapped = FALSE

(* A session whose blocking C call may still run. *)
Live(i) == sess[i] \in {"new", "setup", "up", "stopping"}

(* stateLocked *)
State ==
    CASE fatalBy # None -> "error"
      [] fatalBy = None /\ connectedBy # None -> "connected"
      [] fatalBy = None /\ connectedBy = None /\ client # None -> "connecting"
      [] OTHER -> "disconnected"

(* A call of caller a that changes the engine begins. *)
Begins(a) ==
    overlapped' = (overlapped \/ \E b \in Callers \ {a} : pc[b] # "idle")

(* Client.Stop and the cancellation of Connect's context: what they do to a  *)
(* session depends on how far it got.                                        *)
Stopped(st) ==
    CASE st = "new" -> "released"
      [] st = "up"  -> "stopping"
      [] OTHER      -> st

-----------------------------------------------------------------------------
(* A session, by itself. *)

ConnectStarts(i) ==
    /\ sess[i] = "new"
    /\ sess' = [sess EXCEPT ![i] = "setup"]
    /\ UNCHANGED <<client, key, flagVars, pc, target, want, histVars>>

GateOpens(i) ==
    /\ sess[i] = "setup"
    /\ sess' = [sess EXCEPT ![i] = "up"]
    /\ UNCHANGED <<client, key, flagVars, pc, target, want, histVars>>

(* Client.Connect returns and its result is sent on connectDone. *)
SessionStops(i) ==
    /\ sess[i] \in {"stopping", "released"}
    /\ sess' = [sess EXCEPT ![i] = "ended"]
    /\ UNCHANGED <<client, key, flagVars, pc, target, want, histVars>>

(* The blocking call fails or the session ends by itself: it winds down.     *)
SessionEnds(i) ==
    /\ sess[i] \in {"setup", "up"}
    /\ sess' = [sess EXCEPT ![i] = "stopping"]
    /\ UNCHANGED <<client, key, flagVars, pc, target, want, histVars>>

ContextCancelled(i) ==
    /\ sess[i] = "up"
    /\ sess' = [sess EXCEPT ![i] = Stopped(@)]
    /\ UNCHANGED <<client, key, flagVars, pc, target, want, histVars>>

(* engineSink.OnEvent: a CONNECTED event, then a fatal one; neither takes    *)
(* engine.mu nor asks whether the session is still the engine's.             *)
EventConnected(i) ==
    /\ sess[i] \in {"up", "stopping"}
    /\ connectedBy' = i
    /\ UNCHANGED <<client, key, fatalBy, sess, pc, target, want, histVars>>

EventFatal(i) ==
    /\ sess[i] \in {"setup", "up", "stopping"}
    /\ fatalBy' = i
    /\ UNCHANGED <<client, key, connectedBy, sess, pc, target, want, histVars>>

-----------------------------------------------------------------------------
(* engine.connect *)

(* Reading the profile, building the configuration and New all succeeded:    *)
(* the new client is installed, the flags are reset and Connect is spawned.  *)
Install(k) ==
    \E i \in Sessions :
        /\ sess[i] = "none" /\ \A j \in Sessions : j < i => sess[j] # "none"
        /\ sess' = [sess EXCEPT ![i] = "new"]
        /\ client' = i /\ key' = k
        /\ connectedBy' = None /\ fatalBy' = None

(* One of them failed: connect returns the error, the engine is as it was.   *)
InstallFails == UNCHANGED <<client, key, connectedBy, fatalBy, sess>>

ConnectSame(a, k) ==
    /\ pc[a] = "idle"
    /\ client # None /\ key = k
    /\ UNCHANGED vars

ConnectFresh(a, k) ==
    /\ pc[a] = "idle"
    /\ client = None
    /\ Install(k) \/ InstallFails
    /\ Begins(a)
    /\ UNCHANGED <<pc, target, want, abandoned>>

(* Mutant: a Connect for another profile replaces the client at once. *)
SwitchNoTeardown(a, k) ==
    /\ pc[a] = "idle"
    /\ client # None /\ key # k
    /\ Install(k)
    /\ Begins(a)
    /\ UNCHANGED <<pc, target, want, abandoned>>

(* teardownLocked, up to the point where it releases the lock. *)
ConnectSwitch(a, k) ==
    /\ pc[a] = "idle"
    /\ client # None /\ key # k
    /\ target' = [target EXCEPT ![a] = client]
    /\ want' = [want EXCEPT ![a] = k]
    /\ client' = None /\ key' = NoKey
    /\ connectedBy' = None /\ fatalBy' = None
    /\ sess' = [sess EXCEPT ![client] = Stopped(@)]
    /\ pc' = [pc EXCEPT ![a] = "teardown"]
    /\ Begins(a)
    /\ UNCHANGED abandoned

(* After the drain: connect goes on with the lock held again. It does not    *)
(* look at engine.client a second time.                                      *)
ConnectResume(a) ==
    /\ pc[a] = "start"
    /\ Install(want[a]) \/ InstallFails
    /\ pc' = [pc EXCEPT ![a] = "idle"]
    /\ target' = [target EXCEPT ![a] = None]
    /\ want' = [want EXCEPT ![a] = NoKey]
    /\ UNCHANGED histVars

-----------------------------------------------------------------------------
(* Both drains: the value of connectDone, or the timeout. *)

AfterDrain(a) == IF pc[a] = "teardown" THEN "start" ELSE "clear"

DrainDone(a) ==
    /\ pc[a] \in {"teardown", "drain"}
    /\ sess[target[a]] = "ended"
    /\ sess' = [sess EXCEPT ![target[a]] = "drained"]
    /\ pc' = [pc EXCEPT ![a] = AfterDrain(a)]
    /\ UNCHANGED <<client, key, flagVars, target, want, histVars>>

(* Mutant: the drain has no timeout. *)
DrainNeverTimesOut(a) == FALSE /\ UNCHANGED vars

DrainTimeout(a) ==
    /\ pc[a] \in {"teardown", "drain"}
    /\ pc' = [pc EXCEPT ![a] = AfterDrain(a)]
    /\ abandoned' = abandoned \cup {target[a]}
    /\ UNCHANGED <<client, key, flagVars, sess, target, want, overlapped>>

-----------------------------------------------------------------------------
(* engine.disconnect; Close is the same call. *)

DisconnectIdle(a) ==
    /\ pc[a] = "idle"
    /\ client = None
    /\ UNCHANGED vars

DisconnectBegin(a) ==
    /\ pc[a] = "idle"
    /\ client # None
    /\ target' = [target EXCEPT ![a] = client]
    /\ pc' = [pc EXCEPT ![a] = "stop"]
    /\ Begins(a)
    /\ UNCHANGED <<client, key, flagVars, sess, want, abandoned>>

DisconnectStop(a) ==
    /\ pc[a] = "stop"
    /\ sess' = [sess EXCEPT ![target[a]] = Stopped(@)]
    /\ pc' = [pc EXCEPT ![a] = "drain"]
    /\ UNCHANGED <<client, key, flagVars, target, want, histVars>>

(* The second critical section: whatever client is installed now is dropped; *)
(* connected is cleared, fatal and lastErr are not.                          *)
DisconnectClear(a) ==
    /\ pc[a] = "clear"
    /\ client' = None /\ key' = NoKey
    /\ connectedBy' = None
    /\ pc' = [pc EXCEPT ![a] = "idle"]
    /\ target' = [target EXCEPT ![a] = None]
    /\ UNCHANGED <<fatalBy, sess, want, histVars>>

-----------------------------------------------------------------------------
SessionStep(i) == ConnectStarts(i) \/ GateOpens(i) \/ SessionStops(i)
CallStep(a) ==
    \/ ConnectResume(a) \/ DrainDone(a) \/ DrainTimeout(a)
    \/ DisconnectStop(a) \/ DisconnectClear(a)

Next ==
    \/ \E i \in Sessions :
         \/ SessionStep(i) \/ SessionEnds(i) \/ ContextCancelled(i)
         \/ EventConnected(i) \/ EventFatal(i)
    \/ \E a \in Callers :
         \/ CallStep(a)
         \/ DisconnectIdle(a) \/ DisconnectBegin(a)
         \/ \E k \in Keys :
              ConnectSame(a, k) \/ ConnectFresh(a, k) \/ ConnectSwitch(a, k)

(* Goroutines and timers are scheduled; a stopped session winds down. No     *)
(* session has to end by itself and no caller has to call.                   *)
Fairness ==
    /\ \A i \in Sessions : WF_vars(SessionStep(i))
    /\ \A a \in Callers : WF_vars(CallStep(a))

Spec == Init /\ [][Next]_vars
FairSpec == Spec /\ Fairness

-----------------------------------------------------------------------------
(* Properties. *)

Draining(i) == \E a \in Callers : pc[a] # "idle" /\ target[a] = i

(* engine_windows.go:44: "the host owns exactly one OpenVPN3 session": a     *)
(* session that still runs is the engine's, or is being drained, or its      *)
(* drain timed out; none runs that no Disconnect can reach any more.         *)
OneSession ==
    \A i \in Sessions : Live(i) => i = client \/ Draining(i) \/ i \in abandoned

(* OneSession, as long as no call began while another was under way: one     *)
(* teardown, drain and install after the other lose no session.              *)
SerialOneSession == ~overlapped => OneSession

(* With calls one after the other, Status never says "disconnected" over a   *)
(* session that runs, unless it is being drained or its drain timed out.     *)
DisconnectedMeansDown ==
    ~overlapped /\ State = "disconnected" =>
        \A i \in Sessions : Live(i) => Draining(i) \/ i \in abandoned

(* With calls one after the other, the flags behind Status come from the     *)
(* client that the engine holds: an earlier session's CONNECTED or fatal     *)
(* event, delivered while it was being drained, is not taken for the new     *)
(* session's, unless its drain timed out.                                    *)
FlagsAboutClient ==
    ~overlapped /\ client # None =>
        /\ connectedBy \in {None, client} \cup abandoned
        /\ fatalBy \in {None, client} \cup abandoned

(* The inductive invariant. While calls came one after the other, at most    *)
(* one is under way, where it is tells what the engine holds, and no session *)
(* escapes it.                                                               *)
OneCall == \A a, b \in Callers : pc[a] # "idle" /\ pc[b] # "idle" => a = b

CallOwns ==
    \A a \in Callers :
        /\ pc[a] \in {"teardown", "start"} => client = None /\ target[a] # None
        /\ pc[a] \in {"stop", "drain", "clear"} => client = target[a] /\ client # None
        /\ pc[a] = "clear" => ~Live(client) \/ client \in abandoned

Reachable ==
    \A i \in Sessions : Live(i) =>
        \/ i = client \/ i \in abandoned
        \/ \E a \in Callers : pc[a] = "teardown" /\ target[a] = i

IndInv ==
    /\ TypeOK /\ FlagsAboutClient
    /\ \A a \in Callers : pc[a] # "idle" => target[a] # None
    /\ ~overlapped => OneCall /\ CallOwns /\ Reachable

(* engine_windows.go:65: Disconnect waits, bounded: every call returns.      *)
CallsReturn == \A a \in Callers : (pc[a] # "idle") ~> (pc[a] = "idle")
=============================================================================
