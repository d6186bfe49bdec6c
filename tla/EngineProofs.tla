---------------------------- MODULE EngineProofs ----------------------------
(***************************************************************************)
(* Proofs about Engine: what it promises as long as its calls come one     *)
(* after the other, for any number of goroutines, sessions and profiles.   *)
(***************************************************************************)
EXTENDS Engine, TLAPS

(* The initial state satisfies the inductive invariant. *)
LEMMA InitIndInv == Init => IndInv
  BY EngineAssumption
  DEF Init, IndInv, TypeOK, OneCall, CallOwns, Reachable, FlagsAboutClient, Live,
      None, Sessions, Stages

(* 0 is no session. *)
LEMMA NoneFact == None \notin Sessions
  BY DEF None, Sessions

(* Whatever calls overlap, every step keeps the types, and a call that is    *)
(* under way has a session to drain.                                         *)
LEMMA NextTypeOK ==
    ASSUME IndInv, [Next]_vars
    PROVE  TypeOK' /\ \A a \in Callers : pc'[a] # "idle" => target'[a] # None
<1> USE DEF TypeOK, Stages
<1>0. TypeOK /\ \A a \in Callers : pc[a] # "idle" => target[a] # None
  BY DEF IndInv
<1> DEFINE Goal == TypeOK' /\ \A a \in Callers : pc'[a] # "idle" => target'[a] # None
<1>1. ASSUME NEW i \in Sessions,
             \/ SessionStep(i) \/ SessionEnds(i) \/ ContextCancelled(i)
             \/ EventConnected(i) \/ EventFatal(i)
      PROVE  Goal
  BY <1>0, <1>1 DEF SessionStep, ConnectStarts, GateOpens, SessionStops, SessionEnds,
     ContextCancelled, Stopped, EventConnected, EventFatal, histVars, flagVars
<1>2. ASSUME NEW a \in Callers, ConnectResume(a) PROVE Goal
  <2>1. want[a] \in Keys \cup {NoKey}
    BY <1>0
  <2>2. CASE Install(want[a])
    BY <1>0, <1>2, <2>1, <2>2 DEF ConnectResume, Install, histVars
  <2>3. CASE InstallFails
    BY <1>0, <1>2, <2>3 DEF ConnectResume, InstallFails, histVars
  <2> QED BY <1>2, <2>2, <2>3 DEF ConnectResume
<1>3. ASSUME NEW a \in Callers, DrainDone(a) PROVE Goal
  <2>1. target[a] \in Sessions
    BY <1>0, <1>3 DEF DrainDone
  <2> QED BY <1>0, <1>3, <2>1 DEF DrainDone, AfterDrain, histVars, flagVars
<1>4. ASSUME NEW a \in Callers, DrainTimeout(a) PROVE Goal
  <2>1. target[a] \in Sessions
    BY <1>0, <1>4 DEF DrainTimeout
  <2> QED BY <1>0, <1>4, <2>1 DEF DrainTimeout, AfterDrain, flagVars
<1>5. ASSUME NEW a \in Callers, DisconnectStop(a) PROVE Goal
  <2>1. target[a] \in Sessions
    BY <1>0, <1>5 DEF DisconnectStop
  <2> QED BY <1>0, <1>5, <2>1 DEF DisconnectStop, Stopped, histVars, flagVars
<1>6. ASSUME NEW a \in Callers,
             \/ DisconnectClear(a) \/ DisconnectIdle(a) \/ DisconnectBegin(a)
      PROVE  Goal
  BY <1>0, <1>6 DEF DisconnectClear, DisconnectIdle, DisconnectBegin, Begins, vars,
     histVars, flagVars
<1>7. ASSUME NEW a \in Callers, NEW k \in Keys, ConnectSame(a, k) \/ ConnectFresh(a, k)
      PROVE  Goal
  BY <1>0, <1>7 DEF ConnectSame, ConnectFresh, Install, InstallFails, Begins, vars,
     histVars, flagVars
<1>8. ASSUME NEW a \in Callers, NEW k \in Keys, ConnectSwitch(a, k) PROVE Goal
  BY <1>0, <1>8 DEF ConnectSwitch, Stopped, Begins
<1>9. CASE UNCHANGED vars
  BY <1>0, <1>9 DEF vars, histVars, flagVars
<1> QED
  BY <1>1, <1>2, <1>3, <1>4, <1>5, <1>6, <1>7, <1>8, <1>9 DEF Next, CallStep

(* While calls come one after the other, a caller's step finds every other   *)
(* caller idle.                                                              *)
LEMMA OthersIdle ==
    ASSUME IndInv, ~overlapped', NEW a \in Callers,
           (overlapped' = overlapped /\ pc[a] # "idle") \/ Begins(a)
    PROVE  ~overlapped /\ \A b \in Callers \ {a} : pc[b] = "idle"
  BY DEF IndInv, OneCall, Begins, TypeOK

(* Every step preserves the inductive invariant. *)
LEMMA NextIndInv == ASSUME IndInv, [Next]_vars PROVE IndInv'
<1> SUFFICES ASSUME ~overlapped'
             PROVE  OneCall' /\ CallOwns' /\ Reachable' /\ FlagsAboutClient'
  BY NextTypeOK DEF IndInv, FlagsAboutClient
<1> DEFINE Goal == OneCall' /\ CallOwns' /\ Reachable' /\ FlagsAboutClient'
<1> USE NoneFact DEF TypeOK, OneCall, CallOwns, Reachable, FlagsAboutClient, Live, Stages
<1>0. TypeOK /\ \A a \in Callers : pc[a] # "idle" => target[a] # None
  BY DEF IndInv
<1>a. ~overlapped => OneCall /\ CallOwns /\ Reachable /\ FlagsAboutClient
  BY DEF IndInv
<1>1. ASSUME NEW i \in Sessions, SessionStep(i) \/ SessionEnds(i) \/ ContextCancelled(i)
      PROVE  Goal
  BY <1>0, <1>a, <1>1 DEF SessionStep, ConnectStarts, GateOpens, SessionStops,
     SessionEnds, ContextCancelled, Stopped, histVars, flagVars
<1>2. ASSUME NEW i \in Sessions, EventConnected(i) \/ EventFatal(i) PROVE Goal
  <2>0. ~overlapped
    BY <1>2 DEF EventConnected, EventFatal, histVars
  <2>1. i = client \/ i \in abandoned \/ client = None
    BY <1>0, <1>a, <1>2, <2>0 DEF EventConnected, EventFatal
  <2>2. CASE EventConnected(i)
    BY <1>0, <1>a, <2>0, <2>1, <2>2 DEF EventConnected, histVars
  <2>3. CASE EventFatal(i)
    BY <1>0, <1>a, <2>0, <2>1, <2>3 DEF EventFatal, histVars
  <2> QED BY <1>2, <2>2, <2>3
<1>3. ASSUME NEW a \in Callers, ConnectResume(a) PROVE Goal
  <2>0. ~overlapped /\ \A b \in Callers \ {a} : pc[b] = "idle"
    BY <1>3, OthersIdle DEF ConnectResume, histVars
  <2>1. CASE Install(want[a])
    <3>1. PICK i \in Sessions : /\ sess[i] = "none"
                                /\ sess' = [sess EXCEPT ![i] = "new"]
                                /\ client' = i /\ key' = want[a]
                                /\ connectedBy' = None /\ fatalBy' = None
      BY <2>1 DEF Install
    <3>2. OneCall' /\ CallOwns' /\ FlagsAboutClient'
      BY <1>0, <1>a, <1>3, <2>0, <3>1 DEF ConnectResume
    <3>3. Reachable'
      BY <1>0, <1>a, <1>3, <2>0, <3>1 DEF ConnectResume, histVars
    <3> QED BY <3>2, <3>3
  <2>2. CASE InstallFails
    BY <1>0, <1>a, <1>3, <2>0, <2>2 DEF ConnectResume, InstallFails, histVars
  <2> QED BY <1>3, <2>1, <2>2 DEF ConnectResume
<1>4. ASSUME NEW a \in Callers, DrainDone(a) PROVE Goal
  <2>0. ~overlapped /\ \A b \in Callers \ {a} : pc[b] = "idle"
    BY <1>4, OthersIdle DEF DrainDone, histVars
  <2> QED BY <1>0, <1>a, <1>4, <2>0 DEF DrainDone, AfterDrain, histVars, flagVars
<1>5. ASSUME NEW a \in Callers, DrainTimeout(a) PROVE Goal
  <2>0. ~overlapped /\ \A b \in Callers \ {a} : pc[b] = "idle"
    BY <1>5, OthersIdle DEF DrainTimeout
  <2> QED BY <1>0, <1>a, <1>5, <2>0 DEF DrainTimeout, AfterDrain, flagVars
<1>6. ASSUME NEW a \in Callers, DisconnectStop(a) PROVE Goal
  <2>0. ~overlapped /\ \A b \in Callers \ {a} : pc[b] = "idle"
    BY <1>6, OthersIdle DEF DisconnectStop, histVars
  <2>1. target[a] = client /\ client \in Sessions
    BY <1>0, <1>a, <1>6, <2>0 DEF DisconnectStop
  <2>2. \A i \in Sessions : Live(i)' => Live(i)
    BY <1>0, <1>6, <2>1 DEF DisconnectStop, Stopped
  <2> QED BY <1>0, <1>a, <1>6, <2>0, <2>1, <2>2 DEF DisconnectStop, histVars, flagVars
<1>7. ASSUME NEW a \in Callers, DisconnectClear(a) PROVE Goal
  <2>0. ~overlapped /\ \A b \in Callers \ {a} : pc[b] = "idle"
    BY <1>7, OthersIdle DEF DisconnectClear, histVars
  <2> QED BY <1>0, <1>a, <1>7, <2>0 DEF DisconnectClear, histVars
<1>8. ASSUME NEW a \in Callers, DisconnectBegin(a) PROVE Goal
  <2>0. ~overlapped /\ \A b \in Callers \ {a} : pc[b] = "idle"
    BY <1>8, OthersIdle DEF DisconnectBegin
  <2> QED BY <1>0, <1>a, <1>8, <2>0 DEF DisconnectBegin, flagVars
<1>9. ASSUME NEW a \in Callers, NEW k \in Keys, ConnectFresh(a, k) PROVE Goal
  <2>0. ~overlapped /\ \A b \in Callers \ {a} : pc[b] = "idle"
    BY <1>9, OthersIdle DEF ConnectFresh
  <2>1. CASE Install(k)
    <3>1. PICK i \in Sessions : /\ sess[i] = "none"
                                /\ sess' = [sess EXCEPT ![i] = "new"]
                                /\ client' = i /\ key' = k
                                /\ connectedBy' = None /\ fatalBy' = None
      BY <2>1 DEF Install
    <3>2. OneCall' /\ CallOwns' /\ FlagsAboutClient'
      BY <1>0, <1>a, <1>9, <2>0, <3>1 DEF ConnectFresh
    <3>3. Reachable'
      BY <1>0, <1>a, <1>9, <2>0, <3>1 DEF ConnectFresh
    <3> QED BY <3>2, <3>3
  <2>2. CASE InstallFails
    BY <1>0, <1>a, <1>9, <2>0, <2>2 DEF ConnectFresh, InstallFails
  <2> QED BY <1>9, <2>1, <2>2 DEF ConnectFresh
<1>10. ASSUME NEW a \in Callers, NEW k \in Keys, ConnectSwitch(a, k) PROVE Goal
  <2>0. ~overlapped /\ \A b \in Callers \ {a} : pc[b] = "idle"
    BY <1>10, OthersIdle DEF ConnectSwitch
  <2> QED BY <1>0, <1>a, <1>10, <2>0 DEF ConnectSwitch, Stopped
<1>11. ASSUME \/ UNCHANGED vars
              \/ \E a \in Callers :
                   DisconnectIdle(a) \/ \E k \in Keys : ConnectSame(a, k)
       PROVE  Goal
  BY <1>0, <1>a, <1>11 DEF DisconnectIdle, ConnectSame, vars, histVars, flagVars
<1> QED
  BY <1>1, <1>2, <1>3, <1>4, <1>5, <1>6, <1>7, <1>8, <1>9, <1>10, <1>11
  DEF Next, CallStep

(* IndInv is an invariant of the engine. *)
THEOREM EngineInvariant == Spec => []IndInv
  BY InitIndInv, NextIndInv, PTL DEF Spec

(* With calls one after the other, the engine never loses a running session: *)
(* every session is its client, is being drained, or outlived a drain's      *)
(* timeout.                                                                  *)
THEOREM OneSessionThm == Spec => []SerialOneSession
<1>1. IndInv => SerialOneSession
  BY DEF IndInv, Reachable, SerialOneSession, OneSession, Draining
<1> QED BY <1>1, EngineInvariant, PTL

(* With calls one after the other, Status says "disconnected" only when no   *)
(* session runs but those being drained or given up.                         *)
THEOREM DisconnectedMeansDownThm == Spec => []DisconnectedMeansDown
<1>1. IndInv => DisconnectedMeansDown
  <2> SUFFICES ASSUME IndInv, ~overlapped, State = "disconnected",
                      NEW i \in Sessions, Live(i)
               PROVE  Draining(i) \/ i \in abandoned
    BY DEF DisconnectedMeansDown
  <2>1. client = None
    BY DEF State
  <2> QED BY <2>1, NoneFact DEF IndInv, Reachable, Draining
<1> QED BY <1>1, EngineInvariant, PTL

(* With calls one after the other, the flags behind Status are the client's  *)
(* own, however the events of the session before it were delayed.            *)
THEOREM FlagsAboutClientThm == Spec => []FlagsAboutClient
<1>1. IndInv => FlagsAboutClient
  BY DEF IndInv
<1> QED BY <1>1, EngineInvariant, PTL
=============================================================================
