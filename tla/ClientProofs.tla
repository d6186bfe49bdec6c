---------------------------- MODULE ClientProofs ----------------------------
(***************************************************************************)
(* Proofs about Client, for every set of goroutines.                       *)
(***************************************************************************)
EXTENDS Client, TLAPS

(* The initial state satisfies the invariant about the lifetime. *)
LEMMA InitLife == Init => LifeInv
  BY ThreadsAssumption
  DEF Init, LifeInv, TypeOK, Life, OneReleases, LockHeld, Control, Releasing,
      Release, Threads, PCs, BlockedPCs

(* Every step of every goroutine preserves the invariant about the lifetime. *)
LEMMA NextLife == LifeInv /\ [Next]_vars => LifeInv'
<1> SUFFICES ASSUME LifeInv, [Next]_vars PROVE LifeInv'
  OBVIOUS
<1> USE ThreadsAssumption
    DEF LifeInv, TypeOK, Life, OneReleases, LockHeld, Control, Releasing,
        Release, Threads, PCs, BlockedPCs, goVars, coreVars
<1>1. CASE New
  <2>1. /\ mu' = mu /\ running' = running /\ blocked' = blocked /\ done' = done
        /\ sawRunning' = sawRunning /\ ctxDone' = ctxDone
        /\ attached' = attached /\ ready' = ready /\ stopPosted' = stopPosted
        /\ dangling' = dangling
    BY <1>1 DEF New
  <2>2. \A t \in Threads : pc[t] = "new"
    BY <1>1 DEF New
  <2>3. CASE /\ handle' = "live" /\ obj' = "live" /\ cptr' = TRUE
             /\ pc' = [t \in Threads |-> "idle"]
             /\ UNCHANGED freed
    <3>1. \A t \in Threads : pc'[t] = "idle"
      BY <2>3
    <3>2. ~freed'
      BY <1>1, <2>3 DEF New
    <3> QED BY <2>1, <2>2, <2>3, <3>1, <3>2
  <2>4. CASE /\ handle' = "deleted"
             /\ UNCHANGED <<obj, cptr, pc, freed>>
    BY <1>1, <2>1, <2>4 DEF New
  <2>5. CASE /\ handle' = "deleted" /\ obj' = "deleted" /\ freed' = TRUE
             /\ UNCHANGED <<cptr, pc>>
    BY <1>1, <2>1, <2>2, <2>5 DEF New
  <2> QED BY <1>1, <2>3, <2>4, <2>5 DEF New
<1>2. CASE Cancel
  BY <1>2 DEF Cancel
<1>3. ASSUME NEW c \in Connectors, ConnectRejected(c) PROVE LifeInv'
  BY <1>3 DEF ConnectRejected, Goto
<1>4. ASSUME NEW c \in Connectors, ConnectBegin(c) PROVE LifeInv'
  BY <1>4 DEF ConnectBegin, Goto, Advance
<1>5. ASSUME NEW c \in Connectors, ConnectStep(c) PROVE LifeInv'
  <2>1. CASE ConnectDone(c)
    BY <1>5, <2>1 DEF ConnectDone, Goto
  <2>2. CASE ConnectCancelled(c)
    BY <1>5, <2>2 DEF ConnectCancelled, Goto
  <2>3. CASE ConnectStop(c)
    BY <1>5, <2>3 DEF ConnectStop, Goto, CoreStop, TouchObject
  <2>4. CASE ConnectDrain(c)
    BY <1>5, <2>4 DEF ConnectDrain, Goto
  <2> QED BY <1>5, <2>1, <2>2, <2>3, <2>4 DEF ConnectStep
<1>6. ASSUME NEW c \in Connectors, BlockedStep(c) \/ RunEnded(c) PROVE LifeInv'
  <2>1. CASE EnterC(c)
    BY <1>6, <2>1 DEF EnterC
  <2>2. CASE Attach(c)
    BY <1>6, <2>2 DEF Attach, Advance, TouchObject
  <2>3. CASE Setup(c)
    BY <1>6, <2>3 DEF Setup, Advance, TouchObject
  <2>4. CASE EnableForeign(c)
    BY <1>6, <2>4 DEF EnableForeign, Advance, TouchObject
  <2>5. CASE RunStopped(c) \/ RunEnded(c)
    BY <1>6, <2>5 DEF RunStopped, RunEnded, Advance, TouchObject
  <2>6. CASE SendDone(c)
    BY <1>6, <2>6 DEF SendDone, Advance
  <2> QED BY <1>6, <2>1, <2>2, <2>3, <2>4, <2>5, <2>6 DEF BlockedStep
<1>7. ASSUME NEW c \in Connectors, Callback(c) PROVE LifeInv'
  BY <1>7 DEF Callback
<1>8. ASSUME NEW s \in Stoppers, StopFreed(s) \/ StopBegin(s) \/ StopCall(s)
      PROVE LifeInv'
  <2>1. CASE StopFreed(s)
    BY <1>8, <2>1 DEF StopFreed, vars
  <2>2. CASE StopBegin(s)
    BY <1>8, <2>2 DEF StopBegin, Goto
  <2>3. CASE StopCall(s)
    BY <1>8, <2>3 DEF StopCall, Goto, CoreStop, TouchObject
  <2> QED BY <1>8, <2>1, <2>2, <2>3
<1>9. ASSUME NEW t \in Connectors \cup Stoppers, ReleaseStep(t) PROVE LifeInv'
  <2>1. CASE Finish(t)
    BY <1>9, <2>1 DEF Finish, Goto, Locked
  <2>2. CASE FreeBegin(t)
    <3>1. CASE freed
      <4>1. /\ mu' = mu /\ freed' = freed /\ cptr' = cptr /\ obj' = obj
            /\ handle' = handle /\ running' = running /\ blocked' = blocked
            /\ done' = done /\ sawRunning' = sawRunning /\ ctxDone' = ctxDone
            /\ attached' = attached /\ ready' = ready
            /\ stopPosted' = stopPosted /\ dangling' = dangling
        BY <2>2, <3>1 DEF FreeBegin
      <4>2. /\ pc[t] = "free" /\ After(t) \in {"returned", "idle"}
            /\ pc' = [pc EXCEPT ![t] = After(t)]
        BY <2>2, <3>1 DEF FreeBegin, Goto, After
      <4>3. \A u \in Threads : Releasing(u)' = Releasing(u) /\ (u # t => pc'[u] = pc[u])
        BY <1>9, <4>2
      <4>4. Life' /\ OneReleases' /\ LockHeld'
        BY <1>9, <3>1, <4>1, <4>2, <4>3
      <4>5. TypeOK' /\ Control'
        BY <1>9, <3>1, <4>1, <4>2 DEF After
      <4> QED BY <4>4, <4>5
    <3>2. CASE ~freed
      BY <1>9, <2>2, <3>2 DEF FreeBegin, Goto, Locked
    <3> QED BY <3>1, <3>2
  <2>3. CASE FreeObject(t)
    BY <1>9, <2>3 DEF FreeObject, Goto, TouchObject
  <2>4. CASE FreeHandle(t)
    BY <1>9, <2>4 DEF FreeHandle, Goto, After
  <2> QED BY <1>9, <2>1, <2>2, <2>3, <2>4 DEF ReleaseStep
<1>10. ASSUME NEW r \in Readers, StatsBegin(r) \/ StatsGone(r) \/ StatsEnd(r)
       PROVE LifeInv'
  <2>1. CASE StatsBegin(r)
    BY <1>10, <2>1 DEF StatsBegin, Goto, Locked
  <2>2. CASE StatsGone(r)
    BY <1>10, <2>2 DEF StatsGone, vars
  <2>3. CASE StatsEnd(r)
    BY <1>10, <2>3 DEF StatsEnd, Goto, TouchObject
  <2> QED BY <1>10, <2>1, <2>2, <2>3
<1>11. CASE UNCHANGED vars
  BY <1>11 DEF vars
<1> QED
  BY <1>1, <1>2, <1>3, <1>4, <1>5, <1>6, <1>7, <1>8, <1>9, <1>10, <1>11 DEF Next

(* Life holds, however many goroutines share the client. *)
LEMMA LifeInvariant == Spec => []LifeInv
  BY InitLife, NextLife, PTL DEF Spec

(* free() releases the C++ object and the handle once, whichever goroutines  *)
(* race through finish(), and never under a TransportStats.                  *)
THEOREM ReleasedOnceThm == Spec => []ReleasedOnce
<1>1. LifeInv => ReleasedOnce
  BY DEF LifeInv, ReleasedOnce, Life, OneReleases, LockHeld, Releasing, Threads
<1> QED BY <1>1, LifeInvariant, PTL

(* A Connect that made its C call returns after that call, and after someone *)
(* has taken on the release.                                                 *)
THEOREM ConnectReleasesThm == Spec => []ConnectReleases
<1>1. LifeInv => ConnectReleases
  BY DEF LifeInv, ConnectReleases, Life, Control, Releasing, Threads
<1> QED BY <1>1, LifeInvariant, PTL

(* The goroutine of a Connect, once spawned, never goes back. *)
LEMMA BegunStays ==
    ASSUME LifeInv, [Next]_vars
    PROVE  \A c \in Connectors : blocked'[c] = "none" => blocked[c] = "none"
<1>1. ASSUME NEW d \in Connectors,
             ConnectBegin(d) \/ BlockedStep(d) \/ RunEnded(d)
      PROVE  \A c \in Connectors : blocked'[c] = "none" => blocked[c] = "none"
  BY <1>1 DEF ConnectBegin, BlockedStep, EnterC, Attach, Setup, EnableForeign,
    RunStopped, SendDone, RunEnded, Advance, LifeInv, TypeOK
<1>2. \/ blocked' = blocked
      \/ \E d \in Connectors : ConnectBegin(d) \/ BlockedStep(d) \/ RunEnded(d)
  BY DEF Next, New, Cancel, ConnectRejected, ConnectStep, ConnectDone,
    ConnectCancelled, ConnectStop, ConnectDrain, Callback, StopFreed,
    StopBegin, StopCall, ReleaseStep, Finish, FreeBegin, FreeObject,
    FreeHandle, StatsBegin, StatsGone, StatsEnd, vars
<1> QED BY <1>1, <1>2

(* A first Stop, or a second Connect, is never undone. *)
LEMMA CancelOnlyBefore ==
    ASSUME LifeInv, [Next]_vars, CancelOnly' PROVE CancelOnly
<1>1. \A s \in Stoppers : sawRunning'[s] = "never" => sawRunning[s] = "never"
  <2>1. ASSUME NEW s \in Stoppers, StopBegin(s)
        PROVE  \A u \in Stoppers : sawRunning'[u] = "never" => sawRunning[u] = "never"
    BY <2>1 DEF StopBegin, LifeInv, TypeOK
  <2>2. \/ sawRunning' = sawRunning
        \/ \E s \in Stoppers : StopBegin(s)
    BY DEF Next, New, Cancel, ConnectRejected, ConnectBegin, ConnectStep,
      ConnectDone, ConnectCancelled, ConnectStop, ConnectDrain, BlockedStep,
      EnterC, Attach, Setup, EnableForeign, RunStopped, SendDone, RunEnded,
      Callback, StopFreed, StopCall, ReleaseStep, Finish, FreeBegin, FreeObject,
      FreeHandle, StatsBegin, StatsGone, StatsEnd, vars
  <2> QED BY <2>1, <2>2
<1>2. \A c \in Connectors : blocked'[c] = "none" => blocked[c] = "none"
  BY BegunStays
<1> QED BY <1>1, <1>2 DEF CancelOnly, OneConnect

(* A client that is only stopped through the context of its one Connect      *)
(* never uses the C++ object, nor resolves the handle, after their release.  *)
THEOREM CancelOnlyIsSafe == Spec => []NoUseAfterRelease
<1> DEFINE Alone ==
      freed => \A c \in Connectors : blocked[c] \in {"none", "sent"}
<1> DEFINE Inv == LifeInv /\ (CancelOnly => dangling = FALSE /\ Alone)
<1>1. Init => Inv
  BY InitLife DEF Init
<1>2. Inv /\ [Next]_vars => Inv'
  <2> SUFFICES ASSUME Inv, [Next]_vars, CancelOnly'
               PROVE  dangling' = FALSE /\ Alone'
    BY NextLife
  <2>1. CancelOnly /\ dangling = FALSE /\ Alone
    BY CancelOnlyBefore
  <2>0. \A s \in Stoppers : ~StopBegin(s) /\ ~StopCall(s) /\ ~ReleaseStep(s)
    <3> SUFFICES ASSUME NEW s \in Stoppers
                 PROVE  ~StopBegin(s) /\ ~StopCall(s) /\ ~ReleaseStep(s)
      OBVIOUS
    <3>1. ~StopBegin(s)
      BY DEF StopBegin, CancelOnly, LifeInv, TypeOK
    <3>2. pc[s] \in {"new", "idle"}
      BY <2>1 DEF CancelOnly, LifeInv, Control
    <3> QED BY <3>1, <3>2 DEF StopCall, ReleaseStep, Finish, FreeBegin,
          FreeObject, FreeHandle, Goto
  (* What a step may use is there: in C, in TransportStats, when releasing. *)
  <2>2. \A c \in Connectors : blocked[c] \notin {"none", "sent"} => ~freed
    BY <2>1
  <2>3. ~freed => obj # "deleted" /\ (cptr => obj = "live" /\ handle = "live")
    BY DEF LifeInv, Life
  <2>4. cptr => ~freed
    BY DEF LifeInv, Life
  <2>5. \A c \in Connectors :
          blocked[c] \notin {"none", "sent"} => obj # "deleted" /\ handle = "live"
    BY <2>2 DEF LifeInv, Life, Control, Threads
  <2>6. dangling' = FALSE
    <3>1. ASSUME NEW c \in Connectors, ConnectStep(c) PROVE dangling' = FALSE
      BY <3>1, <2>1, <2>3, <2>4
      DEF ConnectStep, ConnectDone, ConnectCancelled, ConnectStop, ConnectDrain,
          CoreStop, TouchObject, coreVars
    <3>2. ASSUME NEW c \in Connectors,
                 BlockedStep(c) \/ RunEnded(c) \/ Callback(c)
          PROVE  dangling' = FALSE
      BY <3>2, <2>1, <2>5
      DEF BlockedStep, EnterC, Attach, Setup, EnableForeign, RunStopped,
          SendDone, RunEnded, Callback, Advance, TouchObject
    <3>3. ASSUME NEW t \in Connectors, ReleaseStep(t) PROVE dangling' = FALSE
      <4>1. pc[t] = "cfree" => obj = "live"
        BY DEF LifeInv, Life, OneReleases, Releasing, Threads
      <4>2. pc[t] = "hdel" => handle = "live"
        BY DEF LifeInv, Life, OneReleases, Releasing, Threads
      <4> QED BY <2>1, <3>3, <4>1, <4>2
        DEF ReleaseStep, Finish, FreeBegin, FreeObject, FreeHandle, Goto,
            TouchObject
    <3>4. ASSUME NEW r \in Readers, StatsBegin(r) \/ StatsGone(r) \/ StatsEnd(r)
          PROVE  dangling' = FALSE
      BY <3>4, <2>1, <2>3
      DEF LifeInv, LockHeld, StatsBegin, StatsGone, StatsEnd, Goto, TouchObject,
          vars
    <3>5. CASE New \/ Cancel \/ UNCHANGED vars
      BY <2>1, <3>5 DEF New, Cancel, vars
    <3>6. ASSUME NEW c \in Connectors, ConnectRejected(c) \/ ConnectBegin(c)
          PROVE  dangling' = FALSE
      BY <2>1, <3>6 DEF ConnectRejected, ConnectBegin
    <3>7. ASSUME NEW s \in Stoppers, StopFreed(s) PROVE dangling' = FALSE
      BY <2>1, <3>7 DEF StopFreed, vars
    <3> QED BY <2>0, <3>1, <3>2, <3>3, <3>4, <3>5, <3>6, <3>7 DEF Next
  <2>7. Alone'
    <3>1. ASSUME NEW c \in Connectors, ConnectBegin(c) PROVE Alone'
      BY <3>1 DEF ConnectBegin, Locked
    <3>2. ASSUME NEW c \in Connectors, BlockedStep(c) \/ RunEnded(c)
          PROVE  Alone'
      BY <3>2, <2>1, <2>2
      DEF BlockedStep, EnterC, Attach, Setup, EnableForeign, RunStopped,
          SendDone, RunEnded, Advance, goVars
    <3>3. ASSUME NEW t \in Connectors, ReleaseStep(t) PROVE Alone'
      <4>1. blocked' = blocked /\ (freed' = freed \/ pc[t] = "free")
        BY <3>3 DEF ReleaseStep, Finish, FreeBegin, FreeObject, FreeHandle, Goto,
                    goVars
      <4>2. pc[t] = "free" => \A c \in Connectors : blocked[c] \in {"none", "sent"}
        BY <2>1 DEF LifeInv, Control, Release, CancelOnly, OneConnect
      <4> QED BY <2>1, <4>1, <4>2
    <3>4. CASE New
      <4>1. \A c \in Connectors : blocked[c] = "none"
        BY <3>4 DEF New, LifeInv, Life, Control, Threads
      <4> QED BY <3>4, <4>1 DEF New
    <3>5. ASSUME NEW c \in Connectors,
                 ConnectRejected(c) \/ ConnectStep(c) \/ Callback(c)
          PROVE  Alone'
      BY <2>1, <3>5
      DEF ConnectRejected, ConnectStep, ConnectDone, ConnectCancelled,
          ConnectStop, ConnectDrain, Callback, goVars
    <3>6. ASSUME NEW r \in Readers, StatsBegin(r) \/ StatsGone(r) \/ StatsEnd(r)
          PROVE  Alone'
      BY <2>1, <3>6 DEF StatsBegin, StatsGone, StatsEnd, vars
    <3>7. CASE Cancel \/ UNCHANGED vars
      BY <2>1, <3>7 DEF Cancel, vars, goVars
    <3>8. ASSUME NEW s \in Stoppers, StopFreed(s) PROVE Alone'
      BY <2>1, <3>8 DEF StopFreed, vars
    <3> QED BY <2>0, <3>1, <3>2, <3>3, <3>4, <3>5, <3>6, <3>7, <3>8 DEF Next
  <2> QED BY <2>6, <2>7
<1>3. Inv => NoUseAfterRelease
  BY DEF NoUseAfterRelease
<1> QED BY <1>1, <1>2, <1>3, PTL DEF Spec

(* The initial state satisfies Gate. *)
LEMMA InitGate == Init => Gate
  BY ThreadsAssumption DEF Init, Gate, In, Threads

(* Every step preserves Gate. *)
LEMMA NextGate == LifeInv /\ Gate /\ [Next]_vars => Gate'
<1> SUFFICES ASSUME LifeInv, Gate, [Next]_vars PROVE Gate'
  OBVIOUS
<1> USE ThreadsAssumption
    DEF LifeInv, TypeOK, Gate, In, Threads, BlockedPCs, goVars, coreVars
<1>1. CASE New
  <2>1. \A t \in Threads : pc[t] = "new"
    BY <1>1 DEF New, Life
  <2>2. /\ running' = running /\ sawRunning' = sawRunning /\ ready' = ready
        /\ stopPosted' = stopPosted /\ blocked' = blocked
    BY <1>1 DEF New
  <2>3. pc' = [t \in Threads |-> "idle"] \/ pc' = pc
    BY <1>1 DEF New
  <2> QED BY <2>1, <2>2, <2>3
<1>2. CASE Cancel
  BY <1>2 DEF Cancel
<1>3. ASSUME NEW c \in Connectors,
             ConnectRejected(c) \/ ConnectBegin(c) \/ ConnectStep(c)
      PROVE  Gate'
  <2>1. CASE ConnectRejected(c)
    BY <1>3, <2>1 DEF ConnectRejected, Goto
  <2>2. CASE ConnectBegin(c)
    BY <1>3, <2>2 DEF ConnectBegin, Goto, Advance
  <2>3. CASE ConnectStep(c)
    BY <1>3, <2>3 DEF ConnectStep, ConnectDone, ConnectCancelled, ConnectStop,
       ConnectDrain, Goto, CoreStop
  <2> QED BY <1>3, <2>1, <2>2, <2>3
<1>4. ASSUME NEW c \in Connectors,
             BlockedStep(c) \/ RunEnded(c) \/ Callback(c)
      PROVE  Gate'
  <2>1. CASE EnterC(c)
    BY <1>4, <2>1 DEF EnterC
  <2>2. CASE Attach(c)
    BY <1>4, <2>2 DEF Attach, Advance
  <2>3. CASE Setup(c)
    BY <1>4, <2>3 DEF Setup, Advance
  <2>4. CASE EnableForeign(c)
    BY <1>4, <2>4 DEF EnableForeign, Advance
  <2>5. CASE RunStopped(c) \/ RunEnded(c)
    BY <1>4, <2>5 DEF RunStopped, RunEnded, Advance
  <2>6. CASE SendDone(c)
    BY <1>4, <2>6 DEF SendDone, Advance
  <2>7. CASE Callback(c)
    BY <1>4, <2>7 DEF Callback
  <2> QED BY <1>4, <2>1, <2>2, <2>3, <2>4, <2>5, <2>6, <2>7 DEF BlockedStep
<1>5. ASSUME NEW s \in Stoppers, StopFreed(s) \/ StopBegin(s) \/ StopCall(s)
      PROVE  Gate'
  BY <1>5 DEF StopFreed, StopBegin, StopCall, Goto, CoreStop, vars
<1>6. ASSUME NEW t \in Connectors \cup Stoppers, ReleaseStep(t) PROVE Gate'
  <2>1. pc[t] = "hdel" => freed
    BY <1>6 DEF Life, Releasing
  <2> QED BY <1>6, <2>1
    DEF ReleaseStep, Finish, FreeBegin, FreeObject, FreeHandle, Goto, After
<1>7. ASSUME NEW r \in Readers, StatsBegin(r) \/ StatsGone(r) \/ StatsEnd(r)
      PROVE  Gate'
  BY <1>7 DEF StatsBegin, StatsGone, StatsEnd, Goto, vars
<1>8. CASE UNCHANGED vars
  BY <1>8 DEF vars
<1> QED BY <1>1, <1>2, <1>3, <1>4, <1>5, <1>6, <1>7, <1>8 DEF Next

(* IndInv is an invariant of the client, however many goroutines share it. *)
THEOREM ClientInvariant == Spec => []IndInv
<1>1. Init => IndInv
  BY InitLife, InitGate DEF IndInv
<1>2. IndInv /\ [Next]_vars => IndInv'
  BY NextLife, NextGate DEF IndInv
<1> QED BY <1>1, <1>2, PTL DEF Spec

(* What Stage is once the client exists, with one Connect at most past its   *)
(* checks.                                                                   *)
StageReads ==
    /\ \A c \in Connectors :
         /\ blocked[c] = "run" => Stage = IF stopPosted THEN "stopping" ELSE "up"
         /\ blocked[c] \in Early => Stage = "setup"
         /\ blocked[c] \in {"send", "sent"} =>
              Stage = IF pc[c] = "returned" THEN "ended" ELSE "stopping"
    /\ (\A c \in Connectors : blocked[c] = "none") =>
         /\ ~freed => Stage = "new"
         /\ freed /\ (\E c \in Connectors : pc[c] = "returned") => Stage = "ended"
         /\ freed /\ (\A c \in Connectors : pc[c] # "returned") => Stage = "released"

StageFacts ==
    /\ LifeInv /\ (\A t \in Threads : pc[t] = "new") => Stage = "none"
    /\ (\E t \in Threads : pc[t] # "new") /\ OneConnect => StageReads

(* The cases of Stage exclude each other. *)
LEMMA StageIs == StageFacts
<1> DEFINE Someone == \E t \in Threads : pc[t] # "new"
<1>1. ASSUME LifeInv, \A t \in Threads : pc[t] = "new" PROVE Stage = "none"
  <2>1. \A c \in Connectors : blocked[c] = "none"
    BY <1>1 DEF LifeInv, Control, Threads
  <2>2. ~In({"run"}) /\ ~In(Early) /\ ~In({"send", "sent"})
    BY <2>1 DEF In, Early
  <2> QED BY <1>1, <2>2 DEF Stage
<1> SUFFICES ASSUME Someone, OneConnect
             PROVE  StageFacts
  BY <1>1 DEF StageFacts
<1>2. ASSUME NEW c \in Connectors, blocked[c] = "run"
      PROVE  Stage = IF stopPosted THEN "stopping" ELSE "up"
  BY <1>2 DEF Stage, In
<1>3. ASSUME NEW c \in Connectors, blocked[c] \in Early PROVE Stage = "setup"
  <2>1. In(Early) /\ ~In({"run"}) /\ In(Early \cup {"run"})
    BY <1>3 DEF In, Early, OneConnect
  <2> QED BY <2>1 DEF Stage
<1>4. ASSUME NEW c \in Connectors, blocked[c] \in {"send", "sent"}
      PROVE  Stage = IF pc[c] = "returned" THEN "ended" ELSE "stopping"
  <2>1. In({"send", "sent"}) /\ ~In(Early \cup {"run"}) /\ ~In(Early) /\ ~In({"run"})
    BY <1>4 DEF In, Early, OneConnect
  <2>2. (\A d \in Connectors : blocked[d] # "none" => pc[d] = "returned")
          <=> pc[c] = "returned"
    BY <1>4 DEF OneConnect
  <2> QED BY <2>1, <2>2 DEF Stage
<1>5. ASSUME \A c \in Connectors : blocked[c] = "none"
      PROVE  /\ ~freed => Stage = "new"
             /\ freed /\ (\E c \in Connectors : pc[c] = "returned") => Stage = "ended"
             /\ freed /\ (\A c \in Connectors : pc[c] # "returned") => Stage = "released"
  <2>1. ~In({"run"}) /\ ~In(Early) /\ ~In({"send", "sent"})
    BY <1>5 DEF In, Early
  <2> QED BY <2>1 DEF Stage
<1> QED BY <1>1, <1>2, <1>3, <1>4, <1>5 DEF StageFacts, StageReads

(* Only what a Stop does itself moves its call. *)
LEMMA CallIs ==
    ASSUME LifeInv, LifeInv', NEW s \in Stoppers,
           \A u \in Stoppers \ {s} : pc'[u] = pc[u]
    PROVE  Call' = [Call EXCEPT ![s] = CASE pc'[s] = "cstop" -> "begun"
                                         [] pc'[s] \in Release -> "acted"
                                         [] OTHER -> "idle"]
  BY DEF Call, Release

(* Without a Stop that moves, Call stays. *)
LEMMA CallStays ==
    ASSUME \A u \in Stoppers : pc'[u] = pc[u] PROVE Call' = Call
  BY DEF Call

(* StageIs, in the next state. *)
LEMMA StageIsNext == StageFacts'
  BY StageIs, PTL

(* What a step must change to change Stage. *)
LEMMA StageSame ==
    ASSUME LifeInv, StageReads, StageReads',
           blocked' = blocked, freed' = freed, stopPosted' = stopPosted,
           \A d \in Connectors : pc'[d] = "returned" <=> pc[d] = "returned"
    PROVE  Stage' = Stage
<1>1. CASE \A d \in Connectors : blocked[d] = "none"
  <2>1. CASE ~freed
    BY <1>1, <2>1 DEF StageReads
  <2>2. CASE freed /\ \E d \in Connectors : pc[d] = "returned"
    BY <1>1, <2>2 DEF StageReads
  <2>3. CASE freed /\ \A d \in Connectors : pc[d] # "returned"
    BY <1>1, <2>3 DEF StageReads
  <2> QED BY <2>1, <2>2, <2>3
<1>2. CASE \E d \in Connectors : blocked[d] # "none"
  <2>1. PICK d \in Connectors : blocked[d] # "none"
    BY <1>2
  <2> QED BY <2>1 DEF StageReads, LifeInv, TypeOK, BlockedPCs, Early
<1> QED BY <1>1, <1>2

(* A step of a Connect, or of its goroutine, is a step of the contract. *)
LEMMA ConnectServes ==
    ASSUME IndInv, IndInv', OneConnect, OneConnect', NEW c \in Connectors,
           \/ ConnectRejected(c) \/ ConnectBegin(c) \/ ConnectStep(c)
           \/ BlockedStep(c) \/ RunEnded(c) \/ Callback(c) \/ ReleaseStep(c)
    PROVE  Contract!Next \/ UNCHANGED <<Stage, Call>>
<1> USE ThreadsAssumption
<1>1. \A t \in Threads : pc[t] # "new"
  BY DEF IndInv, Gate, LifeInv, Control, Threads, ConnectRejected, ConnectBegin,
    ConnectStep, ConnectDone, ConnectCancelled, ConnectStop, ConnectDrain,
    BlockedStep, EnterC, Attach, Setup, EnableForeign, RunStopped, SendDone,
    RunEnded, Callback, ReleaseStep, Finish, FreeBegin, FreeObject, FreeHandle,
    Goto, Advance
<1>2. pc' = pc \/ \E to \in PCs \ {"new"} : pc' = [pc EXCEPT ![c] = to]
  BY DEF ConnectRejected, ConnectBegin, ConnectStep, ConnectDone,
    ConnectCancelled, ConnectStop, ConnectDrain, BlockedStep, EnterC, Attach,
    Setup, EnableForeign, RunStopped, SendDone, RunEnded, Callback, ReleaseStep,
    Finish, FreeBegin, FreeObject, FreeHandle, Goto, After, PCs, Release
<1>3. Call' = Call
  <2>1. \A s \in Stoppers : pc'[s] = pc[s]
    BY <1>2 DEF IndInv, LifeInv, TypeOK, Threads
  <2> QED BY <2>1, CallStays
<1>4. \A t \in Threads : pc'[t] # "new"
  BY <1>1, <1>2 DEF IndInv, LifeInv, TypeOK
<1>5. StageReads /\ StageReads'
  BY <1>1, <1>4, StageIs, StageIsNext DEF StageFacts, Threads
<1>6. SUFFICES \/ Stage' = Stage
               \/ Stage = "new" /\ Stage' = "setup"
               \/ Stage = "setup" /\ Stage' = "up"
               \/ Stage \in {"setup", "up"} /\ Stage' = "stopping"
               \/ Stage \in {"stopping", "released"} /\ Stage' = "ended"
  BY <1>3 DEF Contract!Next, Contract!Moves, Contract!ConnectStarts,
    Contract!GateOpens, Contract!WindsDown, Contract!ConnectReturns
<1> HIDE DEF Stage, Call
<1>7. CASE ConnectRejected(c)
  <2>1. /\ blocked' = blocked /\ freed' = freed /\ stopPosted' = stopPosted
        /\ blocked[c] = "none" /\ pc[c] = "idle" /\ pc'[c] = "returned"
        /\ freed \/ running
    BY <1>7 DEF ConnectRejected, Goto, goVars, coreVars, IndInv, LifeInv, TypeOK,
      Control, Threads
  <2>2. CASE \A d \in Connectors : blocked[d] = "none"
    <3>1. freed
      BY <2>1, <2>2 DEF IndInv, Gate, In
    <3>2. Stage' = "ended" /\ Stage \in {"released", "ended"}
      BY <1>5, <2>1, <2>2, <3>1 DEF StageReads
    <3> QED BY <3>2
  <2>3. CASE \E d \in Connectors : blocked[d] # "none"
    <3>1. PICK d \in Connectors : blocked[d] # "none"
      BY <2>3
    <3>2. pc'[d] = pc[d]
      BY <1>2, <2>1, <3>1 DEF IndInv, LifeInv, TypeOK, Threads
    <3> QED BY <1>5, <2>1, <3>1, <3>2
          DEF StageReads, IndInv, LifeInv, TypeOK, BlockedPCs, Early
  <2> QED BY <2>2, <2>3
<1>8. CASE ConnectBegin(c)
  <2>1. (\A d \in Connectors : blocked[d] = "none") /\ ~freed
    BY <1>8 DEF ConnectBegin, Advance, OneConnect, IndInv, LifeInv, TypeOK
  <2>2. blocked'[c] = "spawned"
    BY <1>8 DEF ConnectBegin, Advance, IndInv, LifeInv, TypeOK
  <2> QED BY <1>5, <2>1, <2>2 DEF StageReads, Early
<1>9. CASE ConnectStep(c)
  <2>1. /\ blocked' = blocked /\ freed' = freed
        /\ stopPosted' = stopPosted \/ stopPosted' = (stopPosted \/ ready)
    BY <1>9 DEF ConnectStep, ConnectDone, ConnectCancelled, ConnectStop,
      ConnectDrain, CoreStop, goVars, coreVars
  <2>2. \A d \in Connectors : pc'[d] = "returned" <=> pc[d] = "returned"
    BY <1>9 DEF ConnectStep, ConnectDone, ConnectCancelled, ConnectStop,
      ConnectDrain, Goto, IndInv, LifeInv, TypeOK, Threads
  <2>3. CASE stopPosted' = stopPosted
    BY StageSame, <1>5, <2>1, <2>2, <2>3 DEF IndInv
  <2>4. CASE stopPosted' # stopPosted
    <3>1. ready /\ ~stopPosted /\ stopPosted'
      BY <2>1, <2>4 DEF IndInv, LifeInv, TypeOK
    <3>2. PICK d \in Connectors : blocked[d] \in {"run", "send", "sent"}
      BY <3>1 DEF IndInv, Gate, In
    <3> QED BY <1>5, <2>1, <2>2, <3>1, <3>2 DEF StageReads
  <2> QED BY <2>3, <2>4
<1>10. CASE BlockedStep(c) \/ RunEnded(c)
  <2>1. pc' = pc /\ freed' = freed /\ stopPosted' = stopPosted
    BY <1>10 DEF BlockedStep, EnterC, Attach, Setup, EnableForeign, RunStopped,
      SendDone, RunEnded, goVars, coreVars
  <2>2. pc[c] # "returned" \/ blocked[c] = "sent" \/ blocked[c] = "none"
    BY DEF IndInv, LifeInv, Control
  <2>3. CASE EnterC(c) \/ Attach(c) \/ Setup(c)
    <3>1. blocked[c] \in Early /\ blocked'[c] \in Early \cup {"send"}
      BY <2>3 DEF EnterC, Attach, Setup, Advance, Early, IndInv, LifeInv, TypeOK
    <3> QED BY <1>5, <2>1, <2>2, <3>1 DEF StageReads, Early
  <2>4. CASE EnableForeign(c)
    <3>1. blocked[c] = "started" /\ blocked'[c] = "run"
      BY <2>4 DEF EnableForeign, Advance, IndInv, LifeInv, TypeOK
    <3>2. ~stopPosted
      BY <3>1 DEF IndInv, Gate, In, OneConnect
    <3> QED BY <1>5, <2>1, <3>1, <3>2 DEF StageReads, Early
  <2>5. CASE RunStopped(c) \/ RunEnded(c)
    <3>1. blocked[c] = "run" /\ blocked'[c] = "send"
      BY <2>5 DEF RunStopped, RunEnded, Advance, IndInv, LifeInv, TypeOK
    <3> QED BY <1>5, <2>1, <2>2, <3>1 DEF StageReads
  <2>6. CASE SendDone(c)
    <3>1. blocked[c] = "send" /\ blocked'[c] = "sent"
      BY <2>6 DEF SendDone, Advance, IndInv, LifeInv, TypeOK
    <3> QED BY <1>5, <2>1, <2>2, <3>1 DEF StageReads
  <2> QED BY <1>10, <2>3, <2>4, <2>5, <2>6 DEF BlockedStep
<1>11. CASE Callback(c)
  BY <1>11, StageSame, <1>5 DEF Callback, goVars, coreVars, IndInv
<1>12. CASE ReleaseStep(c)
  <2>1. blocked' = blocked /\ stopPosted' = stopPosted /\ blocked[c] = "sent"
    BY <1>12 DEF ReleaseStep, Finish, FreeBegin, FreeObject, FreeHandle, Goto,
      coreVars, IndInv, LifeInv, Control, Release
  <2>2. pc[c] # "returned"
    BY <1>12 DEF ReleaseStep, Finish, FreeBegin, FreeObject, FreeHandle, Goto
  <2> QED BY <1>5, <2>1, <2>2 DEF StageReads
<1> QED BY <1>7, <1>8, <1>9, <1>10, <1>11, <1>12

(* So is a step of a Stop. *)
LEMMA StopServes ==
    ASSUME IndInv, IndInv', OneConnect, OneConnect', NEW s \in Stoppers,
           StopBegin(s) \/ StopCall(s) \/ ReleaseStep(s)
    PROVE  Contract!Next \/ UNCHANGED <<Stage, Call>>
<1> USE ThreadsAssumption
<1>1. \A t \in Threads : pc[t] # "new"
  BY DEF IndInv, Gate, Threads, StopBegin, StopCall, ReleaseStep, Finish,
    FreeBegin, FreeObject, FreeHandle, Goto
<1>2. \E to \in PCs \ {"new"} : pc' = [pc EXCEPT ![s] = to]
  BY DEF StopBegin, StopCall, ReleaseStep, Finish, FreeBegin, FreeObject,
    FreeHandle, Goto, After, PCs, Release
<1>3. /\ \A t \in Threads : pc'[t] # "new"
      /\ \A t \in Threads \ {s} : pc'[t] = pc[t]
  BY <1>1, <1>2 DEF IndInv, LifeInv, TypeOK
<1>4. StageReads /\ StageReads'
  BY <1>1, <1>3, StageIs, StageIsNext DEF StageFacts, Threads
<1>5. \A c \in Connectors : pc'[c] = pc[c]
  BY <1>3 DEF Threads
<1>6. Call' = [Call EXCEPT ![s] = CASE pc'[s] = "cstop" -> "begun"
                                    [] pc'[s] \in Release -> "acted"
                                    [] OTHER -> "idle"]
  BY <1>3, CallIs DEF IndInv, Threads
<1>7. Call[s] = CASE pc[s] = "cstop" -> "begun"
                  [] pc[s] \in Release -> "acted"
                  [] OTHER -> "idle"
  BY DEF Call
<1>8. DOMAIN Call = Stoppers
  BY DEF Call
<1> HIDE DEF Stage, Call
<1>9. CASE StopBegin(s)
  <2>1. /\ blocked' = blocked /\ freed' = freed /\ stopPosted' = stopPosted
        /\ ~freed /\ pc[s] = "idle" /\ pc'[s] = "cstop"
    BY <1>9 DEF StopBegin, Goto, goVars, coreVars, IndInv, LifeInv, TypeOK, Threads
  <2>2. Stage' = Stage
    BY <1>4, <1>5, <2>1, StageSame DEF IndInv
  <2>3. Stage \notin {"none", "released"}
    BY <1>4, <2>1 DEF StageReads, IndInv, LifeInv, TypeOK, BlockedPCs, Early
  <2>4. Call[s] = "idle" /\ Call' = [Call EXCEPT ![s] = "begun"]
    BY <1>6, <1>7, <2>1 DEF Release
  <2> QED BY <2>2, <2>3, <2>4 DEF Contract!Next, Contract!StopBegins
<1>10. CASE StopCall(s)
  <2>1. /\ blocked' = blocked /\ freed' = freed
        /\ stopPosted' = (stopPosted \/ ready)
        /\ pc[s] = "cstop"
        /\ pc'[s] = IF sawRunning[s] = "yes" THEN "idle" ELSE "finish"
    BY <1>10 DEF StopCall, CoreStop, Goto, goVars, coreVars, IndInv, LifeInv,
      TypeOK, Threads
  <2>2. Stage' = IF Stage = "up" THEN "stopping" ELSE Stage
    <3>1. CASE ready
      <4>1. PICK c \in Connectors : blocked[c] \in {"run", "send", "sent"}
        BY <3>1 DEF IndInv, Gate, In
      <4>2. stopPosted' = TRUE /\ pc'[c] = pc[c]
        BY <1>5, <2>1, <3>1
      <4> QED BY <1>4, <2>1, <4>1, <4>2 DEF StageReads
    <3>2. CASE ~ready
      <4>1. stopPosted' = stopPosted
        BY <2>1, <3>2 DEF IndInv, LifeInv, TypeOK
      <4>2. Stage' = Stage
        BY <1>4, <1>5, <2>1, <4>1, StageSame DEF IndInv
      <4>3. \A c \in Connectors : blocked[c] # "run"
        BY <3>2 DEF IndInv, Gate, In
      <4>4. Stage # "up"
        BY <1>4, <4>3 DEF StageReads, IndInv, LifeInv, TypeOK, BlockedPCs, Early
      <4> QED BY <4>2, <4>4
    <3> QED BY <3>1, <3>2
  <2>3. Call[s] = "begun"
    BY <1>7, <2>1 DEF Release
  <2>4. CASE sawRunning[s] = "yes"
    <3>1. PICK c \in Connectors : blocked[c] \in BlockedPCs \ {"none"}
      BY <2>4 DEF IndInv, Gate, In
    <3>2. Stage # "new"
      BY <1>4, <3>1 DEF StageReads, BlockedPCs, Early
    <3>3. Call' = [Call EXCEPT ![s] = "idle"]
      BY <1>6, <2>1, <2>4 DEF Release
    <3> QED BY <2>2, <2>3, <3>2, <3>3 DEF Contract!Next, Contract!StopActs
  <2>5. CASE sawRunning[s] # "yes"
    <3>1. Call' = [Call EXCEPT ![s] = "acted"]
      BY <1>6, <2>1, <2>5 DEF Release
    <3> QED BY <2>2, <2>3, <3>1 DEF Contract!Next, Contract!StopActs
  <2> QED BY <2>4, <2>5
<1>11. CASE ReleaseStep(s)
  <2>1. blocked' = blocked /\ stopPosted' = stopPosted
    BY <1>11 DEF ReleaseStep, Finish, FreeBegin, FreeObject, FreeHandle, coreVars
  <2>2. pc[s] \in Release /\ Call[s] = "acted"
    BY <1>7, <1>11 DEF ReleaseStep, Finish, FreeBegin, FreeObject, FreeHandle,
      Goto, Release
  <2>3. CASE freed' = freed /\ pc'[s] \in Release
    <3>1. Call' = Call
      BY <1>6, <1>8, <2>2, <2>3 DEF Release, Call
    <3> QED BY <1>4, <1>5, <2>1, <2>3, <3>1, StageSame DEF IndInv
  <2>4. CASE freed' = freed /\ pc'[s] \notin Release
    <3>1. freed /\ pc'[s] = "idle"
      BY <1>11, <2>4 DEF ReleaseStep, Finish, FreeBegin, FreeObject, FreeHandle,
        Goto, After, Release, IndInv, LifeInv, TypeOK, Threads, Life, Releasing
    <3>2. Call' = [Call EXCEPT ![s] = "idle"]
      BY <1>6, <3>1 DEF Release
    <3>3. Stage' = Stage
      BY <1>4, <1>5, <2>1, <2>4, StageSame DEF IndInv
    <3>4. Stage \notin {"none", "new"}
      BY <1>4, <3>1 DEF StageReads, IndInv, LifeInv, TypeOK, BlockedPCs, Early
    <3> QED BY <2>2, <3>2, <3>3, <3>4 DEF Contract!Next, Contract!StopReturns
  <2>5. CASE freed' # freed
    <3>1. ~freed /\ freed' /\ pc'[s] = "cfree"
      BY <1>11, <2>5 DEF ReleaseStep, Finish, FreeBegin, FreeObject, FreeHandle,
        Goto, goVars, IndInv, LifeInv, TypeOK, Threads
    <3>2. Call' = Call
      BY <1>6, <1>8, <2>2, <3>1 DEF Release, Call
    <3>3. CASE \A c \in Connectors : blocked[c] = "none"
      <4>1. \A c \in Connectors : pc'[c] # "returned"
        BY <1>5, <3>1, <3>3 DEF IndInv, Gate, In
      <4>2. Stage = "new" /\ Stage' = "released"
        BY <1>4, <2>1, <3>1, <3>3, <4>1 DEF StageReads
      <4> QED BY <2>2, <3>2, <4>2
        DEF Contract!Next, Contract!StopReleases, Contract!Moves
    <3>4. CASE \E c \in Connectors : blocked[c] # "none"
      <4>1. PICK c \in Connectors : blocked[c] # "none"
        BY <3>4
      <4>2. Stage' = Stage
        BY <1>4, <1>5, <2>1, <4>1
        DEF StageReads, IndInv, LifeInv, TypeOK, BlockedPCs, Early
      <4> QED BY <3>2, <4>2
    <3> QED BY <3>3, <3>4
  <2> QED BY <2>3, <2>4, <2>5
<1> QED BY <1>9, <1>10, <1>11

(* New gives the client to everybody at once, or leaves none behind. *)
LEMMA NewServes ==
    ASSUME IndInv, IndInv', OneConnect', New
    PROVE  Contract!Next \/ UNCHANGED <<Stage, Call>>
<1> USE ThreadsAssumption
<1>1. /\ \A t \in Threads : pc[t] = "new"
      /\ ~freed /\ blocked' = blocked
      /\ \A c \in Connectors : blocked[c] = "none"
  BY DEF New, IndInv, LifeInv, Life, Control, Threads
<1>2. Stage = "none"
  BY <1>1, StageIs DEF StageFacts, IndInv
<1>3. CASE pc' = pc
  <2>1. Stage' = "none"
    BY <1>1, <1>3, StageIsNext DEF StageFacts, IndInv
  <2>2. Call' = Call
    BY <1>3, CallStays
  <2> QED BY <1>2, <2>1, <2>2
<1>4. CASE pc' = [t \in Threads |-> "idle"] /\ UNCHANGED freed
  <2>1. Call' = Call
    BY <1>1, <1>4 DEF Call, Threads, Release
  <2>2. CASE Threads = {}
    <3>1. Stage' = "none"
      BY <2>2, StageIsNext DEF StageFacts, IndInv
    <3> QED BY <1>2, <2>1, <3>1
  <2>3. CASE Threads # {}
    <3>1. \E t \in Threads : pc'[t] # "new"
      BY <1>4, <2>3
    <3>2. StageReads'
      BY <3>1, StageIsNext DEF StageFacts
    <3>3. Stage' = "new"
      BY <1>1, <1>4, <3>2 DEF StageReads
    <3> QED BY <1>2, <2>1, <3>3
      DEF Contract!Next, Contract!Created, Contract!Moves
  <2> QED BY <2>2, <2>3
<1> QED BY <1>3, <1>4 DEF New

(* Every step of the client is a step of the contract or leaves it alone. *)
LEMMA StepServes ==
    IndInv /\ IndInv' /\ [Next]_vars =>
        [OneConnect' => Contract!Next]_<<Stage, Call>>
<1> SUFFICES ASSUME IndInv, IndInv', [Next]_vars, OneConnect'
             PROVE  Contract!Next \/ UNCHANGED <<Stage, Call>>
  OBVIOUS
<1>1. OneConnect
  BY BegunStays DEF OneConnect, IndInv
<1>2. ASSUME UNCHANGED <<pc, blocked, freed, stopPosted>>
      PROVE  UNCHANGED <<Stage, Call>>
  BY <1>2 DEF Stage, Call, In
<1>3. CASE New
  BY <1>3, NewServes
<1>4. ASSUME NEW c \in Connectors,
             \/ ConnectRejected(c) \/ ConnectBegin(c) \/ ConnectStep(c)
             \/ BlockedStep(c) \/ RunEnded(c) \/ Callback(c) \/ ReleaseStep(c)
      PROVE  Contract!Next \/ UNCHANGED <<Stage, Call>>
  BY <1>1, <1>4, ConnectServes
<1>5. ASSUME NEW s \in Stoppers, StopBegin(s) \/ StopCall(s) \/ ReleaseStep(s)
      PROVE  Contract!Next \/ UNCHANGED <<Stage, Call>>
  BY <1>1, <1>5, StopServes
<1>6. ASSUME NEW s \in Stoppers, StopFreed(s) PROVE UNCHANGED <<Stage, Call>>
  BY <1>2, <1>6 DEF StopFreed, vars
<1>7. CASE Cancel \/ UNCHANGED vars
  BY <1>2, <1>7 DEF Cancel, vars, coreVars, goVars
<1>8. ASSUME NEW r \in Readers, StatsBegin(r) \/ StatsGone(r) \/ StatsEnd(r)
      PROVE  UNCHANGED <<Stage, Call>>
  <2>1. /\ blocked' = blocked /\ freed' = freed /\ stopPosted' = stopPosted
        /\ \A t \in Connectors \cup Stoppers : pc'[t] = pc[t]
    BY <1>8, ThreadsAssumption DEF StatsBegin, StatsGone, StatsEnd, Goto, vars,
      coreVars, IndInv, LifeInv, TypeOK, Threads
  <2>2. Call' = Call
    BY <2>1, CallStays
  <2>3. /\ \A t \in Threads : pc[t] # "new"
        /\ \A t \in Threads : pc'[t] # "new"
    <3>1. pc[r] # "new" /\ pc'[r] # "new"
      BY <1>8 DEF StatsBegin, StatsGone, StatsEnd, Goto, vars, IndInv, LifeInv,
        TypeOK, Threads
    <3> QED BY <3>1 DEF IndInv, Gate, Threads
  <2>4. StageReads /\ StageReads'
    BY <1>1, <1>8, <2>3, StageIs, StageIsNext DEF StageFacts, Threads
  <2>5. Stage' = Stage
    BY <2>1, <2>4, StageSame DEF IndInv
  <2> QED BY <2>2, <2>5
<1> QED BY <1>3, <1>4, <1>5, <1>6, <1>7, <1>8 DEF Next

(* The client keeps the contract that the engine builds on: from its first   *)
(* state, and by every step as long as no second Connect went past its       *)
(* checks.                                                                   *)
THEOREM ServesEngineThm == Spec => ServesEngine
<1>1. Init => Contract!Init
  <2> SUFFICES ASSUME Init PROVE Contract!Init
    OBVIOUS
  <2>1. LifeInv /\ \A t \in Threads : pc[t] = "new"
    BY InitLife DEF Init
  <2>2. Stage = "none"
    BY <2>1, StageIs DEF StageFacts
  <2>3. Call = [s \in Stoppers |-> "idle"]
    BY <2>1 DEF Call, Threads, Release
  <2> QED BY <2>2, <2>3 DEF Contract!Init
<1> QED BY <1>1, StepServes, ClientInvariant, PTL DEF Spec, ServesEngine
=============================================================================
