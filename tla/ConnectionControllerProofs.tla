--------------------- MODULE ConnectionControllerProofs ---------------------
(***************************************************************************)
(* Proofs about ConnectionController, for every configuration and any      *)
(* number of commands and expired waits.                                   *)
(***************************************************************************)
EXTENDS ConnectionController, TLAPS

Handlers == [op : Timers \cup Commands, gen : {Current, Old}]

(* The queue without its head holds what it held, but for the head. *)
LEMMA TailReady ==
    ASSUME NEW q \in Seq(Handlers), q # <<>>, NEW h
    PROVE  /\ Tail(q) \in Seq(Handlers) /\ Head(q) \in Handlers
           /\ Ready(h, Tail(q)) => Ready(h, q)
           /\ Ready(h, q) /\ h # Head(q) => Ready(h, Tail(q))
<1>1. Tail(q) \in Seq(Handlers) /\ Head(q) \in Handlers
  OBVIOUS
<1>2. ASSUME Ready(h, Tail(q)) PROVE Ready(h, q)
  <2>1. PICK i \in DOMAIN Tail(q) : Tail(q)[i] = h
    BY <1>2 DEF Ready
  <2>2. i + 1 \in DOMAIN q /\ q[i + 1] = h
    BY <2>1
  <2> QED BY <2>2 DEF Ready
<1>3. ASSUME Ready(h, q), h # Head(q) PROVE Ready(h, Tail(q))
  <2>1. PICK i \in DOMAIN q : q[i] = h
    BY <1>3 DEF Ready
  <2>2. i # 1
    BY <1>3, <2>1
  <2>3. i - 1 \in DOMAIN Tail(q) /\ Tail(q)[i - 1] = h
    BY <2>1, <2>2
  <2> QED BY <2>3 DEF Ready
<1> QED BY <1>1, <1>2, <1>3

(* A handler that is posted is ready, behind the others. *)
LEMMA AppendReady ==
    ASSUME NEW q \in Seq(Handlers), NEW x \in Handlers, NEW h
    PROVE  /\ Append(q, x) \in Seq(Handlers)
           /\ Ready(h, Append(q, x)) <=> Ready(h, q) \/ h = x
<1>1. Append(q, x) \in Seq(Handlers)
  OBVIOUS
<1>2. ASSUME Ready(h, Append(q, x)) PROVE Ready(h, q) \/ h = x
  <2>1. PICK i \in DOMAIN Append(q, x) : Append(q, x)[i] = h
    BY <1>2 DEF Ready
  <2>2. CASE i = Len(q) + 1
    BY <2>1, <2>2
  <2>3. CASE i # Len(q) + 1
    <3>1. i \in DOMAIN q /\ q[i] = h
      BY <2>1, <2>3
    <3> QED BY <3>1 DEF Ready
  <2> QED BY <2>2, <2>3
<1>3. ASSUME Ready(h, q) \/ h = x PROVE Ready(h, Append(q, x))
  <2>1. CASE h = x
    <3>1. Len(q) + 1 \in DOMAIN Append(q, x) /\ Append(q, x)[Len(q) + 1] = h
      BY <2>1
    <3> QED BY <3>1 DEF Ready
  <2>2. CASE Ready(h, q)
    <3>1. PICK i \in DOMAIN q : q[i] = h
      BY <2>2 DEF Ready
    <3>2. i \in DOMAIN Append(q, x) /\ Append(q, x)[i] = h
      BY <3>1
    <3> QED BY <3>2 DEF Ready
  <2> QED BY <1>3, <2>1, <2>2
<1> QED BY <1>1, <1>2, <1>3

(* With a new generation no restart or poll handler is for the current       *)
(* client; a connection timer's handler still counts.                        *)
LEMMA AgedReady ==
    ASSUME NEW q \in Seq(Handlers)
    PROVE  /\ Aged(q) \in Seq(Handlers)
           /\ ~Ready(Handler("restart", Current), Aged(q))
           /\ ~Ready(Handler("poll", Current), Aged(q))
           /\ Ready(Handler("conn", Current), q) =>
                Ready(Handler("conn", Current), Aged(q))
<1>1. /\ DOMAIN Aged(q) = DOMAIN q
      /\ \A i \in DOMAIN q :
            /\ q[i] \in Handlers
            /\ Aged(q)[i] \in Handlers
            /\ q[i].op \in {"restart", "poll"} => Aged(q)[i].gen = Old
            /\ q[i].op \notin {"restart", "poll"} => Aged(q)[i] = q[i]
            /\ Aged(q)[i].op = q[i].op
  <2>1. DOMAIN Aged(q) = DOMAIN q
    BY DEF Aged
  <2>2. ASSUME NEW i \in DOMAIN q
        PROVE  /\ q[i] \in Handlers
               /\ Aged(q)[i] \in Handlers
               /\ q[i].op \in {"restart", "poll"} => Aged(q)[i].gen = Old
               /\ q[i].op \notin {"restart", "poll"} => Aged(q)[i] = q[i]
               /\ Aged(q)[i].op = q[i].op
    <3>1. q[i] \in Handlers
      OBVIOUS
    <3>2. Aged(q)[i] = IF q[i].op \in {"restart", "poll"}
                       THEN [q[i] EXCEPT !.gen = Old] ELSE q[i]
      BY DEF Aged
    <3> HIDE DEF Aged
    <3> QED BY <3>1, <3>2 DEF Handlers
  <2> QED BY <2>1, <2>2
<1>2. Aged(q) \in Seq(Handlers)
  <2>1. DOMAIN Aged(q) = 1..Len(q) /\ Len(q) \in Nat
    BY <1>1
  <2>2. Aged(q) \in [1..Len(q) -> Handlers]
    BY <1>1, <2>1 DEF Aged
  <2> QED BY <2>1, <2>2
<1>3. Current # Old
  BY DEF Current, Old
<1>4. ~Ready(Handler("restart", Current), Aged(q))
  BY <1>1, <1>3 DEF Ready, Handler
<1>5. ~Ready(Handler("poll", Current), Aged(q))
  BY <1>1, <1>3 DEF Ready, Handler
<1>6. ASSUME Ready(Handler("conn", Current), q)
      PROVE  Ready(Handler("conn", Current), Aged(q))
  BY <1>1, <1>6 DEF Ready, Handler
<1> QED BY <1>2, <1>4, <1>5, <1>6

-----------------------------------------------------------------------------
(* start() leaves the inductive invariant. *)
LEMMA InitIndInv == Init => IndInv
<1> SUFFICES ASSUME Init PROVE IndInv
  OBVIOUS
<1>1. opts \subseteq Options
  BY ControllerAssumption DEF Init
<1>2. timer \in [Timers -> {Off, Current}]
  BY DEF Init
<1>3. /\ timer["poll"] # Off => ~resolving
      /\ timer["conn"] # Off <=> connPending
      /\ timer["restart"] = Off
      /\ DOMAIN queue = {}
  BY DEF Init, Timers, Off, Current
<1>4. queue \in Seq(Handlers) /\ posts \in 0..MaxPosts
  BY ControllerAssumption DEF Init
<1>5. resolving \in BOOLEAN /\ connPending \in BOOLEAN /\ work \in BOOLEAN
  BY DEF Init
<1>6. TypeOK
  BY <1>1, <1>2, <1>4, <1>5 DEF Init, TypeOK, Handlers
<1> QED
  BY <1>2, <1>3, <1>6 DEF Init, IndInv, HaltedIsQuiet, NeverStranded, FinalizedIffDown,
     ConnTimerBacked, Live, Ready, Off, Current, Old, Timers

-----------------------------------------------------------------------------
(* What the parts of the handlers do to the invariant. q is what is left of  *)
(* the queue; opts and posts do not change.                                  *)

(* The queue q that is left is a queue of handlers and holds no handler that *)
(* queue did not.                                                            *)
Left(q) ==
    /\ q \in Seq(Handlers)
    /\ \A h : Ready(h, q) => Ready(h, queue)

(* stop *)
LEMMA StopKeeps ==
    ASSUME IndInv, NEW q, Left(q), DoStop(q), UNCHANGED <<opts, posts>>
    PROVE  IndInv'
<1>1. timer' \in [Timers -> {Off, Current, Old}] /\ \A t \in Timers : timer'[t] = Off
  BY DEF DoStop, AllOff
<1>2. TypeOK'
  BY <1>1 DEF DoStop, Left, IndInv, TypeOK, Down, Handlers
<1> QED
  BY <1>1, <1>2 DEF DoStop, IndInv, HaltedIsQuiet, NeverStranded, FinalizedIffDown,
     ConnTimerBacked, Live, Down, Off, Current, Old, Timers

(* pause *)
LEMMA PauseKeeps ==
    ASSUME IndInv, ~halt, NEW q, Left(q), DoPause(q), UNCHANGED <<opts, posts>>
    PROVE  IndInv'
<1>1. timer' \in [Timers -> {Off, Current, Old}] /\ \A t \in Timers : timer'[t] = Off
  BY DEF DoPause, AllOff
<1>2. TypeOK'
  BY <1>1 DEF DoPause, Left, IndInv, TypeOK, Down, Handlers
<1>3. sess \in {"none", "connecting", "up", "down"}
  BY DEF IndInv, TypeOK
<1> QED
  BY <1>1, <1>2, <1>3 DEF DoPause, IndInv, HaltedIsQuiet, NeverStranded, FinalizedIffDown,
     ConnTimerBacked, Live, Down, Off, Current, Old, Timers

(* new_client *)
LEMMA NewClientKeeps ==
    ASSUME IndInv, ~halt, NEW p \in BOOLEAN, NEW r \in BOOLEAN,
           NEW q, Left(q), DoNewClient(p, r, q), UNCHANGED <<opts, posts>>,
           Ready(Handler("conn", Current), queue) => Ready(Handler("conn", Current), q)
    PROVE  IndInv'
<1>1. /\ queue' \in Seq(Handlers)
      /\ ~Ready(Handler("restart", Current), queue')
      /\ Ready(Handler("conn", Current), queue) =>
           Ready(Handler("conn", Current), queue')
  BY AgedReady DEF DoNewClient, Left
<1>2. timer \in [Timers -> {Off, Current, Old}]
  BY DEF IndInv, TypeOK
<1>3. /\ timer' \in [Timers -> {Off, Current, Old}]
      /\ timer'["restart"] = Off
      /\ timer'["poll"] \in {timer["poll"], Current}
      /\ timer'["conn"] = IF "timeout" \in opts /\ ~connPending
                          THEN Current ELSE timer["conn"]
  BY <1>2 DEF DoNewClient, Timers
<1>4. work' \in BOOLEAN /\ connPending' \in BOOLEAN
  BY DEF DoNewClient
<1>5. TypeOK'
  BY <1>1, <1>3, <1>4 DEF DoNewClient, IndInv, TypeOK, Handlers
<1>6. ConnTimerBacked'
  <2>1. connPending \in BOOLEAN
    BY DEF IndInv, TypeOK
  <2>2. connPending' <=> connPending \/ "timeout" \in opts
    BY Zenon DEF DoNewClient
  <2>3. sess' # "up"
    BY DEF DoNewClient
  <2> QED
    BY <1>1, <1>3, <1>4, <2>1, <2>2, <2>3 DEF IndInv, ConnTimerBacked, Off, Current
<1>7. \A t \in Timers : timer'[t] # Old
  BY <1>2, <1>3 DEF IndInv, Timers, Off, Current, Old
<1> QED
  BY <1>1, <1>3, <1>5, <1>6, <1>7 DEF DoNewClient, IndInv, HaltedIsQuiet, NeverStranded,
     FinalizedIffDown, Live, Off, Current

(* reconnect *)
LEMMA ReconnectKeeps ==
    ASSUME IndInv, ~halt, NEW q, Left(q), DoReconnect(q), UNCHANGED <<opts, posts>>,
           Ready(Handler("conn", Current), queue) => Ready(Handler("conn", Current), q)
    PROVE  IndInv'
<1>1. timer \in [Timers -> {Off, Current, Old}]
  BY DEF IndInv, TypeOK
<1>2. /\ timer' \in [Timers -> {Off, Current, Old}]
      /\ timer'["restart"] = Current /\ timer'["poll"] = Off
      /\ timer'["conn"] = timer["conn"]
  BY <1>1 DEF DoReconnect, RestartWaits, Timers
<1>3. TypeOK'
  BY <1>2 DEF DoReconnect, Left, IndInv, TypeOK, Handlers, flagVars
<1>4. ConnTimerBacked' /\ \A t \in Timers : timer'[t] # Old
  BY <1>1, <1>2 DEF DoReconnect, IndInv, ConnTimerBacked, Off, Current, Old, Timers, flagVars
<1> QED
  BY <1>2, <1>3, <1>4 DEF DoReconnect, IndInv, HaltedIsQuiet, NeverStranded,
     FinalizedIffDown, Live, Off, Current, flagVars

(* queue_restart *)
LEMMA QueueRestartKeeps ==
    ASSUME IndInv, Live, NEW after, DoQueueRestart(after), UNCHANGED <<opts, posts>>
    PROVE  IndInv'
<1>1. timer \in [Timers -> {Off, Current, Old}] /\ connPending \in BOOLEAN
  BY DEF IndInv, TypeOK
<1>2. connPending' \in BOOLEAN /\ (connPending' <=> connPending /\ after # "connected")
  BY <1>1 DEF DoQueueRestart
<1>3. /\ timer' \in [Timers -> {Off, Current, Old}]
      /\ timer'["restart"] = Current /\ timer'["poll"] = Off
      /\ timer'["conn"] = IF after = "connected" THEN Off
                          ELSE IF after = "authPending" /\ connPending THEN Current
                          ELSE timer["conn"]
  BY <1>1 DEF DoQueueRestart, RestartWaits, Timers
<1>4. TypeOK'
  BY <1>2, <1>3 DEF DoQueueRestart, IndInv, TypeOK, Handlers
<1>5. ConnTimerBacked' /\ \A t \in Timers : timer'[t] # Old
  BY <1>1, <1>2, <1>3 DEF DoQueueRestart, IndInv, ConnTimerBacked, Off, Current, Old, Timers
<1> QED
  BY <1>2, <1>3, <1>4, <1>5 DEF DoQueueRestart, IndInv, HaltedIsQuiet, NeverStranded,
     FinalizedIffDown, Live, Off, Current

(* A handler that returns at once was none that something depends on. *)
LEMMA IgnoreKeeps ==
    ASSUME IndInv, NEW q, Left(q), Ignore(q), UNCHANGED <<opts, posts>>,
           ~halt => /\ Ready(Handler("restart", Current), queue) =>
                         Ready(Handler("restart", Current), q)
                    /\ Ready(Handler("conn", Current), queue) =>
                         Ready(Handler("conn", Current), q)
    PROVE  IndInv'
<1>1. TypeOK'
  BY DEF Ignore, Left, IndInv, TypeOK, Handlers, flagVars, clientVars
<1>2. Ready(Handler("restart", Current), queue') => Ready(Handler("restart", Current), queue)
  BY DEF Ignore, Left
<1> QED
  BY <1>1, <1>2 DEF Ignore, IndInv, HaltedIsQuiet, NeverStranded, FinalizedIffDown,
     ConnTimerBacked, Live, flagVars, clientVars

-----------------------------------------------------------------------------
(* Posting a command and the end of a wait *)
LEMMA ReadyKeeps ==
    ASSUME IndInv, \/ \E op \in Commands : Post(op)
                   \/ \E t \in Timers : Expire(t)
    PROVE  IndInv'
<1>0. queue \in Seq(Handlers) /\ timer \in [Timers -> {Off, Current, Old}]
  BY DEF IndInv, TypeOK, Handlers
<1>1. ASSUME NEW op \in Commands, Post(op) PROVE IndInv'
  <2>1. Handler(op, Current) \in Handlers
    BY DEF Handler, Handlers
  <2>2. /\ queue' \in Seq(Handlers)
        /\ \A h : Ready(h, queue') <=> Ready(h, queue) \/ h = Handler(op, Current)
    BY <1>0, <1>1, <2>1, AppendReady DEF Post
  <2>3. /\ Handler(op, Current) # Handler("restart", Current)
        /\ Handler(op, Current) # Handler("conn", Current)
    BY DEF Handler, Commands
  <2>4. TypeOK'
    BY <1>1, <2>2, ControllerAssumption
    DEF Post, IndInv, TypeOK, Handlers, flagVars, clientVars
  <2> QED
    BY <1>1, <2>2, <2>3, <2>4 DEF Post, IndInv, HaltedIsQuiet, NeverStranded,
       FinalizedIffDown, ConnTimerBacked, Live, flagVars, clientVars
<1>2. ASSUME NEW t \in Timers, Expire(t) PROVE IndInv'
  <2>1. timer[t] = Current /\ ~halt
    BY <1>0, <1>2 DEF Expire, IndInv, HaltedIsQuiet, AllOff
  <2>2. Handler(t, timer[t]) = Handler(t, Current) /\ Handler(t, Current) \in Handlers
    BY <2>1 DEF Handler, Handlers
  <2>3. /\ queue' \in Seq(Handlers)
        /\ \A h : Ready(h, queue') <=> Ready(h, queue) \/ h = Handler(t, Current)
    BY <1>0, <1>2, <2>2, AppendReady DEF Expire
  <2>4. /\ timer' \in [Timers -> {Off, Current, Old}]
        /\ timer'[t] = Off
        /\ \A u \in Timers \ {t} : timer'[u] = timer[u]
    BY <1>0, <1>2 DEF Expire
  <2>5. TypeOK'
    BY <1>2, <2>3, <2>4 DEF Expire, IndInv, TypeOK, Handlers, flagVars, clientVars
  <2>6. \A u \in Timers : timer'[u] # Old
    BY <2>4 DEF IndInv, Off, Old
  <2>7. NeverStranded'
    <3>1. CASE t = "restart"
      BY <2>3, <3>1 DEF NeverStranded
    <3>2. CASE t # "restart"
      BY <1>2, <2>3, <2>4, <3>2 DEF Expire, IndInv, NeverStranded, Live, Timers, flagVars,
         clientVars
    <3> QED BY <3>1, <3>2
  <2>8. ConnTimerBacked'
    <3>1. CASE t = "conn"
      BY <1>2, <2>1, <2>3, <2>4, <3>1 DEF Expire, IndInv, ConnTimerBacked
    <3>2. CASE t # "conn"
      BY <1>2, <2>3, <2>4, <3>2 DEF Expire, IndInv, ConnTimerBacked, Timers, clientVars
    <3> QED BY <3>1, <3>2
  <2>9. /\ ~Live' => timer'["poll"] = Off
        /\ (sess = "up")' => heard'
        /\ Live' /\ (timer'["restart"] = Current
                     \/ Ready(Handler("restart", Current), queue')) => asked'
    <3>1. Handler("restart", Current) = Handler(t, Current) => t = "restart"
      BY DEF Handler
    <3> QED
      BY <1>2, <2>1, <2>3, <2>4, <3>1 DEF Expire, IndInv, Live, Timers, Off, Current, clientVars
  <2> QED
    BY <1>2, <2>1, <2>5, <2>6, <2>7, <2>8, <2>9
    DEF Expire, IndInv, HaltedIsQuiet, FinalizedIffDown, flagVars, clientVars
<1> QED BY <1>1, <1>2

(* The next handler of the queue *)
LEMMA HandlerKeeps ==
    ASSUME IndInv, RunHandler
    PROVE  IndInv'
<1> DEFINE h == Head(queue)
           q == Tail(queue)
<1>0. queue \in Seq(Handlers) /\ queue # <<>> /\ Runs(h, q) /\ UNCHANGED <<opts, posts>>
  BY DEF RunHandler, IndInv, TypeOK, Handlers
<1>1. /\ Left(q) /\ h \in Handlers
      /\ \A x : Ready(x, queue) /\ x # h => Ready(x, q)
  BY <1>0, TailReady DEF Left
<1>2. paused \in BOOLEAN /\ resolving \in BOOLEAN
  BY DEF IndInv, TypeOK
<1>3. h.op \in Timers \cup Commands /\ h.gen \in {Current, Old}
  BY <1>1 DEF Handlers
<1> HIDE DEF h, q
<1>4. /\ h.op # "conn" => (Ready(Handler("conn", Current), queue) =>
                             Ready(Handler("conn", Current), q))
      /\ h.op # "restart" \/ h.gen = Old =>
           (Ready(Handler("restart", Current), queue) =>
              Ready(Handler("restart", Current), q))
  <2>1. /\ h.op # "conn" => h # Handler("conn", Current)
        /\ h.op # "restart" \/ h.gen = Old => h # Handler("restart", Current)
    BY DEF Handler, Current, Old
  <2> QED BY <1>1, <2>1
<1>5. CASE h.op = "stop"
  BY <1>0, <1>1, <1>4, <1>5, StopKeeps, IgnoreKeeps DEF Runs, StopHandler
<1>6. CASE h.op = "pause"
  BY <1>0, <1>1, <1>4, <1>6, PauseKeeps, IgnoreKeeps DEF Runs, PauseHandler
<1>7. CASE h.op = "resume"
  BY <1>0, <1>1, <1>2, <1>4, <1>7, NewClientKeeps, IgnoreKeeps DEF Runs, ResumeHandler
<1>8. CASE h.op = "reconnect"
  BY <1>0, <1>1, <1>4, <1>8, ReconnectKeeps, IgnoreKeeps DEF Runs, ReconnectHandler
<1>9. CASE h.op = "restart"
  BY <1>0, <1>1, <1>2, <1>4, <1>9, NewClientKeeps, IgnoreKeeps
  DEF Runs, RestartWaitCallback
<1>10. CASE h.op = "poll"
  BY <1>0, <1>1, <1>2, <1>4, <1>10, NewClientKeeps, IgnoreKeeps
  DEF Runs, ServerPollCallback
<1>11. CASE h.op = "conn"
  BY <1>0, <1>1, <1>4, <1>11, StopKeeps, PauseKeeps, IgnoreKeeps
  DEF Runs, ConnTimerCallback
<1> QED
  BY <1>3, <1>5, <1>6, <1>7, <1>8, <1>9, <1>10, <1>11 DEF Timers, Commands

(* The queue itself is what is left of it when no handler was taken. *)
LEMMA WholeQueueLeft == IndInv => Left(queue)
  BY DEF IndInv, TypeOK, Left, Handlers

(* The end of a resolve *)
LEMMA ResolveKeeps ==
    ASSUME IndInv, BulkResolveDone
    PROVE  IndInv'
<1>1. CASE ~halt /\ sess = "none"
  <2>1. DoNewClient(paused, FALSE, queue) /\ UNCHANGED <<opts, posts>> /\ paused \in BOOLEAN
    BY <1>1 DEF BulkResolveDone, IndInv, TypeOK
  <2> QED BY <1>1, <2>1, NewClientKeeps, WholeQueueLeft
<1>2. CASE halt \/ sess # "none"
  BY <1>2 DEF BulkResolveDone, IndInv, TypeOK, HaltedIsQuiet, NeverStranded,
     FinalizedIffDown, ConnTimerBacked, Live, flagVars, clientVars
<1> QED BY <1>1, <1>2

(* The client's callbacks *)
LEMMA ClientKeeps ==
    ASSUME IndInv, ClientStep
    PROVE  IndInv'
<1> USE DEF IndInv, HaltedIsQuiet, NeverStranded, FinalizedIffDown, ConnTimerBacked, Live,
            flagVars, clientVars
<1>0. timer \in [Timers -> {Off, Current, Old}]
  BY DEF TypeOK
<1>1. CASE FirstPacket
  BY <1>1 DEF FirstPacket, TypeOK
<1>2. CASE Connected
  <2>1. /\ timer' \in [Timers -> {Off, Current, Old}]
        /\ timer'["conn"] = Off
        /\ timer'["poll"] = timer["poll"] /\ timer'["restart"] = timer["restart"]
    BY <1>0, <1>2 DEF Connected, Timers
  <2>2. TypeOK' /\ \A t \in Timers : timer'[t] # Old
    BY <1>2, <2>1 DEF Connected, TypeOK, Timers, Off, Old
  <2> QED BY <1>2, <2>1, <2>2 DEF Connected
<1>3. CASE Renegotiated
  BY <1>3 DEF Renegotiated, TypeOK
<1>4. CASE AuthPendingTimeout
  <2>1. /\ timer' \in [Timers -> {Off, Current, Old}]
        /\ timer'["conn"] = Current
        /\ timer'["poll"] = timer["poll"] /\ timer'["restart"] = timer["restart"]
    BY <1>0, <1>4 DEF AuthPendingTimeout, Timers
  <2>2. TypeOK' /\ \A t \in Timers : timer'[t] # Old
    BY <1>4, <2>1 DEF AuthPendingTimeout, TypeOK, Timers, Current, Old
  <2> QED BY <1>4, <2>1, <2>2 DEF AuthPendingTimeout, Off, Current
<1>5. ASSUME NEW code \in {"retry", "auth", "fatal"}, NEW after, Terminate(code, after)
      PROVE  IndInv'
  <2>1. Live /\ UNCHANGED <<opts, posts>> /\ (DoStop(queue) \/ DoQueueRestart(after))
    BY <1>5 DEF Terminate
  <2> HIDE DEF IndInv, Live
  <2> QED BY <2>1, StopKeeps, QueueRestartKeeps, WholeQueueLeft
<1> QED BY <1>1, <1>2, <1>3, <1>4, <1>5 DEF ClientStep

(* Every step keeps the inductive invariant. *)
LEMMA NextIndInv == IndInv /\ [Next]_vars => IndInv'
<1> SUFFICES ASSUME IndInv, [Next]_vars PROVE IndInv'
  OBVIOUS
<1>1. CASE UNCHANGED vars \/ RunIdle
  BY <1>1 DEF RunIdle, vars, flagVars, clientVars, IndInv, TypeOK, HaltedIsQuiet,
     NeverStranded, FinalizedIffDown, ConnTimerBacked, Live
<1> QED
  BY <1>1, ReadyKeeps, HandlerKeeps, ResolveKeeps, ClientKeeps DEF Next

(* cliconnect.hpp as a whole: in every state that a controller can reach,    *)
(* with any commands posted in any order and waits that end at any time, a   *)
(* halted controller is quiet, one that is not will go on, the client that   *)
(* is down is finalized, and conn_timer_pending tells the truth.             *)
THEOREM ControllerInvariant == Spec => []IndInv
<1>1. Init => IndInv
  BY InitIndInv
<1>2. IndInv /\ [Next]_vars => IndInv'
  BY NextIndInv
<1> QED BY <1>1, <1>2, PTL DEF Spec

(* connect() returns only because of a stop: until then there is a client, a *)
(* resolve or a wait that leads to one, or a pause that holds on to the      *)
(* io_context.                                                               *)
THEOREM NeverStrandedThm == Spec => []NeverStranded
<1>1. IndInv => NeverStranded
  BY DEF IndInv
<1> QED BY <1>1, ControllerInvariant, PTL

-----------------------------------------------------------------------------
(* restart_wait_callback and server_poll_callback, however late, never       *)
(* replace a client that is up: the generation they carry, and the first     *)
(* packet, tell them.                                                        *)
LEMMA UpStep ==
    ASSUME IndInv, [Next]_vars, sess = "up", sess' = "connecting"
    PROVE  asked \/ (paused /\ Head(queue).op = "resume")
<1>1. RunHandler
  BY DEF Next, vars, clientVars, flagVars, Post, Expire, BulkResolveDone, ClientStep,
     FirstPacket, Connected, Renegotiated, AuthPendingTimeout, Terminate, DoStop,
     DoQueueRestart, Down, RunIdle
<1> DEFINE h == Head(queue)
           q == Tail(queue)
<1>2. /\ queue \in Seq(Handlers) /\ queue # <<>> /\ Runs(h, q) /\ h \in Handlers
      /\ h.op \in Timers \cup Commands /\ h.gen \in {Current, Old}
      /\ Ready(h, queue)
  <2>1. queue \in Seq(Handlers) /\ queue # <<>> /\ Runs(h, q)
    BY <1>1 DEF RunHandler, IndInv, TypeOK, Handlers
  <2>2. h \in Handlers
    BY <2>1
  <2>3. 1 \in DOMAIN queue /\ queue[1] = h
    BY <2>1
  <2> QED BY <2>1, <2>2, <2>3 DEF Handlers, Ready
<1> HIDE DEF h, q
<1>3. heard /\ Live
  BY DEF IndInv, Live
<1>4. ~Ignore(q) /\ ~DoStop(q) /\ ~DoPause(q) /\ ~DoReconnect(q)
  BY DEF Ignore, DoStop, DoPause, DoReconnect, Down, clientVars
<1>5. CASE h.op = "restart"
  <2>1. h.gen = Current
    BY <1>2, <1>4, <1>5 DEF Runs, RestartWaitCallback
  <2>2. h = Handler("restart", Current)
    BY <1>2, <1>5, <2>1 DEF Handlers, Handler
  <2> QED BY <1>2, <1>3, <2>2 DEF IndInv
<1>6. CASE h.op = "resume"
  BY <1>2, <1>4, <1>6 DEF Runs, ResumeHandler, h
<1>7. CASE h.op = "poll"
  BY <1>2, <1>3, <1>4, <1>7 DEF Runs, ServerPollCallback
<1>8. CASE h.op \in {"stop", "pause", "reconnect", "conn"}
  BY <1>2, <1>4, <1>8 DEF Runs, StopHandler, PauseHandler, ReconnectHandler,
     ConnTimerCallback
<1> QED BY <1>2, <1>5, <1>6, <1>7, <1>8 DEF Timers, Commands

(* A client that is up is replaced only because a reconnect was asked for    *)
(* while it lived, or a resume.                                              *)
THEOREM StaleTimersThm == Spec => StaleTimersSpareClient
<1>1. IndInv /\ [Next]_vars =>
        [sess = "up" /\ sess' = "connecting" =>
           asked \/ (paused /\ Head(queue).op = "resume")]_vars
  BY UpStep
<1> QED BY <1>1, ControllerInvariant, PTL DEF Spec, StaleTimersSpareClient

-----------------------------------------------------------------------------
(* A pause that is settled stays so under every handler that may be ready,   *)
(* unless it ends.                                                           *)
LEMMA SettledHandler ==
    ASSUME IndInv, RunHandler, Settled, paused'
    PROVE  Settled'
<1> DEFINE h == Head(queue)
           q == Tail(queue)
<1>1. /\ queue \in Seq(Handlers) /\ queue # <<>> /\ Runs(h, q)
      /\ h.op \in Timers \cup Commands /\ h.gen \in {Current, Old}
      /\ Ready(h, queue) /\ Left(q)
  <2>1. queue \in Seq(Handlers) /\ queue # <<>> /\ Runs(h, q)
    BY DEF RunHandler, IndInv, TypeOK, Handlers
  <2>2. h \in Handlers /\ Left(q)
    BY <2>1, TailReady DEF Left
  <2>3. 1 \in DOMAIN queue /\ queue[1] = h
    BY <2>1
  <2> QED BY <2>1, <2>2, <2>3 DEF Handlers, Ready
<1>2. h.op = "poll" => h.gen = Old
  <2>1. h \in Handlers
    BY <1>1
  <2>2. h.op = "poll" /\ h.gen = Current => h = Handler("poll", Current)
    BY <2>1 DEF Handlers, Handler
  <2> QED BY <1>1, <2>2 DEF Settled, PauseAtRisk
<1> HIDE DEF h, q
<1>3. CASE Ignore(q)
  BY <1>1, <1>3 DEF Ignore, Left, Settled, PauseAtRisk, Live, flagVars, clientVars
<1>4. CASE DoStop(q)
  BY <1>1, <1>4 DEF DoStop, Left, Settled, PauseAtRisk, Live, Down
<1>5. CASE DoReconnect(q)
  BY <1>1, <1>5 DEF DoReconnect, Left, Settled, PauseAtRisk, Live, flagVars
<1>6. ~DoNewClient(FALSE, resolving, q)
  BY DEF DoNewClient
<1> QED
  BY <1>1, <1>2, <1>3, <1>4, <1>5, <1>6 DEF Settled, Runs, StopHandler, PauseHandler,
     ResumeHandler, ReconnectHandler, RestartWaitCallback, ServerPollCallback,
     ConnTimerCallback, Timers, Commands

(* ovpncli.hpp:647: once a pause is settled, no client is made until it      *)
(* ends, whatever the timers and the resolver of before still bring.         *)
THEOREM PauseSettledThm == Spec => PauseSettled
<1>1. ASSUME IndInv, [Next]_vars, Settled, paused' PROVE Settled'
  <2> USE DEF Settled, PauseAtRisk, Live
  <2>0. queue \in Seq(Handlers) /\ timer \in [Timers -> {Off, Current, Old}]
    BY <1>1 DEF IndInv, TypeOK, Handlers
  <2>1. ASSUME NEW op \in Commands, Post(op) PROVE Settled'
    <3>1. Handler(op, Current) \in Handlers /\ Handler(op, Current) # Handler("poll", Current)
      BY DEF Handler, Handlers, Commands
    <3>2. Ready(Handler("poll", Current), queue') => Ready(Handler("poll", Current), queue)
      BY <2>0, <2>1, <3>1, AppendReady DEF Post
    <3> QED BY <1>1, <2>1, <3>2 DEF Post, flagVars, clientVars
  <2>2. ASSUME NEW t \in Timers, Expire(t) PROVE Settled'
    <3>1. t # "poll"
      BY <1>1, <2>2 DEF Expire, IndInv
    <3>2. Handler(t, timer[t]) \in Handlers /\ Handler(t, timer[t]) # Handler("poll", Current)
      BY <2>0, <2>2, <3>1 DEF Expire, Handler, Handlers
    <3>3. Ready(Handler("poll", Current), queue') => Ready(Handler("poll", Current), queue)
      BY <2>0, <2>2, <3>2, AppendReady DEF Expire
    <3> QED BY <1>1, <2>2, <3>3 DEF Expire, flagVars, clientVars
  <2>3. CASE RunHandler
    BY <1>1, <2>3, SettledHandler
  <2>4. CASE BulkResolveDone
    BY <1>1, <2>4 DEF BulkResolveDone, flagVars, clientVars
  <2>5. CASE ClientStep
    BY <1>1, <2>5 DEF ClientStep, FirstPacket, Connected, Renegotiated, AuthPendingTimeout,
       Terminate
  <2>6. CASE RunIdle \/ UNCHANGED vars
    BY <1>1, <2>6 DEF RunIdle, vars, flagVars, clientVars
  <2> QED BY <1>1, <2>1, <2>2, <2>3, <2>4, <2>5, <2>6 DEF Next
<1>2. IndInv /\ [Next]_vars => [Settled /\ paused' => Settled']_vars
  BY <1>1
<1> QED BY <1>2, ControllerInvariant, PTL DEF Spec, PauseSettled

-----------------------------------------------------------------------------
(* A new generation leaves the commands in the queue where they are. *)
LEMMA AgedCommands ==
    ASSUME NEW q \in Seq(Handlers)
    PROVE  /\ DOMAIN Aged(q) = DOMAIN q /\ Len(Aged(q)) = Len(q)
           /\ \A i \in DOMAIN q : q[i].op = "stop" => Aged(q)[i].op = "stop"
<1>1. DOMAIN Aged(q) = DOMAIN q
  BY DEF Aged
<1>2. Aged(q) \in Seq(Handlers)
  BY AgedReady
<1>3. \A i \in DOMAIN q : q[i].op = "stop" => Aged(q)[i] = q[i]
  BY DEF Aged
<1> QED BY <1>1, <1>2, <1>3

(* A handler takes one place, and leaves what is behind it in order; unless  *)
(* it is a stop, and the controller halts. A halted one does nothing else.   *)
LEMMA HandlerTakesPlace ==
    ASSUME IndInv, RunHandler
    PROVE  /\ queue' \in {Tail(queue), Aged(Tail(queue))}
           /\ Head(queue).op = "stop" => halt'
           /\ halt => halt' /\ queue' = Tail(queue)
<1> DEFINE h == Head(queue)
           q == Tail(queue)
<1>1. Runs(h, q) /\ h.op \in Timers \cup Commands
  <2>1. queue \in Seq(Handlers) /\ queue # <<>> /\ Runs(h, q)
    BY DEF RunHandler, IndInv, TypeOK, Handlers
  <2>2. h \in Handlers
    BY <2>1
  <2> QED BY <2>1, <2>2 DEF Handlers
<1> HIDE DEF h, q
<1>2. Ignore(q) \/ (~halt /\ (\/ DoStop(q) \/ DoPause(q) \/ DoReconnect(q)
                             \/ \E p \in {paused, FALSE} : DoNewClient(p, resolving, q)))
  BY <1>1 DEF Runs, StopHandler, PauseHandler, ResumeHandler, ReconnectHandler,
     RestartWaitCallback, ServerPollCallback, ConnTimerCallback, Timers, Commands
<1>3. h.op = "stop" => (halt /\ Ignore(q)) \/ DoStop(q)
  BY <1>1 DEF Runs, StopHandler
<1>4. Ignore(q) => queue' = q /\ halt' = halt
  BY DEF Ignore, flagVars
<1>5. queue' \in {q, Aged(q)}
  BY <1>2, <1>4 DEF DoStop, DoPause, DoReconnect, DoNewClient
<1>6. h.op = "stop" => halt'
  BY <1>3, <1>4 DEF DoStop
<1>7. halt => halt' /\ queue' = q
  BY <1>2, <1>4
<1> QED BY <1>5, <1>6, <1>7 DEF h, q

(* What holds of one step of StopAdvances: the stop at place i *)
StopMovesUp(i) ==
    LET j == IF Len(queue') < Len(queue) THEN i - 1 ELSE i
    IN halt' \/ (j \in DOMAIN queue' /\ queue'[j].op = "stop")

LEMMA StopStep ==
    ASSUME IndInv, Next, vars' # vars
    PROVE  /\ \A i \in DOMAIN queue : queue[i].op = "stop" => StopMovesUp(i)
           /\ halt => halt' /\ queue # <<>> /\ queue' = Tail(queue)
<1>0. queue \in Seq(Handlers)
  BY DEF IndInv, TypeOK, Handlers
<1>1. ASSUME NEW x, queue' = Append(queue, x), ~halt
      PROVE  \A i \in DOMAIN queue : queue[i].op = "stop" => StopMovesUp(i)
  <2>1. ASSUME NEW i \in DOMAIN queue
        PROVE  i \in DOMAIN queue' /\ queue'[i] = queue[i] /\ ~(Len(queue') < Len(queue))
    BY <1>0, <1>1
  <2> QED BY <2>1 DEF StopMovesUp
<1>2. ASSUME queue' \in {queue, Aged(queue)}
      PROVE  \A i \in DOMAIN queue : queue[i].op = "stop" => StopMovesUp(i)
  <2>1. ASSUME NEW i \in DOMAIN queue, queue[i].op = "stop"
        PROVE  i \in DOMAIN queue' /\ queue'[i].op = "stop" /\ Len(queue') = Len(queue)
    BY <1>0, <1>2, <2>1, AgedCommands
  <2>2. ~(Len(queue) < Len(queue))
    BY <1>0
  <2> QED BY <2>1, <2>2 DEF StopMovesUp
<1>3. CASE \E op \in Commands : Post(op)
  BY <1>1, <1>3 DEF Post
<1>4. CASE \E t \in Timers : Expire(t)
  <2>1. ~halt
    BY <1>4 DEF Expire, IndInv, HaltedIsQuiet, AllOff
  <2> QED BY <1>1, <1>4, <2>1 DEF Expire
<1>5. CASE RunHandler
  <2>1. /\ queue # <<>>
        /\ queue' \in {Tail(queue), Aged(Tail(queue))}
        /\ Head(queue).op = "stop" => halt'
        /\ halt => halt' /\ queue' = Tail(queue)
    BY <1>5, HandlerTakesPlace DEF RunHandler
  <2>2. ASSUME NEW i \in DOMAIN queue, queue[i].op = "stop", i # 1
        PROVE  StopMovesUp(i)
    <3>1. Tail(queue) \in Seq(Handlers) /\ Len(Tail(queue)) = Len(queue) - 1
      BY <1>0, <2>1
    <3>2. i - 1 \in DOMAIN Tail(queue) /\ Tail(queue)[i - 1] = queue[i]
      BY <1>0, <2>1, <2>2
    <3>3. i - 1 \in DOMAIN queue' /\ queue'[i - 1].op = "stop" /\ Len(queue') = Len(queue) - 1
      BY <2>1, <2>2, <3>1, <3>2, AgedCommands
    <3>4. Len(queue') < Len(queue)
      BY <1>0, <3>3
    <3> QED BY <3>3, <3>4 DEF StopMovesUp
  <2>3. queue[1].op = "stop" => halt'
    BY <1>0, <2>1
  <2> QED BY <2>1, <2>2, <2>3 DEF StopMovesUp
<1>6. CASE BulkResolveDone
  <2>1. ~halt /\ queue' \in {queue, Aged(queue)}
    BY <1>6 DEF BulkResolveDone, DoNewClient, IndInv, HaltedIsQuiet
  <2> QED BY <1>2, <2>1
<1>7. CASE ClientStep
  <2>1. ~halt /\ queue' = queue
    BY <1>7 DEF ClientStep, FirstPacket, Connected, Renegotiated, AuthPendingTimeout,
       Terminate, DoStop, DoQueueRestart, IndInv, HaltedIsQuiet, Live
  <2> QED BY <1>2, <2>1
<1>8. ~RunIdle
  BY DEF RunIdle
<1> QED BY <1>3, <1>4, <1>5, <1>6, <1>7, <1>8 DEF Next

(* A stop that was posted cannot be lost, overtaken or undone: with every    *)
(* handler that the io_context runs it moves up, at the head it halts the    *)
(* controller, and a halted one only empties its queue. It returns after as  *)
(* many handlers as are in the queue.                                        *)
THEOREM StopAdvancesThm == Spec => StopAdvances
<1>1. IndInv /\ [Next]_vars =>
        [/\ \A i \in DOMAIN queue : queue[i].op = "stop" =>
              LET j == IF Len(queue') < Len(queue) THEN i - 1 ELSE i
              IN halt' \/ (j \in DOMAIN queue' /\ queue'[j].op = "stop")
         /\ halt => halt' /\ queue # <<>> /\ queue' = Tail(queue)]_vars
  BY StopStep DEF StopMovesUp
<1> QED BY <1>1, ControllerInvariant, PTL DEF Spec, StopAdvances
=============================================================================
