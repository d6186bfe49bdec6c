------------------------ MODULE ConnectionController ------------------------
(***************************************************************************)
(* ClientConnect of cliconnect.hpp: the object that makes one protocol     *)
(* session (a "client") after the other until it is told to stop.          *)
(*                                                                         *)
(* Everything runs as a handler of one io_context, one handler at a time.  *)
(* queue holds the handlers that are ready: commands that other threads    *)
(* posted, and waits of timers that have expired. Cancelling a timer takes *)
(* back a wait that is still running, never a handler that is in queue:    *)
(* that one runs with no error, and only the generation it carries tells   *)
(* it that the client it was meant for has been replaced. The code compares *)
(* that number with the current one and with 0 and does nothing else with  *)
(* it, so that the model keeps the answers: a wait or a handler is for the *)
(* current client (Current) or for one before it (Old), and the generation *)
(* is 0 as long as there is no client (sess = "none"). That 2^32 clients   *)
(* are made while one handler waits is left out.                           *)
(*                                                                         *)
(* The client is seen from outside (module SessionContract says what it    *)
(* promises, ClientSession that it keeps it): it hears the server, goes    *)
(* up, and terminates with an error code or none.                          *)
(***************************************************************************)
EXTENDS Naturals, Sequences, FiniteSets

CONSTANTS OptionSets, \* the configurations a run may have
          MaxReady,   \* bound: handlers of one timer ready at a time
          MaxPosts    \* bound: commands posted in a behaviour

Timers == {"restart", "poll", "conn"}
Commands == {"stop", "pause", "resume", "reconnect"}
Options == {"precache", "poll", "timeout", "pauseOnTimeout", "retryAuth",
            "workAlways"}

ASSUME ControllerAssumption ==
    /\ OptionSets \subseteq SUBSET Options
    /\ MaxReady \in Nat \ {0} /\ MaxPosts \in Nat

Off == "off"
Current == "current"
Old == "old"

VARIABLES
    opts,        \* what the profile and the application have configured
    halt, paused,
    finalized,   \* client_finalized
    connPending, \* conn_timer_pending
    work,        \* asio_work: the io_context has something to wait for
    timer,       \* Off, or the generation that a running wait carries
    resolving,   \* bulk_resolve is under way
    sess,        \* the client: none, connecting, up or down
    heard,       \* client->first_packet_received()
    queue,       \* handlers that are ready to run
    posts,       \* commands posted so far
    asked        \* history: reconnect was asked for since the client was made

flagVars == <<halt, paused, finalized, work>>
clientVars == <<sess, heard, asked>>
vars == <<opts, flagVars, connPending, timer, resolving, clientVars, queue, posts>>

TypeOK ==
    /\ opts \subseteq Options
    /\ halt \in BOOLEAN /\ paused \in BOOLEAN
    /\ finalized \in BOOLEAN /\ connPending \in BOOLEAN
    /\ work \in BOOLEAN /\ resolving \in BOOLEAN
    /\ timer \in [Timers -> {Off, Current, Old}]
    /\ sess \in {"none", "connecting", "up", "down"}
    /\ heard \in BOOLEAN /\ asked \in BOOLEAN
    /\ queue \in Seq([op : Timers \cup Commands, gen : {Current, Old}])
    /\ posts \in 0..MaxPosts

Live == sess \in {"connecting", "up"}
Down(s) == IF s = "none" THEN "none" ELSE "down"
AllOff == [t \in Timers |-> Off]

Handler(op, g) == [op |-> op, gen |-> g]
Ready(h, q) == \E i \in DOMAIN q : q[i] = h

(* ++generation: what the queue q holds is now for an earlier client. The    *)
(* number that a connection timer carries is never looked at, nor kept here. *)
Aged(q) ==
    [i \in DOMAIN q |-> IF q[i].op \in {"restart", "poll"}
                        THEN [q[i] EXCEPT !.gen = Old] ELSE q[i]]

-----------------------------------------------------------------------------
(* The parts that the handlers are made of; q is the rest of the queue.      *)

(* Mutant: the running waits are left alone. *)
StopLeavesTimers(q) ==
    /\ halt' = TRUE /\ work' = FALSE /\ resolving' = FALSE
    /\ sess' = Down(sess)
    /\ queue' = q
    /\ UNCHANGED <<paused, finalized, heard, asked, timer, connPending>>

(* stop: cancels the resolve and the timers, stops the client without its    *)
(* callback, lets go of asio_work.                                           *)
DoStop(q) ==
    /\ halt' = TRUE /\ work' = FALSE /\ resolving' = FALSE
    /\ sess' = Down(sess)
    /\ timer' = AllOff /\ connPending' = FALSE
    /\ queue' = q
    /\ UNCHANGED <<paused, finalized, heard, asked>>

(* Mutant: the server-poll timer goes on. *)
PauseLeavesPoll(q) ==
    /\ paused' = TRUE /\ work' = TRUE
    /\ sess' = Down(sess)
    /\ finalized' = (finalized \/ sess # "none")
    /\ timer' = [AllOff EXCEPT !["poll"] = timer["poll"]] /\ connPending' = FALSE
    /\ queue' = q
    /\ UNCHANGED <<halt, resolving, heard, asked>>

(* pause: the timers are cancelled, a resolve is not. *)
DoPause(q) ==
    /\ paused' = TRUE /\ work' = TRUE
    /\ sess' = Down(sess)
    /\ finalized' = (finalized \/ sess # "none")
    /\ timer' = AllOff /\ connPending' = FALSE
    /\ queue' = q
    /\ UNCHANGED <<halt, resolving, heard, asked>>

(* Mutant: the connection timer is cancelled, and still pending. *)
NewClientDropsConn(p, r, q) ==
    /\ paused' = p /\ resolving' = r
    /\ work' = ("workAlways" \in opts)
    /\ sess' = "connecting" /\ heard' = FALSE /\ asked' = FALSE
    /\ finalized' = FALSE
    /\ timer' = [timer EXCEPT
                   !["restart"] = Off,
                   !["poll"] = IF "poll" \in opts THEN Current ELSE @,
                   !["conn"] = IF "timeout" \in opts /\ ~connPending
                               THEN Current ELSE Off]
    /\ connPending' = (connPending \/ "timeout" \in opts)
    /\ queue' = Aged(q)
    /\ UNCHANGED halt

(* new_client: the old client, if any, is stopped and replaced; the restart  *)
(* timer is cancelled and the poll timer started for the new generation; the *)
(* connection timer is started unless it is pending already. It touches      *)
(* neither paused nor the resolve: p and r are what its callers make of      *)
(* them.                                                                     *)
DoNewClient(p, r, q) ==
    /\ paused' = p /\ resolving' = r
    /\ work' = ("workAlways" \in opts)
    /\ sess' = "connecting" /\ heard' = FALSE /\ asked' = FALSE
    /\ finalized' = FALSE
    /\ timer' = [timer EXCEPT
                   !["restart"] = Off,
                   !["poll"] = IF "poll" \in opts THEN Current ELSE @,
                   !["conn"] = IF "timeout" \in opts /\ ~connPending
                               THEN Current ELSE @]
    /\ connPending' = (connPending \/ "timeout" \in opts)
    /\ queue' = Aged(q)
    /\ UNCHANGED halt

(* The waits of reconnect and of queue_restart *)
RestartWaits == [timer EXCEPT !["poll"] = Off, !["restart"] = Current]

(* reconnect(seconds) *)
DoReconnect(q) ==
    /\ timer' = RestartWaits
    /\ asked' = TRUE
    /\ queue' = q
    /\ UNCHANGED <<flagVars, connPending, resolving, sess, heard>>

(* queue_restart, for a client that is down. after is the callback of a      *)
(* message that came behind the one that ended it, in the same handler: it   *)
(* finds the connection timer, and ends or extends it.                       *)
DoQueueRestart(after) ==
    /\ timer' = [RestartWaits EXCEPT
                   !["conn"] = CASE after = "connected" -> Off
                                 [] after = "authPending" /\ connPending -> Current
                                 [] OTHER -> @]
    /\ connPending' = (connPending /\ after # "connected")
    /\ sess' = "down" /\ finalized' = TRUE
    /\ UNCHANGED <<halt, paused, work, resolving, heard, asked, queue>>

Ignore(q) ==
    /\ queue' = q
    /\ UNCHANGED <<flagVars, connPending, timer, resolving, clientVars>>

-----------------------------------------------------------------------------
(* The handlers. *)

(* Mutant: a paused controller does not listen. *)
StopUnlessPaused(q) == IF halt \/ paused THEN Ignore(q) ELSE DoStop(q)

(* graceful_stop: the exit notification, then stop *)
StopHandler(q) == IF halt THEN Ignore(q) ELSE DoStop(q)

PauseHandler(q) == IF halt \/ paused THEN Ignore(q) ELSE DoPause(q)

(* resume *)
ResumeHandler(q) ==
    IF halt \/ ~paused THEN Ignore(q) ELSE DoNewClient(FALSE, resolving, q)

ReconnectHandler(q) == IF halt THEN Ignore(q) ELSE DoReconnect(q)

(* Mutant: the generation is not compared. *)
RestartAnyGen(g, q) ==
    IF halt THEN Ignore(q) ELSE DoNewClient(FALSE, resolving, q)

(* When paused this is resume(), which makes a new client too. *)
RestartWaitCallback(g, q) ==
    IF halt \/ g = Old THEN Ignore(q) ELSE DoNewClient(FALSE, resolving, q)

(* Neither this callback nor the end of a bulk resolve looks at paused. *)
ServerPollCallback(g, q) ==
    IF halt \/ g = Old \/ heard THEN Ignore(q) ELSE DoNewClient(paused, resolving, q)

(* conn_timer_callback *)
ConnTimerCallback(q) ==
    IF halt THEN Ignore(q)
    ELSE IF ~paused /\ "pauseOnTimeout" \in opts THEN DoPause(q) ELSE DoStop(q)

Runs(h, q) ==
    CASE h.op = "stop"      -> StopHandler(q)
      [] h.op = "pause"     -> PauseHandler(q)
      [] h.op = "resume"    -> ResumeHandler(q)
      [] h.op = "reconnect" -> ReconnectHandler(q)
      [] h.op = "restart"   -> RestartWaitCallback(h.gen, q)
      [] h.op = "poll"      -> ServerPollCallback(h.gen, q)
      [] h.op = "conn"      -> ConnTimerCallback(q)

-----------------------------------------------------------------------------
(* The state start() leaves behind: it resolves all remotes first, if the    *)
(* profile wants that, or makes the first client. (Without a network it      *)
(* throws, and there is no run.)                                             *)
Init ==
    /\ opts \in OptionSets
    /\ resolving = ("precache" \in opts)
    /\ sess = (IF resolving THEN "none" ELSE "connecting")
    /\ connPending = (~resolving /\ "timeout" \in opts)
    /\ work = (~resolving /\ "workAlways" \in opts)
    /\ timer = [t \in Timers |->
                  IF \/ t = "poll" /\ ~resolving /\ "poll" \in opts
                     \/ t = "conn" /\ connPending
                  THEN Current ELSE Off]
    /\ halt = FALSE /\ paused = FALSE /\ finalized = FALSE
    /\ heard = FALSE /\ asked = FALSE
    /\ queue = <<>> /\ posts = 0

(* thread_safe_stop, _pause, _resume, _reconnect *)
Post(op) ==
    /\ ~halt
    /\ posts < MaxPosts
    /\ queue' = Append(queue, Handler(op, Current))
    /\ posts' = posts + 1
    /\ UNCHANGED <<opts, flagVars, connPending, timer, resolving, clientVars>>

(* A wait ends: its handler is ready. *)
Expire(t) ==
    /\ timer[t] # Off
    /\ Cardinality({i \in DOMAIN queue : queue[i].op = t}) < MaxReady
    /\ timer' = [timer EXCEPT ![t] = Off]
    /\ queue' = Append(queue, Handler(t, timer[t]))
    /\ UNCHANGED <<opts, flagVars, connPending, resolving, clientVars, posts>>

(* io_context::run takes the next handler. *)
RunHandler ==
    /\ queue # <<>>
    /\ Runs(Head(queue), Tail(queue))
    /\ UNCHANGED <<opts, posts>>

(* bulk_resolve_done *)
BulkResolveDone ==
    /\ resolving
    /\ IF ~halt /\ sess = "none" THEN DoNewClient(paused, FALSE, queue)
       ELSE /\ resolving' = FALSE
            /\ UNCHANGED <<flagVars, connPending, timer, clientVars, queue>>
    /\ UNCHANGED <<opts, posts>>

-----------------------------------------------------------------------------
(* The client, and what the controller does in its callbacks. *)

FirstPacket ==
    /\ sess = "connecting" /\ ~heard
    /\ heard' = TRUE
    /\ UNCHANGED <<opts, flagVars, connPending, timer, resolving, sess, asked,
                   queue, posts>>

(* client_proto_connected *)
Connected ==
    /\ sess = "connecting" /\ heard
    /\ sess' = "up"
    /\ timer' = [timer EXCEPT !["conn"] = Off] /\ connPending' = FALSE
    /\ UNCHANGED <<opts, flagVars, resolving, heard, asked, queue, posts>>

(* client_proto_renegotiated: the remotes are looked up again. *)
Renegotiated ==
    /\ sess = "up" /\ "precache" \in opts
    /\ resolving' = TRUE
    /\ UNCHANGED <<opts, flagVars, connPending, timer, clientVars, queue, posts>>

(* client_proto_auth_pending_timeout, when it grants more time than is left  *)
AuthPendingTimeout ==
    /\ sess = "connecting" /\ heard
    /\ connPending
    /\ timer' = [timer EXCEPT !["conn"] = Current]
    /\ UNCHANGED <<opts, flagVars, connPending, resolving, clientVars, queue, posts>>

(* Mutant: a failed client is not followed by another. *)
TerminateForgets(code, after) ==
    /\ Live
    /\ IF code = "fatal" \/ (code = "auth" /\ "retryAuth" \notin opts)
       THEN DoStop(queue)
       ELSE /\ sess' = "down" /\ finalized' = TRUE
            /\ timer' = [timer EXCEPT !["poll"] = Off]
            /\ UNCHANGED <<halt, paused, work, connPending, resolving, heard,
                           asked, queue>>
    /\ UNCHANGED <<opts, posts>>

(* client_proto_terminate, by the kind of error the client ended with:       *)
(* "retry" none, or one after which the connection is tried again, with the  *)
(* same transport or a relay; "auth" a failed authentication without a       *)
(* challenge; "fatal" all others: the errors that end the run, a dynamic     *)
(* challenge, any error after dont_restart, and the codes that the switch    *)
(* does not know (it throws, and connect stops the controller). A client may *)
(* be told that it is connected, if it was not, and of an authentication     *)
(* that is pending, by the messages behind the one that ended it; a          *)
(* controller that has halted has no timer for them to find.                 *)
Terminate(code, after) ==
    /\ Live
    /\ after = "connected" => sess = "connecting" /\ heard
    /\ after = "authPending" => heard
    /\ IF code = "fatal" \/ (code = "auth" /\ "retryAuth" \notin opts)
       THEN DoStop(queue)
       ELSE DoQueueRestart(after)
    /\ UNCHANGED <<opts, posts>>

(* io_context::run has no handler to run: it returns when halted, and waits  *)
(* on asio_work when paused.                                                 *)
RunIdle ==
    /\ queue = <<>>
    /\ halt \/ (paused /\ work)
    /\ UNCHANGED vars

-----------------------------------------------------------------------------
ClientStep ==
    \/ FirstPacket \/ Connected \/ Renegotiated \/ AuthPendingTimeout
    \/ \E code \in {"retry", "auth", "fatal"},
          after \in {"nothing", "connected", "authPending"} : Terminate(code, after)

Next ==
    \/ \E op \in Commands : Post(op)
    \/ \E t \in Timers : Expire(t)
    \/ RunHandler \/ BulkResolveDone \/ ClientStep \/ RunIdle

(* The io_context runs what is ready, time passes, and a resolve ends. No    *)
(* client has to hear, connect or terminate and no thread has to post.       *)
Fairness ==
    /\ WF_vars(RunHandler) /\ WF_vars(BulkResolveDone)
    /\ \A t \in Timers : WF_vars(Expire(t))

Spec == Init /\ [][Next]_vars
FairSpec == Spec /\ Fairness

-----------------------------------------------------------------------------
(* Properties. *)

(* cliconnect.hpp:127-157: once halted, nothing of the controller runs or    *)
(* waits any more (what is in queue returns at once): io_context::run can    *)
(* return. No callback of a timer, a resolve or a client undoes that.        *)
HaltedIsQuiet ==
    halt => ~Live /\ timer = AllOff /\ ~resolving /\ ~work

(* A controller that is not halted has a client at work, or is resolving for *)
(* its first, or will make one when its restart wait ends, or is paused and  *)
(* keeps the io_context from returning: whatever the order of commands,      *)
(* timers and errors, connect() returns only because of a stop.              *)
NeverStranded ==
    ~halt => \/ Live
             \/ resolving /\ sess = "none"
             \/ timer["restart"] = Current
             \/ Ready(Handler("restart", Current), queue)
             \/ paused /\ work

(* The tun state of a client is finalized when it is down and not before:    *)
(* no client leaves its tun to the next one unfinalized.                     *)
FinalizedIffDown == ~halt => (finalized <=> sess = "down")

(* conn_timer_pending tells the truth: while it is set the wait runs or its  *)
(* handler is ready, so that a client made without starting the timer has    *)
(* one; while it is not, no wait runs, and none runs over a connection. With *)
(* a connection timeout it is set as long as a client is connecting.         *)
ConnTimerBacked ==
    /\ sess = "connecting" /\ "timeout" \in opts => connPending
    /\ connPending => timer["conn"] # Off \/ Ready(Handler("conn", Current), queue)
    /\ timer["conn"] # Off => connPending /\ sess # "up"

(* Callbacks of restart and server-poll waits that come late spare a client  *)
(* that is up: only a reconnect that was asked for during its life replaces  *)
(* it, or the resume of a controller that is paused.                         *)
StaleTimersSpareClient ==
    [][sess = "up" /\ sess' = "connecting" =>
         asked \/ (paused /\ Head(queue).op = "resume")]_vars

(* While the first client is resolved for, or a server-poll callback is      *)
(* ready, a pause does not hold: neither looks at paused.                    *)
PauseAtRisk ==
    \/ resolving /\ sess = "none"
    \/ Ready(Handler("poll", Current), queue)
Settled == paused /\ ~Live /\ ~PauseAtRisk

(* ovpncli.hpp:647: "Pause the client -- useful to avoid continuous          *)
(* reconnection attempts when network is down": once the callbacks that were *)
(* under way have come, no client is made until the pause ends.              *)
PauseSettled == [][Settled /\ paused' => Settled']_vars

(* The inductive invariant: what a running wait carries is what its handler  *)
(* will be compared with, and a wait that makes a client runs only for one   *)
(* that is down, or that was asked to reconnect.                             *)
IndInv ==
    /\ TypeOK
    /\ \A t \in Timers : timer[t] # Old
    /\ halt => ~connPending
    /\ HaltedIsQuiet /\ NeverStranded /\ FinalizedIffDown /\ ConnTimerBacked
    /\ ~Live => timer["poll"] = Off
    /\ sess = "up" => heard
    /\ Live /\ (timer["restart"] = Current
                \/ Ready(Handler("restart", Current), queue)) => asked

(* A stop that was posted ends the run: in time the controller is halted and *)
(* no handler is left.                                                       *)
StopReturns == Ready(Handler("stop", Current), queue) ~> (halt /\ queue = <<>>)

(* The steps of StopReturns. A stop that was posted keeps its place behind   *)
(* the handlers before it and moves up when one of them runs, and the        *)
(* controller halts when it is first. What is left in queue then is only     *)
(* taken out of it, and halt is for good.                                    *)
StopAdvances ==
    [][/\ \A i \in DOMAIN queue : queue[i].op = "stop" =>
            LET j == IF Len(queue') < Len(queue) THEN i - 1 ELSE i
            IN halt' \/ (j \in DOMAIN queue' /\ queue'[j].op = "stop")
       /\ halt => halt' /\ queue # <<>> /\ queue' = Tail(queue)]_vars

(* The server keeps the connection timer from running out: it extends it, or *)
(* answers behind the message that ends the client.                          *)
ServerHoldsOff ==
    \/ AuthPendingTimeout
    \/ \E code \in {"retry", "auth"}, after \in {"connected", "authPending"} :
          Terminate(code, after)

(* With a connection timeout, and unless the server holds it off again and   *)
(* again, a controller does not go on without a connection for ever: it gets *)
(* one, or pauses, or halts. The timer runs on from one client to the next.  *)
ConnectionTimeoutHolds ==
    []<><<ServerHoldsOff>>_vars \/
    (("timeout" \in opts /\ sess # "up") ~> (sess = "up" \/ halt \/ paused))
=============================================================================
