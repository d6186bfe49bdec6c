--------------------------- MODULE ClientSession ----------------------------
(***************************************************************************)
(* ClientProto::Session of cliproto.hpp, one after the other, with the     *)
(* credentials they share (clicreds.hpp) and what the controller decides   *)
(* when one terminates (retry or stop; ConnectionController has the rest). *)
(*                                                                         *)
(* Everything runs in the io_context's thread. A handler that receives     *)
(* packets may decrypt several control messages before it returns: they    *)
(* are in batch, and are handled one after the other whatever the first    *)
(* did, since control_recv does not look at halt. Handlers in between are  *)
(* atomic. The timers' callbacks do look at halt; cancelling takes their   *)
(* wait away. The keys and their renegotiation are in KeyRollover; here a  *)
(* handshake sends credentials and makes the session active.               *)
(***************************************************************************)
EXTENDS Naturals, Sequences

CONSTANTS Configs,    \* the configurations: sets of Options
          Batches,    \* the control messages one handler may receive
          MaxHeld,    \* bound: INFO messages held back
          MaxPosted   \* bound: posted handlers that count tun bytes

Options == {"nocache",   \* auth-nocache
            "password",  \* the user has a password
            "relay",     \* relay_mode
            "inactive",  \* an inactivity timeout is pushed
            "retryAuth"} \* retry_on_auth_failed

Messages == {"reply", "replyToken",  \* (last part of) a PUSH_REPLY
             "part",                 \* a PUSH_REPLY that is to be continued
             "reject",               \* one with an option that is rejected
             "update", "updatePart", \* (last part of) a PUSH_UPDATE
             "authFailed", "authTemp", "authPending",
             "restart", "restartPsid", "halt", "relay",
             "info", "infoPre", "webAuth"}
Updates == {"update", "updatePart"}

(* The server sends the parts of an update in a row. *)
InARow(b) ==
    \A i \in DOMAIN b : i < Len(b) /\ b[i] = "updatePart" => b[i + 1] \in Updates

ASSUME SessionAssumption ==
    /\ Configs \subseteq SUBSET Options
    /\ Batches \subseteq {b \in Seq(Messages) : b # <<>> /\ InARow(b)}
    /\ MaxHeld \in Nat /\ MaxPosted \in Nat

VARIABLES
    cfg,        \* the configuration
    run,        \* the controller: trying or stopped
    halt,
    sentAuth,   \* client_auth has been called for this session
    active,     \* the session was ACTIVE (active(true))
    received,   \* received_options: none, partial or complete
    connected,  \* connected_ is set
    pending,    \* auth_pending
    tun,        \* none, running or stopped
    waits,      \* timers that run: push, inactive, info
    hold,       \* info_hold is there
    held,       \* INFO messages in it
    posted,     \* handlers posted by reset_inactive_timer
    batch,      \* messages still to be handled by the current handler
    token, password, needUser,   \* creds: session id, password, interaction
    calls,      \* history: callbacks to the controller
    late,       \* history: a reply was handled after the session had stopped
    refusals    \* history: AUTH_FAILED since the server last accepted

sessVars == <<halt, sentAuth, active, received, connected, pending, tun,
              waits, hold, held, posted, batch, calls, late>>
credVars == <<token, password, needUser>>
vars == <<cfg, run, sessVars, credVars, refusals>>

Timers == {"push", "inactive", "info"}

TypeOK ==
    /\ cfg \subseteq Options
    /\ run \in {"trying", "stopped"}
    /\ halt \in BOOLEAN /\ sentAuth \in BOOLEAN /\ active \in BOOLEAN
    /\ received \in {"none", "partial", "complete"}
    /\ connected \in BOOLEAN /\ pending \in BOOLEAN
    /\ tun \in {"none", "running", "stopped"}
    /\ waits \subseteq Timers
    /\ hold \in BOOLEAN /\ held \in 0..MaxHeld /\ posted \in 0..MaxPosted
    /\ batch \in Seq(Messages \cup {"check"})
    /\ token \in BOOLEAN /\ password \in BOOLEAN /\ needUser \in BOOLEAN
    /\ calls \in Seq({"connected", "terminate"})
    /\ late \in BOOLEAN
    /\ refusals \in 0..2

-----------------------------------------------------------------------------
(* stop *)

Stopped(t) == IF t = "running" THEN "stopped" ELSE t

(* client_proto_terminate: does the controller go on after this error? *)
Decide(code) ==
    IF code = "fatal" \/ (code = "auth" /\ "retryAuth" \notin cfg)
    THEN "stopped" ELSE run

(* Mutant: the session stops, and reports it, every time. *)
EndAgain(code) ==
    /\ halt' = TRUE /\ waits' = {}
    /\ calls' = Append(calls, "terminate")
    /\ run' = Decide(code)
    /\ tun' = Stopped(tun)

(* stop(true): only the first call does anything. *)
End(code) ==
    IF halt THEN UNCHANGED <<halt, waits, calls, run, tun>>
    ELSE /\ halt' = TRUE /\ waits' = {}
         /\ calls' = Append(calls, "terminate")
         /\ run' = Decide(code)
         /\ tun' = Stopped(tun)

Continue == UNCHANGED <<halt, waits, calls, run, tun>>

-----------------------------------------------------------------------------
(* A session starts, fails, or is stopped from outside. *)

Init ==
    /\ cfg \in Configs
    /\ run = "trying" /\ halt = FALSE
    /\ sentAuth = FALSE /\ active = FALSE /\ received = "none"
    /\ connected = FALSE /\ pending = FALSE /\ tun = "none" /\ waits = {}
    /\ hold = TRUE /\ held = 0 /\ posted = 0 /\ batch = <<>>
    /\ calls = <<>> /\ late = FALSE
    /\ token = FALSE /\ needUser = FALSE /\ refusals = 0
    /\ password = ("password" \in cfg)

(* new_client, after a retry or in place of a session that lives (a poll, a  *)
(* restart, a resume): the old session is stopped without a callback and     *)
(* goes, with its tun. The credentials stay.                                 *)
NewClient ==
    /\ run = "trying" /\ batch = <<>>
    /\ halt' = FALSE
    /\ sentAuth' = FALSE /\ active' = FALSE /\ received' = "none"
    /\ connected' = FALSE /\ pending' = FALSE /\ tun' = "none" /\ waits' = {}
    /\ hold' = TRUE /\ held' = 0 /\ posted' = 0 /\ batch' = <<>>
    /\ calls' = <<>> /\ late' = FALSE
    /\ UNCHANGED <<cfg, run, credVars, refusals>>

(* stop(false), by a controller that pauses (r is what run was) or stops *)
StoppedOutside(r) ==
    /\ run = "trying" /\ batch = <<>> /\ ~halt
    /\ halt' = TRUE /\ waits' = {} /\ tun' = Stopped(tun)
    /\ run' = r
    /\ UNCHANGED <<cfg, sentAuth, active, received, connected, pending, hold,
                   held, posted, batch, calls, late, credVars, refusals>>

(* transport_error, proxy_error, tun_error, process_exception, an            *)
(* invalidated protocol context: "retry" with no code or one that the        *)
(* controller retries, else "fatal".                                         *)
SessionFails(code) ==
    /\ ~halt /\ batch = <<>>
    /\ End(code)
    /\ UNCHANGED <<cfg, sentAuth, active, received, connected, pending, hold,
                   held, posted, batch, late, credVars, refusals>>

(* client_auth, for the first key and for every renegotiation of an active   *)
(* session: a relay gets no credentials; without a session id and with the   *)
(* password gone it throws NEED_CREDS. auth-nocache forgets the password     *)
(* once it is sent.                                                          *)
Authenticate ==
    /\ ~halt /\ batch = <<>> /\ (sentAuth => active)
    /\ LET sends == "relay" \notin cfg
           lacks == sends /\ ~token /\ "password" \in cfg /\ ~password
       IN /\ sentAuth' = (sentAuth \/ ~lacks)
          /\ password' = (password /\ ~(sends /\ ~lacks /\ "nocache" \in cfg))
          /\ IF lacks THEN End("fatal") ELSE Continue
    /\ UNCHANGED <<cfg, active, received, connected, pending, hold, held,
                   posted, batch, late, token, needUser, refusals>>

(* active(true) *)
GoActive ==
    /\ ~halt /\ batch = <<>> /\ sentAuth /\ ~active
    /\ active' = TRUE
    /\ waits' = waits \cup {"push"}
    /\ UNCHANGED <<cfg, run, halt, sentAuth, received, connected, pending, tun,
                   hold, held, posted, batch, calls, late, credVars, refusals>>

-----------------------------------------------------------------------------
(* Timers. *)

(* Mutant: the request is sent once. *)
PushRequestOnce ==
    /\ batch = <<>> /\ "push" \in waits
    /\ waits' = waits \ {"push"}
    /\ UNCHANGED <<cfg, run, halt, sentAuth, active, received, connected,
                   pending, tun, hold, held, posted, batch, calls, late,
                   credVars, refusals>>

(* Mutant: the wait is started again before halt is looked at. *)
PushRequestForever ==
    /\ batch = <<>> /\ "push" \in waits
    /\ IF received # "none"
       THEN /\ waits' = waits \ {"push"}
            /\ UNCHANGED <<halt, calls, run, tun>>
       ELSE IF halt THEN Continue
       ELSE \/ Continue \/ End("retry")
            \/ /\ halt' = TRUE /\ calls' = Append(calls, "terminate")
               /\ run' \in {Decide("retry"), Decide("fatal")}
               /\ tun' = Stopped(tun)
               /\ waits' = {"push"}
    /\ UNCHANGED <<cfg, sentAuth, active, received, connected, pending, hold,
                   held, posted, batch, late, credVars, refusals>>

(* send_push_request_callback: asks again until part of a reply has come.    *)
(* Sending may fail and end the session: by an exception, or in the          *)
(* transport, and then the wait is started again all the same.               *)
PushRequest ==
    /\ batch = <<>> /\ "push" \in waits
    /\ IF halt \/ received # "none"
       THEN /\ waits' = waits \ {"push"}
            /\ UNCHANGED <<halt, calls, run, tun>>
       ELSE \/ Continue \/ End("retry")
            \/ /\ halt' = TRUE /\ calls' = Append(calls, "terminate")
               /\ run' \in {Decide("retry"), Decide("fatal")}
               /\ tun' = Stopped(tun)
               /\ waits' = {"push"}
    /\ UNCHANGED <<cfg, sentAuth, active, received, connected, pending, hold,
                   held, posted, batch, late, credVars, refusals>>

(* inactive_callback *)
InactiveCallback ==
    /\ batch = <<>> /\ "inactive" \in waits
    /\ IF halt THEN /\ waits' = waits \ {"inactive"}
                    /\ UNCHANGED <<halt, calls, run, tun>>
       ELSE End("fatal")
    /\ UNCHANGED <<cfg, sentAuth, active, received, connected, pending, hold,
                   held, posted, batch, late, credVars, refusals>>

(* info_hold_callback: what was held is sent, later messages go at once. *)
InfoHoldCallback ==
    /\ batch = <<>> /\ "info" \in waits
    /\ waits' = waits \ {"info"}
    /\ hold' = (hold /\ halt)
    /\ held' = (IF halt THEN held ELSE 0)
    /\ UNCHANGED <<cfg, run, halt, sentAuth, active, received, connected,
                   pending, tun, posted, batch, calls, late, credVars, refusals>>

(* reset_inactive_timer, called with every packet of the tun: it posts a     *)
(* handler ...                                                               *)
TunBytes ==
    /\ batch = <<>> /\ tun = "running" /\ "inactive" \in cfg
    /\ posted < MaxPosted
    /\ posted' = posted + 1
    /\ UNCHANGED <<cfg, run, halt, sentAuth, active, received, connected,
                   pending, tun, waits, hold, held, batch, calls, late,
                   credVars, refusals>>

(* ... that starts the timer again once there were enough bytes, whether or  *)
(* not the session has stopped meanwhile.                                    *)
CountBytes ==
    /\ batch = <<>> /\ posted > 0
    /\ posted' = posted - 1
    /\ waits' \in {waits, waits \cup {"inactive"}}
    /\ UNCHANGED <<cfg, run, halt, sentAuth, active, received, connected,
                   pending, tun, hold, held, batch, calls, late, credVars,
                   refusals>>

-----------------------------------------------------------------------------
(* Control messages. *)

(* transport_recv: the server sends only to a session that is active, an     *)
(* update only after its reply, and nothing between two parts of it. That it *)
(* does not send the update with the reply in one handler is assumed too.    *)
Receive(b) ==
    /\ ~halt /\ active /\ batch = <<>>
    /\ \A i \in DOMAIN b : b[i] \in Updates => connected
    /\ connected /\ received = "partial" => Head(b) \in Updates
    /\ batch' = b
    /\ UNCHANGED <<cfg, run, halt, sentAuth, active, received, connected,
                   pending, tun, waits, hold, held, posted, calls, late,
                   credVars, refusals>>

Rest == Tail(batch)

(* A reply in the middle of a session only brings a new token. *)
ReplyAgain(m) ==
    /\ received = "complete"
    /\ token' = (token \/ m = "replyToken")
    /\ batch' = Rest
    /\ refusals' = IF m = "replyToken" THEN 0 ELSE refusals
    /\ Continue
    /\ UNCHANGED <<received, connected, late, password>>

(* add() of the options: a rejected one restarts the session. *)
ReplyPart(m) ==
    /\ received # "complete"
    /\ received' = "partial"
    /\ token' = (token /\ m # "reject")
    /\ IF m = "reject" THEN End("retry") ELSE Continue
    /\ batch' = Rest
    /\ UNCHANGED <<connected, late, password, refusals>>

(* Mutant: the INFO messages are not scheduled. *)
TunStartsNoInfo ==
    /\ tun' = "running" /\ connected' = TRUE
    /\ waits' = waits \cup (IF "inactive" \in cfg THEN {"inactive"} ELSE {})
    /\ late' = (late \/ halt)
    /\ calls' = Append(calls, "connected")
    /\ batch' = <<"check">> \o Rest
    /\ UNCHANGED <<halt, run>>

(* tun_start succeeds and everything after it up to the Connected event, in  *)
(* a session that has stopped too.                                           *)
TunStarts ==
    /\ tun' = "running" /\ connected' = TRUE
    /\ waits' = waits \cup {"info"}
                      \cup (IF "inactive" \in cfg THEN {"inactive"} ELSE {})
    /\ late' = (late \/ halt)
    /\ calls' = Append(calls, "connected")
    /\ batch' = <<"check">> \o Rest
    /\ UNCHANGED <<halt, run>>

(* A failure while the reply is applied: process_push throws, before there   *)
(* is a tun; tun_start fails, calls tun_error, and "not connected" is        *)
(* thrown; or init_data_channel throws with the tun running. What is left of *)
(* the batch is dropped with the exception.                                  *)
ReplyFails ==
    /\ IF halt THEN UNCHANGED <<halt, waits, calls, run>>
       ELSE /\ halt' = TRUE /\ waits' = {}
            /\ calls' = Append(calls, "terminate")
            /\ run' \in {Decide("retry"), Decide("fatal")}
    /\ \/ /\ tun' \in {IF halt THEN tun ELSE Stopped(tun), "stopped"}
          /\ UNCHANGED <<connected, late>>
       \/ /\ connected' = TRUE /\ late' = (late \/ halt)
          /\ tun' = (IF halt THEN "running" ELSE "stopped")
    /\ batch' = <<>>

(* The reply is complete. A relay may not give a tunnel. *)
ReplyComplete(m) ==
    /\ received # "complete"
    /\ received' = "complete"
    /\ IF "relay" \in cfg
       THEN /\ End("fatal")
            /\ batch' = Rest
            /\ UNCHANGED <<connected, late, token, password, refusals>>
       ELSE /\ token' = (token \/ m = "replyToken")
            /\ password' = (password /\ "nocache" \notin cfg)
            /\ refusals' = 0
            /\ TunStarts \/ ReplyFails

(* recv_push_reply *)
PushReply(m) ==
    /\ \/ m \in {"reply", "replyToken"} /\ (ReplyAgain(m) \/ ReplyComplete(m))
       \/ m \in {"part", "reject"} /\ (ReplyAgain(m) \/ ReplyPart(m))
    /\ UNCHANGED <<pending, hold, held, needUser>>

(* check_proto_warnings: compression that was not asked for is an error. *)
CheckWarnings ==
    /\ \/ Continue /\ batch' = Rest
       \/ End("fatal") /\ batch' = <<>>
    /\ UNCHANGED <<received, connected, pending, hold, held, late, credVars,
                   refusals>>

(* Mutant: the session id that was refused is kept. *)
AuthFailedKeepsToken(m) ==
    /\ IF m = "authTemp"
       THEN End("retry") /\ UNCHANGED refusals
       ELSE LET again == token /\ ~needUser /\ ("password" \in cfg => password)
            IN /\ End(IF again THEN "retry" ELSE "auth")
               /\ refusals' = IF halt \/ refusals = 2 THEN refusals ELSE refusals + 1
    /\ batch' = Rest
    /\ UNCHANGED <<received, connected, pending, hold, held, late, credVars>>

(* recv_auth_failed: a refused session id is forgotten, and the password     *)
(* tried instead if that needs no user.                                      *)
AuthFailed(m) ==
    /\ IF m = "authTemp"
       THEN End("retry") /\ UNCHANGED <<token, refusals>>
       ELSE LET again == token /\ ~needUser /\ ("password" \in cfg => password)
            IN /\ token' = FALSE
               /\ End(IF again THEN "retry" ELSE "auth")
               /\ refusals' = IF halt \/ refusals = 2 THEN refusals ELSE refusals + 1
    /\ batch' = Rest
    /\ UNCHANGED <<received, connected, pending, hold, held, late, password,
                   needUser>>

(* recv_halt_restart *)
HaltRestart(m) ==
    /\ token' = (token /\ m = "restartPsid")
    /\ End(IF m = "halt" THEN "fatal" ELSE "retry")
    /\ batch' = Rest
    /\ UNCHANGED <<received, connected, pending, hold, held, late, password,
                   needUser, refusals>>

(* recv_relay *)
Relay ==
    /\ End(IF "relay" \in cfg THEN "retry" ELSE "fatal")
    /\ batch' = Rest
    /\ UNCHANGED <<received, connected, pending, hold, held, late, credVars,
                   refusals>>

(* recv_info: held back until a second after Connected, INFO_PRE never; a    *)
(* web login needs the user.                                                 *)
Info(m) ==
    /\ held' = IF hold /\ m # "infoPre" /\ held < MaxHeld THEN held + 1 ELSE held
    /\ needUser' = (needUser \/ m = "webAuth")
    /\ batch' = Rest
    /\ Continue
    /\ UNCHANGED <<received, connected, pending, hold, late, token, password,
                   refusals>>

(* recv_auth_pending; the controller's timer is in ConnectionController. *)
AuthPending ==
    /\ pending' = TRUE
    /\ batch' = Rest
    /\ Continue
    /\ UNCHANGED <<received, connected, hold, held, late, credVars, refusals>>

(* recv_push_update: an option that cannot be updated throws. *)
PushUpdate(m) ==
    /\ \/ /\ received' = IF m = "update" THEN "complete" ELSE "partial"
          /\ batch' = Rest
          /\ Continue
       \/ received' = "partial" /\ batch' = <<>> /\ End("retry")
    /\ UNCHANGED <<connected, pending, hold, held, late, credVars, refusals>>

(* control_recv: halt is not looked at. *)
ControlRecv ==
    /\ batch # <<>>
    /\ LET m == Head(batch)
       IN \/ m \in {"reply", "replyToken", "part", "reject"} /\ PushReply(m)
          \/ m = "check" /\ CheckWarnings
          \/ m \in {"authFailed", "authTemp"} /\ AuthFailed(m)
          \/ m \in {"restart", "restartPsid", "halt"} /\ HaltRestart(m)
          \/ m = "relay" /\ Relay
          \/ m \in {"info", "infoPre", "webAuth"} /\ Info(m)
          \/ m = "authPending" /\ AuthPending
          \/ m \in Updates /\ PushUpdate(m)
    /\ UNCHANGED <<cfg, sentAuth, active, posted>>

-----------------------------------------------------------------------------
(* The run has ended and nothing is left in the io_context. *)
Done ==
    /\ run = "stopped" /\ batch = <<>> /\ waits = {} /\ posted = 0
    /\ UNCHANGED vars

Next ==
    \/ NewClient \/ \E r \in {"trying", "stopped"} : StoppedOutside(r)
    \/ \E code \in {"retry", "fatal"} : SessionFails(code)
    \/ Authenticate \/ GoActive
    \/ PushRequest \/ InactiveCallback \/ InfoHoldCallback
    \/ TunBytes \/ CountBytes
    \/ \E b \in Batches : Receive(b)
    \/ ControlRecv \/ Done

(* The io_context runs what is ready, and time passes; it takes handlers in  *)
(* turn, so that messages that keep coming hold up no callback that is not   *)
(* cancelled. Nothing is asked of the server, the network or the controller. *)
Fairness ==
    /\ WF_vars(ControlRecv) /\ SF_vars(CountBytes)
    /\ WF_vars(PushRequest) /\ WF_vars(InactiveCallback)
    /\ SF_vars(InfoHoldCallback)

Spec == Init /\ [][Next]_vars
FairSpec == Spec /\ Fairness

-----------------------------------------------------------------------------
(* Properties. *)

(* The tun runs exactly while the session is connected and not stopped       *)
(* (unless a reply came late): no failure between the reply and the end      *)
(* leaves a tun without its session.                                         *)
TunMatches == ~late => ((tun = "running") <=> (connected /\ ~halt))

(* An active session that has not heard part of a reply keeps asking for it. *)
KeepsAsking ==
    active /\ ~halt /\ received = "none" => "push" \in waits

(* INFO is held back until the session is connected, and as long as any is   *)
(* held back in a session that is connected, the wait that sends it runs.    *)
InfoWaits ==
    /\ ~connected \/ held > 0 => hold
    /\ connected /\ hold /\ ~halt => "info" \in waits

(* A server that refuses to authenticate ends the run: a refused session id  *)
(* is followed by at most one attempt with the password, across reconnects   *)
(* and their timers, unless the application asked for retries.               *)
RefusalsEnd == refusals = 2 /\ "retryAuth" \notin cfg => run = "stopped"

(* The inductive invariant: what the four need besides. *)
IndInv ==
    /\ TypeOK
    /\ TunMatches /\ KeepsAsking /\ InfoWaits /\ RefusalsEnd
    /\ refusals > 0 => ~token
    /\ run = "stopped" => halt
    /\ "info" \in waits => connected
    /\ connected => received # "none"
    /\ InARow(batch)
    /\ \A i \in DOMAIN batch : batch[i] \in Updates => connected
    /\ connected /\ received = "partial" /\ batch # <<>> => Head(batch) \in Updates
    /\ ~connected /\ ~halt => calls = <<>>
    /\ ~connected /\ halt /\ batch # <<>> => calls = <<"terminate">>

(* The client is what the controller expects: it reports each connection and *)
(* each end once, a connection after the end only in the handler of that     *)
(* end, and nothing after the controller has stopped it.                     *)
Contract == INSTANCE SessionContract WITH
    stage <- IF halt THEN "down"
             ELSE IF connected THEN "up" ELSE "connecting",
    told <- calls
ContractKept == Contract!Spec

(* Messages that were held back reach the application after Connected, or    *)
(* the session ends.                                                         *)
HeldInfoDelivered == (held > 0 /\ connected) ~> (held = 0 \/ halt)

(* After a stop the io_context runs dry, so that connect() returns: the      *)
(* waits that are started after the stop end by themselves. (Not when a late *)
(* reply has started a tun.)                                                 *)
RunsDry ==
    (run = "stopped" /\ ~late) ~> (late \/ (waits = {} /\ posted = 0 /\ batch = <<>>))

(* What the io_context still has to run: the messages of a batch, the waits, *)
(* and the posted handlers, each of which may start a wait.                  *)
Waiting(w) == IF w \in waits THEN 1 ELSE 0
Undone ==
    Len(batch) + Waiting("push") + Waiting("inactive") + Waiting("info") + 2 * posted

(* The steps of RunsDry: once the run has stopped, every step leaves less to *)
(* do, unless a late reply starts a tun. Nothing starts a session again.     *)
DryProgress ==
    [][run = "stopped" /\ ~late' => run' = "stopped" /\ Undone' < Undone]_vars
=============================================================================
