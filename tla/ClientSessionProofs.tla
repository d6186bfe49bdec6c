------------------------ MODULE ClientSessionProofs -------------------------
(***************************************************************************)
(* Proofs about ClientSession, for every configuration and all batches of  *)
(* messages in which the parts of an update come in a row.                 *)
(***************************************************************************)
EXTENDS ClientSession, TLAPS

Items == Messages \cup {"check"}
HasUpdate(b) == \E i \in DOMAIN b : b[i] \in Updates

(* The first message of a batch is its first element. *)
LEMMA HeadIs ==
    ASSUME NEW b \in Seq(Items), b # <<>>
    PROVE  Head(b) = b[1] /\ Len(b) # 0
  OBVIOUS

(* What is left of a batch once its first message is handled *)
LEMMA RestFacts ==
    ASSUME NEW b \in Seq(Items), b # <<>>, InARow(b)
    PROVE  /\ Head(b) \in Items /\ Tail(b) \in Seq(Items)
           /\ InARow(Tail(b))
           /\ HasUpdate(Tail(b)) => HasUpdate(b)
           /\ Head(b) \in Updates => HasUpdate(b)
           /\ Head(b) = "updatePart" /\ Tail(b) # <<>> => Head(Tail(b)) \in Updates
<1>1. Head(b) \in Items /\ Tail(b) \in Seq(Items) /\ Len(b) \in Nat \ {0}
  OBVIOUS
<1>2. /\ DOMAIN Tail(b) = 1..(Len(b) - 1) /\ DOMAIN b = 1..Len(b)
      /\ Len(Tail(b)) = Len(b) - 1
      /\ \A i \in 1..(Len(b) - 1) : Tail(b)[i] = b[i + 1]
      /\ Head(b) = b[1]
  BY <1>1
<1>3. InARow(Tail(b))
  BY <1>1, <1>2 DEF InARow
<1>4. HasUpdate(Tail(b)) => HasUpdate(b)
  BY <1>1, <1>2 DEF HasUpdate
<1>5. Head(b) \in Updates => HasUpdate(b)
  BY <1>1, <1>2 DEF HasUpdate
<1>6. ASSUME Head(b) = "updatePart", Tail(b) # <<>> PROVE Head(Tail(b)) \in Updates
  <2>1. Len(Tail(b)) # 0 /\ Head(Tail(b)) = Tail(b)[1]
    BY <1>1, <1>6, HeadIs
  <2>2. 1 \in DOMAIN b /\ 1 < Len(b) /\ b[1] = "updatePart"
    BY <1>1, <1>2, <1>6, <2>1
  <2> QED BY <1>1, <1>2, <2>1, <2>2 DEF InARow
<1> QED BY <1>1, <1>3, <1>4, <1>5, <1>6

(* The batch after the reply is complete: the warnings are checked first. *)
LEMMA CheckFacts ==
    ASSUME NEW b \in Seq(Items), InARow(b)
    PROVE  /\ <<"check">> \o b \in Seq(Items)
           /\ InARow(<<"check">> \o b)
           /\ HasUpdate(<<"check">> \o b) => HasUpdate(b)
<1>1. "check" \in Items /\ "check" \notin Updates /\ "check" # "updatePart"
  BY DEF Items, Updates
<1>2. <<"check">> \o b \in Seq(Items)
  BY <1>1
<1>3. /\ Len(<<"check">> \o b) = Len(b) + 1 /\ Len(b) \in Nat
      /\ DOMAIN (<<"check">> \o b) = 1..(Len(b) + 1) /\ DOMAIN b = 1..Len(b)
      /\ (<<"check">> \o b)[1] = "check"
      /\ \A i \in 2..(Len(b) + 1) : (<<"check">> \o b)[i] = b[i - 1]
  OBVIOUS
<1>4. InARow(<<"check">> \o b)
  <2> SUFFICES ASSUME NEW i \in 1..(Len(b) + 1), i < Len(b) + 1,
                      (<<"check">> \o b)[i] = "updatePart"
               PROVE  (<<"check">> \o b)[i + 1] \in Updates
    BY <1>3 DEF InARow
  <2>1. i # 1
    BY <1>1, <1>3
  <2>2. i \in 2..(Len(b) + 1) /\ i + 1 \in 2..(Len(b) + 1)
    BY <1>3, <2>1
  <2>3. b[i - 1] = "updatePart" /\ (<<"check">> \o b)[i + 1] = b[(i - 1) + 1]
    BY <1>3, <2>2
  <2>4. i - 1 \in DOMAIN b /\ i - 1 < Len(b)
    BY <1>3, <2>2
  <2> QED BY <2>3, <2>4 DEF InARow
<1>5. ASSUME HasUpdate(<<"check">> \o b) PROVE HasUpdate(b)
  <2>1. PICK i \in 1..(Len(b) + 1) : (<<"check">> \o b)[i] \in Updates
    BY <1>3, <1>5 DEF HasUpdate
  <2>2. i # 1
    BY <1>1, <1>3, <2>1
  <2>3. i - 1 \in DOMAIN b /\ b[i - 1] \in Updates
    BY <1>3, <2>1, <2>2
  <2> QED BY <2>3 DEF HasUpdate
<1> QED BY <1>2, <1>4, <1>5

-----------------------------------------------------------------------------
(* The first session satisfies the inductive invariant. *)
LEMMA InitIndInv == Init => IndInv
<1> SUFFICES ASSUME Init PROVE IndInv
  OBVIOUS
<1>1. password \in BOOLEAN /\ cfg \subseteq Options
  <2>1. password \in BOOLEAN
    BY DEF Init
  <2> QED BY <2>1, SessionAssumption DEF Init
<1>2. DOMAIN batch = {} /\ batch \in Seq(Items)
  BY DEF Init
<1>3. MaxHeld \in Nat /\ MaxPosted \in Nat
  BY SessionAssumption
<1>4. TypeOK
  <2>1. /\ run = "trying" /\ halt = FALSE /\ sentAuth = FALSE /\ active = FALSE
        /\ received = "none" /\ connected = FALSE /\ pending = FALSE /\ tun = "none"
        /\ waits = {} /\ hold = TRUE /\ held = 0 /\ posted = 0 /\ late = FALSE
        /\ token = FALSE /\ needUser = FALSE /\ refusals = 0
    BY DEF Init
  <2>2. calls \in Seq({"connected", "terminate"})
    BY DEF Init
  <2>3. held \in 0..MaxHeld /\ posted \in 0..MaxPosted /\ refusals \in 0..2
    BY <1>3, <2>1
  <2>4. /\ password \in BOOLEAN /\ cfg \subseteq Options /\ batch \in Seq(Items)
        /\ waits \subseteq Timers
    BY <1>1, <1>2, <2>1
  <2>5. /\ halt \in BOOLEAN /\ sentAuth \in BOOLEAN /\ active \in BOOLEAN /\ connected \in BOOLEAN
        /\ pending \in BOOLEAN /\ hold \in BOOLEAN /\ late \in BOOLEAN /\ token \in BOOLEAN
        /\ needUser \in BOOLEAN /\ run \in {"trying", "stopped"}
        /\ received \in {"none", "partial", "complete"} /\ tun \in {"none", "running", "stopped"}
    BY <2>1
  <2> QED BY <2>2, <2>3, <2>4, <2>5 DEF TypeOK, Items
<1> QED
  BY <1>2, <1>4 DEF Init, IndInv, TunMatches, KeepsAsking, InfoWaits, RefusalsEnd, InARow

(* stop(true): a session that lives ends, with one callback; one that has    *)
(* ended is left alone.                                                      *)
LEMMA EndFacts ==
    ASSUME IndInv, NEW code, End(code)
    PROVE  /\ halt' /\ halt' \in BOOLEAN
           /\ waits' \subseteq Timers /\ waits' \subseteq waits
           /\ calls' \in Seq({"connected", "terminate"})
           /\ run' \in {"trying", "stopped"} /\ (run = "stopped" => run' = "stopped")
           /\ ~halt => run' = Decide(code)
           /\ tun' \in {"none", "running", "stopped"}
           /\ ~late => tun' # "running"
<1>1. TypeOK /\ TunMatches
  BY DEF IndInv
<1>2. CASE halt
  BY <1>1, <1>2 DEF End, TypeOK, TunMatches
<1>3. CASE ~halt
  <2>1. tun' # "running"
    BY <1>1, <1>3 DEF End, Stopped, TypeOK
  <2> QED BY <1>1, <1>3, <2>1 DEF End, TypeOK, Decide, Stopped
<1> QED BY <1>1, <1>2, <1>3 DEF TypeOK

(* A step that ends the session and otherwise only drops messages and        *)
(* credentials keeps the invariant.                                          *)
LEMMA EndKeeps ==
    ASSUME IndInv, NEW code, End(code),
           UNCHANGED <<cfg, active, connected, late>>,
           sentAuth' \in BOOLEAN, pending' \in BOOLEAN,
           hold' = hold, held' = held, posted' = posted,
           received' \in {received, "partial", "complete"},
           batch' \in Seq(Items), InARow(batch'), HasUpdate(batch') => connected,
           batch' # <<>> => batch # <<>>,
           connected /\ received' = "partial" /\ batch' # <<>> => Head(batch') \in Updates,
           token' \in BOOLEAN, password' \in BOOLEAN, needUser' \in BOOLEAN,
           refusals' \in 0..2, refusals' > 0 => ~token',
           refusals' = 2 /\ "retryAuth" \notin cfg => run' = "stopped"
    PROVE  IndInv'
<1>1. TypeOK'
  BY EndFacts DEF IndInv, TypeOK, Items
<1>2. TunMatches' /\ KeepsAsking' /\ RefusalsEnd'
  BY EndFacts DEF IndInv, TunMatches, KeepsAsking, RefusalsEnd
<1>3. InfoWaits' /\ ("info" \in waits' => connected')
  BY EndFacts DEF IndInv, InfoWaits
<1>4. connected' => received' # "none"
  BY DEF IndInv
<1>5. ~connected' /\ batch' # <<>> => calls' = <<"terminate">>
  <2>1. CASE halt
    BY <2>1 DEF End, IndInv
  <2>2. CASE ~halt
    BY <2>2 DEF End, IndInv
  <2> QED BY <2>1, <2>2
<1> QED BY <1>1, <1>2, <1>3, <1>4, <1>5, EndFacts DEF IndInv, HasUpdate

(* A step that leaves the session and its tun alone keeps the invariant when *)
(* what it does to the batch, the options and the credentials allows it.     *)
LEMMA ContinueKeeps ==
    ASSUME IndInv, Continue,
           UNCHANGED <<cfg, active, connected, late, hold, posted>>,
           sentAuth' \in BOOLEAN, pending' \in BOOLEAN,
           held' = held \/ (hold /\ held' \in 0..MaxHeld),
           received' \in {received, "partial", "complete"},
           batch' \in Seq(Items), InARow(batch'), HasUpdate(batch') => connected,
           batch' # <<>> => batch # <<>>,
           connected /\ received' = "partial" /\ batch' # <<>> => Head(batch') \in Updates,
           token' \in BOOLEAN, password' \in BOOLEAN, needUser' \in BOOLEAN,
           refusals' \in 0..2, refusals' > 0 => ~token', refusals' \in {refusals, 0}
    PROVE  IndInv'
<1>1. TypeOK'
  BY DEF Continue, IndInv, TypeOK, Items
<1>2. TunMatches' /\ KeepsAsking' /\ RefusalsEnd' /\ InfoWaits'
  BY DEF Continue, IndInv, TunMatches, KeepsAsking, RefusalsEnd, InfoWaits
<1> QED BY <1>1, <1>2 DEF Continue, IndInv, HasUpdate

(* A message other than an update does not come between the parts of one. *)
LEMMA NoUpdateOpen ==
    ASSUME IndInv, batch # <<>>, Head(batch) \notin Updates
    PROVE  connected => received # "partial"
  BY DEF IndInv

(* The batch, seen through the invariant *)
LEMMA BatchFacts ==
    ASSUME IndInv
    PROVE  /\ batch \in Seq(Items) /\ InARow(batch) /\ (HasUpdate(batch) => connected)
           /\ batch # <<>> =>
                /\ Head(batch) \in Items /\ Rest \in Seq(Items) /\ InARow(Rest)
                /\ HasUpdate(Rest) => connected
                /\ Head(batch) \in Updates => connected
                /\ Head(batch) = "updatePart" /\ Rest # <<>> => Head(Rest) \in Updates
<1>1. batch \in Seq(Items) /\ InARow(batch) /\ (HasUpdate(batch) => connected)
  BY DEF IndInv, TypeOK, Items, HasUpdate
<1> QED BY <1>1, RestFacts DEF Rest

(* A handler that threw has dropped its batch: nothing is left to handle. *)
LEMMA EmptyBatch == <<>> \in Seq(Items) /\ InARow(<<>>) /\ ~HasUpdate(<<>>)
  BY DEF InARow, HasUpdate

-----------------------------------------------------------------------------
(* Sessions that start, fail, are stopped, authenticate *)
LEMMA LifeKeeps ==
    ASSUME IndInv,
           \/ NewClient \/ \E r \in {"trying", "stopped"} : StoppedOutside(r)
           \/ \E code \in {"retry", "fatal"} : SessionFails(code)
           \/ Authenticate \/ GoActive
    PROVE  IndInv'
<1>0. TypeOK /\ MaxHeld \in Nat /\ MaxPosted \in Nat
  BY SessionAssumption DEF IndInv
<1>1. CASE NewClient
  <2>1. /\ halt' = FALSE /\ sentAuth' = FALSE /\ active' = FALSE /\ received' = "none"
        /\ connected' = FALSE /\ pending' = FALSE /\ tun' = "none" /\ waits' = {}
        /\ hold' = TRUE /\ held' = 0 /\ posted' = 0 /\ late' = FALSE
        /\ batch' = <<>> /\ calls' = <<>> /\ run = "trying"
        /\ UNCHANGED <<cfg, run, token, password, needUser, refusals>>
    BY <1>1 DEF NewClient, credVars
  <2>2. calls' \in Seq({"connected", "terminate"}) /\ batch' \in Seq(Items)
    BY <2>1
  <2>3. held' \in 0..MaxHeld /\ posted' \in 0..MaxPosted /\ waits' \subseteq Timers
    BY <1>0, <2>1
  <2>4. /\ cfg' \subseteq Options /\ run' \in {"trying", "stopped"} /\ token' \in BOOLEAN
        /\ password' \in BOOLEAN /\ needUser' \in BOOLEAN /\ refusals' \in 0..2
    BY <1>0, <2>1 DEF TypeOK
  <2>5. /\ halt' \in BOOLEAN /\ sentAuth' \in BOOLEAN /\ active' \in BOOLEAN
        /\ connected' \in BOOLEAN /\ pending' \in BOOLEAN /\ hold' \in BOOLEAN
        /\ late' \in BOOLEAN /\ received' \in {"none", "partial", "complete"}
        /\ tun' \in {"none", "running", "stopped"}
    BY <2>1
  <2>6. TypeOK'
    BY <2>2, <2>3, <2>4, <2>5 DEF TypeOK, Items
  <2>7. TunMatches' /\ KeepsAsking' /\ InfoWaits' /\ RefusalsEnd'
    BY <2>1 DEF IndInv, TunMatches, KeepsAsking, InfoWaits, RefusalsEnd
  <2> QED BY <2>1, <2>6, <2>7, EmptyBatch DEF IndInv, HasUpdate
<1>2. ASSUME NEW r \in {"trying", "stopped"}, StoppedOutside(r) PROVE IndInv'
  <2>1. tun' \in {"none", "stopped"}
    BY <1>0, <1>2 DEF StoppedOutside, Stopped, TypeOK
  <2>2. TypeOK'
    BY <1>0, <1>2, <2>1 DEF StoppedOutside, TypeOK, credVars
  <2>3. TunMatches' /\ KeepsAsking' /\ InfoWaits' /\ RefusalsEnd'
    BY <1>2, <2>1 DEF StoppedOutside, IndInv, TunMatches, KeepsAsking, InfoWaits,
       RefusalsEnd, credVars
  <2> QED BY <1>2, <2>2, <2>3 DEF StoppedOutside, IndInv, credVars
<1>3. ASSUME NEW code \in {"retry", "fatal"}, SessionFails(code) PROVE IndInv'
  <2>1. End(code)
    BY <1>3 DEF SessionFails
  <2>2. run = "stopped" => run' = "stopped"
    BY <2>1, EndFacts
  <2> QED
    BY <1>0, <1>3, <2>1, <2>2, EndKeeps, BatchFacts
    DEF SessionFails, credVars, IndInv, TypeOK, RefusalsEnd
<1>4. CASE Authenticate
  <2>1. /\ End("fatal") \/ Continue
        /\ UNCHANGED <<cfg, active, received, connected, pending, hold, held, posted,
                       batch, late, token, needUser, refusals>>
        /\ batch = <<>>
    BY <1>4 DEF Authenticate
  <2>2. sentAuth' \in BOOLEAN /\ password' \in BOOLEAN
    BY <1>4 DEF Authenticate
  <2>3. CASE End("fatal")
    <3>1. run = "stopped" => run' = "stopped"
      BY <2>3, EndFacts
    <3> QED BY <1>0, <2>1, <2>2, <2>3, <3>1, EndKeeps, BatchFacts DEF IndInv, TypeOK, RefusalsEnd
  <2>4. CASE Continue
    BY <1>0, <2>1, <2>2, <2>4, ContinueKeeps, BatchFacts DEF IndInv, TypeOK
  <2> QED BY <2>1, <2>3, <2>4
<1>5. CASE GoActive
  <2>1. TypeOK'
    BY <1>0, <1>5 DEF GoActive, TypeOK, Timers, credVars
  <2>2. TunMatches' /\ KeepsAsking' /\ InfoWaits' /\ RefusalsEnd'
    BY <1>5 DEF GoActive, IndInv, TunMatches, KeepsAsking, InfoWaits, RefusalsEnd, credVars
  <2> QED BY <1>5, <2>1, <2>2 DEF GoActive, IndInv, credVars
<1> QED BY <1>1, <1>2, <1>3, <1>4, <1>5

(* The callbacks of the timers, and the bytes that are counted *)
LEMMA TimersKeep ==
    ASSUME IndInv,
           \/ PushRequest \/ InactiveCallback \/ InfoHoldCallback
           \/ TunBytes \/ CountBytes
    PROVE  IndInv'
<1>0. TypeOK
  BY DEF IndInv
<1>1. CASE PushRequest
  <2>0. /\ UNCHANGED <<cfg, sentAuth, active, received, connected, pending, hold,
                       held, posted, batch, late, token, password, needUser, refusals>>
        /\ batch = <<>>
    BY <1>1 DEF PushRequest, credVars
  <2>1. CASE halt \/ received # "none"
    <3>1. waits' = waits \ {"push"} /\ UNCHANGED <<halt, calls, run, tun>>
      BY <1>1, <2>1 DEF PushRequest
    <3>2. TypeOK'
      BY <1>0, <2>0, <3>1 DEF TypeOK
    <3>3. TunMatches' /\ KeepsAsking' /\ InfoWaits' /\ RefusalsEnd'
      BY <2>0, <2>1, <3>1 DEF IndInv, TunMatches, KeepsAsking, InfoWaits, RefusalsEnd
    <3> QED BY <2>0, <3>1, <3>2, <3>3 DEF IndInv
  <2>2. CASE Continue
    BY <1>0, <2>0, <2>2, ContinueKeeps, BatchFacts DEF IndInv, TypeOK
  <2>3. CASE End("retry")
    <3>1. run = "stopped" => run' = "stopped"
      BY <2>3, EndFacts
    <3> QED BY <1>0, <2>0, <2>3, <3>1, EndKeeps, BatchFacts DEF IndInv, TypeOK, RefusalsEnd
  <2>4. CASE /\ halt' = TRUE /\ calls' = Append(calls, "terminate")
             /\ run' \in {Decide("retry"), Decide("fatal")}
             /\ tun' = Stopped(tun) /\ waits' = {"push"}
    <3>1. /\ tun' \in {"none", "stopped"} /\ run' \in {"trying", "stopped"}
          /\ run = "stopped" => run' = "stopped"
      BY <1>0, <2>4 DEF Stopped, Decide, TypeOK
    <3>2. calls' \in Seq({"connected", "terminate"})
      BY <1>0, <2>4 DEF TypeOK
    <3>3. waits' \subseteq Timers
      BY <2>4 DEF Timers
    <3>4. TypeOK'
      BY <1>0, <2>0, <2>4, <3>1, <3>2, <3>3 DEF TypeOK
    <3>5. TunMatches' /\ KeepsAsking' /\ InfoWaits' /\ RefusalsEnd'
      BY <2>0, <2>4, <3>1 DEF IndInv, TunMatches, KeepsAsking, InfoWaits, RefusalsEnd
    <3> QED BY <2>0, <2>4, <3>4, <3>5 DEF IndInv
  <2> QED BY <1>1, <2>1, <2>2, <2>3, <2>4 DEF PushRequest
<1>2. CASE InactiveCallback
  <2>0. /\ UNCHANGED <<cfg, sentAuth, active, received, connected, pending, hold,
                       held, posted, batch, late, token, password, needUser, refusals>>
        /\ batch = <<>>
    BY <1>2 DEF InactiveCallback, credVars
  <2>1. CASE halt
    <3>1. waits' = waits \ {"inactive"} /\ UNCHANGED <<halt, calls, run, tun>>
      BY <1>2, <2>1 DEF InactiveCallback
    <3>2. TypeOK'
      BY <1>0, <2>0, <3>1 DEF TypeOK
    <3>3. TunMatches' /\ KeepsAsking' /\ InfoWaits' /\ RefusalsEnd'
      BY <2>0, <2>1, <3>1 DEF IndInv, TunMatches, KeepsAsking, InfoWaits, RefusalsEnd
    <3> QED BY <2>0, <3>1, <3>2, <3>3 DEF IndInv
  <2>2. CASE ~halt
    <3>1. End("fatal")
      BY <1>2, <2>2 DEF InactiveCallback
    <3>2. run = "stopped" => run' = "stopped"
      BY <3>1, EndFacts
    <3> QED BY <1>0, <2>0, <3>1, <3>2, EndKeeps, BatchFacts DEF IndInv, TypeOK, RefusalsEnd
  <2> QED BY <2>1, <2>2
<1>3. CASE InfoHoldCallback
  <2>1. hold' \in BOOLEAN /\ held' \in 0..MaxHeld /\ waits' \subseteq Timers /\ connected
    <3>1. MaxHeld \in Nat
      BY SessionAssumption
    <3> QED BY <1>0, <1>3, <3>1 DEF InfoHoldCallback, TypeOK, IndInv
  <2>2. TypeOK'
    BY <1>0, <1>3, <2>1 DEF InfoHoldCallback, TypeOK, credVars
  <2>3. TunMatches' /\ KeepsAsking' /\ InfoWaits' /\ RefusalsEnd'
    <3>1. InfoWaits'
      BY <1>0, <1>3, <2>1 DEF InfoHoldCallback, IndInv, InfoWaits, TypeOK
    <3> QED
      BY <1>3, <2>1, <3>1 DEF InfoHoldCallback, IndInv, TunMatches, KeepsAsking,
         RefusalsEnd, credVars
  <2> QED BY <1>3, <2>2, <2>3 DEF InfoHoldCallback, IndInv, credVars
<1>4. CASE TunBytes \/ CountBytes
  <2>1. /\ posted' \in 0..MaxPosted
        /\ waits' \in {waits, waits \cup {"inactive"}}
        /\ UNCHANGED <<cfg, run, halt, sentAuth, active, received, connected, pending, tun,
                       hold, held, batch, calls, late, token, password, needUser, refusals>>
    <3>1. MaxPosted \in Nat
      BY SessionAssumption
    <3> QED BY <1>0, <1>4, <3>1 DEF TunBytes, CountBytes, TypeOK, credVars
  <2>2. TypeOK'
    BY <1>0, <2>1 DEF TypeOK, Timers
  <2>3. TunMatches' /\ KeepsAsking' /\ InfoWaits' /\ RefusalsEnd'
    BY <2>1 DEF IndInv, TunMatches, KeepsAsking, InfoWaits, RefusalsEnd
  <2> QED BY <2>1, <2>2, <2>3 DEF IndInv
<1> QED BY <1>1, <1>2, <1>3, <1>4

-----------------------------------------------------------------------------
(* Messages arrive. *)
LEMMA ReceiveKeeps ==
    ASSUME IndInv, NEW b \in Batches, Receive(b)
    PROVE  IndInv'
<1>1. b \in Seq(Messages) /\ b # <<>> /\ InARow(b)
  BY SessionAssumption
<1>2. b \in Seq(Items)
  BY <1>1 DEF Items
<1>3. TypeOK'
  BY <1>2 DEF Receive, IndInv, TypeOK, Items, credVars
<1>4. TunMatches' /\ KeepsAsking' /\ InfoWaits' /\ RefusalsEnd'
  BY DEF Receive, IndInv, TunMatches, KeepsAsking, InfoWaits, RefusalsEnd, credVars
<1> QED BY <1>1, <1>3, <1>4 DEF Receive, IndInv, credVars

(* The reply is complete and the tun is started, or not. Until then the      *)
(* session was not connected.                                                *)
LEMMA ReplyCompleteKeeps ==
    ASSUME IndInv, batch # <<>>, NEW m, m = Head(batch), m \in {"reply", "replyToken"},
           ReplyComplete(m),
           UNCHANGED <<cfg, sentAuth, active, posted, pending, hold, held, needUser>>
    PROVE  IndInv' /\ ~connected
<1>0. TypeOK /\ received # "complete" /\ received' = "complete" /\ m \notin Updates
  BY DEF IndInv, ReplyComplete, Updates
<1>1. ~connected
  BY <1>0 DEF IndInv, TypeOK
<1>2. CASE "relay" \in cfg
  <2>1. /\ End("fatal") /\ batch' = Rest
        /\ UNCHANGED <<connected, late, token, password, refusals>>
    BY <1>2 DEF ReplyComplete
  <2>2. run = "stopped" => run' = "stopped"
    BY <2>1, EndFacts
  <2>3. IndInv'
    BY <1>0, <2>1, <2>2, EndKeeps, BatchFacts DEF IndInv, TypeOK, RefusalsEnd
  <2> QED BY <1>1, <2>3
<1>3. CASE "relay" \notin cfg
  <2>1. token' \in BOOLEAN /\ password' \in BOOLEAN /\ refusals' = 0
    BY <1>3 DEF ReplyComplete
  <2>2. CASE TunStarts
    <3>1. late' \in BOOLEAN /\ (halt => late')
      BY <1>0, <2>2 DEF TunStarts, TypeOK
    <3>2. /\ tun' = "running" /\ connected' = TRUE /\ UNCHANGED <<halt, run>>
          /\ waits' \subseteq Timers /\ waits \subseteq waits' /\ "info" \in waits'
          /\ batch' = <<"check">> \o Rest
      BY <1>0, <2>2 DEF TunStarts, TypeOK, Timers
    <3>3. calls' \in Seq({"connected", "terminate"})
      BY <1>0, <2>2 DEF TunStarts, TypeOK
    <3>4. batch' \in Seq(Items) /\ InARow(batch')
      BY <3>2, BatchFacts, CheckFacts
    <3>5. TypeOK'
      BY <1>0, <2>1, <3>1, <3>2, <3>3, <3>4 DEF TypeOK, Items
    <3>6. TunMatches' /\ KeepsAsking' /\ InfoWaits' /\ RefusalsEnd'
      BY <1>0, <2>1, <3>1, <3>2 DEF IndInv, TunMatches, KeepsAsking, InfoWaits, RefusalsEnd
    <3> QED BY <1>0, <1>1, <2>1, <3>2, <3>4, <3>5, <3>6 DEF IndInv
  <2>3. CASE ReplyFails
    <3>1. /\ halt' /\ halt' \in BOOLEAN /\ waits' \subseteq waits
          /\ run' \in {"trying", "stopped"}
      BY <1>0, <2>3 DEF ReplyFails, Decide, TypeOK
    <3>2. calls' \in Seq({"connected", "terminate"})
      <4>1. calls' = calls \/ calls' = Append(calls, "terminate")
        BY <2>3 DEF ReplyFails
      <4> QED BY <1>0, <4>1 DEF TypeOK
    <3>3. /\ tun' \in {"none", "running", "stopped"} /\ connected' \in BOOLEAN
          /\ late' \in BOOLEAN /\ (connected => connected')
          /\ ~late' => tun' # "running"
      <4>1. CASE /\ tun' \in {IF halt THEN tun ELSE Stopped(tun), "stopped"}
                 /\ UNCHANGED <<connected, late>>
        BY <1>0, <4>1 DEF Stopped, TypeOK, IndInv, TunMatches
      <4>2. CASE /\ connected' = TRUE /\ late' = (late \/ halt)
                 /\ tun' = (IF halt THEN "running" ELSE "stopped")
        BY <1>0, <4>2 DEF TypeOK
      <4> QED BY <2>3, <4>1, <4>2 DEF ReplyFails
    <3>4. batch' = <<>>
      BY <2>3 DEF ReplyFails
    <3>5. TypeOK'
      <4>1. batch' \in Seq(Items)
        BY <3>4, EmptyBatch
      <4> QED BY <1>0, <2>1, <3>1, <3>2, <3>3, <4>1 DEF TypeOK, Items
    <3>6. TunMatches' /\ KeepsAsking' /\ InfoWaits' /\ RefusalsEnd'
      BY <1>0, <2>1, <3>1, <3>3 DEF IndInv, TunMatches, KeepsAsking, InfoWaits, RefusalsEnd
    <3>7. /\ InARow(batch') /\ ~HasUpdate(batch')
          /\ "info" \in waits' => connected'
      BY <3>1, <3>3, <3>4, EmptyBatch DEF IndInv
    <3> QED BY <1>0, <1>1, <2>1, <3>1, <3>4, <3>5, <3>6, <3>7 DEF IndInv, HasUpdate
  <2> QED BY <1>3, <2>2, <2>3 DEF ReplyComplete
<1> QED BY <1>2, <1>3

(* A part of a reply, or one in the middle of a session *)
LEMMA ReplyKeeps ==
    ASSUME IndInv, batch # <<>>, NEW m, m = Head(batch),
           m \in {"reply", "replyToken", "part", "reject"}, PushReply(m),
           UNCHANGED <<cfg, sentAuth, active, posted>>
    PROVE  IndInv'
<1>0. TypeOK /\ m \notin Updates /\ UNCHANGED <<pending, hold, held, needUser>>
  BY DEF IndInv, PushReply, Updates
<1>1. CASE ReplyAgain(m)
  <2>1. /\ batch' = Rest /\ Continue /\ received = "complete"
        /\ UNCHANGED <<received, connected, late, password>>
        /\ refusals' \in {refusals, 0} /\ token' \in BOOLEAN
    BY <1>1 DEF ReplyAgain
  <2>2. refusals' > 0 => ~token'
    <3>1. CASE m = "replyToken"
      BY <1>1, <3>1 DEF ReplyAgain
    <3>2. CASE m # "replyToken"
      <4>1. token' <=> token
        BY <1>0, <1>1, <3>2 DEF ReplyAgain, TypeOK
      <4> QED BY <1>1, <3>2, <4>1 DEF ReplyAgain, IndInv
    <3> QED BY <3>1, <3>2
  <2>3. refusals' \in 0..2
    BY <1>0, <2>1 DEF TypeOK
  <2> QED BY <1>0, <2>1, <2>2, <2>3, ContinueKeeps, BatchFacts DEF TypeOK
<1>2. CASE ReplyPart(m)
  <2>1. /\ batch' = Rest /\ received' = "partial" /\ received # "complete"
        /\ UNCHANGED <<connected, late, password, refusals>>
        /\ token' \in BOOLEAN /\ (token' => token)
        /\ End("retry") \/ Continue
    BY <1>2 DEF ReplyPart
  <2>2. CASE End("retry")
    <3>1. run = "stopped" => run' = "stopped"
      BY <2>2, EndFacts
    <3> QED
      BY <1>0, <2>1, <2>2, <3>1, EndKeeps, BatchFacts DEF IndInv, TypeOK, RefusalsEnd
  <2>3. CASE Continue
    <3>1. ~connected
      BY <1>0, <2>1 DEF IndInv, TypeOK
    <3>2. refusals' > 0 => ~token'
      BY <2>1 DEF IndInv
    <3> QED
      BY <1>0, <2>1, <2>3, <3>1, <3>2, ContinueKeeps, BatchFacts DEF TypeOK
  <2> QED BY <2>1, <2>2, <2>3
<1>3. CASE m \in {"reply", "replyToken"} /\ ReplyComplete(m)
  BY <1>0, <1>3, ReplyCompleteKeeps
<1> QED BY <1>1, <1>2, <1>3 DEF PushReply

(* AUTH_FAILED: the second refusal in a row stops the run. *)
LEMMA AuthFailedKeeps ==
    ASSUME IndInv, batch # <<>>, NEW m, m = Head(batch), m \notin Updates, AuthFailed(m),
           UNCHANGED <<cfg, sentAuth, active, posted>>
    PROVE  IndInv'
<1>0. /\ TypeOK /\ batch' = Rest
      /\ UNCHANGED <<received, connected, pending, hold, held, late, password, needUser>>
  BY DEF IndInv, AuthFailed
<1>1. CASE m = "authTemp"
  <2>1. End("retry") /\ UNCHANGED <<token, refusals>>
    BY <1>1 DEF AuthFailed
  <2>2. run = "stopped" => run' = "stopped"
    BY <2>1, EndFacts
  <2> QED
    BY <1>0, <2>1, <2>2, EndKeeps, BatchFacts, NoUpdateOpen DEF IndInv, TypeOK, RefusalsEnd
<1>2. CASE m # "authTemp"
  <2> DEFINE again == token /\ ~needUser /\ ("password" \in cfg => password)
             code == IF again THEN "retry" ELSE "auth"
  <2>1. /\ token' = FALSE /\ End(code)
        /\ refusals' = IF halt \/ refusals = 2 THEN refusals ELSE refusals + 1
    BY <1>2 DEF AuthFailed
  <2>2. refusals' \in 0..2
    BY <1>0, <2>1 DEF TypeOK
  <2>3. ASSUME refusals' = 2, "retryAuth" \notin cfg PROVE run' = "stopped"
    <3>1. CASE halt \/ refusals = 2
      <4>1. run = "stopped"
        BY <2>1, <2>3, <3>1 DEF IndInv, RefusalsEnd
      <4> QED BY <2>1, <4>1, EndFacts
    <3>2. CASE ~halt /\ refusals # 2
      <4>1. refusals = 1
        BY <1>0, <2>1, <2>3, <3>2 DEF TypeOK
      <4>2. ~token
        BY <4>1 DEF IndInv
      <4>3. code = "auth"
        BY <4>2
      <4> HIDE DEF code
      <4>4. run' = Decide("auth")
        BY <2>1, <3>2, <4>3, EndFacts
      <4> QED BY <2>3, <4>4 DEF Decide
    <3> QED BY <3>1, <3>2
  <2> HIDE DEF code
  <2> QED BY <1>0, <2>1, <2>2, <2>3, EndKeeps, BatchFacts, NoUpdateOpen DEF TypeOK
<1> QED BY <1>1, <1>2

(* The other messages *)
LEMMA OtherMessagesKeep ==
    ASSUME IndInv, batch # <<>>, NEW m, m = Head(batch),
           \/ m = "check" /\ CheckWarnings
           \/ m \in {"restart", "restartPsid", "halt"} /\ HaltRestart(m)
           \/ m = "relay" /\ Relay
           \/ m \in {"info", "infoPre", "webAuth"} /\ Info(m)
           \/ m = "authPending" /\ AuthPending
           \/ m \in Updates /\ PushUpdate(m),
           UNCHANGED <<cfg, sentAuth, active, posted>>
    PROVE  IndInv'
<1>0. TypeOK /\ (refusals > 0 => ~token) /\ RefusalsEnd
  BY DEF IndInv
<1>e. ASSUME NEW code, End(code) PROVE run = "stopped" => run' = "stopped"
  BY <1>e, EndFacts
<1>1. CASE m = "check" /\ CheckWarnings
  <2>0. UNCHANGED <<received, connected, pending, hold, held, late, token, password,
                    needUser, refusals>> /\ m \notin Updates
    BY <1>1 DEF CheckWarnings, credVars, Updates
  <2>1. CASE Continue /\ batch' = Rest
    <3>1. connected => received' # "partial"
      BY <2>0, NoUpdateOpen
    <3> QED BY <1>0, <2>0, <2>1, <3>1, ContinueKeeps, BatchFacts DEF TypeOK
  <2>2. CASE End("fatal") /\ batch' = <<>>
    BY <1>0, <1>e, <2>0, <2>2, EndKeeps, EmptyBatch DEF TypeOK, RefusalsEnd
  <2> QED BY <1>1, <2>1, <2>2 DEF CheckWarnings
<1>2. CASE m \in {"restart", "restartPsid", "halt"} /\ HaltRestart(m)
  <2>1. /\ UNCHANGED <<received, connected, pending, hold, held, late, password,
                       needUser, refusals>>
        /\ batch' = Rest /\ token' \in BOOLEAN /\ (token' => token)
        /\ End("fatal") \/ End("retry")
    BY <1>2 DEF HaltRestart
  <2>2. connected => received # "partial"
    BY <1>2, NoUpdateOpen DEF Updates
  <2> QED BY <1>0, <1>e, <2>1, <2>2, EndKeeps, BatchFacts DEF TypeOK, RefusalsEnd
<1>3. CASE m = "relay" /\ Relay
  <2>1. /\ UNCHANGED <<received, connected, pending, hold, held, late, token, password,
                       needUser, refusals>>
        /\ batch' = Rest
        /\ End("fatal") \/ End("retry")
    BY <1>3 DEF Relay, credVars
  <2>2. connected => received # "partial"
    BY <1>3, NoUpdateOpen DEF Updates
  <2> QED BY <1>0, <1>e, <2>1, <2>2, EndKeeps, BatchFacts DEF TypeOK, RefusalsEnd
<1>4. CASE m \in {"info", "infoPre", "webAuth"} /\ Info(m)
  <2>1. /\ UNCHANGED <<received, connected, pending, hold, late, token, password, refusals>>
        /\ batch' = Rest /\ Continue /\ needUser' \in BOOLEAN
        /\ held' = IF hold /\ m # "infoPre" /\ held < MaxHeld THEN held + 1 ELSE held
    BY <1>4 DEF Info
  <2>2. held' = held \/ (hold /\ held' \in 0..MaxHeld)
    <3>1. MaxHeld \in Nat
      BY SessionAssumption
    <3> QED BY <1>0, <2>1, <3>1 DEF TypeOK
  <2>3. connected => received' # "partial"
    BY <1>4, <2>1, NoUpdateOpen DEF Updates
  <2> QED BY <1>0, <2>1, <2>2, <2>3, ContinueKeeps, BatchFacts DEF TypeOK
<1>5. CASE m = "authPending" /\ AuthPending
  <2>1. /\ UNCHANGED <<received, connected, hold, held, late, token, password, needUser,
                       refusals>>
        /\ batch' = Rest /\ Continue /\ pending' = TRUE
    BY <1>5 DEF AuthPending, credVars
  <2>2. connected => received' # "partial"
    BY <1>5, <2>1, NoUpdateOpen DEF Updates
  <2> QED BY <1>0, <2>1, <2>2, ContinueKeeps, BatchFacts DEF TypeOK
<1>6. CASE m \in Updates /\ PushUpdate(m)
  <2>0. UNCHANGED <<connected, pending, hold, held, late, token, password, needUser,
                    refusals>>
    BY <1>6 DEF PushUpdate, credVars
  <2>1. CASE /\ received' = IF m = "update" THEN "complete" ELSE "partial"
             /\ batch' = Rest /\ Continue
    <3>1. received' = "partial" /\ batch' # <<>> => Head(batch') \in Updates
      BY <1>6, <2>1, BatchFacts DEF Updates
    <3>2. received' \in {"partial", "complete"}
      BY <2>1
    <3> QED BY <1>0, <2>0, <2>1, <3>1, <3>2, ContinueKeeps, BatchFacts DEF TypeOK
  <2>2. CASE received' = "partial" /\ batch' = <<>> /\ End("retry")
    BY <1>0, <1>e, <2>0, <2>2, EndKeeps, EmptyBatch DEF TypeOK, RefusalsEnd
  <2> QED BY <1>6, <2>1, <2>2 DEF PushUpdate
<1> QED BY <1>1, <1>2, <1>3, <1>4, <1>5, <1>6

(* control_recv *)
LEMMA ControlRecvKeeps == ASSUME IndInv, ControlRecv PROVE IndInv'
<1> DEFINE m == Head(batch)
<1>1. batch # <<>> /\ UNCHANGED <<cfg, sentAuth, active, posted>>
  BY DEF ControlRecv
<1>2. CASE m \in {"reply", "replyToken", "part", "reject"} /\ PushReply(m)
  BY <1>1, <1>2, ReplyKeeps
<1>3. CASE m \in {"authFailed", "authTemp"} /\ AuthFailed(m)
  BY <1>1, <1>3, AuthFailedKeeps DEF Updates
<1>4. CASE \/ m = "check" /\ CheckWarnings
           \/ m \in {"restart", "restartPsid", "halt"} /\ HaltRestart(m)
           \/ m = "relay" /\ Relay
           \/ m \in {"info", "infoPre", "webAuth"} /\ Info(m)
           \/ m = "authPending" /\ AuthPending
           \/ m \in Updates /\ PushUpdate(m)
  BY <1>1, <1>4, OtherMessagesKeep
<1> QED BY <1>2, <1>3, <1>4 DEF ControlRecv

(* Every step keeps the inductive invariant. *)
LEMMA NextIndInv == IndInv /\ [Next]_vars => IndInv'
<1> SUFFICES ASSUME IndInv, [Next]_vars PROVE IndInv'
  OBVIOUS
<1>1. CASE UNCHANGED vars \/ Done
  BY <1>1 DEF Done, vars, sessVars, credVars, IndInv, TypeOK, TunMatches, KeepsAsking,
     InfoWaits, RefusalsEnd
<1> QED
  BY <1>1, LifeKeeps, TimersKeep, ReceiveKeeps, ControlRecvKeeps DEF Next

(* Session as a whole: whatever the server sends and in whatever order its   *)
(* messages, errors and timers come, the tun runs exactly while the session  *)
(* is connected, it asks for its options until it hears some, INFO waits for *)
(* the connection, and refusals end the run.                                 *)
THEOREM SessionInvariant == Spec => []IndInv
<1>1. Init => IndInv
  BY InitIndInv
<1>2. IndInv /\ [Next]_vars => IndInv'
  BY NextIndInv
<1> QED BY <1>1, <1>2, PTL DEF Spec

(* recv_auth_failed: without retry_on_auth_failed a second AUTH_FAILED in a  *)
(* row ends the run, however many sessions lie between the two.              *)
THEOREM RefusalsEndThm == Spec => []RefusalsEnd
<1>1. IndInv => RefusalsEnd
  BY DEF IndInv
<1> QED BY <1>1, SessionInvariant, PTL

-----------------------------------------------------------------------------
(* The refinement. *)

(* stop(true) is Terminate, once. *)
LEMMA EndRefines ==
    ASSUME NEW code, End(code)
    PROVE  Contract!Terminate \/ (UNCHANGED <<halt, calls>> /\ halt)
  BY DEF End, Contract!Terminate

(* A step that leaves halt, connected and the callbacks alone is no step of  *)
(* the contract; nor is one of a session that has stopped and stays silent.  *)
LEMMA SilentRefines ==
    ASSUME UNCHANGED <<halt, calls>>, halt \/ UNCHANGED connected
    PROVE  UNCHANGED Contract!vars
  BY DEF Contract!vars

(* Every step of the session is a step of the contract, or none. *)
LEMMA StepRefines ==
    ASSUME IndInv, [Next]_vars
    PROVE  [Contract!Next]_(Contract!vars)
<1> DEFINE Goal == Contract!Next \/ UNCHANGED Contract!vars
<1>e. ASSUME NEW code, End(code) PROVE Goal
  BY <1>e, EndRefines, SilentRefines DEF Contract!Next
<1>c. ASSUME UNCHANGED <<halt, calls, connected>> PROVE Goal
  BY <1>c, SilentRefines
<1>1. CASE NewClient
  BY <1>1 DEF NewClient, Contract!Next, Contract!Replace
<1>2. ASSUME NEW r \in {"trying", "stopped"}, StoppedOutside(r) PROVE Goal
  BY <1>2 DEF StoppedOutside, Contract!Next, Contract!Stop
<1>3. ASSUME NEW code \in {"retry", "fatal"}, SessionFails(code) PROVE Goal
  BY <1>3, <1>e DEF SessionFails
<1>4. CASE Authenticate
  <2>1. (End("fatal") \/ Continue) /\ UNCHANGED connected
    BY <1>4 DEF Authenticate
  <2> QED BY <1>e, <1>c, <2>1 DEF Continue
<1>5. CASE \/ GoActive \/ InfoHoldCallback \/ TunBytes \/ CountBytes \/ Done
           \/ UNCHANGED vars
  BY <1>5, <1>c DEF GoActive, InfoHoldCallback, TunBytes, CountBytes, Done, vars, sessVars
<1>6. CASE PushRequest
  <2>0. UNCHANGED connected
    BY <1>6 DEF PushRequest
  <2>1. CASE halt \/ received # "none"
    BY <1>c, <1>6, <2>0, <2>1 DEF PushRequest
  <2>2. CASE ~halt /\ halt' = TRUE /\ calls' = Append(calls, "terminate")
    BY <2>2 DEF Contract!Next, Contract!Terminate
  <2> QED BY <1>6, <1>e, <1>c, <2>0, <2>1, <2>2 DEF PushRequest, Continue
<1>7. CASE InactiveCallback
  BY <1>7, <1>e, <1>c DEF InactiveCallback
<1>8. ASSUME NEW b \in Batches, Receive(b) PROVE Goal
  BY <1>8, <1>c DEF Receive
<1>9. CASE ControlRecv
  <2> DEFINE m == Head(batch)
  <2>0. batch # <<>> /\ UNCHANGED <<cfg, sentAuth, active, posted>>
    BY <1>9 DEF ControlRecv
  <2>1. CASE m \in {"reply", "replyToken"} /\ ReplyComplete(m)
             /\ UNCHANGED <<pending, hold, held, needUser>>
    <3>1. ~connected
      BY <2>0, <2>1, ReplyCompleteKeeps
    <3>2. CASE TunStarts
      <4>1. connected' = TRUE /\ UNCHANGED halt /\ calls' = Append(calls, "connected")
        BY <3>2 DEF TunStarts
      <4>2. CASE halt
        BY <2>0, <3>1, <4>1, <4>2 DEF IndInv, Contract!Next, Contract!LateConnect
      <4>3. CASE ~halt
        BY <3>1, <4>1, <4>3 DEF Contract!Next, Contract!Connect
      <4> QED BY <4>2, <4>3
    <3>3. CASE ReplyFails
      <4>1. CASE halt
        BY <3>3, <4>1, SilentRefines DEF ReplyFails
      <4>2. CASE ~halt
        <5>1. halt' = TRUE /\ calls' = Append(calls, "terminate")
          BY <3>3, <4>2 DEF ReplyFails
        <5> QED BY <4>2, <5>1 DEF Contract!Next, Contract!Terminate
      <4> QED BY <4>1, <4>2
    <3> QED BY <1>e, <2>1, <3>2, <3>3 DEF ReplyComplete
  <2>2. CASE ReplyAgain(m) \/ ReplyPart(m)
    BY <1>e, <1>c, <2>2 DEF ReplyAgain, ReplyPart, Continue
  <2>3. CASE CheckWarnings \/ Relay \/ HaltRestart(m) \/ PushUpdate(m)
    <3>1. (\E code \in {"retry", "fatal"} : End(code)) \/ (Continue /\ UNCHANGED connected)
      BY <2>3 DEF CheckWarnings, Relay, HaltRestart, PushUpdate
    <3> QED BY <1>e, <1>c, <3>1 DEF Continue
  <2>4. CASE AuthFailed(m)
    BY <1>e, <2>4 DEF AuthFailed
  <2>5. CASE Info(m) \/ AuthPending
    BY <1>c, <2>5 DEF Info, AuthPending, Continue
  <2> HIDE DEF m, Goal
  <2> QED
    BY <1>9, <2>1, <2>2, <2>3, <2>4, <2>5 DEF ControlRecv, PushReply, m
<1> QED BY <1>1, <1>2, <1>3, <1>4, <1>5, <1>6, <1>7, <1>8, <1>9 DEF Next

(* NotifyCallback: the controller is told of a connection at most once, of   *)
(* the end at most once, of a connection after the end only when there was   *)
(* none before, and of nothing after it stopped the client itself.           *)
THEOREM ContractThm == Spec => ContractKept
<1>1. Init => Contract!Init
  BY DEF Init, Contract!Init
<1>2. IndInv /\ [Next]_vars => [Contract!Next]_(Contract!vars)
  BY StepRefines
<1> QED BY <1>1, <1>2, SessionInvariant, PTL DEF Spec, ContractKept, Contract!Spec

-----------------------------------------------------------------------------
(* The io_context runs dry. *)

(* One wait less, or one posted handler less with at most a wait more, is    *)
(* less to do; so is a shorter batch, with the rest as it was.               *)
LEMMA LessToDo ==
    ASSUME TypeOK, TypeOK',
           \/ /\ UNCHANGED <<batch, posted>>
              /\ \E w \in waits : waits' = waits \ {w}
           \/ /\ UNCHANGED batch /\ posted > 0 /\ posted' = posted - 1
              /\ waits' \in {waits, waits \cup {"inactive"}}
           \/ UNCHANGED <<waits, posted>> /\ Len(batch') < Len(batch)
    PROVE  Undone' < Undone
<1>1. /\ Len(batch) \in Nat /\ Len(batch') \in Nat /\ posted \in Nat /\ posted' \in Nat
      /\ waits \subseteq Timers
  BY SessionAssumption DEF TypeOK
<1>2. \A w : Waiting(w) \in {0, 1} /\ Waiting(w)' \in {0, 1}
  BY DEF Waiting
<1>3. CASE UNCHANGED <<batch, posted>> /\ \E w \in waits : waits' = waits \ {w}
  <2>1. PICK w \in waits : waits' = waits \ {w}
    BY <1>3
  <2>2. w \in {"push", "inactive", "info"}
    BY <1>1 DEF Timers
  <2>3. /\ Waiting(w) = 1 /\ Waiting(w)' = 0
        /\ \A v : v # w => Waiting(v)' = Waiting(v)
    BY <2>1 DEF Waiting
  <2> QED BY <1>1, <1>2, <1>3, <2>2, <2>3 DEF Undone
<1>4. CASE /\ UNCHANGED batch /\ posted > 0 /\ posted' = posted - 1
           /\ waits' \in {waits, waits \cup {"inactive"}}
  <2>1. Waiting("push")' = Waiting("push") /\ Waiting("info")' = Waiting("info")
    BY <1>4 DEF Waiting
  <2> QED BY <1>1, <1>2, <1>4, <2>1 DEF Undone
<1>5. CASE UNCHANGED <<waits, posted>> /\ Len(batch') < Len(batch)
  <2>1. \A w : Waiting(w)' = Waiting(w)
    BY <1>5 DEF Waiting
  <2> QED BY <1>1, <1>2, <1>5, <2>1 DEF Undone
<1> QED BY <1>3, <1>4, <1>5

(* A message that is handled after the stop changes no wait and takes at     *)
(* least itself out of the batch, if it does not start a tun.                *)
LEMMA StoppedMessage ==
    ASSUME IndInv, halt, ControlRecv, ~late'
    PROVE  UNCHANGED <<run, waits, posted>> /\ Len(batch') < Len(batch)
<1> DEFINE m == Head(batch)
<1>1. batch # <<>> /\ posted' = posted
  BY DEF ControlRecv
<1>2. Len(Rest) < Len(batch) /\ Len(<<>>) < Len(batch)
  BY <1>1, BatchFacts DEF Rest
<1>e. ASSUME NEW code, End(code) PROVE UNCHANGED <<run, waits>>
  BY <1>e DEF End
<1>c. Continue => UNCHANGED <<run, waits>>
  BY DEF Continue
<1>t. ~TunStarts
  BY DEF TunStarts
<1>3. CASE PushReply(m)
  <2>1. CASE ReplyAgain(m) \/ ReplyPart(m)
    BY <1>1, <1>2, <1>e, <1>c, <2>1 DEF ReplyAgain, ReplyPart
  <2>2. CASE ReplyComplete(m)
    <3>1. (End("fatal") /\ batch' = Rest) \/ ReplyFails
      BY <1>t, <2>2 DEF ReplyComplete
    <3>2. ReplyFails => UNCHANGED <<run, waits>> /\ batch' = <<>>
      BY DEF ReplyFails
    <3> QED BY <1>1, <1>2, <1>e, <3>1, <3>2
  <2> QED BY <1>3, <2>1, <2>2 DEF PushReply
<1>4. CASE CheckWarnings \/ Relay \/ HaltRestart(m) \/ PushUpdate(m)
  <2>1. /\ (\E code \in {"retry", "fatal"} : End(code)) \/ Continue
        /\ batch' \in {Rest, <<>>}
    BY <1>4 DEF CheckWarnings, Relay, HaltRestart, PushUpdate
  <2> QED BY <1>1, <1>2, <1>e, <1>c, <2>1
<1>5. CASE AuthFailed(m)
  BY <1>1, <1>2, <1>e, <1>5 DEF AuthFailed
<1>6. CASE Info(m) \/ AuthPending
  BY <1>1, <1>2, <1>c, <1>6 DEF Info, AuthPending
<1> QED BY <1>3, <1>4, <1>5, <1>6 DEF ControlRecv

(* Every step after the stop *)
LEMMA DryStep ==
    ASSUME IndInv, Next, vars' # vars, run = "stopped", ~late'
    PROVE  run' = "stopped" /\ Undone' < Undone
<1>0. TypeOK /\ TypeOK' /\ halt
  BY NextIndInv DEF IndInv
<1>1. CASE ControlRecv
  BY <1>0, <1>1, StoppedMessage, LessToDo
<1>2. CASE PushRequest \/ InactiveCallback \/ InfoHoldCallback
  <2>1. UNCHANGED <<run, batch, posted>> /\ \E w \in waits : waits' = waits \ {w}
    BY <1>0, <1>2 DEF PushRequest, InactiveCallback, InfoHoldCallback
  <2> QED BY <1>0, <2>1, LessToDo
<1>3. CASE CountBytes
  <2>1. /\ UNCHANGED <<run, batch>> /\ posted > 0 /\ posted' = posted - 1
        /\ waits' \in {waits, waits \cup {"inactive"}}
    BY <1>3 DEF CountBytes
  <2> QED BY <1>0, <2>1, LessToDo
<1>4. ASSUME TunBytes PROVE FALSE
  <2>1. late' = late /\ tun = "running"
    BY <1>4 DEF TunBytes
  <2>2. ~late
    BY <2>1
  <2> QED BY <1>0, <2>1, <2>2 DEF IndInv, TunMatches
<1>5. /\ ~NewClient /\ ~Authenticate /\ ~GoActive /\ ~Done
      /\ \A r \in {"trying", "stopped"} : ~StoppedOutside(r)
      /\ \A code \in {"retry", "fatal"} : ~SessionFails(code)
      /\ \A b \in Batches : ~Receive(b)
  BY <1>0 DEF NewClient, Authenticate, GoActive, Done, StoppedOutside, SessionFails, Receive
<1> QED BY <1>1, <1>2, <1>3, <1>4, <1>5 DEF Next

(* After a stop every handler that still runs, the ones that start a wait in *)
(* a session that has stopped included (reset_inactive_timer,                *)
(* send_push_request_callback), leaves less for the io_context to do: it     *)
(* runs at most Len(batch) + 3 + 2 * posted more, unless a late reply        *)
(* starts a tun.                                                             *)
THEOREM DryProgressThm == Spec => DryProgress
<1>1. IndInv /\ [Next]_vars =>
        [run = "stopped" /\ ~late' => run' = "stopped" /\ Undone' < Undone]_vars
  BY DryStep
<1> QED BY <1>1, SessionInvariant, PTL DEF Spec, DryProgress
=============================================================================
