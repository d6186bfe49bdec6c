------------------------------ MODULE Reliable ------------------------------
(***************************************************************************)
(* The reliability layer of the control channel: ReliableSend,             *)
(* ReliableRecv and ReliableAck on their MessageWindows, driven by         *)
(* ProtoStackBase and by the reset exchange of KeyContext, at both ends of *)
(* a network that may lose, duplicate and reorder packets.                 *)
(*                                                                         *)
(* One key context per peer. A call into a peer runs to the end of its     *)
(* flush before the next one begins, so each handler is one action. A      *)
(* message is Reset (raw) or a record of TLS ciphertext (Data); the TLS    *)
(* library that produces and reads the records is external.                *)
(***************************************************************************)
EXTENDS Naturals, Sequences

CONSTANTS Client, Server, \* the two peers
          Initiator,      \* the one whose key context is created to start
          Data,           \* TLS records
          Reset,          \* the initial reset of a key context
          NoVal,          \* the payload of a packet that only carries ACKs
          NoId,           \* the id of such a packet
          SendSpan,       \* ovpn_sending_window
          RecvSpan,       \* ovpn_receiving_window
          StartAt,        \* first packet id: 1 in psid cookie mode, else 0
          AcksPerPacket,  \* maximum_acks_control_v1
          MaxReack,       \* maximum_acks_ack_v1: length of re_acks
          Modes,          \* with tls-auth or tls-crypt (TRUE), without, or both
          MaxMsgs,        \* bound: messages a peer may send
          MaxPid,         \* bound: packets a peer may send when wrapped
          Lossy           \* whether packets leave the network unreceived

Peers == {Client, Server}
Other(e) == IF e = Client THEN Server ELSE Client
Values == Data \cup {Reset}

ASSUME ReliableAssumption ==
    /\ Client # Server
    /\ Initiator \in Peers
    /\ Reset \notin Data
    /\ NoVal \notin Values
    /\ NoId \notin Nat
    /\ SendSpan \in Nat \ {0}
    /\ RecvSpan \in Nat
    /\ SendSpan <= RecvSpan
    /\ StartAt \in {0, 1}
    /\ AcksPerPacket \in Nat \ {0}
    /\ MaxReack \in Nat \ {0}
    /\ Modes \subseteq BOOLEAN /\ Lossy \in BOOLEAN
    /\ MaxMsgs \in [Peers -> Nat] /\ MaxMsgs[Client] > 1
    /\ MaxPid \in Nat

VARIABLES
    rawq,     \* raw_write_queue
    appq,     \* app_write_queue, as the records TLS makes of it
    sent,     \* every message numbered by rel_send, in order
    unacked,  \* ids still defined in the window of rel_send
    rhead,    \* head id of the window of rel_recv
    held,     \* the defined messages in that window: id -> message
    reacks,   \* re_acks
    started,  \* ssl_started_
    dlv,      \* messages passed up to raw_recv or to TLS, in order
    net,      \* packets in the network
    wrapped,  \* packet ids of tls-auth or tls-crypt are checked
    npid,     \* packets wrapped so far (ta_pid_send)
    seen,     \* packet ids remembered by ta_pid_recv ...
    floor     \* ... and its id_floor

sendVars == <<rawq, appq, sent, unacked>>
recvVars == <<rhead, held, dlv, started>>
pidVars == <<wrapped, npid, seen, floor>>
vars == <<sendVars, recvVars, reacks, net, pidVars>>

Least(a, b) == IF a < b THEN a ELSE b

(* The id after the last one sent, and the ids sent so far. *)
NextId(e) == StartAt + Len(sent[e])
SentIds(e) == StartAt..(NextId(e) - 1)
MsgAt(e, id) == sent[e][id - StartAt + 1]

Packets == [src : Peers, id : Nat \cup {NoId}, val : Values \cup {NoVal},
            acks : SUBSET Nat, pid : Nat]

TypeOK ==
    /\ rawq \in [Peers -> Seq({Reset})]
    /\ appq \in [Peers -> Seq(Data)]
    /\ sent \in [Peers -> Seq(Values)]
    /\ unacked \in [Peers -> SUBSET Nat]
    /\ rhead \in [Peers -> Nat]
    /\ DOMAIN held = Peers
    /\ \A e \in Peers : /\ DOMAIN held[e] \subseteq Nat
                        /\ held[e] \in [DOMAIN held[e] -> Values]
    /\ reacks \in [Peers -> Seq(Nat)]
    /\ started \in [Peers -> BOOLEAN]
    /\ dlv \in [Peers -> Seq(Values)]
    /\ net \subseteq Packets
    /\ wrapped \in BOOLEAN
    /\ npid \in [Peers -> Nat]
    /\ seen \in [Peers -> SUBSET Nat]
    /\ floor \in [Peers -> Nat]

Init ==
    /\ rawq = [e \in Peers |-> <<>>] /\ appq = [e \in Peers |-> <<>>]
    /\ sent = [e \in Peers |-> <<>>] /\ unacked = [e \in Peers |-> {}]
    /\ rhead = [e \in Peers |-> StartAt]
    /\ held = [e \in Peers |-> <<>>]
    /\ reacks = [e \in Peers |-> <<>>]
    /\ started = [e \in Peers |-> FALSE]
    /\ dlv = [e \in Peers |-> <<>>]
    /\ net = {}
    /\ wrapped \in Modes
    /\ npid = [e \in Peers |-> 0] /\ seen = [e \in Peers |-> {}]
    /\ floor = [e \in Peers |-> 0]

-----------------------------------------------------------------------------
(* ReliableAck *)

(* add_ack_to_reack: a moves to the front, the oldest ACK falls off the end. *)
AddReack(R, a) ==
    LET old == {i \in 1..Len(R) : R[i] = a}
        gap == CHOOSE g \in 1..(Len(R) + 1) :
                   IF old = {} THEN g = Len(R) + 1 ELSE g \in old
        len == IF old = {} THEN Len(R) + 1 ELSE Len(R)
    IN  [i \in 1..Least(len, MaxReack) |->
            IF i = 1 THEN a ELSE IF i <= gap THEN R[i - 1] ELSE R[i]]

(* prepend: what a packet acknowledges once the fresh ACK, if there is one,  *)
(* is at the front of re_acks. generate_ack passes the opcode of a buffer    *)
(* that has none, so standalone ACKs have the limit of the others.           *)
PacketAcks(R) == {R[i] : i \in 1..Least(Len(R), AcksPerPacket)}

-----------------------------------------------------------------------------
(* ProtoStackBase *)

(* Mutant: the send window does not wait for its head. *)
FitsNoHead(e, un, n) == n <= SendSpan

(* send, ready: n more messages fit in the send window, whose head is the    *)
(* least unacknowledged id, or the next one.                                 *)
Fits(e, un, n) ==
    \A i \in un \cup {NextId(e)} : NextId(e) + n <= i + SendSpan

(* flush and send_pending_acks, with what the handler left in the queues,    *)
(* the window and re_acks: raw messages first, then records if TLS has       *)
(* started, as far as the window goes; a standalone ACK only if a fresh ACK  *)
(* found no message to travel with.                                          *)
Flush(e, un, raw, app, R, fresh, st) ==
    LET queue == raw \o (IF st THEN app ELSE <<>>)
        most == Least(Len(queue), SendSpan)
    IN  \E n \in 0..most :
        LET first == NextId(e)
            nraw == Least(n, Len(raw))
            mk(id, v, j) == [src |-> e, id |-> id, val |-> v,
                             acks |-> PacketAcks(R),
                             pid |-> IF wrapped THEN npid[e] + j ELSE 0]
            out == {mk(first + j - 1, queue[j], j) : j \in 1..n}
                   \cup (IF fresh /\ n = 0 THEN {mk(NoId, NoVal, 1)} ELSE {})
        IN  /\ n > 0 => Fits(e, un, n)
            /\ n < most => ~Fits(e, un, n + 1)
            /\ sent' = [sent EXCEPT ![e] = @ \o SubSeq(queue, 1, n)]
            /\ unacked' = [unacked EXCEPT ![e] = un \cup first..(first + n - 1)]
            /\ rawq' = [rawq EXCEPT ![e] = SubSeq(raw, nraw + 1, Len(raw))]
            /\ appq' = [appq EXCEPT ![e] = SubSeq(app, n - nraw + 1, Len(app))]
            /\ net' = net \cup out
            /\ npid' = IF wrapped THEN [npid EXCEPT ![e] = @ + n + (IF n = 0 /\ fresh THEN 1 ELSE 0)]
                                  ELSE npid
            /\ UNCHANGED wrapped

(* up_sequenced: messages at the head of the receive window go up as long as *)
(* they are there and are raw, or TLS has started.                           *)
Sequenced(e, h, st, k) ==
    \A i \in rhead[e]..(rhead[e] + k - 1) :
        i \in DOMAIN h /\ (h[i] = Reset \/ st)

(* Mutant: advance() is not called. *)
DeliverNoAdvance(e, h, st) ==
    \E k \in 0..RecvSpan :
        /\ Sequenced(e, h, st, k)
        /\ ~Sequenced(e, h, st, k + 1)
        /\ dlv' = [dlv EXCEPT ![e] = @ \o [i \in 1..k |-> h[rhead[e] + i - 1]]]
        /\ held' = [held EXCEPT ![e] = h]
        /\ UNCHANGED rhead

Deliver(e, h, st) ==
    \E k \in 0..RecvSpan :
        /\ Sequenced(e, h, st, k)
        /\ ~Sequenced(e, h, st, k + 1)
        /\ dlv' = [dlv EXCEPT ![e] = @ \o [i \in 1..k |-> h[rhead[e] + i - 1]]]
        /\ rhead' = [rhead EXCEPT ![e] = @ + k]
        /\ held' = [held EXCEPT ![e] =
                       [i \in {j \in DOMAIN h : j >= rhead[e] + k} |-> h[i]]]

(* The room left for messages of the peer under the bound. *)
MayQueue(e) == Len(sent[e]) + Len(rawq[e]) + Len(appq[e]) < MaxMsgs[e]

(* Records that TLS produces while a handler runs: none, or one more; a      *)
(* client's TLS has one (ClientHello) as soon as it starts.                  *)
Records(e) == {<<>>} \cup (IF MayQueue(e) THEN {<<d>> : d \in Data} ELSE {})

-----------------------------------------------------------------------------
(* KeyContext *)

(* start: the initiator queues its reset and flushes. *)
Begin(e) ==
    /\ e = Initiator /\ sent[e] = <<>> /\ rawq[e] = <<>>
    /\ Flush(e, {}, <<Reset>>, appq[e], reacks[e], FALSE, started[e])
    /\ UNCHANGED <<recvVars, reacks, seen, floor>>

(* ta_pid_recv.test_add without adding. *)
PidOk(e, p) == wrapped => p.pid \notin seen[e] /\ p.pid > floor[e]

(* Mutant: packets from before the window are dropped without an ACK. *)
PreWindowNever(e, id) == FALSE

(* in_window and pre_window of rel_recv *)
InWindow(e, id) == id >= rhead[e] /\ id < rhead[e] + RecvSpan
PreWindow(e, id) == id < rhead[e]

(* decapsulate, raw_recv and post_ack_action, then flush. ACKs and message   *)
(* are used only if the packet id is fresh; the message is acknowledged when *)
(* it is in or before the window, and also when its packet id is not fresh.  *)
(* A server answers the first reset with its own; TLS starts once the peer's *)
(* reset is there and nothing in rel_send (whose window the server's reset   *)
(* has not reached yet) waits for an ACK.                                    *)
Receive(e, p) ==
    LET ok == PidOk(e, p)
        msg == p.id # NoId
        store == ok /\ msg /\ InWindow(e, p.id)
        fresh == msg /\ (ok => InWindow(e, p.id) \/ PreWindow(e, p.id))
        un == IF ok THEN unacked[e] \ p.acks ELSE unacked[e]
        h == IF store
             THEN [i \in DOMAIN held[e] \cup {p.id} |->
                      IF i = p.id THEN p.val ELSE held[e][i]]
             ELSE held[e]
        first == /\ dlv[e] = <<>> /\ rhead[e] \in DOMAIN h
                 /\ h[rhead[e]] = Reset
        st == started[e] \/ ((dlv[e] # <<>> \/ first) /\ un = {})
        R == IF fresh THEN AddReack(reacks[e], p.id) ELSE reacks[e]
    IN  /\ p.src = Other(e)
        /\ wrapped => npid[e] < MaxPid
        /\ \E more \in Records(e) :
             /\ more # <<>> => st
             /\ e = Client /\ st /\ ~started[e] => more # <<>>
             /\ Flush(e, un, IF first /\ e = Server THEN Append(rawq[e], Reset)
                                                    ELSE rawq[e],
                      appq[e] \o more, R, fresh, st)
        /\ Deliver(e, h, st)
        /\ started' = [started EXCEPT ![e] = st]
        /\ reacks' = [reacks EXCEPT ![e] = R]
        /\ seen' = IF wrapped /\ ok /\ (msg => store)
                   THEN [seen EXCEPT ![e] = @ \cup {p.pid}] ELSE seen
        /\ UNCHANGED floor

(* app_send on an active key context, then flush. *)
Submit(e, d) ==
    /\ started[e] /\ MayQueue(e)
    /\ wrapped => npid[e] < MaxPid
    /\ Flush(e, unacked[e], rawq[e], Append(appq[e], d), reacks[e], FALSE, TRUE)
    /\ UNCHANGED <<recvVars, reacks, seen, floor>>

(* retransmit: the messages whose timers have expired go out again, each     *)
(* with the ACKs that re_acks still holds.                                   *)
Retransmit(e, due) ==
    /\ due # {} /\ due \subseteq unacked[e]
    /\ wrapped => npid[e] < MaxPid
    /\ net' = net \cup
          {[src |-> e, id |-> i, val |-> MsgAt(e, i),
            acks |-> PacketAcks(reacks[e]),
            pid |-> IF wrapped THEN npid[e] + i - StartAt + 1 ELSE 0] : i \in due}
    /\ npid' = IF wrapped THEN [npid EXCEPT ![e] = @ + Len(sent[e])] ELSE npid
    /\ UNCHANGED <<sendVars, recvVars, reacks, wrapped, seen, floor>>

(* External. The network loses a packet. A packet that is received stays:    *)
(* it may come again.                                                        *)
Lose(p) ==
    /\ Lossy
    /\ net' = net \ {p}
    /\ UNCHANGED <<sendVars, recvVars, reacks, pidVars>>

(* Time passes: the packet ids up to the highest one seen are too old for    *)
(* the replay window of ta_pid_recv.                                         *)
Expire(e) ==
    /\ wrapped
    /\ \E m \in seen[e] : /\ \A x \in seen[e] : x <= m
                          /\ floor' = [floor EXCEPT ![e] = m]
    /\ UNCHANGED <<sendVars, recvVars, reacks, net, wrapped, npid, seen>>

Next ==
    \/ \E e \in Peers :
         \/ Begin(e)
         \/ \E p \in net : Receive(e, p)
         \/ \E d \in Data : Submit(e, d)
         \/ \E due \in SUBSET unacked[e] : Retransmit(e, due)
         \/ Expire(e)
    \/ \E p \in net : Lose(p)

Spec == Init /\ [][Next]_vars

(* The network delivers some packet of a kind that is sent again and again;  *)
(* the retransmit timer of a message that stays unacknowledged runs out; the *)
(* initiator is started.                                                     *)
Fairness ==
    /\ WF_vars(Begin(Initiator))
    /\ \A e \in Peers :
         /\ \A i \in StartAt..(StartAt + MaxMsgs[e] - 1) :
              /\ WF_vars(\E due \in SUBSET unacked[e] :
                            i \in due /\ Retransmit(e, due))
              /\ SF_vars(\E p \in net : i \in p.acks /\ Receive(e, p))
         /\ \A i \in StartAt..(StartAt + MaxMsgs[Other(e)] - 1) :
              SF_vars(\E p \in net : i = p.id /\ Receive(e, p))

FairSpec == Spec /\ Fairness

-----------------------------------------------------------------------------
(* Properties *)

C == INSTANCE ReliableChannel WITH got <- dlv

(* The layer implements the abstract channel: up_sequenced hands every       *)
(* message to TLS once and in the order rel_send numbered them, over a       *)
(* network that loses, repeats and reorders packets.                         *)
FifoDelivery == C!Fifo

(* The ids a peer has stored or passed up. *)
Received(e) == (StartAt..(rhead[e] - 1)) \cup DOMAIN held[e]

(* Without tls-auth and tls-crypt, rel_send forgets a message (ack,          *)
(* rm_by_id) only when the peer has it: nothing else would send it again.    *)
AckedWasReceived ==
    ~wrapped => \A e \in Peers : SentIds(e) \ unacked[e] \subseteq Received(Other(e))

(* Likewise, with TLS started, no packet can be beyond the receive window, where       *)
(* receive would drop it without an ACK: the send window is kept inside it,  *)
(* late packets and late ACKs included.                                      *)
NeverBeyondWindow ==
    ~wrapped => \A e \in Peers : started[e] =>
        \A p \in net : p.src = Other(e) /\ p.id # NoId =>
            p.id < rhead[e] + RecvSpan

(* Everything sent is in the end read by the peer and acknowledged, and      *)
(* nothing stays in a queue: retransmit, the ACK of old packets and re_acks  *)
(* make up for every loss.                                                   *)
Settles ==
    <>[](\A e \in Peers : /\ rawq[e] = <<>> /\ appq[e] = <<>>
                          /\ unacked[e] = {}
                          /\ dlv[Other(e)] = sent[e])

(* What packets, windows and queues hold, for any loss and order: messages   *)
(* in transit or held are the ones sent under their ids;                     *)
Faithful ==
    /\ \A p \in net : p.id # NoId =>
          p.id \in SentIds(p.src) /\ p.val = MsgAt(p.src, p.id)
    /\ \A e \in Peers : \A i \in DOMAIN held[e] :
          /\ InWindow(e, i)
          /\ i \in SentIds(Other(e)) /\ held[e][i] = MsgAt(Other(e), i)

(* the receive window begins after what was passed up, all that could go up  *)
(* has gone;                                                                 *)
InOrder ==
    \A e \in Peers :
        /\ rhead[e] = StartAt + Len(dlv[e])
        /\ C!Prefix(dlv[e], sent[Other(e)])
        /\ rhead[e] \in DOMAIN held[e] =>
              ~started[e] /\ held[e][rhead[e]] # Reset

(* the unacknowledged ids fit in the send window;                            *)
SendWindow ==
    \A e \in Peers :
        /\ unacked[e] \subseteq SentIds(e)
        /\ \A i \in unacked[e] : NextId(e) <= i + SendSpan

(* and ACKs, in transit or kept for repetition, are for messages received.   *)
AcksTrue ==
    ~wrapped =>
    /\ \A p \in net : p.acks \subseteq Received(p.src)
    /\ \A e \in Peers : \A i \in 1..Len(reacks[e]) :
          reacks[e][i] \in Received(e)
    /\ AckedWasReceived

(* The inductive invariant behind FifoDelivery, AckedWasReceived and         *)
(* NeverBeyondWindow: decapsulate, up_sequenced, flush and retransmit keep   *)
(* both ends of the windows in step. The part on ACKs holds where decapsulate *)
(* checks no packet ids.                                                     *)
IndInv ==
    /\ TypeOK /\ Faithful /\ InOrder /\ SendWindow /\ AcksTrue
=============================================================================
