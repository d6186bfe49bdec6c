------------------------------ MODULE PacketID ------------------------------
(***************************************************************************)
(* Packet ids and the replay window: PacketIDControlSend and               *)
(* PacketIDControlReceiveType of the control channel (tls-auth and         *)
(* tls-crypt), where an id is a time and a number, and PacketIDDataSend    *)
(* and PacketIDDataReceiveType of the data channel, where it is a number   *)
(* and every time is 0. The two receivers are one algorithm on a ring of   *)
(* bits.                                                                   *)
(*                                                                         *)
(* The network may hold back, reorder, repeat and lose packets: one that   *)
(* was sent may arrive at any later time, any number of times, or never.   *)
(***************************************************************************)
EXTENDS Integers

CONSTANTS Window,     \* REPLAY_WINDOW_SIZE
          Patience,   \* PKTID_RECV_EXPIRE
          MaxId,      \* the last id before the counter wraps
          MaxTime,    \* bound: seconds of a behaviour
          Starts      \* first ids less one: 0, or the epoch in the upper bits

ASSUME PacketIDAssumption ==
    /\ Window \in Nat \ {0}
    /\ Patience \in Nat \ {0}
    /\ MaxId \in Nat \ {0}
    /\ MaxTime \in Nat \ {0}
    /\ Starts \subseteq 0..(MaxId - 1)

Pids == [time : 0..MaxTime, id : 1..MaxId]

VARIABLES
    data,       \* whether this is a data channel
    now,        \* seconds_since_epoch
    sid, stime, \* pid_ of the sender
    net,        \* packet ids in transit
    base,       \* bit position of the newest id
    extent,     \* bits in use
    expire,     \* expiration of history
    id_high,    \* highest sequence number received
    time_high,  \* highest time stamp received
    id_floor,   \* only backtracks above it are accepted
    history,    \* the bits that are set
    got         \* history variable: how often each id was accepted

sendVars == <<sid, stime, net>>
ringVars == <<base, extent, id_high, time_high, history>>
vars == <<data, now, sendVars, ringVars, expire, id_floor, got>>

Bits == 0..(Window - 1)
Least(a, b) == IF a < b THEN a ELSE b

TypeOK ==
    /\ data \in BOOLEAN
    /\ now \in 0..MaxTime
    /\ sid \in 0..MaxId /\ stime \in 0..MaxTime
    /\ net \subseteq Pids
    /\ base \in Bits /\ extent \in 0..Window
    /\ expire \in Nat
    /\ id_high \in 0..MaxId /\ time_high \in 0..MaxTime
    /\ id_floor \in 0..MaxId
    /\ history \subseteq Bits
    /\ got \in [Pids -> Nat]

Init ==
    /\ data \in BOOLEAN
    /\ now = 1
    /\ sid \in Starts /\ stime = 0
    /\ net = {}
    /\ base = 0 /\ extent = 0
    /\ expire = 0
    /\ id_high = 0 /\ time_high = 0 /\ id_floor = 0
    /\ history = {}
    /\ got = [p \in Pids |-> 0]

-----------------------------------------------------------------------------
(* PacketIDControlSend and PacketIDDataSend *)

(* Mutant: a wraparound keeps the time. *)
NextPidKeepTime ==
    IF data THEN [time |-> 0, id |-> sid + 1]
    ELSE [time |-> IF stime = 0 THEN now ELSE stime,
          id |-> IF sid = MaxId THEN 1 ELSE sid + 1]

(* next: the first control packet fixes the time; the counter goes on after  *)
(* a wraparound at 1, under a new time.                                      *)
NextPid ==
    IF data THEN [time |-> 0, id |-> sid + 1]
    ELSE [time |-> IF stime = 0 \/ sid = MaxId THEN now ELSE stime,
          id |-> IF sid = MaxId THEN 1 ELSE sid + 1]

(* A data counter at its limit throws packet_id_wrap, which ends the         *)
(* session. 2^32 control packets take longer than a second, so the clock has *)
(* moved on when that counter wraps.                                         *)
MaySend == IF data THEN sid < MaxId - 1 ELSE sid = MaxId => now > stime

Send ==
    /\ MaySend
    /\ sid' = NextPid.id
    /\ stime' = NextPid.time
    /\ net' = net \cup {NextPid}
    /\ UNCHANGED <<data, now, ringVars, expire, id_floor, got>>

-----------------------------------------------------------------------------
(* PacketIDControlReceiveType and PacketIDDataReceiveType *)

(* REPLAY_INDEX: (b + i) & (REPLAY_WINDOW_SIZE - 1), for b in the ring and   *)
(* i between -Window and Window.                                             *)
Index(b, i) ==
    IF b + i < 0 THEN b + i + Window
    ELSE IF b + i >= Window THEN b + i - Window
    ELSE b + i

(* The floor that a call sets: after Patience seconds without a call nothing *)
(* older than the highest id is taken any more.                              *)
Floor == IF now >= expire THEN id_high ELSE id_floor

(* Mutant: the replay bit is not looked up below the newest id. *)
AcceptsNoReplayBit(p) ==
    \/ p.time > time_high
    \/ /\ p.time = time_high
       /\ \/ p.id > id_high
          \/ /\ id_high - p.id < extent
             /\ p.id > Floor
             /\ id_high = p.id => Index(base, id_high - p.id) \notin history

(* The verdict of do_test_add. *)
Accepts(p) ==
    \/ p.time > time_high
    \/ /\ p.time = time_high
       /\ \/ p.id > id_high
          \/ /\ id_high - p.id < extent
             /\ p.id > Floor
             /\ Index(base, id_high - p.id) \notin history

(* Mutant: a jump does not clear the bits it skips. *)
ShiftNoClear(b, x, delta) ==
    LET nb == Index(b, -delta)
    IN  IF delta < Window
        THEN /\ base' = nb
             /\ extent' = Least(x + delta, Window)
             /\ history' = history \cup {nb}
        ELSE /\ base' = 0 /\ extent' = Window /\ history' = {0}

(* An id delta above the highest one: the ring turns by delta, the bits      *)
(* skipped are cleared, or the whole ring is. An increment by one is the     *)
(* case delta = 1, also in a ring of one bit.                                *)
Shift(b, x, delta) ==
    LET nb == Index(b, -delta)
    IN  IF delta < Window \/ delta = 1
        THEN /\ base' = nb
             /\ extent' = Least(x + delta, Window)
             /\ history' = (history \cup {nb}) \ {Index(nb, i) : i \in 1..(delta - 1)}
        ELSE /\ base' = 0 /\ extent' = Window /\ history' = {0}

(* do_test_add with mod: a new time empties the deque but leaves its bits.   *)
Add(p) ==
    LET later == p.time > time_high
        high == IF later THEN 0 ELSE id_high
        b == IF later THEN 0 ELSE base
        x == IF later THEN 0 ELSE extent
    IN  /\ time_high' = p.time
        /\ id_floor' = IF later THEN 0 ELSE Floor
        /\ IF p.id > high
           THEN id_high' = p.id /\ Shift(b, x, p.id - high)
           ELSE /\ history' = history \cup {Index(b, high - p.id)}
                /\ UNCHANGED <<id_high, base, extent>>
        /\ got' = [got EXCEPT ![p] = @ + 1]

(* A packet arrives. A data channel tests and adds at once; a control        *)
(* channel tests, and adds (with the same now) only when the reliability     *)
(* layer took the packet. Every call moves the expiration.                   *)
Receive(p, keep) ==
    /\ p \in net
    /\ data => keep
    /\ expire' = now + Patience
    /\ IF Accepts(p) /\ keep
       THEN Add(p)
       ELSE id_floor' = Floor /\ UNCHANGED <<ringVars, got>>
    /\ UNCHANGED <<data, now, sendVars>>

Tick ==
    /\ now < MaxTime
    /\ now' = now + 1
    /\ UNCHANGED <<data, sendVars, ringVars, expire, id_floor, got>>

Next ==
    \/ Send \/ Tick
    \/ \E p \in net, keep \in BOOLEAN : Receive(p, keep)

Spec == Init /\ [][Next]_vars

-----------------------------------------------------------------------------
(* Properties *)

(* packet_id_control.hpp:170: "no packet-id (i.e. sequence number +          *)
(* optional timestamp) is accepted more than once", whatever is repeated and *)
(* however old: across jumps, wraparounds and expirations of the history.    *)
NoReplay == \A p \in Pids : got[p] <= 1

(* Nothing else is refused: do_test_add accepts exactly the ids that are     *)
(* under a newer time, above the highest one, or not accepted before and     *)
(* within Window of it and above the floor of this call.                     *)
AcceptsExactly ==
    \A p \in net :
        Accepts(p) <=>
            \/ p.time > time_high
            \/ p.time = time_high /\ p.id > id_high
            \/ /\ p.time = time_high
               /\ got[p] = 0
               /\ p.id > id_high - Window /\ p.id > Floor

(* next() never gives an id twice: not after a wraparound either.            *)
FreshIds == MaySend => NextPid \notin net

(* The inductive invariant: the deque holds the last extent ids of the       *)
(* highest time, each bit says whether its id was accepted, and nothing was  *)
(* accepted beyond the highest id.                                           *)
Deque(b, x, t, high) ==
    /\ x = Least(high, Window)
    /\ \A d \in 0..(x - 1) :
          Index(b, d) \in history <=> got[[time |-> t, id |-> high - d]] > 0
    /\ \A p \in Pids : got[p] > 0 /\ p.time = t => p.id <= high

SentBefore ==
    /\ data => stime = 0
    /\ stime <= now /\ now >= 1
    /\ \A p \in net : /\ data => p.time = 0
                      /\ ~data => stime > 0 /\ p.time > 0
                      /\ p.time < stime \/ (p.time = stime /\ p.id <= sid)

IndInv ==
    /\ TypeOK
    /\ Deque(base, extent, time_high, id_high)
    /\ \A p \in Pids : got[p] > 0 => p.time <= time_high
    /\ NoReplay
    /\ SentBefore
=============================================================================
