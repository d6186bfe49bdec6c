---------------------------- MODULE KeyRollover ----------------------------
(***************************************************************************)
(* The key contexts of one ProtoContext (ssl/proto.hpp): the primary key,  *)
(* on which it sends, the secondary, a new or a retiring key, and the      *)
(* KEV_x events that make, promote and expire them.                        *)
(*                                                                         *)
(* The session runs on one thread.  Every callback of ClientProto updates  *)
(* the clock, hands one input to the context and flushes, which processes  *)
(* events, the primary's before the secondary's, until none is pending.    *)
(* An action is an input or one turn at a slot; no input is taken while a  *)
(* flush is on.  Only the callback of the housekeeping timer looks whether *)
(* the primary was invalidated, and after its flush: every other callback  *)
(* still flushes a context whose primary is dead.  The peer, TLS and the   *)
(* moments at which a handshake completes or fails are external: any input *)
(* may come.                                                               *)
(***************************************************************************)
EXTENDS Integers

CONSTANTS HandshakeWindow, BecomePrimary, Renegotiate, Expire, \* ProtoConfig
          LimitDelay, \* seconds key_limit_reneg waits: 1 on a client
          KeyIdMask,  \* KEY_ID_MASK, 7
          MaxLate,    \* how far a callback moves the clock
          MaxTime, MaxKeys \* bounds of the exploration

ASSUME RolloverAssumption ==
    /\ {HandshakeWindow, BecomePrimary, Renegotiate, LimitDelay, KeyIdMask}
         \subseteq Nat \ {0}
    /\ {Expire, MaxLate, MaxTime, MaxKeys} \subseteq Nat
    /\ Renegotiate =< Expire
    /\ HandshakeWindow + BecomePrimary + MaxLate =< Expire

VARIABLES now, bs64, primary, secondary, upcoming, keys, phase, work, timer
    \* bs64: the session's cipher has 64-bit blocks (data_limit is set)
    \* upcoming: upcoming_key_id;  keys: n_key_ids
    \* phase: the slot at which a flush is, or what is on outside of one;
    \*        "over" when the session was stopped
    \* work: did_work of the process_events that is on
    \* timer: the callback that is on is the housekeeping timer's

vars == <<now, bs64, primary, secondary, upcoming, keys, phase, work, timer>>

Events == {"none", "active", "negotiate", "become_primary", "primary_pending",
           "renegotiate", "force", "queue", "expire"}

(* A KeyContext: its place in the order of creation (gen), whether its     *)
(* state is ACTIVE, the current event and the next one with its time.      *)
(* queued is a history variable: a renegotiation for a key limit was put   *)
(* off with KEV_RENEGOTIATE_QUEUE.                                         *)
Key == [id : -1 .. KeyIdMask, gen : Int, born : Int, active : BOOLEAN,
        cur : Events, next : Events, at : Int, fired : BOOLEAN,
        queued : BOOLEAN, dead : BOOLEAN]

(* An empty slot has no event and takes no part in anything, just as an    *)
(* invalidated key.                                                        *)
NoKey == [id |-> -1, gen |-> -1, born |-> 0, active |-> FALSE, cur |-> "none",
          next |-> "none", at |-> 0, fired |-> FALSE, queued |-> FALSE,
          dead |-> TRUE]

NewKey(id, gen, t) ==
    [id |-> id, gen |-> gen, born |-> t, active |-> FALSE, cur |-> "none",
     next |-> "negotiate", at |-> t + HandshakeWindow, fired |-> FALSE,
     queued |-> FALSE, dead |-> FALSE]

TypeOK ==
    /\ now \in Nat /\ keys \in Nat /\ upcoming \in 0 .. KeyIdMask
    /\ bs64 \in BOOLEAN /\ work \in BOOLEAN /\ timer \in BOOLEAN
    /\ primary \in Key /\ secondary \in Key
    /\ phase \in {"idle", "primary", "secondary", "keepalive", "over"}

(* Mutant: ids start again at 0 after the mask.                            *)
NextIdZero(id) == (id + 1) % (KeyIdMask + 1)

NextId(id) == IF id = KeyIdMask THEN 1 ELSE id + 1

Init ==
    /\ now = 0
    /\ bs64 \in BOOLEAN
    /\ primary = NewKey(0, 0, 0)
    /\ secondary = NoKey
    /\ upcoming = NextId(0)
    /\ keys = 1
    /\ phase = "idle"
    /\ work = FALSE /\ timer = FALSE

-----------------------------------------------------------------------------
(* What the methods of KeyContext do to a key at time t.                   *)

(* Mutant: the next event stays scheduled.                                 *)
InvalidatedKeep(k) == [k EXCEPT !.dead = TRUE]

Invalidated(k) ==
    IF k.dead THEN k ELSE [k EXCEPT !.dead = TRUE, !.next = "none"]

(* Mutant: the lifetime counts from the call.                              *)
ExpiryFromNow(k, t) ==
    IF k.fired THEN t + 2 * HandshakeWindow ELSE t + Expire

Expiry(k, t) == IF k.fired THEN t + 2 * HandshakeWindow ELSE k.born + Expire

Prepared(k, ev, t) ==
    [k EXCEPT !.cur = ev, !.next = "expire", !.at = Expiry(k, t)]

PrepareExpire(k, t) == Prepared(k, "none", t)

NextIfUnspecified(k, t) ==
    IF k.next = "none" /\ ~k.dead THEN PrepareExpire(k, t) ELSE k

(* KEV_BECOME_PRIMARY waits for data from the peer on a data-limited key.  *)
(* No data is ever counted: data_limit_add returns before it adds.         *)
Deferred(k) == bs64 /\ k.id # 0

KevError(k) == [Invalidated(k) EXCEPT !.cur = k.next]

(* process_next_event, when the time of the next event has come.           *)
NextEvent(k, t) ==
    CASE k.next = "become_primary" /\ Deferred(k) ->
           [k EXCEPT !.next = "primary_pending", !.at = t + 2 * HandshakeWindow]
      [] k.next = "become_primary" /\ ~Deferred(k) ->
           [k EXCEPT !.cur = "become_primary", !.next = "renegotiate",
                     !.at = k.born + Renegotiate]
      [] k.next \in {"renegotiate", "force"} -> Prepared(k, k.next, t)
      [] k.next \in {"negotiate", "primary_pending", "expire"} -> KevError(k)
      [] OTHER -> k

(* event_pending, which brings a due event up as the current one.          *)
Polled(k, t) == IF k.cur = "none" /\ t >= k.at THEN NextEvent(k, t) ELSE k

Pending(k, t) == Polled(k, t).cur # "none"

LimitReneg(k, ev, t) == [k EXCEPT !.cur = "none", !.next = ev, !.at = t + LimitDelay]

(* Mutant: the limit is noted and nothing is scheduled.                    *)
ScheduledNot(k, t) == [k EXCEPT !.fired = TRUE]

(* Mutant: the limit ends the key where it should be renegotiated.         *)
ScheduledEnd(k, t) == LimitReneg([k EXCEPT !.fired = TRUE], "expire", t)

Scheduled(k, t) ==
    IF k.next = "become_primary"
      THEN [k EXCEPT !.fired = TRUE, !.cur = "queue", !.queued = TRUE]
      ELSE LimitReneg([k EXCEPT !.fired = TRUE], "renegotiate", t)

Activated(k, t) ==
    [k EXCEPT !.active = TRUE, !.cur = "active", !.next = "become_primary",
              !.at = t + BecomePrimary]

-----------------------------------------------------------------------------
(* The inputs.  A callback comes d after the last one and ends in a flush, *)
(* on a live primary or a dead one: an invalidated session only makes the  *)
(* housekeeping timer due at once, and other callbacks may come before it. *)

Flushing == phase \in {"primary", "secondary"}

Callback(d, timed) ==
    /\ phase = "idle"
    /\ now + d =< MaxTime /\ keys < MaxKeys
    /\ now' = now + d
    /\ phase' = "primary" /\ work' = FALSE /\ timer' = timed
    /\ UNCHANGED bs64

(* housekeeping, of the timer: a flush, with Keepalive after it.           *)
Housekeeping(d) ==
    /\ Callback(d, TRUE)
    /\ UNCHANGED <<primary, secondary, upcoming, keys>>

(* A packet of the tunnel or the peer that does nothing to the keys.       *)
Traffic(d) ==
    /\ Callback(d, FALSE)
    /\ UNCHANGED <<primary, secondary, upcoming, keys>>

(* The last packet of a handshake: post_ack_action calls active.  The peer *)
(* negotiates one key at a time, as this code does: a new key takes the    *)
(* place of the one before, whose handshake does not complete any more.    *)
(* The stack of an invalidated key takes no packet that could complete it. *)
Negotiating(k) == ~k.dead /\ ~k.active /\ k.gen = keys - 1

ActivePrimary(d) ==
    /\ Negotiating(primary)
    /\ Callback(d, FALSE)
    /\ primary' = Activated(primary, now')
    /\ UNCHANGED <<secondary, upcoming, keys>>

ActiveSecondary(d) ==
    /\ Negotiating(secondary)
    /\ Callback(d, FALSE)
    /\ secondary' = Activated(secondary, now')
    /\ UNCHANGED <<primary, upcoming, keys>>

(* A soft reset of the peer opens a new context when its key id is the     *)
(* upcoming one and no slot has it: a PacketType that matches a slot goes  *)
(* to the key that is there.                                               *)
IsSoftReset == upcoming \notin {primary.id, secondary.id}

NewSecondary(t) ==
    /\ secondary' = NewKey(upcoming, keys, t)
    /\ upcoming' = NextId(upcoming)
    /\ keys' = keys + 1

SoftReset(d) ==
    /\ IsSoftReset
    /\ Callback(d, FALSE)
    /\ NewSecondary(now')
    /\ UNCHANGED primary

(* data_encrypt, which uses the primary, comes to the limit of its key.    *)
KeyLimit(d) ==
    /\ ~primary.dead /\ primary.active /\ ~primary.fired /\ ~bs64
    /\ Callback(d, FALSE)
    /\ primary' = Scheduled(primary, now')
    /\ UNCHANGED <<secondary, upcoming, keys>>

(* The protocol stack invalidates a key on an error of TLS.                *)
ErrorPrimary(d) ==
    /\ ~primary.dead
    /\ Callback(d, FALSE)
    /\ primary' = Invalidated(primary)
    /\ UNCHANGED <<secondary, upcoming, keys>>

ErrorSecondary(d) ==
    /\ ~secondary.dead
    /\ Callback(d, FALSE)
    /\ secondary' = Invalidated(secondary)
    /\ UNCHANGED <<primary, upcoming, keys>>

-----------------------------------------------------------------------------
(* The flush.                                                              *)

(* Mutant: the old primary is dropped.                                     *)
PromoteDrop(from, to) ==
    /\ primary' = to
    /\ secondary' = NoKey

(* promote_secondary_to_primary: from is demoted and to is promoted.       *)
Promote(from, to) ==
    /\ primary' = to
    /\ secondary' = PrepareExpire(from, now)

ExpiredPrimary(k) ==
    IF ~secondary.dead THEN Promote(k, NextIfUnspecified(secondary, now))
    ELSE primary' = Invalidated(k) /\ secondary' = Invalidated(secondary)

(* process_primary_event, for the key k whose event is ev.                 *)
PrimaryEvent(k, ev) ==
    \/ /\ ev \in {"renegotiate", "force"}
       /\ primary' = NextIfUnspecified(k, now)
       /\ NewSecondary(now)
    \/ /\ ev = "expire"
       /\ ExpiredPrimary(k)
       /\ UNCHANGED <<upcoming, keys>>
    \/ /\ ev = "negotiate"
       /\ primary' = Invalidated(k) /\ secondary' = Invalidated(secondary)
       /\ UNCHANGED <<upcoming, keys>>
    \/ /\ ev \in {"active", "become_primary", "primary_pending", "queue"}
       /\ primary' = NextIfUnspecified(k, now)
       /\ UNCHANGED <<secondary, upcoming, keys>>

TurnPrimary ==
    /\ phase = "primary"
    /\ phase' = "secondary"
    /\ UNCHANGED <<now, bs64, timer>>
    /\ LET k == Polled(primary, now) IN
       \/ /\ k.cur # "none"
          /\ work' = TRUE
          /\ PrimaryEvent([k EXCEPT !.cur = "none"], k.cur)
       \/ /\ k.cur = "none"
          /\ primary' = k
          /\ UNCHANGED <<secondary, upcoming, keys, work>>

NewActive(k) ==
    /\ primary' = PrepareExpire(primary, now)
    /\ secondary' = NextIfUnspecified(k, now)

(* process_secondary_event, for the key k whose event is ev.  A queued or  *)
(* forced renegotiation does not come up here: only data that data_limit   *)
(* counts can make the limit of a secondary, and it counts none.           *)
SecondaryEvent(k, ev) ==
    \/ /\ ev = "active"
       /\ NewActive(k)
       /\ UNCHANGED <<upcoming, keys>>
    \/ /\ ev = "become_primary" /\ ~k.dead
       /\ Promote(primary, k)
       /\ UNCHANGED <<upcoming, keys>>
    \/ /\ ev = "expire"
       /\ secondary' = NoKey
       /\ UNCHANGED <<primary, upcoming, keys>>
    \/ /\ ev \in {"negotiate", "primary_pending"}
       /\ NewSecondary(now)
       /\ UNCHANGED primary

TurnSecondary ==
    /\ phase = "secondary"
    /\ UNCHANGED <<now, bs64, timer>>
    /\ work' = FALSE
    /\ LET k == Polled(secondary, now) IN
       \/ /\ k.cur # "none"
          /\ phase' = "primary"
          /\ SecondaryEvent([k EXCEPT !.cur = "none"], k.cur)
       \/ /\ k.cur = "none"
          /\ phase' = IF work THEN "primary"
                      ELSE IF timer THEN "keepalive" ELSE "idle"
          /\ secondary' = k
          /\ UNCHANGED <<primary, upcoming, keys>>

(* After the flush of housekeeping: keepalive_housekeeping disconnects     *)
(* when no packet came within the keepalive timeout.                       *)
KeepaliveExpired ==
    primary' = Invalidated(primary) /\ secondary' = Invalidated(secondary)

(* housekeeping_callback stops the session when its primary is dead.       *)
AfterHousekeeping(p) == IF p.dead THEN "over" ELSE "idle"

Keepalive ==
    /\ phase = "keepalive"
    /\ KeepaliveExpired \/ UNCHANGED <<primary, secondary>>
    /\ phase' = AfterHousekeeping(primary')
    /\ timer' = FALSE
    /\ UNCHANGED <<now, bs64, upcoming, keys, work>>

Input ==
    \E d \in 0 .. MaxLate :
        \/ Housekeeping(d) \/ Traffic(d) \/ ActivePrimary(d) \/ ActiveSecondary(d)
        \/ SoftReset(d) \/ KeyLimit(d) \/ ErrorPrimary(d) \/ ErrorSecondary(d)

Next == Input \/ TurnPrimary \/ TurnSecondary \/ Keepalive

(* A callback is code of one thread and runs on; no input has to come.     *)
Spec == Init /\ [][Next]_vars /\ WF_vars(TurnPrimary \/ TurnSecondary \/ Keepalive)

-----------------------------------------------------------------------------
(* Properties.                                                             *)

Slots == {primary, secondary}

(* What is so of a key that is not invalidated when n keys were made and   *)
(* the time is t: its next event fits its state, before its limit it will  *)
(* have gone by the end of its life, and over its limit it is renegotiated *)
(* soon or expires.                                                        *)
LiveKey(k, n, t) ==
    /\ k.next \in {"negotiate", "become_primary", "primary_pending",
                   "renegotiate", "expire"}
    /\ k.next = "negotiate" => ~k.active /\ k.at =< k.born + HandshakeWindow
    /\ k.next \in {"become_primary", "primary_pending", "renegotiate"} => k.active
    /\ k.next = "expire" /\ ~k.active => k.gen # n - 1
    /\ ~k.fired /\ k.next # "primary_pending" => k.at =< k.born + Expire
    /\ k.fired /\ ~k.queued =>
         k.next = "expire" \/ (k.next = "renegotiate" /\ k.at =< t + LimitDelay)
    /\ k.fired => k.active

KeyOK(k, n, t) ==
    /\ k.gen < n
    /\ k.cur \in {"none", "active", "queue"}
    /\ k.dead => k.next \in {"none", "expire"}
    /\ ~k.dead => LiveKey(k, n, t)

(* No event of the key is left to process at time t.                       *)
Settled(k, t) == ~k.dead => k.cur = "none" /\ t < k.at

(* A retiring key in the secondary slot only waits for its end, and the    *)
(* primary that replaced it is not set to expire.                          *)
Retiring(p, s) ==
    /\ s.cur # "none" => s.gen > p.gen
    /\ ~s.dead /\ s.gen < p.gen => s.next = "expire" /\ p.next # "expire"

(* The keys agree with their schedules: a live key always has an event to  *)
(* come, nothing due is left after a flush, no key is in both slots, and   *)
(* the older key retires (set_event, prepare_expire, event_pending and     *)
(* promote_secondary_to_primary).                                          *)
ScheduleInv ==
    /\ TypeOK
    /\ KeyOK(primary, keys, now) /\ KeyOK(secondary, keys, now)
    /\ primary.gen >= 0 /\ primary.gen # secondary.gen
    /\ ~Flushing => Settled(primary, now) /\ Settled(secondary, now)
    /\ phase = "secondary" /\ ~work => Settled(primary, now)
    /\ Retiring(primary, secondary)

(* Key id 0 is the first key's alone, and a packet for the secondary is    *)
(* not taken for the primary's, as long as fewer than KeyIdMask keys were  *)
(* made after the older of the two (next_key_id and PacketType).           *)
IdsApart ==
    /\ \A k \in Slots : k.id = 0 <=> k.gen = 0
    /\ primary.id = secondary.id =>
          \/ secondary.gen >= primary.gen + KeyIdMask
          \/ primary.gen >= secondary.gen + KeyIdMask

(* Where the id of a key stands to the upcoming one, u, after n keys: they *)
(* are as far apart as the keys in the order of creation, less one round.  *)
IdLink(k, n, u) ==
    /\ k.gen >= -1 /\ (k.gen = -1 <=> k.id = -1) /\ (k.gen = 0 <=> k.id = 0)
    /\ k.gen >= 1 /\ n - k.gen =< KeyIdMask =>
         u \in {k.id + (n - k.gen), k.id + (n - k.gen) - KeyIdMask}

IdInv ==
    /\ keys >= 1 /\ upcoming # 0
    /\ IdLink(primary, keys, upcoming) /\ IdLink(secondary, keys, upcoming)
    /\ IdsApart

(* A dead primary whose expiry is due, and no live secondary to take its   *)
(* place: invalidate does nothing to a dead key, KEV_EXPIRE comes up again *)
(* and again.  KEV_ACTIVE of the secondary sets the next event of a dead   *)
(* primary, where only a live one loses it when it ends.                   *)
Stuck ==
    /\ primary.dead /\ primary.next = "expire" /\ now >= primary.at
    /\ secondary.dead

(* A flush never makes such a primary, not even when a new key became      *)
(* active and the primary came to its end in it: the primary is stuck only *)
(* when its expiry came due after the flush that set it.                   *)
FlushInv ==
    /\ ~Flushing => secondary.cur = "none"
    /\ phase = "primary" => ~work
    /\ secondary.cur # "none" /\ phase = "primary" =>
         /\ ~secondary.dead
         /\ primary.next = "negotiate" => now < primary.born + Expire
    /\ secondary.cur # "none" /\ secondary.dead /\ primary.dead =>
         /\ primary.next = "none"
         /\ primary.fired \/ now < primary.born + Expire
    /\ primary.dead /\ primary.next = "expire" =>
         /\ primary.cur = "none"
         /\ \/ now < primary.at
            \/ phase = "primary"
            \/ phase = "secondary" /\ Stuck /\ work

(* The schedules of the keys, their ids (next_key_id) and the events of a  *)
(* flush (process_events) fit together.                                    *)
IndInv == ScheduleInv /\ IdInv /\ FlushInv

(* No key outlives its lifetime: after a flush a key that is not over its  *)
(* data limit and waits for nothing is younger than Expire, however the    *)
(* renegotiations that should have replaced it went.                       *)
KeyExpires ==
    phase = "idle" =>
      \A k \in Slots :
        ~k.dead /\ ~k.fired /\ k.next # "primary_pending" => now < k.born + Expire

(* The endpoint never sends on an older key again: neither the expiry of   *)
(* the primary nor a swap puts an earlier key into the primary slot.       *)
NeverRollsBack == [][primary'.gen >= primary.gen]_vars

(* A key on which the peer may still send is kept: a live key leaves the   *)
(* slots only when it expires or when a new key takes the secondary slot.  *)
OldKeyKept ==
    [][\A k \in Slots :
         ~k.dead /\ k.gen \notin {primary'.gen, secondary'.gen} =>
           keys' = keys + 1 \/ (k.next = "expire" /\ now >= k.at)]_vars

(* A primary that came to its limit, after the time in which it waits to   *)
(* become primary, is renegotiated within LimitDelay or is set to expire.  *)
LimitHeeded ==
    phase = "idle" /\ ~primary.dead /\ primary.fired /\ ~primary.queued =>
      \/ primary.next = "expire"
      \/ primary.next = "renegotiate" /\ primary.at =< now + LimitDelay

(* At most how many events the key in a slot can still lead to at time t:  *)
(* a promotion brings up a renegotiation, which makes a key; an expiry at  *)
(* the primary slot leads to another one at the secondary.                 *)
Due(k, t) == t >= k.at

Ahead(k, t) ==
    CASE Due(k, t) /\ k.next = "become_primary" -> 8
      [] Due(k, t) /\ k.next \in {"renegotiate", "force"} -> 7
      [] Due(k, t) /\ k.next \in {"negotiate", "primary_pending"} -> 4
      [] OTHER -> 3

Current(k) == IF k.cur = "none" THEN 0 ELSE 1

PrimaryAhead(k, t) == Current(k) + (IF k.dead THEN 2 ELSE Ahead(k, t))

SecondaryAhead(k, t) ==
    Current(k) + (IF ~k.dead THEN Ahead(k, t)
                  ELSE IF k.next = "expire" THEN 1 ELSE 0)

EventsAhead == PrimaryAhead(primary, now) + SecondaryAhead(secondary, now)

(* The turns that a flush can still take. *)
Rank ==
    IF ~Flushing THEN 0
    ELSE 4 * EventsAhead +
         (IF phase = "primary" THEN 2 ELSE IF work THEN 3 ELSE 1)

(* Whether a flush returns is settled when it begins: on a stuck primary   *)
(* its do-while goes on for ever, on any other one every turn brings it    *)
(* closer to its end, whatever the events of the two keys make of each     *)
(* other, and it returns after at most 75 turns.                           *)
FlushProgress ==
    [][Flushing => IF Stuck THEN Stuck' /\ Flushing'
                   ELSE ~Stuck' /\ Rank' < Rank]_vars

(* The callback returns, and with it the do-while of flush, unless it came *)
(* upon a dead primary whose expiry is due with no live secondary: the     *)
(* events that processing makes do not keep the flush going, not even for  *)
(* a primary that is invalidated meanwhile or was dead before.             *)
FlushReturns == Flushing /\ ~Stuck ~> phase \in {"idle", "over"}
=============================================================================
