------------------------- MODULE KeyRolloverProofs -------------------------
(***************************************************************************)
(* Proofs about KeyRollover, for every setting of the times and the bounds.*)
(* Each method of a key context has a lemma that says what it leaves; the  *)
(* turns of the flush are then a matter of which event came up.            *)
(***************************************************************************)
EXTENDS KeyRollover, TLAPS

(* Constants in the forms the provers need. *)
LEMMA ConstFacts ==
    /\ HandshakeWindow \in Nat /\ HandshakeWindow > 0
    /\ BecomePrimary \in Nat /\ BecomePrimary > 0
    /\ Renegotiate \in Nat /\ LimitDelay \in Nat /\ LimitDelay > 0
    /\ KeyIdMask \in Nat /\ KeyIdMask > 0
    /\ Expire \in Nat /\ MaxLate \in Nat
    /\ Renegotiate =< Expire
    /\ HandshakeWindow + BecomePrimary + MaxLate =< Expire
BY RolloverAssumption

(* The fields of a key. *)
LEMMA KeyFacts ==
    ASSUME NEW k \in Key
    PROVE  /\ k.id \in -1 .. KeyIdMask /\ k.gen \in Int /\ k.born \in Int /\ k.at \in Int
           /\ k.active \in BOOLEAN /\ k.fired \in BOOLEAN
           /\ k.queued \in BOOLEAN /\ k.dead \in BOOLEAN
           /\ k.cur \in Events /\ k.next \in Events
BY DEF Key

(* An empty slot. *)
LEMMA NoKeyFacts ==
    /\ NoKey \in Key /\ NoKey.dead /\ NoKey.gen = -1 /\ NoKey.cur = "none"
    /\ NoKey.next = "none"
BY ConstFacts DEF NoKey, Key, Events

(* A new key is live, settled and well scheduled. *)
LEMMA NewKeyFacts ==
    ASSUME NEW id \in 0 .. KeyIdMask, NEW gen \in Nat, NEW t \in Nat
    PROVE  LET r == NewKey(id, gen, t) IN
           /\ r \in Key /\ ~r.dead /\ r.gen = gen /\ r.cur = "none"
           /\ r.next = "negotiate" /\ ~r.fired
           /\ KeyOK(r, gen + 1, t) /\ Settled(r, t)
<1> DEFINE r == NewKey(id, gen, t)
<1>1. /\ r \in Key /\ ~r.dead /\ r.gen = gen /\ r.cur = "none"
      /\ r.next = "negotiate" /\ r.fired = FALSE /\ r.active = FALSE
      /\ r.at = t + HandshakeWindow /\ r.born = t
  BY ConstFacts DEF NewKey, Key, Events
<1> HIDE DEF r
<1>2. KeyOK(r, gen + 1, t) /\ Settled(r, t)
  BY <1>1, ConstFacts DEF KeyOK, LiveKey, Settled
<1> QED BY <1>1, <1>2 DEF r

(* Key ids stay in their range. *)
LEMMA NextIdFacts ==
    ASSUME NEW id \in 0 .. KeyIdMask
    PROVE  NextId(id) \in 0 .. KeyIdMask
BY ConstFacts DEF NextId

(* More keys and later times keep what is so of a key. *)
LEMMA KeyOKLater ==
    ASSUME NEW k \in Key, NEW n \in Nat, NEW m \in Nat, NEW t \in Nat, NEW u \in Nat,
           n =< m, t =< u, KeyOK(k, n, t)
    PROVE  KeyOK(k, m, u)
BY ConstFacts, KeyFacts DEF KeyOK, LiveKey

(* invalidate leaves no event to come, or changes nothing. *)
LEMMA InvalidatedFacts ==
    ASSUME NEW k \in Key
    PROVE  LET r == Invalidated(k) IN
           /\ r \in Key /\ r.dead /\ r.gen = k.gen /\ r.cur = k.cur
           /\ r.next = IF k.dead THEN k.next ELSE "none"
BY KeyFacts DEF Invalidated, Key, Events

(* What invalidate makes of a well scheduled key. *)
LEMMA InvalidatedOK ==
    ASSUME NEW k \in Key, NEW n \in Nat, NEW t \in Nat, KeyOK(k, n, t)
    PROVE  KeyOK(Invalidated(k), n, t) /\ Settled(Invalidated(k), t)
BY InvalidatedFacts DEF KeyOK, Settled

(* prepare_expire leaves the key waiting for its end. *)
LEMMA PreparedFacts ==
    ASSUME NEW k \in Key, NEW ev \in Events, NEW t \in Nat
    PROVE  LET r == Prepared(k, ev, t) IN
           /\ r \in Key /\ r.dead = k.dead /\ r.gen = k.gen /\ r.born = k.born
           /\ r.active = k.active /\ r.fired = k.fired /\ r.queued = k.queued
           /\ r.cur = ev /\ r.next = "expire"
           /\ r.at = IF k.fired THEN t + 2 * HandshakeWindow ELSE k.born + Expire
<1> DEFINE at == IF k.fired THEN t + 2 * HandshakeWindow ELSE k.born + Expire
<1>1. at \in Int
  BY ConstFacts, KeyFacts
<1>2. Prepared(k, ev, t) = [k EXCEPT !.cur = ev, !.next = "expire", !.at = at]
  BY DEF Prepared, Expiry
<1> HIDE DEF at
<1>3. [k EXCEPT !.cur = ev, !.next = "expire", !.at = at] \in Key
  BY <1>1 DEF Key, Events
<1> QED BY <1>1, <1>2, <1>3 DEF Key, at

(* A key that is set to expire, and is not the last one or is active.      *)
LEMMA PrepareExpireOK ==
    ASSUME NEW k \in Key, NEW n \in Nat, NEW t \in Nat, KeyOK(k, n, t),
           ~k.dead => k.active \/ k.gen # n - 1
    PROVE  LET r == PrepareExpire(k, t) IN
           /\ r \in Key /\ KeyOK(r, n, t) /\ r.gen = k.gen /\ r.dead = k.dead
           /\ r.next = "expire" /\ r.cur = "none"
<1>1. "none" \in Events
  BY DEF Events
<1> DEFINE r == PrepareExpire(k, t)
<1>2. /\ r \in Key /\ r.dead = k.dead /\ r.gen = k.gen /\ r.born = k.born
      /\ r.active = k.active /\ r.fired = k.fired /\ r.queued = k.queued
      /\ r.cur = "none" /\ r.next = "expire"
      /\ r.at = IF k.fired THEN t + 2 * HandshakeWindow ELSE k.born + Expire
  BY <1>1, PreparedFacts DEF PrepareExpire
<1> HIDE DEF r
<1>3. KeyOK(r, n, t)
  BY <1>2, ConstFacts, KeyFacts DEF KeyOK, LiveKey
<1> QED BY <1>2, <1>3 DEF r

(* A well scheduled key has a next event already. *)
LEMMA NextIfUnspecifiedSame ==
    ASSUME NEW k \in Key, NEW t, ~k.dead => k.next # "none"
    PROVE  NextIfUnspecified(k, t) = k
BY DEF NextIfUnspecified

(* The current event is taken from a key. *)
LEMMA TakenFacts ==
    ASSUME NEW k \in Key
    PROVE  LET c == [k EXCEPT !.cur = "none"] IN
           /\ c \in Key /\ c.gen = k.gen /\ c.dead = k.dead /\ c.next = k.next
           /\ c.at = k.at /\ c.born = k.born /\ c.active = k.active
           /\ c.fired = k.fired /\ c.queued = k.queued /\ c.cur = "none"
BY DEF Key, Events

(* event_pending when nothing is due: the key is as it was. *)
LEMMA PolledSame ==
    ASSUME NEW k \in Key, NEW t \in Nat,
           k.cur # "none" \/ t < k.at
    PROVE  Polled(k, t) = k
BY KeyFacts DEF Polled

(* The outcomes of event_pending: no event, and then the key is settled;   *)
(* an event that was there; or the next event, which was due.              *)
Outcome(k, r, n, t) ==
    /\ r \in Key /\ r.gen = k.gen
    /\ KeyOK([r EXCEPT !.cur = "none"], n, t)
    /\ \/ /\ r.cur = "none" /\ KeyOK(r, n, t) /\ Settled(r, t)
          /\ r.dead = k.dead /\ (r.next = "expire" <=> k.next = "expire")
       \/ r.cur \in {"active", "queue"} /\ r = k
       \/ /\ r.cur = "become_primary" /\ k.next = "become_primary" /\ k.cur = "none"
          /\ ~k.dead /\ ~r.dead /\ r.next = "renegotiate"
       \/ /\ r.cur = "renegotiate" /\ k.next = "renegotiate" /\ k.cur = "none"
          /\ ~k.dead /\ ~r.dead /\ r.next = "expire"
       \/ /\ r.cur \in {"negotiate", "primary_pending"} /\ k.next = r.cur
          /\ k.cur = "none" /\ ~k.dead /\ r.dead /\ r.next = "none"
       \/ /\ r.cur = "expire" /\ k.next = "expire" /\ t >= k.at
          /\ k.cur = "none" /\ r.dead

LEMMA PolledOutcome ==
    ASSUME NEW k \in Key, NEW n \in Nat, NEW t \in Nat, KeyOK(k, n, t)
    PROVE  Outcome(k, Polled(k, t), n, t)
<1> DEFINE r == Polled(k, t)
           c == [r EXCEPT !.cur = "none"]
<1>0. k.next \in {"none", "negotiate", "become_primary", "primary_pending",
                  "renegotiate", "expire"}
  BY DEF KeyOK, LiveKey
<1>1. CASE k.cur # "none" \/ t < k.at
  <2>1. r = k
    BY <1>1, PolledSame
  <2> HIDE DEF r
  <2>2. KeyOK(c, n, t)
    BY <2>1, TakenFacts DEF KeyOK, LiveKey
  <2> QED BY <2>1, <2>2, <1>1, KeyFacts DEF Outcome, r, KeyOK, Settled
<1>2. CASE k.cur = "none" /\ t >= k.at
  <2>0. r = NextEvent(k, t)
    BY <1>2 DEF Polled
  <2> HIDE DEF r
  <2>1. CASE k.next = "none"
    <3>1. r = k
      BY <2>0, <2>1 DEF NextEvent
    <3>2. k.dead
      BY <2>1 DEF KeyOK, LiveKey
    <3>3. KeyOK(c, n, t)
      BY <3>1, <3>2, TakenFacts DEF KeyOK
    <3> QED BY <3>1, <3>2, <3>3, <1>2 DEF Outcome, Settled, r
  <2>2. CASE k.next = "become_primary" /\ Deferred(k)
    <3>1. r = [k EXCEPT !.next = "primary_pending", !.at = t + 2 * HandshakeWindow]
      BY <2>0, <2>2 DEF NextEvent
    <3>2. t + 2 * HandshakeWindow \in Int /\ t < t + 2 * HandshakeWindow
      BY ConstFacts
    <3>3. /\ r \in Key /\ r.next = "primary_pending" /\ r.cur = "none"
          /\ r.dead = k.dead /\ r.gen = k.gen /\ r.active = k.active
          /\ r.fired = k.fired /\ r.queued = k.queued /\ t < r.at
      BY <3>1, <3>2, <1>2 DEF Key, Events
    <3>4. ~k.dead
      BY <2>2 DEF KeyOK
    <3>5. KeyOK(r, n, t)
      BY <3>3, <3>4, <2>2 DEF KeyOK, LiveKey
    <3>6. KeyOK(c, n, t)
      BY <3>3, <3>5, TakenFacts DEF KeyOK, LiveKey
    <3> QED BY <3>3, <3>5, <3>6, <2>2 DEF Outcome, Settled, r
  <2>3. CASE k.next = "become_primary" /\ ~Deferred(k)
    <3>1. r = [k EXCEPT !.cur = "become_primary", !.next = "renegotiate",
                        !.at = k.born + Renegotiate]
      BY <2>0, <2>3 DEF NextEvent
    <3>2. k.born + Renegotiate \in Int /\ k.born + Renegotiate =< k.born + Expire
      BY ConstFacts, KeyFacts
    <3>3. /\ r \in Key /\ r.next = "renegotiate" /\ r.cur = "become_primary"
          /\ r.dead = k.dead /\ r.gen = k.gen /\ r.active = k.active
          /\ r.fired = k.fired /\ r.queued = k.queued /\ r.born = k.born
          /\ r.at = k.born + Renegotiate
      BY <3>1, <3>2, <1>2 DEF Key, Events
    <3>4. ~k.dead
      BY <2>3 DEF KeyOK
    <3>5. KeyOK(c, n, t)
      BY <3>2, <3>3, <3>4, <2>3, TakenFacts DEF KeyOK, LiveKey
    <3> QED BY <3>3, <3>4, <3>5, <2>3, <1>2 DEF Outcome, r
  <2>4. CASE k.next = "renegotiate"
    <3>1. r = Prepared(k, "renegotiate", t)
      BY <2>0, <2>4 DEF NextEvent
    <3>2. "renegotiate" \in Events
      BY DEF Events
    <3>3. /\ r \in Key /\ r.dead = k.dead /\ r.gen = k.gen /\ r.born = k.born
          /\ r.active = k.active /\ r.fired = k.fired /\ r.queued = k.queued
          /\ r.cur = "renegotiate" /\ r.next = "expire"
          /\ r.at = IF k.fired THEN t + 2 * HandshakeWindow ELSE k.born + Expire
      BY <3>1, <3>2, PreparedFacts
    <3>4. ~k.dead
      BY <2>4 DEF KeyOK
    <3>5. KeyOK(c, n, t)
      BY <3>3, <3>4, <2>4, TakenFacts, KeyFacts, ConstFacts DEF KeyOK, LiveKey
    <3> QED BY <3>3, <3>4, <3>5, <2>4, <1>2 DEF Outcome, r
  <2>5. CASE k.next \in {"negotiate", "primary_pending", "expire"}
    <3>1. r = [Invalidated(k) EXCEPT !.cur = k.next]
      BY <2>0, <2>5 DEF NextEvent, KevError
    <3>2. /\ r \in Key /\ r.dead /\ r.gen = k.gen /\ r.cur = k.next
          /\ r.next = IF k.dead THEN k.next ELSE "none"
      BY <3>1, InvalidatedFacts, KeyFacts DEF Key
    <3>3. KeyOK(c, n, t)
      BY <3>2, TakenFacts DEF KeyOK
    <3>4. k.next # "expire" => ~k.dead
      BY <2>5 DEF KeyOK
    <3> QED BY <3>2, <3>3, <3>4, <2>5, <1>2 DEF Outcome, r
  <2> QED BY <1>0, <2>1, <2>2, <2>3, <2>4, <2>5
<1> QED BY <1>1, <1>2, KeyFacts

(* active() schedules the promotion within the key's life. *)
LEMMA ActivatedFacts ==
    ASSUME NEW k \in Key, NEW n \in Nat, NEW t \in Nat, NEW u \in Nat,
           KeyOK(k, n, t), Settled(k, t), t =< u, u =< t + MaxLate,
           ~k.dead, ~k.active, k.gen = n - 1
    PROVE  LET r == Activated(k, u) IN
           /\ r \in Key /\ KeyOK(r, n, u) /\ r.gen = k.gen /\ ~r.dead
           /\ r.next = "become_primary"
<1> DEFINE r == Activated(k, u)
<1>1. u + BecomePrimary \in Int
  BY ConstFacts
<1>2. /\ r \in Key /\ r.gen = k.gen /\ r.dead = FALSE /\ r.active = TRUE
      /\ r.cur = "active" /\ r.next = "become_primary" /\ r.at = u + BecomePrimary
      /\ r.born = k.born /\ r.fired = k.fired /\ r.queued = k.queued
  BY <1>1, KeyFacts DEF Activated, Key, Events
<1>3. k.next = "negotiate" /\ k.at =< k.born + HandshakeWindow /\ t < k.at /\ ~k.fired
  BY DEF KeyOK, LiveKey, Settled
<1>4. r.at =< k.born + Expire
  BY <1>2, <1>3, ConstFacts, KeyFacts
<1> HIDE DEF r
<1>5. KeyOK(r, n, u)
  BY <1>2, <1>3, <1>4 DEF KeyOK, LiveKey
<1> QED BY <1>2, <1>5 DEF r

(* schedule_key_limit_renegotiation. *)
LEMMA ScheduledFacts ==
    ASSUME NEW k \in Key, NEW n \in Nat, NEW t \in Nat,
           KeyOK(k, n, t), ~k.dead, k.active
    PROVE  LET r == Scheduled(k, t) IN
           /\ r \in Key /\ KeyOK(r, n, t) /\ r.gen = k.gen /\ ~r.dead
           /\ r.next # "expire"
<1> DEFINE r == Scheduled(k, t)
<1>1. CASE k.next = "become_primary"
  <2>1. r = [k EXCEPT !.fired = TRUE, !.cur = "queue", !.queued = TRUE]
    BY <1>1 DEF Scheduled
  <2> HIDE DEF r
  <2>2. /\ r \in Key /\ r.gen = k.gen /\ r.dead = FALSE /\ r.active = TRUE
        /\ r.cur = "queue" /\ r.next = "become_primary" /\ r.fired = TRUE /\ r.queued = TRUE
    BY <2>1, <1>1 DEF Key, Events
  <2>3. KeyOK(r, n, t)
    BY <2>2 DEF KeyOK, LiveKey
  <2> QED BY <2>2, <2>3 DEF r
<1>2. CASE k.next # "become_primary"
  <2>1. r = [[k EXCEPT !.fired = TRUE]
               EXCEPT !.cur = "none", !.next = "renegotiate", !.at = t + LimitDelay]
    BY <1>2 DEF Scheduled, LimitReneg
  <2> HIDE DEF r
  <2>2. t + LimitDelay \in Int
    BY ConstFacts
  <2>3. /\ r \in Key /\ r.gen = k.gen /\ r.dead = FALSE /\ r.active = TRUE
        /\ r.cur = "none" /\ r.next = "renegotiate" /\ r.fired = TRUE
        /\ r.at = t + LimitDelay
    BY <2>1, <2>2 DEF Key, Events
  <2>4. KeyOK(r, n, t)
    BY <2>2, <2>3 DEF KeyOK, LiveKey
  <2> QED BY <2>3, <2>4 DEF r
<1> QED BY <1>1, <1>2

(* What a callback does before its input. *)
LEMMA CallbackFacts ==
    ASSUME ScheduleInv, NEW d \in 0 .. MaxLate, NEW timed \in BOOLEAN, Callback(d, timed)
    PROVE  /\ now' \in Nat /\ now =< now' /\ now' =< now + MaxLate
           /\ now \in Nat /\ keys \in Nat
           /\ phase = "idle" /\ phase' = "primary" /\ work' = FALSE /\ bs64' = bs64
           /\ timer' \in BOOLEAN
           /\ primary \in Key /\ secondary \in Key
           /\ Settled(primary, now) /\ Settled(secondary, now)
           /\ KeyOK(primary, keys, now') /\ KeyOK(secondary, keys, now')
BY ConstFacts, KeyOKLater DEF Callback, ScheduleInv, TypeOK, Flushing

(* The state after an input, from what is so of its keys. *)
LEMMA AfterInput ==
    ASSUME ScheduleInv, NEW d \in 0 .. MaxLate, NEW timed \in BOOLEAN, Callback(d, timed),
           primary' \in Key, secondary' \in Key,
           upcoming' \in 0 .. KeyIdMask, keys' \in Nat,
           KeyOK(primary', keys', now'), KeyOK(secondary', keys', now'),
           primary'.gen >= 0, primary'.gen # secondary'.gen,
           Retiring(primary', secondary')
    PROVE  ScheduleInv'
BY CallbackFacts DEF ScheduleInv, TypeOK, Flushing

LEMMA InitInv == Init => ScheduleInv
<1> SUFFICES ASSUME Init PROVE ScheduleInv
  OBVIOUS
<1>1. 0 \in 0 .. KeyIdMask /\ 0 \in Nat
  BY ConstFacts
<1>2. /\ primary \in Key /\ ~primary.dead /\ primary.gen = 0
      /\ KeyOK(primary, 1, 0) /\ Settled(primary, 0)
  BY <1>1, NewKeyFacts DEF Init
<1>3. upcoming \in 0 .. KeyIdMask
  BY <1>1, NextIdFacts DEF Init
<1>4. KeyOK(secondary, 1, 0) /\ Settled(secondary, 0) /\ Retiring(primary, secondary)
  BY NoKeyFacts DEF Init, KeyOK, Settled, Retiring
<1>5. TypeOK
  BY <1>2, <1>3, NoKeyFacts DEF Init, TypeOK
<1>6. primary.gen >= 0 /\ primary.gen # secondary.gen
  BY <1>2, NoKeyFacts DEF Init
<1> QED BY <1>2, <1>4, <1>5, <1>6 DEF Init, ScheduleInv

(* A callback that does nothing to the keys. *)
LEMMA QuietInv ==
    ASSUME ScheduleInv, NEW d \in 0 .. MaxLate, Housekeeping(d) \/ Traffic(d)
    PROVE  ScheduleInv'
<1> PICK timed \in BOOLEAN :
      Callback(d, timed) /\ UNCHANGED <<primary, secondary, upcoming, keys>>
  BY DEF Housekeeping, Traffic
<1>1. Callback(d, timed) /\ UNCHANGED <<primary, secondary, upcoming, keys>>
  OBVIOUS
<1> QED BY <1>1, CallbackFacts, AfterInput DEF ScheduleInv, TypeOK

LEMMA ActivePrimaryInv ==
    ASSUME ScheduleInv, NEW d \in 0 .. MaxLate, ActivePrimary(d)
    PROVE  ScheduleInv'
<1>1. Callback(d, FALSE) /\ primary' = Activated(primary, now') /\ UNCHANGED <<secondary, upcoming, keys>>
  BY DEF ActivePrimary
<1>2. ~primary.dead /\ ~primary.active /\ primary.gen = keys - 1
  BY DEF ActivePrimary, Negotiating
<1>3. /\ primary' \in Key /\ KeyOK(primary', keys, now') /\ primary'.gen = primary.gen
      /\ primary'.next = "become_primary"
  <2>1. KeyOK(primary, keys, now)
    BY DEF ScheduleInv
  <2>2. /\ now \in Nat /\ now' \in Nat /\ keys \in Nat /\ now =< now' /\ now' =< now + MaxLate
        /\ primary \in Key /\ Settled(primary, now)
    BY <1>1, CallbackFacts
  <2> QED BY <1>1, <1>2, <2>1, <2>2, ActivatedFacts
<1>4. Retiring(primary', secondary)
  BY <1>3 DEF ScheduleInv, Retiring
<1> QED BY <1>1, <1>3, <1>4, CallbackFacts, AfterInput DEF ScheduleInv, TypeOK

LEMMA ActiveSecondaryInv ==
    ASSUME ScheduleInv, NEW d \in 0 .. MaxLate, ActiveSecondary(d)
    PROVE  ScheduleInv'
<1>1. Callback(d, FALSE) /\ secondary' = Activated(secondary, now') /\ UNCHANGED <<primary, upcoming, keys>>
  BY DEF ActiveSecondary
<1>2. ~secondary.dead /\ ~secondary.active /\ secondary.gen = keys - 1
  BY DEF ActiveSecondary, Negotiating
<1>3. /\ secondary' \in Key /\ KeyOK(secondary', keys, now') /\ secondary'.gen = secondary.gen
  BY <1>1, <1>2, CallbackFacts, ActivatedFacts DEF ScheduleInv
<1>4. secondary'.gen > primary.gen
  <2>1. primary \in Key /\ keys \in Nat
    BY <1>1, CallbackFacts
  <2>2. primary.gen < keys /\ primary.gen # secondary.gen
    BY DEF ScheduleInv, KeyOK
  <2> QED BY <1>2, <1>3, <2>1, <2>2, KeyFacts
<1>5. Retiring(primary, secondary')
  <2>1. primary.gen \in Int /\ secondary'.gen \in Int
    BY <1>1, <1>3, CallbackFacts, KeyFacts
  <2> QED BY <1>4, <2>1 DEF Retiring
<1> QED BY <1>1, <1>3, <1>5, CallbackFacts, AfterInput DEF ScheduleInv, TypeOK

(* A new secondary is newer than the primary. *)
LEMMA NewSecondaryFacts ==
    ASSUME NEW t \in Nat, NewSecondary(t), keys \in Nat, upcoming \in 0 .. KeyIdMask,
           NEW p \in Key, p.gen < keys
    PROVE  /\ secondary' \in Key /\ upcoming' \in 0 .. KeyIdMask /\ keys' \in Nat
           /\ keys =< keys' /\ KeyOK(secondary', keys', t) /\ secondary'.gen = keys
           /\ p.gen # secondary'.gen /\ Retiring(p, secondary')
<1>1. /\ secondary' = NewKey(upcoming, keys, t) /\ upcoming' = NextId(upcoming)
      /\ keys' = keys + 1
  BY DEF NewSecondary
<1>2. /\ secondary' \in Key /\ secondary'.gen = keys /\ KeyOK(secondary', keys + 1, t)
  BY <1>1, NewKeyFacts
<1> QED BY <1>1, <1>2, NextIdFacts, KeyFacts DEF Retiring

LEMMA SoftResetInv ==
    ASSUME ScheduleInv, NEW d \in 0 .. MaxLate, SoftReset(d)
    PROVE  ScheduleInv'
<1>1. Callback(d, FALSE) /\ NewSecondary(now') /\ UNCHANGED primary
  BY DEF SoftReset
<1>2. upcoming \in 0 .. KeyIdMask /\ primary.gen < keys
  BY DEF ScheduleInv, TypeOK, KeyOK
<1>3. /\ secondary' \in Key /\ upcoming' \in 0 .. KeyIdMask /\ keys' \in Nat
      /\ keys =< keys' /\ KeyOK(secondary', keys', now')
      /\ primary.gen # secondary'.gen /\ Retiring(primary, secondary')
  BY <1>1, <1>2, CallbackFacts, NewSecondaryFacts
<1>4. KeyOK(primary, keys', now')
  <2>1. primary \in Key /\ keys \in Nat /\ now' \in Nat /\ KeyOK(primary, keys, now')
    BY <1>1, CallbackFacts
  <2> QED BY <1>3, <2>1, KeyOKLater
<1> QED BY <1>1, <1>3, <1>4, CallbackFacts, AfterInput DEF ScheduleInv

LEMMA KeyLimitInv ==
    ASSUME ScheduleInv, NEW d \in 0 .. MaxLate, KeyLimit(d)
    PROVE  ScheduleInv'
<1>1. /\ Callback(d, FALSE) /\ primary' = Scheduled(primary, now')
      /\ UNCHANGED <<secondary, upcoming, keys>> /\ primary.active /\ ~primary.dead
  BY DEF KeyLimit
<1>2. /\ primary' \in Key /\ KeyOK(primary', keys, now') /\ primary'.gen = primary.gen
      /\ primary'.next # "expire"
  BY <1>1, CallbackFacts, ScheduledFacts
<1>3. Retiring(primary', secondary)
  BY <1>2 DEF ScheduleInv, Retiring
<1> QED BY <1>1, <1>2, <1>3, CallbackFacts, AfterInput DEF ScheduleInv, TypeOK

LEMMA ErrorPrimaryInv ==
    ASSUME ScheduleInv, NEW d \in 0 .. MaxLate, ErrorPrimary(d)
    PROVE  ScheduleInv'
<1>1. /\ Callback(d, FALSE) /\ primary' = Invalidated(primary) /\ ~primary.dead
      /\ UNCHANGED <<secondary, upcoming, keys>>
  BY DEF ErrorPrimary
<1>2. /\ primary' \in Key /\ KeyOK(primary', keys, now') /\ primary'.gen = primary.gen
      /\ primary'.next = "none"
  BY <1>1, CallbackFacts, InvalidatedFacts, InvalidatedOK
<1>3. Retiring(primary', secondary)
  BY <1>2 DEF ScheduleInv, Retiring
<1> QED BY <1>1, <1>2, <1>3, CallbackFacts, AfterInput DEF ScheduleInv, TypeOK

LEMMA ErrorSecondaryInv ==
    ASSUME ScheduleInv, NEW d \in 0 .. MaxLate, ErrorSecondary(d)
    PROVE  ScheduleInv'
<1>1. /\ Callback(d, FALSE) /\ secondary' = Invalidated(secondary)
      /\ UNCHANGED <<primary, upcoming, keys>>
  BY DEF ErrorSecondary
<1>2. /\ secondary' \in Key /\ KeyOK(secondary', keys, now')
      /\ secondary'.gen = secondary.gen /\ secondary'.dead /\ secondary'.cur = secondary.cur
  BY <1>1, CallbackFacts, InvalidatedFacts, InvalidatedOK
<1>3. Retiring(primary, secondary')
  BY <1>2 DEF ScheduleInv, Retiring
<1> QED BY <1>1, <1>2, <1>3, CallbackFacts, AfterInput DEF ScheduleInv, TypeOK

(* The end of housekeeping. *)
LEMMA KeepaliveInv ==
    ASSUME ScheduleInv, Keepalive
    PROVE  /\ ScheduleInv'
           /\ primary'.gen = primary.gen /\ secondary'.gen = secondary.gen
<1>0. /\ phase = "keepalive" /\ phase' \in {"idle", "over"} /\ timer' = FALSE
      /\ UNCHANGED <<now, bs64, upcoming, keys, work>>
      /\ KeepaliveExpired \/ UNCHANGED <<primary, secondary>>
  BY DEF Keepalive, AfterHousekeeping
<1>2. /\ primary \in Key /\ secondary \in Key /\ keys \in Nat /\ now \in Nat
      /\ KeyOK(primary, keys, now) /\ Settled(primary, now)
      /\ KeyOK(secondary, keys, now) /\ Settled(secondary, now)
  BY <1>0 DEF ScheduleInv, TypeOK, Flushing
<1>3. /\ primary' \in Key /\ primary'.gen = primary.gen
      /\ secondary' \in Key /\ secondary'.gen = secondary.gen
      /\ secondary'.cur = secondary.cur
      /\ secondary'.dead \/ UNCHANGED <<primary, secondary>>
      /\ KeyOK(primary', keys, now) /\ Settled(primary', now)
      /\ KeyOK(secondary', keys, now) /\ Settled(secondary', now)
  BY <1>0, <1>2, InvalidatedFacts, InvalidatedOK DEF KeepaliveExpired
<1>4. Retiring(primary', secondary')
  BY <1>3 DEF ScheduleInv, Retiring
<1> QED BY <1>0, <1>3, <1>4 DEF ScheduleInv, TypeOK, Flushing

(* The state after a turn of the flush, from what is so of its keys. *)
LEMMA AfterTurn ==
    ASSUME ScheduleInv, UNCHANGED <<now, bs64, timer>>, work' \in BOOLEAN,
           phase' \in {"idle", "primary", "secondary", "keepalive"},
           primary' \in Key, secondary' \in Key,
           upcoming' \in 0 .. KeyIdMask, keys' \in Nat,
           KeyOK(primary', keys', now), KeyOK(secondary', keys', now),
           primary'.gen >= 0, primary'.gen # secondary'.gen,
           ~Flushing' => Settled(primary', now) /\ Settled(secondary', now),
           phase' = "secondary" /\ ~work' => Settled(primary', now),
           Retiring(primary', secondary')
    PROVE  ScheduleInv'
BY DEF ScheduleInv, TypeOK, Flushing

(* The facts of a state that a turn starts from. *)
LEMMA TurnFacts ==
    ASSUME ScheduleInv
    PROVE  /\ now \in Nat /\ keys \in Nat /\ upcoming \in 0 .. KeyIdMask
           /\ work \in BOOLEAN /\ timer \in BOOLEAN
           /\ primary \in Key /\ secondary \in Key
           /\ KeyOK(primary, keys, now) /\ KeyOK(secondary, keys, now)
           /\ primary.gen \in Int /\ secondary.gen \in Int
           /\ primary.gen >= 0 /\ primary.gen # secondary.gen
           /\ primary.gen < keys /\ secondary.gen < keys
           /\ Retiring(primary, secondary)
           /\ Outcome(primary, Polled(primary, now), keys, now)
           /\ Outcome(secondary, Polled(secondary, now), keys, now)
BY KeyFacts, PolledOutcome DEF ScheduleInv, TypeOK, KeyOK

(* The turn of the primary.  What it leaves, for the invariant and for the *)
(* action properties: the primary is as new as before, and a live key goes *)
(* only when a new one is made.                                            *)
LEMMA TurnPrimaryFacts ==
    ASSUME ScheduleInv, TurnPrimary
    PROVE  /\ ScheduleInv'
           /\ primary'.gen >= primary.gen
           /\ \/ keys' = keys + 1 /\ primary'.gen = primary.gen
              \/ {primary'.gen, secondary'.gen} = {primary.gen, secondary.gen}
<1> DEFINE r == Polled(primary, now)
           c == [r EXCEPT !.cur = "none"]
<1>0. Outcome(primary, r, keys, now)
  BY TurnFacts
<1>1. /\ phase' = "secondary" /\ UNCHANGED <<now, bs64, timer>> /\ Flushing'
      /\ \/ r.cur # "none" /\ work' = TRUE /\ PrimaryEvent(c, r.cur)
         \/ r.cur = "none" /\ primary' = r /\ UNCHANGED <<secondary, upcoming, keys, work>>
  BY DEF TurnPrimary, Flushing
<1> HIDE DEF r
<1>2. /\ r \in Key /\ r.gen = primary.gen /\ KeyOK(c, keys, now)
      /\ c \in Key /\ c.gen = primary.gen /\ c.dead = r.dead /\ c.next = r.next
      /\ c.cur = "none"
  BY <1>0, TakenFacts DEF Outcome
<1> HIDE DEF c
<1>3. ~c.dead => c.next # "none"
  BY <1>2 DEF KeyOK, LiveKey
<1>4. NextIfUnspecified(c, now) = c
  BY <1>2, <1>3, NextIfUnspecifiedSame
<1>5. CASE r.cur = "none" /\ primary' = r /\ UNCHANGED <<secondary, upcoming, keys, work>>
  <2>1. KeyOK(r, keys, now) /\ Settled(r, now) /\ (r.next = "expire" <=> primary.next = "expire")
    BY <1>5, <1>0 DEF Outcome
  <2>2. Retiring(primary', secondary')
    BY <1>2, <1>5, <2>1, TurnFacts DEF Retiring
  <2> QED BY <1>1, <1>2, <1>5, <2>1, <2>2, TurnFacts, AfterTurn
<1>6. CASE work' = TRUE /\ r.cur \in {"renegotiate", "force"} /\ primary' = c /\ NewSecondary(now)
  <2>1. /\ secondary' \in Key /\ upcoming' \in 0 .. KeyIdMask /\ keys' \in Nat
        /\ keys =< keys' /\ KeyOK(secondary', keys', now)
        /\ c.gen # secondary'.gen /\ Retiring(c, secondary')
    BY <1>2, <1>6, TurnFacts, NewSecondaryFacts
  <2>2. KeyOK(c, keys', now)
    BY <1>2, <2>1, TurnFacts, KeyOKLater
  <2>3. keys' = keys + 1
    BY <1>6 DEF NewSecondary
  <2> QED BY <1>1, <1>2, <1>6, <2>1, <2>2, <2>3, TurnFacts, AfterTurn
<1>7. CASE work' = TRUE /\ r.cur = "expire" /\ ~secondary.dead /\ UNCHANGED <<upcoming, keys>>
           /\ Promote(c, NextIfUnspecified(secondary, now))
  <2>1. r.dead /\ primary.next = "expire"
    BY <1>0, <1>7 DEF Outcome
  <2>2. secondary.gen > primary.gen
    BY <1>7, <2>1, TurnFacts DEF Retiring
  <2>3. secondary.next # "none"
    BY <1>7, TurnFacts DEF KeyOK, LiveKey
  <2>4. primary' = secondary /\ secondary' = PrepareExpire(c, now)
    BY <1>7, <2>3, TurnFacts, NextIfUnspecifiedSame DEF Promote
  <2>5. /\ secondary' \in Key /\ KeyOK(secondary', keys, now) /\ secondary'.gen = primary.gen
        /\ secondary'.dead /\ secondary'.cur = "none"
    BY <1>2, <2>1, <2>4, TurnFacts, PrepareExpireOK
  <2>6. Retiring(primary', secondary')
    BY <2>5 DEF Retiring
  <2> QED BY <1>1, <1>7, <2>2, <2>4, <2>5, <2>6, TurnFacts, AfterTurn
<1>8. CASE /\ work' = TRUE /\ primary' = Invalidated(c) /\ secondary' = Invalidated(secondary)
           /\ UNCHANGED <<upcoming, keys>>
  <2>1. /\ primary' \in Key /\ KeyOK(primary', keys, now) /\ primary'.gen = primary.gen
    BY <1>2, <1>8, TurnFacts, InvalidatedFacts, InvalidatedOK
  <2>2. /\ secondary' \in Key /\ KeyOK(secondary', keys, now)
        /\ secondary'.gen = secondary.gen /\ secondary'.dead /\ secondary'.cur = secondary.cur
    BY <1>8, TurnFacts, InvalidatedFacts, InvalidatedOK
  <2>3. Retiring(primary', secondary')
    BY <2>1, <2>2, TurnFacts DEF Retiring
  <2> QED BY <1>1, <1>8, <2>1, <2>2, <2>3, TurnFacts, AfterTurn
<1>9. CASE /\ work' = TRUE
           /\ r.cur \in {"active", "become_primary", "primary_pending", "queue"}
           /\ primary' = c /\ UNCHANGED <<secondary, upcoming, keys>>
  <2>1. c.next = "expire" => primary.next = "expire"
    BY <1>0, <1>2, <1>9 DEF Outcome
  <2>2. Retiring(primary', secondary')
    BY <1>2, <1>9, <2>1, TurnFacts DEF Retiring
  <2> QED BY <1>1, <1>2, <1>9, <2>2, TurnFacts, AfterTurn
<1>10. CASE r.cur # "none" /\ work' = TRUE /\ PrimaryEvent(c, r.cur)
  BY <1>4, <1>6, <1>7, <1>8, <1>9, <1>10 DEF PrimaryEvent, ExpiredPrimary
<1> QED BY <1>1, <1>5, <1>10

(* The turn of the secondary, likewise; here a key may also come to its    *)
(* end.                                                                    *)
LEMMA TurnSecondaryFacts ==
    ASSUME ScheduleInv, TurnSecondary
    PROVE  /\ ScheduleInv'
           /\ primary'.gen >= primary.gen
           /\ \/ keys' = keys + 1
              \/ {primary'.gen, secondary'.gen} = {primary.gen, secondary.gen}
              \/ primary' = primary /\ secondary.next = "expire" /\ now >= secondary.at
<1> DEFINE r == Polled(secondary, now)
           c == [r EXCEPT !.cur = "none"]
<1>0. Outcome(secondary, r, keys, now)
  BY TurnFacts
<1>1. /\ UNCHANGED <<now, bs64, timer>> /\ work' = FALSE
      /\ phase' = "primary" => Flushing'
      /\ \/ r.cur # "none" /\ phase' = "primary" /\ SecondaryEvent(c, r.cur)
         \/ /\ r.cur = "none" /\ secondary' = r /\ UNCHANGED <<primary, upcoming, keys>>
            /\ phase' = IF work THEN "primary" ELSE IF timer THEN "keepalive" ELSE "idle"
  BY DEF TurnSecondary, Flushing
<1> HIDE DEF r
<1>2. /\ r \in Key /\ r.gen = secondary.gen /\ KeyOK(c, keys, now)
      /\ c \in Key /\ c.gen = secondary.gen /\ c.dead = r.dead /\ c.next = r.next
      /\ c.cur = "none"
  BY <1>0, TakenFacts DEF Outcome
<1> HIDE DEF c
<1>3. CASE /\ r.cur = "none" /\ secondary' = r /\ UNCHANGED <<primary, upcoming, keys>>
           /\ phase' = IF work THEN "primary" ELSE IF timer THEN "keepalive" ELSE "idle"
  <2>1. /\ KeyOK(r, keys, now) /\ Settled(r, now) /\ r.dead = secondary.dead
        /\ (r.next = "expire" <=> secondary.next = "expire")
    BY <1>0, <1>3 DEF Outcome
  <2>2. Retiring(primary', secondary')
    BY <1>2, <1>3, <2>1, TurnFacts DEF Retiring
  <2>3. ~work => Settled(primary, now)
    BY DEF ScheduleInv, TurnSecondary
  <2>9. ScheduleInv'
    BY <1>1, <1>2, <1>3, <2>1, <2>2, <2>3, TurnFacts, AfterTurn
  <2> QED BY <1>1, <1>2, <1>3, <2>1, <2>2, <2>3, <2>9, TurnFacts
<1>4. CASE phase' = "primary" /\ r.cur = "active" /\ NewActive(c) /\ UNCHANGED <<upcoming, keys>>
  <2>1. r = secondary
    BY <1>0, <1>4 DEF Outcome
  <2>2. /\ secondary.gen > primary.gen
        /\ ~c.dead => c.next # "none"
    BY <1>2, <1>4, <2>1, TurnFacts DEF KeyOK, LiveKey, Retiring
  <2>3. secondary' = c /\ primary' = PrepareExpire(primary, now)
    BY <1>2, <1>4, <2>2, NextIfUnspecifiedSame DEF NewActive
  <2>4. primary.gen # keys - 1
    BY <2>2, TurnFacts
  <2>5. primary' \in Key /\ KeyOK(primary', keys, now) /\ primary'.gen = primary.gen
    BY <2>3, <2>4, TurnFacts, PrepareExpireOK
  <2>6. Retiring(primary', secondary')
    BY <1>2, <2>2, <2>3, <2>5, TurnFacts DEF Retiring
  <2>9. ScheduleInv'
    BY <1>1, <1>2, <1>4, <2>3, <2>5, <2>6, TurnFacts, AfterTurn
  <2> QED BY <1>1, <1>2, <1>4, <2>3, <2>5, <2>6, <2>9, TurnFacts
<1>5. CASE /\ phase' = "primary" /\ r.cur = "become_primary" /\ Promote(primary, c)
           /\ UNCHANGED <<upcoming, keys>>
  <2>1. ~secondary.dead /\ secondary.next = "become_primary" /\ ~r.dead /\ r.next = "renegotiate"
    BY <1>0, <1>5 DEF Outcome
  <2>2. secondary.gen > primary.gen
    BY <2>1, TurnFacts DEF Retiring
  <2>3. primary' = c /\ secondary' = PrepareExpire(primary, now)
    BY <1>5 DEF Promote
  <2>4. primary.gen # keys - 1
    BY <2>2, TurnFacts
  <2>5. /\ secondary' \in Key /\ KeyOK(secondary', keys, now) /\ secondary'.gen = primary.gen
        /\ secondary'.next = "expire" /\ secondary'.cur = "none"
    BY <2>3, <2>4, TurnFacts, PrepareExpireOK
  <2>6. Retiring(primary', secondary')
    BY <1>2, <2>1, <2>3, <2>5 DEF Retiring
  <2>7. primary'.gen >= 0 /\ primary'.gen # secondary'.gen
    BY <1>2, <2>2, <2>3, <2>5, TurnFacts
  <2>8. primary' \in Key /\ KeyOK(primary', keys', now) /\ KeyOK(secondary', keys', now)
    BY <1>2, <1>5, <2>3, <2>5
  <2>9. ScheduleInv'
    BY <1>1, <1>5, <2>5, <2>6, <2>7, <2>8, TurnFacts, AfterTurn
  <2> QED BY <1>1, <1>2, <1>5, <2>2, <2>3, <2>5, <2>6, <2>9, TurnFacts
<1>6. CASE /\ phase' = "primary" /\ r.cur = "expire" /\ secondary' = NoKey
           /\ UNCHANGED <<primary, upcoming, keys>>
  <2>1. secondary.next = "expire" /\ now >= secondary.at
    BY <1>0, <1>6 DEF Outcome
  <2>2. KeyOK(NoKey, keys, now) /\ Retiring(primary, NoKey)
    BY NoKeyFacts, TurnFacts DEF KeyOK, Retiring
  <2>3. primary.gen # NoKey.gen
    BY NoKeyFacts, TurnFacts
  <2>9. ScheduleInv'
    BY <1>1, <1>6, <2>1, <2>2, <2>3, NoKeyFacts, TurnFacts, AfterTurn
  <2> QED BY <1>1, <1>6, <2>1, <2>2, <2>3, NoKeyFacts, <2>9, TurnFacts
<1>7. CASE phase' = "primary" /\ NewSecondary(now) /\ UNCHANGED primary
  <2>1. /\ secondary' \in Key /\ upcoming' \in 0 .. KeyIdMask /\ keys' \in Nat
        /\ keys =< keys' /\ KeyOK(secondary', keys', now)
        /\ primary.gen # secondary'.gen /\ Retiring(primary, secondary')
    BY <1>7, TurnFacts, NewSecondaryFacts
  <2>2. KeyOK(primary, keys', now)
    BY <2>1, TurnFacts, KeyOKLater
  <2>3. keys' = keys + 1
    BY <1>7 DEF NewSecondary
  <2>9. ScheduleInv'
    BY <1>1, <1>7, <2>1, <2>2, <2>3, TurnFacts, AfterTurn
  <2> QED BY <1>1, <1>7, <2>1, <2>2, <2>3, <2>9, TurnFacts
<1>8. CASE r.cur # "none" /\ phase' = "primary" /\ SecondaryEvent(c, r.cur)
  BY <1>4, <1>5, <1>6, <1>7, <1>8 DEF SecondaryEvent
<1> QED BY <1>1, <1>3, <1>8

(* An input leaves the order of the primary and every key where it is, or  *)
(* makes a new one.                                                        *)
LEMMA InputFacts ==
    ASSUME ScheduleInv, Input
    PROVE  /\ ScheduleInv'
           /\ primary'.gen = primary.gen
           /\ keys' = keys + 1 \/ secondary'.gen = secondary.gen
<1> PICK d \in 0 .. MaxLate :
        \/ Housekeeping(d) \/ Traffic(d) \/ ActivePrimary(d) \/ ActiveSecondary(d)
        \/ SoftReset(d) \/ KeyLimit(d) \/ ErrorPrimary(d) \/ ErrorSecondary(d)
  BY DEF Input
<1> USE DEF TypeOK
<1>1. CASE Housekeeping(d) \/ Traffic(d)
  BY <1>1, QuietInv DEF Housekeeping, Traffic
<1>2. CASE ActivePrimary(d)
  <2>1. primary' = Activated(primary, now') /\ UNCHANGED secondary /\ primary \in Key
    BY <1>2 DEF ActivePrimary, ScheduleInv
  <2>2. primary'.gen = primary.gen
    BY <2>1 DEF Activated, Key
  <2> QED BY <1>2, <2>1, <2>2, ActivePrimaryInv
<1>3. CASE ActiveSecondary(d)
  <2>1. secondary' = Activated(secondary, now') /\ UNCHANGED primary /\ secondary \in Key
    BY <1>3 DEF ActiveSecondary, ScheduleInv
  <2>2. secondary'.gen = secondary.gen
    BY <2>1 DEF Activated, Key
  <2> QED BY <1>3, <2>1, <2>2, ActiveSecondaryInv
<1>4. CASE SoftReset(d)
  BY <1>4, SoftResetInv DEF SoftReset, NewSecondary
<1>5. CASE KeyLimit(d)
  <2>1. primary' = Scheduled(primary, now') /\ UNCHANGED secondary /\ primary \in Key
    BY <1>5 DEF KeyLimit, ScheduleInv
  <2>2. primary'.gen = primary.gen
    BY <2>1 DEF Scheduled, LimitReneg, Key
  <2> QED BY <1>5, <2>1, <2>2, KeyLimitInv
<1>6. CASE ErrorPrimary(d)
  <2>1. primary' = Invalidated(primary) /\ UNCHANGED secondary /\ primary \in Key
    BY <1>6 DEF ErrorPrimary, ScheduleInv
  <2> QED BY <1>6, <2>1, InvalidatedFacts, ErrorPrimaryInv
<1>7. CASE ErrorSecondary(d)
  <2>1. secondary' = Invalidated(secondary) /\ UNCHANGED primary /\ secondary \in Key
    BY <1>7 DEF ErrorSecondary, ScheduleInv
  <2> QED BY <1>7, <2>1, InvalidatedFacts, ErrorSecondaryInv
<1> QED BY <1>1, <1>2, <1>3, <1>4, <1>5, <1>6, <1>7

(* Every step keeps the invariant, the order of the primary and the keys   *)
(* that are neither replaced nor at their end.                             *)
LEMMA StepFacts ==
    ASSUME ScheduleInv, [Next]_vars
    PROVE  /\ ScheduleInv'
           /\ primary'.gen >= primary.gen
           /\ \A k \in Slots :
                ~k.dead /\ k.gen \notin {primary'.gen, secondary'.gen} =>
                  keys' = keys + 1 \/ (k.next = "expire" /\ now >= k.at)
<1>0. primary.gen \in Int
  BY TurnFacts
<1>1. CASE Input
  BY <1>0, <1>1, InputFacts DEF Slots
<1>2. CASE Keepalive
  BY <1>0, <1>2, KeepaliveInv DEF Slots
<1>3. CASE TurnPrimary
  BY <1>3, TurnPrimaryFacts DEF Slots
<1>4. CASE TurnSecondary
  BY <1>4, TurnSecondaryFacts DEF Slots
<1>5. CASE UNCHANGED vars
  <2>1. ScheduleInv'
    BY <1>5 DEF vars, ScheduleInv, TypeOK, Flushing
  <2> QED BY <1>0, <1>5, <2>1 DEF vars, Slots
<1> QED BY <1>1, <1>2, <1>3, <1>4, <1>5 DEF Next

(* The keys and their schedules agree in every reachable state. *)
LEMMA ScheduleInvariant == Spec => []ScheduleInv
<1>1. ScheduleInv /\ [Next]_vars => ScheduleInv'
  BY StepFacts
<1> QED BY InitInv, <1>1, PTL DEF Spec

(* No method of a key context changes the key's id or its place. *)
SameKey(k, r) == r.id = k.id /\ r.gen = k.gen

LEMMA MethodsKeepKey ==
    ASSUME NEW k \in Key, NEW t
    PROVE  /\ SameKey(k, Invalidated(k)) /\ SameKey(k, PrepareExpire(k, t))
           /\ SameKey(k, NextIfUnspecified(k, t)) /\ SameKey(k, Activated(k, t))
           /\ SameKey(k, Scheduled(k, t)) /\ SameKey(k, [k EXCEPT !.cur = "none"])
BY DEF SameKey, Key, Invalidated, PrepareExpire, Prepared, NextIfUnspecified,
       Activated, Scheduled, LimitReneg

LEMMA PolledKeepsKey ==
    ASSUME NEW k \in Key, NEW t
    PROVE  SameKey(k, Polled(k, t)) /\ SameKey(k, [Polled(k, t) EXCEPT !.cur = "none"])
<1>1. k.next \in Events
  BY KeyFacts
<1>2. SameKey(k, NextEvent(k, t))
  <2>1. CASE k.next = "become_primary" /\ Deferred(k)
    BY <2>1 DEF NextEvent, SameKey, Key
  <2>2. CASE k.next = "become_primary" /\ ~Deferred(k)
    BY <2>2 DEF NextEvent, SameKey, Key
  <2>3. CASE k.next \in {"renegotiate", "force"}
    BY <2>3 DEF NextEvent, Prepared, SameKey, Key
  <2>4. CASE k.next \in {"negotiate", "primary_pending", "expire"}
    BY <2>4 DEF NextEvent, KevError, Invalidated, SameKey, Key
  <2>5. CASE k.next \in {"none", "active", "queue"}
    BY <2>5 DEF NextEvent, SameKey
  <2> QED BY <1>1, <2>1, <2>2, <2>3, <2>4, <2>5 DEF Events
<1>3. SameKey(k, Polled(k, t))
  BY <1>2 DEF Polled, SameKey
<1> QED BY <1>3 DEF SameKey

(* What a step does to the keys in the slots: they stay, or change places, *)
(* or the secondary's is emptied, or a new key takes the secondary slot.   *)
KeysStay ==
    /\ upcoming' = upcoming /\ keys' = keys
    /\ \/ SameKey(primary, primary') /\ SameKey(secondary, secondary')
       \/ SameKey(primary, secondary') /\ SameKey(secondary, primary')
       \/ SameKey(primary, primary') /\ secondary' = NoKey

KeyMade ==
    /\ SameKey(primary, primary')
    /\ secondary'.id = upcoming /\ secondary'.gen = keys
    /\ upcoming' = NextId(upcoming) /\ keys' = keys + 1

LEMMA SlotsStep ==
    ASSUME ScheduleInv, [Next]_vars
    PROVE  KeysStay \/ KeyMade
<1>0. primary \in Key /\ secondary \in Key /\ now \in Nat
  BY TurnFacts
<1>1. CASE Input
  <2> PICK d \in 0 .. MaxLate :
        \/ Housekeeping(d) \/ Traffic(d) \/ ActivePrimary(d) \/ ActiveSecondary(d)
        \/ SoftReset(d) \/ KeyLimit(d) \/ ErrorPrimary(d) \/ ErrorSecondary(d)
    BY <1>1 DEF Input
  <2>1. CASE Housekeeping(d) \/ Traffic(d)
    BY <2>1 DEF Housekeeping, Traffic, KeysStay, SameKey
  <2>2. CASE ActivePrimary(d)
    BY <1>0, <2>2, MethodsKeepKey DEF ActivePrimary, KeysStay, SameKey
  <2>3. CASE ActiveSecondary(d)
    BY <1>0, <2>3, MethodsKeepKey DEF ActiveSecondary, KeysStay, SameKey
  <2>4. CASE SoftReset(d)
    BY <2>4 DEF SoftReset, NewSecondary, NewKey, KeyMade, SameKey
  <2>5. CASE KeyLimit(d)
    BY <1>0, <2>5, MethodsKeepKey DEF KeyLimit, KeysStay, SameKey
  <2>6. CASE ErrorPrimary(d)
    BY <1>0, <2>6, MethodsKeepKey DEF ErrorPrimary, KeysStay, SameKey
  <2>7. CASE ErrorSecondary(d)
    BY <1>0, <2>7, MethodsKeepKey DEF ErrorSecondary, KeysStay, SameKey
  <2> QED BY <2>1, <2>2, <2>3, <2>4, <2>5, <2>6, <2>7
<1>2. CASE Keepalive
  BY <1>0, <1>2, MethodsKeepKey DEF Keepalive, KeepaliveExpired, KeysStay, SameKey
<1>3. CASE TurnPrimary
  <2> DEFINE r == Polled(primary, now)
             c == [r EXCEPT !.cur = "none"]
  <2>1. /\ \/ PrimaryEvent(c, r.cur)
           \/ primary' = r /\ UNCHANGED <<secondary, upcoming, keys>>
    BY <1>3 DEF TurnPrimary
  <2>2. r \in Key /\ c \in Key
    BY TurnFacts, TakenFacts DEF Outcome
  <2>3. SameKey(primary, r) /\ SameKey(primary, c)
    BY <1>0, PolledKeepsKey
  <2> HIDE DEF r, c
  <2>4. /\ SameKey(primary, NextIfUnspecified(c, now)) /\ SameKey(primary, Invalidated(c))
        /\ SameKey(primary, PrepareExpire(c, now))
    BY <2>2, <2>3, MethodsKeepKey DEF SameKey
  <2>5. /\ SameKey(secondary, NextIfUnspecified(secondary, now))
        /\ SameKey(secondary, Invalidated(secondary))
    BY <1>0, MethodsKeepKey
  <2>6. CASE primary' = r /\ UNCHANGED <<secondary, upcoming, keys>>
    BY <2>3, <2>6 DEF KeysStay, SameKey
  <2>7. CASE primary' = NextIfUnspecified(c, now) /\ NewSecondary(now)
    BY <2>4, <2>7 DEF NewSecondary, NewKey, KeyMade
  <2>8. CASE PrimaryEvent(c, r.cur) /\ UNCHANGED <<upcoming, keys>>
    <3>1. \/ Promote(c, NextIfUnspecified(secondary, now))
          \/ primary' = Invalidated(c) /\ secondary' = Invalidated(secondary)
          \/ primary' = NextIfUnspecified(c, now) /\ UNCHANGED secondary
          \/ primary' = NextIfUnspecified(c, now) /\ NewSecondary(now)
      BY <2>8 DEF PrimaryEvent, ExpiredPrimary
    <3>2. CASE Promote(c, NextIfUnspecified(secondary, now))
      BY <2>4, <2>5, <2>8, <3>2 DEF Promote, KeysStay
    <3>3. CASE primary' = Invalidated(c) /\ secondary' = Invalidated(secondary)
      BY <2>4, <2>5, <2>8, <3>3 DEF KeysStay
    <3>4. CASE primary' = NextIfUnspecified(c, now) /\ UNCHANGED secondary
      BY <2>4, <2>8, <3>4 DEF KeysStay, SameKey
    <3> QED BY <2>7, <3>1, <3>2, <3>3, <3>4
  <2> QED BY <2>1, <2>6, <2>7, <2>8 DEF PrimaryEvent
<1>4. CASE TurnSecondary
  <2> DEFINE r == Polled(secondary, now)
             c == [r EXCEPT !.cur = "none"]
  <2>1. /\ \/ SecondaryEvent(c, r.cur)
           \/ secondary' = r /\ UNCHANGED <<primary, upcoming, keys>>
    BY <1>4 DEF TurnSecondary
  <2>2. r \in Key /\ c \in Key
    BY TurnFacts, TakenFacts DEF Outcome
  <2>3. SameKey(secondary, r) /\ SameKey(secondary, c)
    BY <1>0, PolledKeepsKey
  <2> HIDE DEF r, c
  <2>4. SameKey(secondary, NextIfUnspecified(c, now))
    BY <2>2, <2>3, MethodsKeepKey DEF SameKey
  <2>5. SameKey(primary, PrepareExpire(primary, now))
    BY <1>0, MethodsKeepKey
  <2>6. CASE secondary' = r /\ UNCHANGED <<primary, upcoming, keys>>
    BY <2>3, <2>6 DEF KeysStay, SameKey
  <2>7. CASE NewActive(c) /\ UNCHANGED <<upcoming, keys>>
    BY <2>4, <2>5, <2>7 DEF NewActive, KeysStay
  <2>8. CASE Promote(primary, c) /\ UNCHANGED <<upcoming, keys>>
    BY <2>3, <2>5, <2>8 DEF Promote, KeysStay
  <2>9. CASE secondary' = NoKey /\ UNCHANGED <<primary, upcoming, keys>>
    BY <2>9 DEF KeysStay, SameKey
  <2>10. CASE NewSecondary(now) /\ UNCHANGED primary
    BY <2>10 DEF NewSecondary, NewKey, KeyMade, SameKey
  <2> QED BY <2>1, <2>6, <2>7, <2>8, <2>9, <2>10 DEF SecondaryEvent
<1>5. CASE UNCHANGED vars
  BY <1>5 DEF vars, KeysStay, SameKey
<1> QED BY <1>1, <1>2, <1>3, <1>4, <1>5 DEF Next

(* The ids of the keys follow the order in which they were made: with      *)
(* every key made the upcoming id moves on by one, round the mask, and so  *)
(* does its distance to the key of a slot.                                 *)
LEMMA IdLinkNext ==
    ASSUME NEW k \in Key, NEW n \in Nat, NEW u \in 1 .. KeyIdMask, IdLink(k, n, u)
    PROVE  IdLink(k, n + 1, NextId(u))
BY ConstFacts, KeyFacts DEF IdLink, NextId

LEMMA InitIds == Init => IdInv
BY ConstFacts DEF Init, IdInv, IdLink, IdsApart, Slots, NewKey, NoKey, NextId

LEMMA IdStep ==
    ASSUME ScheduleInv, IdInv, [Next]_vars
    PROVE  IdInv'
<1>0. /\ primary \in Key /\ secondary \in Key /\ keys \in Nat /\ upcoming \in 1 .. KeyIdMask
      /\ primary' \in Key /\ secondary' \in Key
      /\ primary.gen < keys /\ secondary.gen < keys /\ primary.gen >= 0
  <2>1. ScheduleInv'
    BY StepFacts
  <2>2. primary' \in Key /\ secondary' \in Key
    BY <2>1 DEF ScheduleInv, TypeOK
  <2> QED BY <2>2, TurnFacts, ConstFacts DEF IdInv
<1>1. CASE KeysStay
  <2>1. IdLink(NoKey, keys, upcoming) /\ NoKey.id = -1 /\ NoKey.gen = -1
    BY DEF IdLink, NoKey
  <2> QED BY <1>0, <1>1, <2>1, KeyFacts DEF IdInv, IdLink, IdsApart, Slots, KeysStay, SameKey
<1>2. CASE KeyMade
  <2>1. IdLink(primary', keys', upcoming')
    <3>1. IdLink(primary, keys', upcoming')
      BY <1>0, <1>2, IdLinkNext DEF IdInv, KeyMade
    <3> QED BY <1>2, <3>1 DEF KeyMade, SameKey, IdLink
  <2>2. IdLink(secondary', keys', upcoming')
    BY <1>0, <1>2, ConstFacts DEF IdInv, KeyMade, IdLink, NextId
  <2>3. upcoming' # 0 /\ keys' >= 1
    BY <1>0, <1>2, ConstFacts DEF KeyMade, NextId
  <2>4. primary.id = upcoming => keys >= primary.gen + KeyIdMask
    BY <1>0, ConstFacts, KeyFacts DEF IdInv, IdLink
  <2>5. IdsApart'
    BY <1>0, <1>2, <2>1, <2>2, <2>4, ConstFacts, KeyFacts DEF KeyMade, SameKey, IdsApart, Slots, IdLink
  <2> QED BY <2>1, <2>2, <2>3, <2>5 DEF IdInv
<1> QED BY <1>1, <1>2, SlotsStep

(* What event_pending leaves of a key, beyond Outcome: an event comes up   *)
(* only when it was there or is due, the due expiry always does, and the   *)
(* error of a live key leaves no next event.                               *)
LEMMA PolledDue ==
    ASSUME NEW k \in Key, NEW n \in Nat, NEW t \in Nat, KeyOK(k, n, t)
    PROVE  LET r == Polled(k, t) IN
           /\ r.cur = "none" => k.cur = "none"
           /\ r.cur # "none" /\ k.cur = "none" => Due(k, t)
           /\ r.cur = "none" /\ k.next = "expire" => r = k /\ t < k.at
           /\ r.cur = "expire" => r.next = IF k.dead THEN "expire" ELSE "none"
           /\ r.cur \in {"negotiate", "expire"} => r.born = k.born
           /\ r.cur = "expire" /\ k.dead => r.at = k.at
<1> DEFINE r == Polled(k, t)
<1>0. k.next \in {"none", "negotiate", "become_primary", "primary_pending",
                  "renegotiate", "expire"}
  BY DEF KeyOK, LiveKey
<1>1. CASE k.cur # "none" \/ t < k.at
  <2>1. r = k
    BY <1>1, PolledSame
  <2>2. k.cur \notin {"negotiate", "expire"}
    BY DEF KeyOK
  <2> QED BY <1>1, <2>1, <2>2, KeyFacts DEF Due
<1>2. CASE k.cur = "none" /\ t >= k.at
  <2>0. r = NextEvent(k, t)
    BY <1>2 DEF Polled
  <2>1. CASE k.next = "none"
    BY <1>2, <2>0, <2>1 DEF NextEvent, Due
  <2>2. CASE k.next \in {"become_primary", "renegotiate"}
    <3>1. r.cur \in {"none", "become_primary", "renegotiate"}
      BY <1>2, <2>0, <2>2 DEF NextEvent, Prepared, Key
    <3> QED BY <1>2, <2>2, <3>1 DEF Due
  <2>3. CASE k.next \in {"negotiate", "primary_pending", "expire"}
    <3>1. r = [Invalidated(k) EXCEPT !.cur = k.next]
      BY <2>0, <2>3 DEF NextEvent, KevError
    <3>2. /\ Invalidated(k) \in Key /\ Invalidated(k).born = k.born
          /\ Invalidated(k).next = IF k.dead THEN k.next ELSE "none"
          /\ Invalidated(k).at = k.at
      BY InvalidatedFacts DEF Invalidated, Key
    <3>3. /\ r.cur = k.next /\ r.born = k.born /\ r.at = k.at
          /\ r.next = IF k.dead THEN k.next ELSE "none"
      BY <3>1, <3>2, KeyFacts DEF Key
    <3> QED BY <1>2, <2>3, <3>3 DEF Due
  <2> QED BY <1>0, <2>1, <2>2, <2>3
<1> QED BY <1>1, <1>2, KeyFacts

(* The measure of a key, from its fields. *)
LEMMA AheadFacts ==
    ASSUME NEW k \in Key, NEW t \in Nat
    PROVE  /\ Ahead(k, t) \in 3 .. 8 /\ Current(k) \in 0 .. 1
           /\ PrimaryAhead(k, t) \in 0 .. 9 /\ SecondaryAhead(k, t) \in 0 .. 9
           /\ ~Due(k, t) \/ k.next = "expire" => Ahead(k, t) = 3
           /\ k.next # "become_primary" => Ahead(k, t) =< 7
           /\ k.dead => PrimaryAhead(k, t) = Current(k) + 2
           /\ ~k.dead => /\ PrimaryAhead(k, t) = Current(k) + Ahead(k, t)
                         /\ SecondaryAhead(k, t) = Current(k) + Ahead(k, t)
           /\ k.dead => SecondaryAhead(k, t) =
                          Current(k) + (IF k.next = "expire" THEN 1 ELSE 0)
           /\ k.cur = "none" => Current(k) = 0
           /\ k.cur # "none" => Current(k) = 1
<1>1. Ahead(k, t) \in 3 .. 8 /\ (k.next # "become_primary" => Ahead(k, t) =< 7)
  BY DEF Ahead
<1>2. ~Due(k, t) \/ k.next = "expire" => Ahead(k, t) = 3
  BY DEF Ahead
<1>3. Current(k) \in 0 .. 1 /\ (k.cur = "none" => Current(k) = 0)
      /\ (k.cur # "none" => Current(k) = 1)
  BY DEF Current
<1> HIDE DEF Ahead, Current
<1> QED BY <1>1, <1>2, <1>3, KeyFacts DEF PrimaryAhead, SecondaryAhead

(* The event that a key gives up, against its measure before: k, with the  *)
(* event: r, and after it was taken: c.                                    *)
Shrinks(k, r, c, t) ==
    /\ r.cur = "none" =>
         /\ PrimaryAhead(r, t) =< PrimaryAhead(k, t)
         /\ SecondaryAhead(r, t) =< SecondaryAhead(k, t)
    /\ r.cur \in {"active", "queue"} =>
         /\ PrimaryAhead(c, t) < PrimaryAhead(k, t)
         /\ SecondaryAhead(c, t) < SecondaryAhead(k, t)
    /\ r.cur = "become_primary" =>
         /\ ~c.dead
         /\ PrimaryAhead(c, t) < PrimaryAhead(k, t)
         /\ PrimaryAhead(c, t) < SecondaryAhead(k, t)
    /\ r.cur = "renegotiate" => PrimaryAhead(c, t) = 3 /\ PrimaryAhead(k, t) = 7
    /\ r.cur \in {"negotiate", "primary_pending"} =>
         /\ PrimaryAhead(c, t) = 2 /\ c.dead /\ c.next = "none"
         /\ PrimaryAhead(k, t) = 4 /\ SecondaryAhead(k, t) = 4
    /\ r.cur = "expire" =>
         /\ PrimaryAhead(c, t) = 2 /\ c.dead
         /\ PrimaryAhead(k, t) = IF k.dead THEN 2 ELSE 3
         /\ SecondaryAhead(k, t) > 0

LEMMA TakenAhead ==
    ASSUME NEW k \in Key, NEW n \in Nat, NEW t \in Nat, KeyOK(k, n, t)
    PROVE  Shrinks(k, Polled(k, t), [Polled(k, t) EXCEPT !.cur = "none"], t)
<1> DEFINE r == Polled(k, t)
           c == [r EXCEPT !.cur = "none"]
<1>1. Outcome(k, r, n, t)
  BY PolledOutcome
<1>2. /\ r.cur = "none" => k.cur = "none"
      /\ r.cur # "none" /\ k.cur = "none" => Due(k, t)
  BY PolledDue
<1> HIDE DEF r
<1>3. /\ r \in Key /\ c \in Key /\ c.dead = r.dead /\ c.next = r.next /\ c.at = r.at
      /\ c.cur = "none"
  BY <1>1, TakenFacts DEF Outcome
<1>4. /\ r.cur = "none" =>
           /\ k.cur = "none" /\ r.dead = k.dead /\ (r.next = "expire" <=> k.next = "expire")
           /\ ~r.dead => ~Due(r, t)
      /\ r.cur \in {"active", "queue"} => r = k
      /\ r.cur = "become_primary" =>
           k.next = "become_primary" /\ k.cur = "none" /\ ~k.dead /\ ~r.dead /\ r.next = "renegotiate"
      /\ r.cur = "renegotiate" =>
           k.next = "renegotiate" /\ k.cur = "none" /\ ~k.dead /\ ~r.dead /\ r.next = "expire"
      /\ r.cur \in {"negotiate", "primary_pending"} =>
           k.next = r.cur /\ k.cur = "none" /\ ~k.dead /\ r.dead /\ r.next = "none"
      /\ r.cur = "expire" => k.next = "expire" /\ k.cur = "none" /\ r.dead
  <2>1. r.cur = "none" /\ ~r.dead => ~Due(r, t)
    BY <1>1, <1>3, KeyFacts DEF Outcome, Settled, Due
  <2> QED BY <1>1, <1>2, <2>1 DEF Outcome
<1>5. /\ r.cur = "become_primary" => Ahead(k, t) = 8
      /\ r.cur = "renegotiate" => Ahead(k, t) = 7
      /\ r.cur \in {"negotiate", "primary_pending"} => Ahead(k, t) = 4
  BY <1>2, <1>4 DEF Ahead
<1>6. r = k => Ahead(c, t) = Ahead(k, t) /\ c.dead = k.dead /\ c.next = k.next
  BY <1>3 DEF Ahead, Due
<1> HIDE DEF c
<1> DEFINE Facts(q) ==
             /\ Ahead(q, t) \in 3 .. 8
             /\ ~Due(q, t) \/ q.next = "expire" => Ahead(q, t) = 3
             /\ q.next # "become_primary" => Ahead(q, t) =< 7
             /\ PrimaryAhead(q, t) = (IF q.cur = "none" THEN 0 ELSE 1)
                                     + (IF q.dead THEN 2 ELSE Ahead(q, t))
             /\ SecondaryAhead(q, t) = (IF q.cur = "none" THEN 0 ELSE 1)
                                       + (IF ~q.dead THEN Ahead(q, t)
                                          ELSE IF q.next = "expire" THEN 1 ELSE 0)
<1>7. Facts(k) /\ Facts(r) /\ Facts(c)
  <2>1. ASSUME NEW q \in Key PROVE Facts(q)
    BY AheadFacts, KeyFacts DEF PrimaryAhead, SecondaryAhead, Current
  <2> QED BY <1>3, <2>1
<1>8. k.dead \in BOOLEAN /\ r.dead \in BOOLEAN /\ c.dead \in BOOLEAN
  BY <1>3, KeyFacts
<1> DEFINE pk == PrimaryAhead(k, t)  sk == SecondaryAhead(k, t)
           pr == PrimaryAhead(r, t)  sr == SecondaryAhead(r, t)
           pc == PrimaryAhead(c, t)  sc == SecondaryAhead(c, t)
<1>9. r.cur = "none" => pr =< pk /\ sr =< sk
  BY <1>3, <1>4, <1>7, <1>8
<1>10. r.cur \in {"active", "queue"} => pc < pk /\ sc < sk
  BY <1>3, <1>4, <1>6, <1>7, <1>8
<1>11. r.cur = "become_primary" => ~c.dead /\ pc < pk /\ pc < sk
  BY <1>3, <1>4, <1>5, <1>7, <1>8
<1>12. r.cur = "renegotiate" => pc = 3 /\ pk = 7
  BY <1>3, <1>4, <1>5, <1>7, <1>8
<1>13. r.cur \in {"negotiate", "primary_pending"} =>
         pc = 2 /\ c.dead /\ c.next = "none" /\ pk = 4 /\ sk = 4
  BY <1>3, <1>4, <1>5, <1>7, <1>8
<1>14. r.cur = "expire" => pc = 2 /\ c.dead /\ pk = (IF k.dead THEN 2 ELSE 3) /\ sk > 0
  BY <1>3, <1>4, <1>7, <1>8
<1> HIDE DEF Facts
<1>15. Shrinks(k, r, c, t)
  BY <1>9, <1>10, <1>11, <1>12, <1>13, <1>14 DEF Shrinks
<1> QED BY <1>15 DEF c, r

(* The measure of what the methods of a key leave. *)
LEMMA MethodsAhead ==
    ASSUME NEW k \in Key, NEW t \in Nat
    PROVE  /\ SecondaryAhead(Invalidated(k), t) =< SecondaryAhead(k, t)
           /\ PrimaryAhead(PrepareExpire(k, t), t) =< PrimaryAhead(k, t)
           /\ SecondaryAhead(PrepareExpire(k, t), t) =< PrimaryAhead(k, t)
           /\ k.dead => SecondaryAhead(PrepareExpire(k, t), t) = 1
<1> DEFINE i == Invalidated(k)
           p == PrepareExpire(k, t)
<1>1. i \in Key /\ i.dead /\ i.cur = k.cur /\ (k.dead => i = k)
      /\ (~k.dead => i.next = "none")
  BY InvalidatedFacts DEF Invalidated
<1>2. p \in Key /\ p.dead = k.dead /\ p.cur = "none" /\ p.next = "expire"
  <2>1. "none" \in Events
    BY DEF Events
  <2> QED BY <2>1, PreparedFacts DEF PrepareExpire
<1> HIDE DEF i, p
<1>3. /\ SecondaryAhead(i, t) =< SecondaryAhead(k, t)
  BY <1>1, AheadFacts, KeyFacts
<1>4. Ahead(p, t) = 3 /\ Current(p) = 0 /\ Ahead(k, t) >= 3 /\ Ahead(k, t) \in Int
      /\ Current(k) >= 0 /\ Current(k) \in Int
  BY <1>2, AheadFacts
<1>5. /\ PrimaryAhead(p, t) =< PrimaryAhead(k, t)
      /\ SecondaryAhead(p, t) =< PrimaryAhead(k, t)
      /\ k.dead => SecondaryAhead(p, t) = 1
  BY <1>2, <1>4, KeyFacts DEF PrimaryAhead, SecondaryAhead
<1> QED BY <1>3, <1>5 DEF i, p

LEMMA NewAhead ==
    ASSUME NEW id \in 0 .. KeyIdMask, NEW gen \in Nat, NEW t \in Nat
    PROVE  SecondaryAhead(NewKey(id, gen, t), t) = 3 /\ SecondaryAhead(NoKey, t) = 0
<1> DEFINE k == NewKey(id, gen, t)
<1>1. k \in Key /\ ~k.dead /\ k.cur = "none" /\ k.at = t + HandshakeWindow
  BY NewKeyFacts DEF NewKey
<1> HIDE DEF k
<1>2. ~Due(k, t)
  BY <1>1, ConstFacts DEF Due
<1>3. SecondaryAhead(k, t) = 3
  BY <1>1, <1>2, AheadFacts
<1>4. SecondaryAhead(NoKey, t) = 0
  BY NoKeyFacts, AheadFacts
<1> QED BY <1>3, <1>4 DEF k

(* The turn of the primary by its event: r is the key with the event, c    *)
(* the key whose event was taken.                                          *)
PrimaryTurn(r, c) ==
    \/ /\ r.cur = "none" /\ work' = work
       /\ primary' = r /\ secondary' = secondary
    \/ /\ r.cur = "renegotiate" /\ work' = TRUE
       /\ primary' = c /\ secondary' = NewKey(upcoming, keys, now)
    \/ /\ r.cur = "expire" /\ work' = TRUE /\ ~secondary.dead
       /\ primary' = secondary /\ secondary' = PrepareExpire(c, now)
    \/ /\ r.cur = "negotiate" \/ (r.cur = "expire" /\ secondary.dead)
       /\ work' = TRUE
       /\ primary' = c /\ secondary' = Invalidated(secondary)
    \/ /\ r.cur \in {"active", "become_primary", "primary_pending", "queue"}
       /\ work' = TRUE
       /\ primary' = c /\ secondary' = secondary

LEMMA PrimaryTurns ==
    ASSUME ScheduleInv, TurnPrimary
    PROVE  /\ phase = "primary" /\ phase' = "secondary" /\ now' = now
           /\ PrimaryTurn(Polled(primary, now), [Polled(primary, now) EXCEPT !.cur = "none"])
<1> DEFINE r == Polled(primary, now)
           c == [r EXCEPT !.cur = "none"]
<1>0. Outcome(primary, r, keys, now)
  BY TurnFacts
<1>1. /\ phase = "primary" /\ phase' = "secondary" /\ now' = now
      /\ \/ r.cur # "none" /\ work' = TRUE /\ PrimaryEvent(c, r.cur)
         \/ r.cur = "none" /\ primary' = r /\ UNCHANGED <<secondary, work>>
  BY DEF TurnPrimary
<1> HIDE DEF r
<1>2. /\ KeyOK(c, keys, now) /\ c \in Key /\ c.dead = r.dead /\ c.next = r.next
  BY <1>0, TakenFacts DEF Outcome
<1> HIDE DEF c
<1>3. NextIfUnspecified(c, now) = c
  BY <1>2, NextIfUnspecifiedSame DEF KeyOK, LiveKey
<1>4. ~secondary.dead => NextIfUnspecified(secondary, now) = secondary
  BY TurnFacts, NextIfUnspecifiedSame DEF KeyOK, LiveKey
<1>5. r.cur \in {"negotiate", "expire"} => Invalidated(c) = c
  BY <1>0, <1>2 DEF Outcome, Invalidated
<1>6. r.cur # "force"
  BY <1>0 DEF Outcome
<1>7. ASSUME r.cur # "none", work' = TRUE, PrimaryEvent(c, r.cur)
      PROVE  PrimaryTurn(r, c)
  <2>1. CASE r.cur = "expire"
    BY <1>4, <1>5, <1>7, <2>1
       DEF PrimaryEvent, ExpiredPrimary, Promote, PrimaryTurn
  <2>2. CASE r.cur # "expire"
    BY <1>3, <1>5, <1>6, <1>7, <2>2 DEF PrimaryEvent, NewSecondary, PrimaryTurn
  <2> QED BY <2>1, <2>2
<1>8. PrimaryTurn(r, c)
  BY <1>1, <1>7 DEF PrimaryTurn
<1> QED BY <1>1, <1>8 DEF r, c

(* The turn of the secondary, likewise. *)
SecondaryTurn(r, c) ==
    \/ /\ r.cur = "none"
       /\ IF work THEN phase' = "primary" ELSE phase' \in {"idle", "keepalive"}
       /\ primary' = primary /\ secondary' = r
    \/ /\ r.cur = "active" /\ phase' = "primary"
       /\ primary' = PrepareExpire(primary, now) /\ secondary' = c
    \/ /\ r.cur = "become_primary" /\ phase' = "primary"
       /\ primary' = c /\ secondary' = PrepareExpire(primary, now)
    \/ /\ r.cur = "expire" /\ phase' = "primary"
       /\ primary' = primary /\ secondary' = NoKey
    \/ /\ r.cur \in {"negotiate", "primary_pending"} /\ phase' = "primary"
       /\ primary' = primary /\ secondary' = NewKey(upcoming, keys, now)

LEMMA SecondaryTurns ==
    ASSUME ScheduleInv, TurnSecondary
    PROVE  /\ phase = "secondary" /\ work' = FALSE /\ now' = now
           /\ SecondaryTurn(Polled(secondary, now),
                            [Polled(secondary, now) EXCEPT !.cur = "none"])
<1> DEFINE r == Polled(secondary, now)
           c == [r EXCEPT !.cur = "none"]
<1>0. Outcome(secondary, r, keys, now)
  BY TurnFacts
<1>1. /\ phase = "secondary" /\ work' = FALSE /\ now' = now
      /\ \/ r.cur # "none" /\ phase' = "primary" /\ SecondaryEvent(c, r.cur)
         \/ /\ r.cur = "none" /\ secondary' = r /\ UNCHANGED primary
            /\ IF work THEN phase' = "primary" ELSE phase' \in {"idle", "keepalive"}
  BY DEF TurnSecondary
<1> HIDE DEF r
<1>2. /\ KeyOK(c, keys, now) /\ c \in Key
  BY <1>0, TakenFacts DEF Outcome
<1> HIDE DEF c
<1>3. NextIfUnspecified(c, now) = c
  BY <1>2, NextIfUnspecifiedSame DEF KeyOK, LiveKey
<1>4. SecondaryTurn(r, c)
  BY <1>1, <1>3 DEF SecondaryEvent, NewActive, Promote, NewSecondary, SecondaryTurn
<1> QED BY <1>1, <1>4 DEF r, c

(* A dead primary with an expiry to come has its event when no flush is on *)
(* and keeps it through an input; only a new key that came up in time lets *)
(* a flush begin with an event at the secondary.                           *)
LEMMA InputFlush ==
    ASSUME ScheduleInv, FlushInv, Input
    PROVE  FlushInv'
<1> PICK d \in 0 .. MaxLate :
        \/ Housekeeping(d) \/ Traffic(d) \/ ActivePrimary(d) \/ ActiveSecondary(d)
        \/ SoftReset(d) \/ KeyLimit(d) \/ ErrorPrimary(d) \/ ErrorSecondary(d)
  BY DEF Input
<1> PICK timed \in BOOLEAN : Callback(d, timed)
  BY DEF Housekeeping, Traffic, ActivePrimary, ActiveSecondary, SoftReset, KeyLimit,
         ErrorPrimary, ErrorSecondary
<1>0. phase = "idle" /\ ~Flushing
  BY DEF Callback, Flushing
<1>1. /\ now' \in Nat /\ now =< now' /\ now' =< now + MaxLate /\ now \in Nat
      /\ keys \in Nat /\ phase' = "primary" /\ work' = FALSE /\ Flushing'
      /\ primary \in Key /\ secondary \in Key
      /\ Settled(primary, now) /\ secondary.cur = "none"
      /\ KeyOK(primary, keys, now') /\ KeyOK(primary, keys, now)
      /\ upcoming \in 0 .. KeyIdMask
      /\ primary.dead /\ primary.next = "expire" => primary.cur = "none"
  BY <1>0, CallbackFacts, TurnFacts DEF FlushInv, Flushing
<1> SUFFICES
      /\ primary'.dead /\ primary'.next = "expire" => primary'.cur = "none"
      /\ secondary'.cur # "none" =>
           /\ ~secondary'.dead
           /\ primary'.next = "negotiate" => now' < primary'.born + Expire
  BY <1>1 DEF FlushInv
<1>2. CASE Housekeeping(d) \/ Traffic(d)
  BY <1>1, <1>2 DEF Housekeeping, Traffic
<1>3. CASE ActivePrimary(d)
  <2>1. primary' = Activated(primary, now') /\ secondary' = secondary /\ ~primary.dead
    BY <1>3 DEF ActivePrimary, Negotiating
  <2>2. ~primary'.dead
    BY <1>1, <2>1 DEF Activated, Key
  <2> QED BY <1>1, <2>1, <2>2
<1>4. CASE ActiveSecondary(d)
  <2>1. /\ primary' = primary /\ secondary' = Activated(secondary, now') /\ ~secondary.dead
    BY <1>4 DEF ActiveSecondary, Negotiating
  <2>2. ~secondary'.dead
    BY <1>1, <2>1 DEF Activated, Key
  <2>3. primary.next = "negotiate" => now' < primary.born + Expire
    BY <1>1, ConstFacts, KeyFacts DEF KeyOK, LiveKey, Settled
  <2> QED BY <1>1, <2>1, <2>2, <2>3
<1>5. CASE SoftReset(d)
  <2>1. primary' = primary /\ secondary' = NewKey(upcoming, keys, now')
    BY <1>5 DEF SoftReset, NewSecondary
  <2>2. secondary'.cur = "none"
    BY <2>1 DEF NewKey
  <2> QED BY <1>1, <2>1, <2>2
<1>6. CASE KeyLimit(d)
  <2>1. /\ primary' = Scheduled(primary, now') /\ secondary' = secondary
        /\ primary.active /\ ~primary.dead
    BY <1>6 DEF KeyLimit
  <2>2. ~primary'.dead
    BY <1>1, <2>1, ScheduledFacts
  <2> QED BY <1>1, <2>1, <2>2
<1>7. CASE ErrorPrimary(d)
  <2>1. primary' = Invalidated(primary) /\ secondary' = secondary /\ ~primary.dead
    BY <1>7 DEF ErrorPrimary
  <2>2. primary'.next = "none"
    BY <1>1, <2>1, InvalidatedFacts
  <2> QED BY <1>1, <2>1, <2>2
<1>8. CASE ErrorSecondary(d)
  <2>1. primary' = primary /\ secondary' = Invalidated(secondary)
    BY <1>8 DEF ErrorSecondary
  <2>2. secondary'.cur = "none"
    BY <1>1, <2>1, InvalidatedFacts
  <2> QED BY <1>1, <2>1, <2>2
<1> QED BY <1>2, <1>3, <1>4, <1>5, <1>6, <1>7, <1>8

LEMMA KeepaliveFlush ==
    ASSUME ScheduleInv, FlushInv, Keepalive
    PROVE  FlushInv'
<1>1. /\ phase = "keepalive" /\ phase' \in {"idle", "over"} /\ now' = now
      /\ KeepaliveExpired \/ UNCHANGED <<primary, secondary>>
      /\ primary \in Key /\ secondary \in Key
  BY TurnFacts DEF Keepalive, AfterHousekeeping
<1>2. /\ secondary.cur = "none"
      /\ primary.dead /\ primary.next = "expire" => primary.cur = "none" /\ now < primary.at
  BY <1>1 DEF FlushInv, Flushing
<1>3. /\ secondary'.cur = "none"
      /\ primary' = primary \/ primary'.next = "none"
  BY <1>1, <1>2, InvalidatedFacts DEF KeepaliveExpired, Invalidated
<1> QED BY <1>1, <1>2, <1>3 DEF FlushInv, Flushing

(* The primary's turn: a live primary that ends loses its next event, and  *)
(* a dead one whose expiry is due gives way to the secondary or is stuck,  *)
(* now as before.                                                          *)
LEMMA PrimaryFlush ==
    ASSUME ScheduleInv, FlushInv, TurnPrimary
    PROVE  FlushInv' /\ (Stuck' <=> Stuck)
<1> DEFINE r == Polled(primary, now)
           c == [r EXCEPT !.cur = "none"]
<1>0. /\ phase = "primary" /\ phase' = "secondary" /\ now' = now
      /\ PrimaryTurn(r, c) /\ Flushing'
  BY PrimaryTurns DEF Flushing
<1>1. /\ Outcome(primary, r, keys, now) /\ primary \in Key /\ secondary \in Key
      /\ now \in Nat /\ keys \in Nat /\ upcoming \in 0 .. KeyIdMask
      /\ KeyOK(primary, keys, now)
  BY TurnFacts
<1>2. /\ r.cur # "none" /\ primary.cur = "none" => Due(primary, now)
      /\ r.cur = "none" /\ primary.next = "expire" => r = primary /\ now < primary.at
      /\ r.cur = "expire" => r.next = IF primary.dead THEN "expire" ELSE "none"
      /\ r.cur \in {"negotiate", "expire"} => r.born = primary.born
      /\ r.cur = "expire" /\ primary.dead => r.at = primary.at
  BY <1>1, PolledDue
<1> HIDE DEF r
<1>3. /\ c \in Key /\ c.dead = r.dead /\ c.next = r.next /\ c.born = r.born
      /\ c.at = r.at /\ c.cur = "none" /\ r \in Key
  BY <1>1, TakenFacts DEF Outcome
<1> HIDE DEF c
<1>4. /\ secondary.cur # "none" =>
           /\ ~secondary.dead
           /\ primary.next = "negotiate" => now < primary.born + Expire
      /\ primary.dead /\ primary.next = "expire" => primary.cur = "none"
      /\ primary.at \in Int
  BY <1>0, <1>1, KeyFacts DEF FlushInv
<1> DEFINE Ends ==
             /\ secondary'.cur # "none" /\ secondary'.dead /\ primary'.dead =>
                  primary'.next = "none" /\ now < primary'.born + Expire
             /\ primary'.dead /\ primary'.next = "expire" =>
                  /\ primary'.cur = "none"
                  /\ now < primary'.at \/ (secondary'.dead /\ work' = TRUE)
             /\ Stuck' <=> Stuck
<1> SUFFICES Ends
  <2>1. primary' \in Key /\ now' \in Nat
    BY TurnPrimaryFacts DEF ScheduleInv, TypeOK
  <2>2. primary'.dead /\ primary'.next = "expire" =>
          now < primary'.at \/ (Stuck' /\ work')
    BY <1>0, <2>1, KeyFacts DEF Stuck
  <2> QED BY <1>0, <2>2 DEF FlushInv
<1>5. CASE r.cur = "none" /\ primary' = r /\ secondary' = secondary
  <2>1. r.dead = primary.dead /\ (r.next = "expire" <=> primary.next = "expire")
    BY <1>1, <1>5 DEF Outcome
  <2>2. ~Stuck /\ ~Stuck'
    BY <1>0, <1>1, <1>2, <1>4, <1>5, <2>1 DEF Stuck
  <2> QED BY <1>2, <1>4, <1>5, <2>1, <2>2
<1>6. CASE r.cur = "renegotiate" /\ primary' = c /\ secondary' = NewKey(upcoming, keys, now)
  <2>1. secondary'.cur = "none"
    BY <1>6 DEF NewKey
  <2>2. ~r.dead /\ ~primary.dead
    BY <1>1, <1>6 DEF Outcome
  <2> QED BY <1>3, <1>6, <2>1, <2>2 DEF Stuck
<1>7. CASE /\ r.cur = "expire" /\ ~secondary.dead
           /\ primary' = secondary /\ secondary' = PrepareExpire(c, now)
  BY <1>7 DEF Stuck
<1>8. CASE /\ r.cur = "negotiate" \/ (r.cur = "expire" /\ secondary.dead)
           /\ work' = TRUE
           /\ primary' = c /\ secondary' = Invalidated(secondary)
  <2>1. secondary'.cur = secondary.cur /\ secondary'.dead
    BY <1>1, <1>8, InvalidatedFacts
  <2>2. r.cur = "negotiate" => primary.next = "negotiate" /\ r.next = "none" /\ ~primary.dead
    BY <1>1 DEF Outcome
  <2>3. r.cur = "expire" => primary.next = "expire" /\ primary.cur = "none" /\ r.dead
    BY <1>1 DEF Outcome
  <2>4. CASE r.cur = "expire" /\ primary.dead
    <3>1. Stuck
      BY <1>1, <1>2, <1>8, <2>3, <2>4 DEF Stuck, Due
    <3>2. /\ c.next = "expire" /\ c.dead /\ c.at = primary.at
      BY <1>2, <1>3, <2>3, <2>4
    <3>3. Stuck'
      BY <1>0, <1>8, <2>1, <3>1, <3>2 DEF Stuck
    <3>4. secondary.cur = "none"
      BY <1>4, <1>8, <2>4
    <3> QED BY <1>3, <1>8, <2>1, <3>1, <3>3, <3>4
  <2>5. CASE ~(r.cur = "expire" /\ primary.dead)
    <3>1. r.next = "none" /\ ~primary.dead
      BY <1>1, <1>2, <1>8, <2>2, <2>5, KeyFacts
    <3>2. ~Stuck /\ ~Stuck'
      BY <1>3, <1>8, <3>1 DEF Stuck
    <3> QED BY <1>2, <1>3, <1>4, <1>8, <2>1, <2>2, <3>1, <3>2
  <2> QED BY <2>4, <2>5
<1>9. CASE /\ r.cur \in {"active", "become_primary", "primary_pending", "queue"}
           /\ primary' = c /\ secondary' = secondary
  <2>1. r.dead => r.next # "expire"
    BY <1>1, <1>4, <1>9 DEF Outcome
  <2>2. primary.dead => primary.next # "expire"
    BY <1>1, <1>4, <1>9 DEF Outcome
  <2>3. ~Stuck /\ ~Stuck'
    BY <1>3, <1>9, <2>1, <2>2 DEF Stuck
  <2> QED BY <1>3, <1>4, <1>9, <2>1, <2>3
<1> QED BY <1>0, <1>5, <1>6, <1>7, <1>8, <1>9 DEF PrimaryTurn

(* The secondary's turn: the primary that a new active key sets to expire  *)
(* is within its life, unless that key is there to take its place.         *)
LEMMA SecondaryFlush ==
    ASSUME ScheduleInv, FlushInv, TurnSecondary
    PROVE  /\ FlushInv' /\ (Stuck' <=> Stuck)
           /\ Stuck => phase' = "primary"
<1> DEFINE r == Polled(secondary, now)
           c == [r EXCEPT !.cur = "none"]
<1>0. /\ phase = "secondary" /\ work' = FALSE /\ now' = now
      /\ SecondaryTurn(r, c) /\ phase' \in {"primary", "idle", "keepalive"}
  BY SecondaryTurns, TurnFacts DEF SecondaryTurn
<1>1. /\ Outcome(secondary, r, keys, now) /\ primary \in Key /\ secondary \in Key
      /\ now \in Nat
  BY TurnFacts
<1> HIDE DEF r
<1>3. /\ c \in Key /\ c.dead = r.dead /\ c.cur = "none" /\ r \in Key
  BY <1>1, TakenFacts DEF Outcome
<1> HIDE DEF c
<1> DEFINE p == PrepareExpire(primary, now)
<1>4. /\ p \in Key /\ p.dead = primary.dead /\ p.cur = "none"
      /\ p.at = IF primary.fired THEN now + 2 * HandshakeWindow ELSE primary.born + Expire
  <2>1. "none" \in Events
    BY DEF Events
  <2> QED BY <1>1, <2>1, PreparedFacts DEF PrepareExpire
<1> HIDE DEF p
<1>5. /\ primary.dead /\ primary.next = "expire" =>
           primary.cur = "none" /\ (now < primary.at \/ (Stuck /\ work))
      /\ primary.at \in Int
  BY <1>0, <1>1, KeyFacts DEF FlushInv
<1> DEFINE Ends ==
             /\ secondary'.cur = "none"
             /\ primary'.dead /\ primary'.next = "expire" =>
                  /\ primary'.cur = "none"
                  /\ now < primary'.at \/ phase' = "primary"
             /\ Stuck' <=> Stuck
             /\ Stuck => phase' = "primary"
<1> SUFFICES Ends
  BY <1>0 DEF FlushInv, Flushing
<1>6. CASE /\ r.cur = "none" /\ primary' = primary /\ secondary' = r
           /\ IF work THEN phase' = "primary" ELSE phase' \in {"idle", "keepalive"}
  <2>1. r.dead = secondary.dead
    BY <1>1, <1>6 DEF Outcome
  <2>2. Stuck' <=> Stuck
    BY <1>0, <1>6, <2>1 DEF Stuck
  <2>3. Stuck => work
    BY <1>1, <1>5 DEF Stuck
  <2> QED BY <1>5, <1>6, <2>2, <2>3
<1>7. CASE r.cur = "active" /\ phase' = "primary" /\ primary' = p /\ secondary' = c
  <2>1. r = secondary
    BY <1>1, <1>7 DEF Outcome
  <2>2. primary.dead /\ c.dead => now < p.at /\ primary.next = "none"
    BY <1>1, <1>3, <1>4, <1>7, <2>1, ConstFacts, KeyFacts DEF FlushInv
  <2>3. p.at \in Int
    BY <1>4, KeyFacts
  <2>4. ~Stuck /\ ~Stuck'
    BY <1>0, <1>1, <1>3, <1>4, <1>7, <2>1, <2>2, <2>3 DEF Stuck
  <2> QED BY <1>3, <1>4, <1>7, <2>2, <2>4
<1>8. CASE r.cur = "become_primary" /\ primary' = c /\ secondary' = p
  <2>1. ~r.dead /\ ~secondary.dead
    BY <1>1, <1>8 DEF Outcome
  <2> QED BY <1>3, <1>4, <1>8, <2>1 DEF Stuck
<1>9. CASE r.cur = "expire" /\ phase' = "primary" /\ primary' = primary /\ secondary' = NoKey
  <2>2. ~secondary.dead => ~(primary.dead /\ primary.next = "expire" /\ now >= primary.at)
    BY <1>1, <1>5 DEF Stuck
  <2>3. Stuck' <=> Stuck
    BY <1>0, <1>9, <2>2, NoKeyFacts DEF Stuck
  <2> QED BY <1>5, <1>9, <2>3, NoKeyFacts
<1>10. CASE /\ r.cur \in {"negotiate", "primary_pending"} /\ phase' = "primary"
            /\ primary' = primary /\ secondary' = NewKey(upcoming, keys, now)
  <2>1. secondary'.cur = "none" /\ ~secondary'.dead
    BY <1>10 DEF NewKey
  <2>2. ~secondary.dead
    BY <1>1, <1>10 DEF Outcome
  <2> QED BY <1>5, <1>10, <2>1, <2>2 DEF Stuck
<1> QED BY <1>0, <1>6, <1>7, <1>8, <1>9, <1>10 DEF SecondaryTurn, p

LEMMA InitFlush == Init => FlushInv
<1> SUFFICES ASSUME Init PROVE FlushInv
  OBVIOUS
<1>1. secondary.cur = "none" /\ phase = "idle"
  BY NoKeyFacts DEF Init
<1>2. ~primary.dead
  BY DEF Init, NewKey
<1> QED BY <1>1, <1>2 DEF FlushInv, Flushing

LEMMA FlushStep ==
    ASSUME ScheduleInv, FlushInv, [Next]_vars
    PROVE  FlushInv'
<1>1. CASE UNCHANGED vars
  BY <1>1 DEF vars, FlushInv, Flushing, Stuck
<1> QED BY <1>1, InputFlush, KeepaliveFlush, PrimaryFlush, SecondaryFlush DEF Next

(* The schedules of the keys, their ids and the events of a flush fit      *)
(* together in every reachable state, for every setting of the times and   *)
(* every mask (set_event, next_key_id, process_events).                    *)
THEOREM RolloverInvariant == Spec => []IndInv
<1>1. ScheduleInv /\ IdInv /\ [Next]_vars => IdInv'
  BY IdStep
<1>2. ScheduleInv /\ FlushInv /\ [Next]_vars => FlushInv'
  BY FlushStep
<1> QED BY InitIds, InitFlush, <1>1, <1>2, ScheduleInvariant, PTL DEF Spec, IndInv

(* A turn of the primary at which an event comes up leaves fewer events    *)
(* ahead, and one at which none does leaves no more.                       *)
LEMMA PrimaryCounts ==
    ASSUME ScheduleInv, FlushInv, TurnPrimary, ~Stuck
    PROVE  IF work' THEN EventsAhead' < EventsAhead ELSE EventsAhead' =< EventsAhead
<1> DEFINE r == Polled(primary, now)
           c == [r EXCEPT !.cur = "none"]
<1>0. phase = "primary" /\ now' = now /\ PrimaryTurn(r, c) /\ work = FALSE
  BY PrimaryTurns DEF FlushInv, ScheduleInv, TypeOK
<1>1. /\ Outcome(primary, r, keys, now) /\ primary \in Key /\ secondary \in Key
      /\ now \in Nat /\ keys \in Nat /\ upcoming \in 0 .. KeyIdMask
      /\ Shrinks(primary, r, c, now)
  BY TurnFacts, TakenAhead
<1>2. r.cur # "none" /\ primary.cur = "none" => Due(primary, now)
  BY TurnFacts, PolledDue
<1> HIDE DEF r
<1>3. c \in Key /\ c.dead = r.dead /\ r \in Key
  BY <1>1, TakenFacts DEF Outcome
<1> HIDE DEF c
<1> DEFINE P(k) == PrimaryAhead(k, now)
           S(k) == SecondaryAhead(k, now)
<1>4. /\ EventsAhead = P(primary) + S(secondary)
      /\ EventsAhead' = P(primary') + S(secondary')
  BY <1>0 DEF EventsAhead
<1>5. /\ P(primary) \in Nat /\ S(secondary) \in Nat /\ P(secondary) \in Nat
      /\ P(r) \in Nat /\ P(c) \in Nat /\ S(Invalidated(secondary)) \in Nat
  BY <1>1, <1>3, AheadFacts, InvalidatedFacts
<1> HIDE DEF P, S
<1>6. CASE r.cur = "none" /\ work' = work /\ primary' = r /\ secondary' = secondary
  <2>1. P(r) =< P(primary)
    BY <1>1, <1>6 DEF Shrinks, P
  <2> QED BY <1>0, <1>4, <1>5, <1>6, <2>1
<1>7. CASE /\ r.cur = "renegotiate"
           /\ primary' = c /\ secondary' = NewKey(upcoming, keys, now)
  <2>1. P(c) = 3 /\ P(primary) = 7
    BY <1>1, <1>7 DEF Shrinks, P
  <2>2. S(NewKey(upcoming, keys, now)) = 3
    BY <1>1, NewAhead DEF S
  <2> QED BY <1>4, <1>5, <1>7, <2>1, <2>2
<1>8. CASE /\ r.cur = "expire" /\ ~secondary.dead
           /\ primary' = secondary /\ secondary' = PrepareExpire(c, now)
  <2>1. P(primary) >= 2 /\ c.dead
    BY <1>1, <1>8 DEF Shrinks, P
  <2>2. S(PrepareExpire(c, now)) = 1
    BY <1>1, <1>3, <2>1, MethodsAhead DEF S
  <2>3. P(secondary) = S(secondary)
    BY <1>1, <1>8, AheadFacts DEF P, S
  <2> QED BY <1>4, <1>5, <1>8, <2>1, <2>2, <2>3
<1>9. CASE /\ r.cur = "negotiate" \/ (r.cur = "expire" /\ secondary.dead)
           /\ primary' = c /\ secondary' = Invalidated(secondary)
  <2>1. S(Invalidated(secondary)) =< S(secondary)
    BY <1>1, MethodsAhead DEF S
  <2>2. r.cur = "expire" => primary.next = "expire" /\ primary.cur = "none"
    BY <1>1 DEF Outcome
  <2>3. r.cur = "expire" => ~primary.dead
    BY <1>2, <1>9, <2>2 DEF Stuck, Due
  <2>4. P(c) = 2 /\ P(primary) > 2
    BY <1>1, <1>9, <2>3 DEF Shrinks, P
  <2> QED BY <1>4, <1>5, <1>9, <2>1, <2>4
<1>10. CASE /\ r.cur \in {"active", "become_primary", "primary_pending", "queue"}
            /\ primary' = c /\ secondary' = secondary
  <2>1. P(c) < P(primary)
    BY <1>1, <1>10 DEF Shrinks, P
  <2> QED BY <1>4, <1>5, <1>10, <2>1
<1> QED BY <1>0, <1>6, <1>7, <1>8, <1>9, <1>10 DEF PrimaryTurn

(* The turn of the secondary, likewise: only with an event does it start   *)
(* the flush over.                                                         *)
LEMMA SecondaryCounts ==
    ASSUME ScheduleInv, TurnSecondary
    PROVE  \/ phase' = "primary" /\ EventsAhead' < EventsAhead
           \/ work = TRUE /\ phase' = "primary" /\ EventsAhead' =< EventsAhead
           \/ phase' \in {"idle", "keepalive"}
<1> DEFINE r == Polled(secondary, now)
           c == [r EXCEPT !.cur = "none"]
<1>0. now' = now /\ SecondaryTurn(r, c) /\ work \in BOOLEAN
  BY SecondaryTurns, TurnFacts
<1>1. /\ Outcome(secondary, r, keys, now) /\ primary \in Key /\ secondary \in Key
      /\ now \in Nat /\ keys \in Nat /\ upcoming \in 0 .. KeyIdMask
      /\ Shrinks(secondary, r, c, now)
  BY TurnFacts, TakenAhead
<1> HIDE DEF r
<1>3. c \in Key /\ c.dead = r.dead /\ r \in Key
  BY <1>1, TakenFacts DEF Outcome
<1> HIDE DEF c
<1> DEFINE P(k) == PrimaryAhead(k, now)
           S(k) == SecondaryAhead(k, now)
           p == PrepareExpire(primary, now)
<1>4. /\ EventsAhead = P(primary) + S(secondary)
      /\ EventsAhead' = P(primary') + S(secondary')
  BY <1>0 DEF EventsAhead
<1>5. p \in Key
  <2>1. "none" \in Events
    BY DEF Events
  <2> QED BY <1>1, <2>1, PreparedFacts DEF PrepareExpire
<1>6. P(p) =< P(primary) /\ S(p) =< P(primary)
  BY <1>1, MethodsAhead
<1> HIDE DEF p
<1>7. /\ P(primary) \in Nat /\ S(secondary) \in Nat /\ S(r) \in Nat
      /\ P(c) \in Nat /\ S(c) \in Nat /\ P(p) \in Nat /\ S(p) \in Nat
  BY <1>1, <1>3, <1>5, AheadFacts
<1> HIDE DEF P, S
<1>8. CASE /\ r.cur = "none"
           /\ IF work THEN phase' = "primary" ELSE phase' \in {"idle", "keepalive"}
           /\ primary' = primary /\ secondary' = r
  <2>1. S(r) =< S(secondary)
    BY <1>1, <1>8 DEF Shrinks, S
  <2> QED BY <1>0, <1>4, <1>7, <1>8, <2>1
<1>9. CASE r.cur = "active" /\ phase' = "primary" /\ primary' = p /\ secondary' = c
  <2>1. S(c) < S(secondary)
    BY <1>1, <1>9 DEF Shrinks, S
  <2> QED BY <1>4, <1>6, <1>7, <1>9, <2>1
<1>10. CASE r.cur = "become_primary" /\ phase' = "primary" /\ primary' = c /\ secondary' = p
  <2>1. P(c) < S(secondary)
    BY <1>1, <1>10 DEF Shrinks, P, S
  <2> QED BY <1>4, <1>6, <1>7, <1>10, <2>1
<1>11. CASE r.cur = "expire" /\ phase' = "primary" /\ primary' = primary /\ secondary' = NoKey
  <2>1. S(secondary) > 0 /\ S(NoKey) = 0
    BY <1>1, <1>11, NewAhead DEF Shrinks, S
  <2> QED BY <1>4, <1>7, <1>11, <2>1
<1>12. CASE /\ r.cur \in {"negotiate", "primary_pending"} /\ phase' = "primary"
            /\ primary' = primary /\ secondary' = NewKey(upcoming, keys, now)
  <2>1. S(secondary) = 4 /\ S(NewKey(upcoming, keys, now)) = 3
    BY <1>1, <1>12, NewAhead DEF Shrinks, S
  <2> QED BY <1>4, <1>7, <1>12, <2>1
<1> QED BY <1>0, <1>8, <1>9, <1>10, <1>11, <1>12 DEF SecondaryTurn, p

LEMMA EventsBound ==
    ASSUME ScheduleInv
    PROVE  EventsAhead \in 0 .. 18 /\ Rank \in 0 .. 75
<1>1. PrimaryAhead(primary, now) \in 0 .. 9 /\ SecondaryAhead(secondary, now) \in 0 .. 9
  BY TurnFacts, AheadFacts
<1>2. EventsAhead \in 0 .. 18
  BY <1>1 DEF EventsAhead
<1> QED BY <1>2, TurnFacts DEF Rank, Flushing

(* While a flush is on only its turns are taken. *)
LEMMA FlushTurns ==
    ASSUME Next, Flushing
    PROVE  TurnPrimary \/ TurnSecondary
<1>1. ~Input
  BY DEF Input, Housekeeping, Traffic, ActivePrimary, ActiveSecondary, SoftReset,
         KeyLimit, ErrorPrimary, ErrorSecondary, Callback, Flushing
<1>2. ~Keepalive
  BY DEF Keepalive, Flushing
<1> QED BY <1>1, <1>2 DEF Next

LEMMA TurnLowersRank ==
    ASSUME ScheduleInv, FlushInv, Next, Flushing, ~Stuck
    PROVE  ~Stuck' /\ Rank' < Rank
<1>1. ScheduleInv' /\ EventsAhead \in Nat /\ EventsAhead' \in Nat
  <2>1. ScheduleInv'
    BY StepFacts
  <2>2. primary' \in Key /\ secondary' \in Key /\ now' \in Nat
    BY <2>1 DEF ScheduleInv, TypeOK
  <2>3. PrimaryAhead(primary', now') \in 0 .. 9 /\ SecondaryAhead(secondary', now') \in 0 .. 9
    BY <2>2, AheadFacts
  <2>4. EventsAhead' \in 0 .. 18
    BY <2>3 DEF EventsAhead
  <2> QED BY <2>1, <2>4, EventsBound
<1>2. CASE TurnPrimary
  <2>1. phase = "primary" /\ phase' = "secondary" /\ work' \in BOOLEAN
    BY <1>1, <1>2 DEF TurnPrimary, ScheduleInv, TypeOK
  <2>2. Rank = 4 * EventsAhead + 2
    BY <2>1 DEF Rank, Flushing
  <2>3. \/ Rank' = 4 * EventsAhead' + 3 /\ EventsAhead' < EventsAhead
        \/ Rank' = 4 * EventsAhead' + 1 /\ EventsAhead' =< EventsAhead
    BY <1>2, <2>1, PrimaryCounts DEF Rank, Flushing
  <2> QED BY <1>1, <1>2, <2>2, <2>3, PrimaryFlush
<1>3. CASE TurnSecondary
  <2>1. phase = "secondary" /\ work \in BOOLEAN
    BY <1>3, TurnFacts DEF TurnSecondary
  <2>2. /\ Rank = 4 * EventsAhead + (IF work THEN 3 ELSE 1)
        /\ phase' \in {"idle", "keepalive"} => Rank' = 0
        /\ phase' = "primary" => Rank' = 4 * EventsAhead' + 2
    BY <2>1 DEF Rank, Flushing
  <2>3. \/ phase' = "primary" /\ EventsAhead' < EventsAhead
        \/ work = TRUE /\ phase' = "primary" /\ EventsAhead' =< EventsAhead
        \/ phase' \in {"idle", "keepalive"}
    BY <1>3, SecondaryCounts
  <2> QED BY <1>1, <1>3, <2>1, <2>2, <2>3, SecondaryFlush
<1> QED BY <1>2, <1>3, FlushTurns

(* A flush that began on a stuck primary does not get away from it. *)
LEMMA StuckStays ==
    ASSUME ScheduleInv, FlushInv, Next, Flushing, Stuck
    PROVE  Stuck' /\ Flushing'
<1>1. CASE TurnPrimary
  BY <1>1, PrimaryFlush DEF TurnPrimary, Flushing
<1>2. CASE TurnSecondary
  BY <1>2, SecondaryFlush DEF Flushing
<1> QED BY <1>1, <1>2, FlushTurns

(* How a flush ends is settled by its first state.  If the primary is dead,*)
(* its expiry due and no live secondary there, process_events returns true *)
(* every time and the do-while of flush never ends.  Otherwise every turn  *)
(* lowers Rank, which is at most 75: the events that process_events makes  *)
(* for itself cannot go on for ever.                                       *)
THEOREM FlushEnds == Spec => [](Rank \in 0 .. 75) /\ FlushProgress
<1>1. IndInv => Rank \in 0 .. 75
  BY EventsBound DEF IndInv
<1>2. IndInv /\ [Next]_vars =>
        [Flushing => IF Stuck THEN Stuck' /\ Flushing' ELSE ~Stuck' /\ Rank' < Rank]_vars
  BY TurnLowersRank, StuckStays DEF IndInv
<1> QED BY RolloverInvariant, <1>1, <1>2, PTL DEF Spec, FlushProgress

(* Two keys in the slots have the same id only when a full round of ids    *)
(* was given out between them, and 0 is the first key's (next_key_id).     *)
THEOREM IdsApartThm == Spec => []IdsApart
<1>1. IndInv => IdsApart
  BY DEF IndInv, IdInv
<1> QED BY RolloverInvariant, <1>1, PTL

(* No key outlives its lifetime (prepare_expire, kev_error). *)
THEOREM KeyExpiresThm == Spec => []KeyExpires
<1>1. ScheduleInv => KeyExpires
  <2> SUFFICES ASSUME ScheduleInv, phase = "idle", NEW k \in Slots,
                      ~k.dead, ~k.fired, k.next # "primary_pending"
               PROVE  now < k.born + Expire
    BY DEF KeyExpires
  <2>1. k \in Key /\ KeyOK(k, keys, now) /\ Settled(k, now) /\ now \in Nat
    BY DEF ScheduleInv, TypeOK, Slots, Flushing
  <2> QED BY <2>1, ConstFacts, KeyFacts DEF KeyOK, LiveKey, Settled
<1> QED BY ScheduleInvariant, <1>1, PTL

(* The primary never goes back to an older key (process_primary_event,     *)
(* promote_secondary_to_primary).                                          *)
THEOREM NeverRollsBackThm == Spec => NeverRollsBack
<1>1. ScheduleInv /\ [Next]_vars => [primary'.gen >= primary.gen]_vars
  BY StepFacts
<1> QED BY ScheduleInvariant, <1>1, PTL DEF Spec, NeverRollsBack

(* A live key leaves only at its end or for a new key (new_secondary_key). *)
THEOREM OldKeyKeptThm == Spec => OldKeyKept
<1>1. ScheduleInv /\ [Next]_vars =>
        [\A k \in Slots :
           ~k.dead /\ k.gen \notin {primary'.gen, secondary'.gen} =>
             keys' = keys + 1 \/ (k.next = "expire" /\ now >= k.at)]_vars
  BY StepFacts
<1> QED BY ScheduleInvariant, <1>1, PTL DEF Spec, OldKeyKept

(* A key over its limit is renegotiated soon or expires, unless its        *)
(* renegotiation was queued (schedule_key_limit_renegotiation).            *)
THEOREM LimitHeededThm == Spec => []LimitHeeded
<1>1. ScheduleInv => LimitHeeded
  <2> SUFFICES ASSUME ScheduleInv, ~primary.dead, primary.fired, ~primary.queued
               PROVE  \/ primary.next = "expire"
                      \/ primary.next = "renegotiate" /\ primary.at =< now + LimitDelay
    BY DEF LimitHeeded
  <2> QED BY DEF ScheduleInv, KeyOK, LiveKey
<1> QED BY ScheduleInvariant, <1>1, PTL
=============================================================================
