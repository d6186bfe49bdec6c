--------------------------- MODULE PacketIDProofs ---------------------------
(***************************************************************************)
(* Proofs about PacketID, for every size of the ring, expiration and range *)
(* of ids and times. The heart is ShiftDeque: turning the ring keeps one   *)
(* bit per id, whatever the jump.                                          *)
(***************************************************************************)
EXTENDS PacketID, TLAPS

(* Constants in the forms the provers need. *)
LEMMA ConstFacts ==
    /\ Window \in Nat /\ Window > 0 /\ Patience \in Nat
    /\ MaxId \in Nat /\ MaxId > 0 /\ MaxTime \in Nat /\ MaxTime >= 1
    /\ \A n \in Starts : n \in 0..MaxId
BY PacketIDAssumption

(* REPLAY_INDEX stays in the ring. *)
LEMMA IndexInRing ==
    ASSUME NEW b \in Bits, NEW i \in (-Window)..(Window - 1)
    PROVE  Index(b, i) \in Bits
BY ConstFacts DEF Index, Bits

(* Different offsets of the window are different bits. *)
LEMMA IndexInjective ==
    ASSUME NEW b \in Bits, NEW i \in 0..(Window - 1), NEW j \in 0..(Window - 1),
           Index(b, i) = Index(b, j)
    PROVE  i = j
BY ConstFacts DEF Index, Bits

(* After the ring turned by delta an old offset is delta further on. *)
LEMMA IndexTurn ==
    ASSUME NEW b \in Bits, NEW delta \in 1..Window, NEW i \in delta..(Window - 1)
    PROVE  Index(Index(b, -delta), i) = Index(b, i - delta)
BY ConstFacts DEF Index, Bits

(* Offset 0 is the base. *)
LEMMA IndexZero ==
    ASSUME NEW b \in Bits
    PROVE  Index(b, 0) = b
BY ConstFacts DEF Index, Bits

(* The smaller of two numbers. *)
LEMMA LeastFacts ==
    ASSUME NEW i \in Nat, NEW j \in Nat
    PROVE  /\ Least(i, j) \in Nat /\ Least(i, j) <= i /\ Least(i, j) <= j
           /\ i <= j => Least(i, j) = i
           /\ j <= i => Least(i, j) = j
BY DEF Least

(* An id is its time and its number. *)
LEMMA PidFacts ==
    ASSUME NEW p \in Pids
    PROVE  /\ p = [time |-> p.time, id |-> p.id]
           /\ p.time \in 0..MaxTime /\ p.id \in 1..MaxId
           /\ p.time \in Nat /\ p.id \in Nat
BY ConstFacts DEF Pids

(* Accepting an id counts it and no other. *)
LEMMA GotStep ==
    ASSUME got \in [Pids -> Nat], NEW p \in Pids, got' = [got EXCEPT ![p] = @ + 1]
    PROVE  /\ got' \in [Pids -> Nat]
           /\ got'[p] = got[p] + 1
           /\ \A q \in Pids : q # p => got'[q] = got[q]
OBVIOUS

(* Shift keeps the meaning of the deque: an id above the highest one becomes *)
(* the newest, the ids skipped have clear bits, and older ids keep theirs.   *)
LEMMA ShiftDeque ==
    ASSUME TypeOK,
           NEW b \in Bits, NEW x \in 0..Window, NEW t \in 0..MaxTime, NEW high \in 0..MaxId,
           NEW p \in Pids, p.time = t, p.id > high,
           Deque(b, x, t, high),
           Shift(b, x, p.id - high),
           got' = [got EXCEPT ![p] = @ + 1]
    PROVE  /\ base' \in Bits /\ extent' \in 0..Window /\ history' \subseteq Bits
           /\ Deque(base, extent, t, p.id)'
<1> DEFINE delta == p.id - high
           nb == Index(b, -delta)
<1>1. /\ delta \in Nat /\ delta >= 1 /\ p.id \in Nat /\ p.id \in 1..MaxId /\ high \in Nat
      /\ p.id = high + delta /\ Window \in Nat /\ Window > 0 /\ x \in Nat /\ p.id <= MaxId
      /\ t \in Nat /\ MaxId \in Nat
  BY ConstFacts, PidFacts
<1>2. /\ got \in [Pids -> Nat] /\ history \subseteq Bits
      /\ got' \in [Pids -> Nat] /\ got'[p] = got[p] + 1
      /\ \A q \in Pids : q # p => got'[q] = got[q]
  BY GotStep DEF TypeOK
<1>3. \A q \in Pids : q.time = t /\ q.id > high => got[q] = 0
  <2> SUFFICES ASSUME NEW q \in Pids, q.time = t, q.id > high PROVE got[q] = 0
    OBVIOUS
  <2>1. q.id \in Nat /\ got[q] \in Nat
    BY <1>2, PidFacts
  <2> QED BY <1>1, <2>1 DEF Deque
<1>4. \A q \in Pids : got'[q] > 0 /\ q.time = t => q.id <= p.id
  <2> SUFFICES ASSUME NEW q \in Pids, got'[q] > 0, q.time = t PROVE q.id <= p.id
    OBVIOUS
  <2>1. q.id \in Nat
    BY PidFacts
  <2>2. CASE q = p
    BY <1>1, <2>2
  <2>3. CASE q # p
    <3>1. got[q] > 0
      BY <1>2, <2>3
    <3>2. q.id <= high
      BY <3>1 DEF Deque
    <3> QED BY <1>1, <2>1, <3>2
  <2> QED BY <2>2, <2>3
<1>5. \A d \in 1..(p.id - 1) : LET q == [time |-> t, id |-> p.id - d]
                                IN  /\ q \in Pids /\ got'[q] = got[q]
                                    /\ d < delta => got[q] = 0
  <2> SUFFICES ASSUME NEW d \in 1..(p.id - 1)
               PROVE  LET q == [time |-> t, id |-> p.id - d]
                      IN  /\ q \in Pids /\ got'[q] = got[q]
                          /\ d < delta => got[q] = 0
    OBVIOUS
  <2> DEFINE q == [time |-> t, id |-> p.id - d]
  <2>1. p.id - d \in 1..MaxId /\ (d < delta => p.id - d > high)
    BY <1>1
  <2>2. q \in Pids /\ q.time = t /\ q.id = p.id - d
    BY <2>1 DEF Pids
  <2>3. q # p
    BY <1>1, <2>2
  <2>4. d < delta => got[q] = 0
    BY <1>3, <2>1, <2>2
  <2> QED BY <1>2, <2>2, <2>3, <2>4
<1>6. p = [time |-> t, id |-> p.id - 0]
  <2>1. p.id - 0 = p.id
    BY <1>1
  <2> QED BY <2>1, PidFacts
<1>7. CASE delta < Window \/ delta = 1
  <2>1. delta \in 1..Window
    BY <1>1, <1>7
  <2>2. nb \in Bits
    BY <1>1, <2>1, IndexInRing
  <2> HIDE DEF nb, delta
  <2>3. /\ base' = nb /\ extent' = Least(x + delta, Window)
        /\ history' = (history \cup {nb}) \ {Index(nb, i) : i \in 1..(delta - 1)}
    BY <1>7 DEF Shift, nb, delta
  <2>4. /\ extent' = Least(p.id, Window) /\ extent' \in 0..Window
        /\ extent' <= p.id /\ extent' \in Nat
    <3>1. x = Least(high, Window)
      BY DEF Deque
    <3> QED BY <1>1, <2>3, <3>1 DEF Least
  <2>5. history' \subseteq Bits
    BY <1>2, <2>2, <2>3
  <2>6. ASSUME NEW d \in 0..(extent' - 1)
        PROVE  Index(nb, d) \in history' <=> got'[[time |-> t, id |-> p.id - d]] > 0
    <3>1. d \in 0..(Window - 1) /\ d <= p.id - 1
      BY <1>1, <2>4
    <3>2. CASE d = 0
      <4>1. Index(nb, 0) = nb /\ 0 \in 0..(Window - 1)
        BY <1>1, <2>2, IndexZero
      <4>2. nb \notin {Index(nb, i) : i \in 1..(delta - 1)}
        <5> SUFFICES ASSUME NEW i \in 1..(delta - 1), nb = Index(nb, i) PROVE FALSE
          OBVIOUS
        <5>1. i \in 0..(Window - 1) /\ i # 0
          BY <1>1, <2>1
        <5> QED BY <2>2, <4>1, <5>1, IndexInjective
      <4>3. got'[p] > 0
        BY <1>2
      <4> QED BY <1>6, <2>3, <3>2, <4>1, <4>2, <4>3
    <3>3. CASE d # 0 /\ d < delta
      <4>1. d \in 1..(delta - 1) /\ d \in 1..(p.id - 1)
        BY <1>1, <2>1, <3>1, <3>3
      <4>2. Index(nb, d) \notin history'
        BY <2>3, <4>1
      <4>3. got'[[time |-> t, id |-> p.id - d]] = 0
        BY <1>5, <3>3, <4>1
      <4> QED BY <4>2, <4>3
    <3>4. CASE d >= delta
      <4>1. /\ d \in delta..(Window - 1) /\ d \in 1..(p.id - 1)
            /\ p.id - d = high - (d - delta)
        BY <1>1, <2>1, <3>1, <3>4
      <4>2. Index(nb, d) = Index(b, d - delta)
        BY <2>1, <4>1, IndexTurn DEF nb
      <4>3. d - delta \in 0..(x - 1)
        <5>1. x = Least(high, Window)
          BY DEF Deque
        <5> QED BY <1>1, <2>1, <3>1, <4>1, <5>1 DEF Least
      <4>4. Index(b, d - delta) \in history
               <=> got[[time |-> t, id |-> high - (d - delta)]] > 0
        BY <4>3 DEF Deque
      <4>5. Index(nb, d) \in history' <=> Index(nb, d) \in history
        <5>1. Index(nb, d) # nb
          <6>1. Index(nb, 0) = nb /\ 0 \in 0..(Window - 1) /\ d # 0
            BY <1>1, <2>1, <2>2, <3>4, IndexZero
          <6> QED BY <2>2, <3>1, <6>1, IndexInjective
        <5>2. Index(nb, d) \notin {Index(nb, i) : i \in 1..(delta - 1)}
          <6> SUFFICES ASSUME NEW i \in 1..(delta - 1), Index(nb, d) = Index(nb, i) PROVE FALSE
            OBVIOUS
          <6>1. i \in 0..(Window - 1) /\ i # d
            BY <1>1, <2>1, <3>4
          <6> QED BY <2>2, <3>1, <6>1, IndexInjective
        <5> QED BY <2>3, <5>1, <5>2
      <4>6. got'[[time |-> t, id |-> p.id - d]] = got[[time |-> t, id |-> p.id - d]]
        BY <1>5, <4>1
      <4> QED BY <4>1, <4>2, <4>4, <4>5, <4>6
    <3>5. d \in Nat /\ (d >= delta \/ d < delta)
      BY <2>1, <2>4
    <3> QED BY <3>2, <3>3, <3>4, <3>5
  <2> QED BY <1>4, <2>2, <2>3, <2>4, <2>5, <2>6 DEF Deque
<1>8. CASE ~(delta < Window \/ delta = 1)
  <2>1. delta >= Window
    BY <1>1, <1>8
  <2>2. base' = 0 /\ extent' = Window /\ history' = {0}
    BY <1>8 DEF Shift
  <2>3. 0 \in Bits
    BY <1>1 DEF Bits
  <2> HIDE DEF delta
  <2>4. extent' = Least(p.id, Window)
    BY <1>1, <2>1, <2>2 DEF Least
  <2>5. ASSUME NEW d \in 0..(Window - 1)
        PROVE  Index(0, d) \in history' <=> got'[[time |-> t, id |-> p.id - d]] > 0
    <3>1. Index(0, 0) = 0 /\ 0 \in 0..(Window - 1)
      BY <1>1, <2>3, IndexZero
    <3>2. CASE d = 0
      <4>1. got'[p] > 0
        BY <1>2
      <4> QED BY <1>6, <2>2, <3>1, <3>2, <4>1
    <3>3. CASE d # 0
      <4>1. Index(0, d) # 0
        BY <2>3, <3>1, <3>3, IndexInjective
      <4>2. d < delta /\ d \in 1..(p.id - 1)
        BY <1>1, <2>1, <3>3
      <4>3. got'[[time |-> t, id |-> p.id - d]] = 0
        BY <1>5, <4>2
      <4> QED BY <2>2, <4>1, <4>3
    <3> QED BY <3>2, <3>3
  <2>6. Deque(base, extent, t, p.id)'
    BY <1>4, <2>2, <2>4, <2>5 DEF Deque
  <2> QED BY <1>1, <2>2, <2>3, <2>6
<1> QED BY <1>7, <1>8

(* An id that do_test_add accepts was not accepted before. *)
LEMMA AcceptedIsFresh ==
    ASSUME IndInv, NEW p \in Pids, Accepts(p)
    PROVE  got[p] = 0
<1>1. /\ got[p] \in Nat /\ p.id \in Nat /\ p.time \in Nat /\ p.id >= 1
      /\ id_high \in Nat /\ time_high \in Nat /\ extent \in Nat
  BY ConstFacts, PidFacts DEF IndInv, TypeOK
<1>2. got[p] > 0 => p.time <= time_high
  BY DEF IndInv
<1>3. got[p] > 0 /\ p.time = time_high => p.id <= id_high
  BY DEF IndInv, Deque
<1>4. CASE p.time > time_high
  BY <1>1, <1>2, <1>4
<1>5. CASE p.time = time_high /\ p.id > id_high
  BY <1>1, <1>3, <1>5
<1>6. CASE /\ p.time = time_high /\ p.id <= id_high /\ id_high - p.id < extent
           /\ Index(base, id_high - p.id) \notin history
  <2>1. id_high - p.id \in 0..(extent - 1) /\ id_high - (id_high - p.id) = p.id
    BY <1>1, <1>6
  <2>2. Index(base, id_high - p.id) \in history
            <=> got[[time |-> time_high, id |-> id_high - (id_high - p.id)]] > 0
    BY <2>1 DEF IndInv, Deque
  <2>3. p = [time |-> time_high, id |-> p.id]
    BY <1>6, PidFacts
  <2> QED BY <1>1, <1>6, <2>1, <2>2, <2>3
<1> QED BY <1>1, <1>4, <1>5, <1>6 DEF Accepts

(* What Add leaves: the deque means what it says, for the ids of its time.   *)
LEMMA AddDeque ==
    ASSUME IndInv, NEW p \in Pids, Accepts(p), Add(p)
    PROVE  /\ base' \in Bits /\ extent' \in 0..Window /\ history' \subseteq Bits
           /\ id_high' \in 0..MaxId /\ time_high' = p.time /\ time_high <= p.time
           /\ Deque(base, extent, time_high, id_high)'
<1>0. /\ TypeOK /\ Deque(base, extent, time_high, id_high)
      /\ \A q \in Pids : got[q] > 0 => q.time <= time_high
  BY DEF IndInv
<1>1. /\ p.id \in 1..MaxId /\ p.time \in 0..MaxTime /\ p.id \in Nat /\ p.time \in Nat
      /\ id_high \in Nat /\ time_high \in Nat /\ extent \in Nat /\ Window \in Nat /\ Window > 0
      /\ MaxId \in Nat /\ base \in Bits /\ extent \in 0..Window /\ id_high \in 0..MaxId
      /\ time_high \in 0..MaxTime /\ got \in [Pids -> Nat] /\ history \subseteq Bits
  BY <1>0, ConstFacts, PidFacts DEF TypeOK
<1>2. time_high' = p.time /\ got' = [got EXCEPT ![p] = @ + 1]
  BY DEF Add
<1>3. CASE p.time > time_high
  <2>1. id_high' = p.id /\ Shift(0, 0, p.id - 0)
    BY <1>1, <1>3 DEF Add
  <2>2. 0 \in Bits /\ 0 \in 0..Window /\ 0 \in 0..MaxId /\ p.id > 0
    BY <1>1 DEF Bits
  <2>3. Deque(0, 0, p.time, 0)
    <3>1. 0 = Least(0, Window)
      BY <1>1 DEF Least
    <3>2. \A q \in Pids : ~(got[q] > 0 /\ q.time = p.time)
      BY <1>0, <1>1, <1>3
    <3>3. 0..(0 - 1) = {}
      OBVIOUS
    <3> QED BY <3>1, <3>2, <3>3 DEF Deque
  <2>4. /\ base' \in Bits /\ extent' \in 0..Window /\ history' \subseteq Bits
        /\ Deque(base, extent, p.time, p.id)'
    BY <1>0, <1>1, <1>2, <2>1, <2>2, <2>3, ShiftDeque
  <2> QED BY <1>1, <1>2, <1>3, <2>1, <2>4 DEF Deque
<1>4. CASE p.time = time_high /\ p.id > id_high
  <2>1. id_high' = p.id /\ Shift(base, extent, p.id - id_high)
    BY <1>1, <1>4 DEF Add
  <2>2. Deque(base, extent, p.time, id_high)
    BY <1>0, <1>4
  <2>3. /\ base' \in Bits /\ extent' \in 0..Window /\ history' \subseteq Bits
        /\ Deque(base, extent, p.time, p.id)'
    BY <1>0, <1>1, <1>2, <1>4, <2>1, <2>2, ShiftDeque
  <2> QED BY <1>1, <1>2, <1>4, <2>1, <2>3 DEF Deque
<1>5. CASE p.time = time_high /\ p.id <= id_high
  <2> DEFINE off == id_high - p.id
  <2>1. /\ off < extent /\ off \in 0..(extent - 1) /\ off \in 0..(Window - 1)
        /\ id_high - off = p.id
    BY <1>1, <1>5 DEF Accepts
  <2>2. /\ history' = history \cup {Index(base, off)}
        /\ id_high' = id_high /\ base' = base /\ extent' = extent
    BY <1>1, <1>5 DEF Add
  <2>3. Index(base, off) \in Bits
    BY <1>1, <2>1, IndexInRing
  <2>4. /\ got'[p] = got[p] + 1 /\ got[p] \in Nat
        /\ \A q \in Pids : q # p => got'[q] = got[q]
    BY <1>1, <1>2, GotStep
  <2>5. \A q \in Pids : got'[q] > 0 /\ q.time = p.time => q.id <= id_high
    BY <1>0, <1>5, <2>4 DEF Deque
  <2>6. ASSUME NEW d \in 0..(extent - 1)
        PROVE  Index(base, d) \in history' <=> got'[[time |-> p.time, id |-> id_high - d]] > 0
    <3>1. CASE d = off
      <4>1. p = [time |-> p.time, id |-> id_high - d]
        BY <2>1, <3>1, PidFacts
      <4> QED BY <2>2, <2>4, <3>1, <4>1
    <3>2. CASE d # off
      <4>1. d \in 0..(Window - 1)
        BY <1>1
      <4>2. Index(base, d) # Index(base, off)
        BY <1>1, <2>1, <3>2, <4>1, IndexInjective
      <4>3. [time |-> p.time, id |-> id_high - d] \in Pids
        <5>1. extent <= id_high
          BY <1>0, <1>1 DEF Deque, Least
        <5>2. id_high - d \in 1..MaxId
          BY <1>1, <5>1
        <5> QED BY <1>1, <5>2 DEF Pids
      <4>4. [time |-> p.time, id |-> id_high - d] # p
        BY <1>1, <2>1, <3>2
      <4>5. Index(base, d) \in history <=> got[[time |-> time_high, id |-> id_high - d]] > 0
        BY <1>0 DEF Deque
      <4> QED BY <1>5, <2>2, <2>4, <4>2, <4>3, <4>4, <4>5
    <3> QED BY <3>1, <3>2
  <2>7. extent = Least(id_high, Window)
    BY <1>0 DEF Deque
  <2> HIDE DEF off
  <2>8. Deque(base, extent, time_high, id_high)'
    BY <1>2, <2>2, <2>5, <2>6, <2>7 DEF Deque
  <2> QED BY <1>1, <1>2, <1>5, <2>2, <2>3, <2>8
<1> QED BY <1>1, <1>3, <1>4, <1>5 DEF Accepts

(* Initially nothing was sent or accepted. *)
LEMMA InitInv ==
    ASSUME Init
    PROVE  IndInv
<1>1. /\ got = [p \in Pids |-> 0] /\ net = {} /\ history = {} /\ sid \in Starts
      /\ base = 0 /\ extent = 0 /\ id_high = 0 /\ time_high = 0 /\ id_floor = 0
      /\ expire = 0 /\ now = 1 /\ stime = 0 /\ data \in BOOLEAN
  BY DEF Init
<1>2. TypeOK
  BY <1>1, ConstFacts DEF TypeOK, Bits
<1>3. \A p \in Pids : got[p] = 0
  BY <1>1
<1>4. Deque(base, extent, time_high, id_high)
  <2>1. extent = Least(id_high, Window)
    BY <1>1, ConstFacts DEF Least
  <2>2. 0..(extent - 1) = {}
    BY <1>1
  <2> QED BY <1>3, <2>1, <2>2 DEF Deque
<1>5. NoReplay
  BY <1>3 DEF NoReplay
<1>6. SentBefore
  BY <1>1 DEF SentBefore
<1> QED BY <1>2, <1>3, <1>4, <1>5, <1>6 DEF IndInv

(* A step that touches neither the ring nor the count keeps their relation.  *)
LEMMA RingUnchanged ==
    ASSUME IndInv, UNCHANGED <<ringVars, got>>
    PROVE  /\ Deque(base, extent, time_high, id_high)'
           /\ \A p \in Pids : got'[p] > 0 => p.time <= time_high'
           /\ NoReplay'
BY DEF IndInv, Deque, NoReplay, ringVars

(* Send gives an id above every earlier one. *)
LEMMA SendInv ==
    ASSUME IndInv, Send
    PROVE  IndInv'
<1>0. /\ TypeOK /\ SentBefore /\ MaySend
      /\ sid' = NextPid.id /\ stime' = NextPid.time /\ net' = net \cup {NextPid}
      /\ UNCHANGED <<data, now, ringVars, expire, id_floor, got>>
  BY DEF IndInv, Send
<1>1. /\ sid \in Nat /\ sid <= MaxId /\ stime \in 0..MaxTime /\ now \in 0..MaxTime
      /\ MaxId \in Nat /\ MaxId > 0 /\ MaxTime \in Nat /\ data \in BOOLEAN
      /\ net \subseteq Pids
  BY <1>0, ConstFacts DEF TypeOK
<1>2. NextPid.id \in 1..MaxId /\ NextPid.time \in 0..MaxTime
  BY <1>0, <1>1 DEF NextPid, MaySend
<1>3. NextPid \in Pids
  <2>1. NextPid = [time |-> NextPid.time, id |-> NextPid.id]
    BY DEF NextPid
  <2> QED BY <1>2, <2>1 DEF Pids
<1>4. TypeOK'
  BY <1>0, <1>1, <1>2, <1>3 DEF TypeOK, ringVars
<1>5. /\ data => NextPid.time = 0 /\ NextPid.id = sid + 1
      /\ ~data => NextPid.time = (IF stime = 0 \/ sid = MaxId THEN now ELSE stime)
      /\ ~data => NextPid.id = (IF sid = MaxId THEN 1 ELSE sid + 1)
  BY DEF NextPid
<1>6. now >= 1 /\ now' = now /\ data' = data
  BY <1>0 DEF SentBefore
<1>7. SentBefore'
  <2>1. data' => stime' = 0
    BY <1>0, <1>5
  <2>2. stime' <= now' /\ (~data => stime' > 0)
    BY <1>0, <1>1, <1>5, <1>6 DEF SentBefore
  <2>3. ASSUME NEW p \in net'
        PROVE  /\ data => p.time = 0
               /\ ~data => p.time > 0
               /\ p.time < stime' \/ (p.time = stime' /\ p.id <= sid')
    <3>1. CASE p = NextPid
      <4>1. NextPid.id <= sid' /\ NextPid.time = stime'
        BY <1>0, <1>2
      <4> QED BY <1>0, <1>5, <2>2, <3>1, <4>1
    <3>2. CASE p \in net
      <4>1. /\ p.time \in Nat /\ p.id \in Nat
            /\ data => p.time = 0
            /\ ~data => stime > 0 /\ p.time > 0
            /\ p.time < stime \/ (p.time = stime /\ p.id <= sid)
        BY <1>0, <1>1, <3>2, PidFacts DEF SentBefore
      <4>2. data => stime = 0
        BY <1>0 DEF SentBefore
      <4>3. ~data /\ sid = MaxId => now > stime
        BY <1>0 DEF MaySend
      <4> QED BY <1>0, <1>1, <1>5, <4>1, <4>2, <4>3
    <3> QED BY <1>0, <3>1, <3>2
  <2>4. SentBefore' <=> /\ data' => stime' = 0
                        /\ stime' <= now' /\ now' >= 1
                        /\ \A p \in net' : /\ data' => p.time = 0
                                           /\ ~data' => stime' > 0 /\ p.time > 0
                                           /\ p.time < stime' \/ (p.time = stime' /\ p.id <= sid')
    BY DEF SentBefore
  <2> QED BY <1>6, <2>1, <2>2, <2>3, <2>4
<1> QED BY <1>0, <1>4, <1>7, RingUnchanged DEF IndInv

(* A second passes. *)
LEMMA TickInv ==
    ASSUME IndInv, Tick
    PROVE  IndInv'
<1>1. TypeOK'
  BY ConstFacts DEF IndInv, TypeOK, Tick, sendVars, ringVars
<1>2. SentBefore'
  <2>1. now \in Nat /\ stime \in Nat /\ now' = now + 1
    BY ConstFacts DEF IndInv, TypeOK, Tick
  <2> QED BY <2>1 DEF IndInv, SentBefore, Tick, sendVars
<1> QED BY <1>1, <1>2, RingUnchanged DEF IndInv, Tick

(* A packet arrives, for the first time or again. *)
LEMMA ReceiveInv ==
    ASSUME IndInv, NEW p \in net, NEW keep \in BOOLEAN, Receive(p, keep)
    PROVE  IndInv'
<1>0. /\ TypeOK /\ p \in Pids /\ SentBefore
      /\ expire' = now + Patience /\ UNCHANGED <<data, now, sendVars>>
  BY DEF IndInv, TypeOK, Receive
<1>1. SentBefore'
  BY <1>0 DEF SentBefore, sendVars
<1>2. expire' \in Nat
  BY <1>0, ConstFacts DEF TypeOK
<1>3. Floor \in 0..MaxId
  BY <1>0 DEF TypeOK, Floor
<1>4. CASE Accepts(p) /\ keep
  <2>1. Add(p)
    BY <1>4 DEF Receive
  <2>2. /\ base' \in Bits /\ extent' \in 0..Window /\ history' \subseteq Bits
        /\ id_high' \in 0..MaxId /\ time_high' = p.time /\ time_high <= p.time
        /\ Deque(base, extent, time_high, id_high)'
    BY <1>0, <1>4, <2>1, AddDeque
  <2>3. /\ got' \in [Pids -> Nat] /\ got'[p] = got[p] + 1
        /\ \A q \in Pids : q # p => got'[q] = got[q]
    BY <1>0, <2>1, GotStep DEF TypeOK, Add
  <2>4. got[p] = 0
    BY <1>0, <1>4, AcceptedIsFresh
  <2>5. id_floor' \in 0..MaxId
    BY <1>3, <2>1, ConstFacts DEF Add
  <2>6. p.time \in 0..MaxTime /\ p.time \in Nat /\ time_high \in Nat
    BY <1>0, ConstFacts, PidFacts DEF TypeOK
  <2>7. TypeOK'
    BY <1>0, <1>2, <2>2, <2>3, <2>5, <2>6 DEF TypeOK, sendVars
  <2>8. NoReplay'
    <3> SUFFICES ASSUME NEW q \in Pids PROVE got'[q] <= 1
      BY DEF NoReplay
    <3>1. got[q] <= 1
      BY DEF IndInv, NoReplay
    <3> QED BY <2>3, <2>4, <3>1
  <2>9. \A q \in Pids : got'[q] > 0 => q.time <= time_high'
    <3> SUFFICES ASSUME NEW q \in Pids, got'[q] > 0 PROVE q.time <= p.time
      BY <2>2
    <3>1. CASE q = p
      BY <2>6, <3>1
    <3>2. CASE q # p
      <4>1. q.time <= time_high
        BY <2>3, <3>2 DEF IndInv
      <4> QED BY <2>2, <2>6, <4>1, PidFacts
    <3> QED BY <3>1, <3>2
  <2> QED BY <1>1, <2>2, <2>7, <2>8, <2>9 DEF IndInv
<1>5. CASE ~(Accepts(p) /\ keep)
  <2>1. id_floor' = Floor /\ UNCHANGED <<ringVars, got>>
    BY <1>5 DEF Receive
  <2>2. TypeOK'
    BY <1>0, <1>2, <1>3, <2>1 DEF TypeOK, sendVars, ringVars
  <2> QED BY <1>1, <2>1, <2>2, RingUnchanged DEF IndInv
<1> QED BY <1>4, <1>5

-----------------------------------------------------------------------------
(* The inductive invariant: each bit of the deque tells whether its id was   *)
(* accepted, for every ring, range of ids and expiration.                    *)
THEOREM PacketIDInvariant == Spec => []IndInv
<1>1. Init => IndInv
  BY InitInv
<1>2. ASSUME IndInv, [Next]_vars PROVE IndInv'
  <2>1. CASE UNCHANGED vars
    <3>1. TypeOK'
      BY <1>2, <2>1 DEF IndInv, TypeOK, vars, sendVars, ringVars
    <3>2. SentBefore'
      BY <1>2, <2>1 DEF IndInv, SentBefore, vars, sendVars
    <3> QED BY <1>2, <2>1, <3>1, <3>2, RingUnchanged DEF IndInv, vars
  <2>2. CASE Next
    BY <1>2, <2>2, SendInv, TickInv, ReceiveInv DEF Next
  <2> QED BY <1>2, <2>1, <2>2
<1> QED BY <1>1, <1>2, PTL DEF Spec

(* packet_id_control.hpp:170: no packet id is ever accepted twice. *)
THEOREM NoReplayThm == Spec => []NoReplay
<1>1. IndInv => NoReplay
  BY DEF IndInv
<1> QED BY <1>1, PacketIDInvariant, PTL

(* do_test_add refuses nothing that is new, inside the window and above the  *)
(* floor.                                                                    *)
THEOREM AcceptsExactlyThm == Spec => []AcceptsExactly
<1>1. ASSUME IndInv PROVE AcceptsExactly
  <2> SUFFICES ASSUME NEW p \in net
               PROVE  Accepts(p) <=>
                        \/ p.time > time_high
                        \/ p.time = time_high /\ p.id > id_high
                        \/ /\ p.time = time_high
                           /\ got[p] = 0
                           /\ p.id > id_high - Window /\ p.id > Floor
    BY DEF AcceptsExactly
  <2>1. /\ p \in Pids /\ p.id \in Nat /\ p.time \in Nat /\ p.id >= 1
        /\ id_high \in Nat /\ time_high \in Nat /\ extent \in Nat /\ got[p] \in Nat
        /\ Window \in Nat /\ Window > 0
    BY <1>1, ConstFacts, PidFacts DEF IndInv, TypeOK
  <2>2. extent = Least(id_high, Window)
    BY <1>1 DEF IndInv, Deque
  <2>3. CASE p.time # time_high \/ p.id > id_high
    BY <2>1, <2>3 DEF Accepts
  <2>4. CASE p.time = time_high /\ p.id <= id_high
    <3>1. id_high - p.id < extent <=> p.id > id_high - Window
      BY <2>1, <2>2, <2>4 DEF Least
    <3>2. ASSUME id_high - p.id < extent
          PROVE  Index(base, id_high - p.id) \in history <=> got[p] > 0
      <4>1. id_high - p.id \in 0..(extent - 1) /\ id_high - (id_high - p.id) = p.id
        BY <2>1, <2>4, <3>2
      <4>2. p = [time |-> time_high, id |-> p.id]
        BY <2>1, <2>4, PidFacts
      <4>3. Index(base, id_high - p.id) \in history
               <=> got[[time |-> time_high, id |-> id_high - (id_high - p.id)]] > 0
        BY <1>1, <4>1 DEF IndInv, Deque
      <4> QED BY <4>1, <4>2, <4>3
    <3> QED BY <2>1, <2>4, <3>1, <3>2 DEF Accepts
  <2> QED BY <2>1, <2>3, <2>4
<1> QED BY <1>1, PacketIDInvariant, PTL

(* next() gives no id twice, whenever it wraps. *)
THEOREM FreshIdsThm == Spec => []FreshIds
<1>1. ASSUME IndInv PROVE FreshIds
  <2> SUFFICES ASSUME MaySend, NextPid \in net PROVE FALSE
    BY DEF FreshIds
  <2>1. /\ sid \in Nat /\ stime \in Nat /\ now \in Nat /\ MaxId \in Nat
        /\ data \in BOOLEAN
        /\ data => stime = 0
        /\ ~data => stime > 0
        /\ NextPid.time < stime \/ (NextPid.time = stime /\ NextPid.id <= sid)
        /\ stime <= now
    BY <1>1, ConstFacts DEF IndInv, TypeOK, SentBefore
  <2>2. /\ data => NextPid.time = 0 /\ NextPid.id = sid + 1
        /\ ~data => NextPid.time = (IF stime = 0 \/ sid = MaxId THEN now ELSE stime)
        /\ ~data => NextPid.id = (IF sid = MaxId THEN 1 ELSE sid + 1)
    BY DEF NextPid
  <2>3. ~data /\ sid = MaxId => now > stime
    BY DEF MaySend
  <2> QED BY <2>1, <2>2, <2>3
<1> QED BY <1>1, PacketIDInvariant, PTL
=============================================================================
