--------------------------- MODULE ReliableProofs ---------------------------
(***************************************************************************)
(* Proofs about Reliable, for every window size, message bound and message *)
(* set: the inductive invariant, delivery in order (the refinement of      *)
(* ReliableChannel), and what ACKs mean.                                   *)
(***************************************************************************)
EXTENDS Reliable, TLAPS

(* The two peers are each other's Other. *)
LEMMA PeersFacts ==
    /\ \A e \in Peers : Other(e) \in Peers /\ Other(e) # e /\ Other(Other(e)) = e
    /\ \A e, f \in Peers : f # e => f = Other(e)
BY ReliableAssumption DEF Peers, Other

(* What the assumption on the constants says of windows and start. *)
LEMMA ConstFacts ==
    /\ StartAt \in Nat
    /\ SendSpan \in Nat /\ SendSpan > 0
    /\ RecvSpan \in Nat /\ SendSpan <= RecvSpan
    /\ AcksPerPacket \in Nat /\ MaxReack \in Nat
<1>1. StartAt \in Nat
  BY ReliableAssumption
<1> QED BY <1>1, ReliableAssumption

(* Length and elements of a concatenation. *)
LEMMA ConcatFacts ==
    ASSUME NEW S, NEW s \in Seq(S), NEW t \in Seq(S)
    PROVE  s \o t \in Seq(S) /\ Len(s \o t) = Len(s) + Len(t)
OBVIOUS

(* The left part of a concatenation keeps its places. *)
LEMMA ConcatLeft ==
    ASSUME NEW S, NEW s \in Seq(S), NEW t \in Seq(S), NEW i \in 1..Len(s)
    PROVE  (s \o t)[i] = s[i]
OBVIOUS

(* The right part of a concatenation is shifted by the left one. *)
LEMMA ConcatRight ==
    ASSUME NEW S, NEW s \in Seq(S), NEW t \in Seq(S), NEW i \in 1..Len(t)
    PROVE  (s \o t)[Len(s) + i] = t[i]
OBVIOUS

(* The type invariant for one peer. *)
LEMMA TypeFacts ==
    ASSUME TypeOK, NEW e \in Peers
    PROVE  /\ sent[e] \in Seq(Values) /\ Len(sent[e]) \in Nat
           /\ dlv[e] \in Seq(Values) /\ Len(dlv[e]) \in Nat
           /\ unacked[e] \in SUBSET Nat
           /\ rhead[e] \in Nat
           /\ npid[e] \in Nat
           /\ NextId(e) \in Nat /\ NextId(e) = StartAt + Len(sent[e])
<1>1. sent[e] \in Seq(Values) /\ dlv[e] \in Seq(Values)
  BY DEF TypeOK
<1>2. unacked[e] \in SUBSET Nat /\ rhead[e] \in Nat /\ npid[e] \in Nat
  BY DEF TypeOK
<1>3. Len(sent[e]) \in Nat /\ Len(dlv[e]) \in Nat
  BY <1>1
<1> QED BY <1>1, <1>2, <1>3, ConstFacts DEF NextId

(* add_ack_to_reack keeps a list of ids that were in it, and the new one. *)
LEMMA AddReackFacts ==
    ASSUME NEW R \in Seq(Nat), NEW a \in Nat
    PROVE  /\ AddReack(R, a) \in Seq(Nat)
           /\ \A i \in 1..Len(AddReack(R, a)) :
                 AddReack(R, a)[i] = a \/ \E j \in 1..Len(R) : AddReack(R, a)[i] = R[j]
<1> DEFINE old == {i \in 1..Len(R) : R[i] = a}
           gap == CHOOSE g \in 1..(Len(R) + 1) :
                      IF old = {} THEN g = Len(R) + 1 ELSE g \in old
           len == IF old = {} THEN Len(R) + 1 ELSE Len(R)
           n == Least(len, MaxReack)
           S == [i \in 1..n |-> IF i = 1 THEN a ELSE IF i <= gap THEN R[i - 1] ELSE R[i]]
<1>1. AddReack(R, a) = S
  BY DEF AddReack
<1>2. len \in Nat /\ n \in Nat /\ n <= len
  BY ReliableAssumption DEF Least
<1>3. gap \in 1..(Len(R) + 1) /\ (old = {} => gap = Len(R) + 1)
  <2>1. \E g \in 1..(Len(R) + 1) : IF old = {} THEN g = Len(R) + 1 ELSE g \in old
    <3>1. CASE old = {}
      <4>1. Len(R) + 1 \in 1..(Len(R) + 1)
        OBVIOUS
      <4> QED BY <3>1, <4>1
    <3>2. CASE old # {}
      <4>1. PICK g \in old : TRUE
        BY <3>2
      <4>2. g \in 1..(Len(R) + 1)
        BY <4>1
      <4> QED BY <3>2, <4>1, <4>2
    <3> QED BY <3>1, <3>2
  <2> HIDE DEF old
  <2> QED BY <2>1
<1>4. \A i \in 1..n : S[i] = a \/ \E j \in 1..Len(R) : S[i] = R[j]
  <2> SUFFICES ASSUME NEW i \in 1..n PROVE S[i] = a \/ \E j \in 1..Len(R) : S[i] = R[j]
    OBVIOUS
  <2> HIDE DEF gap, n, len
  <2>1. CASE i = 1
    BY <2>1
  <2>2. CASE i # 1 /\ i <= gap
    <3>1. i - 1 \in 1..Len(R)
      BY <1>2, <1>3, <2>2
    <3> QED BY <2>2, <3>1
  <2>3. CASE i # 1 /\ ~(i <= gap)
    <3>1. i \in 1..Len(R)
      BY <1>2, <1>3, <2>3 DEF len
    <3> QED BY <2>3, <3>1
  <2> QED BY <2>1, <2>2, <2>3
<1>5. S \in Seq(Nat) /\ Len(S) = n
  <2> HIDE DEF S, n
  <2>1. \A i \in 1..n : S[i] \in Nat
    BY <1>4
  <2>2. S = [i \in 1..n |-> S[i]]
    BY DEF S
  <2> QED BY <1>2, <2>1, <2>2
<1> QED BY <1>1, <1>4, <1>5

(* What flush leaves behind: it numbers messages after the ones sent, keeps  *)
(* them unacknowledged inside the send window, and emits packets that carry  *)
(* them and the ACKs of R.                                                   *)
FlushPost(e, un, R) ==
    /\ sent' \in [Peers -> Seq(Values)]
    /\ \A f \in Peers : f # e => sent'[f] = sent[f] /\ unacked'[f] = unacked[f]
    /\ C!Prefix(sent[e], sent'[e])
    /\ unacked' \in [Peers -> SUBSET Nat]
    /\ unacked'[e] = un \cup (NextId(e)..(NextId(e)' - 1))
    /\ \A i \in unacked'[e] : NextId(e)' <= i + SendSpan
    /\ rawq' \in [Peers -> Seq({Reset})]
    /\ appq' \in [Peers -> Seq(Data)]
    /\ npid' \in [Peers -> Nat] /\ wrapped' = wrapped
    /\ \A p \in net' : p \notin net =>
          /\ p \in Packets
          /\ p.src = e /\ p.acks = PacketAcks(R)
          /\ p.id # NoId => p.id \in SentIds(e)' /\ p.val = MsgAt(e, p.id)'

(* Flush does so. *)
LEMMA FlushFacts ==
    ASSUME TypeOK, SendWindow,
           NEW e \in Peers, NEW un \in SUBSET unacked[e],
           NEW raw \in Seq({Reset}), NEW app \in Seq(Data),
           NEW R \in Seq(Nat), NEW fresh \in BOOLEAN, NEW st \in BOOLEAN,
           Flush(e, un, raw, app, R, fresh, st)
    PROVE  FlushPost(e, un, R)
<1> DEFINE queue == raw \o (IF st THEN app ELSE <<>>)
           most == Least(Len(queue), SendSpan)
           first == NextId(e)
           mk(id, v, j) == [src |-> e, id |-> id, val |-> v,
                            acks |-> PacketAcks(R),
                            pid |-> IF wrapped THEN npid[e] + j ELSE 0]
<1>1. queue \in Seq(Values) /\ Len(queue) \in Nat
  <2>1. raw \in Seq(Values) /\ app \in Seq(Values) /\ <<>> \in Seq(Values)
    BY DEF Values
  <2>2. (IF st THEN app ELSE <<>>) \in Seq(Values)
    BY <2>1
  <2> QED BY <2>1, <2>2
<1>2. sent[e] \in Seq(Values) /\ Len(sent[e]) \in Nat /\ first \in Nat /\ StartAt \in Nat
  BY TypeFacts, ConstFacts
<1>3. most \in Nat /\ most <= Len(queue)
  BY <1>1, ConstFacts DEF Least
<1>4. PICK n \in 0..most :
        LET nraw == Least(n, Len(raw))
            out == {mk(first + j - 1, queue[j], j) : j \in 1..n}
                   \cup (IF fresh /\ n = 0 THEN {mk(NoId, NoVal, 1)} ELSE {})
        IN  /\ n > 0 => Fits(e, un, n)
            /\ n < most => ~Fits(e, un, n + 1)
            /\ sent' = [sent EXCEPT ![e] = @ \o SubSeq(queue, 1, n)]
            /\ unacked' = [unacked EXCEPT ![e] = un \cup first..(first + n - 1)]
            /\ rawq' = [rawq EXCEPT ![e] = SubSeq(raw, nraw + 1, Len(raw))]
            /\ appq' = [appq EXCEPT ![e] = SubSeq(app, n - nraw + 1, Len(app))]
            /\ net' = net \cup out
            /\ npid' = IF wrapped THEN [npid EXCEPT ![e] = @ + n + (IF n = 0 /\ fresh THEN 1 ELSE 0)]
                                  ELSE npid
            /\ UNCHANGED wrapped
  BY DEF Flush
<1> DEFINE nraw == Least(n, Len(raw))
           new == SubSeq(queue, 1, n)
           out == {mk(first + j - 1, queue[j], j) : j \in 1..n}
                  \cup (IF fresh /\ n = 0 THEN {mk(NoId, NoVal, 1)} ELSE {})
<1>5. n \in Nat /\ n <= Len(queue) /\ nraw \in Nat /\ nraw <= n /\ nraw <= Len(raw)
  BY <1>1, <1>3 DEF Least
<1>6. /\ n > 0 => Fits(e, un, n)
      /\ sent' = [sent EXCEPT ![e] = sent[e] \o new]
      /\ unacked' = [unacked EXCEPT ![e] = un \cup first..(first + n - 1)]
      /\ rawq' = [rawq EXCEPT ![e] = SubSeq(raw, nraw + 1, Len(raw))]
      /\ appq' = [appq EXCEPT ![e] = SubSeq(app, n - nraw + 1, Len(app))]
      /\ net' = net \cup out
  BY <1>4
<1>7. npid' \in [Peers -> Nat] /\ wrapped' = wrapped
  <2> DEFINE more == n + (IF n = 0 /\ fresh THEN 1 ELSE 0)
  <2>1. npid \in [Peers -> Nat] /\ npid[e] \in Nat
    BY DEF TypeOK
  <2>2. more \in Nat
    BY <1>5
  <2>3. npid[e] + n + (IF n = 0 /\ fresh THEN 1 ELSE 0) \in Nat
    BY <1>5, <2>1
  <2>4. npid' = IF wrapped THEN [npid EXCEPT ![e] = npid[e] + n + (IF n = 0 /\ fresh THEN 1 ELSE 0)]
                           ELSE npid
    BY <1>4
  <2> QED BY <1>4, <2>1, <2>3, <2>4
<1>8. new \in Seq(Values) /\ Len(new) = n
  BY <1>1, <1>5
<1>9. \A j \in 1..n : new[j] = queue[j] /\ queue[j] \in Values
  BY <1>1, <1>5
<1> HIDE DEF queue, most, nraw, new, out, first
<1>10. sent'[e] = sent[e] \o new
  BY <1>6 DEF TypeOK
<1>11. sent'[e] \in Seq(Values) /\ Len(sent'[e]) = Len(sent[e]) + n
  <2>1. /\ sent[e] \o new \in Seq(Values)
        /\ Len(sent[e] \o new) = Len(sent[e]) + Len(new)
    BY <1>2, <1>8, ConcatFacts, Zenon
  <2> QED BY <1>8, <1>10, <2>1, Zenon
<1>12. sent' \in [Peers -> Seq(Values)]
  <2>1. sent' = [sent EXCEPT ![e] = sent'[e]]
    BY <1>6, <1>10
  <2> QED BY <1>11, <2>1 DEF TypeOK
<1>13. \A f \in Peers : f # e => sent'[f] = sent[f] /\ unacked'[f] = unacked[f]
  BY <1>6 DEF TypeOK
<1>14. first = StartAt + Len(sent[e])
  BY DEF first, NextId
<1>15. NextId(e)' = first + n
  BY <1>2, <1>5, <1>11, <1>14 DEF NextId
<1>16. \A i \in 1..Len(sent[e]) : sent'[e][i] = sent[e][i]
  <2>1. \A i \in 1..Len(sent[e]) : (sent[e] \o new)[i] = sent[e][i]
    BY <1>2, <1>8, ConcatLeft, Zenon
  <2> QED BY <1>10, <2>1, Zenon
<1>17. \A j \in 1..n : sent'[e][Len(sent[e]) + j] = queue[j]
  <2> SUFFICES ASSUME NEW j \in 1..n PROVE sent'[e][Len(sent[e]) + j] = queue[j]
    OBVIOUS
  <2>1. j \in 1..Len(new)
    BY <1>8
  <2>2. (sent[e] \o new)[Len(sent[e]) + j] = new[j]
    BY <1>2, <1>8, <2>1, ConcatRight, Zenon
  <2> QED BY <1>9, <1>10, <2>2, Zenon
<1>18. C!Prefix(sent[e], sent'[e])
  BY <1>2, <1>5, <1>11, <1>16 DEF C!Prefix
<1>19. unacked'[e] = un \cup (first..(NextId(e)' - 1))
  <2>1. unacked'[e] = un \cup first..(first + n - 1)
    BY <1>6 DEF TypeOK
  <2>2. NextId(e)' - 1 = first + n - 1
    BY <1>2, <1>5, <1>15
  <2> QED BY <2>1, <2>2, Zenon
<1>20. un \subseteq Nat /\ unacked'[e] \subseteq Nat
  <2>1. un \subseteq Nat
    BY TypeFacts
  <2>2. \A i \in first..(NextId(e)' - 1) : i \in Nat
    BY <1>2, <1>5, <1>15
  <2> QED BY <1>19, <2>1, <2>2
<1>21. unacked' \in [Peers -> SUBSET Nat]
  <2>1. unacked' = [unacked EXCEPT ![e] = unacked'[e]]
    BY <1>6 DEF TypeOK
  <2> QED BY <1>20, <2>1 DEF TypeOK
<1>22. ASSUME NEW i \in unacked'[e] PROVE NextId(e)' <= i + SendSpan
  <2>0. i \in Nat
    BY <1>20
  <2>1. CASE n = 0
    <3>1. i \in un
      BY <1>2, <1>15, <1>19, <2>1
    <3>2. first <= i + SendSpan
      BY <3>1 DEF SendWindow, first
    <3> QED BY <1>2, <1>15, <2>1, <3>2
  <2>2. CASE n > 0
    <3>1. \A k \in un \cup {first} : first + n <= k + SendSpan
      BY <1>6, <2>2 DEF Fits, first
    <3>2. CASE i \in un
      BY <1>15, <3>1, <3>2
    <3>3. CASE i \in first..(NextId(e)' - 1)
      <4>1. first + n <= first + SendSpan /\ first <= i
        BY <1>2, <1>5, <1>15, <3>1, <3>3
      <4> QED BY <1>2, <1>5, <1>15, <2>0, <4>1, ConstFacts
    <3> QED BY <1>19, <3>2, <3>3
  <2> QED BY <1>5, <2>1, <2>2
<1>23. rawq' \in [Peers -> Seq({Reset})]
  <2>1. SubSeq(raw, nraw + 1, Len(raw)) \in Seq({Reset})
    BY <1>5
  <2> QED BY <1>6, <2>1 DEF TypeOK
<1>24. appq' \in [Peers -> Seq(Data)]
  <2>1. n - nraw + 1 \in Nat /\ n - nraw + 1 >= 1
    BY <1>5
  <2>2. SubSeq(app, n - nraw + 1, Len(app)) \in Seq(Data)
    BY <2>1
  <2> QED BY <1>6, <2>2 DEF TypeOK
<1>25. PacketAcks(R) \in SUBSET Nat
  BY ConstFacts DEF PacketAcks, Least
<1>26. ASSUME NEW p \in net', p \notin net
       PROVE  /\ p \in Packets
              /\ p.src = e /\ p.acks = PacketAcks(R)
              /\ p.id # NoId => p.id \in SentIds(e)' /\ p.val = MsgAt(e, p.id)'
  <2>0. p \in out
    BY <1>6, <1>26
  <2>1. CASE p \in {mk(first + j - 1, queue[j], j) : j \in 1..n}
    <3>1. PICK j \in 1..n : p = mk(first + j - 1, queue[j], j)
      BY <2>1
    <3>2. first + j - 1 \in Nat /\ queue[j] \in Values
      <4>1. queue[j] \in Values
        BY <1>9
      <4> QED BY <1>2, <1>5, <4>1
    <3>3. (IF wrapped THEN npid[e] + j ELSE 0) \in Nat
      BY <1>5, TypeFacts
    <3>4. p \in Packets
      BY <1>25, <3>1, <3>2, <3>3 DEF Packets
    <3>5. p.id = first + j - 1 /\ p.val = queue[j] /\ p.src = e /\ p.acks = PacketAcks(R)
      BY <3>1
    <3>6. p.id \in SentIds(e)'
      <4>1. first + j - 1 \in StartAt..(NextId(e)' - 1)
        BY <1>2, <1>5, <1>14, <1>15
      <4> QED BY <3>5, <4>1 DEF SentIds
    <3>7. p.val = MsgAt(e, p.id)'
      <4>1. p.id - StartAt + 1 = Len(sent[e]) + j
        BY <1>2, <1>5, <1>14, <3>5
      <4> QED BY <1>17, <3>5, <4>1 DEF MsgAt
    <3> QED BY <3>4, <3>5, <3>6, <3>7
  <2>2. CASE p \in (IF fresh /\ n = 0 THEN {mk(NoId, NoVal, 1)} ELSE {})
    <3>1. p = mk(NoId, NoVal, 1)
      BY <2>2
    <3>2. (IF wrapped THEN npid[e] + 1 ELSE 0) \in Nat
      BY TypeFacts
    <3> QED BY <1>25, <3>1, <3>2 DEF Packets
  <2> QED BY <2>0, <2>1, <2>2 DEF out
<1> QED BY <1>7, <1>12, <1>13, <1>18, <1>19, <1>21, <1>22, <1>23, <1>24, <1>26 DEF first, FlushPost

(* up_sequenced: what goes up continues what went up before, in the order of *)
(* the ids; the receive window keeps the rest, and nothing that could go up. *)
DeliverPost(e, h, D, st) ==
    /\ \A f \in Peers : f # e => /\ dlv'[f] = dlv[f] /\ rhead'[f] = rhead[f]
                                /\ held'[f] = held[f]
    /\ dlv' \in [Peers -> Seq(Values)]
    /\ rhead' \in [Peers -> Nat]
    /\ DOMAIN held' = Peers
    /\ DOMAIN held'[e] \subseteq D
    /\ held'[e] \in [DOMAIN held'[e] -> Values]
    /\ \A i \in DOMAIN held'[e] : held'[e][i] = h[i] /\ InWindow(e, i)'
    /\ rhead'[e] = StartAt + Len(dlv'[e])
    /\ C!Prefix(dlv[e], dlv'[e])
    /\ C!Prefix(dlv'[e], sent[Other(e)])
    /\ Received(e)' = (StartAt..(rhead[e] - 1)) \cup D
    /\ rhead'[e] \in DOMAIN held'[e] => ~st /\ held'[e][rhead'[e]] # Reset

LEMMA DeliverFacts ==
    ASSUME TypeOK, InOrder, NEW e \in Peers, NEW st \in BOOLEAN,
           NEW D \in SUBSET Nat, NEW h \in [D -> Values],
           \A i \in D : /\ InWindow(e, i)
                        /\ i \in SentIds(Other(e)) /\ h[i] = MsgAt(Other(e), i),
           Deliver(e, h, st)
    PROVE  DeliverPost(e, h, D, st)
<1>1. PICK k \in 0..RecvSpan :
        /\ Sequenced(e, h, st, k)
        /\ ~Sequenced(e, h, st, k + 1)
        /\ dlv' = [dlv EXCEPT ![e] = @ \o [i \in 1..k |-> h[rhead[e] + i - 1]]]
        /\ rhead' = [rhead EXCEPT ![e] = @ + k]
        /\ held' = [held EXCEPT ![e] =
                       [i \in {j \in D : j >= rhead[e] + k} |-> h[i]]]
  <2>1. DOMAIN h = D
    OBVIOUS
  <2> QED BY <2>1 DEF Deliver
<1> DEFINE up == [i \in 1..k |-> h[rhead[e] + i - 1]]
           o == Other(e)
<1>2. /\ k \in Nat /\ rhead[e] \in Nat /\ StartAt \in Nat /\ RecvSpan \in Nat
      /\ dlv[e] \in Seq(Values) /\ Len(dlv[e]) \in Nat
      /\ rhead[e] = StartAt + Len(dlv[e])
  BY <1>1, TypeFacts, ConstFacts DEF InOrder
<1>3. \A i \in 1..k : rhead[e] + i - 1 \in D
  <2> SUFFICES ASSUME NEW i \in 1..k PROVE rhead[e] + i - 1 \in D
    OBVIOUS
  <2>1. rhead[e] + i - 1 \in rhead[e]..(rhead[e] + k - 1)
    BY <1>2
  <2> QED BY <1>1, <2>1 DEF Sequenced
<1>4. up \in Seq(Values) /\ Len(up) = k /\ \A i \in 1..k : up[i] = h[rhead[e] + i - 1]
  <2>1. \A i \in 1..k : h[rhead[e] + i - 1] \in Values
    BY <1>3
  <2> QED BY <1>2, <2>1
<1> HIDE DEF up
<1>5. /\ dlv'[e] = dlv[e] \o up
      /\ \A f \in Peers : f # e => /\ dlv'[f] = dlv[f] /\ rhead'[f] = rhead[f]
                                  /\ held'[f] = held[f]
      /\ rhead'[e] = rhead[e] + k
      /\ rhead' \in [Peers -> Nat]
      /\ DOMAIN held' = Peers
      /\ held'[e] = [i \in {j \in D : j >= rhead[e] + k} |-> h[i]]
  BY <1>1, <1>2 DEF TypeOK, up
<1>6. /\ dlv'[e] \in Seq(Values) /\ Len(dlv'[e]) = Len(dlv[e]) + k
      /\ \A i \in 1..Len(dlv[e]) : dlv'[e][i] = dlv[e][i]
      /\ \A i \in 1..k : dlv'[e][Len(dlv[e]) + i] = h[rhead[e] + i - 1]
  <2>1. /\ dlv[e] \o up \in Seq(Values)
        /\ Len(dlv[e] \o up) = Len(dlv[e]) + Len(up)
    BY <1>2, <1>4, ConcatFacts, Zenon
  <2>2. \A i \in 1..Len(dlv[e]) : (dlv[e] \o up)[i] = dlv[e][i]
    BY <1>2, <1>4, ConcatLeft, Zenon
  <2>3. \A i \in 1..Len(up) : (dlv[e] \o up)[Len(dlv[e]) + i] = up[i]
    <3> SUFFICES ASSUME NEW i \in 1..Len(up)
                 PROVE  (dlv[e] \o up)[Len(dlv[e]) + i] = up[i]
      OBVIOUS
    <3>1. dlv[e] \in Seq(Values) /\ up \in Seq(Values)
      BY <1>2, <1>4
    <3> QED BY <3>1, ConcatRight, Zenon
  <2> QED BY <1>4, <1>5, <2>1, <2>2, <2>3, Zenon
<1>7. dlv' \in [Peers -> Seq(Values)]
  <2>1. dlv' = [dlv EXCEPT ![e] = dlv'[e]]
    BY <1>1 DEF TypeOK
  <2> QED BY <1>6, <2>1 DEF TypeOK
<1>8. /\ DOMAIN held'[e] = {j \in D : j >= rhead[e] + k}
      /\ \A i \in DOMAIN held'[e] : held'[e][i] = h[i]
      /\ held'[e] \in [DOMAIN held'[e] -> Values]
  BY <1>5
<1>9. ASSUME NEW i \in DOMAIN held'[e] PROVE InWindow(e, i)'
  <2>1. i \in D /\ i >= rhead[e] + k /\ i \in Nat
    BY <1>8
  <2>2. i < rhead[e] + RecvSpan
    BY <2>1 DEF InWindow
  <2>3. i >= rhead'[e] /\ i < rhead'[e] + RecvSpan
    BY <1>2, <1>5, <2>1, <2>2
  <2> QED BY <2>3 DEF InWindow
<1>10. C!Prefix(dlv[e], dlv'[e])
  BY <1>2, <1>6 DEF C!Prefix
<1>11. C!Prefix(dlv'[e], sent[o])
  <2>0. sent[o] \in Seq(Values) /\ Len(sent[o]) \in Nat
    BY PeersFacts DEF TypeOK
  <2>1. C!Prefix(dlv[e], sent[o])
    BY DEF InOrder
  <2>3. ASSUME NEW i \in 1..k
        PROVE  /\ Len(dlv[e]) + i <= Len(sent[o])
               /\ dlv'[e][Len(dlv[e]) + i] = sent[o][Len(dlv[e]) + i]
    <3> DEFINE x == rhead[e] + i - 1
    <3>1. x \in SentIds(o) /\ h[x] = MsgAt(o, x)
      BY <1>3
    <3>2. x - StartAt + 1 = Len(dlv[e]) + i
      BY <1>2
    <3>3. Len(dlv[e]) + i <= Len(sent[o])
      BY <1>2, <2>0, <3>1 DEF SentIds, NextId
    <3>4. dlv'[e][Len(dlv[e]) + i] = h[x]
      BY <1>6
    <3> QED BY <3>1, <3>2, <3>3, <3>4 DEF MsgAt
  <2>4. Len(dlv'[e]) <= Len(sent[o])
    <3>1. CASE k = 0
      BY <1>2, <1>6, <2>0, <2>1, <3>1 DEF C!Prefix
    <3>2. CASE k > 0
      <4>1. k \in 1..k
        BY <1>2, <3>2
      <4> QED BY <1>6, <2>3, <4>1
    <3> QED BY <1>2, <3>1, <3>2
  <2>5. ASSUME NEW i \in 1..Len(dlv'[e]) PROVE dlv'[e][i] = sent[o][i]
    <3>1. CASE i <= Len(dlv[e])
      BY <1>2, <1>6, <2>1, <3>1 DEF C!Prefix
    <3>2. CASE i > Len(dlv[e])
      <4>1. i - Len(dlv[e]) \in 1..k /\ i = Len(dlv[e]) + (i - Len(dlv[e]))
        BY <1>2, <1>6, <3>2
      <4> QED BY <2>3, <4>1
    <3> QED BY <1>2, <1>6, <3>1, <3>2
  <2> QED BY <2>4, <2>5 DEF C!Prefix
<1>12. Received(e)' = (StartAt..(rhead[e] - 1)) \cup D
  <2>1. \A i \in D : i \in Nat /\ i >= rhead[e]
    BY DEF InWindow
  <2>2. \A i \in rhead[e]..(rhead[e] + k - 1) : i \in D
    BY <1>1 DEF Sequenced
  <2>3. Received(e)' = (StartAt..(rhead[e] + k - 1)) \cup {j \in D : j >= rhead[e] + k}
    <3>1. Received(e)' = (StartAt..(rhead'[e] - 1)) \cup DOMAIN held'[e]
      BY DEF Received
    <3>2. rhead'[e] - 1 = rhead[e] + k - 1
      BY <1>2, <1>5
    <3> QED BY <1>8, <3>1, <3>2, Zenon
  <2>4. ASSUME NEW i \in (StartAt..(rhead[e] - 1)) \cup D
        PROVE  i \in Received(e)'
    <3>1. i \in Nat
      BY <1>2, <2>1
    <3>2. i \in D => i >= rhead[e] + k \/ i \in StartAt..(rhead[e] + k - 1)
      BY <1>2, <2>1, <3>1
    <3>3. i \in StartAt..(rhead[e] - 1) => i \in StartAt..(rhead[e] + k - 1)
      BY <1>2, <3>1
    <3> QED BY <2>3, <3>2, <3>3
  <2>5. ASSUME NEW i \in Received(e)'
        PROVE  i \in (StartAt..(rhead[e] - 1)) \cup D
    <3>1. CASE i \in StartAt..(rhead[e] + k - 1)
      <4>1. i \in StartAt..(rhead[e] - 1) \/ i \in rhead[e]..(rhead[e] + k - 1)
        BY <1>2, <3>1
      <4> QED BY <2>2, <4>1
    <3> QED BY <2>3, <3>1
  <2> QED BY <2>4, <2>5
<1>13. rhead'[e] \in DOMAIN held'[e] => ~st /\ held'[e][rhead'[e]] # Reset
  <2> SUFFICES ASSUME rhead'[e] \in DOMAIN held'[e], st \/ held'[e][rhead'[e]] = Reset
               PROVE  FALSE
    OBVIOUS
  <2>1. rhead[e] + k \in D /\ (h[rhead[e] + k] = Reset \/ st)
    BY <1>5, <1>8
  <2>2. \A i \in rhead[e]..(rhead[e] + (k + 1) - 1) :
           i \in rhead[e]..(rhead[e] + k - 1) \/ i = rhead[e] + k
    BY <1>2
  <2>3. Sequenced(e, h, st, k + 1)
    BY <1>1, <2>1, <2>2 DEF Sequenced
  <2> QED BY <1>1, <2>3
<1>14. DOMAIN held'[e] \subseteq D
  BY <1>8
<1> QED BY <1>5, <1>6, <1>7, <1>8, <1>9, <1>10, <1>11, <1>12, <1>13, <1>14, <1>2 DEF DeliverPost

(* What a handler leaves in the receive window of a peer. *)
RecvPost(e) ==
    /\ \A f \in Peers : f # e => /\ dlv'[f] = dlv[f] /\ rhead'[f] = rhead[f]
                                /\ held'[f] = held[f] /\ started'[f] = started[f]
    /\ dlv' \in [Peers -> Seq(Values)]
    /\ rhead' \in [Peers -> Nat]
    /\ started' \in [Peers -> BOOLEAN]
    /\ DOMAIN held' = Peers
    /\ DOMAIN held'[e] \subseteq Nat
    /\ held'[e] \in [DOMAIN held'[e] -> Values]
    /\ \A i \in DOMAIN held'[e] :
          /\ InWindow(e, i)'
          /\ i \in SentIds(Other(e)) /\ held'[e][i] = MsgAt(Other(e), i)
    /\ rhead'[e] = StartAt + Len(dlv'[e])
    /\ C!Prefix(dlv[e], dlv'[e])
    /\ C!Prefix(dlv'[e], sent[Other(e)])
    /\ rhead'[e] \in DOMAIN held'[e] => ~started'[e] /\ held'[e][rhead'[e]] # Reset
    /\ Received(e) \subseteq Received(e)'

(* The rest of a handler: re_acks, and, where they are true, what its ACKs   *)
(* say and which ACKs it took.                                               *)
AckPost(e, un, R) ==
    /\ seen' \in [Peers -> SUBSET Nat] /\ floor' \in [Peers -> Nat]
    /\ reacks' = [reacks EXCEPT ![e] = R]
    /\ ~wrapped => /\ \A i \in 1..Len(R) : R[i] \in Received(e)'
                   /\ unacked[e] \ un \subseteq Received(Other(e))

(* Sending more changes nothing about what was sent. *)
LEMMA GrowFacts ==
    ASSUME TypeOK, NEW e \in Peers,
           sent' \in [Peers -> Seq(Values)],
           \A f \in Peers : f # e => sent'[f] = sent[f],
           C!Prefix(sent[e], sent'[e]),
           NEW f \in Peers
    PROVE  /\ Len(sent[f]) \in Nat /\ Len(sent'[f]) \in Nat /\ Len(sent[f]) <= Len(sent'[f])
           /\ \A i \in 1..Len(sent[f]) : sent'[f][i] = sent[f][i]
           /\ \A i \in SentIds(f) : i \in SentIds(f)' /\ MsgAt(f, i)' = MsgAt(f, i)
<1>1. Len(sent[f]) \in Nat /\ Len(sent'[f]) \in Nat
  <2>1. sent'[f] \in Seq(Values)
    OBVIOUS
  <2> QED BY <2>1, TypeFacts
<1>2. Len(sent[f]) <= Len(sent'[f]) /\ \A i \in 1..Len(sent[f]) : sent'[f][i] = sent[f][i]
  <2>1. CASE f = e
    BY <2>1 DEF C!Prefix
  <2>2. CASE f # e
    BY <1>1, <2>2
  <2> QED BY <2>1, <2>2
<1>3. ASSUME NEW i \in SentIds(f)
      PROVE  i \in SentIds(f)' /\ MsgAt(f, i)' = MsgAt(f, i)
  <2>1. i \in StartAt..((StartAt + Len(sent[f])) - 1)
    BY <1>3 DEF SentIds, NextId
  <2>2. i \in StartAt..((StartAt + Len(sent'[f])) - 1)
    BY <1>1, <1>2, <2>1, ConstFacts
  <2>3. i - StartAt + 1 \in 1..Len(sent[f])
    BY <1>1, <2>1, ConstFacts
  <2>4. i \in SentIds(f)'
    BY <2>2 DEF SentIds, NextId
  <2> QED BY <1>2, <2>3, <2>4 DEF MsgAt
<1> QED BY <1>1, <1>2, <1>3

(* A handler that ends in flush keeps the invariant, and is a step of the    *)
(* abstract channel.                                                         *)
LEMMA HandlerInv ==
    ASSUME IndInv, NEW e \in Peers, NEW un \in SUBSET unacked[e], NEW R \in Seq(Nat),
           FlushPost(e, un, R), RecvPost(e), AckPost(e, un, R)
    PROVE  IndInv' /\ C!Call(e)
<1> DEFINE o == Other(e)
<1>0. TypeOK /\ Faithful /\ InOrder /\ SendWindow
  BY DEF IndInv
<1>1. o \in Peers /\ o # e /\ Other(o) = e /\ \A f \in Peers : f = e \/ f = o
  BY PeersFacts
<1>2. \A f \in Peers :
        /\ Len(sent[f]) \in Nat /\ Len(sent'[f]) \in Nat /\ Len(sent[f]) <= Len(sent'[f])
        /\ \A i \in 1..Len(sent[f]) : sent'[f][i] = sent[f][i]
        /\ \A i \in SentIds(f) : i \in SentIds(f)' /\ MsgAt(f, i)' = MsgAt(f, i)
  BY <1>0, GrowFacts DEF FlushPost
<1>3. /\ dlv'[o] = dlv[o] /\ rhead'[o] = rhead[o] /\ held'[o] = held[o]
      /\ started'[o] = started[o] /\ sent'[o] = sent[o] /\ unacked'[o] = unacked[o]
  BY <1>1 DEF FlushPost, RecvPost
<1>4. Received(o)' = Received(o) /\ Received(e) \subseteq Received(e)'
  BY <1>3 DEF Received, RecvPost
<1>5. TypeOK'
  <2>1. \A f \in Peers : /\ DOMAIN held'[f] \subseteq Nat
                         /\ held'[f] \in [DOMAIN held'[f] -> Values]
    BY <1>0, <1>1, <1>3 DEF RecvPost, TypeOK
  <2>2. reacks' \in [Peers -> Seq(Nat)]
    BY <1>0 DEF AckPost, TypeOK
  <2>3. net' \subseteq Packets
    BY <1>0 DEF FlushPost, TypeOK
  <2> QED BY <1>0, <2>1, <2>2, <2>3 DEF TypeOK, FlushPost, RecvPost, AckPost
<1>6. Faithful'
  <2>1. ASSUME NEW p \in net', p.id # NoId
        PROVE  p.id \in SentIds(p.src)' /\ p.val = MsgAt(p.src, p.id)'
    <3>1. CASE p \in net
      <4>1. p.src \in Peers
        BY <1>0, <3>1 DEF TypeOK, Packets
      <4>2. p.id \in SentIds(p.src) /\ p.val = MsgAt(p.src, p.id)
        BY <1>0, <2>1, <3>1 DEF Faithful
      <4> QED BY <1>2, <4>1, <4>2
    <3>2. CASE p \notin net
      BY <2>1, <3>2 DEF FlushPost
    <3> QED BY <3>1, <3>2
  <2>2. ASSUME NEW f \in Peers, NEW i \in DOMAIN held'[f]
        PROVE  /\ InWindow(f, i)'
               /\ i \in SentIds(Other(f))' /\ held'[f][i] = MsgAt(Other(f), i)'
    <3>1. CASE f = e
      <4>1. InWindow(e, i)' /\ i \in SentIds(o) /\ held'[e][i] = MsgAt(o, i)
        BY <2>2, <3>1 DEF RecvPost
      <4> QED BY <1>1, <1>2, <3>1, <4>1
    <3>2. CASE f = o
      <4>1. InWindow(o, i) /\ i \in SentIds(e) /\ held[o][i] = MsgAt(e, i)
        BY <1>0, <1>1, <1>3, <2>2, <3>2 DEF Faithful
      <4>2. InWindow(o, i)'
        BY <1>3, <4>1 DEF InWindow
      <4> QED BY <1>1, <1>2, <1>3, <3>2, <4>1, <4>2
    <3> QED BY <1>1, <2>2, <3>1, <3>2
  <2> QED BY <2>1, <2>2 DEF Faithful
<1>7. InOrder'
  <2>1. /\ rhead'[e] = StartAt + Len(dlv'[e])
        /\ C!Prefix(dlv'[e], sent'[o])
        /\ rhead'[e] \in DOMAIN held'[e] => ~started'[e] /\ held'[e][rhead'[e]] # Reset
    BY <1>3 DEF RecvPost
  <2>2. /\ rhead'[o] = StartAt + Len(dlv'[o])
        /\ rhead'[o] \in DOMAIN held'[o] => ~started'[o] /\ held'[o][rhead'[o]] # Reset
    BY <1>0, <1>1, <1>3 DEF InOrder
  <2>3. C!Prefix(dlv'[o], sent'[e])
    <3>1. C!Prefix(dlv[o], sent[e]) /\ Len(dlv[o]) \in Nat
      BY <1>0, <1>1, TypeFacts DEF InOrder
    <3>2. Len(dlv[o]) <= Len(sent'[e])
      BY <1>2, <3>1 DEF C!Prefix
    <3>3. ASSUME NEW i \in 1..Len(dlv[o]) PROVE dlv[o][i] = sent'[e][i]
      <4>1. i \in 1..Len(sent[e]) /\ dlv[o][i] = sent[e][i]
        BY <1>2, <3>1 DEF C!Prefix
      <4> QED BY <1>2, <4>1
    <3> QED BY <1>3, <3>2, <3>3 DEF C!Prefix
  <2> QED BY <1>1, <2>1, <2>2, <2>3 DEF InOrder
<1>8. SendWindow'
  <2>1. unacked'[e] \subseteq SentIds(e)'
    <3>1. \A i \in un : i \in SentIds(e)'
      BY <1>0, <1>2 DEF SendWindow
    <3>2. \A i \in NextId(e)..(NextId(e)' - 1) : i \in SentIds(e)'
      BY <1>2, ConstFacts DEF NextId, SentIds
    <3> QED BY <3>1, <3>2 DEF FlushPost
  <2>2. \A i \in unacked'[e] : NextId(e)' <= i + SendSpan
    BY DEF FlushPost
  <2>3. NextId(o)' = NextId(o) /\ SentIds(o)' = SentIds(o)
    BY <1>3 DEF NextId, SentIds
  <2>4. /\ unacked'[o] \subseteq SentIds(o)'
        /\ \A i \in unacked'[o] : NextId(o)' <= i + SendSpan
    BY <1>0, <1>1, <1>3, <2>3 DEF SendWindow
  <2> QED BY <1>1, <2>1, <2>2, <2>4 DEF SendWindow
<1>9. AcksTrue'
  <2> SUFFICES ASSUME ~wrapped PROVE AcksTrue'
    BY DEF FlushPost, AcksTrue
  <2>0. AcksTrue /\ \A i \in 1..Len(R) : R[i] \in Received(e)'
    BY DEF IndInv, AckPost
  <2>1. ASSUME NEW p \in net' PROVE p.acks \subseteq Received(p.src)'
    <3>1. CASE p \in net
      <4>1. p.src \in Peers /\ p.acks \subseteq Received(p.src)
        BY <1>0, <2>0, <3>1 DEF TypeOK, Packets, AcksTrue
      <4> QED BY <1>1, <1>4, <4>1
    <3>2. CASE p \notin net
      <4>1. p.src = e /\ p.acks = PacketAcks(R)
        BY <3>2 DEF FlushPost
      <4>2. \A a \in PacketAcks(R) : \E i \in 1..Len(R) : a = R[i]
        BY ConstFacts DEF PacketAcks, Least
      <4> QED BY <2>0, <4>1, <4>2
    <3> QED BY <3>1, <3>2
  <2>2. ASSUME NEW f \in Peers, NEW i \in 1..Len(reacks'[f])
        PROVE  reacks'[f][i] \in Received(f)'
    <3>1. CASE f = e
      <4>1. reacks'[e] = R
        BY <1>0 DEF AckPost, TypeOK
      <4> QED BY <2>0, <2>2, <3>1, <4>1
    <3>2. CASE f = o
      <4>1. reacks'[o] = reacks[o]
        BY <1>0, <1>1 DEF AckPost, TypeOK
      <4> QED BY <1>1, <1>4, <2>0, <2>2, <3>2, <4>1 DEF AcksTrue
    <3> QED BY <1>1, <3>1, <3>2
  <2>3. SentIds(e)' \ unacked'[e] \subseteq Received(o)'
    <3> SUFFICES ASSUME NEW i \in SentIds(e)', i \notin unacked'[e]
                 PROVE  i \in Received(o)
      BY <1>4
    <3>1. i \notin un /\ i \notin NextId(e)..(NextId(e)' - 1)
      BY DEF FlushPost
    <3>2. i \in SentIds(e)
      BY <1>2, <3>1, ConstFacts DEF NextId, SentIds
    <3>3. CASE i \in unacked[e]
      BY <3>1, <3>3 DEF AckPost
    <3>4. CASE i \notin unacked[e]
      BY <1>1, <2>0, <3>2, <3>4 DEF AcksTrue, AckedWasReceived
    <3> QED BY <3>3, <3>4
  <2>4. SentIds(o)' \ unacked'[o] \subseteq Received(e)'
    <3>1. SentIds(o)' = SentIds(o)
      BY <1>3 DEF NextId, SentIds
    <3>2. SentIds(o) \ unacked[o] \subseteq Received(e)
      BY <1>1, <2>0 DEF AcksTrue, AckedWasReceived
    <3> QED BY <1>3, <1>4, <3>1, <3>2
  <2>5. AckedWasReceived'
    BY <1>1, <2>3, <2>4 DEF AckedWasReceived
  <2> QED BY <2>1, <2>2, <2>5 DEF AcksTrue
<1>10. C!Call(e)
  BY DEF FlushPost, RecvPost, C!Call
<1> QED BY <1>5, <1>6, <1>7, <1>8, <1>9, <1>10 DEF IndInv

(* Fresh key contexts satisfy the invariant. *)
LEMMA InitIndInv == Init => IndInv
<1> SUFFICES ASSUME Init PROVE IndInv
  OBVIOUS
<1>1. TypeOK
  BY ReliableAssumption, ConstFacts DEF Init, TypeOK
<1>2. \A e \in Peers : /\ sent[e] = <<>> /\ dlv[e] = <<>> /\ unacked[e] = {} /\ held[e] = <<>>
                      /\ reacks[e] = <<>> /\ rhead[e] = StartAt
  BY DEF Init
<1>3. \A e \in Peers : SentIds(e) = {} /\ NextId(e) = StartAt
  BY <1>2, ConstFacts DEF SentIds, NextId
<1>4. Faithful
  BY <1>2 DEF Faithful, Init
<1>5. InOrder
  BY <1>2, ConstFacts, PeersFacts DEF InOrder, C!Prefix
<1>6. SendWindow
  BY <1>2 DEF SendWindow
<1>7. AcksTrue
  BY <1>2, <1>3 DEF AcksTrue, AckedWasReceived, Init
<1> QED BY <1>1, <1>4, <1>5, <1>6, <1>7 DEF IndInv

(* A handler that receives nothing. *)
LEMMA QuietInv ==
    ASSUME IndInv, NEW e \in Peers, NEW raw \in Seq({Reset}), NEW app \in Seq(Data),
           NEW st \in BOOLEAN,
           Flush(e, unacked[e], raw, app, reacks[e], FALSE, st),
           UNCHANGED <<recvVars, reacks, seen, floor>>
    PROVE  IndInv' /\ C!Call(e)
<1>0. TypeOK /\ Faithful /\ InOrder /\ SendWindow /\ AcksTrue
  BY DEF IndInv
<1>1. reacks[e] \in Seq(Nat)
  BY <1>0 DEF TypeOK
<1>2. FlushPost(e, unacked[e], reacks[e])
  BY <1>0, <1>1, FlushFacts
<1>3. /\ rhead' = rhead /\ held' = held /\ dlv' = dlv /\ started' = started
      /\ reacks' = reacks /\ seen' = seen /\ floor' = floor
  BY DEF recvVars
<1>4. Received(e)' = Received(e) /\ \A i : InWindow(e, i)' = InWindow(e, i)
  BY <1>3 DEF Received, InWindow
<1>5. RecvPost(e)
  <2>1. C!Prefix(dlv[e], dlv'[e])
    BY <1>3 DEF C!Prefix
  <2> QED BY <1>0, <1>3, <1>4, <2>1 DEF RecvPost, TypeOK, Faithful, InOrder
<1>6. AckPost(e, unacked[e], reacks[e])
  <2>1. reacks' = [reacks EXCEPT ![e] = reacks[e]]
    BY <1>0, <1>3 DEF TypeOK
  <2>2. seen' \in [Peers -> SUBSET Nat] /\ floor' \in [Peers -> Nat]
    BY <1>0, <1>3 DEF TypeOK
  <2>3. ~wrapped => \A i \in 1..Len(reacks[e]) : reacks[e][i] \in Received(e)'
    BY <1>0, <1>4 DEF AcksTrue
  <2> QED BY <2>1, <2>2, <2>3 DEF AckPost
<1> QED BY <1>1, <1>2, <1>5, <1>6, HandlerInv

(* KeyContext::start keeps the invariant. *)
LEMMA BeginInv == ASSUME IndInv, NEW e \in Peers, Begin(e) PROVE IndInv' /\ C!Call(e)
<1>1. unacked[e] = {}
  <2>1. SentIds(e) = {}
    BY ConstFacts DEF Begin, SentIds, NextId
  <2> QED BY <2>1 DEF IndInv, SendWindow
<1>2. <<Reset>> \in Seq({Reset}) /\ appq[e] \in Seq(Data) /\ started[e] \in BOOLEAN
  BY DEF IndInv, TypeOK
<1>3. Flush(e, unacked[e], <<Reset>>, appq[e], reacks[e], FALSE, started[e])
  BY <1>1 DEF Begin
<1> QED BY <1>2, <1>3, QuietInv DEF Begin

(* app_send keeps the invariant. *)
LEMMA SubmitInv ==
    ASSUME IndInv, NEW e \in Peers, NEW d \in Data, Submit(e, d) PROVE IndInv' /\ C!Call(e)
<1>1. rawq[e] \in Seq({Reset}) /\ Append(appq[e], d) \in Seq(Data)
  BY DEF IndInv, TypeOK
<1>2. Flush(e, unacked[e], rawq[e], Append(appq[e], d), reacks[e], FALSE, TRUE)
  BY DEF Submit
<1> QED BY <1>1, <1>2, QuietInv DEF Submit

(* net_recv, with what it delivers and flushes, keeps the invariant. *)
LEMMA ReceiveInv ==
    ASSUME IndInv, NEW e \in Peers, NEW p \in net, Receive(e, p) PROVE IndInv' /\ C!Call(e)
<1> DEFINE o == Other(e)
           ok == PidOk(e, p)
           msg == p.id # NoId
           store == ok /\ msg /\ InWindow(e, p.id)
           fresh == msg /\ (ok => InWindow(e, p.id) \/ PreWindow(e, p.id))
           un == IF ok THEN unacked[e] \ p.acks ELSE unacked[e]
           h == IF store
                THEN [i \in DOMAIN held[e] \cup {p.id} |->
                         IF i = p.id THEN p.val ELSE held[e][i]]
                ELSE held[e]
           first == /\ dlv[e] = <<>> /\ rhead[e] \in DOMAIN h
                    /\ h[rhead[e]] = Reset
           st == started[e] \/ ((dlv[e] # <<>> \/ first) /\ un = {})
           R == IF fresh THEN AddReack(reacks[e], p.id) ELSE reacks[e]
           raw == IF first /\ e = Server THEN Append(rawq[e], Reset) ELSE rawq[e]
           D == DOMAIN held[e] \cup (IF store THEN {p.id} ELSE {})
<1>0. TypeOK /\ Faithful /\ InOrder /\ SendWindow /\ AcksTrue
  BY DEF IndInv
<1>1. PICK more \in Records(e) : Flush(e, un, raw, appq[e] \o more, R, fresh, st)
  BY DEF Receive
<1>2. /\ p.src = o
      /\ Deliver(e, h, st)
      /\ started' = [started EXCEPT ![e] = st]
      /\ reacks' = [reacks EXCEPT ![e] = R]
      /\ seen' = IF wrapped /\ ok /\ (msg => store)
                 THEN [seen EXCEPT ![e] = @ \cup {p.pid}] ELSE seen
      /\ floor' = floor
  BY DEF Receive
<1>3. p \in Packets /\ o \in Peers
  BY <1>0, PeersFacts DEF TypeOK
<1>4. msg => p.id \in Nat /\ p.id \in SentIds(o) /\ p.val = MsgAt(o, p.id) /\ p.val \in Values
  <2>1. ASSUME msg PROVE p.id \in SentIds(o) /\ p.val = MsgAt(o, p.id) /\ p.id \in Nat
    BY <1>0, <1>2, <1>3, <2>1 DEF Faithful, Packets
  <2>2. ASSUME msg PROVE p.val \in Values
    <3>1. p.id - StartAt + 1 \in 1..Len(sent[o]) /\ sent[o] \in Seq(Values)
      BY <1>0, <1>3, <2>1, <2>2, ConstFacts, TypeFacts DEF SentIds, NextId
    <3> QED BY <2>1, <2>2, <3>1 DEF MsgAt
  <2> QED BY <2>1, <2>2
<1>5. /\ DOMAIN held[e] \subseteq Nat /\ held[e] \in [DOMAIN held[e] -> Values]
      /\ started[e] \in BOOLEAN
  BY <1>0 DEF TypeOK
<1>6. D \in SUBSET Nat /\ h \in [D -> Values]
  <2>1. CASE store
    BY <1>4, <1>5, <2>1
  <2>2. CASE ~store
    BY <1>5, <2>2
  <2> QED BY <2>1, <2>2
<1>7. \A i \in D : InWindow(e, i) /\ i \in SentIds(o) /\ h[i] = MsgAt(o, i)
  <2>1. \A i \in DOMAIN held[e] : InWindow(e, i) /\ i \in SentIds(o) /\ held[e][i] = MsgAt(o, i)
    BY <1>0 DEF Faithful
  <2>2. CASE store
    BY <1>4, <2>1, <2>2
  <2>3. CASE ~store
    BY <2>1, <2>3
  <2> QED BY <2>2, <2>3
<1>8. un \in SUBSET unacked[e] /\ fresh \in BOOLEAN /\ st \in BOOLEAN
  BY <1>5
<1>9. R \in Seq(Nat)
  BY <1>0, <1>4, AddReackFacts DEF TypeOK
<1>10. raw \in Seq({Reset}) /\ appq[e] \o more \in Seq(Data)
  <2>1. rawq[e] \in Seq({Reset}) /\ Append(rawq[e], Reset) \in Seq({Reset})
    BY <1>0 DEF TypeOK
  <2>2. appq[e] \in Seq(Data) /\ more \in Seq(Data)
    <3>1. more = <<>> \/ \E d \in Data : more = <<d>>
      BY DEF Records
    <3>2. more \in Seq(Data)
      <4>1. CASE more = <<>>
        BY <4>1
      <4>2. CASE \E d \in Data : more = <<d>>
        <5>1. PICK d \in Data : more = <<d>>
          BY <4>2
        <5> QED BY <5>1
      <4> QED BY <3>1, <4>1, <4>2
    <3> QED BY <1>0, <3>2 DEF TypeOK
  <2>3. appq[e] \o more \in Seq(Data)
    BY <2>2, ConcatFacts, Zenon
  <2>4. raw \in Seq({Reset})
    BY <2>1
  <2> QED BY <2>3, <2>4
<1> HIDE DEF ok, msg, store, fresh, un, h, first, st, R, raw, D
<1>11. FlushPost(e, un, R)
  BY <1>0, <1>1, <1>8, <1>9, <1>10, FlushFacts
<1>12. DeliverPost(e, h, D, st)
  BY <1>0, <1>2, <1>6, <1>7, <1>8, DeliverFacts
<1>13. Received(e) \subseteq Received(e)'
  BY <1>12 DEF Received, D, DeliverPost
<1>14. RecvPost(e)
  <2>1. started' \in [Peers -> BOOLEAN] /\ started'[e] = st
        /\ \A f \in Peers : f # e => started'[f] = started[f]
    BY <1>0, <1>2, <1>8 DEF TypeOK
  <2>2. \A i \in DOMAIN held'[e] : i \in SentIds(o) /\ held'[e][i] = MsgAt(o, i)
    BY <1>7, <1>12 DEF DeliverPost
  <2>3. DOMAIN held'[e] \subseteq Nat
    BY <1>6, <1>12 DEF DeliverPost
  <2> QED BY <1>12, <1>13, <2>1, <2>2, <2>3 DEF RecvPost, DeliverPost
<1>15. AckPost(e, un, R)
  <2>1. seen' \in [Peers -> SUBSET Nat] /\ floor' \in [Peers -> Nat]
    <3>1. p.pid \in Nat /\ seen \in [Peers -> SUBSET Nat] /\ floor \in [Peers -> Nat]
      BY <1>0, <1>3 DEF TypeOK, Packets
    <3> QED BY <1>2, <3>1
  <2>2. ASSUME ~wrapped PROVE \A i \in 1..Len(R) : R[i] \in Received(e)'
    <3>0. AcksTrue /\ ok
      BY <1>0, <2>2 DEF PidOk, ok
    <3>1. \A i \in 1..Len(reacks[e]) : reacks[e][i] \in Received(e)'
      BY <1>13, <2>2, <3>0 DEF AcksTrue
    <3>2. CASE fresh
      <4>1. msg /\ p.id \in Nat /\ p.id \in SentIds(o)
        BY <1>4, <3>2 DEF fresh, msg
      <4>2. p.id \in Received(e)'
        <5>1. CASE InWindow(e, p.id)
          BY <1>12, <3>0, <4>1, <5>1 DEF D, store, DeliverPost
        <5>2. CASE PreWindow(e, p.id)
          <6>1. p.id \in StartAt..(rhead[e] - 1)
            BY <1>0, <4>1, <5>2, ConstFacts, TypeFacts DEF PreWindow, SentIds
          <6> QED BY <1>12, <6>1 DEF DeliverPost
        <5> QED BY <3>0, <3>2, <5>1, <5>2 DEF fresh
      <4>3. reacks[e] \in Seq(Nat) /\ R = AddReack(reacks[e], p.id)
        BY <1>0, <3>2 DEF TypeOK, R
      <4>4. \A i \in 1..Len(R) : R[i] = p.id \/ \E j \in 1..Len(reacks[e]) : R[i] = reacks[e][j]
        BY <4>1, <4>3, AddReackFacts
      <4> QED BY <3>1, <4>2, <4>4
    <3>3. CASE ~fresh
      BY <3>1, <3>3 DEF R
    <3> QED BY <3>2, <3>3
  <2>3. ASSUME ~wrapped PROVE unacked[e] \ un \subseteq Received(o)
    <3>1. p.acks \subseteq Received(o)
      BY <1>0, <1>2, <2>3 DEF AcksTrue
    <3> QED BY <3>1 DEF un
  <2> QED BY <1>2, <2>1, <2>2, <2>3 DEF AckPost
<1> QED BY <1>8, <1>9, <1>11, <1>14, <1>15, HandlerInv

(* retransmit keeps the invariant. *)
LEMMA RetransmitInv ==
    ASSUME IndInv, NEW e \in Peers, NEW due \in SUBSET unacked[e], Retransmit(e, due)
    PROVE  IndInv' /\ UNCHANGED <<sent, dlv>>
<1> DEFINE pk(i) == [src |-> e, id |-> i, val |-> MsgAt(e, i),
                     acks |-> PacketAcks(reacks[e]),
                     pid |-> IF wrapped THEN npid[e] + i - StartAt + 1 ELSE 0]
<1>0. TypeOK /\ Faithful /\ InOrder /\ SendWindow /\ AcksTrue
  BY DEF IndInv
<1>1. /\ net' = net \cup {pk(i) : i \in due}
      /\ npid' = IF wrapped THEN [npid EXCEPT ![e] = @ + Len(sent[e])] ELSE npid
      /\ UNCHANGED <<rawq, appq, sent, unacked, rhead, held, dlv, started, reacks, wrapped, seen, floor>>
  BY DEF Retransmit, sendVars, recvVars
<1>2. ASSUME NEW i \in due
      PROVE  /\ pk(i) \in Packets /\ i \in SentIds(e)
             /\ pk(i).id = i /\ pk(i).src = e /\ pk(i).val = MsgAt(e, i)
             /\ pk(i).acks = PacketAcks(reacks[e])
  <2>1. i \in SentIds(e) /\ i \in Nat
    BY <1>0, TypeFacts DEF SendWindow
  <2>2. MsgAt(e, i) \in Values
    <3>1. i - StartAt + 1 \in 1..Len(sent[e]) /\ sent[e] \in Seq(Values)
      BY <1>0, <2>1, ConstFacts, TypeFacts DEF SentIds, NextId
    <3> QED BY <3>1 DEF MsgAt
  <2>3. PacketAcks(reacks[e]) \in SUBSET Nat
    <3>1. reacks[e] \in Seq(Nat)
      BY <1>0 DEF TypeOK
    <3> QED BY <3>1, ConstFacts DEF PacketAcks, Least
  <2>4. (IF wrapped THEN npid[e] + i - StartAt + 1 ELSE 0) \in Nat
    BY <1>0, <2>1, ConstFacts, TypeFacts DEF SentIds, NextId
  <2> QED BY <2>1, <2>2, <2>3, <2>4 DEF Packets
<1> HIDE DEF pk
<1>3. \A f \in Peers : /\ SentIds(f)' = SentIds(f) /\ NextId(f)' = NextId(f)
                      /\ Received(f)' = Received(f)
                      /\ \A i : InWindow(f, i)' = InWindow(f, i) /\ MsgAt(f, i)' = MsgAt(f, i)
  BY <1>1 DEF SentIds, NextId, Received, InWindow, MsgAt
<1>4. TypeOK'
  <2>1. net' \subseteq Packets
    BY <1>0, <1>1, <1>2 DEF TypeOK
  <2>2. npid' \in [Peers -> Nat]
    <3>0. npid[e] \in Nat /\ Len(sent[e]) \in Nat
      BY <1>0, TypeFacts
    <3>1. npid \in [Peers -> Nat] /\ npid[e] + Len(sent[e]) \in Nat
      BY <1>0, <3>0 DEF TypeOK
    <3>2. npid' = npid \/ npid' = [npid EXCEPT ![e] = npid[e] + Len(sent[e])]
      BY <1>1
    <3> QED BY <3>1, <3>2
  <2> QED BY <1>0, <1>1, <2>1, <2>2 DEF TypeOK
<1>5. Faithful'
  <2>1. ASSUME NEW p \in net', p.id # NoId
        PROVE  p.id \in SentIds(p.src)' /\ p.val = MsgAt(p.src, p.id)'
    <3>1. CASE p \in net
      <4>1. p.src \in Peers
        BY <1>0, <3>1 DEF TypeOK, Packets
      <4> QED BY <1>0, <1>3, <2>1, <3>1, <4>1 DEF Faithful
    <3>2. CASE p \notin net
      <4>1. PICK i \in due : p = pk(i)
        BY <1>1, <3>2
      <4> QED BY <1>2, <1>3, <4>1
    <3> QED BY <3>1, <3>2
  <2>2. \A f \in Peers : \A i \in DOMAIN held'[f] :
          /\ InWindow(f, i)'
          /\ i \in SentIds(Other(f))' /\ held'[f][i] = MsgAt(Other(f), i)'
    BY <1>0, <1>1, <1>3, PeersFacts DEF Faithful
  <2> QED BY <2>1, <2>2 DEF Faithful
<1>6. InOrder'
  BY <1>0, <1>1 DEF InOrder
<1>7. SendWindow'
  BY <1>0, <1>1, <1>3 DEF SendWindow
<1>8. AcksTrue'
  <2> SUFFICES ASSUME ~wrapped PROVE AcksTrue'
    BY <1>1 DEF AcksTrue
  <2>1. ASSUME NEW p \in net' PROVE p.acks \subseteq Received(p.src)'
    <3>1. CASE p \in net
      <4>1. p.src \in Peers
        BY <1>0, <3>1 DEF TypeOK, Packets
      <4> QED BY <1>0, <1>3, <3>1, <4>1 DEF AcksTrue
    <3>2. CASE p \notin net
      <4>1. PICK i \in due : p = pk(i)
        BY <1>1, <3>2
      <4>2. \A a \in PacketAcks(reacks[e]) : \E j \in 1..Len(reacks[e]) : a = reacks[e][j]
        <5>1. Len(reacks[e]) \in Nat
          BY <1>0 DEF TypeOK
        <5> QED BY <5>1, ConstFacts DEF PacketAcks, Least
      <4> QED BY <1>0, <1>2, <1>3, <4>1, <4>2 DEF AcksTrue
    <3> QED BY <3>1, <3>2
  <2>2. AckedWasReceived'
    BY <1>0, <1>1, <1>3, PeersFacts DEF AcksTrue, AckedWasReceived
  <2> QED BY <1>0, <1>1, <1>3, <2>1, <2>2 DEF AcksTrue
<1> QED BY <1>1, <1>4, <1>5, <1>6, <1>7, <1>8 DEF IndInv

(* Steps that only take packets away or move the floor of the packet ids. *)
LEMMA IdleInv ==
    ASSUME IndInv, net' \subseteq net, floor' \in [Peers -> Nat],
           UNCHANGED <<sendVars, recvVars, reacks, wrapped, npid, seen>>
    PROVE  IndInv' /\ UNCHANGED <<sent, dlv>>
<1>1. UNCHANGED <<rawq, appq, sent, unacked, rhead, held, dlv, started, reacks, wrapped, npid, seen>>
  BY DEF sendVars, recvVars
<1>2. \A f : /\ SentIds(f)' = SentIds(f) /\ NextId(f)' = NextId(f)
            /\ Received(f)' = Received(f)
            /\ \A i : InWindow(f, i)' = InWindow(f, i) /\ MsgAt(f, i)' = MsgAt(f, i)
  BY <1>1 DEF SentIds, NextId, Received, InWindow, MsgAt
<1>3. TypeOK'
  BY <1>1 DEF IndInv, TypeOK
<1>4. Faithful'
  BY <1>1, <1>2 DEF IndInv, Faithful
<1>5. InOrder' /\ SendWindow'
  BY <1>1, <1>2 DEF IndInv, InOrder, SendWindow
<1>6. AcksTrue'
  BY <1>1, <1>2 DEF IndInv, AcksTrue, AckedWasReceived
<1> QED BY <1>1, <1>3, <1>4, <1>5, <1>6 DEF IndInv

(* Every step keeps the invariant. *)
LEMMA StepInv ==
    IndInv /\ [Next]_vars => IndInv' /\ [\E e \in Peers : C!Call(e)]_<<sent, dlv>>
<1> SUFFICES ASSUME IndInv, [Next]_vars
             PROVE  IndInv' /\ [\E e \in Peers : C!Call(e)]_<<sent, dlv>>
  OBVIOUS
<1>1. ASSUME NEW e \in Peers, Begin(e)
      PROVE  IndInv' /\ C!Call(e)
  BY <1>1, BeginInv
<1>2. ASSUME NEW e \in Peers, NEW p \in net, Receive(e, p)
      PROVE  IndInv' /\ C!Call(e)
  BY <1>2, ReceiveInv
<1>3. ASSUME NEW e \in Peers, NEW d \in Data, Submit(e, d)
      PROVE  IndInv' /\ C!Call(e)
  BY <1>3, SubmitInv
<1>4. ASSUME NEW e \in Peers, NEW due \in SUBSET unacked[e], Retransmit(e, due)
      PROVE  IndInv' /\ UNCHANGED <<sent, dlv>>
  BY <1>4, RetransmitInv
<1>5. ASSUME NEW e \in Peers, Expire(e)
      PROVE  IndInv' /\ UNCHANGED <<sent, dlv>>
  <2>1. PICK m \in seen[e] : floor' = [floor EXCEPT ![e] = m]
    BY <1>5 DEF Expire
  <2>2. floor' \in [Peers -> Nat]
    BY <2>1 DEF IndInv, TypeOK
  <2> QED BY <1>5, <2>2, IdleInv DEF Expire
<1>6. ASSUME NEW p \in net, Lose(p)
      PROVE  IndInv' /\ UNCHANGED <<sent, dlv>>
  <2>1. floor' \in [Peers -> Nat]
    BY <1>6 DEF Lose, pidVars, IndInv, TypeOK
  <2> QED BY <1>6, <2>1, IdleInv DEF Lose, pidVars
<1>7. CASE UNCHANGED vars
  <2>1. floor' \in [Peers -> Nat]
    BY <1>7 DEF vars, pidVars, IndInv, TypeOK
  <2> QED BY <1>7, <2>1, IdleInv DEF vars, pidVars
<1> QED BY <1>1, <1>2, <1>3, <1>4, <1>5, <1>6, <1>7 DEF Next

(* The invariant of both windows, the queues and the packets in transit, for *)
(* any sizes: reliable/ and protostack.hpp keep the two ends in step.        *)
THEOREM ReliableInvariant == Spec => []IndInv
<1>1. Init => IndInv
  BY InitIndInv
<1>2. IndInv /\ [Next]_vars => IndInv'
  BY StepInv
<1> QED BY <1>1, <1>2, PTL DEF Spec

(* Messages go up once and in the order they were sent (up_sequenced over    *)
(* rel_recv): the layer implements the abstract channel, for any window      *)
(* sizes and any behaviour of the network, packet id checks included.        *)
THEOREM FifoThm == Spec => FifoDelivery
<1>1. Init => C!Start
  BY DEF Init, C!Start
<1>2. IndInv /\ [Next]_vars => [\E e \in Peers : C!Call(e)]_<<sent, dlv>>
  BY StepInv
<1> QED BY <1>1, <1>2, ReliableInvariant, PTL DEF Spec, FifoDelivery, C!Fifo

(* Without packet id checks (plain control channel), rel_send never forgets  *)
(* a message the peer does not have.                                         *)
THEOREM AckedWasReceivedThm == Spec => []AckedWasReceived
<1>1. IndInv => AckedWasReceived
  BY DEF IndInv, AcksTrue, AckedWasReceived
<1> QED BY <1>1, ReliableInvariant, PTL

(* In the same setting no packet can reach a peer beyond its receive window  *)
(* once TLS has started: in_window of rel_recv never drops one.              *)
THEOREM NeverBeyondWindowThm == Spec => []NeverBeyondWindow
<1>1. IndInv => NeverBeyondWindow
  <2> SUFFICES ASSUME IndInv, ~wrapped, NEW e \in Peers, started[e],
                      NEW p \in net, p.src = Other(e), p.id # NoId
               PROVE  p.id < rhead[e] + RecvSpan
    BY DEF NeverBeyondWindow
  <2> DEFINE o == Other(e)
             r == rhead[e]
  <2>0. TypeOK /\ Faithful /\ InOrder /\ SendWindow /\ AckedWasReceived
    BY DEF IndInv, AcksTrue
  <2>1. o \in Peers /\ Other(o) = e
    BY PeersFacts
  <2>2. p.id \in SentIds(o) /\ r \in Nat /\ NextId(o) \in Nat /\ Len(dlv[e]) \in Nat
    BY <2>0, <2>1, TypeFacts DEF Faithful
  <2>3. p.id \in StartAt..(NextId(o) - 1) /\ StartAt \in Nat
    BY <2>2, ConstFacts DEF SentIds
  <2>4. CASE r >= NextId(o)
    BY <2>2, <2>3, <2>4, ConstFacts
  <2>5. CASE r < NextId(o)
    <3>1. r = StartAt + Len(dlv[e]) /\ r \notin DOMAIN held[e]
      BY <2>0 DEF InOrder
    <3>2. r \in SentIds(o)
      BY <2>2, <2>3, <2>5, <3>1 DEF SentIds
    <3>3. r \notin Received(e)
      <4>1. r \notin StartAt..(r - 1)
        BY <2>2, <2>3
      <4> QED BY <3>1, <4>1 DEF Received
    <3>4. r \in unacked[o]
      BY <2>0, <2>1, <3>2, <3>3 DEF AckedWasReceived
    <3>5. NextId(o) <= r + SendSpan
      BY <2>0, <2>1, <3>4 DEF SendWindow
    <3> QED BY <2>2, <2>3, <3>5, ConstFacts
  <2> QED BY <2>2, <2>4, <2>5
<1> QED BY <1>1, ReliableInvariant, PTL
=============================================================================
