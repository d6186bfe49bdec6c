--------------------------- MODULE DataEpochProofs ---------------------------
(***************************************************************************)
(* Proofs about DataEpoch, for any number of future keys and epochs and    *)
(* any counter limit.                                                      *)
(***************************************************************************)
EXTENDS DataEpoch, TLAPS

(* Constants in the forms the provers need. *)
LEMMA ConstFacts ==
    /\ Future \in Nat /\ Future >= 1
    /\ MaxEpoch \in Nat /\ MaxEpoch >= Future + 2
    /\ MaxCounter \in Nat /\ MaxCounter >= 2
BY DataEpochAssumption

(* The other peer is another one. *)
LEMMA OtherFacts ==
    ASSUME NEW e \in Peers
    PROVE  Other(e) \in Peers /\ Other(e) # e /\ Other(Other(e)) = e
BY DataEpochAssumption DEF Peers, Other

(* A context and its fields. *)
LEMMA ContextFacts ==
    ASSUME NEW c \in Contexts
    PROVE  /\ c.epoch \in Nat /\ c.epoch <= MaxEpoch
           /\ c.taken \in SUBSET (1..MaxCounter)
BY ConstFacts DEF Contexts, Epochs

(* A context just made. *)
LEMMA KeyContextFacts ==
    ASSUME NEW n \in Epochs
    PROVE  KeyContext(n) \in Contexts /\ KeyContext(n).epoch = n
BY DEF Contexts, KeyContext

(* Taking an id leaves the epoch. *)
LEMMA TakenFacts ==
    ASSUME NEW c \in Contexts, NEW p \in Packets
    PROVE  /\ Taken(c, p) \in Contexts
           /\ Taken(c, p).epoch = c.epoch
           /\ Taken(c, p).taken = c.taken \cup {p.id}
BY DEF Contexts, Taken, Packets

(* A packet and its fields. *)
LEMMA PacketFacts ==
    ASSUME NEW p \in Packets
    PROVE  /\ p.src \in Peers /\ p.epoch \in Nat /\ p.epoch \in Epochs /\ p.epoch <= MaxEpoch
           /\ p.id \in Nat /\ p.id >= 1 /\ p.id <= MaxCounter
BY ConstFacts DEF Packets, Epochs

(* The state of one peer. *)
LEMMA PeerFacts ==
    ASSUME TypeOK, NEW e \in Peers
    PROVE  /\ send[e] \in Nat /\ send[e] <= MaxEpoch
           /\ counter[e] \in Nat /\ counter[e] <= MaxCounter
           /\ current[e] \in Contexts /\ retiring[e] \in Contexts
           /\ current[e].epoch \in Nat /\ retiring[e].epoch \in Nat
           /\ \A i \in 1..Future : future[e][i] \in Contexts
           /\ receive[e] \in Nat /\ receive[e] <= MaxEpoch
BY ConstFacts, ContextFacts DEF TypeOK, Epochs

(* Initially the first keys are in use and nothing was sent. *)
LEMMA InitInv ==
    ASSUME Init
    PROVE  IndInv
<1>1. 1 \in Epochs /\ 0 \in Epochs /\ 1 + Future \in Epochs /\ 0 \in 0..MaxCounter
  BY ConstFacts DEF Epochs
<1>2. \A i \in 1..Future : 1 + i \in Epochs
  BY ConstFacts DEF Epochs
<1>3. /\ KeyContext(1) \in Contexts /\ KeyContext(0) \in Contexts
      /\ KeyContext(1).epoch = 1 /\ KeyContext(0).epoch = 0
      /\ \A i \in 1..Future : KeyContext(1 + i) \in Contexts
  BY <1>1, <1>2, KeyContextFacts
<1>4. TypeOK
  BY <1>1, <1>3 DEF Init, TypeOK
<1>5. SendOrder /\ Remembered
  BY DEF Init, SendOrder, Remembered
<1>6. KeyOrder
  BY <1>3, OtherFacts DEF Init, KeyOrder
<1>7. KeyRing
  BY <1>3, ConstFacts DEF Init, KeyRing
<1>8. BelowLimit
  BY ConstFacts DEF Init, BelowLimit
<1> QED BY <1>4, <1>5, <1>6, <1>7, <1>8 DEF IndInv

(* What a packet that replaces the receive key tells: it came under a future *)
(* key, which is unused, and the vector was in order.                        *)
LEMMA ReplaceFacts ==
    ASSUME IndInv, NEW e \in Peers, NEW p \in net, Accepts(e, p),
           p.epoch > current[e].epoch
    PROVE  /\ p \in Packets
           /\ ~mismatched[e]
           /\ p.epoch - current[e].epoch \in 1..Future
           /\ future[e][p.epoch - current[e].epoch] = KeyContext(p.epoch)
           /\ p.epoch <= MaxEpoch - Future - 1
<1>0. TypeOK /\ KeyOrder /\ KeyRing /\ SendOrder
  BY DEF IndInv
<1>1. p \in Packets /\ p.epoch \in Nat /\ p.epoch > 0
  BY <1>0, PacketFacts DEF TypeOK, SendOrder
<1>2. /\ current[e].epoch \in Nat /\ retiring[e].epoch \in Nat
      /\ retiring[e].epoch < current[e].epoch
  BY <1>0, PeerFacts DEF KeyOrder
<1>3. Lookup(e, p.epoch).epoch = p.epoch
  BY DEF Accepts
<1>4. KeyContext(0).epoch = 0
  BY DEF KeyContext
<1>5. /\ p.epoch <= current[e].epoch + Future /\ p.epoch <= MaxEpoch - Future - 1
      /\ Lookup(e, p.epoch) = future[e][p.epoch - current[e].epoch]
  BY <1>1, <1>2, <1>3, <1>4 DEF Lookup
<1>6. p.epoch - current[e].epoch \in 1..Future
  BY <1>1, <1>2, <1>5, ConstFacts
<1>7. ~mismatched[e]
  <2> SUFFICES ASSUME mismatched[e] PROVE FALSE
    OBVIOUS
  <2>1. future[e][p.epoch - current[e].epoch].epoch <= current[e].epoch
    BY <1>0, <1>6 DEF KeyRing
  <2> QED BY <1>1, <1>2, <1>3, <1>5, <2>1
<1>8. current[e].epoch + (p.epoch - current[e].epoch) = p.epoch
  BY <1>1, <1>2
<1>9. future[e][p.epoch - current[e].epoch] = KeyContext(p.epoch)
  BY <1>0, <1>6, <1>7, <1>8 DEF KeyRing
<1> QED BY <1>1, <1>5, <1>6, <1>7, <1>9

(* Encrypting uses the next id of the send key or the first of the next key. *)
LEMMA EncryptInv ==
    ASSUME IndInv, NEW e \in Peers, NEW spent \in BOOLEAN, Encrypt(e, spent)
    PROVE  IndInv'
<1> DEFINE s == SendEpoch(e, spent)
           c == NextCounter(e, spent)
<1>0. TypeOK /\ SendOrder /\ KeyOrder /\ KeyRing /\ Remembered /\ BelowLimit
  BY DEF IndInv
<1>1. /\ send' = [send EXCEPT ![e] = s] /\ counter' = [counter EXCEPT ![e] = c]
      /\ \/ net' = net
         \/ net' = net \cup {[src |-> e, epoch |-> s, id |-> c]} /\ c # MaxCounter
      /\ up' = up \/ up' = [up EXCEPT ![e] = FALSE]
      /\ current' = current /\ retiring' = retiring /\ future' = future
      /\ receive' = receive /\ mismatched' = mismatched /\ got' = got
  BY DEF Encrypt, NextPacket, recvVars
<1>2. /\ send[e] \in Nat /\ send[e] <= MaxEpoch /\ counter[e] \in Nat /\ counter[e] <= MaxCounter
      /\ MaxEpoch \in Nat /\ MaxCounter \in Nat /\ MaxCounter >= 2
      /\ up[e] /\ counter[e] < MaxCounter
  BY <1>0, PeerFacts, ConstFacts DEF Encrypt, BelowLimit
<1>3. /\ s \in Nat /\ s <= MaxEpoch /\ c \in Nat /\ c >= 1 /\ c <= MaxCounter
      /\ s > send[e] \/ (s = send[e] /\ c = counter[e] + 1)
  BY <1>2 DEF SendEpoch, NextCounter, Iterates
<1> HIDE DEF s, c
<1>4. s \in Epochs /\ c \in 0..MaxCounter /\ c \in 1..MaxCounter
  BY <1>2, <1>3 DEF Epochs
<1>5. net' \subseteq Packets
  BY <1>0, <1>1, <1>4 DEF TypeOK, Packets
<1>6. TypeOK'
  BY <1>0, <1>1, <1>4, <1>5 DEF TypeOK
<1>7. SendOrder'
  <2> SUFFICES ASSUME NEW p \in net'
               PROVE  /\ p.epoch < send'[p.src]
                         \/ (p.epoch = send'[p.src] /\ p.id <= counter'[p.src])
                      /\ p.epoch > 0
    BY DEF SendOrder
  <2>1. send'[e] = s /\ counter'[e] = c
    BY <1>0, <1>1 DEF TypeOK
  <2>2. s > 0
    <3>1. current[e].epoch \in Nat /\ retiring[e].epoch \in Nat
      BY <1>0, PeerFacts
    <3>2. retiring[e].epoch < current[e].epoch /\ current[e].epoch <= send[e]
      BY <1>0 DEF KeyOrder
    <3> QED BY <1>2, <1>3, <3>1, <3>2
  <2>3. CASE p \in net
    <3>1. /\ p \in Packets /\ p.epoch > 0
          /\ p.epoch < send[p.src] \/ (p.epoch = send[p.src] /\ p.id <= counter[p.src])
      BY <1>0, <2>3 DEF TypeOK, SendOrder
    <3>2. p.src \in Peers /\ p.epoch \in Nat /\ p.id \in Nat
      BY <3>1, PacketFacts
    <3>3. CASE p.src = e
      BY <1>2, <1>3, <2>1, <3>1, <3>2, <3>3
    <3>4. CASE p.src # e
      <4>1. send'[p.src] = send[p.src] /\ counter'[p.src] = counter[p.src]
        BY <1>0, <1>1, <3>2, <3>4 DEF TypeOK
      <4> QED BY <3>1, <4>1
    <3> QED BY <3>3, <3>4
  <2>4. CASE p = [src |-> e, epoch |-> s, id |-> c]
    BY <1>3, <2>1, <2>2, <2>4
  <2> QED BY <1>1, <2>3, <2>4
<1>8. KeyOrder'
  <2> SUFFICES ASSUME NEW o \in Peers
               PROVE  /\ retiring[o].epoch < current[o].epoch
                      /\ current[o].epoch <= send'[o]
                      /\ current[o].epoch <= send'[Other(o)]
    BY <1>1 DEF KeyOrder
  <2>1. \A x \in Peers : send'[x] \in Nat /\ send[x] \in Nat /\ send'[x] >= send[x]
    <3> SUFFICES ASSUME NEW x \in Peers
                 PROVE  send'[x] \in Nat /\ send[x] \in Nat /\ send'[x] >= send[x]
      OBVIOUS
    <3>1. send[x] \in Nat
      BY <1>0, PeerFacts
    <3>2. CASE x = e
      BY <1>0, <1>1, <1>2, <1>3, <3>2 DEF TypeOK
    <3>3. CASE x # e
      BY <1>0, <1>1, <3>1, <3>3 DEF TypeOK
    <3> QED BY <3>2, <3>3
  <2>2. /\ retiring[o].epoch < current[o].epoch
        /\ current[o].epoch <= send[o] /\ current[o].epoch <= send[Other(o)]
    BY <1>0 DEF KeyOrder
  <2>3. current[o].epoch \in Nat /\ Other(o) \in Peers
    BY <1>0, PeerFacts, OtherFacts
  <2> QED BY <2>1, <2>2, <2>3
<1>9. KeyRing'
  BY <1>0, <1>1 DEF KeyRing
<1>10. Remembered'
  BY <1>0, <1>1 DEF Remembered
<1>11. BelowLimit'
  <2> SUFFICES ASSUME NEW o \in Peers, up'[o] PROVE counter'[o] < MaxCounter
    BY DEF BelowLimit
  <2>1. CASE o = e
    <3>1. c # MaxCounter
      BY <1>0, <2>1 DEF Encrypt, TypeOK, c
    <3> QED BY <1>0, <1>1, <1>2, <1>3, <2>1, <3>1 DEF TypeOK
  <2>2. CASE o # e
    BY <1>0, <1>1, <2>2 DEF TypeOK, BelowLimit
  <2> QED BY <2>1, <2>2
<1> QED BY <1>6, <1>7, <1>8, <1>9, <1>10, <1>11 DEF IndInv

(* A packet under the current or the retiring key is noted in its window.    *)
LEMMA TakeInv ==
    ASSUME IndInv, NEW e \in Peers, NEW p \in net, p.src = Other(e), Accepts(e, p),
           p.epoch <= current[e].epoch, Take(e, p), UNCHANGED <<up, net>>
    PROVE  IndInv'
<1>0. TypeOK /\ SendOrder /\ KeyOrder /\ KeyRing /\ Remembered /\ BelowLimit
  BY DEF IndInv
<1>1. /\ send' = send /\ counter' = counter /\ future' = future /\ receive' = receive
      /\ mismatched' = mismatched /\ up' = up /\ net' = net
      /\ got' = [got EXCEPT ![e] = @ \cup {p}]
  BY DEF Take
<1>2. p \in Packets /\ p.epoch \in Nat /\ p.epoch > 0 /\ p.id \in Nat
  BY <1>0, PacketFacts DEF TypeOK, SendOrder
<1>3. /\ current[e] \in Contexts /\ retiring[e] \in Contexts
      /\ current[e].epoch \in Nat /\ retiring[e].epoch \in Nat
      /\ retiring[e].epoch < current[e].epoch
  BY <1>0, PeerFacts DEF KeyOrder
<1>4. p.epoch = current[e].epoch \/ p.epoch = retiring[e].epoch
  <2>1. Lookup(e, p.epoch).epoch = p.epoch /\ KeyContext(0).epoch = 0
    BY DEF Accepts, KeyContext
  <2> QED BY <1>2, <1>3, <2>1 DEF Lookup
<1>5. /\ \A x \in Peers : x # e => current'[x] = current[x] /\ retiring'[x] = retiring[x]
      /\ current' \in [Peers -> Contexts] /\ retiring' \in [Peers -> Contexts]
      /\ current'[e].epoch = current[e].epoch /\ retiring'[e].epoch = retiring[e].epoch
      /\ current[e].taken \subseteq current'[e].taken
      /\ retiring[e].taken \subseteq retiring'[e].taken
      /\ p.epoch = current[e].epoch => p.id \in current'[e].taken
      /\ p.epoch = retiring[e].epoch => p.id \in retiring'[e].taken
  <2>1. current \in [Peers -> Contexts] /\ retiring \in [Peers -> Contexts]
    BY <1>0 DEF TypeOK
  <2>2. CASE p.epoch = current[e].epoch
    <3>1. current' = [current EXCEPT ![e] = Taken(current[e], p)] /\ retiring' = retiring
      BY <2>2 DEF Take
    <3>2. /\ Taken(current[e], p) \in Contexts
          /\ Taken(current[e], p).epoch = current[e].epoch
          /\ Taken(current[e], p).taken = current[e].taken \cup {p.id}
      BY <1>2, <1>3, TakenFacts
    <3>3. p.epoch # retiring[e].epoch
      BY <1>3, <2>2
    <3> QED BY <2>1, <3>1, <3>2, <3>3
  <2>3. CASE p.epoch # current[e].epoch
    <3>1. retiring' = [retiring EXCEPT ![e] = Taken(retiring[e], p)] /\ current' = current
      BY <2>3 DEF Take
    <3>2. /\ Taken(retiring[e], p) \in Contexts
          /\ Taken(retiring[e], p).epoch = retiring[e].epoch
          /\ Taken(retiring[e], p).taken = retiring[e].taken \cup {p.id}
      BY <1>2, <1>3, TakenFacts
    <3> QED BY <2>1, <2>3, <3>1, <3>2
  <2> QED BY <2>2, <2>3
<1>6. TypeOK'
  <2>1. got' \in [Peers -> SUBSET Packets]
    BY <1>0, <1>1, <1>2 DEF TypeOK
  <2> QED BY <1>0, <1>1, <1>5, <2>1 DEF TypeOK
<1>7. SendOrder' /\ BelowLimit'
  BY <1>0, <1>1 DEF SendOrder, BelowLimit
<1>8. \A x \in Peers : current'[x].epoch = current[x].epoch /\ retiring'[x].epoch = retiring[x].epoch
  BY <1>5
<1>9. KeyOrder'
  BY <1>0, <1>1, <1>8 DEF KeyOrder
<1>10. KeyRing'
  BY <1>0, <1>1, <1>8 DEF KeyRing
<1>11. Remembered'
  <2> SUFFICES ASSUME NEW x \in Peers, NEW q \in got'[x]
               PROVE  /\ q \in net
                      /\ q.epoch <= current[x].epoch
                      /\ q.epoch = current[x].epoch => q.id \in current'[x].taken
                      /\ q.epoch = retiring[x].epoch => q.id \in retiring'[x].taken
    BY <1>1, <1>8 DEF Remembered
  <2>1. CASE x = e /\ q = p
    BY <1>5, <2>1
  <2>2. CASE q \in got[x]
    BY <1>0, <1>5, <2>2 DEF Remembered
  <2> QED BY <1>0, <1>1, <2>1, <2>2 DEF TypeOK
<1> QED BY <1>6, <1>7, <1>9, <1>10, <1>11 DEF IndInv

(* The first packet under a future key replaces the receive key, and the     *)
(* send key when that is behind.                                             *)
LEMMA ReplaceInv ==
    ASSUME IndInv, NEW e \in Peers, NEW p \in net, p.src = Other(e), Accepts(e, p),
           p.epoch > current[e].epoch, Replace(e, p), UNCHANGED <<up, net>>
    PROVE  IndInv'
<1> DEFINE k == p.epoch - current[e].epoch
           f == [future[e] EXCEPT ![k] = KeyContext(0)]
<1>0. TypeOK /\ SendOrder /\ KeyOrder /\ KeyRing /\ Remembered /\ BelowLimit
  BY DEF IndInv
<1>1. /\ p \in Packets /\ ~mismatched[e] /\ k \in 1..Future
      /\ future[e][k] = KeyContext(p.epoch) /\ p.epoch <= MaxEpoch - Future - 1
  BY ReplaceFacts
<1>2. /\ p.epoch \in Nat /\ p.epoch \in Epochs /\ p.id \in Nat
      /\ current[e].epoch \in Nat /\ retiring[e].epoch \in Nat /\ current[e] \in Contexts
      /\ Future \in Nat /\ Future >= 1 /\ MaxEpoch \in Nat /\ k \in Nat
      /\ p.epoch = current[e].epoch + k
      /\ send[e] \in Nat /\ send[e] <= MaxEpoch /\ counter[e] \in Nat
  BY <1>0, <1>1, PacketFacts, PeerFacts, ConstFacts
<1>3. /\ receive[e] = current[e].epoch + Future
      /\ \A i \in 1..Future : future[e][i] = KeyContext(current[e].epoch + i)
  BY <1>0, <1>1 DEF KeyRing
<1>4. /\ send' = [send EXCEPT ![e] = IF Follows(e, p.epoch) THEN p.epoch ELSE send[e]]
      /\ counter' = [counter EXCEPT ![e] = IF Follows(e, p.epoch) THEN 0 ELSE counter[e]]
      /\ retiring' = [retiring EXCEPT ![e] = current[e]]
      /\ current' = [current EXCEPT ![e] = Taken(KeyContext(p.epoch), p)]
      /\ up' = up /\ net' = net
      /\ got' = got \/ got' = [got EXCEPT ![e] = got[e] \cup {p}]
  BY <1>1 DEF Replace, Retire
<1>5. /\ KeyContext(p.epoch) \in Contexts /\ KeyContext(p.epoch).epoch = p.epoch
      /\ KeyContext(0) \in Contexts /\ KeyContext(0).epoch = 0
  <2>1. 0 \in Epochs
    BY ConstFacts DEF Epochs
  <2> QED BY <1>2, <2>1, KeyContextFacts
<1>6. /\ Taken(KeyContext(p.epoch), p) \in Contexts
      /\ Taken(KeyContext(p.epoch), p).epoch = p.epoch
      /\ p.id \in Taken(KeyContext(p.epoch), p).taken
  BY <1>1, <1>5, TakenFacts
<1>7. /\ current'[e].epoch = p.epoch /\ p.id \in current'[e].taken
      /\ retiring'[e] = current[e]
      /\ \A x \in Peers : x # e => current'[x] = current[x] /\ retiring'[x] = retiring[x]
      /\ current' \in [Peers -> Contexts] /\ retiring' \in [Peers -> Contexts]
  BY <1>0, <1>2, <1>4, <1>6 DEF TypeOK
<1>8. /\ send'[e] = (IF send[e] < p.epoch THEN p.epoch ELSE send[e])
      /\ counter'[e] = (IF send[e] < p.epoch THEN 0 ELSE counter[e])
      /\ \A x \in Peers : x # e => send'[x] = send[x] /\ counter'[x] = counter[x]
      /\ send' \in [Peers -> Epochs] /\ counter' \in [Peers -> 0..MaxCounter]
  <2>1. (IF Follows(e, p.epoch) THEN p.epoch ELSE send[e]) \in Epochs
    BY <1>0, <1>2 DEF TypeOK
  <2>2. (IF Follows(e, p.epoch) THEN 0 ELSE counter[e]) \in 0..MaxCounter
    BY <1>0, ConstFacts DEF TypeOK
  <2> QED BY <1>0, <1>4, <2>1, <2>2 DEF TypeOK, Follows
<1>9. /\ f \in [1..Future -> Contexts] /\ f[k] = KeyContext(0)
      /\ \A i \in 1..Future : i # k => f[i] = KeyContext(current[e].epoch + i)
  BY <1>0, <1>1, <1>3, <1>5 DEF TypeOK
<1>10. \A i \in 1..(k + Future) : /\ current[e].epoch + i \in Epochs
                                  /\ KeyContext(current[e].epoch + i) \in Contexts
                                  /\ KeyContext(current[e].epoch + i).epoch = current[e].epoch + i
  <2>1. \A i \in 1..(k + Future) : current[e].epoch + i \in Epochs
    BY <1>1, <1>2 DEF Epochs
  <2> QED BY <2>1, KeyContextFacts
<1>11. /\ future' \in [Peers -> [1..Future -> Contexts]]
       /\ receive' \in [Peers -> Epochs] /\ mismatched' \in [Peers -> BOOLEAN]
       /\ \A x \in Peers : x # e => /\ future'[x] = future[x] /\ receive'[x] = receive[x]
                                    /\ mismatched'[x] = mismatched[x]
       /\ ~mismatched'[e] =>
              /\ receive'[e] = p.epoch + Future
              /\ \A i \in 1..Future : future'[e][i] = KeyContext(p.epoch + i)
       /\ mismatched'[e] => \A i \in 1..Future : future'[e][i].epoch <= p.epoch
  <2>0. /\ future \in [Peers -> [1..Future -> Contexts]]
        /\ receive \in [Peers -> Epochs] /\ mismatched \in [Peers -> BOOLEAN]
    BY <1>0 DEF TypeOK
  <2>1. CASE f[Future].epoch # receive[e]
    <3>1. future' = [future EXCEPT ![e] = f] /\ receive' = receive
          /\ mismatched' = [mismatched EXCEPT ![e] = TRUE]
      BY <2>1 DEF Replace
    <3>2. k = Future
      <4> SUFFICES ASSUME k # Future PROVE FALSE
        OBVIOUS
      <4>1. f[Future] = KeyContext(current[e].epoch + Future)
        BY <1>2, <1>9
      <4>2. f[Future].epoch = current[e].epoch + Future
        BY <1>2, <1>10, <4>1
      <4> QED BY <1>3, <2>1, <4>2
    <3>3. \A i \in 1..Future : f[i].epoch <= p.epoch
      <4> SUFFICES ASSUME NEW i \in 1..Future PROVE f[i].epoch <= p.epoch
        OBVIOUS
      <4>1. CASE i = k
        BY <1>2, <1>5, <1>9, <4>1
      <4>2. CASE i # k
        <5>1. i \in 1..(k + Future) /\ f[i] = KeyContext(current[e].epoch + i)
          BY <1>2, <1>9, <4>2
        <5>2. f[i].epoch = current[e].epoch + i
          BY <1>10, <5>1
        <5> QED BY <1>2, <3>2, <5>2
      <4> QED BY <4>1, <4>2
    <3> HIDE DEF f, k
    <3> QED BY <1>9, <2>0, <3>1, <3>3
  <2>2. CASE f[Future].epoch = receive[e]
    <3>1. /\ future' = [future EXCEPT ![e] = Regenerated(e, f, k)]
          /\ receive' = [receive EXCEPT ![e] = receive[e] + k]
          /\ mismatched' = mismatched
      BY <2>2 DEF Replace
    <3>2. ASSUME NEW i \in 1..Future
          PROVE  /\ Regenerated(e, f, k)[i] = KeyContext(p.epoch + i)
                 /\ KeyContext(p.epoch + i) \in Contexts
      <4>1. k + i \in 1..(k + Future) /\ current[e].epoch + (k + i) = p.epoch + i /\ k + i # k
        BY <1>2
      <4>2. KeyContext(p.epoch + i) \in Contexts
        BY <1>10, <4>1
      <4>3. CASE k + i <= Future
        <5>1. k + i \in 1..Future
          BY <1>2, <4>3
        <5>2. f[k + i] = KeyContext(p.epoch + i)
          BY <1>9, <4>1, <5>1
        <5> QED BY <4>2, <4>3, <5>2 DEF Regenerated
      <4>4. CASE ~(k + i <= Future)
        <5>1. receive[e] + (k + i - Future) = p.epoch + i
          BY <1>2, <1>3
        <5> QED BY <4>2, <4>4, <5>1 DEF Regenerated
      <4> QED BY <4>3, <4>4
    <3>3. Regenerated(e, f, k) \in [1..Future -> Contexts]
      <4>1. \A i \in 1..Future : Regenerated(e, f, k)[i] \in Contexts
        BY <3>2
      <4> HIDE DEF f, k
      <4> QED BY <4>1 DEF Regenerated
    <3>4. receive[e] + k = p.epoch + Future /\ receive[e] + k \in Epochs
      BY <1>1, <1>2, <1>3 DEF Epochs
    <3> HIDE DEF f, k
    <3> QED BY <1>1, <2>0, <3>1, <3>2, <3>3, <3>4
  <2> QED BY <2>1, <2>2
<1> HIDE DEF f, k
<1>12. TypeOK'
  <2>1. got' \in [Peers -> SUBSET Packets]
    BY <1>0, <1>1, <1>4 DEF TypeOK
  <2> QED BY <1>0, <1>4, <1>7, <1>8, <1>11, <2>1 DEF TypeOK
<1>13. SendOrder'
  <2> SUFFICES ASSUME NEW q \in net
               PROVE  /\ q.epoch < send'[q.src]
                         \/ (q.epoch = send'[q.src] /\ q.id <= counter'[q.src])
                      /\ q.epoch > 0
    BY <1>4 DEF SendOrder
  <2>1. /\ q.epoch > 0
        /\ q.epoch < send[q.src] \/ (q.epoch = send[q.src] /\ q.id <= counter[q.src])
    BY <1>0 DEF SendOrder
  <2>2. q.src \in Peers /\ q.epoch \in Nat /\ q.id \in Nat
    BY <1>0, PacketFacts DEF TypeOK
  <2>3. CASE q.src = e
    BY <1>2, <1>8, <2>1, <2>2, <2>3
  <2>4. CASE q.src # e
    BY <1>8, <2>1, <2>2, <2>4
  <2> QED BY <2>3, <2>4
<1>14. \A x \in Peers : send'[x] \in Nat /\ send[x] \in Nat /\ send'[x] >= send[x]
  <2> SUFFICES ASSUME NEW x \in Peers
               PROVE  send'[x] \in Nat /\ send[x] \in Nat /\ send'[x] >= send[x]
    OBVIOUS
  <2>1. send[x] \in Nat
    BY <1>0, PeerFacts
  <2>2. CASE x = e
    BY <1>2, <1>8, <2>2
  <2>3. CASE x # e
    BY <1>8, <2>1, <2>3
  <2> QED BY <2>2, <2>3
<1>15. KeyOrder'
  <2> SUFFICES ASSUME NEW x \in Peers
               PROVE  /\ retiring'[x].epoch < current'[x].epoch
                      /\ current'[x].epoch <= send'[x]
                      /\ current'[x].epoch <= send'[Other(x)]
    BY DEF KeyOrder
  <2>1. Other(x) \in Peers
    BY OtherFacts
  <2>2. CASE x = e
    <3>1. send[Other(e)] >= p.epoch
      BY <1>0, <1>2, <1>14, <2>1, <2>2 DEF SendOrder
    <3>2. send'[Other(e)] = send[Other(e)]
      BY <1>8, OtherFacts
    <3> QED BY <1>2, <1>7, <1>8, <1>14, <2>1, <2>2, <3>1, <3>2
  <2>3. CASE x # e
    <3>1. /\ retiring[x].epoch < current[x].epoch
          /\ current[x].epoch <= send[x] /\ current[x].epoch <= send[Other(x)]
          /\ current[x].epoch \in Nat
      BY <1>0, PeerFacts DEF KeyOrder
    <3> QED BY <1>7, <1>14, <2>1, <2>3, <3>1
  <2> QED BY <2>2, <2>3
<1>16. KeyRing'
  <2> SUFFICES ASSUME NEW x \in Peers
               PROVE  /\ current'[x].epoch <= MaxEpoch - Future - 1
                      /\ ~mismatched'[x] =>
                            /\ receive'[x] = current'[x].epoch + Future
                            /\ \A i \in 1..Future : future'[x][i] = KeyContext(current'[x].epoch + i)
                      /\ mismatched'[x] =>
                            \A i \in 1..Future : future'[x][i].epoch <= current'[x].epoch
    BY DEF KeyRing, KeyContext
  <2>1. CASE x = e
    BY <1>1, <1>7, <1>11, <2>1
  <2>2. CASE x # e
    BY <1>0, <1>7, <1>11, <2>2 DEF KeyRing
  <2> QED BY <2>1, <2>2
<1>17. Remembered'
  <2> SUFFICES ASSUME NEW x \in Peers, NEW q \in got'[x]
               PROVE  /\ q \in net
                      /\ q.epoch <= current'[x].epoch
                      /\ q.epoch = current'[x].epoch => q.id \in current'[x].taken
                      /\ q.epoch = retiring'[x].epoch => q.id \in retiring'[x].taken
    BY <1>4 DEF Remembered
  <2>1. CASE x = e /\ q = p
    BY <1>2, <1>7, <2>1
  <2>2. CASE x = e /\ q \in got[e]
    <3>1. /\ q \in net /\ q.epoch <= current[e].epoch /\ q.epoch \in Nat
          /\ q.epoch = current[e].epoch => q.id \in current[e].taken
      BY <1>0, <2>2, PacketFacts DEF Remembered, TypeOK
    <3> QED BY <1>2, <1>7, <2>2, <3>1
  <2>3. CASE x # e /\ q \in got[x]
    BY <1>0, <1>7, <2>3 DEF Remembered
  <2> QED BY <1>0, <1>4, <2>1, <2>2, <2>3 DEF TypeOK
<1>18. BelowLimit'
  <2> SUFFICES ASSUME NEW x \in Peers, up[x] PROVE counter'[x] < MaxCounter
    BY <1>4 DEF BelowLimit
  <2>1. counter[x] < MaxCounter
    BY <1>0 DEF BelowLimit
  <2>2. CASE x = e
    BY <1>8, <2>1, <2>2, ConstFacts
  <2>3. CASE x # e
    BY <1>8, <2>1, <2>3
  <2> QED BY <2>2, <2>3
<1> QED BY <1>12, <1>13, <1>15, <1>16, <1>17, <1>18 DEF IndInv

-----------------------------------------------------------------------------
(* The inductive invariant: keys, windows and packets of both peers agree,   *)
(* for any number of future keys.                                            *)
THEOREM DataEpochInvariant == Spec => []IndInv
<1>1. Init => IndInv
  BY InitInv
<1>2. ASSUME IndInv, [Next]_vars PROVE IndInv'
  <2>1. CASE UNCHANGED vars
    BY <1>2, <2>1 DEF IndInv, TypeOK, SendOrder, KeyOrder, KeyRing, Remembered, BelowLimit,
                      vars, sendVars, recvVars
  <2>2. ASSUME NEW e \in Peers, NEW spent \in BOOLEAN, Encrypt(e, spent) PROVE IndInv'
    BY <1>2, <2>2, EncryptInv
  <2>3. ASSUME NEW e \in Peers, NEW p \in net, Decrypt(e, p) PROVE IndInv'
    <3>1. p.src = Other(e) /\ Accepts(e, p) /\ UNCHANGED <<up, net>>
      BY <2>3 DEF Decrypt
    <3>2. CASE p.epoch > current[e].epoch
      BY <1>2, <2>3, <3>1, <3>2, ReplaceInv DEF Decrypt
    <3>3. CASE ~(p.epoch > current[e].epoch)
      <4>1. p.epoch \in Nat /\ current[e].epoch \in Nat
        BY <1>2, PeerFacts, PacketFacts DEF IndInv, TypeOK
      <4> QED BY <1>2, <2>3, <3>1, <3>3, <4>1, TakeInv DEF Decrypt
    <3> QED BY <3>2, <3>3
  <2> QED BY <1>2, <2>1, <2>2, <2>3 DEF Next
<1> QED BY <1>1, <1>2, PTL DEF Spec

(* No epoch and counter serve two packets: the IV of the AEAD cipher is      *)
(* never used again under a key.                                             *)
THEOREM FreshNonceThm == Spec => []FreshNonce
<1>1. ASSUME IndInv PROVE FreshNonce
  <2> SUFFICES ASSUME NEW e \in Peers, NEW spent \in BOOLEAN, NextPacket(e, spent) \in net
               PROVE  FALSE
    BY DEF FreshNonce
  <2> DEFINE q == NextPacket(e, spent)
  <2>1. q.src = e /\ q.epoch = SendEpoch(e, spent) /\ q.id = NextCounter(e, spent)
    BY DEF NextPacket
  <2>2. q.epoch < send[e] \/ (q.epoch = send[e] /\ q.id <= counter[e])
    BY <1>1, <2>1 DEF IndInv, SendOrder
  <2>3. send[e] \in Nat /\ counter[e] \in Nat
    BY <1>1, PeerFacts DEF IndInv
  <2> QED BY <2>1, <2>2, <2>3 DEF SendEpoch, NextCounter, Iterates
<1> QED BY <1>1, DataEpochInvariant, PTL

(* decrypt passes on no packet twice, wherever its key is by then. *)
THEOREM DecryptOnceThm == Spec => []DecryptOnce
<1>1. ASSUME IndInv PROVE DecryptOnce
  <2> SUFFICES ASSUME NEW e \in Peers, NEW p \in got[e], Accepts(e, p) PROVE FALSE
    BY DEF DecryptOnce
  <2>1. /\ p \in net /\ p.epoch <= current[e].epoch
        /\ p.epoch = current[e].epoch => p.id \in current[e].taken
        /\ p.epoch = retiring[e].epoch => p.id \in retiring[e].taken
    BY <1>1 DEF IndInv, Remembered
  <2>2. p.epoch \in Nat /\ p.epoch > 0 /\ current[e].epoch \in Nat
    BY <1>1, <2>1, PacketFacts, PeerFacts DEF IndInv, SendOrder, TypeOK
  <2>3. /\ Lookup(e, p.epoch).epoch = p.epoch /\ p.id \notin Lookup(e, p.epoch).taken
        /\ KeyContext(0).epoch = 0
    BY DEF Accepts, KeyContext
  <2> QED BY <2>1, <2>2, <2>3 DEF Lookup
<1> QED BY <1>1, DataEpochInvariant, PTL

(* Unless a packet came under the last future key, lookup_decrypt_key finds  *)
(* the key of every epoch it should, and no other.                           *)
THEOREM LookupMatchesThm == Spec => []LookupMatches
<1>1. ASSUME IndInv PROVE LookupMatches
  <2> SUFFICES ASSUME NEW e \in Peers, ~mismatched[e],
                      NEW n \in 1..(MaxEpoch - Future - 1)
               PROVE  /\ Lookup(e, n).epoch \in {n, 0}
                      /\ current[e].epoch <= n /\ n <= current[e].epoch + Future
                         => Lookup(e, n).epoch = n
    BY DEF LookupMatches
  <2>1. /\ current[e].epoch \in Nat /\ retiring[e].epoch \in Nat
        /\ retiring[e].epoch < current[e].epoch
        /\ \A i \in 1..Future : future[e][i] = KeyContext(current[e].epoch + i)
        /\ Future \in Nat /\ MaxEpoch \in Nat /\ n \in Nat
    BY <1>1, PeerFacts, ConstFacts DEF IndInv, KeyOrder, KeyRing
  <2>2. \A m : KeyContext(m).epoch = m
    BY DEF KeyContext
  <2>3. CASE n > current[e].epoch /\ n <= current[e].epoch + Future
    <3>1. n - current[e].epoch \in 1..Future /\ current[e].epoch + (n - current[e].epoch) = n
      BY <2>1, <2>3
    <3>2. future[e][n - current[e].epoch].epoch = n
      BY <2>1, <2>2, <3>1
    <3>3. n <= MaxEpoch - Future - 1
      BY <2>1
    <3> QED BY <2>1, <2>3, <3>2, <3>3 DEF Lookup
  <2>4. CASE ~(n > current[e].epoch /\ n <= current[e].epoch + Future)
    BY <2>1, <2>2, <2>4 DEF Lookup
  <2> QED BY <2>3, <2>4
<1> QED BY <1>1, DataEpochInvariant, PTL
=============================================================================
