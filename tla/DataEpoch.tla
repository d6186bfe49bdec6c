------------------------------ MODULE DataEpoch ------------------------------
(***************************************************************************)
(* Epoch keys of the data channel: DataChannelEpoch and the encrypt and    *)
(* decrypt of AEADEpoch::Crypto at both peers, over UDP. Each direction    *)
(* has its own chain of keys, numbered by epochs from 1. A sender moves to *)
(* the next key when one is used up; a receiver holds the current key, the *)
(* one before it and a vector of future keys, and follows the sender. It   *)
(* then moves its own send key too.                                        *)
(*                                                                         *)
(* A key is its epoch: a packet decrypts with the key of its epoch and no  *)
(* other. The replay window of a key is the set of ids it took: PacketID   *)
(* shows that it takes none twice. The network may lose, repeat and        *)
(* reorder packets: any packet sent may arrive at any later time.          *)
(***************************************************************************)
EXTENDS Integers

CONSTANTS A, B,       \* the peers
          Future,     \* future_keys_count
          MaxEpoch,   \* UINT16_MAX
          MaxCounter  \* epoch_packet_id_max

ASSUME DataEpochAssumption ==
    /\ A # B
    /\ Future \in Nat \ {0}
    /\ MaxEpoch \in Nat /\ MaxEpoch > Future + 1
    /\ MaxCounter \in Nat /\ MaxCounter > 1

Peers == {A, B}
Other(e) == IF e = A THEN B ELSE A

Epochs == 0..MaxEpoch
Packets == [src : Peers, epoch : Epochs, id : 1..MaxCounter]
Contexts == [epoch : Epochs, taken : SUBSET (1..MaxCounter)]

VARIABLES
    send,      \* epoch of the send key
    counter,   \* counter of encrypt_ctx.pid, below the epoch's bits
    current,   \* decrypt_ctx
    retiring,  \* retiring_decrypt_ctx
    future,    \* future_keys
    receive,   \* epoch of the receive key, the last one generated
    up,        \* no packet_id_wrap has ended the session
    net,       \* packets sent
    got,       \* history variable: packets decrypted and passed on
    mismatched \* history variable: generate_future_receive_keys threw

sendVars == <<send, counter, up, net>>
recvVars == <<current, retiring, future, receive, mismatched>>
vars == <<sendVars, recvVars, got>>

TypeOK ==
    /\ send \in [Peers -> Epochs]
    /\ counter \in [Peers -> 0..MaxCounter]
    /\ current \in [Peers -> Contexts]
    /\ retiring \in [Peers -> Contexts]
    /\ future \in [Peers -> [1..Future -> Contexts]]
    /\ receive \in [Peers -> Epochs]
    /\ up \in [Peers -> BOOLEAN]
    /\ net \subseteq Packets
    /\ got \in [Peers -> SUBSET Packets]
    /\ mismatched \in [Peers -> BOOLEAN]

(* A context just made, with an empty window; epoch 0 is the empty context.  *)
KeyContext(n) == [epoch |-> n, taken |-> {}]

(* DataChannelEpoch: the first keys are in use and the future ones generated. *)
Init ==
    /\ send = [e \in Peers |-> 1]
    /\ counter = [e \in Peers |-> 0]
    /\ current = [e \in Peers |-> KeyContext(1)]
    /\ retiring = [e \in Peers |-> KeyContext(0)]
    /\ future = [e \in Peers |-> [i \in 1..Future |-> KeyContext(1 + i)]]
    /\ receive = [e \in Peers |-> 1 + Future]
    /\ up = [e \in Peers |-> TRUE]
    /\ net = {}
    /\ got = [e \in Peers |-> {}]
    /\ mismatched = [e \in Peers |-> FALSE]

-----------------------------------------------------------------------------
(* Encrypting *)

(* check_send_iterate: the key is used up, by its cipher's limit on blocks   *)
(* and invocations or by its counter, and is not the last.                   *)
Iterates(e, spent) == send[e] < MaxEpoch /\ (spent \/ counter[e] = MaxCounter)

SendEpoch(e, spent) == IF Iterates(e, spent) THEN send[e] + 1 ELSE send[e]

(* The id of the next packet: a new key starts again at 1. *)
NextCounter(e, spent) == IF Iterates(e, spent) THEN 1 ELSE counter[e] + 1

NextPacket(e, spent) ==
    [src |-> e, epoch |-> SendEpoch(e, spent), id |-> NextCounter(e, spent)]

(* encrypt: spent tells whether the usage limit of the cipher is reached,    *)
(* which takes at least one packet. A counter that comes to its limit throws *)
(* packet_id_wrap.                                                           *)
Encrypt(e, spent) ==
    /\ up[e]
    /\ spent => counter[e] > 0
    /\ send' = [send EXCEPT ![e] = SendEpoch(e, spent)]
    /\ counter' = [counter EXCEPT ![e] = NextCounter(e, spent)]
    /\ IF NextCounter(e, spent) = MaxCounter
       THEN up' = [up EXCEPT ![e] = FALSE] /\ UNCHANGED net
       ELSE net' = net \cup {NextPacket(e, spent)} /\ UNCHANGED up
    /\ UNCHANGED <<recvVars, got>>

-----------------------------------------------------------------------------
(* Decrypting *)

(* lookup_decrypt_key: the context for an epoch, or the empty one for none.  *)
(* The future keys next to the limit are not given out.                      *)
Lookup(e, n) ==
    IF current[e].epoch = n THEN current[e]
    ELSE IF retiring[e].epoch > 0 /\ retiring[e].epoch = n THEN retiring[e]
    ELSE IF /\ n > current[e].epoch /\ n <= current[e].epoch + Future
            /\ n <= MaxEpoch - Future - 1
         THEN future[e][n - current[e].epoch]
    ELSE KeyContext(0)

(* The packet decrypts, and the window of its key has not seen it.           *)
Accepts(e, p) ==
    LET ctx == Lookup(e, p.epoch)
    IN  ctx.epoch = p.epoch /\ p.id \notin ctx.taken

Taken(ctx, p) == [ctx EXCEPT !.taken = @ \cup {p.id}]

(* Mutant: an equal epoch also makes a new encrypt_ctx. *)
FollowsAlways(e, n) == send[e] <= n

(* The receiver is ahead of its own send key. *)
Follows(e, n) == send[e] < n

(* Mutant: the retiring context loses its window. *)
RetireFresh(e) == KeyContext(current[e].epoch)

Retire(e) == current[e]

(* Mutant: one key too few is erased. *)
RegeneratedShort(e, f, k) ==
    [i \in 1..Future |-> IF k - 1 + i <= Future THEN f[k - 1 + i]
                         ELSE KeyContext(receive[e] + (k - 1 + i - Future))]

(* generate_future_receive_keys on f: the keys up to the k-th are in the     *)
(* past and erased, as many are generated at the end.                        *)
Regenerated(e, f, k) ==
    [i \in 1..Future |-> IF k + i <= Future THEN f[k + i]
                         ELSE KeyContext(receive[e] + (k + i - Future))]

(* replace_update_recv_key to the epoch of p, the k-th future key. The move  *)
(* of that key leaves the empty context in the vector, and when it was the   *)
(* last, its epoch is not the one last generated: the exception drops the    *)
(* packet and leaves the vector as it is.                                    *)
Replace(e, p) ==
    LET k == p.epoch - current[e].epoch
        f == [future[e] EXCEPT ![k] = KeyContext(0)]
    IN  /\ send' = [send EXCEPT ![e] = IF Follows(e, p.epoch) THEN p.epoch ELSE @]
        /\ counter' = [counter EXCEPT ![e] = IF Follows(e, p.epoch) THEN 0 ELSE @]
        /\ retiring' = [retiring EXCEPT ![e] = Retire(e)]
        /\ current' = [current EXCEPT ![e] = Taken(future[e][k], p)]
        /\ IF f[Future].epoch # receive[e]
           THEN /\ future' = [future EXCEPT ![e] = f]
                /\ mismatched' = [mismatched EXCEPT ![e] = TRUE]
                /\ UNCHANGED <<receive, got>>
           ELSE /\ future' = [future EXCEPT ![e] = Regenerated(e, f, k)]
                /\ receive' = [receive EXCEPT ![e] = @ + k]
                /\ got' = [got EXCEPT ![e] = @ \cup {p}]
                /\ UNCHANGED mismatched

(* decrypt of a packet of the current key or the one before it. *)
Take(e, p) ==
    /\ IF p.epoch = current[e].epoch
       THEN current' = [current EXCEPT ![e] = Taken(@, p)] /\ UNCHANGED retiring
       ELSE retiring' = [retiring EXCEPT ![e] = Taken(@, p)] /\ UNCHANGED current
    /\ got' = [got EXCEPT ![e] = @ \cup {p}]
    /\ UNCHANGED <<send, counter, future, receive, mismatched>>

(* decrypt: a packet that is not accepted leaves no trace. *)
Decrypt(e, p) ==
    /\ up[e]
    /\ p \in net /\ p.src = Other(e)
    /\ Accepts(e, p)
    /\ IF p.epoch > current[e].epoch THEN Replace(e, p) ELSE Take(e, p)
    /\ UNCHANGED <<up, net>>

Next ==
    \E e \in Peers :
        \/ \E spent \in BOOLEAN : Encrypt(e, spent)
        \/ \E p \in net : Decrypt(e, p)

Spec == Init /\ [][Next]_vars

-----------------------------------------------------------------------------
(* Properties *)

(* The sequence number "is reused for AEAD IV" (packet_id_data.hpp:38): no   *)
(* epoch and counter are used for two packets, however the own limit and the *)
(* peer's packets move the send key.                                         *)
FreshNonce ==
    \A e \in Peers, spent \in BOOLEAN :
        /\ up[e] /\ (spent => counter[e] > 0) /\ NextCounter(e, spent) < MaxCounter
        => NextPacket(e, spent) \notin net

(* crypto_aead_epoch.hpp:152, "verify packet ID": no packet is passed on     *)
(* twice while its key goes from the future keys to the current, the         *)
(* retiring and out.                                                         *)
DecryptOnce == \A e \in Peers : \A p \in got[e] : ~Accepts(e, p)

(* data_epoch.hpp:211: lookup "will try to retrieve a decryption key context *)
(* that matches that epoch". It finds no other one, and finds every key up   *)
(* to the edge, provided no packet came under the last future key.           *)
LookupMatches ==
    \A e \in Peers : ~mismatched[e] =>
        \A n \in 1..(MaxEpoch - Future - 1) :
            /\ Lookup(e, n).epoch \in {n, 0}
            /\ current[e].epoch <= n /\ n <= current[e].epoch + Future
               => Lookup(e, n).epoch = n

(* The inductive invariant. A peer sends under a key at least as new as the  *)
(* one it receives under, and receives under none that its peer has not      *)
(* reached; the windows in use remember what was passed on.                  *)
SendOrder ==
    \A p \in net : /\ p.epoch < send[p.src] \/ (p.epoch = send[p.src] /\ p.id <= counter[p.src])
                   /\ p.epoch > 0

KeyOrder ==
    \A e \in Peers :
        /\ retiring[e].epoch < current[e].epoch
        /\ current[e].epoch <= send[e]
        /\ current[e].epoch <= send[Other(e)]

KeyRing ==
    \A e \in Peers :
        /\ current[e].epoch <= MaxEpoch - Future - 1
        /\ ~mismatched[e] =>
              /\ receive[e] = current[e].epoch + Future
              /\ \A i \in 1..Future : future[e][i] = KeyContext(current[e].epoch + i)
        /\ mismatched[e] => \A i \in 1..Future : future[e][i].epoch <= current[e].epoch

Remembered ==
    \A e \in Peers : \A p \in got[e] :
        /\ p \in net
        /\ p.epoch <= current[e].epoch
        /\ p.epoch = current[e].epoch => p.id \in current[e].taken
        /\ p.epoch = retiring[e].epoch => p.id \in retiring[e].taken

(* So check_send_iterate never meets a counter at its limit: next() threw.   *)
BelowLimit == \A e \in Peers : up[e] => counter[e] < MaxCounter

IndInv == TypeOK /\ SendOrder /\ KeyOrder /\ KeyRing /\ Remembered /\ BelowLimit
=============================================================================
