--------------------------- MODULE TransmitProofs ---------------------------
(***************************************************************************)
(* Packets on their way from the host reach Processing in order, whole and *)
(* once, and the rest of what is always true of the host side, for every   *)
(* number of queues, depth, ring, width of the bus and set of packets.     *)
(***************************************************************************)
EXTENDS ReceiveProofs

-----------------------------------------------------------------------------
(* The inductive invariant.                                                *)

(* The descriptors posted and not consumed, oldest first.                  *)
PostedIn(ring, producer, consumer) ==
  [i \in 1 .. Posted(producer, consumer) |-> ring[(consumer + i - 1) % RING_DEPTH]]

RxBuffers == PostedIn(rx_ring, rx_producer, rx_consumer)
Waiting == PostedIn(tx_ring, tx_producer, tx_consumer)

Fragments == {d \in [queue : QUEUES, bytes : Seq(Bytes), eop : BOOLEAN] :
                \E n \in TxLengths : Len(d.bytes) <= n}

(* The engine has taken the fragment at the consumer, and may have sent    *)
(* all of it.                                                              *)
Taking == dma_active /\ active_direction = "host to queue"

Untaken == IF Taking THEN Tail(Waiting) ELSE Waiting

(* The fragments s come after one that ended its packet or not, which was  *)
(* for queue q, and one that ended its packet or not, for queue r, is the  *)
(* last of them all.  A packet's fragments follow each other.              *)
EndsAt(eop, s, i) == IF i = 0 THEN eop ELSE s[i].eop
QueueAt(q, s, i) == IF i = 0 THEN q ELSE s[i].queue

Chain(eop, q, s, last, r) ==
  /\ \A i \in 1 .. Len(s) : EndsAt(eop, s, i - 1) \/ s[i].queue = QueueAt(q, s, i - 1)
  /\ EndsAt(eop, s, Len(s)) = last
  /\ ~last => QueueAt(q, s, Len(s)) = r

(* The fragments posted go on with the packet the controller is in, and    *)
(* the driver goes on with the last of them.                               *)
FragmentsHold ==
  /\ Waiting \in Seq(Fragments)
  /\ tx_packet_start \in BOOLEAN /\ tx_packet_queue \in QUEUES
  /\ Chain(IF Taking THEN command.eop ELSE tx_packet_start, tx_packet_queue,
           Untaken, tx_posting = NoPosting, tx_posting.queue)

(* The command offered or worked on is for the fragment at the consumer.   *)
TxCommandHolds ==
  /\ command.direction \in {"queue to host", "host to queue"}
  /\ (command_valid \/ dma_active) /\ command.direction = "host to queue" =>
       /\ command.eop = tx_ring[tx_consumer].eop /\ command.sop = tx_packet_start
       /\ command.queue = tx_packet_queue
       /\ command.length = Len(command.bytes)

(* The beat of s from its n-th byte on, and what comes after n bytes.      *)
BeatOf(s, n) ==
  SubSeq(s, n + 1, IF n + QUEUE_DATA_BYTES <= Len(s) THEN n + QUEUE_DATA_BYTES
                   ELSE Len(s))
RestOf(s, n) == SubSeq(s, n + 1, Len(s))

(* The fragment in the engine: how much of it was sent.                    *)
Sending == Busy /\ ~ToHost

Sent == transfer.address + IF state = "SEND_QUEUE_SECOND" THEN QUEUE_DATA_BYTES ELSE 0

SendShape ==
  /\ host \in Seq(Bytes)
  /\ transfer.eop = command.eop /\ transfer.sop = command.sop
  /\ {transfer.eop, transfer.sop, transfer.first_beat} \subseteq BOOLEAN
  /\ transfer.address \in Nat /\ transfer.remaining \in Nat
  /\ transfer.address + transfer.remaining = Len(host)
  /\ Sent < Len(host)
  /\ queue_output_valid =>
       /\ out \in Beats(Bytes)
       /\ out.bytes = BeatOf(host, Sent)
       /\ out.eop = (Len(host) <= Sent + QUEUE_DATA_BYTES /\ transfer.eop)
       /\ out.sop = (state = "SEND_QUEUE" /\ transfer.first_beat /\ transfer.sop)
  /\ state = "SEND_QUEUE" => beat.high = BeatOf(host, Sent + QUEUE_DATA_BYTES)

EngineSends == Sending => SendShape

(* Whether the beats that entered the queues end in the middle of a packet *)
InMiddle ==
  IF ~Taking THEN ~tx_packet_start
  ELSE IF completion_valid THEN ~command.eop
  ELSE transfer.first_beat /\ state # "SEND_QUEUE_SECOND" => ~command.sop

TransmitQueue(q, p, read) ==
  /\ QueueSound(p, read, Bytes)
  /\ read # << >> => Queued(p, read).packets # << >>

QueueFits(p) == Len(p.data) <= DEPTH /\ Len(p.lengths) <= DEPTH

TxQueuesHold ==
  \A q \in QUEUES :
    /\ TransmitQueue(q, tx_queue[q], tx_sink[q])
    /\ QueueFits(rx_queue[q]) /\ QueueFits(tx_queue[q])
    /\ (Queued(tx_queue[q], tx_sink[q]).open # << >>) <=> (q = tx_packet_queue /\ InMiddle)

(* All there is of the packets on their way from the host.                 *)
Way(read, data, engine, posted) == ((<< Part(read) >> \o data) \o engine) \o posted

TxWay(q) == Way(tx_sink[q], tx_queue[q].data, FromEngine(q), PostedFragments(q))

(* What the driver has posted of the packet it is posting.                 *)
PostedOf(p, q) ==
  IF p = NoPosting \/ p.queue # q THEN << >>
  ELSE SubSeq(Payload(q, Last(p.split)), 1, EndOf(p, p.posted))

TransmitInv ==
  /\ ReceiveInv /\ FragmentsHold /\ TxCommandHolds /\ EngineSends /\ TxQueuesHold
  /\ \A q \in QUEUES : Cutting(TxWay(q)).open = PostedOf(tx_posting, q)

RemainingFits == \E n \in RxLengths \cup TxLengths \cup {0} : transfer.remaining \in 0 .. n

ErrorFree == RxBuffers \in Seq(RxDescriptors) /\ ~protocol_error

-----------------------------------------------------------------------------
(* Rings.                                                                  *)

(* Distances on a ring, without the modulus.                               *)
LEMMA PostedIs ==
  ASSUME NEW p \in Slots, NEW c \in Slots
  PROVE  /\ Posted(p, c) = IF p >= c THEN p - c ELSE p - c + RING_DEPTH
         /\ Posted(p, c) \in 0 .. RING_DEPTH - 1
         /\ Posted(p, c) = 0 <=> p = c
<1>1. RING_DEPTH \in Nat \ {0, 1} /\ p \in 0 .. RING_DEPTH - 1 /\ c \in 0 .. RING_DEPTH - 1
  BY RingAssumption DEF Slots
<1>2. CASE p >= c
  <2>1. p - c \in 0 .. RING_DEPTH - 1
    BY <1>1, <1>2
  <2>2. (p - c) % RING_DEPTH = p - c
    BY <1>1, <2>1
  <2>3. QED
    BY <1>1, <1>2, <2>1, <2>2 DEF Posted
<1>3. CASE ~(p >= c)
  <2>1. p - c + RING_DEPTH \in 1 .. RING_DEPTH - 1
    BY <1>1, <1>3
  <2>2. (p - c) % RING_DEPTH = p - c + RING_DEPTH
    BY <1>1, <2>1
  <2>3. QED
    BY <1>1, <1>3, <2>1, <2>2 DEF Posted
<1>4. QED
  BY <1>2, <1>3

(* The slot k places behind the consumer.                                  *)
LEMMA SlotIs ==
  ASSUME NEW c \in Slots, NEW k \in 0 .. RING_DEPTH - 1
  PROVE  /\ (c + k) % RING_DEPTH = IF c + k < RING_DEPTH THEN c + k ELSE c + k - RING_DEPTH
         /\ (c + k) % RING_DEPTH \in Slots
<1>1. RING_DEPTH \in Nat \ {0, 1} /\ c \in 0 .. RING_DEPTH - 1
  BY RingAssumption DEF Slots
<1>2. CASE c + k < RING_DEPTH
  <2>1. c + k \in 0 .. RING_DEPTH - 1
    BY <1>1, <1>2
  <2>2. (c + k) % RING_DEPTH = c + k
    BY <1>1, <2>1
  <2>3. QED
    BY <1>2, <2>1, <2>2 DEF Slots
<1>3. CASE ~(c + k < RING_DEPTH)
  <2>1. c + k - RING_DEPTH \in 0 .. RING_DEPTH - 1
    BY <1>1, <1>3
  <2>2. (c + k) % RING_DEPTH = c + k - RING_DEPTH
    BY <1>1, <2>1
  <2>3. QED
    BY <1>3, <2>1, <2>2 DEF Slots
<1>4. QED
  BY <1>2, <1>3

(* s is what is posted; the first of it is at the consumer.                *)
Listed(s, ring, p, c, S) ==
  /\ Len(s) = Posted(p, c)
  /\ \A i \in 1 .. Posted(p, c) : s[i] = ring[(c + i - 1) % RING_DEPTH]
  /\ p # c => s # << >> /\ Head(s) = ring[c] /\ ring[c] \in S
  /\ p = c => s = << >>

(* What is posted, as a sequence.                                          *)
LEMMA PostedInIs ==
  ASSUME NEW ring, NEW p \in Slots, NEW c \in Slots,
         NEW S, PostedIn(ring, p, c) \in Seq(S)
  PROVE  Listed(PostedIn(ring, p, c), ring, p, c, S)
<1> DEFINE s == PostedIn(ring, p, c)
           n == Posted(p, c)
<1>1. n \in Nat /\ (n = 0 <=> p = c) /\ RING_DEPTH \in Nat \ {0, 1} /\ c \in 0 .. RING_DEPTH - 1
  BY PostedIs, RingAssumption DEF Slots
<1>2. s = [i \in 1 .. n |-> ring[(c + i - 1) % RING_DEPTH]]
  BY DEF PostedIn
<1> HIDE DEF n
<1>3. DOMAIN s = 1 .. n /\ \A i \in 1 .. n : s[i] = ring[(c + i - 1) % RING_DEPTH]
  BY <1>2
<1>4. s \in Seq(S)
  OBVIOUS
<1> HIDE DEF s
<1>5. Len(s) = n
  BY <1>1, <1>3, <1>4, LenProperties
<1>6. CASE p # c
  <2>1. 1 \in 1 .. n
    BY <1>1, <1>6
  <2>2. s[1] = ring[(c + 1 - 1) % RING_DEPTH]
    BY <1>3, <2>1
  <2>3. c + 1 - 1 = c /\ c % RING_DEPTH = c
    BY <1>1
  <2>4. s # << >> /\ Head(s) = s[1] /\ s[1] \in S
    BY <1>4, <1>5, <2>1
  <2>5. QED
    BY <1>3, <1>5, <1>6, <2>2, <2>3, <2>4 DEF s, n, Listed
<1>7. CASE p = c
  <2>1. Len(s) = 0
    BY <1>1, <1>5, <1>7
  <2>2. s = << >>
    BY <1>4, <2>1
  <2>3. QED
    BY <1>3, <1>5, <1>7, <2>2 DEF s, n, Listed
<1>8. QED
  BY <1>6, <1>7

(* A sequence is told by its length and its elements.                      *)
LEMMA SameSequence ==
  ASSUME NEW S, NEW s \in Seq(S), NEW n \in Nat, NEW f, f = [i \in 1 .. n |-> f[i]],
         Len(s) = n, \A i \in 1 .. n : f[i] = s[i]
  PROVE  f = s
OBVIOUS

(* In the ring more there is one descriptor more, d.                       *)
Behind(more, ring, p, c, d) == PostedIn(more, After(p), c) = Append(PostedIn(ring, p, c), d)

(* A descriptor posted comes behind those that wait.                       *)
LEMMA RingPost ==
  ASSUME NEW ring, DOMAIN ring = Slots, NEW p \in Slots, NEW c \in Slots, MayPost(p, c),
         NEW S, NEW d \in S, PostedIn(ring, p, c) \in Seq(S),
         NEW more, more = [ring EXCEPT ![p] = d]
  PROVE  Behind(more, ring, p, c, d)
<1> DEFINE s == PostedIn(ring, p, c)
           n == Posted(p, c)
           t == PostedIn(more, After(p), c)
<1>1. /\ RING_DEPTH \in Nat \ {0, 1} /\ p \in 0 .. RING_DEPTH - 1 /\ c \in 0 .. RING_DEPTH - 1
      /\ n = IF p >= c THEN p - c ELSE p - c + RING_DEPTH
      /\ n \in Nat /\ n < RING_DEPTH - 1
  BY PostedIs, RingAssumption DEF Slots, MayPost
<1>2. After(p) = IF p + 1 < RING_DEPTH THEN p + 1 ELSE 0
  <2>1. CASE p + 1 < RING_DEPTH
    BY <1>1, <2>1 DEF After
  <2>2. CASE p + 1 = RING_DEPTH
    BY <1>1, <2>2 DEF After
  <2>3. QED
    BY <1>1, <2>1, <2>2
<1>3. After(p) \in Slots
  BY AfterType
<1>4. Posted(After(p), c) = IF After(p) >= c THEN After(p) - c ELSE After(p) - c + RING_DEPTH
  BY <1>3, PostedIs
<1>5. Posted(After(p), c) = n + 1
  <2> HIDE DEF n
  <2> DEFINE a == After(p)
  <2>1. a = IF p + 1 < RING_DEPTH THEN p + 1 ELSE 0
    BY <1>2
  <2>2. Posted(a, c) = IF a >= c THEN a - c ELSE a - c + RING_DEPTH
    BY <1>4
  <2> HIDE DEF a
  <2>3. Posted(a, c) = n + 1
    BY <1>1, <2>1, <2>2
  <2>4. QED
    BY <2>3 DEF a
<1>6. (c + n) % RING_DEPTH = p
  <2>1. (c + n) % RING_DEPTH = IF c + n < RING_DEPTH THEN c + n ELSE c + n - RING_DEPTH
    <3>1. n \in 0 .. RING_DEPTH - 1
      BY <1>1
    <3> HIDE DEF n
    <3>2. QED
      BY <3>1, SlotIs
  <2>2. QED
    BY <1>1, <2>1
<1>7. ASSUME NEW i \in 1 .. n
      PROVE  (c + i - 1) % RING_DEPTH \in Slots \ {p}
  <2> DEFINE k == i - 1
  <2>1. k \in 0 .. RING_DEPTH - 1 /\ k < n
    BY <1>1
  <2> HIDE DEF k
  <2>2. /\ (c + k) % RING_DEPTH = IF c + k < RING_DEPTH THEN c + k ELSE c + k - RING_DEPTH
        /\ (c + k) % RING_DEPTH \in Slots
    BY <2>1, SlotIs
  <2>3. (c + k) % RING_DEPTH # p
    BY <1>1, <2>1, <2>2
  <2>4. c + i - 1 = c + k
    BY <1>1 DEF k
  <2>5. QED
    BY <2>2, <2>3, <2>4
<1> HIDE DEF n
<1>8. /\ s \in Seq(S) /\ Len(s) = n
      /\ \A i \in 1 .. n : s[i] = ring[(c + i - 1) % RING_DEPTH]
  <2>1. Listed(s, ring, p, c, S) /\ s \in Seq(S)
    BY PostedInIs
  <2> HIDE DEF s
  <2>2. QED
    BY <2>1 DEF Listed, n
<1>9. t = [i \in 1 .. n + 1 |-> more[(c + i - 1) % RING_DEPTH]]
  BY <1>5 DEF PostedIn
<1> HIDE DEF s
<1>10. /\ Append(s, d) \in Seq(S) /\ Len(Append(s, d)) = n + 1
       /\ Append(s, d)[n + 1] = d /\ \A i \in 1 .. n : Append(s, d)[i] = s[i]
  BY <1>8, AppendProperties
<1> DEFINE u == Append(s, d)
<1>11. u \in Seq(S) /\ Len(u) = n + 1 /\ u[n + 1] = d /\ \A i \in 1 .. n : u[i] = s[i]
  BY <1>10
<1> HIDE DEF u
<1>12. ASSUME NEW i \in 1 .. n + 1
       PROVE  more[(c + i - 1) % RING_DEPTH] = u[i]
  <2>1. CASE i \in 1 .. n
    <3>1. more[(c + i - 1) % RING_DEPTH] = ring[(c + i - 1) % RING_DEPTH]
      BY <1>7, <2>1
    <3>2. ring[(c + i - 1) % RING_DEPTH] = s[i] /\ u[i] = s[i]
      BY <1>8, <1>11, <2>1
    <3>3. QED
      BY <3>1, <3>2
  <2>2. CASE i = n + 1
    <3>1. c + i - 1 = c + n
      BY <1>1, <2>2
    <3>2. more[p] = d
      OBVIOUS
    <3>3. QED
      BY <1>6, <1>11, <2>2, <3>1, <3>2
  <2>3. QED
    BY <1>1, <2>1, <2>2
<1> HIDE DEF t
<1>13. t = u
  <2>1. t = [i \in 1 .. n + 1 |-> t[i]] /\ \A i \in 1 .. n + 1 : t[i] = u[i]
    BY <1>9, <1>12
  <2>2. n + 1 \in Nat
    BY <1>1
  <2>3. QED
    BY <1>11, <2>1, <2>2, SameSequence
<1>14. QED
  BY <1>13 DEF Behind, s, t, u

(* A sequence without its first element.                                   *)
LEMMA TailIs ==
  ASSUME NEW S, NEW s \in Seq(S), s # << >>
  PROVE  /\ Tail(s) \in Seq(S) /\ Len(Tail(s)) = Len(s) - 1
         /\ \A i \in 1 .. Len(s) - 1 : Tail(s)[i] = s[i + 1]
OBVIOUS

(* Without the descriptor at the consumer the others are left.             *)
LEMMA RingConsume ==
  ASSUME NEW ring, NEW p \in Slots, NEW c \in Slots, p # c,
         NEW S, PostedIn(ring, p, c) \in Seq(S)
  PROVE  PostedIn(ring, p, After(c)) = Tail(PostedIn(ring, p, c))
<1> DEFINE s == PostedIn(ring, p, c)
           n == Posted(p, c)
           a == After(c)
           t == PostedIn(ring, p, a)
<1>1. /\ RING_DEPTH \in Nat \ {0, 1} /\ p \in 0 .. RING_DEPTH - 1 /\ c \in 0 .. RING_DEPTH - 1
      /\ n = IF p >= c THEN p - c ELSE p - c + RING_DEPTH
      /\ n \in 1 .. RING_DEPTH - 1
  BY PostedIs, RingAssumption DEF Slots
<1>2. a = IF c + 1 < RING_DEPTH THEN c + 1 ELSE 0
  <2>1. CASE c + 1 < RING_DEPTH
    BY <1>1, <2>1 DEF After
  <2>2. CASE c + 1 = RING_DEPTH
    BY <1>1, <2>2 DEF After
  <2>3. QED
    BY <1>1, <2>1, <2>2
<1>3. a \in Slots
  BY AfterType
<1>4. Posted(p, a) = n - 1
  <2>1. Posted(p, a) = IF p >= a THEN p - a ELSE p - a + RING_DEPTH
    BY <1>3, PostedIs
  <2> HIDE DEF n, a
  <2>2. QED
    BY <1>1, <1>2, <2>1
<1>5. /\ s \in Seq(S) /\ Len(s) = n
      /\ \A i \in 1 .. n : s[i] = ring[(c + i - 1) % RING_DEPTH]
  <2>1. Listed(s, ring, p, c, S) /\ s \in Seq(S)
    BY PostedInIs
  <2> HIDE DEF s
  <2>2. QED
    BY <2>1 DEF Listed
<1> HIDE DEF n, a
<1>6. t = [i \in 1 .. n - 1 |-> ring[(a + i - 1) % RING_DEPTH]]
  BY <1>4 DEF PostedIn
<1> HIDE DEF s
<1>7. Tail(s) \in Seq(S) /\ Len(Tail(s)) = n - 1
      /\ \A i \in 1 .. n - 1 : Tail(s)[i] = s[i + 1]
  <2>1. s # << >>
    BY <1>1, <1>5
  <2>2. QED
    BY ONLY <1>5, <2>1, TailIs
<1>8. ASSUME NEW i \in 1 .. n - 1
      PROVE  ring[(a + i - 1) % RING_DEPTH] = Tail(s)[i]
  <2> DEFINE k == i - 1
  <2>1. k \in 0 .. RING_DEPTH - 1 /\ k + 1 \in 0 .. RING_DEPTH - 1 /\ k + 1 < n
    BY <1>1
  <2>2. a + i - 1 = a + k /\ c + (i + 1) - 1 = c + (k + 1)
    BY <1>1, <1>2
  <2> HIDE DEF k
  <2>3. (a + k) % RING_DEPTH = IF a + k < RING_DEPTH THEN a + k ELSE a + k - RING_DEPTH
    BY <1>3, <2>1, SlotIs
  <2>4. (c + (k + 1)) % RING_DEPTH =
          IF c + (k + 1) < RING_DEPTH THEN c + (k + 1) ELSE c + (k + 1) - RING_DEPTH
    BY <2>1, SlotIs
  <2>5. (a + k) % RING_DEPTH = (c + (k + 1)) % RING_DEPTH
    BY <1>1, <1>2, <2>1, <2>3, <2>4
  <2>6. i + 1 \in 1 .. n
    BY <1>1
  <2>7. s[i + 1] = ring[(c + (i + 1) - 1) % RING_DEPTH]
    BY <1>5, <2>6
  <2>8. QED
    BY <1>7, <2>2, <2>5, <2>7
<1> HIDE DEF t
<1>9. t = Tail(s)
  <2> DEFINE u == Tail(s)
  <2>1. u \in Seq(S) /\ Len(u) = n - 1 /\ n - 1 \in Nat
    BY <1>1, <1>7
  <2>2. t = [i \in 1 .. n - 1 |-> t[i]] /\ \A i \in 1 .. n - 1 : t[i] = u[i]
    BY <1>6, <1>8
  <2> HIDE DEF u
  <2>3. t = u
    BY <2>1, <2>2, SameSequence
  <2>4. QED
    BY <2>3 DEF u
<1>10. QED
  BY <1>9 DEF s, t, a

-----------------------------------------------------------------------------
(* Chains of fragments.                                                    *)

(* Once the first fragment is taken the chain goes on from it.             *)
LEMMA ChainTail ==
  ASSUME NEW S, NEW s \in Seq(S), s # << >>, NEW eop, NEW q, NEW last, NEW r,
         Chain(eop, q, s, last, r)
  PROVE  Chain(Head(s).eop, Head(s).queue, Tail(s), last, r)
<1> DEFINE n == Len(s)
           t == Tail(s)
<1>1. /\ n \in Nat \ {0} /\ Len(t) = n - 1 /\ Head(s) = s[1]
      /\ \A i \in 1 .. n - 1 : t[i] = s[i + 1]
  OBVIOUS
<1>2. \A i \in 0 .. n - 1 : /\ EndsAt(Head(s).eop, t, i) = EndsAt(eop, s, i + 1)
                            /\ QueueAt(Head(s).queue, t, i) = QueueAt(q, s, i + 1)
  <2> HIDE DEF t
  <2>1. ASSUME NEW i \in 0 .. n - 1
        PROVE  /\ EndsAt(Head(s).eop, t, i) = EndsAt(eop, s, i + 1)
               /\ QueueAt(Head(s).queue, t, i) = QueueAt(q, s, i + 1)
    <3>1. CASE i = 0
      BY <1>1, <3>1 DEF EndsAt, QueueAt
    <3>2. CASE i # 0
      <4>1. i \in 1 .. n - 1 /\ i + 1 # 0
        BY <1>1, <3>2
      <4>2. QED
        BY <1>1, <3>2, <4>1 DEF EndsAt, QueueAt
    <3>3. QED
      BY <3>1, <3>2
  <2>2. QED
    BY <2>1
<1>3. /\ \A i \in 1 .. n : EndsAt(eop, s, i - 1) \/ s[i].queue = QueueAt(q, s, i - 1)
      /\ EndsAt(eop, s, n) = last
      /\ ~last => QueueAt(q, s, n) = r
  BY DEF Chain
<1> HIDE DEF n, t
<1>4. ASSUME NEW i \in 1 .. n - 1
      PROVE  EndsAt(Head(s).eop, t, i - 1) \/ t[i].queue = QueueAt(Head(s).queue, t, i - 1)
  <2>1. i - 1 \in 0 .. n - 1 /\ i + 1 \in 1 .. n /\ (i + 1) - 1 = i /\ (i - 1) + 1 = i
    BY <1>1
  <2>2. EndsAt(eop, s, i) \/ s[i + 1].queue = QueueAt(q, s, i)
    BY <1>3, <2>1
  <2>3. /\ EndsAt(Head(s).eop, t, i - 1) = EndsAt(eop, s, i)
        /\ QueueAt(Head(s).queue, t, i - 1) = QueueAt(q, s, i)
    BY <1>2, <2>1
  <2>4. QED
    BY <1>1, <2>2, <2>3
<1>5. n - 1 \in 0 .. n - 1 /\ (n - 1) + 1 = n
  BY <1>1
<1>6. QED
  BY <1>1, <1>2, <1>3, <1>4, <1>5 DEF Chain, t

(* A fragment that goes on with the last one comes behind it.              *)
LEMMA ChainAppend ==
  ASSUME NEW S, NEW s \in Seq(S), NEW d \in S, NEW eop, NEW q, NEW last, NEW r,
         Chain(eop, q, s, last, r), last \/ d.queue = r
  PROVE  Chain(eop, q, Append(s, d), d.eop, d.queue)
<1> DEFINE n == Len(s)
           t == Append(s, d)
<1>1. /\ n \in Nat /\ Len(t) = n + 1 /\ t[n + 1] = d
      /\ \A i \in 1 .. n : t[i] = s[i]
  BY AppendProperties
<1>2. /\ \A i \in 1 .. n : EndsAt(eop, s, i - 1) \/ s[i].queue = QueueAt(q, s, i - 1)
      /\ EndsAt(eop, s, n) = last
      /\ ~last => QueueAt(q, s, n) = r
  BY DEF Chain
<1> HIDE DEF n, t
<1>3. \A i \in 0 .. n : /\ EndsAt(eop, t, i) = EndsAt(eop, s, i)
                        /\ QueueAt(q, t, i) = QueueAt(q, s, i)
  BY <1>1 DEF EndsAt, QueueAt
<1>4. ASSUME NEW i \in 1 .. n + 1
      PROVE  EndsAt(eop, t, i - 1) \/ t[i].queue = QueueAt(q, t, i - 1)
  <2>1. i - 1 \in 0 .. n /\ (i \in 1 .. n \/ i = n + 1)
    BY <1>1
  <2>2. CASE i \in 1 .. n
    BY <1>1, <1>2, <1>3, <2>1, <2>2
  <2>3. CASE i = n + 1
    <3>1. i - 1 = n /\ n \in 0 .. n
      BY <1>1, <2>3
    <3>2. EndsAt(eop, t, n) = last /\ (~last => QueueAt(q, t, n) = r)
      BY <1>2, <1>3, <3>1
    <3>3. QED
      BY <1>1, <2>3, <3>1, <3>2
  <2>4. QED
    BY <2>1, <2>2, <2>3
<1>5. EndsAt(eop, t, n + 1) = d.eop /\ QueueAt(q, t, n + 1) = d.queue
  BY <1>1 DEF EndsAt, QueueAt
<1>6. QED
  BY <1>1, <1>4, <1>5 DEF Chain, t

(* Where a packet begins any queue may come before.                        *)
LEMMA ChainStarts ==
  ASSUME NEW S, NEW s \in Seq(S), s # << >>, NEW q, NEW other, NEW last, NEW r,
         Chain(TRUE, q, s, last, r)
  PROVE  Chain(TRUE, other, s, last, r)
<1>1. Len(s) \in Nat \ {0}
  OBVIOUS
<1>2. \A i \in 1 .. Len(s) : i - 1 # 0 => QueueAt(other, s, i - 1) = QueueAt(q, s, i - 1)
  BY DEF QueueAt
<1>3. EndsAt(TRUE, s, 0)
  BY DEF EndsAt
<1>4. QueueAt(other, s, Len(s)) = QueueAt(q, s, Len(s))
  BY <1>1 DEF QueueAt
<1>5. QED
  BY <1>1, <1>2, <1>3, <1>4 DEF Chain

(* The first fragment starts a packet or is for the queue before it.       *)
LEMMA ChainHead ==
  ASSUME NEW S, NEW s \in Seq(S), s # << >>, NEW eop, NEW q, NEW last, NEW r,
         Chain(eop, q, s, last, r)
  PROVE  eop \/ Head(s).queue = q
<1>1. Len(s) \in Nat \ {0} /\ Head(s) = s[1] /\ 1 \in 1 .. Len(s)
  OBVIOUS
<1>2. EndsAt(eop, s, 1 - 1) \/ s[1].queue = QueueAt(q, s, 1 - 1)
  BY <1>1 DEF Chain
<1>3. QED
  BY <1>1, <1>2 DEF EndsAt, QueueAt

-----------------------------------------------------------------------------
(* The driver.                                                             *)

(* No fragment ends behind the end of its packet.                          *)
LEMMA SplitEnds ==
  ASSUME NEW split \in TxSplits, NEW k \in 1 .. Len(split)
  PROVE  /\ split[k] \in Nat \ {0} /\ split[k] <= Last(split) /\ Last(split) \in TxLengths
         /\ k > 1 => split[k - 1] < split[k]
<1> DEFINE n == Len(split)
           T == {j \in Nat : \A i \in 1 .. n : i + j = n => split[i] <= split[n]}
<1>1. /\ split \in Seq(Nat \ {0}) /\ n \in Nat \ {0}
      /\ \A i \in 1 .. n : split[i] \in Nat \ {0}
      /\ \A i \in 2 .. n : split[i - 1] < split[i]
  BY SystemAssumption
<1>2. 0 \in T
  BY <1>1
<1>3. \A j \in T : j + 1 \in T
  <2>1. ASSUME NEW j \in T, NEW i \in 1 .. n, i + (j + 1) = n
        PROVE  split[i] <= split[n]
    <3>1. i + 1 \in 1 .. n /\ (i + 1) + j = n /\ j \in Nat
      BY <1>1, <2>1
    <3>2. split[i + 1] <= split[n]
      BY <3>1
    <3>3. i + 1 \in 2 .. n /\ (i + 1) - 1 = i
      BY <1>1, <3>1
    <3>4. split[i] < split[i + 1]
      BY <1>1, <3>3
    <3>5. split[i] \in Nat /\ split[i + 1] \in Nat /\ split[n] \in Nat
      BY <1>1, <3>1
    <3>6. QED
      BY <3>2, <3>4, <3>5
  <2>2. ASSUME NEW j \in T
        PROVE  j + 1 \in T
    <3>1. j + 1 \in Nat
      OBVIOUS
    <3>2. QED
      BY <2>1, <3>1
  <2>3. QED
    BY <2>2
<1>4. T = Nat
  <2>1. T \in SUBSET Nat
    OBVIOUS
  <2> HIDE DEF T
  <2>2. QED
    BY <1>2, <1>3, <2>1, SetInduction
<1>5. n - k \in Nat /\ k + (n - k) = n
  BY <1>1
<1>6. split[k] <= split[n]
  BY <1>4, <1>5
<1>7. Last(split) = split[n] /\ Last(split) \in TxLengths
  BY DEF Last, TxLengths
<1>8. k > 1 => split[k - 1] < split[k]
  BY <1>1
<1>9. QED
  BY <1>1, <1>6, <1>7, <1>8

(* s up to a, on to b, and all of it.                                      *)
Parted(s, a, b, S) ==
  /\ SubSeq(s, 1, a) \in Seq(S) /\ SubSeq(s, a + 1, b) \in Seq(S)
  /\ Len(SubSeq(s, a + 1, b)) = b - a
  /\ SubSeq(s, 1, a) \o SubSeq(s, a + 1, b) = SubSeq(s, 1, b)
  /\ SubSeq(s, 1, Len(s)) = s
  /\ SubSeq(s, 1, 0) = << >>

(* Two parts of a sequence, the second of which begins where the first one *)
(* ends.                                                                   *)
Adjacent(s, z, a, b, S) ==
  /\ SubSeq(s, z + 1, a) \in Seq(S) /\ Len(SubSeq(s, z + 1, a)) = a - z
  /\ SubSeq(s, a + 1, b) \in Seq(S) /\ Len(SubSeq(s, a + 1, b)) = b - a
  /\ SubSeq(s, z + 1, a) \o SubSeq(s, a + 1, b) = SubSeq(s, z + 1, b)

(* A part of a sequence. *)
LEMMA PartIs ==
  ASSUME NEW S, NEW s \in Seq(S), NEW a \in Nat, NEW b \in Nat, a <= b, b <= Len(s)
  PROVE  /\ SubSeq(s, a + 1, b) \in Seq(S) /\ Len(SubSeq(s, a + 1, b)) = b - a
         /\ \A i \in 1 .. b - a : SubSeq(s, a + 1, b)[i] = s[a + i]
<1> DEFINE m == SubSeq(s, a + 1, b)
<1>1. /\ Len(s) \in Nat /\ \A i \in 1 .. Len(s) : s[i] \in S
  OBVIOUS
<1>2. m \in Seq(S) /\ Len(m) = b - a
  <2>1. \A i \in a + 1 .. b : s[i] \in S
    BY <1>1
  <2>2. CASE a + 1 <= b
    BY <1>1, <2>1, <2>2
  <2>3. CASE ~(a + 1 <= b)
    BY <1>1, <2>1, <2>3
  <2>4. QED
    BY <2>2, <2>3
<1>3. ASSUME NEW i \in 1 .. b - a
      PROVE  m[i] = s[a + i]
  <2>1. m[i] = s[(a + 1) + i - 1] /\ (a + 1) + i - 1 = a + i
    BY <1>1
  <2>2. QED
    BY <2>1
<1>4. QED
  BY <1>2, <1>3

(* Such parts make one. *)
LEMMA AdjacentJoin ==
  ASSUME NEW S, NEW s \in Seq(S), NEW z \in Nat, NEW a \in Nat, NEW b \in Nat,
         z <= a, a <= b, b <= Len(s)
  PROVE  Adjacent(s, z, a, b, S)
<1> DEFINE f == SubSeq(s, z + 1, a)
           m == SubSeq(s, a + 1, b)
           w == SubSeq(s, z + 1, b)
<1>1. /\ f \in Seq(S) /\ Len(f) = a - z /\ \A i \in 1 .. a - z : f[i] = s[z + i]
      /\ m \in Seq(S) /\ Len(m) = b - a /\ \A i \in 1 .. b - a : m[i] = s[a + i]
      /\ w \in Seq(S) /\ Len(w) = b - z /\ \A i \in 1 .. b - z : w[i] = s[z + i]
  <2>1. Len(s) \in Nat /\ a <= Len(s) /\ z <= b
    OBVIOUS
  <2>2. QED
    BY <2>1, PartIs
<1> HIDE DEF f, m, w
<1>2. f \o m \in Seq(S) /\ Joined(f \o m, f, m)
  BY <1>1, ConcatTwo
<1> DEFINE c == f \o m
           n == a - z
           k == b - a
<1>3. n \in Nat /\ k \in Nat /\ b - z = n + k
  OBVIOUS
<1>4. c \in Seq(S) /\ Len(c) = n + k
      /\ \A i \in 1 .. n + k : c[i] = IF i <= n THEN f[i] ELSE m[i - n]
  BY <1>1, <1>2 DEF Joined
<1> HIDE DEF c
<1>5. \A i \in 1 .. n + k : c[i] = w[i]
  <2>1. ASSUME NEW i \in 1 .. n + k
        PROVE  c[i] = w[i]
    <3>1. w[i] = s[z + i]
      BY <1>1, <1>3
    <3>2. CASE i <= n
      BY <1>1, <1>4, <3>1, <3>2
    <3>3. CASE ~(i <= n)
      <4>1. i - n \in 1 .. k /\ a + (i - n) = z + i
        BY <3>3
      <4>2. QED
        BY <1>1, <1>4, <3>1, <3>3, <4>1
    <3>4. QED
      BY <3>2, <3>3
  <2>2. QED
    BY <2>1
<1>6. Len(w) = n + k /\ n + k \in Nat /\ w \in Seq(S)
  BY <1>1, <1>3
<1> HIDE DEF n, k
<1>7. c = w
  BY <1>4, <1>5, <1>6
<1>8. QED
  BY <1>1, <1>7 DEF Adjacent, c, f, m, w

(* The start of a sequence, more of it, and all of it.                     *)
LEMMA PartsJoin ==
  ASSUME NEW S, NEW s \in Seq(S), NEW a \in Nat, NEW b \in Nat, a <= b, b <= Len(s)
  PROVE  Parted(s, a, b, S)
<1>1. Adjacent(s, 0, a, b, S)
  BY AdjacentJoin
<1>2. 0 + 1 = 1
  OBVIOUS
<1>3. SubSeq(s, 1, Len(s)) = s /\ SubSeq(s, 1, 0) = << >>
  OBVIOUS
<1>4. QED
  BY <1>1, <1>2, <1>3 DEF Adjacent, Parted

(* d is the next fragment of p: it goes on where the driver is.            *)
FragmentOf(p, d) ==
  /\ d \in Fragments /\ d.queue = p.queue /\ d.eop = (WithPosted(p) = NoPosting)
  /\ ~d.eop => WithPosted(p).queue = p.queue
  /\ tx_posting # NoPosting => p = tx_posting

(* What it adds to what is posted of the packet.                           *)
PostsMore(p, d) ==
  /\ PostedOf(tx_posting, p.queue) \in Seq(Bytes)
  /\ d.eop => /\ PostedOf(tx_posting, p.queue) \o d.bytes \in TxPayloads(p.queue)
              /\ PostedOf(WithPosted(p), p.queue) = << >>
  /\ ~d.eop => PostedOf(WithPosted(p), p.queue) = PostedOf(tx_posting, p.queue) \o d.bytes
  /\ \A q \in QUEUES : q # p.queue => /\ PostedOf(tx_posting, q) = << >>
                                      /\ PostedOf(WithPosted(p), q) = << >>

(* What the driver posts goes on with its packet. *)
LEMMA FragmentIs ==
  ASSUME PostingHolds, NEW p \in NextPackets
  PROVE  FragmentOf(p, NextFragment(p)) /\ PostsMore(p, NextFragment(p))
<1> DEFINE split == p.split
           m == p.posted
           from == EndOf(p, m)
           to == EndOf(p, m + 1)
           N == Last(split)
           q == p.queue
           all == Payload(q, N)
           d == NextFragment(p)
<1>1. /\ p \in [queue : TxQueues, split : TxSplits, posted : Nat]
      /\ m < Len(split)
      /\ tx_posting # NoPosting => p = tx_posting
      /\ tx_posting = NoPosting => m = 0
  <2>1. CASE tx_posting # NoPosting
    BY <2>1 DEF NextPackets, PostingHolds
  <2>2. CASE tx_posting = NoPosting
    <3>1. p \in [queue : TxQueues, split : TxSplits, posted : {0}]
      BY <2>2 DEF NextPackets
    <3>2. QED
      BY <2>2, <3>1, SystemAssumption
  <2>3. QED
    BY <2>1, <2>2
<1>2. split \in TxSplits /\ m \in Nat /\ q \in QUEUES /\ split \in Seq(Nat \ {0})
  BY <1>1, SystemAssumption
<1>3. /\ m + 1 \in 1 .. Len(split) /\ to = split[m + 1]
      /\ from = IF m = 0 THEN 0 ELSE split[m]
      /\ Len(split) \in Nat
  BY <1>1, <1>2 DEF EndOf
<1>4. from \in Nat /\ to \in Nat /\ from < to /\ to <= N /\ N \in Nat /\ N \in TxLengths
  <2>1. /\ split[m + 1] \in Nat \ {0} /\ split[m + 1] <= N /\ N \in TxLengths
        /\ m + 1 > 1 => split[m + 1 - 1] < split[m + 1]
    BY <1>2, <1>3, SplitEnds
  <2>2. m # 0 => split[m] \in Nat \ {0}
    <3>1. m # 0 => m \in 1 .. Len(split)
      BY <1>2, <1>3
    <3>2. QED
      BY <1>2, <3>1, SplitEnds
  <2>3. m # 0 => split[m] < split[m + 1]
    <3>1. m # 0 => m + 1 > 1 /\ m + 1 - 1 = m
      BY <1>2
    <3>2. QED
      BY <2>1, <3>1
  <2>4. N \in Nat
    <3>1. Len(split) \in 1 .. Len(split)
      BY <1>3
    <3>2. QED
      BY <1>2, <3>1, SplitEnds DEF Last
  <2>5. QED
    BY <1>3, <2>1, <2>2, <2>3, <2>4
<1>5. all \in Seq(Bytes) /\ Len(all) = N
  BY <1>2, <1>4, PayloadType DEF Bytes
<1>6. /\ d.queue = q /\ d.bytes = SubSeq(all, from + 1, to)
      /\ d.eop = (m + 1 = Len(split)) /\ d \in [queue : {d.queue}, bytes : {d.bytes}, eop : {d.eop}]
  BY DEF NextFragment
<1>7. d.eop => to = N
  BY <1>3, <1>6 DEF Last
<1> DEFINE before == SubSeq(all, 1, from)
<1> HIDE DEF d, from, to, N, all
<1>8. /\ before \in Seq(Bytes) /\ d.bytes \in Seq(Bytes) /\ Len(d.bytes) = to - from
      /\ before \o d.bytes = SubSeq(all, 1, to)
      /\ SubSeq(all, 1, N) = all /\ SubSeq(all, 1, 0) = << >>
  <2>1. from <= to /\ to <= Len(all)
    BY <1>4, <1>5
  <2>2. Parted(all, from, to, Bytes)
    BY ONLY <1>4, <1>5, <2>1, PartsJoin
  <2>3. QED
    BY <1>5, <1>6, <2>2 DEF Parted
<1>9. d \in Fragments
  <2>1. Len(d.bytes) <= N
    BY <1>4, <1>8
  <2>2. d \in [queue : QUEUES, bytes : Seq(Bytes), eop : BOOLEAN]
    BY <1>2, <1>6, <1>8
  <2>3. QED
    BY <1>4, <2>1, <2>2 DEF Fragments
<1>10. WithPosted(p) = IF d.eop THEN NoPosting ELSE [p EXCEPT !.posted = m + 1]
  BY <1>6 DEF WithPosted
<1>11. ~d.eop => /\ WithPosted(p) # NoPosting /\ WithPosted(p).queue = q
                 /\ WithPosted(p).split = split /\ WithPosted(p).posted = m + 1
  <2>1. ASSUME ~d.eop
        PROVE  /\ WithPosted(p).queue = q
               /\ WithPosted(p).split = split /\ WithPosted(p).posted = m + 1
    BY <1>1, <1>10, <2>1
  <2>2. m + 1 # 0
    BY <1>2
  <2>3. NoPosting.posted = 0
    BY DEF NoPosting
  <2>4. QED
    BY <2>1, <2>2, <2>3
<1>12. FragmentOf(p, d)
  BY <1>1, <1>6, <1>9, <1>10, <1>11 DEF FragmentOf
<1>13. PostedOf(tx_posting, q) = before
  <2>1. CASE tx_posting = NoPosting
    <3>1. from = 0
      BY <1>1, <1>3, <2>1
    <3>2. before = << >>
      BY <1>8, <3>1
    <3>3. QED
      BY <2>1, <3>2 DEF PostedOf
  <2>2. CASE tx_posting # NoPosting
    BY <1>1, <2>2 DEF PostedOf, all, from, N
  <2>3. QED
    BY <2>1, <2>2
<1>14. ~d.eop => PostedOf(WithPosted(p), q) = SubSeq(all, 1, to)
  BY <1>11 DEF PostedOf, all, to, N, EndOf
<1>15. d.eop => PostedOf(WithPosted(p), q) = << >>
  BY <1>10 DEF PostedOf
<1>16. d.eop => SubSeq(all, 1, to) \in TxPayloads(q)
  <2>1. all \in TxPayloads(q)
    BY <1>4 DEF TxPayloads, all
  <2>2. QED
    BY <1>7, <1>8, <2>1
<1>17. \A r \in QUEUES : r # q => PostedOf(tx_posting, r) = << >>
                                  /\ PostedOf(WithPosted(p), r) = << >>
  <2>1. \A r : r # q => PostedOf(tx_posting, r) = << >>
    BY <1>1 DEF PostedOf
  <2>2. \A r : r # q => PostedOf(WithPosted(p), r) = << >>
    BY <1>10, <1>11 DEF PostedOf
  <2>3. QED
    BY <2>1, <2>2
<1>18. PostsMore(p, d)
  <2> HIDE DEF before
  <2>1. QED
    BY <1>6, <1>8, <1>13, <1>14, <1>15, <1>16, <1>17 DEF PostsMore
<1>19. QED
  BY <1>12, <1>18 DEF d

(* What the driver does at an edge.                                        *)
DriverDoes(bus) ==
  /\ RoomFor(bus)
  /\ bus.op = "post rx" => bus.descriptor \in RxDescriptors
  /\ IF bus.op = "post tx"
     THEN \E p \in NextPackets : /\ bus.descriptor = NextFragment(p)
                                 /\ tx_posting' = WithPosted(p)
     ELSE tx_posting' = tx_posting

(* Every step is an edge at which the driver keeps to its rules. *)
LEMMA DriverAtStep ==
  ASSUME LengthsAccepted, SystemInv, Next
  PROVE  \E bus, host_ready, takes : \E offers \in Offers, stale \in Stale :
           DriverDoes(bus) /\ Edge(bus, offers, takes, host_ready, stale)
<1>1. CASE QuietEdge(Quiet, HostReady, {})
  <2>1. PICK bus \in Quiet, host_ready \in HostReady, offers \in Offers,
             stale \in Stale, takes \in Takes :
               Edge(bus, offers, takes, host_ready, stale)
    BY <1>1 DEF QuietEdge
  <2>2. DriverDoes(bus)
    <3>1. bus = Nothing \/ bus = Read \/ bus = Enable \/ bus = Disable
      BY SystemAssumption DEF Quiet
    <3>2. /\ Nothing.op = "nothing" /\ Read.op = "read"
          /\ Enable.op = "enable" /\ Disable.op = "disable"
      BY DEF Nothing, Read, Enable, Disable
    <3> HIDE DEF Nothing, Read, Enable, Disable
    <3>4. bus.op # "post rx" /\ bus.op # "post tx"
      BY <3>1, <3>2
    <3>3. QED
      BY <1>1, <3>4 DEF QuietEdge, DriverDoes, RoomFor
  <2>3. QED
    BY <2>1, <2>2
<1>2. CASE PostRxEdge
  <2>1. PICK d \in RxDescriptors, host_ready \in HostReady, offers \in Offers,
             stale \in Stale, takes \in Takes :
               Edge(PostRx(d), offers, takes, host_ready, stale)
    BY <1>2 DEF PostRxEdge
  <2>2. DriverDoes(PostRx(d))
    BY <1>2, SystemAssumption DEF DriverDoes, RoomFor, PostRx, PostRxEdge
  <2>3. QED
    BY <2>1, <2>2
<1>3. CASE PostTxEdge
  <2>1. PICK p \in NextPackets, host_ready \in HostReady, offers \in Offers,
             stale \in Stale, takes \in Takes :
               /\ Edge(PostTx(NextFragment(p)), offers, takes, host_ready, stale)
               /\ tx_posting' = WithPosted(p)
    BY <1>3 DEF PostTxEdge
  <2>2. Len(NextFragment(p).bytes) \in Accepted
    BY <2>1, FragmentPosted DEF SystemInv
  <2>3. DriverDoes(PostTx(NextFragment(p)))
    <3> DEFINE bus == PostTx(NextFragment(p))
    <3>1. bus.op = "post tx" /\ bus.descriptor = NextFragment(p)
      BY DEF PostTx
    <3> HIDE DEF bus
    <3>2. RoomFor(bus)
      BY <1>3, <2>2, <3>1 DEF RoomFor, PostTxEdge
    <3>3. \E r \in NextPackets : bus.descriptor = NextFragment(r) /\ tx_posting' = WithPosted(r)
      BY <2>1, <3>1
    <3>4. DriverDoes(bus)
      BY <3>1, <3>2, <3>3 DEF DriverDoes
    <3>5. QED
      BY <3>4 DEF bus
  <2>4. QED
    BY <2>1, <2>3
<1>4. QED
  BY <1>1, <1>2, <1>3 DEF Next

-----------------------------------------------------------------------------
(* The controller at an edge.                                              *)

(* The completion of a fragment, the engine's taking of one, and the issue *)
(* of a command for one.                                                   *)
Completing == completion_valid /\ ~ToHost
Accepting == command_valid /\ command.direction = "host to queue"
Issuing ==
  /\ IssueTx /\ TxWaiting /\ TxFits([q \in QUEUES |-> full(tx_queue[q])])
  /\ ~command_valid /\ ~dma_active

ControllerMoves ==
  /\ Completing => /\ Taking /\ Taking' = FALSE
                   /\ tx_consumer' = After(tx_consumer) /\ tx_packet_start' = command.eop
                   /\ dma_active' = FALSE
  /\ ~Completing => /\ tx_consumer' = tx_consumer /\ tx_packet_start' = tx_packet_start
                    /\ Taking' = (Taking \/ Accepting)
  /\ Accepting => ~Taking /\ ~Completing
  /\ command_valid \/ dma_active =>
       command' = command /\ tx_packet_queue' = tx_packet_queue /\ command_valid' = FALSE
  /\ ~(command_valid \/ dma_active) =>
       /\ dma_active' = FALSE /\ ~Completing
       /\ \/ Issuing
          \/ /\ tx_packet_queue' = tx_packet_queue
             /\ command_valid' => command'.direction = "queue to host"
  /\ command'.direction \in {"queue to host", "host to queue"}

(* The controller takes the completion of its command, sees its command    *)
(* taken, or issues one.                                                   *)
LEMMA ControllerGoes ==
  ASSUME HandshakeHolds, command.direction \in {"queue to host", "host to queue"},
         NEW bus, NEW offers, NEW takes, NEW host_ready, NEW stale,
         Edge(bus, offers, takes, host_ready, stale)
  PROVE  ControllerMoves
<1> DEFINE done == [valid |-> completion_valid, queue |-> queue, direction |-> direction]
           rx_empty == [q \in QUEUES |-> empty(rx_queue[q])]
           tx_full == [q \in QUEUES |-> full(tx_queue[q])]
           lengths == rx_packet_length(stale)
<1>1. Controller_work(bus, command_ready, done, rx_empty, lengths, tx_full)
  BY DEF Edge
<1>2. /\ command_valid \in BOOLEAN /\ dma_active \in BOOLEAN /\ completion_valid \in BOOLEAN
      /\ command_valid => ~dma_active
      /\ ~dma_active => ~Busy /\ ~completion_valid
      /\ dma_active => /\ queue = command.queue /\ direction = command.direction
                       /\ active_direction = direction
  BY DEF HandshakeHolds, OneCommand
<1>3. done.valid = completion_valid /\ done.queue = queue /\ done.direction = direction
  OBVIOUS
<1>4. command_valid => command_ready
  BY <1>2 DEF Busy, command_ready
<1>5. completion_valid => ~Stray(done)
  BY <1>2, <1>3 DEF Stray
<1> HIDE DEF done
<1>6. /\ completion_valid => dma_active /\ ~command_valid
      /\ tx_consumer' = IF Completing THEN After(tx_consumer) ELSE tx_consumer
      /\ tx_packet_start' = IF Completing THEN command.eop ELSE tx_packet_start
  BY <1>1, <1>2, <1>3, <1>5 DEF Controller_work, Complete, Completing, ToHost
<1>7. /\ dma_active' = ((dma_active \/ command_valid) /\ ~completion_valid)
      /\ active_direction' = IF command_valid THEN command.direction ELSE active_direction
  BY <1>1, <1>2, <1>3, <1>4 DEF Controller_work
<1>8. Completing => Taking /\ Taking' = FALSE /\ dma_active' = FALSE
  BY <1>2, <1>6, <1>7 DEF Completing, Taking, ToHost
<1>9. ~Completing => Taking' = (Taking \/ Accepting)
  <2>1. CASE command_valid
    BY <1>2, <1>6, <1>7, <2>1 DEF Completing, Taking, ToHost, Accepting
  <2>2. CASE ~command_valid /\ completion_valid
    BY <1>2, <1>6, <1>7, <2>2 DEF Completing, Taking, ToHost, Accepting
  <2>3. CASE ~command_valid /\ ~completion_valid
    BY <1>2, <1>6, <1>7, <2>3 DEF Completing, Taking, ToHost, Accepting
  <2>4. QED
    BY <1>2, <2>1, <2>2, <2>3
<1>10. Accepting => ~Taking /\ ~Completing
  BY <1>2, <1>6 DEF Accepting, Taking, Completing
<1>11. \/ IssueRx(lengths) /\ ~command_valid /\ ~dma_active
       \/ Issuing
       \/ IssueNothing(command_ready)
  <2>1. \/ IssueRx(lengths) /\ MayIssue(bus)
        \/ IssueTx /\ TxFits(tx_full) /\ MayIssue(bus) /\ TxWaiting
        \/ IssueNothing(command_ready)
    <3> HIDE DEF rx_empty, tx_full, lengths
    <3>1. QED
      BY <1>1 DEF Controller_work
  <2>2. QED
    BY <2>1 DEF MayIssue, Issuing
<1>12. IssueNothing(command_ready) =>
         command' = command /\ tx_packet_queue' = tx_packet_queue /\ command_valid' = FALSE
  BY <1>2, <1>4 DEF IssueNothing
<1>13. IssueRx(lengths) =>
         tx_packet_queue' = tx_packet_queue /\ command'.direction = "queue to host"
  <2>1. RxCommand(lengths).direction = "queue to host"
    BY DEF RxCommand
  <2> HIDE DEF lengths
  <2>2. IssueRx(lengths) => command' = RxCommand(lengths) /\ tx_packet_queue' = tx_packet_queue
    BY DEF IssueRx
  <2>3. QED
    BY <2>1, <2>2
<1>14. ~(command_valid \/ dma_active) => dma_active' = FALSE /\ ~Completing
  BY <1>2, <1>7 DEF Completing
<1> HIDE DEF lengths
<1>15. command_valid \/ dma_active => IssueNothing(command_ready)
  BY <1>11 DEF Issuing
<1>16. ~(command_valid \/ dma_active) =>
          \/ Issuing
          \/ /\ tx_packet_queue' = tx_packet_queue
             /\ command_valid' => command'.direction = "queue to host"
  BY <1>11, <1>12, <1>13
<1>17. command'.direction \in {"queue to host", "host to queue"}
  <2>1. Issuing => command' = TxCommand
    BY DEF Issuing, IssueTx
  <2>2. TxCommand.direction = "host to queue"
    BY DEF TxCommand
  <2>3. QED
    BY <1>11, <1>12, <1>13, <2>1, <2>2
<1>18. QED
  BY <1>6, <1>8, <1>9, <1>10, <1>12, <1>14, <1>15, <1>16, <1>17 DEF ControllerMoves

(* What waits at the consumer is the first of what is posted.              *)
HeadWaits ==
  TxWaiting => /\ Waiting # << >> /\ Head(Waiting) = tx_ring[tx_consumer]
               /\ Head(Waiting) \in Fragments

(* So it is where the invariant holds.                                     *)
LEMMA HeadIs ==
  ASSUME RingsHold, Waiting \in Seq(Fragments)
  PROVE  HeadWaits
<1>1. Listed(Waiting, tx_ring, tx_producer, tx_consumer, Fragments)
  BY PostedInIs DEF RingsHold, Waiting
<1>2. QED
  BY <1>1 DEF Listed, HeadWaits, TxWaiting

(* What waits and what is not taken once the driver has posted.            *)
WithPost(s, bus) == IF bus.op = "post tx" THEN Append(s, bus.descriptor) ELSE s

RingGoes(bus) ==
  /\ Waiting' = IF Completing THEN Tail(WithPost(Waiting, bus)) ELSE WithPost(Waiting, bus)
  /\ Waiting' \in Seq(Fragments)
  /\ Untaken \in Seq(Fragments)
  /\ Accepting => Untaken # << >> /\ Head(Untaken) = tx_ring[tx_consumer]
  /\ Untaken' = WithPost(IF Accepting THEN Tail(Untaken) ELSE Untaken, bus)

(* A post comes behind what waits, a completion takes the first of it.     *)
LEMMA RingMoves ==
  ASSUME RingsHold, RingsKeep, ControllerMoves, HandshakeHolds, Waiting \in Seq(Fragments),
         command.direction \in {"queue to host", "host to queue"},
         NEW bus, HostWrite(bus), RoomFor(bus),
         bus.op = "post tx" => bus.descriptor \in Fragments
  PROVE  RingGoes(bus)
<1> DEFINE F == Fragments
           M == WithPost(Waiting, bus)
           d == bus.descriptor
<1>1. /\ tx_producer \in Slots /\ tx_consumer \in Slots /\ DOMAIN tx_ring = Slots
      /\ tx_producer' \in Slots
  BY DEF RingsHold, RingsKeep
<1>2. M = PostedIn(tx_ring', tx_producer', tx_consumer) /\ M \in Seq(F)
  <2>1. CASE bus.op = "post tx"
    <3>1. /\ tx_ring' = [tx_ring EXCEPT ![tx_producer] = d] /\ tx_producer' = After(tx_producer)
          /\ MayPost(tx_producer, tx_consumer) /\ d \in F
      BY <2>1 DEF HostWrite, RoomFor
    <3>2. Waiting \in Seq(F) /\ Waiting = PostedIn(tx_ring, tx_producer, tx_consumer)
      BY DEF Waiting
    <3> HIDE DEF F, d
    <3>6. Behind(tx_ring', tx_ring, tx_producer, tx_consumer, d)
      <4>1. PostedIn(tx_ring, tx_producer, tx_consumer) \in Seq(F) /\ d \in F
        BY <3>1, <3>2
      <4>2. MayPost(tx_producer, tx_consumer)
        BY <3>1
      <4>3. QED
        BY <1>1, <3>1, <4>1, <4>2, RingPost
    <3>3. PostedIn(tx_ring', tx_producer', tx_consumer) = Append(Waiting, d)
      BY <3>1, <3>2, <3>6 DEF Behind
    <3>4. Append(Waiting, d) \in Seq(F)
      BY <3>1, <3>2, AppendProperties
    <3>5. QED
      BY <2>1, <3>3, <3>4 DEF WithPost, d
  <2>2. CASE bus.op # "post tx"
    BY <2>2 DEF HostWrite, WithPost, Waiting
  <2>3. QED
    BY <2>1, <2>2
<1>3. HeadWaits
  BY HeadIs
<1>4. Taking \/ Accepting => TxWaiting
  BY DEF HandshakeHolds, OneCommand, Taking, Accepting
<1>5. Waiting # << >> => Tail(M) = WithPost(Tail(Waiting), bus)
  <2> HIDE DEF F
  <2>1. \A x : Waiting # << >> => Tail(Append(Waiting, x)) = Append(Tail(Waiting), x)
    BY TailAppend
  <2>2. QED
    BY <2>1 DEF WithPost
<1>6. TxWaiting => Tail(M) \in Seq(F) /\ M # << >>
  <2>1. TxWaiting => tx_producer' # tx_consumer
    BY DEF RingsKeep
  <2>2. TxWaiting => M # << >>
    <3>1. Listed(M, tx_ring', tx_producer', tx_consumer, F)
      <4> HIDE DEF F, M
      <4>1. QED
        BY <1>1, <1>2, PostedInIs
    <3>2. QED
      BY <2>1, <3>1 DEF Listed
  <2> HIDE DEF F, M
  <2>3. QED
    BY <1>2, <2>2, TailIs
<1>7. Waiting' = IF Completing THEN Tail(M) ELSE M
  <2>1. CASE Completing
    <3>1. tx_consumer' = After(tx_consumer) /\ tx_producer' # tx_consumer
      BY <1>4, <2>1 DEF ControllerMoves, RingsKeep
    <3>2. PostedIn(tx_ring', tx_producer', After(tx_consumer))
            = Tail(PostedIn(tx_ring', tx_producer', tx_consumer))
      <4> HIDE DEF F
      <4>1. PostedIn(tx_ring', tx_producer', tx_consumer) \in Seq(F)
        BY <1>2
      <4>2. QED
        BY <1>1, <3>1, <4>1, RingConsume
    <3>3. QED
      BY <1>2, <2>1, <3>1, <3>2 DEF Waiting
  <2>2. CASE ~Completing
    BY <1>2, <2>2 DEF ControllerMoves, Waiting
  <2>3. QED
    BY <2>1, <2>2
<1>8. Waiting' \in Seq(F)
  BY <1>2, <1>4, <1>6, <1>7 DEF ControllerMoves
<1>9. Untaken \in Seq(F)
  <2>1. Taking => Waiting # << >>
    BY <1>3, <1>4 DEF HeadWaits
  <2>2. Waiting \in Seq(F)
    OBVIOUS
  <2> HIDE DEF F
  <2>3. Waiting # << >> => Tail(Waiting) \in Seq(F)
    BY <2>2, TailIs
  <2>4. QED
    BY <2>1, <2>2, <2>3 DEF Untaken
<1>10. Accepting => Untaken # << >> /\ Head(Untaken) = tx_ring[tx_consumer]
  BY <1>3, <1>4 DEF HeadWaits, Untaken, ControllerMoves
<1>11. Untaken' = IF Taking \/ Accepting THEN Tail(M) ELSE M
  <2>1. Untaken' = IF Taking' THEN Tail(Waiting') ELSE Waiting'
    BY DEF Untaken
  <2> HIDE DEF M
  <2>2. QED
    BY <1>7, <2>1 DEF ControllerMoves
<1>12. (IF Accepting THEN Tail(Untaken) ELSE Untaken)
         = IF Taking \/ Accepting THEN Tail(Waiting) ELSE Waiting
  BY DEF Untaken, ControllerMoves
<1>13. Untaken' = WithPost(IF Accepting THEN Tail(Untaken) ELSE Untaken, bus)
  <2>1. CASE Taking \/ Accepting
    <3>1. Waiting # << >>
      BY <1>3, <1>4, <2>1 DEF HeadWaits
    <3>2. QED
      BY <1>5, <1>11, <1>12, <2>1, <3>1
  <2>2. CASE ~(Taking \/ Accepting)
    BY <1>11, <1>12, <2>2
  <2>3. QED
    BY <2>1, <2>2
<1>14. QED
  BY <1>7, <1>8, <1>9, <1>10, <1>13 DEF RingGoes

(* The command for the fragment at the consumer, and what goes on from it. *)
LEMMA FragmentsGoOn ==
  ASSUME HandshakeHolds, FragmentsHold, FragmentsHold', TxCommandHolds, RingsKeep,
         ControllerMoves
  PROVE  TxCommandHolds'
<1> DEFINE d == tx_ring[tx_consumer]
<1>1. command'.direction \in {"queue to host", "host to queue"}
  BY DEF ControllerMoves
<1>2. CASE command_valid \/ dma_active
  <2>1. ASSUME command_valid' \/ dma_active', command'.direction = "host to queue"
        PROVE  /\ command' = command /\ tx_packet_queue' = tx_packet_queue
               /\ tx_packet_start' = tx_packet_start
               /\ command.direction = "host to queue"
               /\ tx_ring'[tx_consumer'] = d
    <3>1. command' = command /\ command_valid' = FALSE /\ tx_packet_queue' = tx_packet_queue
      BY <1>2 DEF ControllerMoves
    <3>2. ~Completing
      BY <2>1, <3>1 DEF ControllerMoves
    <3>3. TxWaiting
      BY <1>2, <2>1, <3>1 DEF HandshakeHolds, OneCommand
    <3>4. QED
      BY <2>1, <3>1, <3>2, <3>3 DEF ControllerMoves, RingsKeep
  <2>2. QED
    BY <1>1, <1>2, <2>1 DEF TxCommandHolds
<1>3. CASE ~(command_valid \/ dma_active) /\ Issuing
  <2>1. command' = TxCommand /\ ~TxOther /\ TxWaiting
        /\ tx_packet_queue' = IF tx_packet_start THEN command'.queue ELSE tx_packet_queue
    BY <1>3 DEF Issuing, IssueTx, TxFits
  <2>2. /\ command'.eop = d.eop /\ command'.sop = tx_packet_start
        /\ command'.queue = d.queue /\ command'.bytes = d.bytes
        /\ command'.length = Len(d.bytes)
    BY <2>1 DEF TxCommand
  <2>3. tx_packet_queue' = command'.queue
    BY <2>1, <2>2 DEF TxOther
  <2>4. tx_ring'[tx_consumer'] = d /\ tx_packet_start' = tx_packet_start
    BY <1>3, <2>1 DEF ControllerMoves, RingsKeep
  <2>5. QED
    BY <1>1, <2>2, <2>3, <2>4 DEF TxCommandHolds
<1>4. CASE ~(command_valid \/ dma_active) /\ ~Issuing
  BY <1>1, <1>4 DEF ControllerMoves, TxCommandHolds
<1>5. QED
  BY <1>2, <1>3, <1>4

(* Where the fragments not taken begin. *)
Starts == IF Taking THEN command.eop ELSE tx_packet_start

(* At an edge the fragments of a packet still follow each other.           *)
LEMMA FragmentsKept ==
  ASSUME RingsHold, HandshakeHolds, PostingHolds, FragmentsHold, TxCommandHolds,
         ControllerMoves, NEW bus, RingGoes(bus), DriverDoes(bus)
  PROVE  FragmentsHold'
<1> DEFINE V == IF Accepting THEN Tail(Untaken) ELSE Untaken
           last == tx_posting = NoPosting
           r == tx_posting.queue
           d == bus.descriptor
<1>1. /\ Waiting' \in Seq(Fragments) /\ Untaken \in Seq(Fragments)
      /\ Untaken' = WithPost(V, bus)
      /\ Accepting => Untaken # << >> /\ Head(Untaken) = tx_ring[tx_consumer]
  BY DEF RingGoes
<1>2. HeadWaits
  BY HeadIs DEF FragmentsHold
<1>3. tx_packet_start' \in BOOLEAN
  <2>1. CASE Completing
    <3>1. Taking /\ tx_packet_start' = command.eop
      BY <2>1 DEF ControllerMoves
    <3>2. TxWaiting /\ dma_active /\ command.direction = "host to queue"
      BY <3>1 DEF Taking, HandshakeHolds, OneCommand
    <3>3. command.eop = Head(Waiting).eop /\ Head(Waiting) \in Fragments
      BY <1>2, <3>2 DEF HeadWaits, TxCommandHolds
    <3>4. QED
      BY <3>1, <3>3 DEF Fragments
  <2>2. CASE ~Completing
    BY <2>2 DEF ControllerMoves, FragmentsHold
  <2>3. QED
    BY <2>1, <2>2
<1>4. tx_packet_queue' \in QUEUES
  <2>1. Issuing => tx_packet_queue' = tx_packet_queue \/ tx_packet_queue' = tx_ring[tx_consumer].queue
    <3>1. TxCommand.queue = tx_ring[tx_consumer].queue
      BY DEF TxCommand
    <3>2. QED
      BY <3>1 DEF Issuing, IssueTx
  <2>2. Issuing => tx_ring[tx_consumer].queue \in QUEUES
    BY DEF Issuing, TxFits
  <2>3. ~Issuing => tx_packet_queue' = tx_packet_queue
    BY DEF ControllerMoves
  <2>4. QED
    BY <2>1, <2>2, <2>3 DEF FragmentsHold
<1>5. Chain(Starts, tx_packet_queue, Untaken, last, r)
  BY DEF FragmentsHold, Starts
<1>6. V \in Seq(Fragments) /\ Chain(Starts', tx_packet_queue', V, last, r)
  <2>1. CASE Accepting
    <3>1. /\ Starts' = command.eop /\ tx_packet_queue' = tx_packet_queue
      <4>1. Taking' = TRUE /\ command' = command /\ tx_packet_queue' = tx_packet_queue
        BY <2>1 DEF ControllerMoves, Accepting
      <4>2. QED
        BY <4>1 DEF Starts
    <3>2. command.eop = Head(Untaken).eop /\ tx_packet_queue = Head(Untaken).queue
      BY <1>1, <2>1 DEF TxCommandHolds, Accepting, HandshakeHolds, OneCommand
    <3>3. Chain(Head(Untaken).eop, Head(Untaken).queue, Tail(Untaken), last, r)
          /\ Tail(Untaken) \in Seq(Fragments)
      <4> DEFINE F == Fragments
      <4>1. Untaken \in Seq(F) /\ Untaken # << >>
        BY <1>1, <2>1
      <4> HIDE DEF F, last, r
      <4>2. Tail(Untaken) \in Seq(F)
        BY <4>1, TailIs
      <4>3. Chain(Head(Untaken).eop, Head(Untaken).queue, Tail(Untaken), last, r)
        BY <1>5, <4>1, ChainTail
      <4>4. QED
        BY <4>2, <4>3 DEF F
    <3>4. QED
      BY <2>1, <3>1, <3>2, <3>3
  <2>2. CASE ~Accepting
    <3>1. Starts' = Starts
      <4>1. CASE Taking
        <5>1. Completing => Starts' = Starts
          BY <4>1 DEF ControllerMoves, Starts
        <5>2. ~Completing => Starts' = Starts
          BY <4>1 DEF ControllerMoves, Starts, Taking
        <5>3. QED
          BY <5>1, <5>2
      <4>2. CASE ~Taking
        BY <2>2, <4>2 DEF ControllerMoves, Starts
      <4>3. QED
        BY <4>1, <4>2
    <3>2. CASE Issuing /\ tx_packet_start
      <4>1. ~Taking /\ TxWaiting
        BY <3>2 DEF Issuing, Taking
      <4>2. Untaken # << >> /\ Starts = TRUE
        BY <1>2, <3>2, <4>1 DEF Untaken, HeadWaits, Starts
      <4>3. Chain(TRUE, tx_packet_queue', Untaken, last, r)
        <5> DEFINE F == Fragments
        <5>1. Untaken \in Seq(F) /\ Chain(TRUE, tx_packet_queue, Untaken, last, r)
          BY <1>1, <1>5, <4>2
        <5> HIDE DEF F, last, r
        <5>2. QED
          BY <4>2, <5>1, ChainStarts
      <4>4. QED
        BY <1>1, <2>2, <3>1, <4>2, <4>3
    <3>3. CASE ~(Issuing /\ tx_packet_start)
      <4>1. tx_packet_queue' = tx_packet_queue
        BY <3>3 DEF ControllerMoves, Issuing, IssueTx
      <4>2. QED
        BY <1>1, <1>5, <2>2, <3>1, <4>1
    <3>4. QED
      BY <3>2, <3>3
  <2>3. QED
    BY <2>1, <2>2
<1> HIDE DEF V
<1>7. Chain(Starts', tx_packet_queue', Untaken', tx_posting' = NoPosting, tx_posting'.queue)
  <2>1. CASE bus.op = "post tx"
    <3>1. PICK p \in NextPackets : d = NextFragment(p) /\ tx_posting' = WithPosted(p)
      BY <2>1 DEF DriverDoes
    <3>2. FragmentOf(p, NextFragment(p))
      BY FragmentIs
    <3>3. /\ d \in Fragments /\ d.queue = p.queue /\ d.eop = (tx_posting' = NoPosting)
          /\ ~d.eop => tx_posting'.queue = p.queue
          /\ tx_posting # NoPosting => p = tx_posting
      BY <3>1, <3>2 DEF FragmentOf
    <3>4. last \/ d.queue = r
      BY <3>3
    <3>5. Chain(Starts', tx_packet_queue', Append(V, d), d.eop, d.queue)
      <4> DEFINE F == Fragments
      <4>1. V \in Seq(F) /\ d \in F
        BY <1>6, <3>3
      <4> HIDE DEF F, last, r, d
      <4>2. QED
        BY <1>6, <3>4, <4>1, ChainAppend
    <3>6. Untaken' = Append(V, d)
      BY <1>1, <2>1 DEF WithPost
    <3> HIDE DEF d
    <3>7. QED
      BY <3>3, <3>5, <3>6 DEF Chain
  <2>2. CASE bus.op # "post tx"
    BY <1>1, <1>6, <2>2 DEF WithPost, DriverDoes
  <2>3. QED
    BY <2>1, <2>2
<1>8. QED
  BY <1>1, <1>3, <1>4, <1>7 DEF FragmentsHold, Starts

-----------------------------------------------------------------------------
(* The engine, on its way from host memory to a queue.                     *)

(* The beat at n and what is left behind it are what was left at n.        *)
BeatLeaves(s, n, B) ==
  /\ BeatOf(s, n) \in Seq(B) \ {<< >>}
  /\ RestOf(s, n) \in Seq(B) /\ RestOf(s, n + QUEUE_DATA_BYTES) \in Seq(B)
  /\ BeatOf(s, n) \o RestOf(s, n + QUEUE_DATA_BYTES) = RestOf(s, n)
  /\ Len(s) <= n + QUEUE_DATA_BYTES => RestOf(s, n + QUEUE_DATA_BYTES) = << >>

(* A beat takes what fits in it of what is left. *)
LEMMA BeatTakes ==
  ASSUME NEW B, NEW s \in Seq(B), NEW n \in Nat, n < Len(s)
  PROVE  BeatLeaves(s, n, B)
<1> DEFINE Q == QUEUE_DATA_BYTES
           l == Len(s)
           e == IF n + Q <= l THEN n + Q ELSE l
<1>1. Q \in Nat \ {0} /\ l \in Nat
  BY MasterDMAAssumption
<1>2. e \in Nat /\ n < e /\ e <= l
  BY <1>1
<1>3. BeatOf(s, n) = SubSeq(s, n + 1, e) /\ RestOf(s, n) = SubSeq(s, n + 1, l)
  BY DEF BeatOf, RestOf
<1> HIDE DEF e, l
<1>4. Adjacent(s, n, e, l, B)
  <2>1. l <= Len(s) /\ n <= e
    BY <1>1, <1>2 DEF l
  <2>2. QED
    BY <1>1, <1>2, <2>1, AdjacentJoin
<1>5. RestOf(s, n + Q) = SubSeq(s, e + 1, l)
  <2>1. CASE n + Q <= l
    BY <2>1 DEF RestOf, e, l
  <2>2. CASE ~(n + Q <= l)
    <3>1. e = l /\ RestOf(s, n + Q) = SubSeq(s, (n + Q) + 1, l)
      BY <2>2 DEF RestOf, e, l
    <3>2. SubSeq(s, (n + Q) + 1, l) = << >> /\ SubSeq(s, l + 1, l) = << >>
      BY <1>1, <2>2
    <3>3. QED
      BY <3>1, <3>2
  <2>3. QED
    BY <2>1, <2>2
<1>6. l <= n + Q => RestOf(s, n + Q) = << >>
  <2>1. l <= n + Q => e = l
    BY <1>1 DEF e
  <2>2. SubSeq(s, l + 1, l) = << >>
    BY <1>1
  <2>3. QED
    BY <1>5, <2>1, <2>2
<1>7. SubSeq(s, n + 1, e) \in Seq(B) \ {<< >>} /\ SubSeq(s, n + 1, l) \in Seq(B)
  <2>1. SubSeq(s, n + 1, e) \in Seq(B) /\ Len(SubSeq(s, n + 1, e)) = e - n
        /\ SubSeq(s, n + 1, l) \in Seq(B)
    <3>1. l <= Len(s) /\ n <= l
      BY <1>1, <1>2 DEF l
    <3>2. QED
      BY <1>1, <1>2, <1>4, <3>1, PartIs DEF Adjacent
  <2>2. Len(<< >>) = 0
    OBVIOUS
  <2>3. QED
    BY <1>2, <2>1, <2>2
<1>8. QED
  BY <1>3, <1>4, <1>5, <1>6, <1>7 DEF Adjacent, BeatLeaves, l

(* What the engine keeps of a host read for a queue beat.                  *)
LEMMA HalfIs ==
  ASSUME host \in Seq(Bytes), transfer.address \in Nat, transfer.remaining \in Nat,
         transfer.address + transfer.remaining = Len(host), NEW skip \in Nat
  PROVE  Half(skip) = BeatOf(host, transfer.address + skip)
<1> DEFINE Q == QUEUE_DATA_BYTES
           a == transfer.address
           r == transfer.remaining
           l == Len(host)
           k == IF r - skip <= Q THEN r - skip ELSE Q
           n == IF skip <= r THEN k ELSE 0
           e == IF a + skip + Q <= l THEN a + skip + Q ELSE l
           h == Half(skip)
           s == BeatOf(host, a + skip)
<1>1. Q \in Nat \ {0} /\ l \in Nat /\ a \in Nat /\ r \in Nat /\ a + r = l
      /\ DOMAIN host = 1 .. l
  BY MasterDMAAssumption
<1>2. Max({0, Min({r - skip, Q})}) = n
  <2>1. Min({r - skip, Q}) = k
    <3>1. r - skip \in Int /\ Q \in Int
      BY <1>1
    <3>2. QED
      BY <3>1 DEF Min
  <2>2. k \in Int
    BY <1>1
  <2>3. (k <= 0 => Max({0, k}) = 0) /\ (k >= 0 => Max({0, k}) = k)
    <3> HIDE DEF k
    <3>1. QED
      BY <2>2 DEF Max
  <2>4. skip <= r => k >= 0
    BY <1>1
  <2>5. ~(skip <= r) => k <= 0
    BY <1>1
  <2>6. QED
    BY <2>1, <2>3, <2>4, <2>5
<1>3. h = [i \in 1 .. n |-> LET at == a + skip + i
                            IN  IF at \in DOMAIN host THEN host[at] ELSE Junk]
  BY <1>2 DEF Half, HostBytes
<1>4. s = SubSeq(host, a + skip + 1, e)
  BY DEF BeatOf
<1>5. CASE skip <= r
  <2>1. n \in Nat /\ e = a + skip + n /\ e <= l
    <3> HIDE DEF Q, a, r, l
    <3>1. QED
      BY <1>1, <1>5
  <2>2. \A i \in 1 .. n : a + skip + i \in 1 .. l
    <3> HIDE DEF Q, a, r, l, n, e
    <3>1. QED
      BY <1>1, <2>1
  <2> HIDE DEF n, e, h, s
  <2>3. \A i \in 1 .. n : h[i] = host[a + skip + i]
    BY <1>1, <1>3, <2>2
  <2>4. s \in Seq(Bytes) /\ Len(s) = n /\ \A i \in 1 .. n : s[i] = host[a + skip + i]
    <3> DEFINE b == a + skip
    <3>1. b \in Nat /\ b <= e /\ e \in Nat /\ e <= Len(host) /\ e - b = n
      <4>1. b \in Nat /\ e = b + n
        BY <1>1, <2>1
      <4> HIDE DEF b, a, l
      <4>2. b <= e /\ e \in Nat /\ e - b = n
        BY <2>1, <4>1
      <4>3. QED
        BY <2>1, <4>1, <4>2 DEF l
    <3>2. s = SubSeq(host, b + 1, e)
      BY <1>4
    <3> HIDE DEF b
    <3>3. /\ SubSeq(host, b + 1, e) \in Seq(Bytes) /\ Len(SubSeq(host, b + 1, e)) = e - b
          /\ \A i \in 1 .. e - b : SubSeq(host, b + 1, e)[i] = host[b + i]
      <4>1. host \in Seq(Bytes)
        OBVIOUS
      <4>2. QED
        BY ONLY <3>1, <4>1, PartIs
    <3>4. QED
      BY <3>1, <3>2, <3>3 DEF b
  <2>5. h = [i \in 1 .. n |-> h[i]]
    BY <1>3
  <2>6. \A i \in 1 .. n : h[i] = s[i]
    BY <2>3, <2>4
  <2>7. h = s
    BY ONLY <2>1, <2>4, <2>5, <2>6, SameSequence
  <2>8. QED
    BY <2>7 DEF h, s
<1>6. CASE ~(skip <= r)
  <2>1. n = 0 /\ e = l /\ a + skip + 1 > l
    BY <1>1, <1>6
  <2>2. s = << >>
    BY <1>1, <1>4, <2>1
  <2>3. h = << >>
    BY <1>3, <2>1
  <2>4. QED
    BY <2>2, <2>3
<1>7. QED
  BY <1>5, <1>6

(* The rest of the fragment in the engine.                                 *)
Left(q) ==
  IF Sending /\ queue = q THEN << [bytes |-> RestOf(host, Sent), eop |-> transfer.eop] >>
  ELSE << >>

SendStates == {"READ_ADDRESS", "READ_DATA", "SEND_QUEUE", "SEND_QUEUE_SECOND"}

LeftSound == \A q \in QUEUES : FromEngine(q) = Left(q) /\ Left(q) \in Seq(Pieces(Bytes))

Outward == Sending => direction = "host to queue" /\ state \in SendStates

(* What the engine has of a fragment is what it has not sent of it.        *)
LEMMA LeftIs == EngineSends /\ Outward => LeftSound
<1>1. SUFFICES ASSUME EngineSends, Outward, NEW q \in QUEUES
               PROVE  FromEngine(q) = Left(q) /\ Left(q) \in Seq(Pieces(Bytes))
  BY DEF LeftSound
<1>2. CASE ~(Sending /\ queue = q)
  <2>1. Left(q) = << >>
    BY <1>2 DEF Left
  <2>2. ~(Busy /\ direction = "host to queue" /\ queue = q)
    BY <1>2 DEF Sending, ToHost
  <2>3. FromEngine(q) = << >>
    BY <2>2 DEF FromEngine
  <2>4. << >> \in Seq(Pieces(Bytes))
    OBVIOUS
  <2>5. QED
    BY <2>1, <2>3, <2>4
<1>3. CASE Sending /\ queue = q
  <2> DEFINE Q == QUEUE_DATA_BYTES
             a == transfer.address
             rest(at) == SubSeq(host, a + at + 1, Len(host))
             bytes == CASE state \in {"READ_ADDRESS", "READ_DATA"} -> rest(0)
                        [] state = "SEND_QUEUE" -> out.bytes \o rest(Q)
                        [] state = "SEND_QUEUE_SECOND" -> out.bytes \o rest(DATA_BYTES)
  <2>1. /\ host \in Seq(Bytes) /\ transfer.eop \in BOOLEAN /\ a \in Nat /\ Sent < Len(host)
        /\ queue_output_valid => out.bytes = BeatOf(host, Sent)
        /\ state \in SendStates /\ direction = "host to queue" /\ Busy /\ Q \in Nat
    BY <1>1, <1>3, MasterDMAAssumption DEF EngineSends, SendShape, Outward, Sending
  <2>12. a \in Nat /\ Q \in Nat
    BY <2>1
  <2>13. a + 0 = a /\ a + 0 + 1 = a + 1 /\ a + Q \in Nat /\ a + DATA_BYTES + 1 = (a + Q + Q) + 1
    <3> HIDE DEF a
    <3>1. DATA_BYTES = Q + Q /\ Q \in Nat
      BY <2>12 DEF DATA_BYTES
    <3> HIDE DEF Q, DATA_BYTES
    <3>2. QED
      BY <2>12, <3>1
  <2>2. Sent \in Nat /\ Sent = IF state = "SEND_QUEUE_SECOND" THEN a + Q ELSE a
    <3>1. Sent = a + IF state = "SEND_QUEUE_SECOND" THEN Q ELSE 0
      BY DEF Sent
    <3> HIDE DEF a, Q
    <3>2. QED
      BY <2>12, <2>13, <3>1
  <2>3. BeatLeaves(host, Sent, Bytes)
    BY <2>1, <2>2, BeatTakes
  <2>4. bytes = RestOf(host, Sent)
    <3>1. CASE state \in {"READ_ADDRESS", "READ_DATA"}
      <4>1. a + 0 + 1 = a + 1 /\ Sent = a
        BY <2>2, <2>13, <3>1
      <4>2. QED
        BY <3>1, <4>1 DEF RestOf
    <3>2. CASE state = "SEND_QUEUE"
      <4>1. bytes = out.bytes \o rest(Q) /\ out.bytes = BeatOf(host, Sent) /\ Sent = a
        BY <2>1, <2>2, <3>2 DEF queue_output_valid
      <4>2. rest(Q) = RestOf(host, Sent + Q)
        BY <4>1 DEF RestOf
      <4>3. QED
        BY <2>3, <4>1, <4>2 DEF BeatLeaves
    <3>3. CASE state = "SEND_QUEUE_SECOND"
      <4>1. bytes = out.bytes \o rest(DATA_BYTES) /\ out.bytes = BeatOf(host, Sent)
            /\ Sent = a + Q
        BY <2>1, <2>2, <3>3 DEF queue_output_valid
      <4>2. a + DATA_BYTES + 1 = (a + Q + Q) + 1
        BY <2>13
      <4>3. rest(DATA_BYTES) = RestOf(host, Sent + Q)
        BY <4>1, <4>2 DEF RestOf
      <4>4. QED
        BY <2>3, <4>1, <4>3 DEF BeatLeaves
    <3>4. QED
      BY <2>1, <3>1, <3>2, <3>3 DEF SendStates
  <2>5. FromEngine(q) = << [bytes |-> bytes, eop |-> transfer.eop] >>
    BY <1>3, <2>1 DEF FromEngine
  <2> HIDE DEF bytes
  <2>6. FromEngine(q) = Left(q)
    BY <1>3, <2>4, <2>5 DEF Left
  <2> DEFINE rests == RestOf(host, Sent)
             p == [bytes |-> rests, eop |-> transfer.eop]
             S == Pieces(Bytes)
  <2>7. rests \in Seq(Bytes)
    BY <2>3 DEF BeatLeaves
  <2> HIDE DEF rests
  <2>8. p \in S
    BY <2>1, <2>7 DEF Pieces
  <2>9. Left(q) = << p >>
    BY <1>3 DEF Left, rests
  <2> HIDE DEF p, S
  <2>10. << p >> \in Seq(S)
    BY <2>8
  <2>11. QED
    BY <2>6, <2>9, <2>10 DEF S
<1>4. QED
  BY <1>2, <1>3

(* The same after the edge. *)
LEMMA LeftIsNext == EngineSends' /\ Outward' => LeftSound'
BY LeftIs, PTL

(* The beat offered is taken by its queue. *)
SendReady == queue_output_valid /\ write_ready(tx_queue[queue], out)

(* What an edge does to the fragment in the engine: a beat of it leaves,   *)
(* or it stays, or the engine takes it.                                    *)
BeatLeft ==
  IF Len(host) <= Sent + QUEUE_DATA_BYTES
  THEN Sending' = FALSE /\ completion_valid' = TRUE /\ ToHost' = FALSE
  ELSE /\ Sending' /\ completion_valid' = FALSE
       /\ Sent' = Sent + QUEUE_DATA_BYTES /\ host' = host
       /\ transfer'.eop = transfer.eop /\ queue' = queue
       /\ state' = "SEND_QUEUE_SECOND" \/ transfer'.first_beat = FALSE

FragmentStays ==
  /\ Sending' /\ completion_valid' = FALSE
  /\ Sent' = Sent /\ host' = host /\ transfer' = transfer /\ queue' = queue
  /\ (state' = "SEND_QUEUE_SECOND") = (state = "SEND_QUEUE_SECOND")

FragmentTaken ==
  /\ Sending' /\ completion_valid' = FALSE
  /\ Sent' = 0 /\ host' = command.bytes
  /\ transfer'.eop = command.eop /\ transfer'.first_beat = TRUE
  /\ state' = "READ_ADDRESS" /\ queue' = command.queue

(* The command offered can be taken. *)
CommandFits ==
  /\ command.direction = "host to queue"
  /\ command.bytes \in Seq(Bytes) /\ command.length = Len(command.bytes)
  /\ command.length \in Accepted
  /\ command.eop \in BOOLEAN /\ command.sop \in BOOLEAN

(* The engine takes a fragment. *)
LEMMA SendAccept ==
  ASSUME CommandFits, command' = command, AcceptCommand(command)
  PROVE  FragmentTaken /\ SendShape'
<1>1. /\ command.bytes \in Seq(Bytes) /\ command.length = Len(command.bytes)
      /\ command.length \in Nat \ {0} /\ command.length % ALIGNMENT = 0
      /\ command.eop \in BOOLEAN /\ command.sop \in BOOLEAN
      /\ command.direction = "host to queue"
  BY DEF CommandFits, Accepted
<1>2. /\ state' = "READ_ADDRESS" /\ direction' = "host to queue" /\ queue' = command.queue
      /\ host' = command.bytes /\ completion_valid' = FALSE
      /\ transfer' = [address |-> 0, remaining |-> command.length, sop |-> command.sop,
                      eop |-> command.eop, first_beat |-> TRUE]
  BY <1>1 DEF AcceptCommand
<1>3. /\ transfer'.address = 0 /\ transfer'.remaining = command.length
      /\ transfer'.sop = command.sop /\ transfer'.eop = command.eop
      /\ transfer'.first_beat = TRUE
  BY <1>2
<1>4. Sending' /\ ~queue_output_valid' /\ Sent' = 0
  <2>1. Sending' /\ ~queue_output_valid'
    BY <1>2 DEF Sending, Busy, ToHost, queue_output_valid
  <2>2. Sent' = transfer'.address + 0
    BY <1>2 DEF Sent
  <2>3. 0 + 0 = 0
    OBVIOUS
  <2>4. QED
    BY <1>3, <2>1, <2>2, <2>3
<1>5. FragmentTaken
  BY <1>2, <1>3, <1>4 DEF FragmentTaken
<1>6. transfer'.address + transfer'.remaining = Len(host') /\ Sent' < Len(host')
  <2> DEFINE n == command.length
  <2>1. n \in Nat \ {0} /\ n = Len(command.bytes)
    BY <1>1
  <2>2. transfer'.address = 0 /\ transfer'.remaining = n /\ Len(host') = n
    BY <1>2, <1>3, <2>1
  <2> HIDE DEF n
  <2>3. 0 + n = n /\ 0 < n
    BY <2>1
  <2>4. QED
    BY <1>4, <2>2, <2>3
<1>7. QED
  BY <1>1, <1>2, <1>3, <1>4, <1>5, <1>6 DEF SendShape

(* The engine waits for the host or the queue. *)
LEMMA SendStay ==
  ASSUME Sending, SendShape, command' = command, Stay
  PROVE  FragmentStays /\ SendShape'
BY DEF Sending, SendShape, Stay, FragmentStays, Sent, Busy, ToHost, queue_output_valid

(* The host has taken the read. *)
LEMMA SendAddress ==
  ASSUME Sending, SendShape, command' = command, state = "READ_ADDRESS", ReadAddress
  PROVE  FragmentStays /\ SendShape'
BY DEF Sending, SendShape, ReadAddress, FragmentStays, Sent, Busy, ToHost, queue_output_valid

(* A number of bytes left compared with some. *)
LEMMA LeftCompares ==
  ASSUME NEW a \in Nat, NEW r \in Nat, NEW l, a + r = l, NEW n \in Nat
  PROVE  (l <= a + n) = (r <= n) /\ (a + n < l) = ~(r <= n)
OBVIOUS

(* What is sent by two halves of a host beat. *)
LEMMA HalvesAdd ==
  ASSUME NEW a \in Nat, NEW r \in Nat, NEW n \in Nat
  PROVE  /\ a + 0 = a /\ a + n \in Nat /\ a + (n + n) \in Nat /\ (a + n) + n = a + (n + n)
         /\ ~(r <= n + n) => r - (n + n) \in Nat /\ (a + (n + n)) + (r - (n + n)) = a + r
OBVIOUS

(* The host has answered: the first half of what it read is offered. *)
LEMMA SendData ==
  ASSUME Sending, SendShape, command' = command, state = "READ_DATA", ReadData
  PROVE  FragmentStays /\ SendShape'
<1> DEFINE Q == QUEUE_DATA_BYTES
           a == transfer.address
           r == transfer.remaining
<1>1. /\ host \in Seq(Bytes) /\ a \in Nat /\ r \in Nat /\ a + r = Len(host)
      /\ {transfer.eop, transfer.sop, transfer.first_beat} \subseteq BOOLEAN
      /\ transfer.eop = command.eop /\ transfer.sop = command.sop
      /\ Sent < Len(host) /\ Q \in Nat
  BY MasterDMAAssumption DEF SendShape
<1>2. /\ transfer' = transfer /\ host' = host /\ state' = "SEND_QUEUE"
      /\ completion_valid' = FALSE /\ direction' = direction /\ queue' = queue
      /\ beat'.high = Half(Q)
      /\ out' = [bytes |-> Half(0), sop |-> transfer.first_beat /\ transfer.sop,
                 eop |-> r <= Q /\ transfer.eop]
  <2>1. [low |-> Half(0), high |-> Half(Q), eop |-> r <= DATA_BYTES /\ transfer.eop].high = Half(Q)
    OBVIOUS
  <2> HIDE DEF a, r, Q
  <2>2. QED
    BY <2>1 DEF ReadData, r, Q
<1>3. Sent = a /\ Sent' = a
  <2>1. Sent = a + 0 /\ Sent' = a + 0
    BY <1>2 DEF Sent
  <2> HIDE DEF a
  <2>2. QED
    BY <1>1, <2>1
<1>4. Half(0) = BeatOf(host, a) /\ Half(Q) = BeatOf(host, a + Q)
  <2>1. Half(0) = BeatOf(host, a + 0) /\ Half(Q) = BeatOf(host, a + Q)
    BY <1>1, HalfIs
  <2>2. a + 0 = a
    BY <1>1
  <2>3. QED
    BY <2>1, <2>2
<1>5. BeatOf(host, a) \in Seq(Bytes) \ {<< >>}
  BY <1>1, <1>3, BeatTakes DEF BeatLeaves
<1>6. (Len(host) <= a + Q) = (r <= Q)
  <2> HIDE DEF a, r, Q
  <2>1. QED
    BY <1>1, LeftCompares
<1> DEFINE h == BeatOf(host, a)
           sop == transfer.first_beat /\ transfer.sop
           eop == r <= Q /\ transfer.eop
<1>7. out' = [bytes |-> h, sop |-> sop, eop |-> eop] /\ sop \in BOOLEAN /\ eop \in BOOLEAN
  BY <1>1, <1>2, <1>4
<1> HIDE DEF h, sop, eop
<1>8. out' \in Beats(Bytes) /\ out'.bytes = h /\ out'.sop = sop /\ out'.eop = eop
  <2>1. h \in Seq(Bytes) \ {<< >>}
    BY <1>5 DEF h
  <2>2. QED
    BY <1>7, <2>1 DEF Beats
<1>9. Sending'
  BY <1>2 DEF Sending, Busy, ToHost
<1>10. FragmentStays
  BY <1>2, <1>3, <1>9 DEF FragmentStays
<1>11. /\ out'.bytes = BeatOf(host', Sent')
       /\ out'.eop = (Len(host') <= Sent' + Q /\ transfer'.eop)
       /\ out'.sop = (state' = "SEND_QUEUE" /\ transfer'.first_beat /\ transfer'.sop)
       /\ beat'.high = BeatOf(host', Sent' + Q)
  BY <1>2, <1>3, <1>4, <1>6, <1>8 DEF h, sop, eop
<1>12. /\ host' \in Seq(Bytes)
       /\ transfer'.eop = command'.eop /\ transfer'.sop = command'.sop
       /\ {transfer'.eop, transfer'.sop, transfer'.first_beat} \subseteq BOOLEAN
       /\ transfer'.address \in Nat /\ transfer'.remaining \in Nat
       /\ transfer'.address + transfer'.remaining = Len(host')
       /\ Sent' < Len(host')
  BY <1>1, <1>2, <1>3
<1>13. SendShape'
  BY <1>8, <1>11, <1>12 DEF SendShape
<1>14. QED
  BY <1>10, <1>13

(* A host beat is two queue beats. *)
LEMMA DataBytes == /\ DATA_BYTES = QUEUE_DATA_BYTES + QUEUE_DATA_BYTES
                   /\ DATA_BYTES \in Nat /\ QUEUE_DATA_BYTES \in Nat
<1>1. QUEUE_DATA_BYTES \in Nat
  BY MasterDMAAssumption
<1>2. QED
  BY <1>1 DEF DATA_BYTES

(* The numbers of the fragment in the engine. *)
SendNumbers ==
  /\ host \in Seq(Bytes)
  /\ transfer.address \in Nat /\ transfer.remaining \in Nat /\ Len(host) \in Nat
  /\ transfer.address + transfer.remaining = Len(host)

(* They are what the shape says. *)
LEMMA SendCounts ==
  ASSUME SendShape
  PROVE  SendNumbers
<1>1. host \in Seq(Bytes)
  BY DEF SendShape
<1>2. Len(host) \in Nat
  BY <1>1
<1>3. QED
  BY <1>1, <1>2 DEF SendShape, SendNumbers

(* The queue has taken the first half: the command is done, or the second  *)
(* half is offered.                                                        *)
LEMMA SendLow ==
  ASSUME Sending, SendShape, command' = command, direction = "host to queue",
         state = "SEND_QUEUE", SendQueue
  PROVE  BeatLeft /\ (Sending' => SendShape')
<1> DEFINE Q == QUEUE_DATA_BYTES
           a == transfer.address
           r == transfer.remaining
           l == Len(host)
<1>0. /\ a \in Nat /\ r \in Nat /\ Q \in Nat /\ DATA_BYTES = Q + Q
  BY SendCounts, DataBytes DEF SendNumbers
<1>1. /\ host \in Seq(Bytes) /\ a \in Nat /\ r \in Nat /\ l \in Nat /\ a + r = l
      /\ Q \in Nat /\ DATA_BYTES \in Nat /\ DATA_BYTES = Q + Q
  BY SendCounts, DataBytes DEF SendNumbers
<1>8. /\ {transfer.eop, transfer.sop, transfer.first_beat} \subseteq BOOLEAN
      /\ transfer.eop = command.eop /\ transfer.sop = command.sop
      /\ beat.high = BeatOf(host, Sent + Q)
  BY DEF SendShape
<1>2. /\ transfer' = transfer /\ host' = host
      /\ direction' = "host to queue" /\ queue' = queue /\ beat' = beat
      /\ IF r <= Q THEN state' = "IDLE" /\ completion_valid' = TRUE
         ELSE /\ state' = "SEND_QUEUE_SECOND" /\ completion_valid' = FALSE
              /\ out' = [bytes |-> beat.high, sop |-> FALSE,
                         eop |-> r <= DATA_BYTES /\ transfer.eop]
  BY DEF SendQueue
<1>3. Sent = a
  <2>1. Sent = a + 0
    BY DEF Sent
  <2> HIDE DEF a
  <2>2. a + 0 = a
    BY ONLY <1>0, HalvesAdd
  <2>3. QED
    BY <2>1, <2>2
<1>4. /\ (l <= a + Q) = (r <= Q) /\ (a + Q < l) = ~(r <= Q)
      /\ (l <= (a + Q) + Q) = (r <= DATA_BYTES) /\ a + Q \in Nat
  <2> HIDE DEF a, r, Q, l, DATA_BYTES
  <2>1. a \in Nat /\ r \in Nat /\ a + r = l /\ Q \in Nat
    BY <1>1
  <2>2. (l <= a + Q) = (r <= Q) /\ (a + Q < l) = ~(r <= Q)
    BY ONLY <2>1, LeftCompares
  <2>0. a \in Nat /\ r \in Nat /\ a + r = l /\ DATA_BYTES \in Nat
    BY <1>1
  <2>3. (l <= a + DATA_BYTES) = (r <= DATA_BYTES)
    BY ONLY <2>0, LeftCompares
  <2>4. a + DATA_BYTES = (a + Q) + Q /\ a + Q \in Nat
    BY ONLY <1>0, HalvesAdd
  <2>5. QED
    BY <2>2, <2>3, <2>4
<1>5. CASE r <= Q
  <2>1. Sending' = FALSE /\ completion_valid' = TRUE /\ ToHost' = FALSE
    BY <1>2, <1>5 DEF Sending, Busy, ToHost
  <2>2. QED
    BY <1>3, <1>4, <1>5, <2>1 DEF BeatLeft
<1>6. CASE ~(r <= Q)
  <2>1. /\ state' = "SEND_QUEUE_SECOND" /\ completion_valid' = FALSE
        /\ out' = [bytes |-> beat.high, sop |-> FALSE, eop |-> r <= DATA_BYTES /\ transfer.eop]
    BY <1>2, <1>6
  <2>2. Sending' /\ Sent' = a + Q
    BY <1>2, <2>1 DEF Sending, Busy, ToHost, Sent
  <2>3. BeatLeft
    BY <1>2, <1>3, <1>4, <1>6, <2>1, <2>2 DEF BeatLeft
  <2> DEFINE h == BeatOf(host, a + Q)
             eop == r <= DATA_BYTES /\ transfer.eop
  <2>4. h \in Seq(Bytes) \ {<< >>}
    <3>1. a + Q < Len(host)
      BY <1>4, <1>6
    <3>2. QED
      BY <1>1, <1>4, <3>1, BeatTakes DEF BeatLeaves
  <2>5. out' = [bytes |-> h, sop |-> FALSE, eop |-> eop] /\ eop \in BOOLEAN
    BY <1>3, <1>8, <2>1
  <2> HIDE DEF h, eop
  <2>6. out' \in Beats(Bytes) /\ out'.bytes = h /\ out'.sop = FALSE /\ out'.eop = eop
    BY <2>4, <2>5 DEF Beats
  <2>7. /\ out'.bytes = BeatOf(host', Sent')
        /\ out'.eop = (Len(host') <= Sent' + Q /\ transfer'.eop)
        /\ out'.sop = (state' = "SEND_QUEUE" /\ transfer'.first_beat /\ transfer'.sop)
    <3>1. eop = (l <= (a + Q) + Q /\ transfer.eop)
      BY <1>4 DEF eop
    <3>2. QED
      BY <1>2, <2>1, <2>2, <2>6, <3>1 DEF h
  <2>8. /\ host' \in Seq(Bytes)
        /\ transfer'.eop = command'.eop /\ transfer'.sop = command'.sop
        /\ {transfer'.eop, transfer'.sop, transfer'.first_beat} \subseteq BOOLEAN
        /\ transfer'.address \in Nat /\ transfer'.remaining \in Nat
        /\ transfer'.address + transfer'.remaining = Len(host')
        /\ Sent' < Len(host')
    BY <1>1, <1>2, <1>4, <1>6, <1>8, <2>2
  <2>9. SendShape'
    BY <2>1, <2>6, <2>7, <2>8 DEF SendShape
  <2>10. QED
    BY <2>3, <2>9
<1>7. QED
  BY <1>5, <1>6

(* The queue has taken the second half: the command is done, or the engine *)
(* goes on to the next host beat.                                          *)
LEMMA SendHigh ==
  ASSUME Sending, SendShape, command' = command, direction = "host to queue",
         DOMAIN transfer = {"address", "remaining", "sop", "eop", "first_beat"},
         state = "SEND_QUEUE_SECOND", SendQueueSecond
  PROVE  BeatLeft /\ (Sending' => SendShape')
<1> DEFINE Q == QUEUE_DATA_BYTES
           a == transfer.address
           r == transfer.remaining
           l == Len(host)
<1>0. /\ a \in Nat /\ r \in Nat /\ Q \in Nat /\ DATA_BYTES = Q + Q
  BY SendCounts, DataBytes DEF SendNumbers
<1>1. /\ host \in Seq(Bytes) /\ a \in Nat /\ r \in Nat /\ l \in Nat /\ a + r = l
      /\ Q \in Nat /\ DATA_BYTES \in Nat /\ DATA_BYTES = Q + Q
  BY SendCounts, DataBytes DEF SendNumbers
<1>8. /\ {transfer.eop, transfer.sop, transfer.first_beat} \subseteq BOOLEAN
      /\ transfer.eop = command.eop /\ transfer.sop = command.sop
  BY DEF SendShape
<1>2. /\ host' = host /\ direction' = "host to queue" /\ queue' = queue
      /\ IF r <= DATA_BYTES THEN state' = "IDLE" /\ completion_valid' = TRUE
         ELSE /\ state' = "READ_ADDRESS" /\ completion_valid' = FALSE
              /\ transfer' = Advance(DATA_BYTES)
  BY DEF SendQueueSecond
<1>3. Sent = a + Q
  BY DEF Sent
<1>4. /\ (l <= (a + Q) + Q) = (r <= DATA_BYTES) /\ (a + DATA_BYTES < l) = ~(r <= DATA_BYTES)
      /\ (a + Q) + Q = a + DATA_BYTES
  <2> HIDE DEF a, r, Q, l, DATA_BYTES
  <2>0. a \in Nat /\ r \in Nat /\ a + r = l /\ DATA_BYTES \in Nat
    BY <1>1
  <2>1. (l <= a + DATA_BYTES) = (r <= DATA_BYTES) /\ (a + DATA_BYTES < l) = ~(r <= DATA_BYTES)
    BY ONLY <2>0, LeftCompares
  <2>2. (a + Q) + Q = a + DATA_BYTES
    BY ONLY <1>0, HalvesAdd
  <2>3. QED
    BY <2>1, <2>2
<1>5. CASE r <= DATA_BYTES
  <2>1. Sending' = FALSE /\ completion_valid' = TRUE /\ ToHost' = FALSE
    BY <1>2, <1>5 DEF Sending, Busy, ToHost
  <2>2. QED
    BY <1>3, <1>4, <1>5, <2>1 DEF BeatLeft
<1>6. CASE ~(r <= DATA_BYTES)
  <2>1. /\ state' = "READ_ADDRESS" /\ completion_valid' = FALSE
        /\ transfer'.address = a + DATA_BYTES /\ transfer'.remaining = r - DATA_BYTES
        /\ transfer'.eop = transfer.eop /\ transfer'.sop = transfer.sop
        /\ transfer'.first_beat = FALSE
    <3>1. transfer' = Advance(DATA_BYTES)
      BY <1>2, <1>6
    <3> HIDE DEF DATA_BYTES
    <3>2. QED
      BY <1>2, <1>6, <3>1 DEF Advance
  <2> HIDE DEF a, r, l, Q
  <2>9. a + DATA_BYTES \in Nat /\ r - DATA_BYTES \in Nat
        /\ (a + DATA_BYTES) + (r - DATA_BYTES) = l
        /\ (a + DATA_BYTES) + 0 = a + DATA_BYTES
    <3> HIDE DEF DATA_BYTES
    <3>1. ~(r <= Q + Q) /\ a + r = l
      BY <1>0, <1>1, <1>6
    <3>2. /\ a + (Q + Q) \in Nat /\ r - (Q + Q) \in Nat
          /\ (a + (Q + Q)) + (r - (Q + Q)) = a + r
      BY ONLY <1>0, <3>1, HalvesAdd
    <3>3. a + DATA_BYTES \in Nat /\ r - DATA_BYTES \in Nat
          /\ (a + DATA_BYTES) + (r - DATA_BYTES) = l
      BY <1>0, <3>1, <3>2
    <3>4. QED
      BY ONLY <3>3, HalvesAdd, <1>0
  <2>2. Sending' /\ Sent' = a + DATA_BYTES /\ ~queue_output_valid'
    <3>1. Sending' /\ ~queue_output_valid'
      BY <1>2, <2>1 DEF Sending, Busy, ToHost, queue_output_valid
    <3>2. Sent' = transfer'.address + 0
      BY <2>1 DEF Sent
    <3>3. QED
      BY <2>1, <2>9, <3>1, <3>2
  <2>3. BeatLeft
    <3>1. ~(l <= Sent + Q) /\ Sent' = Sent + Q
      BY <1>3, <1>4, <1>6, <2>2
    <3>2. QED
      BY <1>2, <2>1, <2>2, <3>1 DEF BeatLeft, l, Q
  <2>8. /\ host' \in Seq(Bytes)
        /\ transfer'.eop = command'.eop /\ transfer'.sop = command'.sop
        /\ {transfer'.eop, transfer'.sop, transfer'.first_beat} \subseteq BOOLEAN
        /\ transfer'.address \in Nat /\ transfer'.remaining \in Nat
        /\ transfer'.address + transfer'.remaining = Len(host')
        /\ Sent' < Len(host')
    BY <1>1, <1>2, <1>4, <1>6, <1>8, <2>1, <2>2, <2>9 DEF l
  <2>10. SendShape'
    BY <2>1, <2>2, <2>8 DEF SendShape
  <2>11. QED
    BY <2>3, <2>10
<1>7. QED
  BY <1>5, <1>6

(* What an edge does to the engine on its way to a queue.                  *)
EngineOut ==
  /\ Sending => IF SendReady THEN BeatLeft ELSE FragmentStays
  /\ ~Sending => IF Accepting THEN FragmentTaken
                 ELSE ~Sending' /\ ~(completion_valid' /\ ~ToHost')
  /\ EngineSends' /\ Outward'

(* What is known of the engine where an edge begins. *)
SendKnown ==
  /\ state \in EngineStates /\ queue \in QUEUES
  /\ DOMAIN transfer = {"address", "remaining", "sop", "eop", "first_beat"}
  /\ Sending => SendShape /\ direction = "host to queue" /\ state \in SendStates
  /\ Busy /\ state \in SendStates => Sending
  /\ Accepting => CommandFits /\ ~Busy
  /\ Busy /\ ~Sending => ToHost
  /\ command_valid => command.direction \in {"queue to host", "host to queue"}

(* The invariant tells all of it.                                          *)
LEMMA SendIsKnown ==
  ASSUME ReceiveInv, FragmentsHold, TxCommandHolds, EngineSends
  PROVE  SendKnown
<1>1. /\ state \in EngineStates /\ command_valid \in BOOLEAN
      /\ Busy => dma_active /\ ~completion_valid
      /\ command_valid => ~Busy /\ ~completion_valid /\ command.length \in Accepted
      /\ dma_active => direction = command.direction
  BY DEF ReceiveInv, SystemInv, HandshakeHolds, OneCommand
<1>2. /\ queue \in QUEUES
      /\ DOMAIN transfer = {"address", "remaining", "sop", "eop", "first_beat"}
      /\ Busy => (ToHost <=>
                    state \in {"WAIT_QUEUE", "WAIT_QUEUE_SECOND", "WRITE_ADDRESS"})
  BY DEF ReceiveInv, EngineHolds, EngineShape
<1>3. command.direction \in {"queue to host", "host to queue"}
  BY DEF TxCommandHolds
<1>4. Sending => SendShape /\ direction = "host to queue" /\ state \in SendStates
  <2>1. ASSUME Sending
        PROVE  direction = "host to queue" /\ state \in SendStates
    <3>1. Busy /\ ~ToHost
      BY <2>1 DEF Sending
    <3>2. state # "IDLE"
      BY <3>1 DEF Busy
    <3>3. QED
      BY <1>1, <1>2, <1>3, <3>1, <3>2 DEF ToHost, EngineStates, SendStates
  <2>2. QED
    BY <2>1 DEF EngineSends
<1>5. Busy /\ state \in SendStates => Sending
  BY <1>2 DEF SendStates, Sending
<1>6. Accepting => CommandFits
  <2>1. SUFFICES ASSUME Accepting PROVE CommandFits
    OBVIOUS
  <2>2. command_valid /\ command.direction = "host to queue"
    BY <2>1 DEF Accepting
  <2>3. /\ TxWaiting /\ tx_ring[tx_consumer].bytes = command.bytes
        /\ command.eop = tx_ring[tx_consumer].eop /\ command.sop = tx_packet_start
        /\ command.length = Len(command.bytes) /\ command.length \in Accepted
    BY <1>1, <2>2 DEF ReceiveInv, SystemInv, HandshakeHolds, OneCommand, TxCommandHolds
  <2>4. tx_ring[tx_consumer] \in Fragments
    BY <2>3, HeadIs DEF HeadWaits, FragmentsHold, ReceiveInv, SystemInv
  <2>5. tx_ring[tx_consumer].bytes \in Seq(Bytes) /\ tx_ring[tx_consumer].eop \in BOOLEAN
        /\ tx_packet_start \in BOOLEAN
    BY <2>4 DEF Fragments, FragmentsHold
  <2>6. QED
    BY <2>2, <2>3, <2>5 DEF CommandFits
<1>7. Busy /\ ~Sending => ToHost
  BY DEF Sending
<1>8. QED
  BY <1>1, <1>2, <1>3, <1>4, <1>5, <1>6, <1>7 DEF SendKnown, Accepting

(* At every edge a beat of the fragment leaves the engine, or the fragment *)
(* stays, or the engine takes one, or has none.                            *)
LEMMA EngineOutAtEdge ==
  ASSUME SendKnown, NEW bus, NEW offers, NEW takes, NEW host_ready, NEW stale,
         Edge(bus, offers, takes, host_ready, stale),
         Busy \/ command_valid => command' = command
  PROVE  EngineOut
<1> DEFINE offered == IF command_valid THEN {command} ELSE {}
           out_ready == write_ready(tx_queue[queue], out_beat(queue))
<1>1. MasterDMA_work(offered, selected_rx, out_ready, host_ready)
  BY DEF Edge
<1>2. queue_output_valid => (out_ready <=> SendReady)
  BY DEF out_beat, SendReady
<1> HIDE DEF out_ready
<1>3. CASE state = "IDLE"
  <2>1. \/ command_valid /\ AcceptCommand(command)
        \/ ~command_valid /\ Stay
    BY <1>1, <1>3 DEF MasterDMA_work
  <2>2. ~Busy /\ ~Sending
    BY <1>3 DEF Busy, Sending
  <2>3. CASE Accepting
    <3>1. AcceptCommand(command) /\ CommandFits /\ command' = command
      BY <2>1, <2>3 DEF Accepting, SendKnown
    <3>2. FragmentTaken /\ SendShape'
      BY <3>1, SendAccept
    <3>3. direction' = "host to queue"
      BY <2>3, <3>1 DEF AcceptCommand, Accepting
    <3>4. QED
      BY <2>2, <2>3, <3>2, <3>3 DEF EngineOut, EngineSends, Outward, FragmentTaken, SendStates
  <2>4. CASE ~Accepting
    <3>1. CASE command_valid /\ AcceptCommand(command)
      <4>1. direction' = "queue to host"
        BY <2>4, <3>1 DEF AcceptCommand, Accepting, SendKnown
      <4>2. ToHost' /\ ~Sending'
        BY <4>1 DEF ToHost, Sending
      <4>3. QED
        BY <2>2, <2>4, <4>2 DEF EngineOut, EngineSends, Outward
    <3>2. CASE Stay
      <4>1. ~Busy' /\ ~Sending' /\ completion_valid' = FALSE
        BY <1>3, <3>2 DEF Stay, Busy, Sending
      <4>2. QED
        BY <2>2, <2>4, <4>1 DEF EngineOut, EngineSends, Outward
    <3>3. QED
      BY <2>1, <3>1, <3>2
  <2>5. QED
    BY <2>3, <2>4
<1>4. CASE state \in {"WAIT_QUEUE", "WAIT_QUEUE_SECOND", "WRITE_ADDRESS"}
  <2>1. direction' = direction
    BY <1>1, <1>4 DEF MasterDMA_work, WaitQueue, WaitQueueSecond, WriteAddress, Stay
  <2>2. Busy /\ ~Sending
    BY <1>4 DEF Busy, SendKnown, SendStates
  <2>3. ~Accepting /\ ToHost
    BY <2>2 DEF SendKnown
  <2>4. ToHost' /\ ~Sending'
    BY <2>1, <2>3 DEF ToHost, Sending
  <2>5. QED
    BY <2>2, <2>3, <2>4 DEF EngineOut, EngineSends, Outward
<1>5. CASE state \in SendStates
  <2>1. Busy
    BY <1>5 DEF SendStates, Busy
  <2>2. /\ Sending /\ SendShape /\ direction = "host to queue" /\ command' = command
        /\ DOMAIN transfer = {"address", "remaining", "sop", "eop", "first_beat"}
    BY <1>5, <2>1 DEF SendKnown
  <2>3. direction' = direction
    BY <1>1, <1>5 DEF MasterDMA_work, ReadAddress, ReadData, SendQueue, SendQueueSecond,
                      Stay, SendStates
  <2>4. /\ IF SendReady THEN BeatLeft ELSE FragmentStays
        /\ Sending' => SendShape'
    <3>1. CASE state \in {"READ_ADDRESS", "READ_DATA"}
      <4>1. ~SendReady
        BY <3>1 DEF SendReady, queue_output_valid
      <4>2. \/ Stay
            \/ state = "READ_ADDRESS" /\ ReadAddress
            \/ state = "READ_DATA" /\ ReadData
        BY <1>1, <3>1 DEF MasterDMA_work
      <4>3. QED
        BY <2>2, <4>1, <4>2, SendStay, SendAddress, SendData
    <3>2. CASE state = "SEND_QUEUE"
      <4>1. (out_ready <=> SendReady)
        BY <1>2, <3>2 DEF queue_output_valid
      <4>2. IF SendReady THEN SendQueue ELSE Stay
        BY <1>1, <3>2, <4>1 DEF MasterDMA_work
      <4>3. QED
        BY <2>2, <3>2, <4>2, SendStay, SendLow
    <3>3. CASE state = "SEND_QUEUE_SECOND"
      <4>1. (out_ready <=> SendReady)
        BY <1>2, <3>3 DEF queue_output_valid
      <4>2. IF SendReady THEN SendQueueSecond ELSE Stay
        BY <1>1, <3>3, <4>1 DEF MasterDMA_work
      <4>3. QED
        BY <2>2, <3>3, <4>2, SendStay, SendHigh
    <3>4. QED
      BY <1>5, <3>1, <3>2, <3>3 DEF SendStates
  <2>5. Sending' => direction' = "host to queue" /\ state' \in SendStates
    <3>1. Sending' => state' \in SendStates
      <4>1. state' \in SendStates \/ state' = "IDLE"
        BY <1>1, <1>5 DEF MasterDMA_work, ReadAddress, ReadData, SendQueue, SendQueueSecond,
                      Stay, SendStates
      <4>2. QED
        BY <4>1 DEF Sending, Busy
    <3>2. QED
      BY <2>2, <2>3, <3>1
  <2>6. QED
    BY <2>2, <2>4, <2>5 DEF EngineOut, EngineSends, Outward
<1>6. QED
  BY <1>3, <1>4, <1>5 DEF SendKnown, EngineStates, SendStates

-----------------------------------------------------------------------------
(* The packet the beats to the queues are in.                              *)

(* A beat goes to its queue. *)
Sends == Sending /\ SendReady

(* A beat that is sent marks what it begins and ends, and between beats    *)
(* nothing begins or ends.                                                 *)
MiddleMoves ==
  /\ Sending => queue = tx_packet_queue
  /\ Sends => (out.sop <=> ~InMiddle) /\ (InMiddle' <=> ~out.eop)
  /\ ~Sends => (InMiddle' <=> InMiddle)
  /\ tx_packet_queue' = tx_packet_queue \/ (~InMiddle /\ ~Sending)

(* What the registers say of the packet is carried through the command,    *)
(* the engine and the completion.                                          *)
LEMMA MiddleAtEdge ==
  ASSUME HandshakeHolds, SendKnown, TxCommandHolds, ControllerMoves, EngineOut,
         Busy \/ command_valid => command' = command
  PROVE  MiddleMoves
<1>1. /\ command_valid \in BOOLEAN /\ dma_active \in BOOLEAN /\ completion_valid \in BOOLEAN
      /\ command_valid => ~dma_active
      /\ ~dma_active => ~Busy /\ ~completion_valid
      /\ dma_active => /\ queue = command.queue /\ direction = command.direction
                       /\ active_direction = direction
                       /\ Busy <=> ~completion_valid
  BY DEF HandshakeHolds, OneCommand
<1>2. /\ Completing => Taking /\ Taking' = FALSE /\ (tx_packet_start' <=> command.eop)
      /\ ~Completing => tx_packet_start' = tx_packet_start /\ (Taking' <=> (Taking \/ Accepting))
      /\ Accepting => ~Taking /\ ~Completing
      /\ command_valid \/ dma_active => tx_packet_queue' = tx_packet_queue
      /\ ~(command_valid \/ dma_active) => Issuing \/ tx_packet_queue' = tx_packet_queue
  BY DEF ControllerMoves
<1>3. (command_valid \/ dma_active) /\ command.direction = "host to queue" =>
        command.sop = tx_packet_start /\ command.queue = tx_packet_queue
  BY DEF TxCommandHolds
<1>4. ASSUME Sending
      PROVE  /\ SendShape /\ Taking /\ ~completion_valid /\ ~Completing /\ Taking'
             /\ command' = command /\ queue = tx_packet_queue
             /\ tx_packet_queue' = tx_packet_queue
  <2>1. Busy /\ SendShape /\ direction = "host to queue"
    BY <1>4 DEF Sending, SendKnown
  <2>2. dma_active /\ active_direction = "host to queue" /\ ~completion_valid
        /\ command.direction = "host to queue" /\ queue = command.queue
    BY <1>1, <2>1
  <2>3. QED
    BY <1>2, <1>3, <2>1, <2>2 DEF Taking, Completing
<1>5. CASE Sends
  <2>1. Sending /\ SendReady /\ queue_output_valid /\ state \in {"SEND_QUEUE", "SEND_QUEUE_SECOND"}
    BY <1>5 DEF Sends, SendReady, queue_output_valid
  <2>2. /\ transfer.eop = command.eop /\ transfer.sop = command.sop
        /\ {transfer.eop, transfer.sop, transfer.first_beat} \subseteq BOOLEAN
        /\ out.eop = (Len(host) <= Sent + QUEUE_DATA_BYTES /\ transfer.eop)
        /\ out.sop = (state = "SEND_QUEUE" /\ transfer.first_beat /\ transfer.sop)
    BY <1>4, <2>1 DEF SendShape
  <2>3. InMiddle <=> (transfer.first_beat /\ state # "SEND_QUEUE_SECOND" => ~command.sop)
    BY <1>4, <2>1 DEF InMiddle
  <2>4. out.sop <=> ~InMiddle
    BY <2>1, <2>2, <2>3
  <2>5. BeatLeft
    BY <2>1 DEF EngineOut
  <2>6. CASE Len(host) <= Sent + QUEUE_DATA_BYTES
    <3>1. completion_valid' = TRUE
      BY <2>5, <2>6 DEF BeatLeft
    <3>2. InMiddle' <=> ~command.eop
      BY <1>4, <2>1, <3>1 DEF InMiddle
    <3>3. QED
      BY <1>4, <1>5, <2>1, <2>2, <2>4, <2>6, <3>2 DEF MiddleMoves
  <2>7. CASE ~(Len(host) <= Sent + QUEUE_DATA_BYTES)
    <3>1. completion_valid' = FALSE /\ (state' = "SEND_QUEUE_SECOND" \/ transfer'.first_beat = FALSE)
      BY <2>5, <2>7 DEF BeatLeft
    <3>2. InMiddle'
      BY <1>4, <2>1, <3>1 DEF InMiddle
    <3>3. QED
      BY <1>4, <1>5, <2>1, <2>2, <2>4, <2>7, <3>2 DEF MiddleMoves
  <2>8. QED
    BY <2>6, <2>7
<1>6. CASE Sending /\ ~SendReady
  <2>1. FragmentStays
    BY <1>6 DEF EngineOut
  <2>2. InMiddle' <=> InMiddle
    BY <1>4, <1>6, <2>1 DEF InMiddle, FragmentStays
  <2>3. QED
    BY <1>4, <1>6, <2>2 DEF MiddleMoves, Sends
<1>7. CASE ~Sending
  <2>1. ~Sends
    BY <1>7 DEF Sends
  <2>2. tx_packet_queue' = tx_packet_queue \/ ~InMiddle
    <3>1. CASE Issuing
      <4>1. ~Taking /\ ~command_valid /\ ~dma_active
        BY <3>1 DEF Issuing, Taking
      <4>2. tx_packet_queue' = IF tx_packet_start THEN command'.queue ELSE tx_packet_queue
        BY <3>1 DEF Issuing, IssueTx
      <4>3. QED
        BY <4>1, <4>2 DEF InMiddle
    <3>2. CASE ~Issuing
      BY <1>2, <3>2
    <3>3. QED
      BY <3>1, <3>2
  <2>3. InMiddle' <=> InMiddle
    <3>1. CASE Accepting
      <4>1. /\ ~Taking /\ ~Completing /\ Taking' /\ command' = command
            /\ command.sop = tx_packet_start
        BY <1>2, <1>3, <3>1 DEF Accepting
      <4>2. FragmentTaken
        BY <1>7, <3>1 DEF EngineOut
      <4>3. completion_valid' = FALSE /\ transfer'.first_beat = TRUE /\ state' = "READ_ADDRESS"
        BY <4>2 DEF FragmentTaken
      <4>4. (InMiddle <=> ~tx_packet_start) /\ (InMiddle' <=> ~command.sop)
        BY <4>1, <4>3 DEF InMiddle
      <4>5. QED
        BY <4>1, <4>4
    <3>2. CASE Completing
      <4>1. Taking /\ ~Taking' /\ completion_valid /\ (tx_packet_start' <=> command.eop)
        BY <1>2, <3>2 DEF Completing
      <4>2. QED
        BY <4>1 DEF InMiddle
    <3>3. CASE ~Accepting /\ ~Completing
      <4>1. ~Taking
        BY <1>1, <1>7, <3>3 DEF Taking, Completing, Sending, ToHost
      <4>2. ~Taking' /\ tx_packet_start' = tx_packet_start
        BY <1>2, <3>3, <4>1
      <4>3. QED
        BY <4>1, <4>2 DEF InMiddle
    <3>4. QED
      BY <3>1, <3>2, <3>3
  <2>4. QED
    BY <1>7, <2>1, <2>2, <2>3 DEF MiddleMoves
<1>8. QED
  BY <1>5, <1>6, <1>7 DEF Sends

-----------------------------------------------------------------------------
(* What the rings have for a queue.                                        *)

(* A fragment as a queue sees it: one of another queue is no part of it.   *)
Mine(d, q) == IF d.queue = q THEN d ELSE Part(<< >>)

Shown(s, q) == [i \in 1 .. Len(s) |-> Mine(s[i], q)]

(* It is something a packet can be cut from.                               *)
LEMMA MineIs ==
  ASSUME NEW d \in Fragments, NEW q
  PROVE  Mine(d, q) \in Pieces(Bytes)
<1>1. d \in [queue : Nat, bytes : Seq(Bytes), eop : BOOLEAN]
  BY QueuesAssumption DEF Fragments
<1>2. << >> \in Seq(Bytes)
  OBVIOUS
<1>3. Part(<< >>) \in [bytes : Seq(Bytes), eop : BOOLEAN]
  BY <1>2 DEF Part
<1>4. QED
  BY <1>1, <1>3 DEF Mine, Pieces

ShownIs(s, q) ==
  /\ Shown(s, q) \in Seq(Pieces(Bytes)) /\ Len(Shown(s, q)) = Len(s)
  /\ \A i \in 1 .. Len(s) : Shown(s, q)[i] = Mine(s[i], q)

(* So is a sequence of them. *)
LEMMA ShownType ==
  ASSUME NEW s \in Seq(Fragments), NEW q
  PROVE  ShownIs(s, q)
<1> DEFINE n == Len(s)
           t == Shown(s, q)
           S == Pieces(Bytes)
<1>1. n \in Nat /\ \A i \in 1 .. n : Mine(s[i], q) \in S
  BY MineIs
<1>2. t = [i \in 1 .. n |-> Mine(s[i], q)]
  BY DEF Shown
<1> HIDE DEF n, t, S
<1>3. t \in [1 .. n -> S] /\ \A i \in 1 .. n : t[i] = Mine(s[i], q)
  BY <1>1, <1>2
<1>4. t \in Seq(S) /\ Len(t) = n
  BY <1>1, <1>3
<1>5. QED
  BY <1>3, <1>4 DEF ShownIs, n, t, S

ShownMore(s, d, q) == Shown(Append(s, d), q) = Append(Shown(s, q), Mine(d, q))

(* One more fragment is shown behind the others. *)
LEMMA ShownAppend ==
  ASSUME NEW s \in Seq(Fragments), NEW d \in Fragments, NEW q
  PROVE  ShownMore(s, d, q)
<1> DEFINE F == Fragments
           S == Pieces(Bytes)
           n == Len(s)
           t == Append(s, d)
           m == Mine(d, q)
           v == Shown(s, q)
           u == Append(v, m)
           w == Shown(t, q)
<1>1. n \in Nat /\ t \in Seq(F) /\ Len(t) = n + 1 /\ t[n + 1] = d
      /\ \A i \in 1 .. n : t[i] = s[i]
  BY AppendProperties
<1>2. ShownIs(s, q) /\ ShownIs(t, q) /\ m \in S
  BY <1>1, ShownType, MineIs
<1>3. /\ v \in Seq(S) /\ Len(v) = n /\ \A i \in 1 .. n : v[i] = Mine(s[i], q)
      /\ w \in Seq(S) /\ Len(w) = Len(t) /\ \A i \in 1 .. Len(t) : w[i] = Mine(t[i], q)
  BY <1>2 DEF ShownIs
<1> HIDE DEF F, S, n, t, m, v, w
<1>4. u \in Seq(S) /\ Len(u) = n + 1 /\ u[n + 1] = m /\ \A i \in 1 .. n : u[i] = v[i]
  BY <1>2, <1>3, AppendProperties
<1> HIDE DEF u
<1>5. \A i \in 1 .. n + 1 : w[i] = u[i]
  <2>1. ASSUME NEW i \in 1 .. n + 1
        PROVE  w[i] = u[i]
    <3>1. i \in 1 .. n \/ i = n + 1
      BY <1>1
    <3>2. CASE i \in 1 .. n
      BY <1>1, <1>3, <1>4, <3>2
    <3>3. CASE i = n + 1
      BY <1>1, <1>3, <1>4, <3>3 DEF m
    <3>4. QED
      BY <3>1, <3>2, <3>3
  <2>2. QED
    BY <2>1
<1>6. w = [i \in 1 .. n + 1 |-> w[i]] /\ n + 1 \in Nat
  BY <1>1, <1>3
<1>7. w = u
  BY ONLY <1>4, <1>5, <1>6, SameSequence
<1>8. QED
  BY <1>7 DEF w, u, v, m, t, ShownMore

ShownLess(s, q) ==
  /\ Shown(s, q) # << >> /\ Head(Shown(s, q)) = Mine(Head(s), q)
  /\ Shown(Tail(s), q) = Tail(Shown(s, q))

(* Without the first fragment the others are shown as they were. *)
LEMMA ShownTail ==
  ASSUME NEW s \in Seq(Fragments), s # << >>, NEW q
  PROVE  ShownLess(s, q)
<1> DEFINE F == Fragments
           S == Pieces(Bytes)
           n == Len(s)
           t == Tail(s)
           v == Shown(s, q)
           u == Tail(v)
           w == Shown(t, q)
<1>1. n \in Nat \ {0} /\ t \in Seq(F) /\ Len(t) = n - 1 /\ Head(s) = s[1]
      /\ \A i \in 1 .. n - 1 : t[i] = s[i + 1]
  <2> HIDE DEF F
  <2>1. s \in Seq(F)
    BY DEF F
  <2>2. QED
    BY <2>1
<1>2. ShownIs(s, q) /\ ShownIs(t, q)
  BY <1>1, ShownType
<1>3. /\ v \in Seq(S) /\ Len(v) = n /\ \A i \in 1 .. n : v[i] = Mine(s[i], q)
      /\ w \in Seq(S) /\ Len(w) = Len(t) /\ \A i \in 1 .. Len(t) : w[i] = Mine(t[i], q)
  BY <1>2 DEF ShownIs
<1> HIDE DEF F, S, n, t, v, w
<1>4. v # << >> /\ Head(v) = v[1]
  BY <1>1, <1>3
<1>5. u \in Seq(S) /\ Len(u) = n - 1 /\ \A i \in 1 .. n - 1 : u[i] = v[i + 1]
  BY <1>1, <1>3, <1>4, HeadTailProperties
<1> HIDE DEF u
<1>6. \A i \in 1 .. n - 1 : w[i] = u[i]
  <2>1. \A i \in 1 .. n - 1 : i + 1 \in 1 .. n
    BY <1>1
  <2>2. QED
    BY <1>1, <1>3, <1>5, <2>1
<1>7. w = [i \in 1 .. n - 1 |-> w[i]] /\ n - 1 \in Nat
  BY <1>1, <1>3
<1>8. w = u
  BY ONLY <1>5, <1>6, <1>7, SameSequence
<1>9. 1 \in 1 .. n
  BY <1>1
<1>10. QED
  BY <1>1, <1>3, <1>4, <1>8, <1>9 DEF w, u, v, t, ShownLess

FragmentsShown == \A q \in QUEUES : PostedFragments(q) = Shown(Untaken, q)

RingsKnown == RingsHold /\ HandshakeHolds /\ Waiting \in Seq(Fragments)

(* What the ring has for a queue is what is not taken, as it sees it. *)
LEMMA PostedShown == RingsKnown => FragmentsShown
<1>1. SUFFICES ASSUME RingsHold, HandshakeHolds, Waiting \in Seq(Fragments), NEW q \in QUEUES
               PROVE  PostedFragments(q) = Shown(Untaken, q)
  BY DEF FragmentsShown, RingsKnown
<1> DEFINE n == Posted(tx_producer, tx_consumer)
           c == tx_consumer
           k == IF Taking THEN 1 ELSE 0
           slot(i) == tx_ring[(c + k + i - 1) % RING_DEPTH]
<1>2. Listed(Waiting, tx_ring, tx_producer, tx_consumer, Fragments)
  BY <1>1, PostedInIs DEF RingsHold, Waiting
<1>3. /\ Len(Waiting) = n /\ \A i \in 1 .. n : Waiting[i] = tx_ring[(c + i - 1) % RING_DEPTH]
      /\ TxWaiting => Waiting # << >>
  BY <1>2 DEF Listed, TxWaiting
<1>4. n \in Nat /\ c \in Nat
  BY <1>1, PostedIs DEF RingsHold, Slots
<1>5. Taking => TxWaiting
  BY <1>1 DEF HandshakeHolds, OneCommand, Taking
<1>6. PostedFragments(q) =
        [i \in 1 .. n - k |-> IF slot(i).queue = q THEN slot(i) ELSE Part(<< >>)]
  BY DEF PostedFragments, Taking
<1> HIDE DEF n, c
<1>7. n - k \in Nat /\ Len(Untaken) = n - k /\ \A i \in 1 .. n - k : Untaken[i] = slot(i)
  <2>1. CASE Taking
    <3>1. /\ Waiting # << >> /\ Untaken = Tail(Waiting) /\ n \in Nat \ {0} /\ Len(Untaken) = n - 1
          /\ \A i \in 1 .. n - 1 : Untaken[i] = Waiting[i + 1]
      <4> DEFINE F == Fragments
                 s == Waiting
      <4>1. s \in Seq(F) /\ s # << >> /\ Untaken = Tail(s)
        BY <1>1, <1>3, <1>5, <2>1 DEF Untaken
      <4>2. Len(s) = n
        BY <1>3
      <4> HIDE DEF F, s
      <4>3. Len(s) \in Nat \ {0} /\ Len(Tail(s)) = Len(s) - 1
            /\ \A i \in 1 .. Len(s) - 1 : Tail(s)[i] = s[i + 1]
        BY <4>1
      <4>4. QED
        BY <4>1, <4>2, <4>3 DEF s
    <3>2. \A i \in 1 .. n - 1 : i + 1 \in 1 .. n /\ c + (i + 1) - 1 = c + 1 + i - 1
      BY <1>4, <3>1
    <3>3. \A i \in 1 .. n - 1 : Untaken[i] = tx_ring[(c + 1 + i - 1) % RING_DEPTH]
      BY <1>3, <3>1, <3>2
    <3>4. k = 1
      BY <2>1
    <3>5. n - 1 \in Nat
      BY <3>1
    <3>6. QED
      BY <3>1, <3>3, <3>4, <3>5
  <2>2. CASE ~Taking
    <3>1. Untaken = Waiting /\ k = 0
      BY <2>2 DEF Untaken
    <3>2. n - 0 = n /\ c + 0 = c
      BY <1>4
    <3>3. QED
      BY <1>3, <1>4, <3>1, <3>2
  <2>3. QED
    BY <2>1, <2>2
<1>8. Shown(Untaken, q) = [i \in 1 .. n - k |-> Mine(Untaken[i], q)]
  BY <1>7 DEF Shown
<1> HIDE DEF k, slot
<1>9. QED
  BY <1>6, <1>7, <1>8 DEF Mine

(* The same after the edge. *)
LEMMA PostedShownNext == RingsKnown' => FragmentsShown'
BY PostedShown, PTL

-----------------------------------------------------------------------------
(* The queues from the host, at an edge.                                   *)

TxWritten(q) == IF Sends /\ queue = q THEN WriteBeat(tx_queue[q], out) ELSE tx_queue[q]

Given(q, takes) == takes[q] /\ read_valid(tx_queue[q])

TxRecord(q, takes) ==
  /\ tx_queue'[q] = IF Given(q, takes) THEN ReadBeat(TxWritten(q)) ELSE TxWritten(q)
  /\ tx_sink'[q] = IF Given(q, takes) THEN ReadOn(tx_sink[q], Head(tx_queue[q].data))
                   ELSE tx_sink[q]

(* A beat offered has bytes and is of a fragment. *)
LEMMA OutIs ==
  ASSUME SendKnown, queue_output_valid
  PROVE  Sending /\ SendShape /\ out \in Beats(Bytes) /\ out # NoBeat
<1>1. Busy /\ state \in SendStates
  BY DEF queue_output_valid, Busy, SendStates
<1>2. Sending /\ SendShape
  BY <1>1 DEF SendKnown
<1>3. out \in Beats(Bytes)
  BY <1>2 DEF SendShape
<1>4. NoBeat.bytes = << >> /\ out.bytes # << >>
  BY <1>3 DEF NoBeat, Beats
<1>5. out # NoBeat
  BY <1>4
<1>6. QED
  BY <1>2, <1>3, <1>5

(* A queue from the host at an edge: written first, then read. *)
LEMMA TxRecordAtEdge ==
  ASSUME SendKnown, NEW bus, NEW offers, NEW takes, NEW host_ready, NEW stale,
         Edge(bus, offers, takes, host_ready, stale), NEW q \in QUEUES
  PROVE  TxRecord(q, takes)
<1> DEFINE p == tx_queue[q]
           b == out_beat(q)
<1>1. /\ tx_queue'[q] = QueueEdge(p, b, takes[q])
      /\ tx_sink'[q] = IF takes[q] /\ read_valid(p)
                       THEN LET h == Head(p.data)
                            IN  IF h.eop THEN << >> ELSE tx_sink[q] \o h.bytes
                       ELSE tx_sink[q]
  BY DEF Edge
<1>2. b # NoBeat /\ write_ready(p, b) <=> Sends /\ queue = q
  <2>1. CASE queue_output_valid /\ queue = q
    <3>1. b = out /\ Sending /\ out # NoBeat
      BY <2>1, OutIs DEF out_beat
    <3>2. QED
      BY <2>1, <3>1 DEF Sends, SendReady
  <2>2. CASE ~(queue_output_valid /\ queue = q)
    BY <2>2 DEF out_beat, Sends, SendReady
  <2>3. QED
    BY <2>1, <2>2
<1>3. Sends /\ queue = q => b = out
  BY DEF Sends, SendReady, out_beat
<1> HIDE DEF b
<1>4. (IF b # NoBeat /\ write_ready(p, b) THEN WriteBeat(p, b) ELSE p) = TxWritten(q)
  BY <1>2, <1>3 DEF TxWritten
<1>5. QueueEdge(p, b, takes[q]) = IF Given(q, takes) THEN ReadBeat(TxWritten(q)) ELSE TxWritten(q)
  BY <1>4 DEF QueueEdge, Given
<1>6. QED
  BY <1>1, <1>5 DEF TxRecord, Given, ReadOn

(* Whether the beats that entered a queue end in the middle of a packet.   *)
OpenIs(q, p, read) == (Queued(p, read).open # << >>) <=> (q = tx_packet_queue /\ InMiddle)
OpenNext(q, p, read) == (Queued(p, read).open # << >>) <=> (q = tx_packet_queue' /\ InMiddle')

TxWrittenSound(q) ==
  /\ TransmitQueue(q, TxWritten(q), tx_sink[q])
  /\ OpenNext(q, TxWritten(q), tx_sink[q])
  /\ KeepsFirst(tx_queue[q], TxWritten(q))
  /\ Queued(TxWritten(q), tx_sink[q]) =
       IF Sends /\ queue = q THEN With(Queued(tx_queue[q], tx_sink[q]), out)
       ELSE Queued(tx_queue[q], tx_sink[q])
  /\ TxWritten(q).data = IF Sends /\ queue = q THEN Append(tx_queue[q].data, out)
                         ELSE tx_queue[q].data

(* The beat that is sent goes on with the packet its queue is in.          *)
LEMMA TxWrite ==
  ASSUME SendKnown, MiddleMoves, NEW q \in QUEUES,
         TransmitQueue(q, tx_queue[q], tx_sink[q]), OpenIs(q, tx_queue[q], tx_sink[q])
  PROVE  TxWrittenSound(q)
<1> DEFINE p == tx_queue[q]
           read == tx_sink[q]
           c == Queued(p, read)
           w == TxWritten(q)
<1>1. QueueSound(p, read, Bytes) /\ (read # << >> => c.packets # << >>)
  BY DEF TransmitQueue
<1>2. p.data \in Seq(Beats(Bytes)) /\ read \in Seq(Bytes)
      /\ p.lengths = LengthsIn(c.packets)
      /\ DOMAIN p = {"data", "lengths", "assembling", "assembling_length",
                     "packet_count", "protocol_error"}
  BY <1>1 DEF QueueSound
<1>3. c \in [packets : Seq(Seq(Bytes)), open : Seq(Bytes)]
  BY <1>2, QueuedType
<1>4. CASE Sends /\ queue = q
  <2>1. /\ Sending /\ SendReady /\ queue_output_valid
        /\ tx_packet_queue = q /\ tx_packet_queue' = q
        /\ (out.sop <=> ~InMiddle) /\ (InMiddle' <=> ~out.eop)
    BY <1>4 DEF Sends, SendReady, MiddleMoves
  <2>2. out \in Beats(Bytes)
    BY <2>1, OutIs
  <2>3. out.sop \in BOOLEAN /\ out.eop \in BOOLEAN /\ out.bytes \in Seq(Bytes) /\ out.bytes # << >>
    BY <2>2 DEF Beats
  <2>4. MarkedNext(p, read, out)
    BY <2>1, <2>3 DEF MarkedNext, OpenIs
  <2>5. w = WriteBeat(p, out)
    BY <1>4 DEF TxWritten
  <2> HIDE DEF w, p, read
  <2>6. QueueSound(WriteBeat(p, out), read, Bytes) /\ Queued(WriteBeat(p, out), read) = With(c, out)
    BY <1>1, <2>2, <2>4, QueueWrite DEF c
  <2>7. w.data = Append(p.data, out)
        /\ (w.lengths = p.lengths \/ \E n : w.lengths = Append(p.lengths, n))
    BY <1>2, <2>5 DEF WriteBeat
  <2> HIDE DEF c
  <2>8. c.packets \in Seq(Seq(Bytes)) /\ c.open \in Seq(Bytes)
    BY <1>3
  <2>9. /\ With(c, out).open = IF out.eop THEN << >> ELSE c.open \o out.bytes
        /\ With(c, out).packets = IF out.eop THEN Append(c.packets, c.open \o out.bytes)
                                  ELSE c.packets
    BY DEF With
  <2>10. c.open \o out.bytes # << >>
    BY <2>3, <2>8, LongerNotEmpty
  <2>11. With(c, out).open # << >> <=> ~out.eop
    BY <2>3, <2>9, <2>10
  <2>12. c.packets # << >> => With(c, out).packets # << >>
    <3> DEFINE V == Seq(Bytes)
               s == c.packets
               x == c.open \o out.bytes
    <3>1. s \in Seq(V) /\ x \in V
      BY <2>3, <2>8, ConcatProperties
    <3> HIDE DEF V, x, s
    <3>2. Append(s, x) # << >>
      BY <3>1
    <3>3. QED
      BY <2>9, <3>2 DEF s, x
  <2>13. KeepsFirst(p, w)
    <3>1. p.data # << >> => Append(p.data, out) # << >> /\ Head(Append(p.data, out)) = Head(p.data)
      BY <1>2, <2>2, AppendKeeps
    <3>2. p.lengths \in Seq(Nat)
      <4> DEFINE s == c.packets
      <4>1. \A i \in 1 .. Len(s) : Len(s[i]) \in Nat
        BY <2>8
      <4>2. DOMAIN s = 1 .. Len(s) /\ Len(s) \in Nat
        BY <2>8
      <4>3. LengthsIn(s) = [i \in 1 .. Len(s) |-> Len(s[i])]
        BY <4>2 DEF LengthsIn
      <4> HIDE DEF s
      <4>4. LengthsIn(s) \in Seq(Nat)
        BY <4>1, <4>2, <4>3
      <4>5. QED
        BY <1>2, <4>4 DEF s
    <3>3. \A n : p.lengths # << >> => Append(p.lengths, n) # << >>
                                      /\ Head(Append(p.lengths, n)) = Head(p.lengths)
      <4>1. SUFFICES ASSUME NEW n, p.lengths # << >>
                     PROVE  Append(p.lengths, n) # << >> /\ Head(Append(p.lengths, n)) = Head(p.lengths)
        OBVIOUS
      <4>2. p.lengths \in Seq(Nat \cup {n}) /\ n \in Nat \cup {n}
        BY <3>2
      <4> DEFINE s == p.lengths
                 N == Nat \cup {n}
      <4> HIDE DEF s, N
      <4>3. s \in Seq(N) /\ n \in N /\ s # << >>
        BY <4>1, <4>2 DEF s, N
      <4>4. QED
        BY <4>3, AppendKeeps DEF s
    <3>4. QED
      BY <2>7, <3>1, <3>3 DEF KeepsFirst
  <2>14. TransmitQueue(q, w, read)
    BY <1>1, <2>5, <2>6, <2>12 DEF TransmitQueue, c
  <2>15. OpenNext(q, w, read)
    BY <2>1, <2>5, <2>6, <2>11 DEF OpenNext
  <2>16. Queued(w, read) = With(Queued(p, read), out)
    BY <2>5, <2>6 DEF c
  <2>17. QED
    BY <1>4, <2>7, <2>13, <2>14, <2>15, <2>16 DEF TxWrittenSound, w, p, read
<1>5. CASE ~(Sends /\ queue = q)
  <2>1. w = p
    BY <1>5 DEF TxWritten
  <2>2. q = tx_packet_queue' /\ InMiddle' <=> q = tx_packet_queue /\ InMiddle
    BY <1>5 DEF MiddleMoves, Sends
  <2>3. OpenNext(q, p, read)
    BY <2>2 DEF OpenIs, OpenNext
  <2>4. KeepsFirst(p, p)
    BY DEF KeepsFirst
  <2>5. TransmitQueue(q, w, read) /\ OpenNext(q, w, read) /\ KeepsFirst(p, w)
        /\ Queued(w, read) = Queued(p, read) /\ w.data = p.data
    BY <2>1, <2>3, <2>4
  <2> HIDE DEF w, p, read
  <2>6. QED
    BY <1>5, <2>5 DEF TxWrittenSound, w, p, read
<1>6. QED
  BY <1>4, <1>5

(* What a queue and its reader are after the edge. *)
TxRead(q, takes) ==
  LET w == TxWritten(q)
      h == Head(w.data)
  IN  IF Given(q, takes)
      THEN /\ w.data # << >> /\ tx_queue'[q].data = Tail(w.data)
           /\ tx_sink'[q] = ReadOn(tx_sink[q], h)
      ELSE tx_queue'[q].data = w.data /\ tx_sink'[q] = tx_sink[q]

TxQueueGoes(q, takes) ==
  /\ TransmitQueue(q, tx_queue'[q], tx_sink'[q])
  /\ OpenNext(q, tx_queue'[q], tx_sink'[q])
  /\ TxRead(q, takes)

(* Processing takes only what is there of whole packets.                   *)
LEMMA TxQueueGoesOn ==
  ASSUME NEW q \in QUEUES, NEW takes, TxWrittenSound(q), TxRecord(q, takes)
  PROVE  TxQueueGoes(q, takes)
<1> DEFINE p == tx_queue[q]
           read == tx_sink[q]
           w == TxWritten(q)
           h == Head(w.data)
           c == Queued(w, read)
           d == Queued(ReadBeat(w), ReadOn(read, h))
<1>1. /\ TransmitQueue(q, w, read) /\ OpenNext(q, w, read) /\ KeepsFirst(p, w)
      /\ tx_queue'[q] = (IF Given(q, takes) THEN ReadBeat(w) ELSE w)
      /\ tx_sink'[q] = (IF Given(q, takes) THEN ReadOn(read, Head(p.data)) ELSE read)
      /\ Given(q, takes) => p.data # << >> /\ p.lengths # << >>
  BY DEF TxWrittenSound, TxRecord, Given, read_valid
<1> HIDE DEF p, read, w
<1>2. CASE Given(q, takes)
  <2>1. /\ w.data # << >> /\ w.lengths # << >> /\ h = Head(p.data)
    BY <1>1, <1>2 DEF KeepsFirst
  <2>2. QueueSound(w, read, Bytes)
    BY <1>1 DEF TransmitQueue
  <2>3. BeatRead(w, read, h, Bytes)
    <3> HIDE DEF h
    <3>1. h = Head(w.data)
      BY DEF h
    <3>2. QED
      BY <2>1, <2>2, <3>1, QueueRead
  <2>4. /\ QueueSound(ReadBeat(w), ReadOn(read, h), Bytes)
        /\ d.packets = (IF h.eop THEN Tail(c.packets) ELSE c.packets) /\ d.open = c.open
    BY <2>3 DEF BeatRead
  <2>5. c.packets # << >>
    <3>1. w.lengths = LengthsIn(c.packets)
      BY <2>2 DEF QueueSound
    <3>2. LengthsIn(<< >>) = << >>
      BY DEF LengthsIn
    <3>3. QED
      BY <2>1, <3>1, <3>2
  <2>6. tx_queue'[q] = ReadBeat(w) /\ tx_sink'[q] = ReadOn(read, h)
    BY <1>1, <1>2, <2>1
  <2>7. ReadBeat(w).data = Tail(w.data)
    BY <2>2 DEF ReadBeat, QueueSound
  <2>8. h.eop => ReadOn(read, h) = << >>
    BY DEF ReadOn
  <2> HIDE DEF h, c
  <2>9. TransmitQueue(q, ReadBeat(w), ReadOn(read, h))
    BY <2>4, <2>5, <2>8 DEF TransmitQueue
  <2>10. OpenNext(q, ReadBeat(w), ReadOn(read, h))
    BY <1>1, <2>4 DEF OpenNext, c
  <2>11. TxRead(q, takes)
    BY <1>2, <2>1, <2>6, <2>7 DEF TxRead, w, h, read
  <2>12. QED
    BY <2>6, <2>9, <2>10, <2>11 DEF TxQueueGoes
<1>3. CASE ~Given(q, takes)
  <2>1. tx_queue'[q] = w /\ tx_sink'[q] = read
    BY <1>1, <1>3
  <2>2. TxRead(q, takes)
    BY <1>3, <2>1 DEF TxRead, w, read
  <2>3. QED
    BY <1>1, <2>1, <2>2 DEF TxQueueGoes
<1>4. QED
  BY <1>2, <1>3

(* A queue that fits takes only what still fits.                           *)
LEMMA FitsAtEdge ==
  ASSUME NEW S, NEW T, NEW p, p.data \in Seq(S), p.lengths \in Seq(T), QueueFits(p),
         DOMAIN p = {"data", "lengths", "assembling", "assembling_length",
                     "packet_count", "protocol_error"},
         NEW b, NEW ready
  PROVE  QueueFits(QueueEdge(p, b, ready))
<1> DEFINE takes == b # NoBeat /\ write_ready(p, b)
           w == IF takes THEN WriteBeat(p, b) ELSE p
           reads == ready /\ read_valid(p)
           new == QueueEdge(p, b, ready)
           n == (IF b.sop THEN 0 ELSE p.assembling_length) + Len(b.bytes)
           U == S \cup {b}
           N == T \cup {n}
<1>1. /\ p.data \in Seq(U) /\ p.lengths \in Seq(N) /\ b \in U /\ n \in N
      /\ DEPTH \in Nat /\ Len(p.data) <= DEPTH /\ Len(p.lengths) <= DEPTH
  BY QueueDepthAssumption DEF QueueFits
<1>2. new = IF reads THEN ReadBeat(w) ELSE w
  BY DEF QueueEdge
<1>3. reads => p.data # << >> /\ p.lengths # << >>
  BY DEF read_valid
<1> HIDE DEF n, U, N, new
<1>4. /\ w.data \in Seq(U) /\ w.lengths \in Seq(N) /\ Len(w.data) <= DEPTH /\ Len(w.lengths) <= DEPTH
      /\ p.data # << >> => w.data # << >>
      /\ p.lengths # << >> => w.lengths # << >>
      /\ DOMAIN w = DOMAIN p
  <2>1. CASE takes
    <3>1. /\ WriteBeat(p, b).data = Append(p.data, b)
          /\ WriteBeat(p, b).lengths = IF b.eop THEN Append(p.lengths, n) ELSE p.lengths
          /\ DOMAIN WriteBeat(p, b) = DOMAIN p
      BY DEF WriteBeat, n
    <3>2. Len(p.data) # DEPTH /\ (b.eop => Len(p.lengths) < DEPTH)
      BY <2>1 DEF write_ready, full
    <3>3. /\ Append(p.data, b) \in Seq(U) /\ Len(Append(p.data, b)) = Len(p.data) + 1
          /\ Append(p.data, b) # << >>
      BY <1>1, AppendProperties
    <3>4. /\ Append(p.lengths, n) \in Seq(N) /\ Len(Append(p.lengths, n)) = Len(p.lengths) + 1
          /\ Append(p.lengths, n) # << >>
      BY <1>1, AppendProperties
    <3>5. Len(p.data) \in Nat /\ Len(p.lengths) \in Nat
      BY <1>1
    <3>6. Len(p.data) + 1 <= DEPTH /\ (b.eop => Len(p.lengths) + 1 <= DEPTH)
      BY <1>1, <3>2, <3>5
    <3>7. w = WriteBeat(p, b)
      BY <2>1
    <3> HIDE DEF w
    <3>8. QED
      BY <1>1, <3>1, <3>3, <3>4, <3>6, <3>7
  <2>2. CASE ~takes
    BY <1>1, <2>2
  <2>3. QED
    BY <2>1, <2>2
<1> HIDE DEF w
<1>5. CASE reads
  <2>1. /\ ReadBeat(w).data = Tail(w.data)
        /\ ReadBeat(w).lengths = Tail(w.lengths) \/ ReadBeat(w).lengths = w.lengths
    BY <1>4 DEF ReadBeat
  <2>2. w.data # << >> /\ w.lengths # << >>
    BY <1>3, <1>4, <1>5
  <2>3. Len(Tail(w.data)) <= DEPTH /\ Len(Tail(w.lengths)) <= DEPTH
    <3>1. /\ Len(Tail(w.data)) = Len(w.data) - 1 /\ Len(w.data) \in Nat
          /\ Len(Tail(w.lengths)) = Len(w.lengths) - 1 /\ Len(w.lengths) \in Nat
      BY <1>4, <2>2, HeadTailProperties
    <3>2. QED
      BY <1>1, <1>4, <3>1
  <2>4. QED
    BY <1>2, <1>4, <1>5, <2>1, <2>3 DEF QueueFits, new
<1>6. CASE ~reads
  BY <1>2, <1>4, <1>6 DEF QueueFits, new
<1>7. QED
  BY <1>5, <1>6

-----------------------------------------------------------------------------
(* The way from the host.                                                  *)

(* Pieces of the same bytes and end make the same packets. *)
SamePiece(s, x, y) == Cutting(Append(s, x)) = Cutting(Append(s, y))

(* It is the packets they make that count. *)
LEMMA PieceSame ==
  ASSUME NEW B, NEW s \in Seq(Pieces(B)), NEW x \in Pieces(B), NEW y \in Pieces(B),
         x.bytes = y.bytes, x.eop = y.eop
  PROVE  SamePiece(s, x, y)
<1> DEFINE S == Pieces(B)
<1>1. s \in Seq(S) /\ x \in S /\ y \in S
  OBVIOUS
<1> HIDE DEF S
<1>2. /\ Cutting(Append(s, x)) = With(Cutting(s), x)
      /\ Cutting(Append(s, y)) = With(Cutting(s), y)
  BY <1>1, CutAppend
<1>3. With(Cutting(s), x) = With(Cutting(s), y)
  BY DEF With
<1>4. QED
  BY <1>2, <1>3 DEF SamePiece

SplitPiece(s, x, y, z) == Cutting(Append(Append(s, x), y)) = Cutting(Append(s, z))

(* A piece in two makes the same packets. *)
LEMMA PieceSplit ==
  ASSUME NEW B, NEW s \in Seq(Pieces(B)), NEW x \in Pieces(B), NEW y \in Pieces(B),
         NEW z \in Pieces(B), ~x.eop, z.eop = y.eop, z.bytes = x.bytes \o y.bytes
  PROVE  SplitPiece(s, x, y, z)
<1> DEFINE S == Pieces(B)
           c == Cutting(s)
<1>1. s \in Seq(S) /\ x \in S /\ y \in S /\ z \in S /\ Carries(S, B)
  BY PiecesCarry
<1> HIDE DEF S
<1>2. c \in [packets : Seq(Seq(B)), open : Seq(B)]
  BY <1>1, CutType
<1>3. Append(s, x) \in Seq(S) /\ x.bytes \in Seq(B) /\ y.bytes \in Seq(B)
  BY <1>1, AppendProperties DEF Carries
<1>4. /\ Cutting(Append(s, x)) = With(c, x)
      /\ Cutting(Append(Append(s, x), y)) = With(Cutting(Append(s, x)), y)
      /\ Cutting(Append(s, z)) = With(c, z)
  BY <1>1, <1>3, CutAppend
<1> HIDE DEF c
<1>5. With(With(c, x), y) = With(c, z)
  <2>1. (c.open \o x.bytes) \o y.bytes = c.open \o z.bytes
    <3>1. c.open \in Seq(B) /\ x.bytes \in Seq(B) /\ y.bytes \in Seq(B)
      BY <1>2, <1>3
    <3> DEFINE o == c.open
               s1 == x.bytes
               s2 == y.bytes
    <3> HIDE DEF o, s1, s2
    <3>2. Associates(o, s1, s2)
      BY <3>1, Associative DEF o, s1, s2
    <3>3. QED
      BY <3>2 DEF Associates, o, s1, s2
  <2>2. With(c, x).packets = c.packets /\ With(c, x).open = c.open \o x.bytes
    BY DEF With
  <2> DEFINE k == With(c, x)
  <2> HIDE DEF k
  <2>3. With(k, y) = With(c, z)
    BY <2>1, <2>2 DEF With, k
  <2>4. QED
    BY <2>3 DEF k
<1>6. QED
  BY <1>4, <1>5 DEF SplitPiece

NoPiece(s) == Cutting(Append(s, Part(<< >>))) = Cutting(s)

(* No bytes make no difference. *)
LEMMA PieceEmpty ==
  ASSUME NEW B, NEW s \in Seq(Pieces(B))
  PROVE  NoPiece(s)
<1> DEFINE S == Pieces(B)
           c == Cutting(s)
           x == Part(<< >>)
<1>1. s \in Seq(S) /\ x \in S /\ Carries(S, B)
  <2>1. << >> \in Seq(B)
    OBVIOUS
  <2>2. QED
    BY <2>1, PiecesCarry
<1> HIDE DEF S
<1>2. c \in [packets : Seq(Seq(B)), open : Seq(B)]
  BY <1>1, CutType
<1>3. x.bytes = << >> /\ x.eop = FALSE
  BY DEF Part
<1>4. Cutting(Append(s, x)) = With(c, x)
  BY <1>1, CutAppend
<1> HIDE DEF c, x
<1>5. c.open \o << >> = c.open
  <2>1. c.open \in Seq(B)
    BY <1>2
  <2>2. QED
    BY <2>1, ConcatEmptySeq
<1>6. With(c, x) = [packets |-> c.packets, open |-> c.open]
  BY <1>3, <1>5 DEF With
<1>7. c = [packets |-> c.packets, open |-> c.open]
  BY <1>2
<1>8. QED
  BY <1>4, <1>6, <1>7 DEF NoPiece, c, x

(* e before a piece of the ring and f after it, in the place before.       *)
Passes(e, f, d) == Cutting(f \o Tail(d)) = Cutting(e \o d)

(* A piece moves from the ring to the engine. *)
LEMMA PieceMoves ==
  ASSUME NEW B, NEW e \in Seq(Pieces(B)), NEW f \in Seq(Pieces(B)),
         NEW d \in Seq(Pieces(B)), d # << >>, Cutting(f) = Cutting(Append(e, Head(d)))
  PROVE  Passes(e, f, d)
<1> DEFINE S == Pieces(B)
<1>1. e \in Seq(S) /\ f \in Seq(S) /\ d \in Seq(S)
  OBVIOUS
<1> HIDE DEF S
<1>2. QED
  BY <1>1, CutTake DEF Passes

(* What is in the queue and in the engine.                                 *)
AtQueue(q) == << Part(tx_sink[q]) >> \o tx_queue[q].data
AtWritten(q) == << Part(tx_sink[q]) >> \o TxWritten(q).data

Remaining == IF Accepting THEN Tail(Untaken) ELSE Untaken

WayKept(q) ==
  /\ Cutting((AtWritten(q) \o Left(q)') \o Shown(Remaining, q))
       = Cutting((AtQueue(q) \o Left(q)) \o Shown(Untaken, q))
  /\ AtQueue(q) \in Seq(Pieces(Bytes)) /\ AtWritten(q) \in Seq(Pieces(Bytes))
  /\ Left(q)' \in Seq(Pieces(Bytes)) /\ Shown(Remaining, q) \in Seq(Pieces(Bytes))
  /\ Remaining \in Seq(Fragments)

(* What the engine does to the fragment of a queue.                        *)
LeftGoes(q) ==
  \/ Sends /\ queue = q /\ \E x \in Pieces(Bytes) :
       /\ Left(q) = << x >>
       /\ \/ Left(q)' = << >> /\ out.bytes = x.bytes /\ out.eop = x.eop
          \/ \E y \in Pieces(Bytes) :
               /\ Left(q)' = << y >> /\ ~out.eop
               /\ x.eop = y.eop /\ x.bytes = out.bytes \o y.bytes
  \/ /\ ~(Sends /\ queue = q) /\ Left(q)' = Left(q)
     /\ Accepting => Left(q) = << >> /\ command.queue # q
  \/ /\ ~(Sends /\ queue = q) /\ Accepting /\ command.queue = q
     /\ Left(q) = << >> /\ \E x \in Pieces(Bytes) :
          Left(q)' = << x >> /\ x.bytes = command.bytes /\ x.eop = command.eop

(* From its registers.                                                     *)
LEMMA LeftMoves ==
  ASSUME SendKnown, EngineOut, NEW q \in QUEUES
  PROVE  LeftGoes(q)
<1> DEFINE Q == QUEUE_DATA_BYTES
           x == [bytes |-> RestOf(host, Sent), eop |-> transfer.eop]
           S == Pieces(Bytes)
<1>1. Accepting => ~Busy /\ ~Sending /\ ~Sends
  BY DEF SendKnown, Sending, Sends
<1>2. ASSUME Sending
      PROVE  /\ BeatLeaves(host, Sent, Bytes) /\ transfer.eop \in BOOLEAN
             /\ Sent \in Nat /\ x \in S
             /\ queue_output_valid => out.bytes = BeatOf(host, Sent)
                  /\ out.eop = (Len(host) <= Sent + Q /\ transfer.eop)
  <2>1. SendShape
    BY <1>2 DEF SendKnown
  <2>2. host \in Seq(Bytes) /\ transfer.address \in Nat /\ transfer.eop \in BOOLEAN
        /\ Sent < Len(host) /\ Q \in Nat
    BY <2>1, MasterDMAAssumption DEF SendShape
  <2>3. Sent \in Nat
    <3> DEFINE a == transfer.address
    <3>1. Sent = a + IF state = "SEND_QUEUE_SECOND" THEN Q ELSE 0
      BY DEF Sent
    <3>2. a \in Nat /\ Q \in Nat
      BY <2>2
    <3> HIDE DEF a, Q
    <3>3. QED
      BY <3>1, <3>2
  <2>4. BeatLeaves(host, Sent, Bytes)
    BY <2>2, <2>3, BeatTakes
  <2>5. x \in S
    <3>1. RestOf(host, Sent) \in Seq(Bytes)
      BY <2>4 DEF BeatLeaves
    <3>2. QED
      BY <2>2, <3>1 DEF Pieces
  <2>6. QED
    BY <2>1, <2>2, <2>3, <2>4, <2>5 DEF SendShape
<1>3. CASE Sends /\ queue = q
  <2>1. /\ Sending /\ queue_output_valid /\ BeatLeft /\ Left(q) = << x >>
        /\ out.bytes = BeatOf(host, Sent)
        /\ out.eop = (Len(host) <= Sent + Q /\ transfer.eop)
        /\ BeatOf(host, Sent) \o RestOf(host, Sent + Q) = RestOf(host, Sent)
        /\ BeatOf(host, Sent) \in Seq(Bytes) /\ RestOf(host, Sent + Q) \in Seq(Bytes)
        /\ transfer.eop \in BOOLEAN /\ x \in S
    <3>1. Sending /\ SendReady /\ queue_output_valid
      BY <1>3 DEF Sends, SendReady
    <3>2. BeatLeft
      BY <3>1 DEF EngineOut
    <3>3. QED
      BY <1>2, <1>3, <3>1, <3>2 DEF BeatLeaves, Left
  <2>2. CASE Len(host) <= Sent + Q
    <3>1. Left(q)' = << >>
      BY <2>1, <2>2 DEF BeatLeft, Left
    <3>2. RestOf(host, Sent + Q) = << >>
      BY <1>2, <2>1, <2>2 DEF BeatLeaves
    <3>3. out.bytes \o << >> = RestOf(host, Sent)
      BY <2>1, <3>2
    <3>4. out.bytes = RestOf(host, Sent)
      <4> DEFINE o == BeatOf(host, Sent)
      <4>1. o \in Seq(Bytes) /\ out.bytes = o
        BY <2>1
      <4> HIDE DEF o
      <4>2. o \o << >> = o
        BY <4>1, ConcatEmptySeq
      <4>3. QED
        BY <3>3, <4>1, <4>2
    <3>5. out.eop = transfer.eop
      BY <2>1, <2>2
    <3>6. x.bytes = RestOf(host, Sent) /\ x.eop = transfer.eop
      OBVIOUS
    <3> HIDE DEF x, S
    <3>7. QED
      BY <1>3, <2>1, <3>1, <3>4, <3>5, <3>6 DEF LeftGoes, S
  <2>3. CASE ~(Len(host) <= Sent + Q)
    <3> DEFINE y == [bytes |-> RestOf(host, Sent + Q), eop |-> transfer.eop]
    <3>1. /\ Sending' /\ Sent' = Sent + Q /\ host' = host
          /\ transfer'.eop = transfer.eop /\ queue' = queue
      BY <2>1, <2>3 DEF BeatLeft
    <3>2. Left(q)' = << y >>
      BY <1>3, <3>1 DEF Left, RestOf
    <3>3. y \in S
      BY <2>1 DEF Pieces
    <3>4. ~out.eop /\ x.eop = y.eop /\ x.bytes = out.bytes \o y.bytes
      BY <2>1, <2>3
    <3> HIDE DEF x, y, S
    <3>5. QED
      BY <1>3, <2>1, <3>2, <3>3, <3>4 DEF LeftGoes, S
  <2>4. QED
    BY <2>2, <2>3
<1>4. CASE Sending /\ ~(Sends /\ queue = q)
  <2>1. ~Accepting
    BY <1>1, <1>4
  <2>2. Left(q)' = Left(q)
    <3>1. CASE queue = q
      <4>1. FragmentStays
        BY <1>4, <3>1 DEF EngineOut, Sends
      <4>2. QED
        BY <1>4, <3>1, <4>1 DEF FragmentStays, Left, RestOf
    <3>2. CASE queue # q
      <4>1. ~Sending' \/ queue' = queue
        BY <1>4 DEF EngineOut, BeatLeft, FragmentStays
      <4>2. QED
        BY <3>2, <4>1 DEF Left
    <3>3. QED
      BY <3>1, <3>2
  <2>3. QED
    BY <1>4, <2>1, <2>2 DEF LeftGoes
<1>5. CASE ~Sending
  <2>1. ~Sends /\ Left(q) = << >>
    BY <1>5 DEF Sends, Left
  <2>2. CASE Accepting
    <3>1. FragmentTaken
      BY <1>5, <2>2 DEF EngineOut
    <3>2. CASE command.queue = q
      <4> DEFINE s == command.bytes
                 y == [bytes |-> s, eop |-> command.eop]
      <4>1. s \in Seq(Bytes) /\ command.eop \in BOOLEAN
        BY <2>2 DEF SendKnown, CommandFits
      <4>2. RestOf(s, 0) = s
        <5>1. RestOf(s, 0) = SubSeq(s, 1, Len(s))
          BY DEF RestOf
        <5>2. SubSeq(s, 1, Len(s)) = s
          <6> HIDE DEF s
          <6>1. QED
            BY <4>1
        <5>3. QED
          BY <5>1, <5>2
      <4>3. Left(q)' = << y >>
        <5>1. Left(q)' = << [bytes |-> RestOf(host', Sent'), eop |-> transfer'.eop] >>
          BY <3>1, <3>2 DEF FragmentTaken, Left, RestOf
        <5>2. QED
          BY <3>1, <4>2, <5>1 DEF FragmentTaken
      <4>4. y \in S
        BY <4>1 DEF Pieces
      <4>5. y.bytes = s /\ y.eop = command.eop
        OBVIOUS
      <4> HIDE DEF y, S
      <4>6. QED
        BY <2>1, <2>2, <3>2, <4>3, <4>4, <4>5 DEF LeftGoes, S
    <3>3. CASE command.queue # q
      <4>1. Left(q)' = << >>
        BY <3>1, <3>3 DEF FragmentTaken, Left
      <4>2. QED
        BY <2>1, <3>3, <4>1 DEF LeftGoes
    <3>4. QED
      BY <3>2, <3>3
  <2>3. CASE ~Accepting
    <3>1. ~Sending'
      BY <1>5, <2>3 DEF EngineOut
    <3>2. Left(q)' = << >>
      BY <3>1 DEF Left
    <3>3. QED
      BY <2>1, <2>3, <3>2 DEF LeftGoes
  <2>4. QED
    BY <2>2, <2>3
<1>6. QED
  BY <1>3, <1>4, <1>5

(* The fragment the engine takes is the first that is not taken. *)
HeadTaken ==
  Accepting => /\ Untaken # << >> /\ Head(Untaken) = tx_ring[tx_consumer]
               /\ tx_ring[tx_consumer].queue = command.queue
               /\ tx_ring[tx_consumer].bytes = command.bytes
               /\ tx_ring[tx_consumer].eop = command.eop

(* What the engine sends and takes neither adds to the packets on the way, *)
(* nor takes from them.                                                    *)
LEMMA WayIsKept ==
  ASSUME SendKnown, NEW q \in QUEUES, LeftGoes(q), LeftSound, LeftSound',
         TxWrittenSound(q), TransmitQueue(q, tx_queue[q], tx_sink[q]),
         Untaken \in Seq(Fragments), HeadTaken
  PROVE  WayKept(q)
<1> DEFINE S == Pieces(Bytes)
           Y == AtQueue(q)
           Z == AtWritten(q)
           E == Left(q)
           G == Left(q)'
           F == Shown(Untaken, q)
           H == Shown(Remaining, q)
<1>1. Carries(S, Bytes) /\ << >> \in Seq(S)
  BY PiecesCarry
<1>2. tx_queue[q].data \in Seq(Beats(Bytes)) /\ tx_sink[q] \in Seq(Bytes)
  BY DEF TransmitQueue, QueueSound
<1>3. TxWritten(q).data \in Seq(Beats(Bytes))
  BY DEF TxWrittenSound, TransmitQueue, QueueSound
<1>4. Y \in Seq(S) /\ Z \in Seq(S)
  BY <1>2, <1>3, QueuedType DEF AtQueue, AtWritten
<1>5. E \in Seq(S) /\ G \in Seq(S)
  BY DEF LeftSound
<1>6. Remaining \in Seq(Fragments) /\ F \in Seq(S) /\ H \in Seq(S)
  <2>1. Remaining \in Seq(Fragments)
    BY TailIs DEF Remaining, HeadTaken
  <2>2. QED
    BY <2>1, ShownType DEF ShownIs
<1>7. Sends /\ queue = q => out \in S /\ out \in Beats(Bytes)
  <2>1. Sends => out \in Beats(Bytes)
    BY OutIs DEF Sends, SendReady
  <2>2. QED
    BY <2>1, PiecesCarry
<1>8. Z = IF Sends /\ queue = q THEN Append(Y, out) ELSE Y
  <2>1. TxWritten(q).data = IF Sends /\ queue = q THEN Append(tx_queue[q].data, out)
                            ELSE tx_queue[q].data
    BY DEF TxWrittenSound
  <2> DEFINE e == << Part(tx_sink[q]) >>
             data == tx_queue[q].data
  <2>2. e \in Seq(S) /\ data \in Seq(S)
    BY <1>2, PiecesCarry
  <2>3. Y = e \o data /\ Z = e \o TxWritten(q).data
    BY DEF AtQueue, AtWritten
  <2> HIDE DEF Y, Z, e, data
  <2>4. Sends /\ queue = q => AppendsBehind(e, data, out)
    <3> HIDE DEF S
    <3>1. QED
      BY <1>7, <2>2, AppendBehind
  <2>5. QED
    BY <2>1, <2>3, <2>4 DEF AppendsBehind, data
<1>9. ~Accepting => H = F
  BY DEF Remaining
<1>10. Accepting => F # << >> /\ Head(F) = Mine(tx_ring[tx_consumer], q) /\ H = Tail(F)
  <2>1. SUFFICES ASSUME Accepting
                 PROVE  F # << >> /\ Head(F) = Mine(tx_ring[tx_consumer], q) /\ H = Tail(F)
    OBVIOUS
  <2>2. ShownLess(Untaken, q)
    BY <2>1, ShownTail DEF HeadTaken
  <2>3. Remaining = Tail(Untaken) /\ Head(Untaken) = tx_ring[tx_consumer]
    BY <2>1 DEF Remaining, HeadTaken
  <2>4. QED
    BY <2>2, <2>3 DEF ShownLess
<1>11. Sends => ~Accepting
  BY DEF Sends, Sending, SendKnown
<1> HIDE DEF S, Y, Z, E, G, F, H
<1>12. Cutting((Z \o G) \o H) = Cutting((Y \o E) \o F)
  <2>0. Y \o << >> = Y /\ Z \o << >> = Z
    BY <1>4, ConcatEmptySeq
  <2>1. CASE Sends /\ queue = q
    <3>1. Z = Append(Y, out) /\ H = F /\ out \in S
      BY <1>7, <1>8, <1>9, <1>11, <2>1
    <3>2. PICK x \in S :
            /\ E = << x >>
            /\ \/ G = << >> /\ out.bytes = x.bytes /\ out.eop = x.eop
               \/ \E y \in S : /\ G = << y >> /\ ~out.eop
                               /\ x.eop = y.eop /\ x.bytes = out.bytes \o y.bytes
      BY <2>1 DEF LeftGoes, S, E, G
    <3>3. Y \o E = Append(Y, x)
      BY <1>4, <3>2
    <3>4. Cutting(Z \o G) = Cutting(Y \o E)
      <4>1. CASE G = << >> /\ out.bytes = x.bytes /\ out.eop = x.eop
        <5>1. SamePiece(Y, out, x)
          BY <1>4, <3>1, <4>1, PieceSame DEF S
        <5>2. QED
          BY <2>0, <3>1, <3>3, <4>1, <5>1 DEF SamePiece
      <4>2. CASE \E y \in S : /\ G = << y >> /\ ~out.eop
                              /\ x.eop = y.eop /\ x.bytes = out.bytes \o y.bytes
        <5>1. PICK y \in S : /\ G = << y >> /\ ~out.eop
                             /\ x.eop = y.eop /\ x.bytes = out.bytes \o y.bytes
          BY <4>2
        <5>2. SplitPiece(Y, out, y, x)
          BY <1>4, <3>1, <5>1, PieceSplit DEF S
        <5>3. Z \o G = Append(Append(Y, out), y)
          BY <1>4, <3>1, <5>1
        <5>4. QED
          BY <3>3, <5>2, <5>3 DEF SplitPiece
      <4>3. QED
        BY <3>2, <4>1, <4>2
    <3>5. Z \o G \in Seq(S) /\ Y \o E \in Seq(S)
      BY <1>4, <1>5, ConcatProperties
    <3>6. Cutting((Z \o G) \o F) = Cutting((Y \o E) \o F)
      BY <1>6, <3>4, <3>5, CutConcat
    <3>7. QED
      BY <3>1, <3>6
  <2>2. CASE ~(Sends /\ queue = q) /\ ~Accepting
    <3>1. Z = Y /\ H = F /\ G = E
      BY <1>8, <1>9, <2>2 DEF LeftGoes, E, G
    <3>2. QED
      BY <3>1
  <2>3. CASE Accepting /\ command.queue # q
    <3>1. Z = Y /\ E = << >> /\ G = << >>
      BY <1>8, <1>11, <2>3 DEF LeftGoes, E, G
    <3>2. F # << >> /\ Head(F) = Part(<< >>) /\ H = Tail(F)
      BY <1>10, <2>3 DEF HeadTaken, Mine
    <3>3. NoPiece(Y)
      BY <1>4, PieceEmpty DEF S
    <3>4. Passes(Y, Y, F)
      BY <1>4, <1>6, <3>2, <3>3, PieceMoves DEF S, NoPiece
    <3>5. QED
      BY <2>0, <3>1, <3>2, <3>4 DEF Passes
  <2>4. CASE Accepting /\ command.queue = q
    <3>1. Z = Y /\ E = << >>
      BY <1>8, <1>11, <2>4 DEF LeftGoes, E
    <3>2. PICK x \in S : G = << x >> /\ x.bytes = command.bytes /\ x.eop = command.eop
      BY <1>11, <2>4 DEF LeftGoes, G, S
    <3> DEFINE d == tx_ring[tx_consumer]
    <3>3. F # << >> /\ Head(F) = d /\ H = Tail(F) /\ d.bytes = x.bytes /\ d.eop = x.eop
      BY <1>10, <2>4, <3>2 DEF HeadTaken, Mine
    <3> HIDE DEF d
    <3>4. d \in S
      <4>1. F \in Seq(S) /\ F # << >>
        BY <1>6, <3>3
      <4>2. Head(F) \in S
        BY <4>1
      <4>3. QED
        BY <3>3, <4>2
    <3>5. SamePiece(Y, x, d)
      BY <1>4, <3>3, <3>4, PieceSame DEF S
    <3>6. Y \o G = Append(Y, x)
      BY <1>4, <3>2
    <3>7. Cutting(Y \o G) = Cutting(Append(Y, Head(F)))
      BY <3>3, <3>5, <3>6 DEF SamePiece
    <3>8. Y \o G \in Seq(S)
      BY <1>4, <1>5, ConcatProperties
    <3>9. Passes(Y, Y \o G, F)
      BY <1>4, <1>6, <3>3, <3>7, <3>8, PieceMoves DEF S
    <3>10. QED
      BY <2>0, <3>1, <3>3, <3>9 DEF Passes
  <2>5. QED
    BY <2>1, <2>2, <2>3, <2>4, <1>11
<1>13. QED
  BY <1>4, <1>5, <1>6, <1>12 DEF WayKept, S, Y, Z, E, G, F, H

HeadFirst(w, x) == w \o x # << >> /\ Head(w \o x) = Head(w) /\ Tail(w \o x) = Tail(w) \o x

(* The head of a sequence is that of what begins with it. *)
LEMMA HeadOfConcat ==
  ASSUME NEW S, NEW w \in Seq(S), w # << >>, NEW x \in Seq(S)
  PROVE  HeadFirst(w, x)
<1> DEFINE h == Head(w)
           t == Tail(w)
           one == << h >>
           y == t \o x
<1>1. h \in S /\ t \in Seq(S) /\ w = one \o t /\ one \in Seq(S)
  BY HeadTailProperties, HeadTailAppend
<1> HIDE DEF h, t, one
<1>2. Associates(one, t, x)
  BY <1>1, Associative
<1>3. w \o x = one \o y /\ y \in Seq(S)
  BY <1>1, <1>2, ConcatProperties DEF Associates
<1> HIDE DEF y
<1>4. one \o y # << >> /\ Head(one \o y) = h /\ Tail(one \o y) = y
  BY <1>1, <1>3 DEF one
<1>5. QED
  BY <1>3, <1>4 DEF HeadFirst, h, t, y

FourJoined(e, w, x, y) == ((e \o w) \o x) \o y = e \o ((w \o x) \o y)

(* Four sequences behind each other. *)
LEMMA FourJoin ==
  ASSUME NEW S, NEW e \in Seq(S), NEW w \in Seq(S), NEW x \in Seq(S), NEW y \in Seq(S)
  PROVE  FourJoined(e, w, x, y)
<1> DEFINE v == w \o x
<1>1. v \in Seq(S)
  BY ConcatProperties
<1> HIDE DEF v
<1>2. Associates(e, w, x) /\ Associates(e, v, y)
  BY <1>1, Associative
<1>3. QED
  BY <1>2 DEF Associates, FourJoined, v

(* The way as the queue, the engine and the ring have it.                  *)
OnWay(q) == (AtQueue(q) \o Left(q)) \o Shown(Untaken, q)

WaysKnown == \A q \in QUEUES : TxWay(q) = OnWay(q)

(* That is the way. *)
LEMMA WayIs == LeftSound /\ FragmentsShown => WaysKnown
BY DEF LeftSound, FragmentsShown, WaysKnown, TxWay, Way, OnWay, AtQueue

(* The same after the edge. *)
LEMMA WayIsNext == LeftSound' /\ FragmentsShown' => WaysKnown'
BY WayIs, PTL

(* What Processing does to the packets on the way.                         *)
Loses(c, d) ==
  /\ d.open = c.open
  /\ d.packets = c.packets \/ (c.packets # << >> /\ d.packets = Tail(c.packets))

(* The way before the driver posts.                                        *)
Unposted(q) == (AtQueue(q)' \o Left(q)') \o Shown(Remaining, q)

WayTaken(q) ==
  /\ Loses(Cutting(OnWay(q)), Cutting(Unposted(q)))
  /\ AtQueue(q)' \o Left(q)' \in Seq(Pieces(Bytes))

(* A beat that Processing takes is the first of the first packet on the    *)
(* way.                                                                    *)
LEMMA WayIsTaken ==
  ASSUME NEW q \in QUEUES, NEW takes, WayKept(q), TxWrittenSound(q), TxRead(q, takes)
  PROVE  WayTaken(q)
<1> DEFINE S == Pieces(Bytes)
           read == tx_sink[q]
           e == << Part(read) >>
           w == TxWritten(q).data
           x == Left(q)'
           y == Shown(Remaining, q)
           z == (w \o x) \o y
           h == Head(w)
           on == ReadOn(read, h)
           g == << Part(on) >>
           t == Tail(w)
<1>1. w \in Seq(Beats(Bytes)) /\ read \in Seq(Bytes)
  BY DEF TxWrittenSound, TransmitQueue, QueueSound
<1>2. w \in Seq(S) /\ e \in Seq(S)
  BY <1>1, PiecesCarry
<1>3. x \in Seq(S) /\ y \in Seq(S)
  BY DEF WayKept
<1>4. AtWritten(q) = e \o w
  BY DEF AtWritten
<1>5. IF Given(q, takes)
      THEN w # << >> /\ tx_queue'[q].data = t /\ tx_sink'[q] = on
      ELSE tx_queue'[q].data = w /\ tx_sink'[q] = read
  BY DEF TxRead
<1>6. AtQueue(q)' = << Part(tx_sink'[q]) >> \o tx_queue'[q].data
  BY DEF AtQueue
<1>7. Cutting(((e \o w) \o x) \o y) = Cutting(OnWay(q))
  BY <1>4 DEF WayKept, OnWay
<1> HIDE DEF w, x, y
<1>8. CASE Given(q, takes)
  <2>1. w # << >> /\ t \in Seq(S) /\ h \in S
    BY <1>2, <1>5, <1>8
  <2>2. AtQueue(q)' = g \o t
    BY <1>5, <1>6, <1>8
  <2>3. h.bytes \in Seq(Bytes)
    BY <2>1, PiecesCarry DEF Carries
  <2>4. on \in Seq(Bytes)
    BY <1>1, <2>3, ConcatProperties DEF ReadOn
  <2>5. g \in Seq(S)
    BY <2>4, PiecesCarry
  <2> HIDE DEF S, e, g, on
  <2>6. z \in Seq(S) /\ w \o x \in Seq(S)
    BY <1>2, <1>3, ConcatProperties
  <2>7. z # << >> /\ Head(z) = h /\ Tail(z) = (t \o x) \o y
    <3>1. HeadFirst(w, x)
      BY <1>2, <1>3, <2>1, HeadOfConcat
    <3>2. HeadFirst(w \o x, y)
      BY <1>3, <2>6, <3>1, HeadOfConcat DEF HeadFirst
    <3>3. QED
      BY <3>1, <3>2 DEF HeadFirst
  <2>8. FourJoined(e, w, x, y) /\ FourJoined(g, t, x, y)
    BY <1>2, <1>3, <2>1, <2>5, FourJoin
  <2> DEFINE q1 == [data |-> z]
             q2 == [data |-> (t \o x) \o y]
  <2>9. Reads(q1, h, q2) /\ q1.data \in Seq(S)
    BY <2>6, <2>7 DEF Reads
  <2>10. Queued(q1, read) = Cutting(OnWay(q))
    BY <1>7, <2>8 DEF Queued, FourJoined, e
  <2>11. Queued(q2, on) = Cutting(Unposted(q))
    BY <2>2, <2>8 DEF Queued, FourJoined, g, Unposted, x, y
  <2> HIDE DEF q1, q2, h
  <2>12. QueuedAfter(Queued(q1, read), h, read \o h.bytes, Queued(q2, ReadOn(read, h)))
    BY <1>1, <2>9, QueuedRead DEF S
  <2>13. h.eop \in BOOLEAN
    BY <2>1, PiecesCarry DEF Carries, S
  <2>14. Loses(Cutting(OnWay(q)), Cutting(Unposted(q)))
    <3>1. QueuedAfter(Cutting(OnWay(q)), h, read \o h.bytes, Cutting(Unposted(q)))
      BY <2>10, <2>11, <2>12 DEF on
    <3>2. QED
      BY <2>13, <3>1 DEF QueuedAfter, Loses
  <2>15. AtQueue(q)' \o x \in Seq(S)
    BY <1>3, <2>1, <2>2, <2>5, ConcatProperties
  <2>16. QED
    BY <2>14, <2>15 DEF WayTaken, S, x
<1>9. CASE ~Given(q, takes)
  <2>1. AtQueue(q)' = e \o w
    BY <1>5, <1>6, <1>9
  <2>2. Cutting(Unposted(q)) = Cutting(OnWay(q))
    BY <1>7, <2>1 DEF Unposted, x, y
  <2>3. AtQueue(q)' \o x \in Seq(S)
    <3> HIDE DEF S, e
    <3>1. QED
      BY <1>2, <1>3, <2>1, ConcatProperties
  <2>4. QED
    BY <2>2, <2>3 DEF WayTaken, Loses, x
<1>10. QED
  BY <1>8, <1>9

(* What the driver posts for a queue comes behind all that is on the way.  *)
WayGoes(q, bus) ==
  \E k \in [packets : Seq(Seq(Bytes)), open : Seq(Bytes)] :
    /\ Loses(Cutting(TxWay(q)), k)
    /\ Cutting(TxWay(q)') = IF bus.op = "post tx" THEN With(k, Mine(bus.descriptor, q))
                            ELSE k

(* So it does. *)
LEMMA WayGoesOn ==
  ASSUME NEW q \in QUEUES, NEW bus, WayKept(q), WayTaken(q), WaysKnown, WaysKnown',
         Untaken' = WithPost(Remaining, bus),
         bus.op = "post tx" => bus.descriptor \in Fragments
  PROVE  WayGoes(q, bus)
<1> DEFINE S == Pieces(Bytes)
           s == AtQueue(q)' \o Left(q)'
           y == Shown(Remaining, q)
           k == Cutting(Unposted(q))
           d == bus.descriptor
<1>1. s \in Seq(S) /\ y \in Seq(S) /\ Remaining \in Seq(Fragments) /\ Unposted(q) = s \o y
  BY DEF WayTaken, WayKept, Unposted
<1>2. Loses(Cutting(TxWay(q)), k)
  BY DEF WayTaken, WaysKnown
<1>3. TxWay(q)' = s \o Shown(Untaken', q)
  <2>1. TxWay(q)' = OnWay(q)'
    BY DEF WaysKnown
  <2>2. OnWay(q)' = s \o Shown(Untaken', q)
    BY DEF OnWay, Shown
  <2>3. QED
    BY <2>1, <2>2
<1>4. k \in [packets : Seq(Seq(Bytes)), open : Seq(Bytes)]
  <2>1. Carries(S, Bytes)
    BY PiecesCarry
  <2> HIDE DEF S, s, y
  <2>2. s \o y \in Seq(S)
    BY <1>1, ConcatProperties
  <2>3. QED
    BY <1>1, <2>1, <2>2, CutType
<1>5. CASE bus.op = "post tx"
  <2>1. Untaken' = Append(Remaining, d) /\ d \in Fragments
    BY <1>5 DEF WithPost
  <2>2. ShownMore(Remaining, d, q) /\ Mine(d, q) \in S
    BY <1>1, <2>1, ShownAppend, MineIs
  <2>3. TxWay(q)' = s \o Append(y, Mine(d, q))
    BY <1>3, <2>1, <2>2 DEF ShownMore
  <2> HIDE DEF S, s, y
  <2>4. Cutting(TxWay(q)') = With(k, Mine(d, q))
    <3> DEFINE m == Mine(d, q)
    <3>1. m \in S /\ TxWay(q)' = s \o Append(y, m) /\ k = Cutting(s \o y)
      BY <1>1, <2>2, <2>3
    <3> HIDE DEF m, k
    <3>2. s \in Seq(S) /\ y \in Seq(S) /\ m \in S
      BY <1>1, <3>1
    <3>3. Cutting(s \o Append(y, m)) = With(Cutting(s \o y), m)
      BY ONLY <3>2, CutConcatAppend
    <3>4. QED
      BY <3>1, <3>3 DEF m
  <2> HIDE DEF k
  <2>5. QED
    BY <1>2, <1>4, <1>5, <2>4 DEF WayGoes
<1>6. CASE bus.op # "post tx"
  <2>1. TxWay(q)' = s \o y
    BY <1>3, <1>6 DEF WithPost
  <2>2. Cutting(TxWay(q)') = k
    BY <1>1, <2>1
  <2> HIDE DEF k
  <2>3. QED
    BY <1>2, <1>4, <1>6, <2>2 DEF WayGoes
<1>7. QED
  BY <1>5, <1>6

(* The packets on the way, and what is there of the next, after an edge.   *)
TxPathGoes(q, bus) ==
  /\ Cutting(TxWay(q)').open = PostedOf(tx_posting', q)
  /\ \E k \in Seq(Seq(Bytes)) :
       /\ \/ k = Cutting(TxWay(q)).packets
          \/ /\ Cutting(TxWay(q)).packets # << >>
             /\ k = Tail(Cutting(TxWay(q)).packets)
       /\ \/ Cutting(TxWay(q)').packets = k
          \/ /\ bus.op = "post tx"
             /\ \E p \in TxPayloads(q) : Cutting(TxWay(q)').packets = Append(k, p)

(* The last fragment of a packet puts all of the packet on the way.        *)
LEMMA TxPathGoesOn ==
  ASSUME PostingHolds, NEW q \in QUEUES, NEW bus, DriverDoes(bus), WayGoes(q, bus),
         Cutting(TxWay(q)).open = PostedOf(tx_posting, q)
  PROVE  TxPathGoes(q, bus)
<1> DEFINE c == Cutting(TxWay(q))
           n == Cutting(TxWay(q)')
           d == bus.descriptor
<1>1. PICK k \in [packets : Seq(Seq(Bytes)), open : Seq(Bytes)] :
        /\ Loses(c, k)
        /\ n = IF bus.op = "post tx" THEN With(k, Mine(d, q)) ELSE k
  BY DEF WayGoes
<1>2. k.packets \in Seq(Seq(Bytes)) /\ k.open \in Seq(Bytes) /\ k.open = PostedOf(tx_posting, q)
  BY <1>1 DEF Loses
<1>3. k.packets = c.packets \/ (c.packets # << >> /\ k.packets = Tail(c.packets))
  BY <1>1 DEF Loses
<1>4. SUFFICES /\ n.open = PostedOf(tx_posting', q)
               /\ \/ n.packets = k.packets
                  \/ /\ bus.op = "post tx"
                     /\ \E p \in TxPayloads(q) : n.packets = Append(k.packets, p)
  BY <1>2, <1>3 DEF TxPathGoes
<1>5. CASE bus.op = "post tx"
  <2>1. PICK p \in NextPackets : d = NextFragment(p) /\ tx_posting' = WithPosted(p)
    BY <1>5 DEF DriverDoes
  <2>2. FragmentOf(p, d) /\ PostsMore(p, d)
    BY <2>1, FragmentIs
  <2>3. n = With(k, Mine(d, q)) /\ d.queue = p.queue /\ d.eop \in BOOLEAN
    BY <1>1, <1>5, <2>2 DEF FragmentOf, Fragments
  <2> HIDE DEF n, d
  <2>4. CASE p.queue = q
    <3>1. n = With(k, d)
      BY <2>3, <2>4 DEF Mine
    <3> DEFINE o == k.open \o d.bytes
    <3>2. n.open = (IF d.eop THEN << >> ELSE o)
          /\ n.packets = (IF d.eop THEN Append(k.packets, o) ELSE k.packets)
      BY <3>1 DEF With
    <3>3. /\ d.eop => o \in TxPayloads(q) /\ PostedOf(tx_posting', q) = << >>
          /\ ~d.eop => PostedOf(tx_posting', q) = o
      BY <1>2, <2>1, <2>2, <2>4 DEF PostsMore
    <3> HIDE DEF o
    <3>4. QED
      BY <1>5, <2>3, <3>2, <3>3
  <2>5. CASE p.queue # q
    <3>1. n = With(k, Part(<< >>))
      BY <2>3, <2>5 DEF Mine
    <3>2. n.open = k.open \o << >> /\ n.packets = k.packets
      BY <3>1 DEF With, Part
    <3>3. k.open = << >> /\ PostedOf(tx_posting', q) = << >>
      BY <1>2, <2>1, <2>2, <2>5 DEF PostsMore
    <3>4. << >> \o << >> = << >>
      BY ConcatEmptySeq
    <3>5. QED
      BY <3>2, <3>3, <3>4
  <2>6. QED
    BY <2>4, <2>5
<1>6. CASE bus.op # "post tx"
  BY <1>1, <1>2, <1>6 DEF DriverDoes
<1>7. QED
  BY <1>5, <1>6

(* How many packets are on the way.                                        *)
TxCount(q) ==
  /\ Cutting(TxWay(q)).packets \in Seq(Seq(Bytes))
  /\ Len(Cutting(TxWay(q)).packets) <= DEPTH + (1 + Posted(tx_producer, tx_consumer))

(* Those in the queue, at most one in the engine, and those the posted     *)
(* fragments end.                                                          *)
LEMMA TxCounts ==
  ASSUME RingsKnown, WaysKnown, LeftSound, NEW q \in QUEUES,
         TransmitQueue(q, tx_queue[q], tx_sink[q]), QueueFits(tx_queue[q])
  PROVE  TxCount(q)
<1> DEFINE S == Pieces(Bytes)
           V == Seq(Bytes)
           a == AtQueue(q)
           x == Left(q)
           y == Shown(Untaken, q)
           n == Posted(tx_producer, tx_consumer)
           m == Len(Cutting(a).packets)
<1>1. Carries(S, Bytes)
  BY PiecesCarry
<1>2. a \in Seq(S) /\ a = << Part(tx_sink[q]) >> \o tx_queue[q].data
      /\ Cutting(a) = Queued(tx_queue[q], tx_sink[q])
      /\ tx_queue[q].lengths = LengthsIn(Cutting(a).packets)
  <2>1. QueueSound(tx_queue[q], tx_sink[q], Bytes)
    BY DEF TransmitQueue
  <2>2. tx_queue[q].data \in Seq(Beats(Bytes)) /\ tx_sink[q] \in Seq(Bytes)
        /\ tx_queue[q].lengths = LengthsIn(Queued(tx_queue[q], tx_sink[q]).packets)
    BY <2>1 DEF QueueSound
  <2>3. Queued(tx_queue[q], tx_sink[q]) = Cutting(a)
    BY DEF Queued, AtQueue
  <2>4. a \in Seq(S)
    BY <2>2, QueuedType DEF AtQueue
  <2>5. QED
    BY <2>2, <2>3, <2>4 DEF AtQueue
<1>3. x \in Seq(S) /\ Len(x) \in {0, 1}
  <2>1. x = << >> \/ \E r : x = << r >>
    BY DEF Left
  <2>2. Len(<< >>) = 0 /\ \A r : Len(<< r >>) = 1
    OBVIOUS
  <2>3. x \in Seq(S)
    BY DEF LeftSound
  <2> HIDE DEF x
  <2>4. QED
    BY <2>1, <2>2, <2>3
<1>4. Waiting \in Seq(Fragments) /\ Len(Waiting) = n /\ n \in Nat
      /\ (TxWaiting => Waiting # << >>)
  <2>1. Listed(Waiting, tx_ring, tx_producer, tx_consumer, Fragments)
    BY PostedInIs DEF RingsHold, Waiting, RingsKnown
  <2>2. n \in Nat
    BY PostedIs DEF RingsHold, RingsKnown
  <2>3. QED
    BY <2>1, <2>2 DEF Listed, TxWaiting, RingsKnown
<1>5. Untaken \in Seq(Fragments) /\ Len(Untaken) <= n /\ Len(Untaken) \in Nat
  <2>1. Taking => TxWaiting
    BY DEF HandshakeHolds, OneCommand, Taking, RingsKnown
  <2> DEFINE F == Fragments
             s == Waiting
  <2>2. s \in Seq(F) /\ Len(s) = n /\ (Taking => s # << >>)
    BY <1>4, <2>1
  <2>3. Untaken = IF Taking THEN Tail(s) ELSE s
    BY DEF Untaken
  <2> HIDE DEF s, F, n
  <2>4. s # << >> => Tail(s) \in Seq(F) /\ Len(Tail(s)) = n - 1 /\ n - 1 \in Nat
    BY <2>2
  <2>5. QED
    BY <1>4, <2>2, <2>3, <2>4 DEF F
<1>6. y \in Seq(S) /\ Len(y) = Len(Untaken)
  BY <1>5, ShownType DEF ShownIs
<1>7. m \in Nat /\ m <= DEPTH
  <2>1. Cutting(a).packets \in Seq(V)
    <3> HIDE DEF S, a
    <3>1. Cutting(a) \in [packets : Seq(Seq(Bytes)), open : Seq(Bytes)]
      BY <1>1, <1>2, CutType
    <3>2. QED
      BY <3>1
  <2> DEFINE s == Cutting(a).packets
  <2>2. s \in Seq(V) /\ Len(s) = m
    BY <2>1
  <2>3. Len(tx_queue[q].lengths) <= DEPTH /\ tx_queue[q].lengths = LengthsIn(s)
    BY <1>2 DEF QueueFits
  <2> HIDE DEF s, m, V, a
  <2>4. m \in Nat /\ DOMAIN s = 1 .. m
    BY <2>2
  <2>5. LengthsIn(s) = [i \in 1 .. m |-> Len(s[i])]
    BY <2>4 DEF LengthsIn
  <2>6. Len(LengthsIn(s)) = m
    BY <2>4, <2>5
  <2>7. QED
    BY <2>3, <2>4, <2>6
<1> DEFINE ax == a \o x
           way == ax \o y
<1>8. Cutting(TxWay(q)) = Cutting(way)
  BY DEF WaysKnown, OnWay
<1> HIDE DEF S, a, x, y, m, n
<1>9. ax \in Seq(S)
  BY <1>2, <1>3, ConcatProperties
<1>10. Len(Cutting(ax).packets) <= m + Len(x)
  BY <1>1, <1>2, <1>3, CutCount DEF m
<1> HIDE DEF ax
<1>11. Len(Cutting(way).packets) <= Len(Cutting(ax).packets) + Len(y)
  BY <1>1, <1>6, <1>9, CutCount
<1>12. way \in Seq(S)
  BY <1>6, <1>9, ConcatProperties
<1> HIDE DEF way
<1>13. /\ Cutting(ax) \in [packets : Seq(Seq(Bytes)), open : Seq(Bytes)]
       /\ Cutting(way) \in [packets : Seq(Seq(Bytes)), open : Seq(Bytes)]
  BY <1>1, <1>9, <1>12, CutType
<1> DEFINE i == Len(Cutting(ax).packets)
           j == Len(Cutting(way).packets)
           u == Len(Untaken)
           v == Len(x)
<1>14. i \in Nat /\ j \in Nat
  BY <1>13
<1>15. i <= m + v /\ j <= i + u /\ v \in {0, 1} /\ u <= n /\ u \in Nat
  BY <1>3, <1>5, <1>6, <1>10, <1>11
<1> HIDE DEF i, j, u, v
<1>16. j <= DEPTH + (1 + n)
  BY <1>4, <1>7, <1>14, <1>15, QueueDepthAssumption
<1>17. Cutting(way).packets \in Seq(Seq(Bytes))
  BY <1>13
<1>18. QED
  BY <1>8, <1>16, <1>17 DEF TxCount, j, n

(* Such a move of a path is one PacketPaths allows. *)
LEMMA TxPathMoves ==
  ASSUME RingsHold, NEW q \in QUEUES, NEW bus, RoomFor(bus), TxCount(q), TxPathGoes(q, bus)
  PROVE  TxPath!Step(q, TxPackets(q), TxPackets(q)')
<1> DEFINE old == Cutting(TxWay(q)).packets
           new == Cutting(TxWay(q)').packets
           n == Posted(tx_producer, tx_consumer)
           l == Len(old)
<1>1. TxPackets(q) = old /\ TxPackets(q)' = new
  BY DEF TxPackets, Cut, TxWay, Way
<1>2. bus.op = "post tx" => l < DEPTH + RING_DEPTH
  <2>1. SUFFICES ASSUME bus.op = "post tx" PROVE l < DEPTH + RING_DEPTH
    OBVIOUS
  <2>2. n < RING_DEPTH - 1
    BY <2>1 DEF RoomFor, MayPost
  <2>3. n \in Nat
    BY PostedIs DEF RingsHold
  <2>4. l \in Nat /\ l <= DEPTH + (1 + n)
    BY DEF TxCount
  <2>5. RING_DEPTH \in Nat /\ DEPTH \in Nat
    BY RingAssumption, QueueDepthAssumption
  <2> HIDE DEF n, l
  <2>6. QED
    BY <2>2, <2>3, <2>4, <2>5
<1>3. PICK k : /\ \/ k = old
                  \/ old # << >> /\ k = Tail(old)
               /\ \/ new = k
                  \/ bus.op = "post tx" /\ \E p \in TxPayloads(q) : new = Append(k, p)
  BY DEF TxPathGoes
<1> HIDE DEF old, new
<1>4. k \in TxPath!Moved(old)
  BY <1>3 DEF TxPath!Moved
<1>5. TxPath!Step(q, old, new)
  BY <1>2, <1>3, <1>4 DEF TxPath!Step, l
<1>6. QED
  BY <1>1, <1>5

-----------------------------------------------------------------------------
(* The invariant.                                                          *)

(* The lengths of packets are numbers. *)
LEMMA LengthsType ==
  ASSUME NEW B, NEW s \in Seq(Seq(B))
  PROVE  LengthsIn(s) \in Seq(Nat)
<1> DEFINE V == Seq(B)
           n == Len(s)
<1>1. n \in Nat /\ DOMAIN s = 1 .. n /\ \A i \in 1 .. n : Len(s[i]) \in Nat
  <2>1. \A x \in V : Len(x) \in Nat
    OBVIOUS
  <2>2. s \in Seq(V)
    OBVIOUS
  <2> HIDE DEF V
  <2>3. n \in Nat /\ DOMAIN s = 1 .. n /\ \A i \in 1 .. n : s[i] \in V
    BY <2>2
  <2>4. QED
    BY <2>1, <2>3
<1> HIDE DEF n
<1>2. LengthsIn(s) = [i \in 1 .. n |-> Len(s[i])]
  BY <1>1 DEF LengthsIn
<1>3. QED
  BY <1>1, <1>2

QueuesFit == \A q \in QUEUES : QueueFits(rx_queue[q]) /\ QueueFits(tx_queue[q])

(* Queues that fit take only what still fits. *)
LEMMA QueuesStillFit ==
  ASSUME QueuesHold, NEW bus, NEW offers, NEW takes, NEW host_ready, NEW stale,
         Edge(bus, offers, takes, host_ready, stale), QueuesFit,
         \A q \in QUEUES : /\ rx_queue[q].data \in Seq(Beats(Bytes))
                           /\ QueueSound(tx_queue[q], tx_sink[q], Bytes)
  PROVE  QueuesFit'
<1>1. SUFFICES ASSUME NEW q \in QUEUES
               PROVE  QueueFits(rx_queue'[q]) /\ QueueFits(tx_queue'[q])
  BY DEF QueuesFit, QueueFits
<1>2. QueueFits(rx_queue'[q])
  <2> DEFINE p == rx_queue[q]
             b == offers[q].beat
             ready == queue_input_ready /\ queue = q
  <2>1. rx_queue'[q] = QueueEdge(p, b, ready)
    BY DEF Edge
  <2>2. /\ p.data \in Seq(Beats(Bytes)) /\ p.lengths \in Seq(RxLengths) /\ QueueFits(p)
        /\ DOMAIN p = {"data", "lengths", "assembling", "assembling_length",
                       "packet_count", "protocol_error"}
    BY DEF QueuesHold, QueueHolds, QueuesFit
  <2> HIDE DEF p, b, ready
  <2>3. QED
    BY <2>1, <2>2, FitsAtEdge
<1>3. QueueFits(tx_queue'[q])
  <2> DEFINE p == tx_queue[q]
             c == Queued(tx_queue[q], tx_sink[q])
             b == out_beat(q)
  <2>1. tx_queue'[q] = QueueEdge(p, b, takes[q])
    BY DEF Edge
  <2>2. QueueSound(p, tx_sink[q], Bytes)
    OBVIOUS
  <2>3. p.data \in Seq(Beats(Bytes)) /\ tx_sink[q] \in Seq(Bytes)
        /\ p.lengths = LengthsIn(c.packets)
    BY <2>2 DEF QueueSound
  <2>4. c.packets \in Seq(Seq(Bytes))
    BY <2>3, QueuedType
  <2> HIDE DEF c
  <2>5. p.lengths \in Seq(Nat)
    BY <2>3, <2>4, LengthsType
  <2>6. /\ QueueFits(p)
        /\ DOMAIN p = {"data", "lengths", "assembling", "assembling_length",
                       "packet_count", "protocol_error"}
    BY <2>2 DEF QueueSound, QueuesFit
  <2> HIDE DEF p, b
  <2>7. QED
    BY <2>1, <2>3, <2>5, <2>6, FitsAtEdge
<1>4. QED
  BY <1>2, <1>3

(* What an edge does, of which the lemmas above speak. *)
TxMoves(bus) ==
  /\ SendKnown /\ EngineOut /\ ControllerMoves /\ MiddleMoves /\ RingGoes(bus) /\ HeadTaken
  /\ LeftSound /\ LeftSound' /\ WaysKnown /\ WaysKnown' /\ RingsKnown
  /\ FragmentsHold' /\ TxCommandHolds'

(* It does so. *)
LEMMA TxMovesAtEdge ==
  ASSUME TransmitInv, SystemInv', NEW bus, NEW offers, NEW takes, NEW host_ready, NEW stale,
         Edge(bus, offers, takes, host_ready, stale), DriverDoes(bus)
  PROVE  TxMoves(bus)
<1>1. /\ RingsHold /\ HandshakeHolds /\ PostingHolds /\ ReceiveInv
      /\ FragmentsHold /\ TxCommandHolds /\ EngineSends
      /\ command.direction \in {"queue to host", "host to queue"}
      /\ Waiting \in Seq(Fragments)
  BY DEF TransmitInv, ReceiveInv, SystemInv, TxCommandHolds, FragmentsHold
<1>2. SendKnown
  BY <1>1, SendIsKnown
<1>3. Busy \/ command_valid => command' = command
  <2>1. Busy => dma_active
    BY <1>1 DEF HandshakeHolds, OneCommand
  <2>2. QED
    BY <1>1, <2>1, CommandKept
<1>4. EngineOut
  BY <1>2, <1>3, EngineOutAtEdge
<1>5. ControllerMoves
  BY <1>1, ControllerGoes
<1>6. MiddleMoves
  BY <1>1, <1>2, <1>3, <1>4, <1>5, MiddleAtEdge
<1>7. HostWrite(bus) /\ RoomFor(bus)
  BY DEF Edge, Controller_work, DriverDoes
<1>8. RingsKeep
  BY <1>1, <1>7, RingsAtEdge
<1>9. bus.op = "post tx" => bus.descriptor \in Fragments
  <2>1. SUFFICES ASSUME bus.op = "post tx" PROVE bus.descriptor \in Fragments
    OBVIOUS
  <2>2. PICK p \in NextPackets : bus.descriptor = NextFragment(p)
    BY <2>1 DEF DriverDoes
  <2>3. FragmentOf(p, NextFragment(p))
    BY <1>1, FragmentIs
  <2>4. QED
    BY <2>2, <2>3 DEF FragmentOf
<1>10. RingGoes(bus)
  BY <1>1, <1>5, <1>7, <1>8, <1>9, RingMoves
<1>11. FragmentsHold'
  BY <1>1, <1>5, <1>10, FragmentsKept
<1>12. TxCommandHolds'
  BY <1>1, <1>5, <1>8, <1>11, FragmentsGoOn
<1>13. LeftSound
  <2>1. Outward
    BY <1>2 DEF SendKnown, Outward
  <2>2. QED
    BY <1>1, <2>1, LeftIs
<1>14. LeftSound'
  BY <1>4, LeftIsNext DEF EngineOut
<1>15. RingsKnown
  BY <1>1 DEF RingsKnown
<1>16. RingsKnown'
  BY <1>11 DEF RingsKnown, SystemInv, FragmentsHold
<1>17. WaysKnown
  BY <1>13, <1>15, PostedShown, WayIs
<1>18. WaysKnown'
  BY <1>14, <1>16, PostedShownNext, WayIsNext
<1>19. HeadTaken
  <2>1. SUFFICES ASSUME Accepting
                 PROVE  /\ Untaken # << >> /\ Head(Untaken) = tx_ring[tx_consumer]
                        /\ tx_ring[tx_consumer].queue = command.queue
                        /\ tx_ring[tx_consumer].bytes = command.bytes
                        /\ tx_ring[tx_consumer].eop = command.eop
    BY DEF HeadTaken
  <2>2. command_valid /\ command.direction = "host to queue"
    BY <2>1 DEF Accepting
  <2>3. /\ tx_ring[tx_consumer].queue = command.queue
        /\ tx_ring[tx_consumer].bytes = command.bytes
        /\ tx_ring[tx_consumer].eop = command.eop
    BY <1>1, <2>2 DEF HandshakeHolds, OneCommand, TxCommandHolds
  <2>4. QED
    BY <1>10, <2>1, <2>3 DEF RingGoes
<1>20. QED
  BY <1>2, <1>4, <1>5, <1>6, <1>10, <1>11, <1>12, <1>13, <1>14, <1>15, <1>17, <1>18, <1>19
     DEF TxMoves

TxQueueStep(q) ==
  /\ TransmitQueue(q, tx_queue'[q], tx_sink'[q])
  /\ OpenNext(q, tx_queue'[q], tx_sink'[q])
  /\ Cutting(TxWay(q)').open = PostedOf(tx_posting', q)
  /\ TxPath!Step(q, TxPackets(q), TxPackets(q)')

(* An edge keeps what is known of a queue, and its path goes on as         *)
(* promised.                                                               *)
LEMMA TxQueueAtEdge ==
  ASSUME TransmitInv, NEW bus, NEW offers, NEW takes, NEW host_ready, NEW stale,
         Edge(bus, offers, takes, host_ready, stale), DriverDoes(bus),
         TxMoves(bus), NEW q \in QUEUES
  PROVE  TxQueueStep(q)
<1>1. /\ TransmitQueue(q, tx_queue[q], tx_sink[q]) /\ QueueFits(tx_queue[q])
      /\ OpenIs(q, tx_queue[q], tx_sink[q])
      /\ Cutting(TxWay(q)).open = PostedOf(tx_posting, q)
      /\ PostingHolds /\ RingsHold
  BY DEF TransmitInv, TxQueuesHold, OpenIs, ReceiveInv, SystemInv
<1>2. /\ SendKnown /\ EngineOut /\ MiddleMoves /\ RingGoes(bus) /\ HeadTaken
      /\ LeftSound /\ LeftSound' /\ WaysKnown /\ WaysKnown' /\ RingsKnown
  BY DEF TxMoves
<1>3. TxWrittenSound(q)
  BY <1>1, <1>2, TxWrite
<1>4. TxRecord(q, takes)
  BY <1>2, TxRecordAtEdge
<1>5. TxQueueGoes(q, takes)
  BY <1>3, <1>4, TxQueueGoesOn
<1>6. TxRead(q, takes)
  BY <1>5 DEF TxQueueGoes
<1>7. LeftGoes(q)
  BY <1>2, LeftMoves
<1>8. Untaken \in Seq(Fragments) /\ Untaken' = WithPost(Remaining, bus)
  BY <1>2 DEF RingGoes, Remaining
<1>9. WayKept(q)
  BY <1>1, <1>2, <1>3, <1>7, <1>8, WayIsKept
<1>10. WayTaken(q)
  BY <1>3, <1>6, <1>9, WayIsTaken
<1>11. bus.op = "post tx" => bus.descriptor \in Fragments
  <2>1. SUFFICES ASSUME bus.op = "post tx" PROVE bus.descriptor \in Fragments
    OBVIOUS
  <2>2. PICK p \in NextPackets : bus.descriptor = NextFragment(p)
    BY <2>1 DEF DriverDoes
  <2>3. FragmentOf(p, NextFragment(p))
    BY <1>1, FragmentIs
  <2>4. QED
    BY <2>2, <2>3 DEF FragmentOf
<1>12. WayGoes(q, bus)
  BY <1>2, <1>8, <1>9, <1>10, <1>11, WayGoesOn
<1>13. TxPathGoes(q, bus)
  BY <1>1, <1>12, TxPathGoesOn
<1>14. TxCount(q)
  BY <1>1, <1>2, TxCounts
<1>15. RoomFor(bus)
  BY DEF DriverDoes
<1>16. TxPath!Step(q, TxPackets(q), TxPackets(q)')
  BY <1>1, <1>13, <1>14, <1>15, TxPathMoves
<1>17. QED
  BY <1>5, <1>13, <1>16 DEF TxQueueStep, TxQueueGoes, TxPathGoes

(* An edge keeps the invariant, and every path goes on as promised. *)
LEMMA TransmitAtEdge ==
  ASSUME TransmitInv, ReceiveInv', NEW bus, NEW offers, NEW takes, NEW host_ready, NEW stale,
         Edge(bus, offers, takes, host_ready, stale), DriverDoes(bus)
  PROVE  /\ TransmitInv'
         /\ \A q \in QUEUES : TxPath!Step(q, TxPackets(q), TxPackets(q)')
<1>1. TxMoves(bus)
  BY TxMovesAtEdge DEF ReceiveInv
<1>2. \A q \in QUEUES : TxQueueStep(q)
  BY <1>1, TxQueueAtEdge
<1>3. QueuesFit'
  <2>1. QueuesHold /\ QueuesFit
    BY DEF TransmitInv, ReceiveInv, SystemInv, TxQueuesHold, QueuesFit
  <2>2. \A q \in QUEUES : /\ rx_queue[q].data \in Seq(Beats(Bytes))
                          /\ QueueSound(tx_queue[q], tx_sink[q], Bytes)
    BY DEF TransmitInv, ReceiveInv, ReceiveQueue, QueueSound, TxQueuesHold, TransmitQueue
  <2>3. QED
    BY <2>1, <2>2, QueuesStillFit
<1>4. TxQueuesHold'
  BY <1>2, <1>3 DEF TxQueuesHold, TxQueueStep, OpenNext, QueuesFit
<1>5. \A q \in QUEUES : (Cutting(TxWay(q)).open = PostedOf(tx_posting, q))'
  BY <1>2 DEF TxQueueStep
<1>6. EngineSends' /\ FragmentsHold' /\ TxCommandHolds'
  BY <1>1 DEF TxMoves, EngineOut
<1>7. QED
  BY <1>2, <1>4, <1>5, <1>6 DEF TransmitInv, TxQueueStep

(* After reset nothing is on the way. *)
LEMMA TransmitInit ==
  ASSUME SystemInit
  PROVE  TransmitInv /\ \A q \in QUEUES : TxPackets(q) = << >>
<1>1. ReceiveInv
  BY ReceiveInit
<1>2. RingsHold /\ HandshakeHolds
  BY <1>1 DEF ReceiveInv, SystemInv
<1>3. ~Busy /\ ~Taking /\ ~Sending /\ tx_packet_start = TRUE /\ tx_packet_queue = 0
      /\ 0 \in QUEUES /\ tx_posting = NoPosting /\ ~dma_active /\ ~command_valid
      /\ command.direction = "queue to host" /\ tx_producer = 0 /\ tx_consumer = 0
  BY QueuesAssumption DEF SystemInit, ControllerInit, DMAInit, Busy, Taking, Sending
<1>4. Waiting = << >> /\ Untaken = << >>
  <2>2. Posted(tx_producer, tx_consumer) = 0
    BY <1>2, <1>3, PostedIs DEF RingsHold
  <2>3. Waiting = [i \in 1 .. 0 |-> tx_ring[(tx_consumer + i - 1) % RING_DEPTH]]
    BY <2>2 DEF Waiting, PostedIn
  <2>4. 1 .. 0 = {}
    OBVIOUS
  <2>5. Waiting = << >>
    BY <2>3, <2>4
  <2>6. QED
    BY <1>3, <2>5 DEF Untaken
<1>5. FragmentsHold
  <2>1. << >> \in Seq(Fragments) /\ Len(<< >>) = 0
    OBVIOUS
  <2>2. Chain(TRUE, 0, << >>, TRUE, tx_posting.queue)
    BY <2>1 DEF Chain, EndsAt, QueueAt
  <2>3. QED
    BY <1>3, <1>4, <2>1, <2>2 DEF FragmentsHold
<1>6. TxCommandHolds
  BY <1>3 DEF TxCommandHolds
<1>7. EngineSends /\ Outward
  BY <1>3 DEF EngineSends, Outward
<1>8. LeftSound /\ WaysKnown
  <2>1. RingsKnown
    BY <1>2, <1>5 DEF RingsKnown, FragmentsHold
  <2>2. QED
    BY <1>7, <2>1, LeftIs, PostedShown, WayIs
<1>9. EmptySound(Bytes)
  BY EmptyIsSound
<1>10. NoPackets.packets = << >> /\ NoPackets.open = << >>
  BY DEF NoPackets
<1>11. ~InMiddle
  BY <1>3 DEF InMiddle
<1>12. ASSUME NEW q \in QUEUES
       PROVE  /\ TransmitQueue(q, tx_queue[q], tx_sink[q])
              /\ QueueFits(rx_queue[q]) /\ QueueFits(tx_queue[q])
              /\ Queued(tx_queue[q], tx_sink[q]).open = << >>
              /\ Cutting(TxWay(q)) = NoPackets
  <2>1. rx_queue[q] = EmptyQueue /\ tx_queue[q] = EmptyQueue /\ tx_sink[q] = << >>
    BY DEF SystemInit
  <2>2. QueueFits(EmptyQueue)
    <3>1. Len(<< >>) = 0 /\ DEPTH \in Nat
      BY QueueDepthAssumption
    <3>2. QED
      BY <1>9, <3>1 DEF EmptySound, QueueFits
  <2>3. TransmitQueue(q, EmptyQueue, << >>)
    BY <1>9 DEF TransmitQueue, EmptySound
  <2>4. Left(q) = << >> /\ Shown(Untaken, q) = << >>
    <3>1. Len(<< >>) = 0 /\ 1 .. 0 = {}
      OBVIOUS
    <3>2. Shown(<< >>, q) = [i \in 1 .. 0 |-> Mine(<< >>[i], q)]
      BY <3>1 DEF Shown
    <3>3. Shown(<< >>, q) = << >>
      BY <3>1, <3>2
    <3>4. QED
      BY <1>3, <1>4, <3>3 DEF Left
  <2>5. TxWay(q) = (AtQueue(q) \o << >>) \o << >>
    BY <1>8, <2>4 DEF WaysKnown, OnWay
  <2> DEFINE a == AtQueue(q)
             S == Pieces(Bytes)
  <2>6. a = << Part(<< >>) >> \o EmptyQueue.data /\ EmptyQueue.data = << >>
    BY <1>9, <2>1 DEF AtQueue, EmptySound
  <2>7. << Part(<< >>) >> \in Seq(S) /\ << >> \in Seq(S)
    <3>1. << >> \in Seq(Bytes) /\ << >> \in Seq(S)
      OBVIOUS
    <3>2. QED
      BY <3>1, PiecesCarry
  <2>8. Cutting(a) = Queued(EmptyQueue, << >>)
    BY <2>6 DEF Queued
  <2>9. a \in Seq(S)
    <3> HIDE DEF S, a
    <3>1. QED
      BY <2>6, <2>7, ConcatProperties
  <2> HIDE DEF a, S
  <2>10. a \o << >> = a
    BY <2>9, ConcatEmptySeq
  <2>11. Cutting(TxWay(q)) = NoPackets
    BY <1>9, <2>5, <2>8, <2>10 DEF EmptySound, a
  <2>12. QED
    BY <1>9, <1>10, <2>1, <2>2, <2>3, <2>11 DEF EmptySound
<1>13. TxQueuesHold
  BY <1>11, <1>12 DEF TxQueuesHold
<1>14. \A q \in QUEUES : PostedOf(tx_posting, q) = << >>
  BY <1>3 DEF PostedOf
<1>15. \A q : TxPackets(q) = Cutting(TxWay(q)).packets
  BY DEF TxPackets, Cut, TxWay, Way
<1>16. QED
  BY <1>1, <1>5, <1>6, <1>7, <1>10, <1>12, <1>13, <1>14, <1>15 DEF TransmitInv

(* What the invariant speaks of stays when nothing changes. *)
LEMMA TransmitStays ==
  ASSUME TransmitInv, UNCHANGED vars
  PROVE  TransmitInv' /\ \A q \in QUEUES : TxPackets(q)' = TxPackets(q)
<1> USE DEF vars, ctlVars, rxVars, txVars, dmaVars, sysVars
<1>1. ReceiveInv'
  BY ReceiveStays DEF TransmitInv
<1>2. Taking' = Taking /\ Waiting' = Waiting
  BY DEF Taking, Waiting, PostedIn
<1>3. FragmentsHold' = FragmentsHold
  <2>1. Untaken' = Untaken
    BY <1>2 DEF Untaken
  <2>2. QED
    BY <1>2, <2>1 DEF FragmentsHold
<1>4. TxCommandHolds' = TxCommandHolds
  BY DEF TxCommandHolds
<1>5. EngineSends' = EngineSends
  BY DEF EngineSends, Sending, SendShape, Sent, Busy, ToHost, queue_output_valid
<1>6. InMiddle' = InMiddle
  BY <1>2 DEF InMiddle
<1>7. TxQueuesHold' = TxQueuesHold
  BY <1>6 DEF TxQueuesHold
<1>8. \A q : TxWay(q)' = TxWay(q)
  <2>1. \A q : FromEngine(q)' = FromEngine(q)
    BY DEF FromEngine, Busy
  <2>2. \A q : PostedFragments(q)' = PostedFragments(q)
    BY DEF PostedFragments
  <2>3. QED
    BY <2>1, <2>2 DEF TxWay
<1>9. \A q : TxPackets(q) = Cutting(TxWay(q)).packets /\ TxPackets(q)' = Cutting(TxWay(q)').packets
  BY DEF TxPackets, Cut, TxWay, Way
<1>10. QED
  BY <1>1, <1>3, <1>4, <1>5, <1>7, <1>8, <1>9 DEF TransmitInv

(* What a step does to the paths. *)
TxPathsGo ==
  \/ \A q \in QUEUES : TxPath!Step(q, TxPackets(q), TxPackets(q)')
  \/ \A q \in QUEUES : TxPackets(q)' = TxPackets(q)

(* Every step keeps the invariant, and every path goes on as promised. *)
LEMMA TransmitStep ==
  ASSUME LengthsAccepted, TransmitInv, [Next]_vars
  PROVE  TransmitInv' /\ TxPathsGo
<1>1. ReceiveInv /\ SystemInv
  BY DEF TransmitInv, ReceiveInv
<1>2. ReceiveInv'
  BY <1>1, ReceiveStep
<1>3. CASE UNCHANGED vars
  BY <1>3, TransmitStays DEF TxPathsGo
<1>4. CASE Next
  <2>1. PICK bus, host_ready, takes, offers, stale :
          DriverDoes(bus) /\ Edge(bus, offers, takes, host_ready, stale)
    BY <1>1, <1>4, DriverAtStep
  <2>2. QED
    BY <1>2, <2>1, TransmitAtEdge DEF TxPathsGo
<1>5. QED
  BY <1>3, <1>4

(* Packets the driver posts reach Processing in order, whole, once: in     *)
(* every behaviour, what is on the way from the rings through the engine   *)
(* to each queue is a path of whole packets.                               *)
THEOREM FragmentsInOrder ==
  ASSUME LengthsAccepted
  PROVE  Spec => TxInOrder
<1>1. SystemInit => TransmitInv /\ TxPath!Init
  BY TransmitInit DEF TxPath!Init
<1>2. TransmitInv /\ [Next]_vars => TransmitInv' /\ TxPathsGo
  BY TransmitStep
<1>3. TxPathsGo => TxPath!Next
  <2>1. \A q \in QUEUES : TxPackets(q)' = TxPackets(q) => TxPath!Step(q, TxPackets(q), TxPackets(q)')
    BY DEF TxPath!Step, TxPath!Moved
  <2>2. TxPathsGo => \A q \in QUEUES : TxPath!Step(q, TxPackets(q), TxPackets(q)')
    BY <2>1 DEF TxPathsGo
  <2>3. QED
    BY <2>2 DEF TxPath!Next
<1>4. QED
  BY <1>1, <1>2, <1>3, PTL DEF Spec, TxInOrder, TxPath!Spec

-----------------------------------------------------------------------------
(* Types.                                                                  *)

(* What an edge does to the length that remains: it stays, it is that of   *)
(* the command taken, or less, of a transfer that goes on.                 *)
RemainingGoes ==
  \/ transfer'.remaining = transfer.remaining
  \/ state = "IDLE" /\ command_valid /\ transfer'.remaining = command.length
  \/ /\ Busy' /\ direction' = direction
     /\ \E n \in Nat : transfer'.remaining = transfer.remaining - n

(* It does so. *)
LEMMA RemainingAtEdge ==
  ASSUME EngineHolds, state \in EngineStates,
         NEW bus, NEW offers, NEW takes, NEW host_ready, NEW stale,
         Edge(bus, offers, takes, host_ready, stale)
  PROVE  RemainingGoes
<1> DEFINE offered == IF command_valid THEN {command} ELSE {}
           out_ready == write_ready(tx_queue[queue], out_beat(queue))
<1>1. MasterDMA_work(offered, selected_rx, out_ready, host_ready)
  BY DEF Edge
<1> HIDE DEF out_ready
<1>2. Stay => RemainingGoes
  BY DEF Stay, RemainingGoes
<1>3. DOMAIN transfer = {"address", "remaining", "sop", "eop", "first_beat"}
  BY DEF EngineHolds, EngineShape
<1>4. CASE state = "IDLE"
  <2>1. \/ command_valid /\ AcceptCommand(command)
        \/ Stay
    BY <1>1, <1>4 DEF MasterDMA_work
  <2>2. ASSUME command_valid, AcceptCommand(command)
        PROVE  RemainingGoes
    <3>1. transfer' = [address |-> 0, remaining |-> command.length,
                       sop |-> command.sop, eop |-> command.eop, first_beat |-> TRUE]
      BY <2>2 DEF AcceptCommand
    <3>2. transfer'.remaining = command.length
      BY <3>1
    <3>3. QED
      BY <1>4, <2>2, <3>2 DEF RemainingGoes
  <2>3. QED
    BY <1>2, <2>1, <2>2
<1>5. CASE state \in {"WAIT_QUEUE", "WAIT_QUEUE_SECOND"}
  <2>1. transfer' = transfer
    BY <1>1, <1>5 DEF MasterDMA_work, WaitQueue, WaitQueueSecond, Stay
  <2>2. QED
    BY <2>1 DEF RemainingGoes
<1>6. CASE state = "WRITE_ADDRESS"
  <2>1. WriteAddress \/ Stay
    BY <1>1, <1>6 DEF MasterDMA_work
  <2>2. kept_bytes \in Nat
    <3>1. HasBeat
      BY <1>6 DEF EngineHolds, EngineShape, Busy
    <3>2. beat.low \in Seq(Bytes) /\ beat.high \in Seq(Bytes)
      BY <3>1 DEF HasBeat
    <3> DEFINE low == beat.low
               high == beat.high
    <3>3. kept_bytes = Len(low) + Len(high)
      BY DEF kept_bytes
    <3> HIDE DEF low, high
    <3>4. low \in Seq(Bytes) /\ high \in Seq(Bytes)
      BY <3>2 DEF low, high
    <3>5. QED
      BY <3>3, <3>4
  <2>3. Advance(kept_bytes).remaining = transfer.remaining - kept_bytes
    BY <1>3 DEF Advance
  <2>4. WriteAddress => RemainingGoes
    BY <2>2, <2>3 DEF WriteAddress, RemainingGoes, Busy
  <2>5. QED
    BY <1>2, <2>1, <2>4
<1>7. CASE state \in {"READ_ADDRESS", "READ_DATA", "SEND_QUEUE"}
  <2>1. transfer' = transfer
    BY <1>1, <1>7 DEF MasterDMA_work, ReadAddress, ReadData, SendQueue, Stay
  <2>2. QED
    BY <2>1 DEF RemainingGoes
<1>8. CASE state = "SEND_QUEUE_SECOND"
  <2>1. SendQueueSecond \/ Stay
    BY <1>1, <1>8 DEF MasterDMA_work
  <2>2. DATA_BYTES \in Nat
    BY DataBytes, MasterDMAAssumption
  <2>3. Advance(DATA_BYTES).remaining = transfer.remaining - DATA_BYTES
    BY <1>3 DEF Advance
  <2>4. SendQueueSecond => RemainingGoes
    BY <2>2, <2>3 DEF SendQueueSecond, RemainingGoes, Busy
  <2>5. QED
    BY <1>2, <2>1, <2>4
<1>9. QED
  BY <1>4, <1>5, <1>6, <1>7, <1>8 DEF EngineStates

(* The length of the command offered is that of a packet, or no more.      *)
LEMMA CommandLength ==
  ASSUME TransmitInv, command_valid
  PROVE  \E n \in RxLengths \cup TxLengths \cup {0} : command.length \in Nat /\ command.length <= n
<1>1. /\ RingsHold /\ QueuesHold /\ HandshakeHolds /\ CommandHolds
      /\ Waiting \in Seq(Fragments) /\ TxCommandHolds
  BY DEF TransmitInv, ReceiveInv, SystemInv, FragmentsHold
<1>2. CASE command.direction = "queue to host"
  <2> DEFINE q == command.queue
             s == rx_queue[q].lengths
  <2>1. q \in QUEUES /\ s # << >> /\ command.length = Head(s)
    BY <1>1, <1>2 DEF CommandHolds
  <2>2. s \in Seq(RxLengths)
    BY <1>1, <2>1 DEF QueuesHold, QueueHolds
  <2> HIDE DEF s
  <2>3. Head(s) \in RxLengths
    BY <2>1, <2>2
  <2>4. command.length \in RxLengths /\ command.length \in Nat
    BY <2>1, <2>3, SystemAssumption
  <2>5. QED
    BY <2>4
<1>3. CASE command.direction = "host to queue"
  <2>1. TxWaiting /\ tx_ring[tx_consumer].bytes = command.bytes
        /\ command.length = Len(command.bytes)
    BY <1>1, <1>3 DEF HandshakeHolds, OneCommand, TxCommandHolds
  <2>2. tx_ring[tx_consumer] \in Fragments
    BY <1>1, <2>1, HeadIs DEF HeadWaits
  <2>3. command.bytes \in Seq(Bytes) /\ \E n \in TxLengths : Len(command.bytes) <= n
    BY <2>1, <2>2 DEF Fragments
  <2>4. QED
    BY <2>1, <2>3
<1>4. QED
  BY <1>1, <1>2, <1>3 DEF TxCommandHolds

(* The length that remains never underflows. *)
LEMMA RemainingKept ==
  ASSUME LengthsAccepted, TransmitInv, TransmitInv', RemainingFits, [Next]_vars
  PROVE  RemainingFits'
<1> DEFINE L == RxLengths \cup TxLengths \cup {0}
           r == transfer.remaining
<1>1. L \subseteq Nat
  <2>1. ASSUME NEW split \in TxSplits
        PROVE  Last(split) \in Nat
    <3>1. split \in Seq(Nat \ {0}) \ {<< >>}
      BY SystemAssumption
    <3>2. Len(split) \in 1 .. Len(split)
      BY <3>1
    <3>3. QED
      BY <3>2, SplitEnds DEF Last
  <2>2. TxLengths \subseteq Nat
    BY <2>1 DEF TxLengths
  <2>3. QED
    BY <2>2, SystemAssumption
<1>2. PICK n \in L : r \in 0 .. n
  BY DEF RemainingFits
<1>3. CASE UNCHANGED vars
  <2>1. transfer' = transfer
    BY <1>3 DEF vars, dmaVars
  <2>2. QED
    BY <2>1 DEF RemainingFits
<1>4. CASE Next
  <2>1. PICK bus, host_ready, takes, offers, stale :
          DriverDoes(bus) /\ Edge(bus, offers, takes, host_ready, stale)
    BY <1>4, DriverAtStep DEF TransmitInv, ReceiveInv
  <2>2. RemainingGoes
    BY <2>1, RemainingAtEdge DEF TransmitInv, ReceiveInv, SystemInv, HandshakeHolds
  <2>3. CASE transfer'.remaining = r
    BY <2>3 DEF RemainingFits
  <2>4. CASE command_valid /\ transfer'.remaining = command.length
    <3>1. PICK m \in L : command.length \in Nat /\ command.length <= m
      BY <2>4, CommandLength
    <3>2. command.length \in 0 .. m
      BY <1>1, <3>1
    <3>3. QED
      BY <2>4, <3>2 DEF RemainingFits
  <2>5. CASE Busy' /\ \E k \in Nat : transfer'.remaining = r - k
    <3>1. transfer'.remaining \in Nat
      <4>1. CASE ToHost'
        BY <2>5, <4>1 DEF TransmitInv, ReceiveInv, EngineHolds, MidPacket
      <4>2. CASE ~ToHost'
        <5>1. SendShape'
          BY <2>5, <4>2 DEF TransmitInv, EngineSends, Sending
        <5>2. QED
          BY <5>1 DEF SendShape
      <4>3. QED
        BY <4>1, <4>2
    <3>2. n \in Nat /\ r \in 0 .. n
      BY <1>1, <1>2
    <3> DEFINE rest == transfer'.remaining
    <3>3. rest \in Nat /\ \E k \in Nat : rest = r - k
      BY <2>5, <3>1
    <3> HIDE DEF rest, r
    <3>4. rest \in 0 .. n
      BY <3>2, <3>3
    <3>5. QED
      BY <3>4 DEF RemainingFits, rest
  <2>6. QED
    BY <2>2, <2>3, <2>4, <2>5 DEF RemainingGoes
<1>5. QED
  BY <1>3, <1>4

(* Ring indices stay in the ring, the remaining length never underflows,   *)
(* and no queue exceeds its depth.                                         *)
THEOREM HostSideTypes ==
  ASSUME LengthsAccepted
  PROVE  Spec => []TypeOK
<1>1. SystemInit => TransmitInv /\ RemainingFits
  <2>1. ASSUME SystemInit
        PROVE  transfer.remaining = 0
    <3>1. transfer = [address |-> 0, remaining |-> 0, sop |-> FALSE,
                      eop |-> FALSE, first_beat |-> FALSE]
      BY <2>1 DEF SystemInit, DMAInit
    <3>2. QED
      BY <3>1
  <2>2. SystemInit => RemainingFits
    BY <2>1 DEF RemainingFits
  <2>3. QED
    BY <2>2, TransmitInit
<1>2. TransmitInv /\ RemainingFits /\ [Next]_vars => TransmitInv' /\ RemainingFits'
  BY TransmitStep, RemainingKept
<1>3. TransmitInv /\ RemainingFits => TypeOK
  BY DEF TransmitInv, ReceiveInv, SystemInv, RingsHold, CommandHolds, EngineHolds,
         EngineShape, TxQueuesHold, QueueFits, RemainingFits, TypeOK
<1>4. QED
  BY <1>1, <1>2, <1>3, PTL DEF Spec

-----------------------------------------------------------------------------
(* Lengths, and whole packets.                                             *)

(* The lengths that a queue tells are those of the packets in it. *)
THEOREM LengthsAreRight ==
  ASSUME LengthsAccepted
  PROVE  Spec => []QueueLengths
<1>1. SystemInit => TransmitInv
  BY TransmitInit
<1>2. TransmitInv /\ [Next]_vars => TransmitInv'
  BY TransmitStep
<1>3. TransmitInv => QueueLengths
  <2>1. SUFFICES ASSUME TransmitInv, NEW q \in QUEUES
                 PROVE  LengthsOf(rx_queue[q], BytesRead(q)) /\ LengthsOf(tx_queue[q], tx_sink[q])
    BY DEF QueueLengths
  <2>2. /\ QueueSound(rx_queue[q], BytesRead(q), Bytes)
        /\ QueueSound(tx_queue[q], tx_sink[q], Bytes)
    BY <2>1 DEF TransmitInv, ReceiveInv, ReceiveQueue, TxQueuesHold, TransmitQueue
  <2>3. \A p, read : QueueSound(p, read, Bytes) => LengthsOf(p, read)
    BY DEF QueueSound, LengthsOf, LengthsIn, Cut, Queued
  <2>4. QED
    BY <2>2, <2>3
<1>4. QED
  BY <1>1, <1>2, <1>3, PTL DEF Spec

(* A packet begins to leave a queue when all of it is there. *)
LEMMA WholePacketsLeave ==
  ASSUME TransmitInv
  PROVE  StoreAndForward
<1>1. ASSUME NEW q \in QUEUES, tx_sink[q] # << >>
      PROVE  ~empty(tx_queue[q])
  <2> DEFINE s == Queued(tx_queue[q], tx_sink[q]).packets
  <2>1. QueueSound(tx_queue[q], tx_sink[q], Bytes) /\ s # << >>
    BY <1>1 DEF TransmitInv, TxQueuesHold, TransmitQueue
  <2>2. tx_queue[q].packet_count = Len(s) /\ s \in Seq(Seq(Bytes))
    BY <2>1, QueuedType DEF QueueSound
  <2> HIDE DEF s
  <2>3. Len(s) # 0
    BY <2>1, <2>2
  <2>4. QED
    BY <2>2, <2>3 DEF empty
<1>2. ASSUME queue_input_ready
      PROVE  ~empty(rx_queue[queue])
  <2> DEFINE q == queue
             s == Queued(rx_queue[q], BytesRead(q)).packets
  <2>1. /\ q \in QUEUES /\ Busy /\ ToHost /\ ~completion_valid
        /\ RxPackets(q) # << >>
    BY <1>2 DEF TransmitInv, ReceiveInv, EngineHolds, EngineShape, MidPacket,
                queue_input_ready, Busy
  <2>2. HeldSound /\ DataSound /\ PathSound
    BY SoundNow DEF TransmitInv
  <2>3. Held(q).packets = << >>
    <3>1. Held(q) = HeldBy(q)
      BY <2>1, <2>2 DEF HeldSound
    <3>2. HeldBy(q).packets = << >>
      BY <1>2, <2>1 DEF HeldBy, Begun, queue_input_ready
    <3>3. QED
      BY <3>1, <3>2
  <2>4. QueueSound(rx_queue[q], BytesRead(q), Bytes)
    BY <2>1 DEF TransmitInv, ReceiveInv, ReceiveQueue
  <2>5. rx_queue[q].packet_count = Len(s) /\ s \in Seq(Seq(Bytes))
    BY <2>4, QueuedType DEF QueueSound
  <2>6. RxPackets(q) = Held(q).packets \o s
    BY <2>1, <2>2 DEF PathSound, BytesRead, Held
  <2> HIDE DEF s
  <2>7. << >> \o s = s
    BY <2>5, ConcatEmptySeq
  <2>8. s # << >>
    BY <2>1, <2>3, <2>6, <2>7
  <2>9. Len(s) # 0
    BY <2>5, <2>8
  <2>10. QED
    BY <2>5, <2>9 DEF empty
<1>3. QED
  BY <1>1, <1>2 DEF StoreAndForward

(* Neither the engine nor Processing waits for the other side of a queue   *)
(* in the middle of a packet.                                              *)
THEOREM PacketsAreWhole ==
  ASSUME LengthsAccepted
  PROVE  Spec => []StoreAndForward
<1>1. SystemInit => TransmitInv
  BY TransmitInit
<1>2. TransmitInv /\ [Next]_vars => TransmitInv'
  BY TransmitStep
<1>3. TransmitInv => StoreAndForward
  BY WholePacketsLeave
<1>4. QED
  BY <1>1, <1>2, <1>3, PTL DEF Spec

-----------------------------------------------------------------------------
(* Errors.                                                                 *)

(* The buffers posted are for queues there are, and hold any packet. *)
BuffersFit ==
  \A d \in RxDescriptors : d.queue \in QUEUES /\ \A n \in RxLengths : n <= d.length

(* Completions answer the command there is, and move a consumer that waits. *)
RightlyDone(done) ==
  /\ done.valid => ~Stray(done)
  /\ rx_consumer' = IF completion_valid /\ ToHost THEN After(rx_consumer) ELSE rx_consumer
  /\ completion_valid /\ ToHost => RxWaiting

(* So they do. *)
LEMMA CompletionsRight ==
  ASSUME HandshakeHolds,
         NEW done, done.valid = completion_valid, done.queue = queue, done.direction = direction,
         Complete(done)
  PROVE  RightlyDone(done)
<1>1. /\ completion_valid => dma_active
      /\ dma_active => /\ queue = command.queue /\ direction = command.direction
                       /\ active_direction = direction
  BY DEF HandshakeHolds, OneCommand
<1>2. done.valid => ~Stray(done)
  BY <1>1 DEF Stray
<1>3. rx_consumer' = IF completion_valid /\ ToHost THEN After(rx_consumer) ELSE rx_consumer
  BY <1>1, <1>2 DEF Complete, ToHost
<1>4. completion_valid /\ ToHost => RxWaiting
  BY <1>1 DEF HandshakeHolds, OneCommand, ToHost
<1>5. QED
  BY <1>2, <1>3, <1>4 DEF RightlyDone

(* What waits in the receive ring is what the driver posted. *)
LEMMA BuffersPosted ==
  ASSUME RingsHold, RingsKeep, RxBuffers \in Seq(RxDescriptors),
         NEW bus, HostWrite(bus), DriverDoes(bus), NEW done, RightlyDone(done)
  PROVE  RxBuffers' \in Seq(RxDescriptors)
<1> DEFINE F == RxDescriptors
           d == bus.descriptor
           M == PostedIn(rx_ring', rx_producer', rx_consumer)
<1>1. /\ rx_producer \in Slots /\ rx_consumer \in Slots /\ DOMAIN rx_ring = Slots
      /\ rx_producer' \in Slots
  BY DEF RingsHold, RingsKeep
<1>2. PostedIn(rx_ring, rx_producer, rx_consumer) \in Seq(F)
  BY DEF RxBuffers
<1>3. M \in Seq(F)
  <2>1. CASE bus.op = "post rx"
    <3>1. /\ rx_ring' = [rx_ring EXCEPT ![rx_producer] = d] /\ rx_producer' = After(rx_producer)
          /\ MayPost(rx_producer, rx_consumer) /\ d \in F
      BY <2>1 DEF HostWrite, DriverDoes, RoomFor
    <3> HIDE DEF F, d
    <3>2. Behind(rx_ring', rx_ring, rx_producer, rx_consumer, d)
      BY <1>1, <1>2, <3>1, RingPost
    <3>3. Append(PostedIn(rx_ring, rx_producer, rx_consumer), d) \in Seq(F)
      BY <1>2, <3>1, AppendProperties
    <3>4. QED
      BY <3>1, <3>2, <3>3 DEF Behind
  <2>2. CASE bus.op # "post rx"
    BY <1>2, <2>2 DEF HostWrite
  <2>3. QED
    BY <2>1, <2>2
<1>4. CASE completion_valid /\ ToHost
  <2>1. rx_consumer' = After(rx_consumer) /\ rx_producer' # rx_consumer
    BY <1>4 DEF RightlyDone, RingsKeep
  <2> HIDE DEF F
  <2>2. PostedIn(rx_ring', rx_producer', After(rx_consumer)) = Tail(M)
    BY <1>1, <1>3, <2>1, RingConsume
  <2>3. M # << >>
    <3>1. Listed(M, rx_ring', rx_producer', rx_consumer, F)
      BY <1>1, <1>3, PostedInIs
    <3>2. QED
      BY <2>1, <3>1 DEF Listed
  <2> HIDE DEF M
  <2>4. Tail(M) \in Seq(F)
    BY <1>3, <2>3, TailIs
  <2>5. QED
    BY <2>1, <2>2, <2>4 DEF RxBuffers, F
<1>5. CASE ~(completion_valid /\ ToHost)
  BY <1>3, <1>5 DEF RightlyDone, RxBuffers
<1>6. QED
  BY <1>4, <1>5

(* The buffer at the consumer is for a queue there is, and holds the       *)
(* packet that its queue shows, or showed last.                            *)
LEMMA BufferRight ==
  ASSUME BuffersFit, RingsHold, QueuesHold, RxBuffers \in Seq(RxDescriptors), RxWaiting,
         NEW stale \in RxLengths \cup {0}
  PROVE  ~RxBad(rx_packet_length(stale))
<1> DEFINE d == rx_ring[rx_consumer]
           q == d.queue
           n == RxLength(rx_packet_length(stale))
<1>1. d \in RxDescriptors
  <2>1. Listed(RxBuffers, rx_ring, rx_producer, rx_consumer, RxDescriptors)
    BY PostedInIs DEF RingsHold, RxBuffers
  <2>2. QED
    BY <2>1 DEF Listed, RxWaiting
<1>2. q \in QUEUES /\ \A m \in RxLengths : m <= d.length
  BY <1>1 DEF BuffersFit
<1>3. n \in RxLengths \cup {0}
  <2> DEFINE s == rx_queue[q].lengths
  <2>1. n = IF s = << >> THEN stale ELSE Head(s)
    BY <1>2 DEF RxLength, rx_packet_length
  <2>2. s \in Seq(RxLengths)
    BY <1>2 DEF QueuesHold, QueueHolds
  <2> HIDE DEF s, n
  <2>3. QED
    BY <2>1, <2>2
<1>4. n \in Nat /\ d.length \in Nat
  <2>1. RxLengths \subseteq Nat /\ RxDescriptors \subseteq [queue : Nat, length : Nat]
    BY SystemAssumption
  <2> HIDE DEF n, d
  <2>2. n \in Nat
    BY <1>3, <2>1
  <2>3. d \in [queue : Nat, length : Nat]
    BY <1>1, <2>1
  <2>4. QED
    BY <2>2, <2>3
<1>5. ~(n # 0 /\ d.length < n)
  <2>1. n # 0 => n \in RxLengths
    BY <1>3
  <2>2. n # 0 => n <= d.length
    BY <1>2, <2>1
  <2> DEFINE l == d.length
  <2>3. n \in Nat /\ l \in Nat /\ (n # 0 => n <= l)
    BY <1>4, <2>2
  <2> HIDE DEF n, l
  <2>4. ~(n # 0 /\ l < n)
    BY <2>3
  <2>5. QED
    BY <2>4 DEF l
<1>6. QED
  BY <1>2, <1>5 DEF RxBad

(* The fragment at the consumer is for a queue there is, and goes on with  *)
(* the packet the controller is in.                                        *)
LEMMA FragmentRight ==
  ASSUME RingsHold, FragmentsHold, ~dma_active, TxWaiting
  PROVE  ~TxBad
<1> DEFINE d == tx_ring[tx_consumer]
<1>1. Waiting \in Seq(Fragments) /\ ~Taking /\ Untaken = Waiting
  BY DEF FragmentsHold, Taking, Untaken
<1>2. HeadWaits
  BY <1>1, HeadIs
<1>3. Waiting # << >> /\ Head(Waiting) = d /\ d \in Fragments
  BY <1>2 DEF HeadWaits
<1>4. Chain(tx_packet_start, tx_packet_queue, Waiting, tx_posting = NoPosting, tx_posting.queue)
  BY <1>1 DEF FragmentsHold
<1>5. tx_packet_start \/ Head(Waiting).queue = tx_packet_queue
  <2> DEFINE last == tx_posting = NoPosting
             r == tx_posting.queue
             F == Fragments
             w == Waiting
  <2>1. Chain(tx_packet_start, tx_packet_queue, w, last, r) /\ w \in Seq(F) /\ w # << >>
    BY <1>1, <1>3, <1>4
  <2> HIDE DEF last, r, F, w
  <2>2. tx_packet_start \/ Head(w).queue = tx_packet_queue
    BY <2>1, ChainHead
  <2>3. QED
    BY <2>2 DEF w
<1>6. d.queue \in QUEUES
  BY <1>3 DEF Fragments
<1>7. QED
  BY <1>3, <1>5, <1>6 DEF TxBad, TxOther

(* No step raises the controller's error. *)
LEMMA ErrorFreeKept ==
  ASSUME LengthsAccepted, BuffersFit, TransmitInv, ErrorFree, [Next]_vars
  PROVE  ErrorFree'
<1>1. RingsHold /\ QueuesHold /\ HandshakeHolds /\ FragmentsHold /\ SystemInv
  BY DEF TransmitInv, ReceiveInv, SystemInv
<1>2. CASE UNCHANGED vars
  <2>1. RxBuffers' = RxBuffers /\ protocol_error' = protocol_error
    BY <1>2 DEF vars, ctlVars, rxVars, RxBuffers, PostedIn
  <2>2. QED
    BY <2>1 DEF ErrorFree
<1>3. CASE Next
  <2>0. PICK bus, host_ready, takes : \E offers \in Offers, stale \in Stale :
          DriverDoes(bus) /\ Edge(bus, offers, takes, host_ready, stale)
    BY <1>1, <1>3, DriverAtStep
  <2>1. PICK offers \in Offers, stale \in Stale :
          DriverDoes(bus) /\ Edge(bus, offers, takes, host_ready, stale)
    BY <2>0
  <2> DEFINE done == [valid |-> completion_valid, queue |-> queue, direction |-> direction]
             rx_empty == [q \in QUEUES |-> empty(rx_queue[q])]
             tx_full == [q \in QUEUES |-> full(tx_queue[q])]
             lengths == rx_packet_length(stale)
  <2>2. Controller_work(bus, command_ready, done, rx_empty, lengths, tx_full)
    BY <2>1 DEF Edge
  <2>3. stale \in RxLengths \cup {0}
    BY <2>1 DEF Stale
  <2>4. MayIssue(bus) /\ RxWaiting => ~RxBad(lengths)
    BY <1>1, <2>3, BufferRight DEF ErrorFree
  <2>5. MayIssue(bus) /\ TxWaiting => ~TxBad
    BY <1>1, FragmentRight DEF MayIssue
  <2>6. /\ done.valid = completion_valid /\ done.queue = queue /\ done.direction = direction
    OBVIOUS
  <2> HIDE DEF done, rx_empty, tx_full, lengths
  <2>7. RightlyDone(done)
    BY <1>1, <2>2, <2>6, CompletionsRight DEF Controller_work
  <2>8. protocol_error' = FALSE
    <3>1. protocol_error' <=> \/ protocol_error
                              \/ done.valid /\ Stray(done)
                              \/ MayIssue(bus) /\ RxWaiting /\ RxBad(lengths)
                              \/ MayIssue(bus) /\ ~RxWaiting /\ TxWaiting /\ TxBad
      BY <2>2 DEF Controller_work
    <3>2. protocol_error' \in BOOLEAN
      BY <2>2 DEF Controller_work
    <3>3. QED
      BY <2>4, <2>5, <2>7, <3>1, <3>2 DEF RightlyDone, ErrorFree
  <2>9. RxBuffers' \in Seq(RxDescriptors)
    <3>1. HostWrite(bus)
      BY <2>2 DEF Controller_work
    <3>2. RingsKeep
      BY <1>1, <2>1, <3>1, RingsAtEdge DEF DriverDoes
    <3>3. QED
      BY <1>1, <2>1, <2>7, <3>1, <3>2, BuffersPosted DEF ErrorFree
  <2>10. QED
    BY <2>8, <2>9 DEF ErrorFree
<1>4. QED
  BY <1>2, <1>3

(* With buffers that hold any packet, and fragments the driver cuts as it  *)
(* should, neither controller, engine nor queue raises an error.           *)
THEOREM NoErrors ==
  ASSUME LengthsAccepted, BuffersFit
  PROVE  Spec => []NoError
<1>1. SystemInit => TransmitInv /\ ErrorFree
  <2>1. ASSUME SystemInit
        PROVE  ErrorFree
    <3>1. rx_producer = 0 /\ rx_consumer = 0 /\ protocol_error = FALSE
      BY <2>1 DEF SystemInit, ControllerInit
    <3>2. Posted(0, 0) = 0
      BY PostedIs, RingAssumption DEF Slots
    <3>3. RxBuffers = << >>
      BY <3>1, <3>2 DEF RxBuffers, PostedIn
    <3>4. << >> \in Seq(RxDescriptors)
      OBVIOUS
    <3>5. QED
      BY <3>1, <3>3, <3>4 DEF ErrorFree
  <2>2. QED
    BY <2>1, TransmitInit
<1>2. TransmitInv /\ ErrorFree /\ [Next]_vars => TransmitInv' /\ ErrorFree'
  BY TransmitStep, ErrorFreeKept
<1>3. TransmitInv /\ ErrorFree => NoError
  <2>1. SUFFICES ASSUME TransmitInv, ErrorFree PROVE NoError
    OBVIOUS
  <2>2. ~protocol_error /\ ~dma_error
    BY <2>1 DEF ErrorFree, TransmitInv, ReceiveInv, EngineHolds
  <2>3. \A q \in QUEUES : /\ QueueSound(rx_queue[q], BytesRead(q), Bytes)
                          /\ QueueSound(tx_queue[q], tx_sink[q], Bytes)
    BY <2>1 DEF TransmitInv, ReceiveInv, ReceiveQueue, TxQueuesHold, TransmitQueue
  <2>4. \A q \in QUEUES : rx_queue[q].protocol_error = FALSE /\ tx_queue[q].protocol_error = FALSE
    BY <2>3 DEF QueueSound
  <2>5. QED
    BY <2>2, <2>4 DEF NoError
<1>4. QED
  BY <1>1, <1>2, <1>3, PTL DEF Spec
=============================================================================
