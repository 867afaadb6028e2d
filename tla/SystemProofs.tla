---------------------------- MODULE SystemProofs ----------------------------
(***************************************************************************)
(* Proofs about System, for every depth of rings and queues, every set of  *)
(* queues, descriptors and packet lengths that the engine accepts.         *)
(***************************************************************************)
EXTENDS System, SequenceTheorems, TLAPS

(* The lengths the engine does not drop, and that all lengths are such.    *)
Accepted == {n \in Nat \ {0} : n % ALIGNMENT = 0}

LengthsAccepted ==
  /\ RxLengths \subseteq Accepted
  /\ \A split \in TxSplits : \A i \in DOMAIN split :
        split[i] - (IF i = 1 THEN 0 ELSE split[i - 1]) \in Accepted

-----------------------------------------------------------------------------
(* The inductive invariant.                                                *)

EngineStates ==
  {"IDLE", "WAIT_QUEUE", "WAIT_QUEUE_SECOND", "WRITE_ADDRESS",
   "READ_ADDRESS", "READ_DATA", "SEND_QUEUE", "SEND_QUEUE_SECOND"}

RingsHold ==
  /\ rx_producer \in Slots /\ rx_consumer \in Slots
  /\ tx_producer \in Slots /\ tx_consumer \in Slots
  /\ DOMAIN rx_ring = Slots /\ \A i \in Slots : rx_ring[i] \in [queue : Nat, length : Nat]
  /\ DOMAIN tx_ring = Slots
  /\ \A i \in Slots : Len(tx_ring[i].bytes) \in {0} \cup Accepted

(* A queue knows its packets by their lengths, and what of the packet that *)
(* comes in is not there yet makes up a packet's length with what is.      *)
QueueHolds(p, source) ==
  /\ DOMAIN p = {"data", "lengths", "assembling", "assembling_length",
                "packet_count", "protocol_error"}
  /\ p.lengths \in Seq(RxLengths) /\ p.packet_count = Len(p.lengths)
  /\ p.assembling_length \in Nat
  /\ source \in Seq(QUEUES \X Nat \X Nat)
  /\ source # << >> => p.assembling_length + Len(source) \in RxLengths

QueuesHold ==
  /\ DOMAIN rx_queue = QUEUES /\ DOMAIN rx_source = QUEUES
  /\ \A q \in QUEUES : QueueHolds(rx_queue[q], rx_source[q])

PostingHolds ==
  tx_posting # NoPosting =>
    /\ tx_posting \in [queue : TxQueues, split : TxSplits, posted : Nat \ {0}]
    /\ tx_posting.posted < Len(tx_posting.split)

HandshakeHolds ==
  /\ command_valid \in BOOLEAN /\ dma_active \in BOOLEAN /\ completion_valid \in BOOLEAN
  /\ state \in EngineStates
  /\ command_valid => command.length \in Accepted
  /\ OneCommand

SystemInv == RingsHold /\ QueuesHold /\ PostingHolds /\ HandshakeHolds

-----------------------------------------------------------------------------
(* Arithmetic of rings and lengths.                                        *)

(* The smaller of two lengths.                                             *)
LEMMA MinOf ==
  ASSUME NEW a \in Nat, NEW b \in Nat
  PROVE  Min({a, b}) = IF a <= b THEN a ELSE b
BY DEF Min

(* The start of a sequence has the length that was asked for.              *)
LEMMA PrefixLength ==
  ASSUME NEW S, NEW s \in Seq(S), NEW n \in Nat
  PROVE  Len(SubSeq(s, 1, n)) = n
OBVIOUS

(* A ring index stays in the ring.                                         *)
LEMMA AfterType ==
  ASSUME NEW i \in Slots
  PROVE  After(i) \in Slots
BY RingAssumption DEF Slots, After

(* A producer with a slot to spare does not run into the consumer.         *)
LEMMA RoomMeansApart ==
  ASSUME NEW p \in Slots, NEW c \in Slots, MayPost(p, c)
  PROVE  After(p) # c
BY RingAssumption DEF Slots, After, MayPost, Posted

(* The bytes of a packet are a sequence of its length.                     *)
LEMMA PayloadType ==
  ASSUME NEW Q, NEW q \in Q, NEW n \in Nat
  PROVE  Payload(q, n) \in Seq(Q \X Nat \X Nat) /\ Len(Payload(q, n)) = n
BY DEF Payload

(* n bytes are f in a beat and r that are left for other beats.            *)
Splits(n, f, r) ==
  /\ f \in Nat /\ r \in Nat
  /\ n <= QUEUE_DATA_BYTES => r = 0 /\ f = n
  /\ ~(n <= QUEUE_DATA_BYTES) => f + r = n

(* A beat takes what fits.                                                 *)
LEMMA BeatSplits ==
  ASSUME NEW n \in Nat, NEW f, NEW r,
         f = IF QUEUE_DATA_BYTES <= n THEN QUEUE_DATA_BYTES ELSE n,
         r = IF QUEUE_DATA_BYTES + 1 <= n THEN n - QUEUE_DATA_BYTES ELSE 0
  PROVE  Splits(n, f, r)
<1>1. QUEUE_DATA_BYTES \in Nat
  BY MasterDMAAssumption
<1>2. QED
  BY <1>1 DEF Splits

-----------------------------------------------------------------------------
(* Queues.                                                                 *)

(* A beat that ends the packet makes its length up; another one leaves a   *)
(* rest that will.                                                         *)
GoesOn(assembled, offer) ==
  LET length == (IF offer.beat.sop THEN 0 ELSE assembled) + Len(offer.beat.bytes)
  IN  /\ length \in Nat
      /\ offer.rest \in Seq(QUEUES \X Nat \X Nat)
      /\ offer.beat.eop => offer.rest = << >> /\ length \in RxLengths
      /\ ~offer.beat.eop => length + Len(offer.rest) \in RxLengths

(* What Processing offers is the next beat of a packet.                    *)
LEMMA OfferedBeat ==
  ASSUME NEW q \in QUEUES, NEW p, QueueHolds(p, rx_source[q]),
         NEW offer \in NextBeats(q)
  PROVE  GoesOn(p.assembling_length, offer)
<1> DEFINE S == QUEUES \X Nat \X Nat
           first(s) == SubSeq(s, 1, Min({QUEUE_DATA_BYTES, Len(s)}))
           rest(s) == SubSeq(s, QUEUE_DATA_BYTES + 1, Len(s))
           offered(s, sop) == [beat |-> [bytes |-> first(s), sop |-> sop,
                                         eop |-> Len(s) <= QUEUE_DATA_BYTES],
                               rest |-> rest(s)]
<1>1. ASSUME NEW s \in Seq(S), s # << >>
      PROVE  /\ rest(s) \in Seq(S) /\ (Len(rest(s)) = 0 => rest(s) = << >>)
             /\ Splits(Len(s), Len(first(s)), Len(rest(s)))
  <2>1. Len(s) \in Nat /\ QUEUE_DATA_BYTES \in Nat \ {0}
    BY MasterDMAAssumption, <1>1
  <2>2. Min({QUEUE_DATA_BYTES, Len(s)}) =
          IF QUEUE_DATA_BYTES <= Len(s) THEN QUEUE_DATA_BYTES ELSE Len(s)
    BY <2>1, MinOf
  <2>3. Len(first(s)) = IF QUEUE_DATA_BYTES <= Len(s) THEN QUEUE_DATA_BYTES ELSE Len(s)
    BY <2>1, <2>2, <1>1, PrefixLength
  <2>4. rest(s) \in Seq(S)
        /\ Len(rest(s)) = IF QUEUE_DATA_BYTES + 1 <= Len(s)
                          THEN Len(s) - QUEUE_DATA_BYTES ELSE 0
    BY <2>1, <1>1
  <2>5. Len(rest(s)) = 0 => rest(s) = << >>
    BY <2>4
  <2>6. Splits(Len(s), Len(first(s)), Len(rest(s)))
    BY <2>1, <2>3, <2>4, BeatSplits
  <2>7. QED
    BY <2>4, <2>5, <2>6
<1>2. \/ rx_source[q] # << >> /\ offer = offered(rx_source[q], FALSE)
      \/ \E n \in RxLengths : offer = offered(Payload(q, n), TRUE)
  BY DEF NextBeats
<1>3. /\ p.assembling_length \in Nat /\ rx_source[q] \in Seq(S)
      /\ rx_source[q] # << >> => p.assembling_length + Len(rx_source[q]) \in RxLengths
  BY DEF QueueHolds
<1>4. \A n \in RxLengths : /\ n \in Nat \ {0} /\ Payload(q, n) \in Seq(S)
                           /\ Len(Payload(q, n)) = n /\ Payload(q, n) # << >>
  <2>1. ASSUME NEW n \in RxLengths
        PROVE  /\ n \in Nat \ {0} /\ Payload(q, n) \in Seq(S)
               /\ Len(Payload(q, n)) = n
    BY SystemAssumption, PayloadType
  <2>2. QED
    BY <2>1
<1>5. ASSUME NEW s \in Seq(S), s # << >>, NEW sop \in BOOLEAN, NEW before \in Nat,
             before = (IF sop THEN 0 ELSE p.assembling_length),
             before + Len(s) \in RxLengths, offer = offered(s, sop)
      PROVE  GoesOn(p.assembling_length, offer)
  <2>1. /\ offer.beat.sop = sop /\ offer.rest = rest(s) /\ offer.beat.bytes = first(s)
        /\ offer.beat.eop = (Len(s) <= QUEUE_DATA_BYTES)
    BY <1>5
  <2> HIDE DEF first, rest, S, offered
  <2>2. /\ rest(s) \in Seq(S) /\ (Len(rest(s)) = 0 => rest(s) = << >>)
        /\ Splits(Len(s), Len(first(s)), Len(rest(s)))
    BY <1>1, <1>5
  <2> DEFINE n == Len(s)
             f == Len(first(s))
             r == Len(rest(s))
  <2>3. n \in Nat
    BY <1>5
  <2> HIDE DEF n, f, r
  <2>4. /\ before + f \in Nat
        /\ n <= QUEUE_DATA_BYTES => r = 0 /\ before + f \in RxLengths
        /\ ~(n <= QUEUE_DATA_BYTES) => (before + f) + r \in RxLengths
    <3>1. f \in Nat /\ r \in Nat
      BY <2>2 DEF Splits, f, r
    <3>2. n <= QUEUE_DATA_BYTES => r = 0 /\ f = n
      BY <2>2 DEF Splits, f, r, n
    <3>3. ~(n <= QUEUE_DATA_BYTES) => f + r = n
      BY <2>2 DEF Splits, f, r, n
    <3>4. before + n \in RxLengths
      BY <1>5 DEF n
    <3>5. (before + f) + r = before + (f + r)
      BY <3>1
    <3>6. QED
      BY <3>1, <3>2, <3>3, <3>4, <3>5
  <2>5. QED
    BY <1>5, <2>1, <2>2, <2>4 DEF GoesOn, S, n, f, r
<1>6. CASE rx_source[q] # << >> /\ offer = offered(rx_source[q], FALSE)
  BY <1>3, <1>5, <1>6
<1>7. ASSUME NEW n \in RxLengths, offer = offered(Payload(q, n), TRUE)
      PROVE  GoesOn(p.assembling_length, offer)
  <2>1. 0 + Len(Payload(q, n)) \in RxLengths
    BY <1>4
  <2>2. QED
    BY <1>4, <1>5, <1>7, <2>1
<1>8. QED
  BY <1>2, <1>6, <1>7

(* A beat that is taken keeps a queue's lengths those of its packets.      *)
LEMMA WriteBeatHolds ==
  ASSUME NEW p, NEW source, QueueHolds(p, source),
         NEW offer, GoesOn(p.assembling_length, offer)
  PROVE  QueueHolds(WriteBeat(p, offer.beat), offer.rest)
<1> DEFINE length == (IF offer.beat.sop THEN 0 ELSE p.assembling_length)
                       + Len(offer.beat.bytes)
           w == WriteBeat(p, offer.beat)
<1>1. /\ DOMAIN w = DOMAIN p
      /\ w.lengths = IF offer.beat.eop THEN Append(p.lengths, length) ELSE p.lengths
      /\ w.assembling_length = IF offer.beat.eop THEN 0 ELSE length
      /\ w.packet_count = IF offer.beat.eop THEN p.packet_count + 1 ELSE p.packet_count
  BY DEF QueueHolds, WriteBeat
<1>2. /\ length \in Nat /\ offer.rest \in Seq(QUEUES \X Nat \X Nat)
      /\ offer.beat.eop => offer.rest = << >> /\ length \in RxLengths
      /\ ~offer.beat.eop => length + Len(offer.rest) \in RxLengths
  BY DEF GoesOn
<1>3. p.lengths \in Seq(RxLengths) /\ p.packet_count = Len(p.lengths)
  BY DEF QueueHolds
<1> HIDE DEF length
<1>4. CASE offer.beat.eop
  <2>1. w.lengths = Append(p.lengths, length) /\ w.packet_count = p.packet_count + 1
        /\ w.assembling_length = 0
    BY <1>1, <1>4
  <2>2. w.lengths \in Seq(RxLengths) /\ w.packet_count = Len(w.lengths)
    BY <1>2, <1>3, <1>4, <2>1
  <2>3. QED
    BY <1>1, <1>2, <1>4, <2>1, <2>2 DEF QueueHolds
<1>5. CASE ~offer.beat.eop
  <2>1. w.lengths = p.lengths /\ w.packet_count = p.packet_count
        /\ w.assembling_length = length
    BY <1>1, <1>5
  <2>2. QED
    BY <1>1, <1>2, <1>3, <1>5, <2>1 DEF QueueHolds
<1>6. QED
  BY <1>4, <1>5

(* So does one that is read.                                               *)
LEMMA ReadBeatHolds ==
  ASSUME NEW p, NEW source, QueueHolds(p, source), p.lengths # << >>
  PROVE  QueueHolds(ReadBeat(p), source)
<1> DEFINE eop == Head(p.data).eop
           r == ReadBeat(p)
<1>1. /\ DOMAIN r = DOMAIN p
      /\ r.lengths = IF eop THEN Tail(p.lengths) ELSE p.lengths
      /\ r.assembling_length = p.assembling_length
      /\ r.packet_count = IF eop /\ p.packet_count # 0 THEN p.packet_count - 1
                          ELSE p.packet_count
  BY DEF QueueHolds, ReadBeat
<1> HIDE DEF eop
<1>2. p.lengths \in Seq(RxLengths) /\ p.packet_count = Len(p.lengths)
      /\ p.assembling_length \in Nat
  BY DEF QueueHolds
<1>3. /\ Tail(p.lengths) \in Seq(RxLengths) /\ p.packet_count # 0
      /\ Len(Tail(p.lengths)) = p.packet_count - 1
  BY <1>2
<1>4. r.lengths \in Seq(RxLengths) /\ r.packet_count = Len(r.lengths)
  BY <1>1, <1>2, <1>3
<1>5. QED
  BY <1>1, <1>2, <1>4 DEF QueueHolds

(* An edge of a receive queue.                                             *)
LEMMA QueueEdgeHolds ==
  ASSUME NEW q \in QUEUES, NEW p, QueueHolds(p, rx_source[q]),
         NEW offer \in NextBeats(q) \cup {NoOffer}, NEW read_ready
  PROVE  QueueHolds(QueueEdge(p, offer.beat, read_ready),
                    IF offer.beat # NoBeat /\ write_ready(p, offer.beat)
                    THEN offer.rest ELSE rx_source[q])
<1> DEFINE taken == offer.beat # NoBeat /\ write_ready(p, offer.beat)
           written == IF taken THEN WriteBeat(p, offer.beat) ELSE p
           source == IF taken THEN offer.rest ELSE rx_source[q]
<1>1. CASE taken
  <2>1. offer \in NextBeats(q)
    BY <1>1 DEF NoOffer
  <2>2. QueueHolds(written, source)
    BY <1>1, <2>1, OfferedBeat, WriteBeatHolds
  <2>3. p.lengths # << >> => written.lengths # << >>
    <3>1. written.lengths =
            IF offer.beat.eop
            THEN Append(p.lengths, (IF offer.beat.sop THEN 0 ELSE p.assembling_length)
                                     + Len(offer.beat.bytes))
            ELSE p.lengths
      BY <1>1 DEF WriteBeat, QueueHolds
    <3>2. p.lengths \in Seq(RxLengths) /\ written.lengths \in Seq(RxLengths)
      BY <2>2 DEF QueueHolds
    <3> DEFINE n == (IF offer.beat.sop THEN 0 ELSE p.assembling_length)
                      + Len(offer.beat.bytes)
    <3>3. Len(Append(p.lengths, n)) = Len(p.lengths) + 1
      BY <3>2
    <3>4. Append(p.lengths, n) # << >>
      BY <3>2, <3>3
    <3>5. QED
      BY <3>1, <3>4
  <2>4. QED
    BY <1>1, <2>2, <2>3, ReadBeatHolds DEF QueueEdge, read_valid
<1>2. CASE ~taken
  BY <1>2, ReadBeatHolds DEF QueueEdge, read_valid
<1>3. QED
  BY <1>1, <1>2

-----------------------------------------------------------------------------
(* The engine.                                                             *)

(* At an edge the engine keeps a command it works on, its completion is    *)
(* the last thing it says of it, and an idle engine starts with a command. *)
EngineGoesOn(offered) ==
  /\ state' \in EngineStates /\ completion_valid' \in BOOLEAN
  /\ Busy => /\ queue' = queue /\ direction' = direction
             /\ Busy' <=> ~completion_valid'
  /\ ~Busy /\ offered = {} =>
       ~Busy' /\ ~completion_valid' /\ queue' = queue /\ direction' = direction
  /\ \A c \in offered : ~Busy =>
       /\ queue' = c.queue /\ direction' = c.direction
       /\ ~completion_valid'
       /\ c.length \in Accepted => Busy'

(* Every edge of the engine goes on like this, whatever its pins show. *)
LEMMA EngineStep ==
  ASSUME NEW offered, NEW in, NEW out_ready, NEW host_ready,
         offered = {} \/ \E c : offered = {c},
         state \in EngineStates,
         MasterDMA_work(offered, in, out_ready, host_ready)
  PROVE  EngineGoesOn(offered)
<1>1. CASE state = "IDLE"
  <2>1. ASSUME NEW c \in offered, AcceptCommand(c)
        PROVE  EngineGoesOn(offered)
    <3>1. offered = {c}
      BY <2>1
    <3>2. c.length \in Accepted => c.length # 0 /\ c.length % ALIGNMENT = 0
      BY DEF Accepted
    <3>3. QED
      BY <1>1, <2>1, <3>1, <3>2 DEF AcceptCommand, EngineGoesOn, EngineStates, Busy
  <2>2. CASE offered = {} /\ Stay
    BY <1>1, <2>2 DEF Stay, EngineGoesOn, EngineStates, Busy
  <2>3. QED
    BY <1>1, <2>1, <2>2 DEF MasterDMA_work
<1>2. ASSUME Stay, state # "IDLE"
      PROVE  EngineGoesOn(offered)
  BY <1>2 DEF Stay, EngineGoesOn, EngineStates, Busy
<1>3. CASE state = "WAIT_QUEUE"
  BY <1>2, <1>3 DEF MasterDMA_work, WaitQueue, EngineGoesOn, EngineStates, Busy
<1>4. CASE state = "WAIT_QUEUE_SECOND"
  BY <1>2, <1>4 DEF MasterDMA_work, WaitQueueSecond, EngineGoesOn, EngineStates, Busy
<1>5. CASE state = "WRITE_ADDRESS"
  BY <1>2, <1>5 DEF MasterDMA_work, WriteAddress, EngineGoesOn, EngineStates, Busy
<1>6. CASE state = "READ_ADDRESS"
  BY <1>2, <1>6 DEF MasterDMA_work, ReadAddress, EngineGoesOn, EngineStates, Busy
<1>7. CASE state = "READ_DATA"
  BY <1>2, <1>7 DEF MasterDMA_work, ReadData, EngineGoesOn, EngineStates, Busy
<1>8. CASE state = "SEND_QUEUE"
  BY <1>2, <1>8 DEF MasterDMA_work, SendQueue, EngineGoesOn, EngineStates, Busy
<1>9. CASE state = "SEND_QUEUE_SECOND"
  BY <1>2, <1>9 DEF MasterDMA_work, SendQueueSecond, EngineGoesOn, EngineStates, Busy
<1>10. QED
  BY <1>1, <1>3, <1>4, <1>5, <1>6, <1>7, <1>8, <1>9 DEF EngineStates

-----------------------------------------------------------------------------
(* The rings.                                                              *)

(* The driver posts only where there is room. *)
RoomFor(bus) ==
  /\ bus.op = "post rx" => /\ MayPost(rx_producer, rx_consumer)
                           /\ bus.descriptor \in [queue : Nat, length : Nat]
  /\ bus.op = "post tx" => /\ MayPost(tx_producer, tx_consumer)
                           /\ Len(bus.descriptor.bytes) \in Accepted

(* A descriptor that waits stays at its slot, and goes on waiting, until   *)
(* its consumer moves.                                                     *)
RingsKeep ==
  /\ rx_producer' \in Slots /\ tx_producer' \in Slots
  /\ DOMAIN rx_ring' = Slots
  /\ \A i \in Slots : rx_ring'[i] \in [queue : Nat, length : Nat]
  /\ DOMAIN tx_ring' = Slots
  /\ \A i \in Slots : Len(tx_ring'[i].bytes) \in {0} \cup Accepted
  /\ RxWaiting => /\ rx_producer' # rx_consumer
                  /\ rx_ring'[rx_consumer] = rx_ring[rx_consumer]
  /\ TxWaiting => /\ tx_producer' # tx_consumer
                  /\ tx_ring'[tx_consumer] = tx_ring[tx_consumer]

(* A write of the driver keeps what waits in the rings. *)
LEMMA RingsAtEdge ==
  ASSUME RingsHold, NEW bus, RoomFor(bus), HostWrite(bus)
  PROVE  RingsKeep
<1>1. CASE bus.op = "post rx"
  <2>1. After(rx_producer) \in Slots /\ After(rx_producer) # rx_consumer
    BY <1>1, AfterType, RoomMeansApart DEF RingsHold, RoomFor
  <2>2. bus.descriptor \in [queue : Nat, length : Nat]
    BY <1>1 DEF RoomFor
  <2>3. /\ rx_ring' = [rx_ring EXCEPT ![rx_producer] = bus.descriptor]
        /\ rx_producer' = After(rx_producer)
        /\ tx_ring' = tx_ring /\ tx_producer' = tx_producer
    BY <1>1 DEF HostWrite
  <2>4. QED
    BY <2>1, <2>2, <2>3 DEF RingsHold, RingsKeep, RxWaiting, TxWaiting
<1>2. CASE bus.op = "post tx"
  <2>1. After(tx_producer) \in Slots /\ After(tx_producer) # tx_consumer
    BY <1>2, AfterType, RoomMeansApart DEF RingsHold, RoomFor
  <2>2. Len(bus.descriptor.bytes) \in Accepted
    BY <1>2 DEF RoomFor
  <2>3. /\ tx_ring' = [tx_ring EXCEPT ![tx_producer] = bus.descriptor]
        /\ tx_producer' = After(tx_producer)
        /\ rx_ring' = rx_ring /\ rx_producer' = rx_producer
    BY <1>2 DEF HostWrite
  <2>4. QED
    BY <2>1, <2>2, <2>3 DEF RingsHold, RingsKeep, RxWaiting, TxWaiting
<1>3. CASE bus.op \notin {"post rx", "post tx"}
  BY <1>3 DEF HostWrite, RingsHold, RingsKeep, RxWaiting, TxWaiting
<1>4. QED
  BY <1>1, <1>2, <1>3

(* Consumers stay in the rings, and only a completion moves them. *)
LEMMA ConsumersAtEdge ==
  ASSUME RingsHold, NEW done, Complete(done)
  PROVE  /\ rx_consumer' \in Slots /\ tx_consumer' \in Slots
         /\ ~done.valid => rx_consumer' = rx_consumer /\ tx_consumer' = tx_consumer
BY AfterType DEF RingsHold, Complete

-----------------------------------------------------------------------------
(* The handshake of controller and engine.                                 *)

(* The descriptor the command was made from is at its ring's consumer. *)
FromRing ==
  IF command.direction = "queue to host"
  THEN /\ RxWaiting /\ rx_ring[rx_consumer].queue = command.queue
       /\ rx_ring[rx_consumer].length >= command.length
  ELSE /\ TxWaiting /\ tx_ring[tx_consumer].queue = command.queue
       /\ tx_ring[tx_consumer].bytes = command.bytes

(* The length at the head of a queue that is not empty is a packet's.      *)
LEMMA LengthShown ==
  ASSUME LengthsAccepted, QueuesHold, NEW stale,
         RxFits([q \in QUEUES |-> empty(rx_queue[q])], rx_packet_length(stale))
  PROVE  RxLength(rx_packet_length(stale)) \in Accepted
<1> DEFINE q == rx_ring[rx_consumer].queue
<1>1. q \in QUEUES /\ ~empty(rx_queue[q])
  BY DEF RxFits
<1>2. /\ rx_queue[q].lengths \in Seq(RxLengths)
      /\ rx_queue[q].packet_count = Len(rx_queue[q].lengths)
  BY <1>1 DEF QueuesHold, QueueHolds
<1>3. rx_queue[q].lengths # << >> /\ Head(rx_queue[q].lengths) \in RxLengths
  BY <1>1, <1>2 DEF empty
<1>4. QED
  BY <1>1, <1>3 DEF RxLength, rx_packet_length, LengthsAccepted

(* What is issued comes from the ring, and the engine accepts it.          *)
LEMMA IssuedCommand ==
  ASSUME LengthsAccepted, RingsHold, QueuesHold, RingsKeep, NEW stale,
         rx_consumer' = rx_consumer, tx_consumer' = tx_consumer,
         \/ /\ RxWaiting /\ IssueRx(rx_packet_length(stale))
            /\ RxFits([q \in QUEUES |-> empty(rx_queue[q])], rx_packet_length(stale))
         \/ TxWaiting /\ IssueTx /\ TxFits([q \in QUEUES |-> full(tx_queue[q])])
  PROVE  command'.length \in Accepted /\ FromRing'
<1>1. CASE /\ RxWaiting /\ IssueRx(rx_packet_length(stale))
           /\ RxFits([q \in QUEUES |-> empty(rx_queue[q])], rx_packet_length(stale))
  <2>1. RxLength(rx_packet_length(stale)) \in Accepted
    BY <1>1, LengthShown
  <2>2. rx_ring[rx_consumer].length >= RxLength(rx_packet_length(stale))
    BY <1>1 DEF RxFits
  <2> HIDE DEF rx_packet_length
  <2>3. QED
    BY <1>1, <2>1, <2>2 DEF IssueRx, RxCommand, FromRing, RingsKeep, RxWaiting
<1>2. CASE TxWaiting /\ IssueTx /\ TxFits([q \in QUEUES |-> full(tx_queue[q])])
  <2>1. Len(tx_ring[tx_consumer].bytes) \in Accepted
    BY <1>2 DEF RingsHold, TxFits
  <2>2. QED
    BY <1>2, <2>1 DEF IssueTx, TxCommand, FromRing, RingsKeep, TxWaiting
<1>3. QED
  BY <1>1, <1>2

(* A command that is not replaced is still the one at the consumer.        *)
LEMMA CommandStays ==
  ASSUME RingsKeep, FromRing, command' = command,
         rx_consumer' = rx_consumer, tx_consumer' = tx_consumer
  PROVE  FromRing'
BY DEF FromRing, RingsKeep, RxWaiting, TxWaiting

(* An edge keeps the agreement of controller and engine: there is no       *)
(* command, it is offered, it is worked on, or it has just completed.      *)
LEMMA HandshakeAtEdge ==
  ASSUME LengthsAccepted, RingsHold, QueuesHold, HandshakeHolds,
         NEW bus, RoomFor(bus), NEW offers, NEW takes, NEW host_ready, NEW stale,
         Edge(bus, offers, takes, host_ready, stale)
  PROVE  HandshakeHolds' /\ RingsHold'
<1> DEFINE offered == IF command_valid THEN {command} ELSE {}
           done == [valid |-> completion_valid, queue |-> queue,
                    direction |-> direction]
           rx_empty == [q \in QUEUES |-> empty(rx_queue[q])]
           tx_full == [q \in QUEUES |-> full(tx_queue[q])]
           lengths == rx_packet_length(stale)
<1>1. Controller_work(bus, command_ready, done, rx_empty, lengths, tx_full)
  BY DEF Edge
<1>2. EngineGoesOn(offered)
  BY EngineStep DEF Edge, HandshakeHolds
<1>3. RingsKeep
  BY <1>1, RingsAtEdge DEF Controller_work
<1>4. /\ rx_consumer' \in Slots /\ tx_consumer' \in Slots
      /\ ~completion_valid => rx_consumer' = rx_consumer /\ tx_consumer' = tx_consumer
  <2>1. Complete(done)
    BY <1>1 DEF Controller_work
  <2>2. QED
    BY <2>1, ConsumersAtEdge
<1>5. RingsHold'
  BY <1>3, <1>4 DEF RingsHold, RingsKeep
<1>6. /\ command_valid \in BOOLEAN /\ dma_active \in BOOLEAN
      /\ completion_valid \in BOOLEAN
      /\ command_valid => command.length \in Accepted
      /\ command_valid => ~dma_active
      /\ ~dma_active => ~Busy /\ ~completion_valid
      /\ dma_active => /\ queue = command.queue /\ direction = command.direction
                       /\ active_direction = direction
                       /\ Busy <=> ~completion_valid
      /\ command_valid \/ dma_active => FromRing
  BY DEF HandshakeHolds, OneCommand, FromRing
<1>7. /\ state' \in EngineStates /\ completion_valid' \in BOOLEAN
      /\ dma_active' = ((dma_active \/ (command_valid /\ command_ready))
                          /\ ~completion_valid)
      /\ active_direction' = IF command_valid /\ command_ready
                             THEN command.direction ELSE active_direction
  BY <1>1, <1>2 DEF EngineGoesOn, Controller_work
<1>8. /\ command_valid' \in BOOLEAN /\ dma_active' \in BOOLEAN
      /\ command_valid' => command'.length \in Accepted
      /\ command_valid' => ~dma_active'
      /\ ~dma_active' => ~Busy' /\ ~completion_valid'
      /\ dma_active' => /\ queue' = command'.queue /\ direction' = command'.direction
                        /\ active_direction' = direction'
                        /\ Busy' <=> ~completion_valid'
      /\ command_valid' \/ dma_active' => FromRing'
  <2>1. CASE ~command_valid /\ ~dma_active
    <3>1. ~Busy' /\ ~completion_valid' /\ dma_active' = FALSE
      BY <1>2, <1>6, <1>7, <2>1 DEF EngineGoesOn
    <3>2. rx_consumer' = rx_consumer /\ tx_consumer' = tx_consumer
      BY <1>4, <1>6, <2>1
    <3>3. \/ command_valid' = FALSE
          \/ command_valid' = TRUE
             /\ \/ RxWaiting /\ IssueRx(lengths) /\ RxFits(rx_empty, lengths)
                \/ TxWaiting /\ IssueTx /\ TxFits(tx_full)
      <4> HIDE DEF lengths, rx_empty, tx_full, done
      <4>1. CASE MayIssue(bus) /\ RxWaiting /\ RxFits(rx_empty, lengths)
        BY <1>1, <4>1 DEF Controller_work, IssueRx
      <4>2. CASE /\ ~(MayIssue(bus) /\ RxWaiting /\ RxFits(rx_empty, lengths))
                 /\ MayIssue(bus) /\ ~RxWaiting /\ TxWaiting /\ TxFits(tx_full)
        BY <1>1, <4>2 DEF Controller_work, IssueTx
      <4>3. CASE IssueNothing(command_ready)
        BY <2>1, <4>3 DEF IssueNothing
      <4>4. QED
        BY <1>1, <4>1, <4>2, <4>3 DEF Controller_work
    <3>4. command_valid' => command'.length \in Accepted /\ FromRing'
      BY <1>3, <3>2, <3>3, IssuedCommand
    <3>5. QED
      BY <3>1, <3>3, <3>4
  <2>2. CASE command_valid \/ dma_active
    <3>1. IssueNothing(command_ready)
      BY <1>1, <2>2 DEF Controller_work, MayIssue
    <3>2. command' = command /\ (command_ready => command_valid' = FALSE)
          /\ (~command_valid => command_valid' = FALSE)
      BY <3>1 DEF IssueNothing
    <3>3. ~completion_valid => FromRing'
      BY <1>3, <1>4, <1>6, <2>2, <3>2, CommandStays
    <3>4. CASE command_valid
      <4>1. ~dma_active /\ ~Busy /\ ~completion_valid /\ command_ready
        BY <1>6, <3>4 DEF Busy, command_ready
      <4>2. dma_active' = TRUE /\ active_direction' = command.direction
        BY <1>7, <3>4, <4>1
      <4>3. /\ queue' = command.queue /\ direction' = command.direction
            /\ Busy' /\ ~completion_valid'
        BY <1>2, <1>6, <3>4, <4>1 DEF EngineGoesOn
      <4>4. QED
        BY <3>2, <3>3, <4>1, <4>2, <4>3
    <3>5. CASE dma_active /\ Busy
      <4>1. ~command_valid /\ ~completion_valid
        BY <1>6, <3>5
      <4>2. dma_active' = TRUE /\ active_direction' = active_direction
        BY <1>7, <3>5, <4>1
      <4>3. /\ queue' = queue /\ direction' = direction
            /\ Busy' <=> ~completion_valid'
        BY <1>2, <3>5 DEF EngineGoesOn
      <4>4. QED
        BY <1>6, <3>2, <3>3, <3>5, <4>1, <4>2, <4>3
    <3>6. CASE dma_active /\ ~Busy
      <4>1. ~command_valid /\ completion_valid
        BY <1>6, <3>6
      <4>2. ~Busy' /\ ~completion_valid'
        BY <1>2, <3>6, <4>1 DEF EngineGoesOn
      <4>3. dma_active' = FALSE
        BY <1>7, <4>1
      <4>4. QED
        BY <3>2, <4>1, <4>2, <4>3
    <3>7. QED
      BY <1>6, <2>2, <3>4, <3>5, <3>6
  <2>3. QED
    BY <1>6, <2>1, <2>2
<1>9. QED
  BY <1>5, <1>7, <1>8 DEF HandshakeHolds, OneCommand, FromRing

-----------------------------------------------------------------------------
(* The driver's packet.                                                    *)

(* The next fragment of a packet begins where the one before it ended, and *)
(* is one the engine takes.                                                *)
LEMMA FragmentPosted ==
  ASSUME LengthsAccepted, PostingHolds, NEW p \in NextPackets
  PROVE  /\ Len(NextFragment(p).bytes) \in Accepted
         /\ tx_posting' = WithPosted(p) => PostingHolds'
<1> DEFINE split == p.split
           m == p.posted
           from == EndOf(p, m)
           to == EndOf(p, m + 1)
<1>1. /\ p \in [queue : TxQueues, split : TxSplits, posted : Nat]
      /\ m < Len(split)
  <2>1. CASE tx_posting # NoPosting
    BY <2>1 DEF NextPackets, PostingHolds
  <2>2. CASE p \in [queue : TxQueues, split : TxSplits, posted : {0}]
    BY <2>2, SystemAssumption
  <2>3. QED
    BY <2>1, <2>2 DEF NextPackets
<1>2. split \in Seq(Nat \ {0}) /\ split # << >> /\ m \in Nat /\ p.queue \in TxQueues
  BY <1>1, SystemAssumption
<1>3. /\ m + 1 \in DOMAIN split /\ to = split[m + 1]
      /\ from = IF m = 0 THEN 0 ELSE split[m]
  BY <1>1, <1>2 DEF EndOf
<1>4. from \in Nat /\ to \in Nat /\ to - from \in Accepted
  <2>1. split[m + 1] - (IF m + 1 = 1 THEN 0 ELSE split[(m + 1) - 1]) \in Accepted
    BY <1>1, <1>3 DEF LengthsAccepted
  <2>2. QED
    BY <1>2, <1>3, <2>1
<1>5. Last(split) \in Nat /\ Payload(p.queue, Last(split)) \in Seq(TxQueues \X Nat \X Nat)
  BY <1>2, PayloadType DEF Last
<1> DEFINE bytes == Payload(p.queue, Last(split))
<1>6. NextFragment(p).bytes = SubSeq(bytes, from + 1, to)
  BY DEF NextFragment
<1> HIDE DEF from, to, bytes
<1>7. Len(SubSeq(bytes, from + 1, to)) = to - from
  <2>1. to - from \in Nat
    BY <1>4 DEF Accepted
  <2>2. Len(SubSeq(bytes, from + 1, to)) = IF from + 1 <= to THEN to - (from + 1) + 1 ELSE 0
    BY <1>4, <1>5 DEF bytes
  <2>3. QED
    BY <1>4, <2>1, <2>2
<1>8. ASSUME tx_posting' = WithPosted(p)
      PROVE  PostingHolds'
  <2>1. CASE m + 1 = Len(split)
    BY <1>8, <2>1 DEF WithPosted, PostingHolds
  <2>2. CASE m + 1 # Len(split)
    <3>1. tx_posting' = [p EXCEPT !.posted = m + 1]
      BY <1>8, <2>2 DEF WithPosted
    <3>2. /\ tx_posting' \in [queue : TxQueues, split : TxSplits, posted : Nat \ {0}]
          /\ tx_posting'.posted = m + 1 /\ tx_posting'.split = split
      BY <1>1, <3>1
    <3>3. m + 1 < Len(split)
      BY <1>1, <1>2, <2>2
    <3>4. QED
      BY <3>2, <3>3 DEF PostingHolds
  <2>3. QED
    BY <2>1, <2>2
<1>9. QED
  BY <1>4, <1>6, <1>7, <1>8

-----------------------------------------------------------------------------
(* Steps.                                                                  *)

(* An edge keeps the receive queues' lengths those of packets. *)
LEMMA QueuesAtEdge ==
  ASSUME QueuesHold, NEW bus, NEW offers \in Offers, NEW takes, NEW host_ready,
         NEW stale, Edge(bus, offers, takes, host_ready, stale)
  PROVE  QueuesHold'
<1>1. /\ rx_queue' = [q \in QUEUES |->
                        QueueEdge(rx_queue[q], offers[q].beat,
                                  queue_input_ready /\ queue = q)]
      /\ rx_source' = [q \in QUEUES |->
                         IF offers[q].beat # NoBeat
                            /\ write_ready(rx_queue[q], offers[q].beat)
                         THEN offers[q].rest ELSE rx_source[q]]
  BY DEF Edge
<1>2. ASSUME NEW q \in QUEUES
      PROVE  QueueHolds(rx_queue'[q], rx_source'[q])
  <2>1. offers[q] \in NextBeats(q) \cup {NoOffer}
    BY DEF Offers
  <2>2. QueueHolds(rx_queue[q], rx_source[q])
    BY DEF QueuesHold
  <2>3. QueueHolds(QueueEdge(rx_queue[q], offers[q].beat,
                             queue_input_ready /\ queue = q),
                   IF offers[q].beat # NoBeat
                      /\ write_ready(rx_queue[q], offers[q].beat)
                   THEN offers[q].rest ELSE rx_source[q])
    BY <2>1, <2>2, QueueEdgeHolds
  <2>4. QED
    BY <1>1, <2>3
<1>3. QED
  BY <1>1, <1>2 DEF QueuesHold, QueueHolds

(* An edge at which the driver posts only into room keeps the invariant of *)
(* the hardware.                                                           *)
LEMMA EdgeKeeps ==
  ASSUME LengthsAccepted, SystemInv, NEW bus, RoomFor(bus), NEW offers \in Offers,
         NEW takes, NEW host_ready, NEW stale,
         Edge(bus, offers, takes, host_ready, stale)
  PROVE  RingsHold' /\ QueuesHold' /\ HandshakeHolds'
BY HandshakeAtEdge, QueuesAtEdge DEF SystemInv

(* So every step, with or without a post, keeps the whole invariant. *)
LEMMA StepKeeps ==
  ASSUME LengthsAccepted, SystemInv, [Next]_vars
  PROVE  SystemInv'
<1>1. CASE UNCHANGED vars
  BY <1>1 DEF SystemInv, RingsHold, QueuesHold, QueueHolds, PostingHolds,
              HandshakeHolds, OneCommand, Busy, RxWaiting, TxWaiting, vars,
              ctlVars, rxVars, txVars, dmaVars, sysVars
<1>2. CASE QuietEdge(Quiet, HostReady, {})
  <2>1. PICK bus \in Quiet, host_ready \in HostReady, offers \in Offers,
             stale \in Stale, takes \in Takes :
               Edge(bus, offers, takes, host_ready, stale)
    BY <1>2 DEF QuietEdge
  <2>2. RoomFor(bus)
    <3>1. bus \in {Nothing, Read, Enable, Disable}
      BY SystemAssumption DEF Quiet
    <3>2. /\ Nothing.op = "nothing" /\ Read.op = "read"
          /\ Enable.op = "enable" /\ Disable.op = "disable"
      BY DEF Nothing, Read, Enable, Disable
    <3>3. QED
      BY <3>1, <3>2 DEF RoomFor
  <2>3. PostingHolds'
    BY <1>2 DEF QuietEdge, SystemInv, PostingHolds
  <2>4. QED
    BY <2>1, <2>2, <2>3, EdgeKeeps DEF SystemInv
<1>3. CASE PostRxEdge
  <2>1. PICK d \in RxDescriptors, host_ready \in HostReady, offers \in Offers,
             stale \in Stale, takes \in Takes :
               Edge(PostRx(d), offers, takes, host_ready, stale)
    BY <1>3 DEF PostRxEdge
  <2>2. RoomFor(PostRx(d))
    BY <1>3, SystemAssumption DEF RoomFor, PostRx, PostRxEdge
  <2>3. PostingHolds'
    BY <1>3 DEF PostRxEdge, SystemInv, PostingHolds
  <2>4. QED
    BY <2>1, <2>2, <2>3, EdgeKeeps DEF SystemInv
<1>4. CASE PostTxEdge
  <2>1. PICK p \in NextPackets, host_ready \in HostReady, offers \in Offers,
             stale \in Stale, takes \in Takes :
               /\ Edge(PostTx(NextFragment(p)), offers, takes, host_ready, stale)
               /\ tx_posting' = WithPosted(p)
    BY <1>4 DEF PostTxEdge
  <2>2. Len(NextFragment(p).bytes) \in Accepted /\ PostingHolds'
    BY <2>1, FragmentPosted DEF SystemInv
  <2>3. RoomFor(PostTx(NextFragment(p)))
    BY <1>4, <2>2 DEF RoomFor, PostTx, PostTxEdge
  <2>4. QED
    BY <2>1, <2>2, <2>3, EdgeKeeps DEF SystemInv
<1>5. QED
  BY <1>1, <1>2, <1>3, <1>4 DEF Next

(* After reset nothing is posted, offered or under way. *)
LEMMA InitHolds ==
  ASSUME SystemInit
  PROVE  SystemInv
<1>1. 0 \in Slots
  BY RingAssumption DEF Slots
<1>2. RingsHold
  BY <1>1 DEF SystemInit, ControllerInit, RingsHold, NoRxDescriptor, NoTxDescriptor
<1>3. QueuesHold
  <2>1. QueueHolds(EmptyQueue, << >>)
    BY DEF QueueHolds, EmptyQueue
  <2>2. QED
    BY <2>1 DEF SystemInit, QueuesHold
<1>4. PostingHolds
  BY DEF SystemInit, PostingHolds
<1>5. HandshakeHolds
  BY DEF SystemInit, ControllerInit, DMAInit, HandshakeHolds, OneCommand, Busy,
         EngineStates
<1>6. QED
  BY <1>2, <1>3, <1>4, <1>5 DEF SystemInv

-----------------------------------------------------------------------------
(* Controller and engine agree on the one command there is, for every      *)
(* depth of the rings and the queues, whatever packets and descriptors     *)
(* there are, as long as every length is one the engine accepts: the       *)
(* controller waits for ever for the completion of one it drops.           *)
THEOREM OneCommandInvariant ==
  ASSUME LengthsAccepted
  PROVE  Spec => []OneCommand
<1>1. SystemInit => SystemInv
  BY InitHolds
<1>2. SystemInv /\ [Next]_vars => SystemInv'
  BY StepKeeps
<1>3. SystemInv => OneCommand
  BY DEF SystemInv, HandshakeHolds
<1>4. QED
  BY <1>1, <1>2, <1>3, PTL DEF Spec
=============================================================================
