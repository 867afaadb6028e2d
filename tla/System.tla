------------------------------- MODULE System ------------------------------
(***************************************************************************)
(* The host side of the NIC on sys_clk (rtl/system/System.h): controller,  *)
(* DMA engine and packet queues, between the driver and its memory on one  *)
(* side and the clock-crossing FIFOs to Processing on the other.           *)
(*                                                                         *)
(* One step is one edge of sys_clk: every part does its work from the      *)
(* registers as they were.  The crossings are AsyncFifo's; here they bring *)
(* the beats of whole packets when they like, and take beats when they     *)
(* like.  A packet is its bytes, each of them told apart.                  *)
(***************************************************************************)
EXTENDS Controller, MasterDMA, PacketQueue, Cuts, SequencesExt

CONSTANTS
  RxDescriptors, (* the receive descriptors the driver posts               *)
  RxLengths,     (* lengths of the packets Processing sends                *)
  TxSplits,      (* the driver's packets: the ends of their fragments      *)
  RxQueues, TxQueues,     (* the queues with traffic in each direction     *)
  Switches       (* what the driver does to the enable bit                 *)

ASSUME SystemAssumption ==
  /\ RxDescriptors \subseteq [queue : Nat, length : Nat]
  /\ RxLengths \subseteq Nat \ {0}
  /\ \A split \in TxSplits :
        /\ split \in Seq(Nat \ {0}) \ {<< >>}
        /\ \A i \in 2 .. Len(split) : split[i - 1] < split[i]
  /\ RxQueues \cup TxQueues \subseteq QUEUES
  /\ Switches \subseteq {Enable, Disable}

VARIABLES
  rx_queue, tx_queue,
  rx_source,     (* queue -> bytes of its packet not yet in the queue      *)
  tx_sink,       (* queue -> bytes of its packet already taken             *)
  tx_posting     (* the driver's packet, and how much of it is posted      *)

sysVars == << rx_queue, tx_queue, rx_source, tx_sink, tx_posting >>
vars == << ctlVars, dmaVars, sysVars >>

TxLengths == {Last(split) : split \in TxSplits}

Payload(q, n) == [i \in 1 .. n |-> << q, n, i >>]

NoPosting == [queue |-> 0, split |-> << >>, posted |-> 0]

SystemInit ==
  /\ ControllerInit
  /\ DMAInit
  /\ rx_queue = [q \in QUEUES |-> EmptyQueue]
  /\ tx_queue = [q \in QUEUES |-> EmptyQueue]
  /\ rx_source = [q \in QUEUES |-> << >>]
  /\ tx_sink = [q \in QUEUES |-> << >>]
  /\ tx_posting = NoPosting

-----------------------------------------------------------------------------
(* The driver: it enables the controller, reads registers, posts receive   *)
(* descriptors and the fragments of one transmit packet after the other,   *)
(* and keeps one ring slot free.                                           *)
NextPackets ==
  IF tx_posting # NoPosting THEN {tx_posting}
  ELSE [queue : TxQueues, split : TxSplits, posted : {0}]

EndOf(p, n) == IF n = 0 THEN 0 ELSE p.split[n]

NextFragment(p) ==
  [queue |-> p.queue,
   bytes |-> SubSeq(Payload(p.queue, Last(p.split)),
                    EndOf(p, p.posted) + 1, EndOf(p, p.posted + 1)),
   eop |-> p.posted + 1 = Len(p.split)]

WithPosted(p) == IF p.posted + 1 = Len(p.split) THEN NoPosting
                 ELSE [p EXCEPT !.posted = @ + 1]

MayPost(producer, consumer) == Posted(producer, consumer) < RING_DEPTH - 1

(* Every byte of a packet comes from Processing in full beats but the last. *)
NextBeats(q) ==
  LET bytes(p) == SubSeq(p, 1, Min({QUEUE_DATA_BYTES, Len(p)}))
      beatOf(p, first) == [bytes |-> bytes(p), sop |-> first,
                           eop |-> Len(p) <= QUEUE_DATA_BYTES]
      rest(p) == SubSeq(p, QUEUE_DATA_BYTES + 1, Len(p))
  IN  IF q \notin RxQueues THEN {}
      ELSE IF rx_source[q] # << >>
      THEN {[beat |-> beatOf(rx_source[q], FALSE), rest |-> rest(rx_source[q])]}
      ELSE {[beat |-> beatOf(Payload(q, n), TRUE), rest |-> rest(Payload(q, n))] :
              n \in RxLengths}

NoOffer == [beat |-> NoBeat, rest |-> << >>]

-----------------------------------------------------------------------------
(* One edge: bus, the beats the crossings offer, whether they take one,    *)
(* whether host memory answers, what an empty length FIFO shows.           *)
rx_packet_length(stale) ==
  [q \in QUEUES |-> IF rx_queue[q].lengths = << >> THEN stale
                    ELSE Head(rx_queue[q].lengths)]

selected_rx == LET q == rx_queue[queue]
               IN  IF read_valid(q) THEN {Head(q.data)} ELSE {}

out_beat(q) == IF queue_output_valid /\ queue = q THEN out ELSE NoBeat

Edge(bus, offers, takes, host_ready, stale) ==
  /\ Controller_work(bus, command_ready,
                     [valid |-> completion_valid, queue |-> queue,
                      direction |-> direction],
                     [q \in QUEUES |-> empty(rx_queue[q])],
                     rx_packet_length(stale),
                     [q \in QUEUES |-> full(tx_queue[q])])
  /\ MasterDMA_work(IF command_valid THEN {command} ELSE {}, selected_rx,
                    write_ready(tx_queue[queue], out_beat(queue)), host_ready)
  /\ rx_queue' = [q \in QUEUES |->
                    QueueEdge(rx_queue[q], offers[q].beat,
                              queue_input_ready /\ queue = q)]
  /\ tx_queue' = [q \in QUEUES |->
                    QueueEdge(tx_queue[q], out_beat(q), takes[q])]
  /\ rx_source' = [q \in QUEUES |->
                     IF offers[q].beat # NoBeat
                        /\ write_ready(rx_queue[q], offers[q].beat)
                     THEN offers[q].rest ELSE rx_source[q]]
  /\ tx_sink' = [q \in QUEUES |->
                   IF takes[q] /\ read_valid(tx_queue[q])
                   THEN LET b == Head(tx_queue[q].data)
                        IN  IF b.eop THEN << >> ELSE tx_sink[q] \o b.bytes
                   ELSE tx_sink[q]]

Offers == {f \in [QUEUES -> UNION {NextBeats(q) : q \in QUEUES} \cup {NoOffer}] :
             \A q \in QUEUES : f[q] \in NextBeats(q) \cup {NoOffer}}

(* Only a queue that has something to take is asked to give it. *)
Takes == {f \in [QUEUES -> BOOLEAN] :
            \A q \in QUEUES : f[q] => read_valid(tx_queue[q])}

(* Inputs are offered where something looks at them. *)
Quiet == {Nothing} \cup (Switches \ (IF enabled THEN {Enable} ELSE {Disable}))
                  \cup (IF MayIssue(Nothing) THEN {Read} ELSE {})

HostReady == IF state \in {"WRITE_ADDRESS", "READ_ADDRESS", "READ_DATA"}
             THEN BOOLEAN ELSE {FALSE}

Stale == IF RxWaiting /\ rx_queue[rx_ring[rx_consumer].queue].lengths = << >>
         THEN RxLengths \cup {0} ELSE {0}

(* Edges at which the driver posts nothing, with one of the given bus      *)
(* operations and host answers, and the given crossings taking their beat. *)
QuietEdge(buses, answers, takers) ==
  /\ \E bus \in buses, host_ready \in answers, offers \in Offers, stale \in Stale,
        takes \in {f \in Takes : \A q \in takers : f[q]} :
       Edge(bus, offers, takes, host_ready, stale)
  /\ UNCHANGED tx_posting

PostRxEdge ==
  /\ MayPost(rx_producer, rx_consumer)
  /\ \E d \in RxDescriptors, host_ready \in HostReady, offers \in Offers,
        stale \in Stale, takes \in Takes :
       Edge(PostRx(d), offers, takes, host_ready, stale)
  /\ UNCHANGED tx_posting

PostTxEdge ==
  /\ MayPost(tx_producer, tx_consumer)
  /\ \E p \in NextPackets, host_ready \in HostReady, offers \in Offers,
        stale \in Stale, takes \in Takes :
       /\ Edge(PostTx(NextFragment(p)), offers, takes, host_ready, stale)
       /\ tx_posting' = WithPosted(p)

Next == QuietEdge(Quiet, HostReady, {}) \/ PostRxEdge \/ PostTxEdge

Spec == SystemInit /\ [][Next]_vars

(* The driver does not read a register at every edge, host memory does not *)
(* make the engine wait for ever, and Processing takes what is ready.  An  *)
(* edge that is forced is one the controller, the engine or the crossing   *)
(* acts at: nobody need send a packet or post a descriptor.                *)
FairSpec ==
  /\ Spec
  /\ WF_<<ctlVars, dmaVars>>(QuietEdge(Quiet \ {Read}, HostReady, {}))
  /\ WF_<<ctlVars, dmaVars>>(QuietEdge(Quiet, HostReady \cap {TRUE}, {}))
  /\ \A q \in TxQueues : WF_tx_queue(QuietEdge(Quiet, HostReady, {q}))

-----------------------------------------------------------------------------
Busy == state # "IDLE"

(* Ring indices stay in the ring, the remaining length never underflows,   *)
(* no FIFO exceeds its depth.                                              *)
TypeOK ==
  /\ {rx_producer, rx_consumer, tx_producer, tx_consumer} \subseteq Slots
  /\ command.queue \in QUEUES /\ queue \in QUEUES
  /\ \E n \in RxLengths \cup TxLengths \cup {0} : transfer.remaining \in 0 .. n
  /\ \A q \in QUEUES : \A p \in {rx_queue[q], tx_queue[q]} :
        Len(p.data) <= DEPTH /\ Len(p.lengths) <= DEPTH

(* Controller and engine agree on the one command there is: while it is    *)
(* offered the engine is idle, while it is active it is the engine's, and  *)
(* its completion is the engine's last word on it.                         *)
OneCommand ==
  /\ command_valid => ~dma_active
  /\ ~dma_active => ~Busy /\ ~completion_valid
  /\ dma_active => /\ queue = command.queue /\ direction = command.direction
                   /\ active_direction = direction
                   /\ Busy <=> ~completion_valid
  /\ command_valid \/ dma_active =>
       IF command.direction = "queue to host"
       THEN /\ RxWaiting /\ rx_ring[rx_consumer].queue = command.queue
            /\ rx_ring[rx_consumer].length >= command.length
       ELSE /\ TxWaiting /\ tx_ring[tx_consumer].queue = command.queue
            /\ tx_ring[tx_consumer].bytes = command.bytes

(* The engine writes inside the buffer the descriptor at the consumer      *)
(* names, and leaves no hole.                                              *)
BufferKept ==
  direction = "queue to host" /\ dma_active =>
    /\ DOMAIN host = 1 .. Cardinality(DOMAIN host)
    /\ Cardinality(DOMAIN host) <= rx_ring[rx_consumer].length

(* The packet on its way to the host: what is in the posted buffer, until  *)
(* its completion hands the buffer to the driver, and what is on its way   *)
(* there.                                                                  *)
Landed == [i \in 1 .. Cardinality(DOMAIN host) |->
             IF i \in DOMAIN host THEN host[i] ELSE Junk]

InEngine(q) ==
  IF direction # "queue to host" \/ queue # q \/ ~(Busy \/ completion_valid)
  THEN << >>
  ELSE << [bytes |-> Landed, eop |-> completion_valid] >> \o
       CASE state \in {"IDLE", "WAIT_QUEUE"} -> << >>
         [] state = "WAIT_QUEUE_SECOND" ->
              << Part(beat.low) >>
         [] state = "WRITE_ADDRESS" ->
              << [bytes |-> beat.low \o beat.high, eop |-> beat.eop] >>

RxPackets(q) == Cut(InEngine(q) \o rx_queue[q].data)

(* Fragments on their way to a queue: the rest of the engine's, then those *)
(* posted.                                                                 *)
FromEngine(q) ==
  LET rest(at) == SubSeq(host, transfer.address + at + 1, Len(host))
      bytes == CASE state \in {"READ_ADDRESS", "READ_DATA"} -> rest(0)
                 [] state = "SEND_QUEUE" ->
                      out.bytes \o rest(QUEUE_DATA_BYTES)
                 [] state = "SEND_QUEUE_SECOND" ->
                      out.bytes \o rest(DATA_BYTES)
  IN  IF ~Busy \/ direction # "host to queue" \/ queue # q THEN << >>
      ELSE << [bytes |-> bytes, eop |-> transfer.eop] >>

PostedFragments(q) ==
  LET taken == IF dma_active /\ active_direction = "host to queue" THEN 1 ELSE 0
      n == Posted(tx_producer, tx_consumer)
      posted(i) == tx_ring[(tx_consumer + taken + i - 1) % RING_DEPTH]
  IN  [i \in 1 .. n - taken |->
         IF posted(i).queue = q THEN posted(i) ELSE Part(<< >>)]

TxPackets(q) ==
  Cut(<< Part(tx_sink[q]) >> \o tx_queue[q].data
        \o FromEngine(q) \o PostedFragments(q))

(* A queue's lengths are those of the packets in it, the first of which    *)
(* may have been read in part: a reader told of a packet can read it all.  *)
LengthsOf(q, read) ==
  LET packets == Cut(<< Part(read) >> \o q.data)
  IN  /\ q.lengths = [i \in DOMAIN packets |-> Len(packets[i])]
      /\ q.packet_count = Len(packets)

BytesRead(q) == Cutting(InEngine(q)).open

QueueLengths == \A q \in QUEUES : /\ LengthsOf(rx_queue[q], BytesRead(q))
                                  /\ LengthsOf(tx_queue[q], tx_sink[q])

(* A packet begins to leave a queue when all of it is there: neither the   *)
(* engine nor Processing waits for the other side in the middle of one.    *)
StoreAndForward ==
  /\ \A q \in QUEUES : tx_sink[q] # << >> => ~empty(tx_queue[q])
  /\ queue_input_ready => ~empty(rx_queue[queue])

(* Well-formed packets and descriptors never raise an error. *)
NoError == /\ ~protocol_error /\ ~dma_error
           /\ \A q \in QUEUES : /\ ~rx_queue[q].protocol_error
                                /\ ~tx_queue[q].protocol_error

-----------------------------------------------------------------------------
(* To the host, each queue is a channel of packets: those whose last beat  *)
(* has entered it, in order, each landing whole in a posted buffer once.   *)
(* From the host, the packets whose last fragment is posted.               *)
RxPayloads(q) == {Payload(q, n) : n \in RxLengths}
TxPayloads(q) == {Payload(q, n) : n \in TxLengths}

RxPath == INSTANCE PacketPaths WITH
  Queues <- QUEUES, Packets <- RxPayloads, Capacity <- DEPTH + 1,
  paths <- [q \in QUEUES |-> RxPackets(q)]

TxPath == INSTANCE PacketPaths WITH
  Queues <- QUEUES, Packets <- TxPayloads, Capacity <- DEPTH + RING_DEPTH,
  paths <- [q \in QUEUES |-> TxPackets(q)]

(* Packets from Processing land in posted buffers in order, whole, once.   *)
RxInOrder == RxPath!Spec
(* Packets the driver posts reach Processing in order, whole, once.        *)
TxInOrder == TxPath!Spec

(* A posted buffer whose queue has a packet is filled. *)
RxServed ==
  \A i \in Slots :
    (rx_consumer = i /\ RxWaiting /\ ~empty(rx_queue[rx_ring[i].queue]))
      ~> rx_consumer # i

(* Posted transmit fragments are consumed, once no receive buffer waits.   *)
TxServed ==
  <>[]~RxWaiting =>
    \A i \in Slots : (tx_consumer = i /\ TxWaiting) ~> tx_consumer # i

(* The same whatever waits in the receive ring: the rings are independent. *)
RingsIndependent ==
  \A i \in Slots : (enabled /\ tx_consumer = i /\ TxWaiting) ~> tx_consumer # i
=============================================================================
