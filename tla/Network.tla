------------------------------- MODULE Network ------------------------------
(***************************************************************************)
(* The Network of rtl/network/Network.h inside the SmartNIC of             *)
(* rtl/SmartNIC.h: frames from the wire through balancer, parsers, store   *)
(* and join to the descriptors of the clusters; the clusters' reads of the *)
(* packets; and the frames that the clusters send back to the wire.        *)
(*                                                                         *)
(* A step is one edge of net_clk or of l2_clk, of the receive side or of   *)
(* the transmit side, which share no register; a plan drives one of them.  *)
(* The asynchronous FIFOs are the channels that AsyncFifo.tla implements.  *)
(* External: the wire (beats offered, beats taken), and the clusters, which *)
(* take a descriptor, ask for its packet, and take what comes.             *)
(***************************************************************************)
EXTENDS InputBalancer, PacketParser, DescriptorJoin, ReadEngine, PacketStream, OutputMerger

CONSTANTS
  L2_BYTES,            (* bytes of a beat on l2_clk                        *)
  DESCRIPTOR_FIFO, COMMAND_FIFO, CLUSTER_FIFO,       (* entries            *)
  SIMULTANEOUS,        (* bound: cluster events of one edge                *)
  Plans                (* what the wire brings, and what is to be sent     *)

(* A plan: the lengths of the frames that arrive, the gaps between them,   *)
(* whether a beat is offered at every edge or not, what raw_in may be,     *)
(* whether the clusters read packets one at a time; and per stream, the    *)
(* lengths of the frames to send.                                          *)
ASSUME NetworkAssumption ==
  /\ {L2_BYTES, DESCRIPTOR_FIFO, COMMAND_FIFO, CLUSTER_FIFO, SIMULTANEOUS}
       \subseteq Nat \ {0}
  /\ \A plan \in Plans : \A f \in DOMAIN plan.rx : plan.rx[f] <= MAX_FRAME_BYTES

Clusters == 0 .. CPU_COUNT - 1

VARIABLES
  plan,
  beats,               (* external: the beats still to come                *)
  balancer, parser, store, join, rx_fifo, descriptor_fifo,
  serializer, target, cluster_fifo,
  owed,                (* external: the bytes each cluster waits for       *)
  command_fifo, reads, rx_stream,
  to_send,             (* external: the beats each stream is to send       *)
  tx_stream, tx_fifo, merger,
  wire                 (* external: what has gone out, byte by byte        *)

receiveNet == << beats, balancer, parser, store, join, rx_fifo, reads >>
receive == << receiveNet, descriptor_fifo, serializer, target, cluster_fifo, owed,
              command_fifo, rx_stream >>
transmit == << to_send, tx_stream, tx_fifo, merger, wire >>
vars == << plan, receive, transmit >>

-----------------------------------------------------------------------------
(* The wire brings the frames one after another with gaps between them, at *)
(* any place of the beats.                                                 *)
Padded(bytes) ==
  bytes \o [i \in 1 .. (BEAT_BYTES - (Len(bytes) % BEAT_BYTES)) % BEAT_BYTES |-> Gap]

BeatsOf(lengths, gap) ==
  LET idle == [i \in 1 .. gap |-> Gap]
      bytes == Padded(FlattenSeq([f \in DOMAIN lengths |->
                                    FrameBytes(f, lengths[f]) \o idle]))
  IN  [i \in 1 .. Len(bytes) \div BEAT_BYTES |->
         SubSeq(bytes, (i - 1) * BEAT_BYTES + 1, i * BEAT_BYTES)]

(* A frame to send, in beats of l2_clk. *)
Cut(bytes) ==
  LET n == (Len(bytes) + L2_BYTES - 1) \div L2_BYTES
  IN  [i \in 1 .. n |-> Beat(UpTo(After(bytes, (i - 1) * L2_BYTES), L2_BYTES), i = 1, i = n)]

SentFrame(s, k) == 10 * (s + 1) + k

BeatsToSend(s, lengths) ==
  FlattenSeq([k \in DOMAIN lengths |-> Cut(FrameBytes(SentFrame(s, k), lengths[k]))])

NetworkInit ==
  /\ plan \in Plans
  /\ beats = BeatsOf(plan.rx, plan.gap)
  /\ balancer = BalancerInit
  /\ parser = [s \in Streams |-> ParserInit]
  /\ store = [s \in Streams |-> StoreInit]
  /\ join = [s \in Streams |-> JoinInit]
  /\ rx_fifo = RxFifoInit
  /\ descriptor_fifo = << >>
  /\ serializer = SerializerInit /\ target = 0
  /\ cluster_fifo = [c \in Clusters |-> << >>]
  /\ owed = [c \in Clusters |-> << >>]
  /\ command_fifo = [p \in Ports |-> << >>]
  /\ reads = ReadInit
  /\ rx_stream = [p \in Ports |-> StreamInit]
  /\ to_send = [s \in Streams |-> BeatsToSend(s, plan.tx[s + 1])]
  /\ tx_stream = [s \in Streams |-> StreamInit]
  /\ tx_fifo = [s \in Streams |-> TxFifoInit]
  /\ merger = MergerInit
  /\ wire = << >>

-----------------------------------------------------------------------------
(* The first of a queue as a sequence of at most one. *)
First(queue) == UpTo(queue, 1)

(* A word of the balancer goes to parser and store together: each is shown *)
(* it only when the other is ready.                                        *)
ParserReady(s) == parser_ready(parser[s], parser_word_ready(join[s]))
StoreReady(s) == store_ready(store[s], ram_completion_ready(join[s]))

balanced_ready == {s \in Streams : ParserReady(s) /\ StoreReady(s)}

parser_valid(s) == IF StoreReady(s) THEN output(balancer, s) ELSE << >>

(* By mistake the store takes a word the parser has no room for.           *)
ram_valid_Bug(s) == output(balancer, s)
ram_valid(s) == IF ParserReady(s) THEN output(balancer, s) ELSE << >>

StreamReady == [p \in Ports |-> source_ready(rx_stream[p], LANE_BYTES)]

(* What the streams between the clocks show on either side.                *)
l2_rx(p) == output_beat(rx_stream[p], L2_BYTES)
l2_read_command_ready(p) == Len(command_fifo[p]) < COMMAND_FIFO
l2_tx_ready(s) == source_ready(tx_stream[s], L2_BYTES)
network_tx(s) == output_beat(tx_stream[s], LANE_BYTES)

(* The row a port answers with, once its metadata are there.               *)
rx_input(p) ==
  IF reads.port[p].response # << >> /\ reads.port[p].meta # << >>
  THEN << ResponseBeat(reads.port[p]) >> ELSE << >>

(* One edge of net_clk, receive side. *)
ReceiveNetEdge(offered, raw_in) ==
  LET beat == IF offered /\ beats # << >> THEN beats[1] ELSE << >>
      fires(s) == descriptor_valid(join[s]) /\ input_ready_RxFifo(rx_fifo, s)
      taken == Len(descriptor_fifo) < DESCRIPTOR_FIFO
      granted == Granted(reads, StreamReady)
  IN  /\ beats' = IF beat # << >> /\ input_ready(balancer, beat, balanced_ready)
                  THEN Tail(beats) ELSE beats
      /\ balancer' = BalancerEdge(balancer, beat, balanced_ready)
      /\ parser' = [s \in Streams |->
                      ParserEdge(parser[s], parser_valid(s), raw_in, parser_word_ready(join[s]))]
      /\ store' = [s \in Streams |->
                     StoreEdge(s, store[s], ram_valid(s), ram_completion_ready(join[s]),
                               Releases(reads, StreamReady))]
      /\ join' = [s \in Streams |->
                    JoinEdge(join[s], First(parser[s].fifo), First(store[s].completions),
                             fires(s))]
      /\ rx_fifo' = RxFifoEdge(rx_fifo,
                               [s \in Streams |-> IF fires(s)
                                                  THEN << descriptor_input(join[s], s) >>
                                                  ELSE << >>],
                               taken)
      /\ descriptor_fifo' = IF taken THEN descriptor_fifo \o RxFifoOutput(rx_fifo)
                                     ELSE descriptor_fifo
      /\ reads' = ReadEdge(reads, store, StreamReady,
                           [p \in Ports |-> First(command_fifo[p])])
      /\ command_fifo' = [p \in Ports |->
                            IF read_command_pop(reads.port[p], p \in granted)
                            THEN After(command_fifo[p], 1) ELSE command_fifo[p]]
      /\ rx_stream' = [p \in Ports |-> SourceEdge(rx_stream[p], LANE_BYTES, rx_input(p))]
      /\ UNCHANGED << plan, serializer, target, cluster_fifo, owed, transmit >>

-----------------------------------------------------------------------------
(* The bytes of the frame a descriptor tells of, by what the parser read.  *)
FrameOf(d) == FrameBytes(d.word0[1][1], d.word0[1][3])

Described(c) == Len(cluster_fifo[c]) >= DESCRIPTOR_WORDS

(* Bound of a plan: a packet is read only when no other one is.            *)
TurnToRead(c) ==
  plan.apart => \A o \in Clusters : owed[o] = << >> /\ (o < c => ~Described(o))

(* A cluster takes the descriptor it has got whole and asks for the packet *)
(* on its port; or it takes a beat of a packet.                            *)
Events ==
  {e \in {"fetch", "accept"} \X Clusters :
     LET c == e[2]
     IN  CASE e[1] = "fetch" -> /\ Described(c) /\ TurnToRead(c)
                                /\ l2_read_command_ready(c)
           [] e[1] = "accept" -> l2_rx(c) # << >>}

(* One edge of l2_clk, receive side. *)
ReceiveL2Edge(ev) ==
  LET fetches(c) == << "fetch", c >> \in ev
      accepts(c) == << "accept", c >> \in ev
      descriptor(c) == cluster_fifo[c][1].descriptor
      command(c) == [address |-> descriptor(c).address, length |-> descriptor(c).length]
      ready == Len(cluster_fifo[target]) < CLUSTER_FIFO
      word == IF serializer.valid /\ ready THEN << descriptor_word(serializer) >> ELSE << >>
  IN  /\ serializer' = SerializerEdge(serializer, descriptor_fifo, ready)
      /\ descriptor_fifo' = IF serializer.valid THEN descriptor_fifo
                            ELSE After(descriptor_fifo, 1)
      /\ target' = NextTarget(target, serializer, ready)
      /\ cluster_fifo' =
           [c \in Clusters |->
              (IF fetches(c) THEN After(cluster_fifo[c], DESCRIPTOR_WORDS) ELSE cluster_fifo[c])
              \o (IF c = target THEN word ELSE << >>)]
      /\ command_fifo' = [c \in Ports |->
                            IF fetches(c) THEN Append(command_fifo[c], command(c))
                            ELSE command_fifo[c]]
      /\ rx_stream' = [c \in Ports |-> OutputEdge(rx_stream[c], L2_BYTES, accepts(c))]
      /\ owed' = [c \in Clusters |->
                    (IF accepts(c)
                     THEN After(owed[c], Len(l2_rx(c)[1].bytes))
                     ELSE owed[c])
                    \o (IF fetches(c) THEN FrameOf(descriptor(c)) ELSE << >>)]
      /\ UNCHANGED << plan, receiveNet, transmit >>

-----------------------------------------------------------------------------
(* One edge of net_clk, transmit side; ready is the wire's.                *)
TransmitNetEdge(ready) ==
  LET result == merge_result(merger, tx_fifo)
      counts == read_counts(result, ready)
  IN  /\ merger' = MergerEdge(merger, result, ready)
      /\ tx_fifo' = [s \in Streams |->
                       TxFifoEdge(tx_fifo[s], counts[s], network_tx(s))]
      /\ tx_stream' = [s \in Streams |->
                         OutputEdge(tx_stream[s], LANE_BYTES, tx_ready(tx_fifo[s], counts[s]))]
      /\ wire' = IF ~ready THEN wire
                 ELSE IF merge_valid(result) THEN wire \o result.beat
                 ELSE IF merger.active THEN Append(wire, Silence) ELSE wire
      /\ UNCHANGED << plan, receive, to_send >>

(* One edge of l2_clk, transmit side: the streams of a set offer a beat.   *)
TransmitL2Edge(offering) ==
  LET beat(s) == IF s \in offering THEN First(to_send[s]) ELSE << >>
  IN  /\ tx_stream' = [s \in Streams |-> SourceEdge(tx_stream[s], L2_BYTES, beat(s))]
      /\ to_send' = [s \in Streams |->
                       IF s \in offering /\ l2_tx_ready(s)
                       THEN After(to_send[s], 1) ELSE to_send[s]]
      /\ UNCHANGED << plan, receive, tx_fifo, merger, wire >>

-----------------------------------------------------------------------------
StreamEmpty(c) == c.source = << >> /\ c.fifo = << >> /\ c.output = << >>

ParserEmpty(p) ==
  /\ ~p.ingress_valid /\ p.align = << >> /\ p.pending = << >> /\ p.raw_emit = << >>
  /\ p.fifo = << >> /\ \A i \in 1 .. PIPE_STAGES : p.pipe[i] = << >>

(* Nothing in flight, nothing to come. *)
AtRest ==
  /\ beats = << >>
  /\ \A s \in Streams :
       /\ balancer.out[s].fifo = << >> /\ balancer.out[s].pack = << >>
       /\ ParserEmpty(parser[s]) /\ store[s].completions = << >>
       /\ ~descriptor_valid(join[s])
       /\ rx_fifo.fifos[s] = << >>
  /\ descriptor_fifo = << >> /\ ~serializer.valid
  /\ Events = {}
  /\ \A p \in Ports : /\ command_fifo[p] = << >>
                      /\ ~reads.port[p].active /\ reads.port[p].meta = << >>
                      /\ StreamEmpty(rx_stream[p])
  /\ \A s \in Streams : to_send[s] = << >> /\ StreamEmpty(tx_stream[s])
  /\ ~merger.active /\ \A s \in Streams : tx_fifo[s].committed = 0

Receive ==
  \/ \E offered \in plan.offered, raw_in \in plan.raw : ReceiveNetEdge(offered, raw_in)
  \/ \E ev \in SUBSET Events : Cardinality(ev) <= SIMULTANEOUS /\ ReceiveL2Edge(ev)

Transmit ==
  \/ \E ready \in BOOLEAN : TransmitNetEdge(ready)
  \/ \E offering \in SUBSET {s \in Streams : to_send[s] # << >>} : TransmitL2Edge(offering)

(* An edge that changes nothing is no step: only a Network at rest stands. *)
Rest == AtRest /\ UNCHANGED vars

Next == ((Receive \/ Transmit) /\ vars' # vars) \/ Rest

Spec == NetworkInit /\ [][Next]_vars

-----------------------------------------------------------------------------
(* No queue outgrows its bound, and a store never holds back more than the *)
(* frames it has completed.                                                *)
TypeOK ==
  /\ \A s \in Streams :
       /\ Len(balancer.out[s].fifo) <= FIFO_WORDS /\ Len(balancer.out[s].pack) < LANE_BYTES
       /\ Len(parser[s].fifo) <= OUTPUT_FIFO_WORDS /\ Len(parser[s].raw_store) <= RAW_STORE
       /\ Len(store[s].completions) <= COMPLETION_FIFO_WORDS
       /\ Len(rx_fifo.fifos[s]) <= RX_FIFO_DEPTH
       /\ Len(tx_fifo[s].words) <= TX_FIFO_WORDS
       /\ tx_fifo[s].committed \in 0 .. Len(tx_fifo[s].words)
  /\ Len(descriptor_fifo) <= DESCRIPTOR_FIFO
  /\ \A c \in Clusters : Len(cluster_fifo[c]) <= CLUSTER_FIFO
  /\ \A p \in Ports : /\ Len(command_fifo[p]) <= COMMAND_FIFO
                      /\ Len(reads.port[p].meta) <= READ_META_DEPTH
  /\ \A c \in {rx_stream[p] : p \in Ports} \cup {tx_stream[s] : s \in Streams} :
       /\ Len(c.source) <= BUFFER_BYTES /\ Len(c.output) <= BUFFER_BYTES
       /\ Len(c.fifo) <= STREAM_FIFO

(* No part reports a protocol error on well-formed frames.                 *)
NoError ==
  /\ ~balancer.protocol_error /\ ~merger.protocol_error
  /\ \A s \in Streams :
       ~(parser[s].protocol_error \/ store[s].protocol_error \/ join[s].protocol_error
           \/ tx_fifo[s].protocol_error)

(* A stream carries whole frames one after another: what the store has of  *)
(* the open frame, what waits in the balancer and what is being packed go  *)
(* on from each other, wherever the frames lay in the beats.               *)
FramesTogether ==
  \A s \in Streams :
    LET bytes == store[s].open \o FlattenSeq(balancer.out[s].fifo) \o balancer.out[s].pack
    IN  bytes # << >> => sop(bytes[1]) /\ Consecutive(bytes)

(* Every place reserved in the output FIFO of a parser is that of a word   *)
(* in it or of one on its way through the pipeline, two for a RAW frame.   *)
CreditsExact ==
  \A s \in Streams :
    LET p == parser[s]
        coming(i) == IF p.pipe[i] = << >> THEN 0
                     ELSE IF ~p.pipe[i][1].eop THEN 0 ELSE IF p.pipe[i][1].raw THEN 2 ELSE 1
    IN  p.reserved_slots = Len(p.fifo) + FoldLeft(LAMBDA n, i : n + coming(i), 0,
                                                  [i \in 1 .. PIPE_STAGES |-> i])

(* A descriptor pairs what the parser and the store made of one frame, at  *)
(* whatever edges they finished: its header bytes, its length, and an      *)
(* address where the whole frame is kept.                                  *)
Describes(d) ==
  LET frame == FrameOf(d)
  IN  /\ store[d.address[1]].kept[d.address[2]] = frame
      /\ d.length = Len(frame) /\ d.stream = d.address[1]
      /\ d.word0 \o d.word1 = IF d.raw THEN UpTo(frame, RAW_BYTES) ELSE frame

DescriptorsPaired ==
  /\ \A s \in Streams : /\ descriptor_valid(join[s]) => Describes(descriptor_input(join[s], s))
                        /\ \A d \in ToSet(rx_fifo.fifos[s]) : Describes(d)
  /\ \A d \in ToSet(descriptor_fifo) : Describes(d)

(* A cluster gets descriptors whole: only the one being sent is in part in *)
(* its queue, and that is the cluster whose turn it is.                    *)
DispatchedWhole ==
  \A c \in Clusters :
    LET words == cluster_fifo[c]
        part == Len(words) % DESCRIPTOR_WORDS
    IN  /\ \A i \in DOMAIN words :
             /\ words[i].word = (i - 1) % DESCRIPTOR_WORDS
             /\ words[i].word # 0 => words[i].descriptor = words[i - 1].descriptor
             /\ words[i].word = 0 => Describes(words[i].descriptor)
        /\ part # 0 => c = target /\ serializer.valid /\ serializer.word = part

(* A packet stays in the store as long as a row of it is still to be read, *)
(* on its way or unanswered.                                               *)
KeptUntilRead ==
  \A p \in Ports :
    LET x == reads.port[p]
        kept(address) == store[address[1]].kept[address[2]] # << >>
    IN  /\ x.active => kept(x.address)
        /\ \A m \in ToSet(x.meta) : kept(m.address)

(* A port delivers, in the order of its requests, the bytes of the packets *)
(* asked for, with the marks at the packets' ends.                         *)
ReadsIntact ==
  \A c \in Clusters : \A beat \in ToSet(l2_rx(c)) :
    /\ IsPrefix(beat.bytes, owed[c])
    /\ beat.sop = sop(beat.bytes[1]) /\ beat.eop = eop(beat.bytes[Len(beat.bytes)])

(* On the wire frames are contiguous, never one without its end, with the  *)
(* gap between them; the frames of each stream are in order.               *)
KeptAt(i) == keep(wire[i].byte)
WireIntact ==
  /\ \A i \in 1 .. Len(wire) - 1 :
       LET b == wire[i].byte
       IN  KeptAt(i) => IF eop(b) THEN \A j \in i + 1 .. i + MIN_IPG_BYTES :
                                         j <= Len(wire) => ~KeptAt(j)
                                  ELSE Follows(b, wire[i + 1].byte)
  /\ \A i \in DOMAIN wire : /\ wire[i].sop = (KeptAt(i) /\ sop(wire[i].byte))
                            /\ wire[i].eop = (KeptAt(i) /\ eop(wire[i].byte))

SentOf(s) ==
  LET frames == SelectSeq(wire, LAMBDA x : x.eop)
      mine == SelectSeq(frames, LAMBDA x : x.byte[1] \div 10 = s + 1)
  IN  [i \in DOMAIN mine |-> mine[i].byte[1]]

(* When the Network comes to rest every frame has been read by a cluster   *)
(* and released, and everything that was to be sent is on the wire, the    *)
(* frames of each stream in their order.                                   *)
ServedAtRest ==
  AtRest =>
    /\ \A c \in Clusters : owed[c] = << >>
    /\ Len(FlattenSeq([s \in 1 .. STREAMS |-> store[s - 1].kept])) = Len(plan.rx)
    /\ \A s \in Streams : /\ \A k \in DOMAIN store[s].kept : store[s].kept[k] = << >>
                          /\ SentOf(s) = [k \in DOMAIN plan.tx[s + 1] |-> SentFrame(s, k)]
=============================================================================
