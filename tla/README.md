# SmartNIC in TLA+

A verification project for the RTL of the SmartNIC (`rtl/`, C++ with the cpphdl
library): modules that model its components, model checking of small instances
with TLC, and theorems about them checked by TLAPS. The code is the reference;
each definition names the function or register it stands for, and
`PROJECT.json` gives the lines.

## How the code is read

Every hardware module has a `_work(reset)` that computes the next value of its
registers from their present values and its inputs, and a `_strobe()` that
commits them. One TLA+ step is one clock edge of one clock domain: `_work` and
`_strobe` together. Inputs are chosen by the environment with `\E`; wires
(`_comb_func`, `_ASSIGN`) are operators; a local variable threaded through a
loop is a record passed from one operator to the next (`AfterReleases`).
Three clocks drive the NIC: `net_clk`, `l2_clk` and `sys_clk`. Parts of one
domain take their step together; parts of different domains meet only at
clock-crossing FIFOs.

## Inventory

    wire -> InputBalancer -> 8 x { PacketParser, RxRAM } -> join -> RxFifo
                                     |                                |
                                read engine                 descriptor crossing
                                     |                                |
    ---------------- net_clk / l2_clk crossings ----------------------------
                                     |                                |
                             8 clusters: CPU, DescriptorFetcher, PacketDMA
                                     |                      |
              TxFifo, OutputMerger <-+                      |  l2_clk / sys_clk
    wire <-                                                 |
                           System: RxQueue, TxQueue <-------+
                                        |
                           MasterDMA, Controller <-> host driver and memory

| Component | State | Operations | Hard about it | Correct when |
|---|---|---|---|---|
| AsyncFifo | two pointers, their Gray codes, two 2-stage synchronisers, memory | write edge, read edge, reset | two unrelated clocks, stale pointers, reset seen at different times | flags are conservative; entries come out once, in order |
| RxRAM | per stream: open frame, circular region, completion FIFO, deferred releases, banks | take a beat, pop a completion, release, read a word | packets released out of order, rows reused while others are read, room checked before the length is known | unread rows are never overwritten, rows never leak |
| Controller | two rings with producer and consumer, the offered command, the active flag, the open transmit packet | bus write and read, issue, completion | handshake spread over three registers and two modules, two rings share one engine | one command at a time; each descriptor consumed once, for its own packet |
| MasterDMA | eight states, address and remaining length, a host beat, an output beat | accept, collect beats, write, read, send | packs two queue beats to a host beat, odd tails, memory that makes it wait | bytes land once, in order, inside the buffer |
| PacketQueue (RxQueue, TxQueue) | data FIFO, length FIFO, counters | write a beat, read a beat | two FIFOs popped under different conditions | lengths match packets; whole packets only |
| System | the wiring of these | edge | all parts move at the same edge | both directions are ordered paths of packets |
| InputBalancer | 8 output FIFOs, packers, frame destination | take a wide beat, push, flush by age | several frames in one beat, flow control decided in advance | frames whole and in one stream |
| Network join, RxFifo | parser half, store half per stream; descriptor FIFOs, round robin | complete, pair, select | two producers finish at different times | each descriptor is of one packet; no stream starves |
| Read engine (SmartNIC.h) | per port: command, word counter, metadata queue | pop, request, respond, release | responses matched to requests, commands chained without a bubble | one release per packet, after its last word |
| AsyncPacketStream | packer, AsyncFifo, unpacker | write beat, pack, unpack | partial entries | beats whole and in order |
| DescriptorFetcher | descriptor ring, assembly, command register, automatic mode | assemble, register write, auto enqueue, completion | three sources of change in a cycle | each descriptor handled once |
| PacketDMA | command state machine, AXI master, stream buffers | six kinds of transfer | many handshakes interleaved | every command completes once |
| Processing | rotation of descriptors to clusters | dispatch | one cluster can block the others | each descriptor to one cluster |
| Axi4WriteArbiter | owner, phase | grant, forward, respond | two masters, fixed priority | responses reach the owner; no starvation |
| TxFifo, OutputMerger | banked FIFO with committed count; merger position | write beat, window read, merge | variable pop, several words in one cycle | committed packets only, frames whole on the wire |
| PacketParser | pipeline registers | parse a beat | header arithmetic on data | fields as in the frame |

Components interact by ready/valid handshakes inside a domain, by AsyncFifo
between domains, and by registers that software reads and writes.

## What is modelled

### Clock-crossing FIFO: `Channel`, `AsyncFifo`, `GrayCode`, `MCAsyncFifo`, `AsyncFifoProofs`

`Channel` is the promise: a bounded first-in first-out sequence. `AsyncFifo` is
`common/AsyncFifoImpl.inc`: `work_write` and `work_read` as actions that may
happen alone or at the same instant (`WriteEdge`, `ReadEdge`, `BothEdges`), and a
reset level (`RaiseReset`, `LowerReset`). A step samples the other side's Gray
pointer whole: successive codes differ in one bit, so a code caught while it
changes is the old one or the new one; `MCAsyncFifo` checks that fact
(`OneBitPerStep`) for the depths in use, and that the code has what
`GrayAssumption` asks (`CodeAtDepthsUsed`). In `AsyncFifo` the code is a constant
operator, so the module and its proofs do not depend on bitwise operators.

`Spec` holds the reset until each domain has had an edge. `PulseSpec` lets it be
dropped earlier.

### Receive packet store: `RxRAM`, `MCRxRAM`, `RxRAMProofs`

One of the eight streams of `network/RxRAM.h`: a step does the releases (`Retire`,
`Release` for each port in port order), the pop of the completion FIFO, and the
beat (`Take`), as `_work` does. A row holds which word of which packet was written
to it, so an overwritten row is seen; bytes are only counted. Packets have
identities so that a word left by an earlier packet in the same rows is not
taken for the new one's. The reader is the most demanding one: it may read any
word of a packet from the pop of its completion to its release.

### Host side: `PacketQueue`, `MasterDMA`, `Controller`, `PacketPaths`, `Cuts`, `System`, `MCSystem`

Proofs: `SystemProofs`, `CutProofs`, `QueueProofs`, `ReceiveProofs`, `TransmitProofs`.

`PacketQueue` gives the state of a queue and its edge as operators, because there
are two per queue number. `MasterDMA` has one action per engine state, in the
Avalon build; host memory is a function from the buffer's first byte on.
`Controller` has the bus operations, the handshake, the completion and the issue
rule. `System` composes them on `sys_clk`, as `system/System.h` wires them, with the
driver and the `l2_clk` crossings as the environment. `PacketPaths` is the promise:
in each direction every queue is an ordered path of whole packets.

A packet is a sequence of bytes all told apart, so a byte that lands in the
wrong place, twice or in the wrong packet is seen. A packet enters the receive
path when its last beat is in the queue, and leaves it when the completion hands
its buffer to the driver; the transmit path is from the posting of the last
fragment to the last beat taken by Processing.

Abstractions: the driver writes a descriptor and moves the producer in one step
(nobody reads a slot behind the producer); readback of any register is one
operation, since all it does to the machine is to hold back the issue; buffer
addresses are aligned; the length an empty length FIFO shows is any of the
lengths that may have been there (`stale`).

### Network: `Frames`, `InputBalancer`, `PacketParser`, `ReadEngine`, `DescriptorJoin`, `PacketStream`, `OutputMerger`, `Network`, `MCNetwork`

Each component is a module of operators: a record of its registers, its wires as
operators of that record and of its inputs, and an `...Edge` operator that gives
the record after one clock edge. `Network` holds one such record per instance and
wires them as `network/Network.h` and `SmartNIC.h` do; a step is one edge of
`net_clk` or of `l2_clk`, on the receive side or on the transmit side, which share
no register.

| Module | Code | State kept |
|---|---|---|
| `Frames` | the marks of `InputBalancer.h` | a byte is its frame, its place in it and its frame's length, so a byte lost, repeated or moved to another frame is seen |
| `InputBalancer` | `InputBalancer.h` | FIFO, word being packed and its age per stream; open frame and its stream; round robin |
| `PacketParser` | `PacketParser.h` | decoder and aligner registers, the pipeline as a row of places, RAW store, output FIFO, reserved places. Fields of headers are not extracted: a parsed frame gives the bytes that went through |
| `ReadEngine` | read side of `RxRAM.h`, engine of `SmartNIC.h` | kept packets, completions; per port the command, metadata, pipe and response registers; per bank round robin and output register |
| `DescriptorJoin` | join of `Network.h`, `RxFifo.h`, serializer of `SmartNIC.h`, rotation of `Processing.h` | the two halves, the descriptor FIFOs, the word being sent, the cluster whose turn it is |
| `PacketStream` | `AsyncPacketStreamImpl.inc` | packer, entries, unpacker; the entries are `Channel`'s sequence |
| `OutputMerger` | `TxFifo.h`, `OutputMerger.h` | words and how many are committed, per stream; the merger's stream, offset and gap |

The bank arbitration of `RxRAM.h` is in `ReadEngine`, its rows in `RxRAM`: the first
supposes a store with room and checks the reading, the second supposes the most
demanding reader and checks the room.

### Cluster: `DescriptorFetcher`, `PacketDMA`, `Axi4WriteArbiter`, `Cluster`, `ClusterProofs`, `MCCluster`

In the same style. `DescriptorFetcher` has the descriptor ring, the command register
and the automatic mode; `PacketDMA` the command FIFO, the engine of the four
operations with all their flags, the prefetch of automatic mode, the queue of
backing writes, the clears, the staged registers and their lock, and the pairing of
commits; `Axi4WriteArbiter` the two masters of lower memory and the memory's port.
`Cluster` wires them as `processing/Processing.h` does and runs firmware on the harts:
one instruction is one access to a register. `Program` has four firmwares, two of
them the two modes of `test/capture.S`; the other two use the operations that
`capture.S` does not (sending from the ring with both ways of clearing it, and two
harts that share the staged registers). Packets are counted in lines of L2: the
byte lanes of a line are not modelled.

A read of a descriptor's command that the crossing refuses sets `refused`, a variable that
only watches: no action depends on it but `Rest`, which lets a cluster stand that waits
for what can no longer come. `ReadsMatch`, `NoError`, `SentIntact` and `ServedAtRest` are
promises up to that moment; `LinesMatch` is the documented order without the condition.
`READ_CDC` counts every request from the asking to the last line: in the code those in
the crossing (16), in the command FIFO behind it (16, `SmartNIC.h:97`), and the few being
read or on their way.

An edge has a set of events: what other clocks bring or take, an access of a hart,
an answer of a memory. An edge without events lets the handshakes go on.

## What the runs check

| Run | Bounds | Shows |
|---|---|---|
| `AsyncFifo` | depth 4, two values | `FifoInv`, `FlagsConservative`, `ImplementsChannel`; under fair clocks `EntryBecomesVisible`, `RoomBecomesVisible` |
| `AsyncFifoPulse` | same, `PulseSpec` | `FlagsConservative` fails: finding 1 |
| `RxRAM` | 16 rows of 2 bytes, frames of 3 and 5 bytes, 2 read ports, 2 completions, 2 packets held | `PacketsIntact`, `RegionTiled`, `NoError`, `ReadyAgain` (finding 7) |
| `RxRAMShared` | beats may hold EOP and SOP | `PacketsIntact` fails: finding 2 |
| `System` | 2 queues, rings of 2, FIFOs of 3, packets of 6 or 10 bytes in 4-byte beats, buffers of 6 or 10 bytes, transmit packets of two fragments, the driver also disables | `OneCommand`, `QueueLengths`, `StoreAndForward`, `BufferKept`, `RxInOrder` |
| `SystemLive` | received packets of 10 bytes and buffers that hold them, transmit packets of one and of two fragments | `NoError`, `TxInOrder`; `RxServed`, `TxServed` |
| `SystemStarve` | as `SystemLive` | `RingsIndependent` fails: finding 3 |
| `SystemUnaligned` | packets of 5 bytes, alignment 2 | `RxServed` fails: finding 4 |
| `Cluster` | four firmwares, 2 descriptors, 3 commands, a crossing of 2 reads, 2 backing lines, packets of 1 and 2 lines, at most 2 events at an edge | `LoadedIsReady`, `SentIntact`, `ReadsMatch`, `StagingExclusive`, `AnswersReachOwner`, `NoError`, `ServedAtRest` |
| `ClusterReads` | as `Cluster` | `LinesMatch` fails: finding 6 |
| `Network` | 3 streams of 3 bytes, frames of 6 and 7 bytes, up to ten of them, 2 clusters, 2 ports, a stream to send per stream | `FramesTogether`, `CreditsExact`, `DescriptorsPaired`, `DispatchedWhole`, `KeptUntilRead`, `ReadsIntact`, `WireIntact`, `NoError`, `ServedAtRest` |
| `NetworkReads` | as `Network`, both ports reading at once | `ReadsIntact` fails: finding 5 |

Why the bounds are enough. The FIFO of depth 4 wraps its pointers and reaches
full and empty with all staleness; its safety is proved for every depth. The
store has few rows, so that the region wraps several times, packets of one and
of several interleave blocks, and more packets in flight than one release per
edge can retire at once. On the host side the packet lengths make one and two
host beats with a tail of less than a beat, the FIFOs hold exactly the longest
packet, and the rings wrap at every second descriptor.
In the cluster every queue is as small as the code's handshakes allow: descriptor
ring, command FIFO, backing queue and crossings all fill, the ring of slots wraps,
and the queue holds more commands than the crossing holds reads, as in the code. In the network the frames are two words and a bit, so that they start at
every place of a word and of a beat, ends and starts share words, and ten frames
fill every queue back to the wire. `SIMULTANEOUS` bounds the events of one edge to
two: pairs of events meet, and three at once are a sequence of edges in which the
registers between them hold.

Bounds that leave something out, each named where it is declared: `apart` in a plan
of `Network` makes the clusters read one packet at a time (without it finding 5
strikes before anything else; short plans are run without it); a frame is at least two words; a plan's transmit frames fit the window of
the merger.

Every property of a passing run has a mutant in `PROJECT.json`: a plausible
mistake in a definition (named after it, next to it in the module) that makes
the property fail.

### Fairness

- `AsyncFifo`: both clocks run for ever.
- `RxRAM`: the join pops a completion now and then (`TRUE \in Pops`), and the read
  engines release what they hold: `network/Network.h` and the read engine of
  `SmartNIC.h` do both whenever Processing takes its data.
- `System`: the driver does not read a register at every edge (a readback holds
  back the issue), host memory answers, and Processing takes packets offered to
  it. Nobody is forced to send a packet or to post a descriptor: the fairness
  subscripts name the registers of controller and engine only.
- `Cluster`, `Network`: none. Their plans are finite, so that what must eventually
  happen is a safety property: deadlock is checked, an edge that changes nothing is
  no step, and the only state that may stand is one with nothing in flight
  (`AtRest`). `ServedAtRest` says that everything has then been served. A part that
  waits for what never comes shows up as a deadlock, or as a state at rest in which
  something is missing. An endless run without progress is not excluded by this, but
  plans are finite and every edge that counts moves something on.

### Findings

1. A reset that only one of the two domains samples leaves the FIFO
   inconsistent; `doc/network.md` promises a two-domain empty handshake.
2. `RxRAM` asks for room only between frames, while the balancer packs the end of
   one frame and the start of the next into a beat: frames that follow each other
   in this way are admitted without room and overwrite unread packets.
3. The controller looks at the transmit ring only when the receive ring is
   empty: a receive buffer posted for a quiet queue stops transmission.
4. The engine drops a command whose length is not a multiple of four without
   completing it, and the controller waits for its completion for ever.
5. A read port whose response register is held keeps its next row in the output
   register of the bank. Another port may read that bank meanwhile: its row replaces
   the waiting one, and both ports deliver it. `RxRAM.h` promises every port its
   accepted data in order.

6. `PacketDMA` asks for packets from three places (the prefetch, the descriptor
  command, the engine). When the crossing for requests is full, a descriptor command
  enters the queue without its read, and a later one may get its read in first:
  packets then come in another order than the commands that take them
  (`PacketDMA.h:564`), while `doc/processing.md:49` says that commands execute in FIFO
  order. `Processing.h` has a queue of 64 commands (`:44-45`) and a crossing of 16
  requests (`:104`). In the run `ClusterReads`, with 3 and 2, the reads of packets 1
  and 2 are outstanding when the command of packet 3 enters and its read is refused;
  when the engine takes that command up, the command of packet 4 comes and gets its
  read in at the same edge; the read of packet 3 follows at the next one.
7. `doc/RxRAM.md:80-84` says that rows "are allocated monotonically after reset and
  are not reused", and that a stream stops being ready when fewer than three rows
  remain. The code reclaims rows at each release of the oldest packet (`RxRAM.h:715`),
  as lines 33-35 of the same document say, and asks before each frame for the room of
  the largest packet (`RxRAM.h:452`). `ReadyAgain` holds, against the first of these texts.

Seen while modelling and not stated by a run:

- After a refused read (finding 6) nothing is promised of the lines: the packet engine
  may report a protocol error, and it may wait for ever for a packet whose lines went to
  another command. `Cluster` goes on to model what the code does then, such as a
  command that comes again because `descriptor_command_ready` is low while the engine asks
  for a read, which `PacketDMA.h:997` does not look at.
- `doc/processing.md:38` says "PacketDMA accepts up to eight queued commands"; the
  instance in `Processing.h:44-45` accepts 64.
- The aligner of `PacketParser` counts the words of a frame in eight bits. With lanes of
  20 bytes the count of a RAW frame of more than 256 words has wrapped at its end
  (`PacketParser.h:3478`; `InputBalancer.h:40` allows 9216 bytes), and when the frame ends a
  few words later, just over 5120 bytes, its descriptor keeps fewer bytes than it has room
  for. `Gather` wraps as the code does; the frames of the runs are too short to meet it.
- `OutputMerger` takes at most the eight words of a window for a beat; with short
  frames backed up in one stream a beat can need a ninth, which sets
  `protocol_error` and leaves a hole in the frame (`OutputMerger.h:331`).
- The aligner of `PacketParser` sees the RAW store one edge late; back-to-back RAW
  frames of the shortest length can find it full. The model's frames are longer.
- The descriptor ring of 512 slots is smaller than what the command FIFO can hold
  back: with every tenth packet sent, 64 queued commands are 640 packets.
- `PacketDMA` takes a descriptor command as accepted at an edge at which a doorbell
  is pushed instead (`descriptor_command_ready` holds, the push goes to the
  doorbell). No firmware of the model uses both.
- A clear after transmission queues behind later packets and may clear a slot that
  was given away in the meantime.

## What is proved

`AsyncFifoProofs`, for every depth, every set of data and every code that satisfies
`GrayAssumption`:

- `FifoInvariant`: `Spec => []FifoInv`. `FifoInv` is inductive: each Gray register is
  the code of its domain's pointer, and the chain own pointer, first flip-flop,
  second flip-flop is ordered (`WriteView`, `ReadView`): what a side sees of the other
  lags behind it and never leads. The flags alone are not inductive, because
  what they will say in two edges is already in the flip-flops. While reset is up
  `ResetView` says which domains are already clear, so that both views hold when it
  falls.
- `FlagsAreConservative`: `Spec => []FlagsConservative`, from the invariant and the
  arithmetic of distances on the circle of pointers.
- `FifoImplementsChannel`: `Spec => ImplementsChannel`. Each edge maps to a push, a pop,
  both, a flush or a stutter of `Channel`; the lemmas on `Window` say what a push and
  a pop do to the window of memory between the pointers.

`SystemProofs`, for every depth of rings and queues, every set of queues and
descriptors, and all packets and fragments whose lengths are multiples of `ALIGNMENT`
(`LengthsAccepted`; with others the controller waits for ever for a completion, which
is finding 4 and the run `SystemUnaligned`):

- `OneCommandInvariant`: `Spec => []OneCommand`. `OneCommand` is not inductive: the
  engine takes an offered command only if its length is one it accepts, and whether it
  is depends on where the length comes from. `SystemInv` adds, for the receive side,
  that the entries of a length FIFO are lengths of packets and that what a queue has
  assembled and what is still to come make up such a length (`QueuesHold`); for the
  transmit side, that descriptors in the ring are empty slots or fragments of accepted
  length and so are the fragments the driver has yet to post (`RingsHold`,
  `PostingHolds`). `EngineGoesOn` says of each edge of the engine what the controller
  relies on; `RingsKeep` that the driver, who leaves one slot free, never overwrites the
  descriptor a command came from; `HandshakeAtEdge` goes through the four phases of a
  command: none, offered, worked on, completed.

The contents of packets. `Cuts` defines, for a row of pieces each of which may end a
packet, the whole packets in it and what is left open (`Cutting`); it is a set of
positions where packets end, not a fold, because nothing can be proved of a fold.

- `CutProofs`: the lemmas on `Cutting`. The library's induction theorems cannot be
  used, but a set of numbers that is not empty has a least element (`SetMin`, from
  the well-foundedness of `<` on numbers), and from it `SetInduction` and `SequenceInduction`
  follow with a set where a predicate would be. With them: `Cutting` of a row with one
  more piece, of two rows (`CutConcat`, `CutConcatAppend`), of a row whose first piece is read.
- `QueueProofs`: `QueueSound` says of a queue, and of what was read of its first
  packet, that the lengths are those of its packets in their order, that marks of first
  and last beats are where packets begin and end, and that nothing follows what is open.
  A write of the beat due (`QueueWrite`) and a read (`QueueRead`) keep it, at every depth.
- `ReceiveProofs`: the receive side of `System` under `LengthsAccepted`.
  `ReceiveInv` is `SystemInv` with `CommandHolds` (an offered command is for a queue
  that holds a packet, and its length is that of the packet at its head),
  `EngineHolds` (what each state of the engine has of the packet: landed in host
  memory from its first byte without a hole, and the halves of a beat it holds) and
  `ReceiveQueue` for every queue. At an edge the engine keeps what it has, takes one
  beat or hands the packet over (`EngineMoves`), and the queue is written and read
  at the same edge (`QueueGoes`); what the packets on their way are before and after
  then says which step of `PacketPaths` this is (`PathGoes`).
  - `PacketsInOrder`: `Spec => RxInOrder`, the refinement of the ordered path of whole
    packets: bytes neither lost, repeated, moved nor handed over early.
  - `BufferIsKept`: `Spec => []BufferKept`, the engine writes the buffer of the
    descriptor from its first byte without a hole and never past its length.
- `TransmitProofs`: the transmit side, and with it all safety of `System`.
  `TransmitInv` is `ReceiveInv` with five parts more. `FragmentsHold`: what waits in
  the ring is a chain of fragments that goes on with the packet the controller is in
  and ends where the driver is in its own; without it a fragment could be for another
  queue than the packet it belongs to. `TxCommandHolds`: a transmit command is the
  fragment at the consumer. `EngineSends`: how much of the fragment each state of the
  engine has sent, and which bytes the output register and the other half of a host
  beat hold. `TxQueuesHold`: `QueueSound` for every transmit queue, and the only queue
  whose last packet is open is that of the packet in work (`InMiddle`), without which
  the mark of a first beat could fall inside a packet. The last part: what the
  fragments on the way leave open is what the driver has posted of its packet. An edge
  may post, complete or take a fragment, send a beat of it and read another from the
  queue, all at once (`RingMoves`, `EngineOutAtEdge`, `TxQueueGoesOn`); `WayIsKept`,
  `WayIsTaken` and `WayGoesOn` follow the bytes through these in turn, so that at most one
  packet leaves the path and at most one enters it.
  - `FragmentsInOrder`: `Spec => TxInOrder`, the refinement of the ordered path of whole
    packets, however the driver cuts them into fragments.
  - `LengthsAreRight`: `Spec => []QueueLengths`, and `PacketsAreWhole`:
    `Spec => []StoreAndForward`, in both directions.
  - `HostSideTypes`: `Spec => []TypeOK`. `RemainingFits` is inductive beside `TransmitInv`,
    which says of an engine at work that what remains is a number.
  - `NoErrors`: `Spec => []NoError`, for a driver whose receive buffers hold any packet and
    are for queues there are (`BuffersFit`, as in the run `SystemLive`). A shorter buffer does
    raise `protocol_error` in the code; the run `System` has such buffers and
    does not constrain the flag. `ErrorFree` adds that what waits in the receive ring is
    what the driver posted.

`ClusterProofs`, for every plan of packets, commands and requests and every size of
the crossings (`ClusterAssumption`); the four firmwares are those of `Program`:

- `StagingIsExclusive`: `Spec => []StagingExclusive`. `HartsHold` adds where the program
  counters are. The lock register is written by whatever store the cluster sees at an
  edge, and one edge has at most one store (`LockEdge`, through the `Keeps` lemma of each
  stage of the engine: none of them touches the lock). `Sound` says of a program
  what makes that enough: who owns the lock is at no place where it asks for it again,
  and only from a check that succeeded does a hart come to own it; each firmware is shown
  to be sound, and `OwnsIsOwning` that this local reading is the one of the property,
  which looks back over the whole program.
- `MemoryAnswersOwner`: `Spec => []AnswersReachOwner`. `AccessHolds` is a table of the phases of
  an access: which state the arbiter, the memory, the two halves of the packet engine
  and the CPU are in together, and whose address the memory holds. `BackingSound` adds
  that the head of the queue of backing writes stays while its write is under way;
  `AccessNext` goes through the phases. Without the state of the master that does not
  own the arbiter the table is not inductive: it could start an access of its own and be
  answered for another's.
- `ReadsAreMatched`: `Spec => []ReadsMatch`, at every size of the crossing and of the queue
  of commands: until a read was refused, the lines are those of the packet they are taken for.
  `ReadsHold` says for each firmware who asks and what is under way. With `ring` and
  `forward` only the loading engine asks, one packet at a time (`LoaderReads`). With `fast`
  every command in the queue has its request until one is refused, so the requests are
  the queue's packets in its order (`DescriptorReads`). With `bridge` only the command at work asks (`CommandReads`), and the line it is
  writing to L2 is not counted among those still to come (`ComesWith`). That the three
  do not mix is a fact about the programs and the descriptor queue: `StoresAreSound` goes
  through all stores of a firmware, `FetcherParts` through an edge of the queue, and
  `FetcherAsks` keeps of both what descriptors may order. `DMAParts` cuts an edge of the
  engine in two, what it finds (`Prepared`) and what it leaves (`EngineResult`).
- `RefusalNeedsShortCrossing`: a read is refused only with `fast`, and only where the crossing
  holds fewer requests than the queue holds commands; with every other firmware, or with a
  crossing as long as the queue, `Spec => []LinesMatch`, the documented order. In the code
  the crossing has 16 and the queue 64, so with `fast` nothing but the reading speed keeps
  finding 6 from happening.
- `NoErrorIsReported`: `Spec => []NoError`: until a read was refused neither the descriptor
  queue nor the engine reports a protocol error, so every doorbell is for a
  packet that is there, every word of a descriptor and every line of a packet comes in
  its place, and nothing is staged or ordered that the engine refuses. `ErrorsHold` is
  `ReadsHold` with: the words of a descriptor are in step with the queue that takes them
  (`WordsHold`), what the queue holds is of whole packets (`QueueHolds`), and what each
  firmware makes of that. `ring` and `forward` stage a length and flags they may
  send, and nobody else orders (`SenderHolds`). The hart of `fast` finds the command
  register empty and room in the engine's queue before it acts, and its command
  leaves before it can act again (`FastHolds`). With `bridge` the commands for
  packets of the network and of System are in one queue; there is at most one for System,
  and where System is in its packet is where the engine is (`BridgeHolds`, `LinesHold`).
  `EdgeErrors` says what of an edge the errors depend on; `WordsNext`, `QueueNext`,
  `SenderNext`, `FastNext` and `BridgeNext` keep one part each. That no read was refused
  is needed for the lines of the network: a line is an error that is not of the packet
  the command at work takes.

`RxRAMProofs`, for every number and width of rows, every set of frame lengths the
register holds, every number of read ports, of completions and of slots for early
releases (`RxRAMAssumption`). Two hypotheses are named. `FramesApart`: no beat holds
the end of a frame and the start of the next; with such beats `PacketsIntact` is false,
which is finding 2 and the run `RxRAMShared`. `IdsSuffice`: the model has two names for
the packets of a row, so that a new packet is never taken for the one before it; it is
about the model, not the code, and the run has three.

The invariant is `StoreInv`:

- `Accounted`: the rows in use, seen from the oldest, are a row of packets without gaps
  (`Tiled`): each begins at a place an even number of rows behind `release_row`, no two
  overlap, and together they fill `used_rows`. The packets are those unread or
  deferred and those whose release found no slot; until an error is raised there
  are none of the last kind. `RegionTiled` alone is not inductive: it says that the sets of
  rows agree, and the next release needs to know that the packet at `release_row` is
  one of them and ends where the next begins.
- `Packed`: every row of an unread packet holds the packet's own word (`Filled`), names
  of packets are distinct and say in which row they begin.
- `Framed`: between frames the next row is the end of the region; in a frame the words
  so far are in the rows from there on, as many as the length says, and there was
  room for the largest frame when it began.

An edge is followed in the order of the code. `RetireReclaims` and `ReleaseReclaims` take
one release each and keep `Reclaims`: the packets left tile the rows left, none was
given back twice, and none was forgotten without an error; `ReleasesReclaim` threads it
through the ports, by `SetInduction` on their number. `SurvivorsAccounted` is what is left
before the beat. Then a beat begins a frame, carries one on, or ends one
(`FirstBeatKeeps`, `NextBeatKeeps`, `LastBeatKeeps`); words go to rows behind the last
packet only (`FreeWords`), and the end is rounded to the same row the length gives at the
release (`EndRow`, `RowsTaken`). The arithmetic of rows modulo their number and of
lengths divided by a row's width is proved from `%` and `\div`, because they are
constants here and the solver has no theory of that (`DividedOnce`, `RowSum`, `RowApart`,
`RoundedUp`).

- `PacketsStayIntact`: `Spec => []PacketsIntact`, for any number of slots. A lost release
  costs rows, never bytes.
- `StoreTypes`: `Spec => []TypeOK`: rows wrap, the length does not saturate, the completion
  FIFO and the slots do not overflow.
- `RegionIsTiled`: `Spec => [](NoError => RegionTiled)`: until an error no order of releases,
  at one edge or many, leaks a row or frees one twice.
- `ErrorsNeedCrowds`: `Spec /\ []FewPackets => [](NoError /\ RegionTiled)`, where `FewPackets`
  says that no more packets are in the store than there are slots: a beat always
  finds the room its frame was promised, and only a release without a slot can raise an
  error. The code has `READ_PORTS * 4` slots (RxRAM.h:64) for thousands of rows, so
  `FewPackets` is a condition on how many packets the clusters leave unread, which nothing in
  the code ensures: the hazard at RxRAM.h:739 stays, and no property covers it. The run
  `RxRAM` has 7 slots for at most 6 packets, so its `NoError` says nothing of it either.

Assumptions: `DepthAssumption`, `GrayAssumption`, `RxRAMAssumption`, `RingAssumption`, `ClusterAssumption`,
`FetcherAssumption`, `DmaAssumption`,
`QueuesAssumption`, `MasterDMAAssumption`, `QueueDepthAssumption` and `SystemAssumption`,
which TLC evaluates in the runs. `SystemInv` and `ReceiveInv` were found to hold in the
instance of the run `System` and in one of short buffers and a driver that disables before
they were proved, the parts of `StoreInv` in that of `RxRAM`, once with 8 slots and once with a single one; `ReadsHold`
and `ErrorsHold` in an instance of `Cluster` whose crossing is as long as its queue; `TransmitInv`,
`RemainingFits` and `ErrorFree` in the instance of `System`, and in one with rings of 4
and packets of up to three fragments for two queues.

Every safety property of `AsyncFifo`, `RxRAM` and `System` that a passing run checks is a theorem,
some under the hypotheses named above.
Only model-checked: all liveness (fairness and `ENABLED` are out of the prover's reach),
`Network`, and four properties of `Cluster`. `SentIntact` and `ServedAtRest` compare what was
sent with `SelectSeq` and `FlattenSeq` over a whole plan, which only induction over data
could follow. `LoadedIsReady` and `TypeOK` are not attempted: they need every loaded line
followed through both queues into L2 and lower memory.

## What could come next

1. Proofs: `LoadedIsReady` and the types of `Cluster`. The invariant would say of either
   queue of lines that it holds, in order, the lines of the packets not committed yet, and
   of either memory that it holds every other line of a packet not worked on; it would
   need as many slots as the descriptor queue has places.
2. `RxRAM` and `ReadEngine` in one module, with the eight streams and all ports.
3. The rest of the net side under a fault model: frames that the wire breaks off,
   which balancer, parser and store each report in their own way.
4. The AXI4 variant of the host bus.

## Not modelled

- The header fields that `PacketParser`'s stages compute: data, not control. Its
  pipeline is in the model as the places a frame passes.
- The CPU and its caches, a submodule outside this tree: `Cluster` has the accesses
  the firmware makes and a memory that answers when it likes.
- The byte lanes of a line in `PacketDMA`, and the timing of the simulated memory.
- `HOST_AXI4`, the clear input of `PacketQueue` (tied low), and the FIFO option with
  an output register (not used).
- The generated SystemVerilog, the demonstration, the FPGA project, the test
  benches.
