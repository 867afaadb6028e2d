------------------------------- MODULE Cluster ------------------------------
(***************************************************************************)
(* One processing cluster as rtl/processing/Processing.h wires it: the     *)
(* descriptor queue, PacketDMA, the crossings of loaded lines to L2 and of *)
(* their commits back, the lower memory, and the firmware of the harts.    *)
(*                                                                         *)
(* One step is one edge of cpu_clk.  What arrives from other clocks, the   *)
(* accesses of the harts and the answers of the memories are the events of *)
(* an edge; an edge without events lets the handshakes go on.  Which       *)
(* firmware runs is chosen at the start and kept.                          *)
(***************************************************************************)
EXTENDS DescriptorFetcher, Axi4WriteArbiter, PacketDMA, FiniteSets, SequencesExt

CONSTANTS
  Plans,              (* program -> [lengths: lines of the packets, in the *)
                      (* order they arrive, every: which go to System,     *)
                      (* requests: the CPU's own accesses to lower memory] *)
  READ_CDC, LINE_CDC, COMMIT_CDC,    (* sizes of the crossings             *)
  SIMULTANEOUS        (* most events at one edge                           *)

ASSUME ClusterAssumption ==
  /\ DOMAIN Plans \subseteq {"ring", "fast", "forward", "bridge"}
  /\ \A f \in DOMAIN Plans : Plans[f].lengths \in Seq(Nat \ {0}) /\ Plans[f].every \in Nat \ {0}
                              /\ Plans[f].requests \in Nat
  /\ {READ_CDC, LINE_CDC, COMMIT_CDC, SIMULTANEOUS} \subseteq Nat \ {0}

VARIABLES
  firmware, fetcher, dma, arbiter, ddr4,
  response,           (* an access was a store at the last edge            *)
  l2, ddr,            (* the lines of the packet ring in the two memories  *)
  line_cdc, commit_cdc,
  reads,              (* packets asked for, the head of them on its way    *)
  read_line,          (* the lines of that head already here               *)
  incoming,           (* the next descriptor and its next word             *)
  from_host,          (* the next packet of System and its next line       *)
  cpu,                (* the CPU's port to lower memory                    *)
  harts,
  sent,               (* lines to System and to Network, a ghost           *)
  refused             (* a descriptor's read met a full crossing, a ghost  *)

vars == << firmware, fetcher, dma, arbiter, ddr4, response, l2, ddr, line_cdc, commit_cdc,
           reads, read_line, incoming, from_host, cpu, harts, sent, refused >>

Lengths == Plans[firmware].lengths
EVERY == Plans[firmware].every           (* every EVERY-th packet          *)

Packets == 1 .. Len(Lengths)
Packet(k) == << k, Lengths[k] >>
Line(p, i) == << p[1], i >>              (* the i-th line of a packet, from 0 *)
LineBeat(p, i) == [data |-> Line(p, i), sop |-> i = 0, eop |-> i + 1 = p[2]]

LongestPacket == Max(UNION {Range(Plans[f].lengths) : f \in DOMAIN Plans})
Addresses == (0 .. SLOTS - 1) \X (0 .. LongestPacket - 1)
CpuAddress == << SLOTS, 0 >>             (* the CPU's own data, off the ring *)

-----------------------------------------------------------------------------
(* The firmware, an instruction to every access of a register.  "ring" and *)
(* "fast" are the two modes of test/capture.S; "forward" returns packets   *)
(* from the ring to Network and releases their slots both ways the engine  *)
(* offers; "bridge" is two harts that share the staged registers, one      *)
(* loading packets and sending them to Network, one taking packets of      *)
(* System and sending them back.                                           *)
Program ==
  [ ring |-> [hart1 |->
      << "enable_auto", "await_loaded", "await_ready", "lock", "check", "LENGTH", "SOURCE",
         "FLAGS_TO_SYSTEM", "COMMAND", "unlock", "next" >>],
    fast |-> [hart1 |-> << "enable", "await_dma_ready", "next_dma" >>],
    forward |-> [hart1 |->
      << "enable_auto", "await_loaded", "lock", "check", "LENGTH", "SOURCE", "FLAGS_TO_NETWORK",
         "COMMAND", "ticket", "unlock", "await_ticket", "CLEAR_ADDRESS", "CLEAR_NOTIFY",
         "await_cleared", "next" >>],
    bridge |->
      [h \in {"hart1", "hart2"} |->
         LET load == IF h = "hart1" THEN "FLAGS_FROM_NETWORK" ELSE "FLAGS_FROM_SYSTEM"
             send == IF h = "hart1" THEN "FLAGS_TO_NETWORK" ELSE "FLAGS_TO_SYSTEM"
         IN  << "lock", "check", "RX_HANDLE", "LENGTH", "DESTINATION", load, "COMMAND",
                "ticket", "unlock", "await_ticket",
                "lock", "check", "LENGTH", "SOURCE", send, "COMMAND",
                "ticket", "unlock", "await_ticket", "repeat" >>] ]

Harts == DOMAIN Program[firmware]
Token(h) == IF h = "hart1" THEN 1 ELSE 2

(* The packet hart h is at, and its slot. *)
PacketOf(h) ==
  IF firmware = "bridge" THEN Packet(harts[h].packets + 1) ELSE current_descriptor(fetcher)
SlotOf(h) ==
  IF firmware = "bridge" THEN << Token(h) - 1, 0 >> ELSE << PacketBuffer(fetcher), 0 >>

(* Packets of "forward" are released by flag and by doorbell in turns, and *)
(* packets of "bridge" are loaded by bus and by whole lines in turns.      *)
ByFlag(h) == harts[h].packets % 2 = 0
SendsToSystem(h) == (harts[h].packets + 1) % EVERY = 0

FlagsOf(h, instruction) ==
  CASE instruction = "FLAGS_TO_SYSTEM" -> {"CPU_SYSTEM"}
    [] instruction = "FLAGS_FROM_SYSTEM" -> {"SYSTEM_CPU"}
    [] instruction = "FLAGS_FROM_NETWORK" ->
         {"NETWORK_CPU"} \cup (IF ByFlag(h) THEN {} ELSE {"CACHE_ALLOCATE"})
    [] instruction = "FLAGS_TO_NETWORK" ->
         {"CPU_NETWORK"}
         \cup (IF firmware = "forward" \/ ~ByFlag(h) THEN {"RING_SOURCE"} ELSE {})
         \cup (IF firmware = "forward" /\ ByFlag(h) THEN {"CLEAR_SOURCE_AFTER_TX"} ELSE {})

(* A packet a command has loaded by whole lines is in memory when the      *)
(* count of loaded packets says so; any other command when it is retired.  *)
TicketRetired(h) ==
  IF firmware = "bridge" /\ harts[h].pc = 10 /\ h = "hart1" /\ ~ByFlag(h)
  THEN dma.cache_completed >= (harts[h].packets + 1) \div 2
  ELSE dma.completed >= harts[h].ticket

DescriptorReady == descriptor_command_ready(dma, fetcher.command)

(* Whether an instruction goes on, and the store it makes. *)
Proceeds(h, i) ==
  CASE i = "await_loaded" ->
         {"AVAILABLE", "LOADED"} \subseteq FetcherStatus(fetcher, DescriptorReady)
    [] i = "await_dma_ready" ->
         {"AVAILABLE", "DMA_READY"} \subseteq FetcherStatus(fetcher, DescriptorReady)
    [] i = "await_ready" -> HasRoom(dma)
    [] i = "check" -> dma.lock = Token(h)
    [] i = "await_ticket" -> TicketRetired(h)
    [] i = "await_cleared" -> dma.clear_completed > harts[h].packets
    [] OTHER -> TRUE

StoreOf(h, i) ==
  LET to(register, value) == [register |-> register, value |-> value]
  IN  CASE i = "enable_auto" -> to("CONTROL", {"ENABLE", "AUTO_L2"})
        [] i = "enable" -> to("CONTROL", {"ENABLE"})
        [] i = "lock" -> to("COMMAND_LOCK", Token(h))
        [] i = "unlock" -> to("COMMAND_LOCK", 0)
        [] i = "RX_HANDLE" -> to("RX_HANDLE", PacketOf(h))
        [] i = "LENGTH" -> to("LENGTH", PacketOf(h)[2])
        [] i = "SOURCE" -> to("SOURCE", SlotOf(h))
        [] i = "DESTINATION" -> to("DESTINATION", SlotOf(h))
        [] i \in {"FLAGS_TO_SYSTEM", "FLAGS_FROM_SYSTEM", "FLAGS_TO_NETWORK",
                  "FLAGS_FROM_NETWORK"} -> to("FLAGS", FlagsOf(h, i))
        [] i = "COMMAND" -> to("COMMAND", 1)
        [] i = "CLEAR_ADDRESS" -> to("CLEAR_ADDRESS", SlotOf(h))
        [] i = "CLEAR_NOTIFY" -> to("CLEAR_NOTIFY", 1)
        [] i = "next" -> to("ACTION", {"NEXT"})
        [] i = "next_dma" -> to("ACTION", {"NEXT", IF SendsToSystem(h) THEN "DMA_SYSTEM"
                                                   ELSE "DMA_DISCARD"})
        [] OTHER -> NoStore

Instruction(h) == Program[firmware][h][harts[h].pc]

(* The instruction after this one; the first one of a loop that never ends *)
(* is the second of the program, in "bridge" the first.                    *)
NextPc(h) ==
  LET i == Instruction(h)
      pc == harts[h].pc
  IN  CASE i = "await_loaded" /\ firmware = "ring" /\ ~SendsToSystem(h) ->
             Len(Program.ring.hart1)
        [] i = "check" /\ ~Proceeds(h, i) -> pc - 1
        [] i = "await_ticket" /\ firmware = "forward" /\ ByFlag(h) -> pc + 3
        [] i \in {"next", "next_dma"} -> 2
        [] i = "repeat" -> 1
        [] OTHER -> pc + 1

HartAfter(h) ==
  [ pc |-> NextPc(h),
    ticket |-> IF Instruction(h) = "ticket" THEN dma.issued ELSE harts[h].ticket,
    packets |-> IF Instruction(h) \in {"next", "next_dma", "repeat"}
                THEN harts[h].packets + 1 ELSE harts[h].packets ]

(* A packet that streams to System moves when both sides let it. *)
RxVisible(ev) == "rx" \in ev \/ ("system" \in ev /\ Streams(dma))

(* What PacketDMA sees: a store, what comes from its neighbours, and the   *)
(* answers of the two memories.                                            *)
Input(store, ev, from_l2, from_backing) ==
  [ store |-> store,
    l2 |-> from_l2,
    backing |-> from_backing,
    rx |-> IF RxVisible(ev) THEN LineBeat(Head(reads), read_line) ELSE NoBeat,
    system_rx |-> IF "host" \in ev THEN LineBeat(Packet(from_host[1]), from_host[2])
                  ELSE NoBeat,
    line_ready |-> Len(line_cdc) < LINE_CDC,
    commit |-> "commit" \in ev,
    read_ready |-> Len(reads) < READ_CDC,
    system_tx_ready |-> "system" \in ev,
    network_tx_ready |-> "network" \in ev,
    descriptor |-> fetcher.command ]

(* Hart h has an instruction that goes on.  The edge after a store carries *)
(* its response, not another access.                                       *)
MayAct(h) ==
  /\ ~response
  /\ harts[h].packets < Len(Lengths)
  /\ Proceeds(h, Instruction(h)) \/ Instruction(h) = "check"

HartEvent(ev) == ev \cap Harts

StoreAt(ev) ==
  IF HartEvent(ev) = {} THEN NoStore
  ELSE LET h == CHOOSE x \in HartEvent(ev) : TRUE IN StoreOf(h, Instruction(h))

-----------------------------------------------------------------------------
ClusterInit ==
  /\ firmware \in DOMAIN Plans
  /\ fetcher = FetcherInit
  /\ dma = DMAInit
  /\ arbiter = ArbiterInit
  /\ ddr4 = DDR4Init
  /\ response = FALSE
  /\ l2 = [a \in Addresses |-> Zero]
  /\ ddr = [a \in Addresses |-> Zero]
  /\ line_cdc = << >> /\ commit_cdc = 0
  /\ reads = << >> /\ read_line = 0
  /\ incoming = << 1, 0 >> /\ from_host = << 1, 0 >>
  /\ cpu = [state |-> "IDLE", left |-> Plans[firmware].requests]
  /\ harts = [h \in DOMAIN Program[firmware] |-> [pc |-> 1, ticket |-> 0, packets |-> 0]]
  /\ sent = [system |-> << >>, network |-> << >>]
  /\ refused = FALSE

(* The CPU's own accesses to lower memory, read and write in turns: an     *)
(* address channel that asks until it is taken, then the data.             *)
CpuRequest ==
  [ Idle EXCEPT !.ar = cpu.state = "AR", !.aw = cpu.state = "AW", !.w = cpu.state = "W",
                !.r = cpu.state = "R", !.b = cpu.state = "B",
                !.address = CpuAddress, !.data = << "cpu" >> ]

CpuEdge(started, from) ==
  CASE cpu.state = "IDLE" /\ started ->
         [state |-> IF cpu.left % 2 = 0 THEN "AW" ELSE "AR", left |-> cpu.left - 1]
    [] cpu.state = "AR" /\ from.arready -> [cpu EXCEPT !.state = "R"]
    [] cpu.state = "AW" /\ from.awready -> [cpu EXCEPT !.state = "W"]
    [] cpu.state = "W" /\ from.wready -> [cpu EXCEPT !.state = "B"]
    [] cpu.state = "B" /\ from.bvalid -> [cpu EXCEPT !.state = "IDLE"]
    [] cpu.state = "R" /\ from.rvalid -> [cpu EXCEPT !.state = "IDLE"]
    [] OTHER -> cpu

(* L2 answers a request of PacketDMA, on any channel, when it likes. *)
L2Answer(ev) ==
  LET yes == "l2" \in ev
      a == l2_dma(dma).address
  IN  [awready |-> yes, wready |-> yes, bvalid |-> yes, arready |-> yes, rvalid |-> yes,
       rdata |-> IF a \in Addresses THEN l2[a] ELSE Zero]

(* A descriptor waits in its crossing word by word. *)
WordAt(ev) ==
  IF "descriptor" \notin ev THEN NoWord
  ELSE [packet |-> Packet(incoming[1]), word |-> incoming[2], sop |-> incoming[2] = 0,
        eop |-> incoming[2] + 1 = DESCRIPTOR_WORDS]

(* << packet, part >> after one more part of `parts`. *)
Advanced(pair, parts) ==
  IF pair[2] + 1 = parts THEN << pair[1] + 1, 0 >> ELSE << pair[1], pair[2] + 1 >>

(* What may happen at this edge. *)
Events ==
  {e \in {"descriptor", "rx", "host", "line", "commit", "ddr", "l2", "system", "network",
          "cpu"} \cup Harts :
     CASE e = "descriptor" -> incoming[1] \in Packets /\ descriptor_ready(fetcher)
       [] e = "rx" -> /\ reads # << >> /\ ~Streams(dma)
                      /\ \/ dma.prefetch.state = "STREAM"
                         \/ (dma.state = "WAIT_INPUT" /\ Is(dma, "NETWORK_CPU"))
       [] e = "host" -> from_host[1] \in Packets /\ system_rx_ready(dma)
       [] e = "line" -> line_cdc # << >> /\ (Head(line_cdc).eop => commit_cdc < COMMIT_CDC)
       [] e = "commit" -> commit_cdc > 0
       [] e = "ddr" -> ddr4.state \in {"WRITE_WORD", "READ_WORD", "READ_WAIT"}
       [] e = "l2" -> \/ l2_dma(dma).ar \/ l2_dma(dma).r
                      \/ l2_dma(dma).aw \/ l2_dma(dma).w \/ l2_dma(dma).b
       [] e = "system" -> IF Streams(dma) THEN reads # << >>
                          ELSE system_tx(dma, NoBeat) # NoBeat
       [] e = "network" -> network_tx(dma) # NoBeat
       [] e = "cpu" -> cpu.state = "IDLE" /\ cpu.left > 0
       [] e \in Harts -> MayAct(e)}

(* One edge with the given events. *)
Edge(ev) ==
  LET packet == backing_dma(dma)
      to == ToMemory(arbiter, CpuRequest, packet)
      from == FromDDR4(ddr4, to)
      in == Input(StoreAt(ev), ev, L2Answer(ev), ToPacket(arbiter, CpuRequest, packet, from))
      ready == DescriptorReady /\ fetcher.command # << >>
      read == rx_read(dma, fetcher.command)
      rx_taken == RxVisible(ev) /\ rx_ready(dma, in)
      line == l2_line(dma, in.rx)
      pushed == l2_line_valid(dma, in.rx) /\ in.line_ready
      l2_written == dma.state = "WRITE_RESPONSE" /\ in.l2.bvalid
  IN  /\ wready(dma, in)
      /\ fetcher' = FetcherEdge(fetcher, in.store, WordAt(ev), DescriptorReady,
                                dma.cache_completed)
      /\ dma' = DMAEdge(dma, in)
      /\ arbiter' = ArbiterEdge(arbiter, CpuRequest, packet, from)
      /\ ddr4' = DDR4Edge(ddr4, to, "ddr" \in ev,
                          IF ddr4.address \in Addresses THEN ddr[ddr4.address] ELSE Zero)
      /\ ddr' = IF Stores(ddr4, "ddr" \in ev) /\ ddr4.address \in Addresses
                THEN [ddr EXCEPT ![ddr4.address] = ddr4.data] ELSE ddr
      /\ l2' = IF "line" \in ev
               THEN [l2 EXCEPT ![Head(line_cdc).address] = Head(line_cdc).data]
               ELSE IF l2_written
               THEN [l2 EXCEPT ![l2_dma(dma).address] = l2_dma(dma).data] ELSE l2
      /\ line_cdc' = (IF "line" \in ev THEN Tail(line_cdc) ELSE line_cdc)
                     \o (IF pushed THEN << line >> ELSE << >>)
      /\ commit_cdc' = commit_cdc
                       + (IF "line" \in ev /\ Head(line_cdc).eop THEN 1 ELSE 0)
                       - (IF "commit" \in ev THEN 1 ELSE 0)
      /\ reads' = (IF rx_taken /\ in.rx.eop THEN Tail(reads) ELSE reads)
                  \o (IF in.read_ready THEN read ELSE << >>)
      /\ read_line' = IF ~rx_taken THEN read_line ELSE IF in.rx.eop THEN 0 ELSE read_line + 1
      /\ incoming' = IF "descriptor" \in ev THEN Advanced(incoming, DESCRIPTOR_WORDS)
                     ELSE incoming
      /\ from_host' = IF "host" \in ev THEN Advanced(from_host, Packet(from_host[1])[2])
                      ELSE from_host
      /\ cpu' = CpuEdge("cpu" \in ev, ToCpu(arbiter, CpuRequest, packet, from))
      /\ harts' = [h \in Harts |-> IF h \in ev THEN HartAfter(h) ELSE harts[h]]
      /\ sent' = [system |-> IF "system" \in ev /\ system_tx(dma, in.rx) # NoBeat
                             THEN Append(sent.system, system_tx(dma, in.rx).data)
                             ELSE sent.system,
                  network |-> IF "network" \in ev
                              THEN Append(sent.network, network_tx(dma).data)
                              ELSE sent.network]
      /\ response' = (in.store # NoStore)
      /\ refused' = (refused \/ Refuses(dma, in))
      /\ UNCHANGED firmware

(* Nothing in flight, nothing to come. *)
AtRest ==
  /\ Events = {}
  /\ dma.state = "IDLE" /\ dma.commands = << >> /\ dma.prefetch.state = "IDLE"
  /\ dma.backing = << >> /\ dma.backing_state = "IDLE" /\ dma.post_clear = << >>
  /\ fetcher.command = << >> /\ fetcher.cache_completed_seen = dma.cache_completed
  /\ line_cdc = << >> /\ commit_cdc = 0
  /\ arbiter.state = "IDLE" /\ cpu.state = "IDLE" /\ ~response

(* An edge that changes nothing is no step: only a cluster at rest stands, *)
(* or one that has asked for its packets in another order than it takes    *)
(* them and may wait for ever.                                             *)
ActiveEdge ==
  \E ev \in SUBSET Events :
    /\ Cardinality(ev) <= SIMULTANEOUS
    /\ Cardinality(HartEvent(ev)) <= 1
    /\ ~({"line", "l2"} \subseteq ev)
    /\ Edge(ev)
    /\ vars' # vars

Rest == (AtRest \/ refused) /\ UNCHANGED vars

Next == ActiveEdge \/ Rest

Spec == ClusterInit /\ [][Next]_vars

-----------------------------------------------------------------------------
TypeOK ==
  /\ firmware \in DOMAIN Plans
  /\ fetcher.count \in 0 .. FETCH_DEPTH /\ fetcher.head \in 0 .. FETCH_DEPTH - 1
  /\ Len(fetcher.command) <= 1
  /\ Len(dma.commands) <= CMD_DEPTH
  /\ Len(dma.backing) <= BACKING_DEPTH
  /\ Len(dma.post_clear) <= CLEAR_DEPTH
  /\ dma.moved \in 0 .. LongestPacket
  /\ dma.state = "IDLE" \/ dma.commands # << >>
  /\ \A a \in Addresses : {l2[a], ddr[a]} \subseteq
       {Zero} \cup {Line(Packet(k), i) : k \in Packets, i \in 0 .. LongestPacket - 1}
  /\ Len(line_cdc) <= LINE_CDC /\ commit_cdc \in 0 .. COMMIT_CDC /\ Len(reads) <= READ_CDC

(* Neither device ever reports a protocol error to this firmware, unless   *)
(* the crossing has refused the read of a descriptor's command.            *)
NoError == refused \/ (~fetcher.protocol_error /\ ~dma.protocol_error)

Holds(memory, p, slot) ==
  \A i \in 0 .. p[2] - 1 : memory[<< slot, i >>] = Line(p, i)

(* A descriptor that software sees as loaded has every line of its packet  *)
(* at its buffer, in the cache and in DDR, until software works on it.     *)
LoadedIsReady ==
  \A n \in 0 .. fetcher.count - 1 :
    LET i == (fetcher.head + n) % FETCH_DEPTH
    IN  fetcher.loaded[i] /\ (n # 0 \/ Instruction("hart1") = "await_loaded") =>
          /\ Holds(l2, fetcher.queue[i], fetcher.buffer[i])
          /\ Holds(ddr, fetcher.queue[i], fetcher.buffer[i])

(* What leaves for System and Network are the packets the firmware sends   *)
(* there, whole, once each and in order, unless a read was refused.        *)
LinesOf(ks) ==
  FlattenSeq([j \in 1 .. Len(ks) |-> [i \in 1 .. Lengths[ks[j]] |-> Line(Packet(ks[j]), i - 1)]])

ToSystem ==
  CASE firmware \in {"ring", "fast"} -> SelectSeq([k \in Packets |-> k], LAMBDA k : k % EVERY = 0)
    [] firmware = "forward" -> << >>
    [] firmware = "bridge" -> [k \in Packets |-> k]

ToNetwork == IF firmware \in {"forward", "bridge"} THEN [k \in Packets |-> k] ELSE << >>

SentIntact ==
  refused \/ /\ IsPrefix(sent.system, LinesOf(ToSystem))
             /\ IsPrefix(sent.network, LinesOf(ToNetwork))

(* The lines that arrive are those of the packet they are taken for: reads *)
(* are asked for in the order in which the commands run.  This is what the *)
(* documentation promises, and what the code does not keep: the packet of  *)
(* a command whose read was refused comes after those of later commands.   *)
LinesMatch ==
  reads # << >> =>
    /\ dma.prefetch.state = "STREAM" => Head(reads) = dma.prefetch.packet
    /\ dma.state = "WAIT_INPUT" /\ Is(dma, "NETWORK_CPU") => Head(reads) = dma.active.RX_HANDLE

(* As long as no read of a descriptor's command was refused, the order is  *)
(* kept, whatever the sizes of the crossing and of the queue of commands.  *)
ReadsMatch == refused \/ LinesMatch

(* Between taking the lock and giving it back a hart is the only one that  *)
(* owns the staged registers.                                              *)
Owns(h) ==
  LET program == Program[firmware][h]
      pc == harts[h].pc
      since == {i \in 1 .. pc - 1 : program[i] = "check"}
  IN  \E i \in since : \A j \in i .. pc - 1 : program[j] # "unlock"

StagingExclusive == \A h \in Harts : Owns(h) => dma.lock = Token(h)

(* An answer of lower memory goes to the master that asked for it, and     *)
(* that master is waiting for it.                                          *)
AnswersReachOwner ==
  /\ arbiter.state = "IDLE" => ddr4.state = "IDLE"
  /\ arbiter.state = "WRITE_RESPONSE" =>
       IF arbiter.packet_owner
       THEN dma.backing_state = "RESPONSE" /\ ddr4.address = Head(dma.backing).address
       ELSE cpu.state = "B" /\ ddr4.address = CpuAddress
  /\ arbiter.state = "READ_DATA" =>
       IF arbiter.packet_owner
       THEN dma.state = "READ_DATA" /\ ReadsRing(dma)
       ELSE cpu.state = "R"
  /\ dma.backing_state = "RESPONSE" => arbiter.state = "WRITE_RESPONSE" /\ arbiter.packet_owner
  /\ cpu.state = "B" => arbiter.state = "WRITE_RESPONSE" /\ ~arbiter.packet_owner

(* When the cluster comes to rest every packet has been worked on, and all *)
(* that was to be sent is sent: nothing waits for what will never come,    *)
(* as long as no read was refused.                                         *)
ServedAtRest ==
  AtRest /\ ~refused =>
    /\ \A h \in Harts : harts[h].packets = Len(Lengths)
    /\ sent.system = LinesOf(ToSystem)
    /\ sent.network = LinesOf(ToNetwork)
=============================================================================
