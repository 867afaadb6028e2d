-------------------------- MODULE DescriptorFetcher -------------------------
(***************************************************************************)
(* The queue of receive descriptors in front of one cluster of CPUs        *)
(* (rtl/processing/DescriptorFetcher.h): its registers are a record, and   *)
(* FetcherEdge is what one clock edge makes of them.                       *)
(*                                                                         *)
(* A descriptor is the packet it describes, brought in DESCRIPTOR_WORDS    *)
(* words.  An address of the packet ring is the number of its slot.  The   *)
(* tail pointer is head plus count.                                        *)
(***************************************************************************)
EXTENDS Integers, Sequences

CONSTANTS
  FETCH_DEPTH,        (* descriptors the queue holds, DEPTH of the code    *)
  DESCRIPTOR_WORDS,   (* words of a descriptor                             *)
  SLOTS               (* slots of the packet ring, auto_slot_mask plus one *)

ASSUME FetcherAssumption ==
  /\ FETCH_DEPTH \in Nat \ {0}
  /\ DESCRIPTOR_WORDS \in Nat \ {0}
  /\ SLOTS \in Nat \ {0}

NoPacket == << 0, 0 >>    (* a cleared descriptor *)
NoStore == [register |-> "NONE", value |-> {}]
NoWord == [packet |-> NoPacket, word |-> -1, sop |-> FALSE, eop |-> FALSE]

(* The registers after reset. *)
FetcherInit ==
  [ queue |-> [i \in 0 .. FETCH_DEPTH - 1 |-> NoPacket],
    loaded |-> [i \in 0 .. FETCH_DEPTH - 1 |-> FALSE],
    buffer |-> [i \in 0 .. FETCH_DEPTH - 1 |-> i % SLOTS],
    head |-> 0, count |-> 0, load_head |-> 0,
    assembly |-> NoPacket, assembly_active |-> FALSE, assembly_word |-> 0,
    enabled |-> FALSE, auto_l2 |-> FALSE, auto_sequence |-> 0,
    command |-> << >>,             (* none or one, held until it is taken  *)
    cache_completed_seen |-> 0, retired |-> 0,
    protocol_error |-> FALSE ]

Next_i(i) == (i + 1) % FETCH_DEPTH

tail(f) == (f.head + f.count) % FETCH_DEPTH

current_descriptor(f) == IF f.count = 0 THEN NoPacket ELSE f.queue[f.head]

descriptor_ready(f) ==
  /\ f.enabled
  /\ f.count < FETCH_DEPTH
  /\ f.auto_l2 => f.command = << >>

packet_loaded(f) == f.count # 0 /\ f.loaded[f.head]

(* The bits of REG_STATUS. *)
FetcherStatus(f, command_ready) ==
  {bit \in {"AVAILABLE", "PREFETCH_ENABLED", "PROTOCOL_ERROR", "DMA_READY", "LOADED"} :
     CASE bit = "AVAILABLE" -> f.count # 0
       [] bit = "PREFETCH_ENABLED" -> f.enabled
       [] bit = "PROTOCOL_ERROR" -> f.protocol_error
       [] bit = "DMA_READY" -> command_ready
       [] bit = "LOADED" -> packet_loaded(f)}

PacketBuffer(f) == f.buffer[f.head]

Command(packet, system, cache, buffer) ==
  << [packet |-> packet, system |-> system, cache |-> cache, buffer |-> buffer] >>

-----------------------------------------------------------------------------
(* What one edge does, in the order of the code; every stage takes the     *)
(* registers f as they were and e, what the stages before it made of them. *)
RetireCommand(f, command_ready) ==
  IF command_ready THEN [f EXCEPT !.command = << >>] ELSE f

Pop(e) ==
  [e EXCEPT !.loaded[e.head] = FALSE, !.head = Next_i(@),
            !.count = @ - 1, !.retired = @ + 1]

(* A store to REG_ACTION. *)
Action(f, e, bits, command_ready) ==
  LET dma == bits \cap {"DMA_DISCARD", "DMA_SYSTEM"}
  IN  IF "NEXT" \notin bits THEN e
      ELSE IF dma = {} THEN (IF f.count # 0 THEN Pop(e) ELSE e)
      ELSE IF f.count # 0 /\ command_ready /\ dma # {"DMA_DISCARD", "DMA_SYSTEM"}
      THEN [Pop(e) EXCEPT !.command =
              Command(current_descriptor(f), "DMA_SYSTEM" \in bits, FALSE, 0)]
      ELSE [e EXCEPT !.protocol_error = TRUE]

FetcherStore(f, e, store, command_ready) ==
  CASE store.register = "CONTROL" ->
         [e EXCEPT !.enabled = "ENABLE" \in store.value,
                   !.auto_l2 = "AUTO_L2" \in store.value]
    [] store.register = "ACTION" -> Action(f, e, store.value, command_ready)
    [] OTHER -> e

(* The last word is in: a descriptor enters the queue and, in automatic    *)
(* mode, sends its packet to the next slot of the ring.                    *)
Enqueue(f, e, packet) ==
  LET buffer == IF f.auto_l2 THEN f.auto_sequence % SLOTS ELSE tail(f) % SLOTS
      queued == [e EXCEPT !.queue[tail(f)] = packet, !.buffer[tail(f)] = buffer,
                          !.loaded[tail(f)] = FALSE, !.count = @ + 1]
  IN  IF f.auto_l2
      THEN [queued EXCEPT !.command = Command(packet, FALSE, TRUE, buffer),
                          !.auto_sequence = (@ + 1) % SLOTS]
      ELSE queued

FetcherWord(f, e, w) ==
  LET bad == \/ w.word >= DESCRIPTOR_WORDS
             \/ (w.sop /\ (f.assembly_active \/ w.word # 0))
             \/ (~w.sop /\ ~f.assembly_active)
             \/ w.word # f.assembly_word
             \/ (w.eop /\ w.word # DESCRIPTOR_WORDS - 1)
      noted == [e EXCEPT !.protocol_error = @ \/ bad,
                         !.assembly = IF w.eop THEN NoPacket ELSE w.packet,
                         !.assembly_active = (~w.eop /\ (@ \/ w.sop)),
                         !.assembly_word = IF w.eop THEN 0 ELSE w.word + 1]
  IN  IF w = NoWord \/ ~descriptor_ready(f) THEN e
      ELSE IF w.eop THEN Enqueue(f, noted, w.packet) ELSE noted

(* PacketDMA counts the packets it has loaded; a count that moved marks    *)
(* the oldest descriptor not marked yet.                                   *)
MarkLoaded(f, e, cache_completed) ==
  IF cache_completed = f.cache_completed_seen THEN e
  ELSE [e EXCEPT !.loaded[f.load_head] = TRUE, !.load_head = Next_i(@),
                 !.cache_completed_seen = cache_completed]

FetcherEdge(f, store, word, command_ready, cache_completed) ==
  MarkLoaded(f,
    FetcherWord(f,
      FetcherStore(f, RetireCommand(f, command_ready), store, command_ready),
      word),
    cache_completed)
=============================================================================
