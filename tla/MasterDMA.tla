----------------------------- MODULE MasterDMA -----------------------------
(***************************************************************************)
(* The host DMA engine (rtl/system/MasterDMA.h) with its Avalon pins       *)
(* (HOST_AXI4 = 0).  It takes one command at a time: queue to host, it     *)
(* writes a whole RxQueue packet to a posted buffer; host to queue, it     *)
(* reads one fragment of a packet and writes it to a TxQueue.  The host    *)
(* side moves two queue beats at a time.                                   *)
(*                                                                         *)
(* One action per state of the engine, each for one sys_clk edge; its      *)
(* parameters are what the engine sees on its pins.  Data under a cleared  *)
(* keep bit is not kept: a half beat is the sequence of its bytes.         *)
(***************************************************************************)
EXTENDS Integers, Sequences, FiniteSetsExt

CONSTANTS
  QUEUE_DATA_BYTES,    (* bytes of a queue beat, half of a host beat       *)
  ALIGNMENT            (* lengths the engine accepts are multiples of it   *)

ASSUME MasterDMAAssumption ==
  {QUEUE_DATA_BYTES, ALIGNMENT} \subseteq Nat \ {0}

DATA_BYTES == 2 * QUEUE_DATA_BYTES

VARIABLES
  state, direction, queue,
  transfer,     (* address (from the command's), remaining, the command's  *)
                (*   sop and eop, first_beat                               *)
  beat,         (* the host beat: its two halves, eop                      *)
  out,          (* the beat offered to the TxQueue                         *)
  completion_valid,
  dma_error,    (* protocol_error_reg                                      *)
  host          (* host memory from the command's address on               *)

dmaVars == << state, direction, queue, transfer, beat, out,
              completion_valid, dma_error, host >>

Junk == << >>            (* a byte of host memory nobody wrote *)

DMAInit ==
  /\ state = "IDLE" /\ direction = "queue to host" /\ queue = 0
  /\ transfer = [address |-> 0, remaining |-> 0, sop |-> FALSE,
                 eop |-> FALSE, first_beat |-> FALSE]
  /\ beat = [low |-> << >>, high |-> << >>, eop |-> FALSE]
  /\ out = [bytes |-> << >>, sop |-> FALSE, eop |-> FALSE]
  /\ completion_valid = FALSE
  /\ dma_error = FALSE
  /\ host = << >>

-----------------------------------------------------------------------------
command_ready     == state = "IDLE"
queue_input_ready == state \in {"WAIT_QUEUE", "WAIT_QUEUE_SECOND"}
queue_output_valid == state \in {"SEND_QUEUE", "SEND_QUEUE_SECOND"}

(* The command is dropped, not completed, if it is malformed.  Buffer      *)
(* addresses are aligned.                                                  *)
AcceptCommand(command) ==
  LET malformed == command.length = 0 \/ command.length % ALIGNMENT # 0
  IN  /\ state' = IF malformed THEN "IDLE"
                  ELSE IF command.direction = "queue to host"
                  THEN "WAIT_QUEUE" ELSE "READ_ADDRESS"
      /\ direction' = command.direction
      /\ queue' = command.queue
      /\ transfer' = [address |-> 0, remaining |-> command.length,
                      sop |-> command.sop, eop |-> command.eop,
                      first_beat |-> TRUE]
      /\ dma_error' = (dma_error \/ malformed)
      /\ host' = command.bytes
      /\ completion_valid' = FALSE
      /\ UNCHANGED << beat, out >>

(* Queue to host: two queue beats, or one that ends the packet. *)
WaitQueue(in) ==
  /\ beat' = [low |-> in.bytes, high |-> << >>, eop |-> in.eop]
  /\ dma_error' = (dma_error \/ transfer.first_beat # in.sop)
  /\ state' = IF in.eop THEN "WRITE_ADDRESS" ELSE "WAIT_QUEUE_SECOND"
  /\ completion_valid' = FALSE
  /\ UNCHANGED << direction, queue, transfer, out, host >>

WaitQueueSecond(in) ==
  /\ beat' = [beat EXCEPT !.high = in.bytes, !.eop = in.eop]
  /\ dma_error' = (dma_error \/ in.sop)
  /\ state' = "WRITE_ADDRESS"
  /\ completion_valid' = FALSE
  /\ UNCHANGED << direction, queue, transfer, out, host >>

kept_bytes == Len(beat.low) + Len(beat.high)
keep_gap   == Len(beat.low) < QUEUE_DATA_BYTES /\ beat.high # << >>

(* The host memory with the beat written at the engine's address. *)
HostWritten ==
  LET at == transfer.address + QUEUE_DATA_BYTES
      lows == transfer.address + 1 .. transfer.address + Len(beat.low)
      highs == at + 1 .. at + Len(beat.high)
  IN  [i \in DOMAIN host \cup lows \cup highs |->
         IF i \in lows THEN beat.low[i - transfer.address]
         ELSE IF i \in highs THEN beat.high[i - at] ELSE host[i]]

(* A mistake: the address stays at the first beat of the buffer.           *)
Advance_SameAddress(bytes) == [transfer EXCEPT !.remaining = @ - bytes,
                                               !.first_beat = FALSE]

Advance(bytes) == [transfer EXCEPT !.address = @ + bytes,
                                   !.remaining = @ - bytes,
                                   !.first_beat = FALSE]

(* A mistake: nothing tells of a packet that is more than one host beat.   *)
WriteAddress_Silent ==
  /\ host' = HostWritten
  /\ dma_error' = (dma_error \/ kept_bytes > transfer.remaining)
  /\ completion_valid' = (beat.eop /\ transfer.first_beat)
  /\ IF beat.eop
     THEN state' = "IDLE" /\ UNCHANGED transfer
     ELSE state' = "WAIT_QUEUE" /\ transfer' = Advance(kept_bytes)
  /\ UNCHANGED << direction, queue, beat, out >>

WriteAddress ==
  /\ host' = HostWritten
  /\ dma_error' = \/ dma_error \/ keep_gap
                  \/ kept_bytes = 0 \/ kept_bytes > transfer.remaining
                  \/ beat.eop /\ kept_bytes # transfer.remaining
  /\ IF beat.eop
     THEN state' = "IDLE" /\ completion_valid' = TRUE /\ UNCHANGED transfer
     ELSE /\ state' = "WAIT_QUEUE" /\ completion_valid' = FALSE
          /\ transfer' = Advance(kept_bytes)
  /\ UNCHANGED << direction, queue, beat, out >>

(* Host to queue: one read, then its halves to the queue. *)
ReadAddress ==
  /\ state' = "READ_DATA" /\ completion_valid' = FALSE
  /\ UNCHANGED << direction, queue, transfer, beat, out, dma_error, host >>

(* n bytes of host memory from the engine's address plus skip. *)
HostBytes(skip, n) ==
  [i \in 1 .. n |->
     LET at == transfer.address + skip + i
     IN  IF at \in DOMAIN host THEN host[at] ELSE Junk]

(* A mistake: the high half carries what is left after the whole beat.     *)
Half_Short(skip) ==
  HostBytes(skip, Max({0, Min({transfer.remaining - 2 * skip,
                               QUEUE_DATA_BYTES})}))

(* Half a host beat, under the keep bits the remaining length leaves. *)
Half(skip) == HostBytes(skip, Max({0, Min({transfer.remaining - skip,
                                           QUEUE_DATA_BYTES})}))

ReadData ==
  /\ beat' = [low |-> Half(0), high |-> Half(QUEUE_DATA_BYTES),
              eop |-> transfer.remaining <= DATA_BYTES /\ transfer.eop]
  /\ out' = [bytes |-> Half(0), sop |-> transfer.first_beat /\ transfer.sop,
             eop |-> transfer.remaining <= QUEUE_DATA_BYTES /\ transfer.eop]
  /\ state' = "SEND_QUEUE" /\ completion_valid' = FALSE
  /\ UNCHANGED << direction, queue, transfer, dma_error, host >>

SendQueue ==
  /\ IF transfer.remaining <= QUEUE_DATA_BYTES
     THEN state' = "IDLE" /\ completion_valid' = TRUE /\ UNCHANGED out
     ELSE /\ state' = "SEND_QUEUE_SECOND" /\ completion_valid' = FALSE
          /\ out' = [bytes |-> beat.high, sop |-> FALSE,
                     eop |-> transfer.remaining <= DATA_BYTES /\ transfer.eop]
  /\ UNCHANGED << direction, queue, transfer, beat, dma_error, host >>

(* A mistake: nothing tells of a command that ends in the high half.       *)
SendQueueSecond_Silent ==
  /\ completion_valid' = FALSE
  /\ IF transfer.remaining <= DATA_BYTES
     THEN state' = "IDLE" /\ UNCHANGED transfer
     ELSE state' = "READ_ADDRESS" /\ transfer' = Advance(DATA_BYTES)
  /\ UNCHANGED << direction, queue, beat, out, dma_error, host >>

SendQueueSecond ==
  /\ IF transfer.remaining <= DATA_BYTES
     THEN state' = "IDLE" /\ completion_valid' = TRUE /\ UNCHANGED transfer
     ELSE /\ state' = "READ_ADDRESS" /\ completion_valid' = FALSE
          /\ transfer' = Advance(DATA_BYTES)
  /\ UNCHANGED << direction, queue, beat, out, dma_error, host >>

Stay == completion_valid' = FALSE
        /\ UNCHANGED << state, direction, queue, transfer, beat, out,
                        dma_error, host >>

(* One edge.  command is the command offered or {}, in the beats offered   *)
(* (a set of one or none), out_ready whether the queue takes the output    *)
(* beat, host_ready the host side: waitrequest is low, readdata is valid.  *)
MasterDMA_work(command, in, out_ready, host_ready) ==
  \/ /\ state = "IDLE"
     /\ \/ \E c \in command : AcceptCommand(c)
        \/ command = {} /\ Stay
  \/ /\ state = "WAIT_QUEUE"
     /\ (\E b \in in : WaitQueue(b)) \/ (in = {} /\ Stay)
  \/ /\ state = "WAIT_QUEUE_SECOND"
     /\ (\E b \in in : WaitQueueSecond(b)) \/ (in = {} /\ Stay)
  \/ state = "WRITE_ADDRESS" /\ IF host_ready THEN WriteAddress ELSE Stay
  \/ state = "READ_ADDRESS" /\ IF host_ready THEN ReadAddress ELSE Stay
  \/ state = "READ_DATA" /\ IF host_ready THEN ReadData ELSE Stay
  \/ state = "SEND_QUEUE" /\ IF out_ready THEN SendQueue ELSE Stay
  \/ state = "SEND_QUEUE_SECOND" /\ IF out_ready THEN SendQueueSecond ELSE Stay
=============================================================================
