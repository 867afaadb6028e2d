----------------------------- MODULE Controller ----------------------------
(***************************************************************************)
(* The host-visible controller (rtl/system/Controller.h): two descriptor   *)
(* rings the driver fills, and one DMA command at a time issued from them. *)
(* A receive descriptor [queue, length] names a queue and a buffer; a      *)
(* transmit descriptor [queue, bytes, eop] is a fragment of a packet, the  *)
(* bytes at its address.                                                   *)
(*                                                                         *)
(* Controller_work is one sys_clk edge; its parameters are what the driver *)
(* does on the control bus, what the DMA engine and the queues show.  The  *)
(* count of completed commands and the registers that only report other    *)
(* state to the driver are left out.                                       *)
(***************************************************************************)
EXTENDS Integers, Sequences

CONSTANTS
  QUEUES,
  RING_DEPTH

ASSUME RingAssumption == RING_DEPTH \in Nat \ {0, 1}
ASSUME QueuesAssumption == 0 \in QUEUES /\ QUEUES \subseteq Nat

VARIABLES
  enabled,
  rx_ring, rx_producer, rx_consumer,
  tx_ring, tx_producer, tx_consumer,
  tx_packet_start, tx_packet_queue,   (* the packet being assembled        *)
  command_valid, command,             (* the command offered to the engine *)
  dma_active, active_direction,
  protocol_error

rxVars == << rx_ring, rx_producer, rx_consumer >>
txVars == << tx_ring, tx_producer, tx_consumer >>
ctlVars == << enabled, rxVars, txVars, tx_packet_start, tx_packet_queue,
              command_valid, command, dma_active, active_direction,
              protocol_error >>

Slots == 0 .. RING_DEPTH - 1

After_Unwrapped(i) == i + 1          (* a mistake: the index does not wrap  *)
After(i) == (i + 1) % RING_DEPTH

(* Descriptors posted and not consumed: a full ring looks empty. *)
Posted(producer, consumer) == (producer - consumer) % RING_DEPTH

NoRxDescriptor == [queue |-> 0, length |-> 0]
NoTxDescriptor == [queue |-> 0, bytes |-> << >>, eop |-> FALSE]

ControllerInit ==
  /\ enabled = FALSE
  /\ rx_ring = [i \in Slots |-> NoRxDescriptor]
  /\ tx_ring = [i \in Slots |-> NoTxDescriptor]
  /\ rx_producer = 0 /\ rx_consumer = 0
  /\ tx_producer = 0 /\ tx_consumer = 0
  /\ tx_packet_start = TRUE /\ tx_packet_queue = 0
  /\ command_valid = FALSE
  /\ command = [direction |-> "queue to host", queue |-> 0, length |-> 0,
                sop |-> FALSE, eop |-> FALSE, bytes |-> << >>]
  /\ dma_active = FALSE /\ active_direction = "queue to host"
  /\ protocol_error = FALSE

-----------------------------------------------------------------------------
(* The control bus.  The driver fills the slot at the producer index word  *)
(* by word before it moves the index: one step, nobody reads the slot in   *)
(* between.  A read of any register is all the same to what follows.       *)
Nothing   == [op |-> "nothing"]
Read      == [op |-> "read"]
Enable    == [op |-> "enable"]
Disable   == [op |-> "disable"]
PostRx(d) == [op |-> "post rx", descriptor |-> d]
PostTx(d) == [op |-> "post tx", descriptor |-> d]

HostWrite(bus) ==
  /\ enabled' = (bus.op = "enable" \/ (enabled /\ bus.op # "disable"))
  /\ IF bus.op = "post rx"
     THEN /\ rx_ring' = [rx_ring EXCEPT ![rx_producer] = bus.descriptor]
          /\ rx_producer' = After(rx_producer)
     ELSE UNCHANGED << rx_ring, rx_producer >>
  /\ IF bus.op = "post tx"
     THEN /\ tx_ring' = [tx_ring EXCEPT ![tx_producer] = bus.descriptor]
          /\ tx_producer' = After(tx_producer)
     ELSE UNCHANGED << tx_ring, tx_producer >>

-----------------------------------------------------------------------------
(* A completion moves the consumer of the ring its command came from; one  *)
(* that answers no command, or another, is an error.                       *)
Stray(done) == \/ ~dma_active
               \/ done.direction # active_direction
               \/ done.queue # command.queue

(* A mistake: a fragment that ends a packet does not start the next one.   *)
Complete_StaleStart(done) ==
  LET good == done.valid /\ ~Stray(done)
      rx == good /\ active_direction = "queue to host"
      tx == good /\ active_direction # "queue to host"
  IN  /\ rx_consumer' = IF rx THEN After(rx_consumer) ELSE rx_consumer
      /\ tx_consumer' = IF tx THEN After(tx_consumer) ELSE tx_consumer
      /\ UNCHANGED tx_packet_start

Complete(done) ==
  LET good == done.valid /\ ~Stray(done)
      rx == good /\ active_direction = "queue to host"
      tx == good /\ active_direction # "queue to host"
  IN  /\ rx_consumer' = IF rx THEN After(rx_consumer) ELSE rx_consumer
      /\ tx_consumer' = IF tx THEN After(tx_consumer) ELSE tx_consumer
      /\ tx_packet_start' = IF tx THEN command.eop ELSE tx_packet_start

(* A mistake: a command is issued while the one before it is under way.    *)
MayIssue_WhileActive(bus) == enabled /\ ~command_valid /\ bus.op # "read"

(* A command may be issued: never beside a readback, which owns the rings' *)
(* read address.                                                           *)
MayIssue(bus) == enabled /\ ~command_valid /\ ~dma_active /\ bus.op # "read"

RxWaiting == rx_consumer # rx_producer
TxWaiting == tx_consumer # tx_producer

(* The receive descriptor at the consumer, against its queue.  rx_length   *)
(* is the length at the head of a queue's length FIFO, whatever was there  *)
(* last if it is empty.                                                    *)
RxLength(rx_length) ==
  LET q == rx_ring[rx_consumer].queue
  IN  IF q \in QUEUES THEN rx_length[q] ELSE 0

(* A mistake: the buffer need not be as long as the packet.                *)
RxFits_AnyLength(rx_empty, rx_length) ==
  LET d == rx_ring[rx_consumer]
  IN  d.queue \in QUEUES /\ ~rx_empty[d.queue] /\ RxLength(rx_length) # 0

RxFits(rx_empty, rx_length) ==
  LET d == rx_ring[rx_consumer]
  IN  /\ d.queue \in QUEUES /\ ~rx_empty[d.queue]
      /\ RxLength(rx_length) # 0 /\ d.length >= RxLength(rx_length)

RxBad(rx_length) ==
  LET d == rx_ring[rx_consumer]
  IN  \/ d.queue \notin QUEUES
      \/ RxLength(rx_length) # 0 /\ d.length < RxLength(rx_length)

RxCommand(rx_length) ==
  [direction |-> "queue to host", queue |-> rx_ring[rx_consumer].queue,
   length |-> RxLength(rx_length), sop |-> TRUE, eop |-> TRUE,
   bytes |-> << >>]

(* The transmit descriptor at the consumer: the first fragment of a packet *)
(* chooses the queue, the others must keep to it.                          *)
TxOther == ~tx_packet_start /\ tx_ring[tx_consumer].queue # tx_packet_queue

TxFits(tx_full) ==
  LET d == tx_ring[tx_consumer]
  IN  /\ d.queue \in QUEUES /\ ~tx_full[d.queue]
      /\ Len(d.bytes) # 0 /\ ~TxOther

TxBad == tx_ring[tx_consumer].queue \notin QUEUES \/ TxOther

TxCommand ==
  LET d == tx_ring[tx_consumer]
  IN  [direction |-> "host to queue", queue |-> d.queue,
       length |-> Len(d.bytes), sop |-> tx_packet_start, eop |-> d.eop,
       bytes |-> d.bytes]

IssueRx(rx_length) ==
  /\ command_valid' = TRUE
  /\ command' = RxCommand(rx_length)
  /\ UNCHANGED tx_packet_queue

IssueTx ==
  /\ command_valid' = TRUE
  /\ command' = TxCommand
  /\ tx_packet_queue' = IF tx_packet_start THEN command'.queue
                        ELSE tx_packet_queue

IssueNothing(ready) ==
  /\ command_valid' = (command_valid /\ ~ready)
  /\ UNCHANGED << command, tx_packet_queue >>

(* One edge.  ready: the engine is idle; done: its completion output.  The *)
(* transmit ring is looked at only when the receive ring is empty.         *)
Controller_work(bus, ready, done, rx_empty, rx_length, tx_full) ==
  LET rx == MayIssue(bus) /\ RxWaiting
      tx == MayIssue(bus) /\ ~RxWaiting /\ TxWaiting
      taken == command_valid /\ ready
  IN  /\ HostWrite(bus)
      /\ Complete(done)
      /\ dma_active' = ((dma_active \/ taken) /\ ~done.valid)
      /\ active_direction' = IF taken THEN command.direction
                             ELSE active_direction
      /\ protocol_error' = \/ protocol_error
                           \/ done.valid /\ Stray(done)
                           \/ rx /\ RxBad(rx_length)
                           \/ tx /\ TxBad
      /\ CASE rx /\ RxFits(rx_empty, rx_length) -> IssueRx(rx_length)
           [] tx /\ TxFits(tx_full) -> IssueTx
           [] OTHER -> IssueNothing(ready)
=============================================================================
