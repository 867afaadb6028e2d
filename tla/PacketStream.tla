---------------------------- MODULE PacketStream ----------------------------
(***************************************************************************)
(* The packet stream between net_clk and l2_clk, in both directions        *)
(* (rtl/common/AsyncPacketStreamImpl.inc): the source packs bytes into     *)
(* chunks that never cross a packet's end, an asynchronous FIFO carries    *)
(* the chunks, and the other side unpacks them into words of its width.    *)
(*                                                                         *)
(* The FIFO is its abstract channel, which AsyncFifo.tla implements.  A    *)
(* beat has its bytes and the marks of a packet's first and last beat.     *)
(***************************************************************************)
EXTENDS Frames

CONSTANTS
  CHUNK_BYTES,
  STREAM_FIFO        (* chunks the asynchronous FIFO holds                 *)

BUFFER_BYTES == 2 * CHUNK_BYTES

ASSUME StreamAssumption == {CHUNK_BYTES, STREAM_FIFO} \subseteq Nat \ {0}

StreamInit ==
  [source |-> << >>, source_sop |-> FALSE, source_eop |-> FALSE,
   fifo |-> << >>,
   output |-> << >>, output_sop |-> FALSE, output_eop |-> FALSE]

Beat(bytes, first, last) == [bytes |-> bytes, sop |-> first, eop |-> last]

(* The source has a chunk to write: a full one, or the end of a packet.    *)
fifo_write_valid(c) ==
  \/ Len(c.source) >= CHUNK_BYTES
  \/ c.source_eop /\ c.source # << >>

fifo_write_data(c) ==
  Beat(UpTo(c.source, CHUNK_BYTES), c.source_sop,
       c.source_eop /\ Len(c.source) <= CHUNK_BYTES)

Emits(c) == fifo_write_valid(c) /\ Len(c.fifo) < STREAM_FIFO

source_ready(c, width) ==
  LET last == Emits(c) /\ Len(c.source) <= CHUNK_BYTES
      rest == IF Emits(c) THEN After(c.source, CHUNK_BYTES) ELSE c.source
  IN  ~(c.source_eop /\ ~last) /\ Len(rest) + width <= BUFFER_BYTES

(* One edge of the source's clock; beat is a sequence of at most one.      *)
SourceEdge(c, width, beat) ==
  LET rest == IF Emits(c) THEN After(c.source, CHUNK_BYTES) ELSE c.source
      kept == Beat(rest, c.source_sop /\ ~Emits(c),
                   c.source_eop /\ ~(Emits(c) /\ rest = << >>))
      new == IF beat = << >> \/ ~source_ready(c, width) THEN kept
             ELSE Beat(rest \o beat[1].bytes, kept.sop \/ beat[1].sop,
                       kept.eop \/ beat[1].eop)
  IN  [c EXCEPT !.source = new.bytes, !.source_sop = new.sop, !.source_eop = new.eop,
                !.fifo = IF Emits(c) THEN Append(@, fifo_write_data(c)) ELSE @]

(* The beat the other side offers, if any.                                 *)
output_beat(c, width) ==
  IF Len(c.output) >= width \/ (c.output_eop /\ c.output # << >>)
  THEN << Beat(UpTo(c.output, width), c.output_sop,
               c.output_eop /\ Len(c.output) <= width) >>
  ELSE << >>

fifo_read_ready(c, width, ready) ==
  LET fires == ready /\ output_beat(c, width) # << >>
      rest == IF fires THEN After(c.output, width) ELSE c.output
  IN  /\ ~(c.output_eop /\ ~(fires /\ Len(c.output) <= width))
      /\ Len(rest) + CHUNK_BYTES <= BUFFER_BYTES

(* One edge of the other clock. *)
OutputEdge(c, width, ready) ==
  LET fires == ready /\ output_beat(c, width) # << >>
      rest == IF fires THEN After(c.output, width) ELSE c.output
      kept == Beat(rest, c.output_sop /\ ~fires, c.output_eop /\ ~(fires /\ rest = << >>))
      takes == c.fifo # << >> /\ fifo_read_ready(c, width, ready)
      chunk == Head(c.fifo)
      new == IF ~takes THEN kept
             ELSE Beat(rest \o chunk.bytes, kept.sop \/ chunk.sop, kept.eop \/ chunk.eop)
  IN  [c EXCEPT !.output = new.bytes, !.output_sop = new.sop, !.output_eop = new.eop,
                !.fifo = IF takes THEN Tail(@) ELSE @]
=============================================================================
