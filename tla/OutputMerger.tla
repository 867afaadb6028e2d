---------------------------- MODULE OutputMerger ----------------------------
(***************************************************************************)
(* Egress: the transmit FIFO of each stream (rtl/network/TxFifo.h), whose  *)
(* words can be read only once the whole packet has been written, and the  *)
(* merger (rtl/network/OutputMerger.h), which puts packets of the streams  *)
(* in turn on the wire, byte after byte, with the gap between them.        *)
(*                                                                         *)
(* A word is a beat of PacketStream.tla; the eight banks are one sequence. *)
(***************************************************************************)
EXTENDS Frames

CONSTANTS
  TX_FIFO_WORDS,
  WINDOW_WORDS,      (* words of a FIFO that can be read at one edge       *)
  MIN_IPG_BYTES

ASSUME MergerAssumption ==
  {TX_FIFO_WORDS, WINDOW_WORDS, MIN_IPG_BYTES} \subseteq Nat \ {0}

-----------------------------------------------------------------------------
TxFifoInit == [words |-> << >>, committed |-> 0, in_packet |-> FALSE, protocol_error |-> FALSE]

(* A mistake: one word too many.                                           *)
tx_ready_Bug(f, pop) == Len(f.words) - pop <= TX_FIFO_WORDS

tx_ready(f, pop) ==
  (IF pop <= Len(f.words) THEN Len(f.words) - pop ELSE Len(f.words)) < TX_FIFO_WORDS

(* The words the merger sees. *)
window(f) ==
  UpTo(f.words, IF f.committed < WINDOW_WORDS THEN f.committed ELSE WINDOW_WORDS)

(* How many words are committed once a word is written; by mistake, every  *)
(* word.                                                                   *)
Committed_Bug(f, pop, word) == f.committed - pop + 1

Committed(f, pop, word) ==
  IF word.eop THEN Len(f.words) - pop + 1 ELSE f.committed - pop

(* One edge; read_count comes from the merger, word is none or one.        *)
TxFifoEdge(f, read_count, word) ==
  LET beyond == read_count > WINDOW_WORDS \/ read_count > f.committed
      pop == IF beyond THEN 0 ELSE read_count
      writes == word # << >> /\ tx_ready(f, read_count)
      w == word[1]
      left == After(f.words, pop)
      malformed == \/ Len(w.bytes) = 0 \/ (~w.eop /\ Len(w.bytes) < LANE_BYTES)
                   \/ w.sop = f.in_packet \/ (w.eop /\ ~f.in_packet /\ ~w.sop)
  IN  [words |-> IF writes THEN Append(left, w) ELSE left,
       committed |-> IF writes THEN Committed(f, pop, w) ELSE f.committed - pop,
       in_packet |-> IF writes THEN ~w.eop ELSE f.in_packet,
       protocol_error |-> \/ f.protocol_error \/ (beyond /\ read_count # 0)
                          \/ (writes /\ malformed)]

-----------------------------------------------------------------------------
(* The merger: a stream that has the wire, a word of it that is not yet    *)
(* all out (its bytes so far in offset), a gap still to leave.             *)
MergerInit ==
  [rr |-> 0, active |-> FALSE, stream |-> 0, gap |-> 0,
   carry |-> << >>, carry_offset |-> 0, protocol_error |-> FALSE]

(* What is on the wire: a byte with its marks.                             *)
Marked(byte, first, last) == [byte |-> byte, sop |-> first, eop |-> last]
Silence == Marked(Gap, FALSE, FALSE)

(* The locals of merge_result: the registers to be, what has been read of  *)
(* each FIFO, the beat so far.                                             *)
MergeStart(m) ==
  [rr |-> m.rr, active |-> m.active, stream |-> m.stream, gap |-> m.gap,
   word |-> m.carry, offset |-> m.carry_offset,
   counts |-> [s \in Streams |-> 0], beat |-> << >>,
   expect_sop |-> ~m.active, blocked |-> FALSE, error |-> FALSE]

Readable(st, fifos) == {s \in Streams : st.counts[s] < Len(window(fifos[s]))}

(* A packet to go on with, or the stream whose turn it is to begin one.    *)
Select(st, fifos) ==
  IF st.active THEN st
  ELSE IF Readable(st, fifos) = {} THEN [st EXCEPT !.blocked = TRUE]
  ELSE [st EXCEPT !.stream = InTurn(STREAMS, st.rr, Readable(st, fifos)),
                  !.active = TRUE, !.expect_sop = TRUE, !.word = << >>]

(* Its next word, unless one is loaded. *)
Load(st, fifos) ==
  IF st.blocked \/ st.word # << >> THEN st
  ELSE IF st.stream \notin Readable(st, fifos) THEN [st EXCEPT !.blocked = TRUE, !.error = TRUE]
  ELSE LET word == window(fifos[st.stream])[st.counts[st.stream] + 1]
       IN  [st EXCEPT !.word = << word >>, !.offset = 0, !.counts[st.stream] = @ + 1,
                      !.error = @ \/ word.sop # st.expect_sop, !.expect_sop = FALSE]

(* One byte of it; after the last of a packet the gap begins. *)
Emit(st) ==
  LET word == st.word[1]
      at == st.offset + 1
      last == word.eop /\ at = Len(word.bytes)
      out == [st EXCEPT !.beat = Append(@, Marked(word.bytes[at], word.sop /\ at = 1, last))]
  IN  IF st.blocked THEN [st EXCEPT !.beat = Append(@, Silence)]
      ELSE IF at > Len(word.bytes)
      THEN [st EXCEPT !.beat = Append(@, Silence), !.blocked = TRUE, !.error = TRUE]
      ELSE IF last
      THEN [out EXCEPT !.active = FALSE, !.expect_sop = TRUE, !.word = << >>, !.offset = 0,
                       !.gap = MIN_IPG_BYTES, !.rr = (st.stream + 1) % STREAMS]
      ELSE [out EXCEPT !.offset = at % LANE_BYTES,
                       !.word = IF at = LANE_BYTES THEN << >> ELSE @]

MergeByte(st, fifos) ==
  IF st.blocked THEN Emit(st)
  ELSE IF st.gap # 0 THEN [st EXCEPT !.gap = @ - 1, !.beat = Append(@, Silence)]
  ELSE Emit(Load(Select(st, fifos), fifos))

merge_result(m, fifos) ==
  FoldLeft(LAMBDA st, i : MergeByte(st, fifos), MergeStart(m), [i \in 1 .. BEAT_BYTES |-> i])

(* The result is a valid beat when any byte of it is kept.                 *)
merge_valid(result) == \E i \in 1 .. BEAT_BYTES : keep(result.beat[i].byte)

read_counts(result, ready) ==
  [s \in Streams |-> IF merge_valid(result) /\ ready THEN result.counts[s] ELSE 0]

(* Registers move only with a valid beat that is taken.                    *)
MergerEdge(m, result, ready) ==
  IF ~(merge_valid(result) /\ ready) THEN m
  ELSE [rr |-> result.rr, active |-> result.active, stream |-> result.stream,
        gap |-> result.gap, carry |-> result.word, carry_offset |-> result.offset,
        protocol_error |-> m.protocol_error \/ result.error]
=============================================================================
