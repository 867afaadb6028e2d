---------------------------- MODULE InputBalancer ---------------------------
(***************************************************************************)
(* The input balancer (rtl/network/InputBalancer.h).  Beats of the wire    *)
(* hold frames and gaps at any byte; every frame is given, at its first    *)
(* byte, a stream with room for the largest frame, in turn, and its bytes  *)
(* are packed into the words of that stream's FIFO.  A partial word that   *)
(* ends a frame waits some clocks for another frame to share the word.     *)
(*                                                                         *)
(* The FIFO, in eight banks in the code, is the sequence of its words.     *)
(***************************************************************************)
EXTENDS Frames

CONSTANTS
  FIFO_WORDS,       (* words of a stream's FIFO                            *)
  MAX_FRAME_BYTES,
  FLUSH_CYCLES      (* clocks a partial last word waits                    *)

RESERVED_WORDS == (MAX_FRAME_BYTES + LANE_BYTES - 1) \div LANE_BYTES + STREAMS
ELIGIBLE_WORDS == FIFO_WORDS - RESERVED_WORDS

ASSUME BalancerAssumption ==
  /\ {FIFO_WORDS, MAX_FRAME_BYTES, FLUSH_CYCLES} \subseteq Nat \ {0}
  /\ RESERVED_WORDS < FIFO_WORDS

EmptyOutput == [fifo |-> << >>, pack |-> << >>, boundary |-> FALSE, age |-> 0]

BalancerInit ==
  [out |-> [s \in Streams |-> EmptyOutput], rr |-> 0, frame_dest |-> 0,
   in_frame |-> FALSE, protocol_error |-> FALSE]

(* Output words, heads of the FIFOs; << >> is no valid word. *)
output(b, s) == IF b.out[s].fifo = << >> THEN << >> ELSE Head(b.out[s].fifo)

(* The FIFOs once the streams of the set ready have taken their words. *)
Popped(b, ready) ==
  [s \in Streams |-> IF s \in ready /\ b.out[s].fifo # << >>
                     THEN [b.out[s] EXCEPT !.fifo = Tail(@)] ELSE b.out[s]]

output_eligible(out) ==
  Len(out.fifo) + (IF out.pack = << >> THEN 0 ELSE 1) <= ELIGIBLE_WORDS

Eligible(out) == {s \in Streams : output_eligible(out[s])}

(* A mistake: only the frame that is open is looked at.                     *)
input_ready_Bug(b, beat, ready) ==
  b.in_frame => Len(Popped(b, ready)[b.frame_dest].fifo) <= FIFO_WORDS - STREAMS

(* A beat is taken when every frame that starts in it can have a stream of *)
(* its own, and the open frame the words it may fill.                      *)
input_ready(b, beat, ready) ==
  LET out == Popped(b, ready)
  IN  /\ Len(SelectSeq(beat, sop)) <= Cardinality(Eligible(out))
      /\ b.in_frame => Len(out[b.frame_dest].fifo) <= FIFO_WORDS - STREAMS

(* A byte into the word being packed; a full word goes to the FIFO.        *)
Pack(out, byte) ==
  LET word == Append(out.pack, byte)
  IN  IF Len(word) = LANE_BYTES
      THEN [EmptyOutput EXCEPT !.fifo = Append(out.fifo, word)]
      ELSE [out EXCEPT !.pack = word, !.boundary = eop(byte), !.age = 0]

(* A mistake: a frame that goes on follows the pointer for the next one.   *)
Scan_Bug(st, byte) ==
  LET free == st.eligible \ st.reserved
      found == sop(byte) /\ free # {}
      dest == IF found THEN InTurn(STREAMS, st.rr, free) ELSE st.rr
  IN  IF ~keep(byte) THEN st
      ELSE [st EXCEPT !.out[dest] = Pack(@, byte), !.frame_dest = dest,
                      !.reserved = IF found THEN @ \cup {dest} ELSE @,
                      !.appended = @ \cup {dest},
                      !.in_frame = (sop(byte) \/ @) /\ ~eop(byte)]

(* One byte of the beat, in the order of the wire. *)
Scan(st, byte) ==
  LET free == st.eligible \ st.reserved
      found == sop(byte) /\ free # {}
      dest == IF found THEN InTurn(STREAMS, st.rr, free) ELSE st.frame_dest
  IN  IF ~keep(byte) THEN st
      ELSE [st EXCEPT
              !.out[dest] = Pack(@, byte),
              !.reserved = IF found THEN @ \cup {dest} ELSE @,
              !.appended = @ \cup {dest},
              !.rr = IF found THEN (dest + 1) % STREAMS ELSE @,
              !.frame_dest = dest,
              !.in_frame = (sop(byte) \/ @) /\ ~eop(byte),
              !.protocol_error = @ \/ sop(byte) = st.in_frame \/ (sop(byte) /\ ~found)]

(* A last partial word is flushed when no byte has joined it for a while.  *)
Flush(out) ==
  IF out.pack = << >> \/ ~out.boundary THEN out
  ELSE IF out.age + 1 < FLUSH_CYCLES THEN [out EXCEPT !.age = @ + 1]
  ELSE [EmptyOutput EXCEPT !.fifo = Append(out.fifo, out.pack)]

(* One edge; beat is << >> when valid_in is low. *)
BalancerEdge(b, beat, ready) ==
  LET popped == Popped(b, ready)
      before == [out |-> popped, rr |-> b.rr, frame_dest |-> b.frame_dest,
                 in_frame |-> b.in_frame, protocol_error |-> b.protocol_error,
                 eligible |-> Eligible(popped), reserved |-> {}, appended |-> {}]
      st == IF input_ready(b, beat, ready) THEN FoldLeft(Scan, before, beat) ELSE before
      out == [s \in Streams |-> IF s \in st.appended THEN st.out[s] ELSE Flush(st.out[s])]
      full == \E s \in Streams : Len(out[s].fifo) > FIFO_WORDS
  IN  [out |-> out, rr |-> st.rr, frame_dest |-> st.frame_dest, in_frame |-> st.in_frame,
       protocol_error |-> st.protocol_error \/ full]
=============================================================================
