--------------------------- MODULE DescriptorJoin ---------------------------
(***************************************************************************)
(* Where the parser and the packet store of each stream meet, and the      *)
(* descriptors that come out of it: the join registers of Network.h, the   *)
(* descriptor FIFOs of rtl/network/RxFifo.h, the serializer of SmartNIC.h  *)
(* and the dispatch to clusters of Processing.h.                           *)
(***************************************************************************)
EXTENDS Frames

CONSTANTS
  RX_FIFO_DEPTH,        (* descriptors of a stream that can wait           *)
  DESCRIPTOR_WORDS,     (* words of a serialized descriptor                *)
  CPU_COUNT             (* clusters                                        *)

ASSUME JoinAssumption ==
  {RX_FIFO_DEPTH, DESCRIPTOR_WORDS, CPU_COUNT} \subseteq Nat \ {0}

JoinInit ==
  [word0 |-> << >>, word1 |-> << >>, raw |-> FALSE, first |-> FALSE, complete |-> FALSE,
   address |-> << >>, length |-> 0, ram_complete |-> FALSE, protocol_error |-> FALSE]

parser_word_ready(j) == ~j.complete
(* A mistake: a length is taken over the one that waits.                   *)
ram_completion_ready_Bug(j) == TRUE
ram_completion_ready(j) == ~j.ram_complete
descriptor_valid(j) == j.complete /\ j.ram_complete

descriptor_input(j, s) ==
  [word0 |-> j.word0, word1 |-> j.word1, raw |-> j.raw, address |-> j.address,
   length |-> j.length, stream |-> s]

(* A word of the parser into the join: the only one, the first or the      *)
(* second of a RAW frame.                                                  *)
WithWord(j, entry) ==
  IF entry.raw /\ entry.last
  THEN [j EXCEPT !.word1 = entry.bytes, !.complete = TRUE,
                 !.protocol_error = @ \/ ~j.first]
  ELSE [j EXCEPT !.word0 = entry.bytes, !.word1 = << >>, !.raw = entry.raw, !.first = TRUE,
                 !.complete = entry.last,
                 !.protocol_error = @ \/ (~entry.raw /\ ~entry.last)]

WithCompletion(j, completion) ==
  [j EXCEPT !.address = completion.address, !.length = completion.length,
            !.ram_complete = TRUE]

(* One edge of the join of a stream; entry and completion are sequences of *)
(* at most one, what the parser and the store offer; fires: the descriptor *)
(* goes to its FIFO.                                                       *)
JoinEdge(j, entry, completion, fires) ==
  LET cleared == IF fires
                 THEN [j EXCEPT !.complete = FALSE, !.first = FALSE, !.ram_complete = FALSE]
                 ELSE j
      worded == IF entry # << >> /\ parser_word_ready(j)
                THEN WithWord(cleared, entry[1]) ELSE cleared
  IN  IF completion # << >> /\ ram_completion_ready(j)
      THEN WithCompletion(worded, completion[1]) ELSE worded

-----------------------------------------------------------------------------
(* The descriptor FIFOs, read in turns.                                    *)
RxFifoInit == [fifos |-> [s \in Streams |-> << >>], rr |-> 0]

input_ready_RxFifo(x, s) == Len(x.fifos[s]) < RX_FIFO_DEPTH

Waiting(x) == {s \in Streams : x.fifos[s] # << >>}
selected_stream(x) == InTurn(STREAMS, x.rr, Waiting(x))

RxFifoOutput(x) == IF Waiting(x) = {} THEN << >> ELSE << Head(x.fifos[selected_stream(x)]) >>

(* One edge; in[s] is the descriptor stream s puts in, or none. *)
RxFifoEdge(x, in, ready) ==
  LET pops == ready /\ Waiting(x) # {}
      selected == selected_stream(x)
  IN  [fifos |-> [s \in Streams |->
                    (IF pops /\ s = selected THEN Tail(x.fifos[s]) ELSE x.fifos[s]) \o in[s]],
       rr |-> IF pops THEN (selected + 1) % STREAMS ELSE x.rr]

-----------------------------------------------------------------------------
(* The serializer: a descriptor in words, on l2_clk, one at a time.        *)
SerializerInit == [hold |-> << >>, word |-> 0, valid |-> FALSE]

descriptor_word(z) == [descriptor |-> z.hold, word |-> z.word]
descriptor_sop(z) == z.valid /\ z.word = 0
descriptor_eop(z) == z.valid /\ z.word = DESCRIPTOR_WORDS - 1

SerializerEdge(z, fifo, ready) ==
  CASE fifo # << >> /\ ~z.valid -> [hold |-> Head(fifo), word |-> 0, valid |-> TRUE]
    [] z.valid /\ ready ->
         [z EXCEPT !.valid = ~descriptor_eop(z),
                   !.word = IF descriptor_eop(z) THEN 0 ELSE @ + 1]
    [] OTHER -> z

(* The dispatch: whole descriptors to the clusters in turn.                *)
(* By mistake, words in turn.                                              *)
NextTarget_Bug(target, z, ready) ==
  IF z.valid /\ ready THEN (target + 1) % CPU_COUNT ELSE target

NextTarget(target, z, ready) ==
  IF z.valid /\ ready /\ descriptor_eop(z) THEN (target + 1) % CPU_COUNT ELSE target
=============================================================================
