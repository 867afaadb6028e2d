---------------------------- MODULE PacketQueue ----------------------------
(***************************************************************************)
(* The store-and-forward packet queue (rtl/system/PacketQueue.h), the      *)
(* state and the clock edge of one instance: RxQueue and TxQueue are eight *)
(* of these each.  Beats are held in a data FIFO, and the length of a      *)
(* packet enters a second FIFO with its last beat; the reader sees nothing *)
(* until a length is there.                                                *)
(*                                                                         *)
(* A FIFO (rtl/common/Fifo.cpp, without output register) is the sequence   *)
(* of its entries: its flags are the state's, not a cycle old, and a word  *)
(* is neither written when it is full nor read when it is empty.           *)
(* The bytes a beat keeps are a sequence.                                  *)
(***************************************************************************)
EXTENDS Naturals, Sequences

CONSTANT DEPTH   (* words of each FIFO *)

ASSUME QueueDepthAssumption == DEPTH \in Nat \ {0}

NoBeat == [bytes |-> << >>, sop |-> FALSE, eop |-> FALSE]

EmptyQueue ==
  [data |-> << >>, lengths |-> << >>,           (* the two FIFOs           *)
   assembling |-> FALSE, assembling_length |-> 0,
   packet_count |-> 0, protocol_error |-> FALSE]

full(q)  == Len(q.data) = DEPTH
empty(q) == q.packet_count = 0

(* beat is what is offered at the edge, NoBeat when write_valid is low. *)
write_ready(q, beat) ==
  ~full(q) /\ (beat.eop => Len(q.lengths) < DEPTH)

(* A mistake: store-and-forward is by the count of data words.             *)
read_valid_Early(q) == q.data # << >>

read_valid(q) == q.data # << >> /\ q.lengths # << >>

(* The beat accepted, with the length it commits if it is the last. *)
WriteBeat(q, beat) ==
  LET length == (IF beat.sop THEN 0 ELSE q.assembling_length) + Len(beat.bytes)
  IN  [q EXCEPT
         !.data = Append(@, beat),
         !.lengths = IF beat.eop THEN Append(@, length) ELSE @,
         !.assembling_length = IF beat.eop THEN 0 ELSE length,
         !.assembling = (beat.sop \/ @) /\ ~beat.eop,
         !.packet_count = IF beat.eop THEN @ + 1 ELSE @,
         !.protocol_error = @ \/ beat.bytes = << >> \/ beat.sop = q.assembling]

(* A mistake: the length of a packet stays after its last beat is read.    *)
ReadBeat_KeepLength(q) ==
  [q EXCEPT !.data = Tail(@),
            !.packet_count = IF Head(q.data).eop THEN @ - 1 ELSE @]

ReadBeat(q) ==
  LET eop == Head(q.data).eop
  IN  [q EXCEPT !.data = Tail(@),
                !.lengths = IF eop THEN Tail(@) ELSE @,
                !.packet_count = IF eop /\ @ # 0 THEN @ - 1 ELSE @,
                !.protocol_error = @ \/ (eop /\ q.packet_count = 0)]

(* One edge: at most one beat in, and one out. *)
QueueEdge(q, beat, read_ready) ==
  LET written == IF beat # NoBeat /\ write_ready(q, beat)
                 THEN WriteBeat(q, beat) ELSE q
  IN  IF read_ready /\ read_valid(q) THEN ReadBeat(written) ELSE written
=============================================================================
