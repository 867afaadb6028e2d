-------------------------------- MODULE Frames ------------------------------
(***************************************************************************)
(* What the modules of the Network have in common: streams, lanes, and the *)
(* bytes of Ethernet frames.  A byte is << frame, index, length >>: the    *)
(* index-th, from 1, of the length bytes of a frame.  The SOP and EOP bits *)
(* that travel beside it follow from that; a Gap is a byte whose keep bit  *)
(* is low.  Bytes that are kept are contiguous wherever they are packed in *)
(* words, so a word is the sequence of them, of at most LANE_BYTES.        *)
(***************************************************************************)
EXTENDS Naturals, Sequences, FiniteSets, SequencesExt

CONSTANTS
  STREAMS,        (* lanes of the wire, streams of frames, transmit FIFOs  *)
  LANE_BYTES      (* bytes of a word                                       *)

ASSUME FramesAssumption == {STREAMS, LANE_BYTES} \subseteq Nat \ {0}

Streams == 0 .. STREAMS - 1
BEAT_BYTES == STREAMS * LANE_BYTES

Gap == << 0, 0, 1 >>
keep(byte) == byte # Gap
sop(byte) == byte[2] = 1
eop(byte) == byte[2] = byte[3]

FrameBytes(f, length) == [i \in 1 .. length |-> << f, i, length >>]

(* One byte comes right after another in a stream of whole frames.         *)
Follows(byte, next) ==
  IF eop(byte) THEN sop(next) ELSE next = << byte[1], byte[2] + 1, byte[3] >>

Consecutive(bytes) ==
  \A i \in 1 .. Len(bytes) - 1 : Follows(bytes[i], bytes[i + 1])

UpTo(s, n) == SubSeq(s, 1, IF Len(s) < n THEN Len(s) ELSE n)
After(s, n) == SubSeq(s, n + 1, Len(s))

(* The first, in the round of n from rr on, of the candidates.             *)
InTurn(n, rr, candidates) ==
  LET distance(i) == (i + n - rr) % n
  IN  CHOOSE i \in candidates : \A j \in candidates : distance(i) <= distance(j)
=============================================================================
