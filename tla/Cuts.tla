-------------------------------- MODULE Cuts -------------------------------
(***************************************************************************)
(* Packets as sequences of beats: a beat carries bytes and says whether it *)
(* is the last of its packet.                                              *)
(***************************************************************************)
EXTENDS Naturals, Sequences

(* What a sequence of beats makes, once b comes after those before it: the *)
(* packets it completes, and what is there of the next one.                *)
With(before, b) ==
  LET open == before.open \o b.bytes
  IN  IF b.eop THEN [packets |-> Append(before.packets, open), open |-> << >>]
      ELSE [packets |-> before.packets, open |-> open]

Cutting(beats) ==
  LET upto[i \in 0 .. Len(beats)] ==
        IF i = 0 THEN [packets |-> << >>, open |-> << >>]
        ELSE With(upto[i - 1], beats[i])
  IN  upto[Len(beats)]

Cut(beats) == Cutting(beats).packets

(* Bytes that are part of a packet. *)
Part(bytes) == [bytes |-> bytes, eop |-> FALSE]
=============================================================================
