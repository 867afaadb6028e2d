------------------------------ MODULE MCSystem -----------------------------
(***************************************************************************)
(* System with four bytes to a queue beat, lengths in pairs of bytes, and  *)
(* two queues.  A packet of 6 bytes is two beats, one host write; one of   *)
(* 10 bytes is three beats, two host writes.                               *)
(***************************************************************************)
EXTENDS System

Splits == {<< 10 >>, << 2, 10 >>}
TwoFragments == {<< 2, 10 >>}
Buffers == {[queue |-> 0, length |-> 10]}
BuffersOfTwoSizes == {[queue |-> 0, length |-> n] : n \in {6, 10}}

EnableOnly == {Enable}
EnableAndDisable == {Enable, Disable}
=============================================================================
