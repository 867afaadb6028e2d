---------------------------- MODULE MCAsyncFifo ----------------------------
(***************************************************************************)
(* AsyncFifo with the code's Gray code, on a small buffer.                 *)
(***************************************************************************)
EXTENDS AsyncFifo, GrayCode, FiniteSets

FullGrayOfDepth(g) == ToFullGray(g, DEPTH)

(* Successive pointers differ in one bit, the wrap included, so a code     *)
(* sampled while it changes is the old one or the new one: this is why a   *)
(* step may sample it whole.  The other two facts are GrayAssumption at    *)
(* the depths the NIC uses.                                                *)
PowersOfTwo == {2 ^ k : k \in 0 .. 7}
ASSUME OneBitPerStep ==
  \A depth \in {4, 8, 16, 32, 64} : \A p \in 0 .. 2 * depth - 1 :
    (ToGray(p) ^^ ToGray((p + 1) % (2 * depth))) \in PowersOfTwo
ASSUME CodeAtDepthsUsed ==
  \A depth \in {4, 8, 16, 32, 64} : \A p, q \in 0 .. 2 * depth - 1 :
    /\ ToGray(p) = ToGray(q) => p = q
    /\ ToGray(p) = ToFullGray(ToGray(q), depth)
         <=> p = (q + depth) % (2 * depth)
=============================================================================
