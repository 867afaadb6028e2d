----------------------------- MODULE GrayCode ------------------------------
(***************************************************************************)
(* The pointer code of the clock-crossing FIFO, on pointers of a given     *)
(* depth (rtl/common/AsyncFifoImpl.inc).                                   *)
(***************************************************************************)
EXTENDS Integers, Bitwise

(* next ^ (next >> 1) *)
ToGray(b) == b ^^ (b \div 2)

(* g ^ ((1 << ADDR_BITS) | (1 << (ADDR_BITS - 1))), where DEPTH is         *)
(* 1 << ADDR_BITS and depth is DEPTH.                                      *)
ToFullGray(g, depth) == g ^^ (depth + depth \div 2)
=============================================================================
