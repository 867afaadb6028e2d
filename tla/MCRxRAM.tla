------------------------------ MODULE MCRxRAM ------------------------------
(***************************************************************************)
(* RxRAM on a few short rows.  With two bytes to a row a frame of 3 bytes  *)
(* takes 2 rows, one of 5 takes 4.                                         *)
(***************************************************************************)
EXTENDS RxRAM

MCIds == 0 .. 3 * LOGICAL_ROWS - 1
MCLengths == {3, 5}
=============================================================================
