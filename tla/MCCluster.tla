------------------------------ MODULE MCCluster -----------------------------
(***************************************************************************)
(* A cluster with two descriptors, three commands, a crossing of two reads *)
(* (the code has a queue of 64 commands and a crossing of 16 reads), two   *)
(* backing lines, two words to a descriptor and a ring of four slots of    *)
(* two lines.                                                              *)
(***************************************************************************)
EXTENDS Cluster

Plan(lengths, every, requests) ==
  [lengths |-> lengths, every |-> every, requests |-> requests]

AllPrograms ==
  [ ring |-> Plan(<< 2, 1, 1, 1, 1 >>, 1, 0),
    fast |-> Plan(<< 2, 1, 2, 1, 2 >>, 2, 0),
    forward |-> Plan(<< 2, 1 >>, 1, 2),
    bridge |-> Plan(<< 2, 1 >>, 1, 0) ]
=============================================================================
