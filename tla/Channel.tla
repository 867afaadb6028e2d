------------------------------ MODULE Channel ------------------------------
(***************************************************************************)
(* What a clock-crossing FIFO promises: a bounded first-in first-out       *)
(* channel.  An entry pushed is popped exactly once, in the order of the   *)
(* pushes; nothing is popped that was not pushed; a push never lands in a  *)
(* full channel.  A reset empties it.                                      *)
(***************************************************************************)
EXTENDS Naturals, Sequences

CONSTANTS
  Data,      (* the entries                                               *)
  Capacity   (* how many entries the channel holds at most                *)

VARIABLE queue

TypeOK == queue \in Seq(Data) /\ Len(queue) \in 0 .. Capacity

Init == queue = << >>

Push(d) == /\ Len(queue) < Capacity
           /\ queue' = Append(queue, d)

Pop == /\ queue # << >>
       /\ queue' = Tail(queue)

(* Edges of the two clocks may coincide. *)
PushPop(d) == /\ queue # << >>
              /\ Len(queue) < Capacity
              /\ queue' = Append(Tail(queue), d)

Flush == queue' = << >>

Next == \/ \E d \in Data : Push(d) \/ PushPop(d)
        \/ Pop
        \/ Flush

Spec == Init /\ [][Next]_queue
=============================================================================
