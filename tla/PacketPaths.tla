---------------------------- MODULE PacketPaths ----------------------------
(***************************************************************************)
(* What the host side promises: in each direction every packet queue is a  *)
(* bounded first-in first-out path of whole packets.  A packet given at    *)
(* one end comes out at the other once, whole, after those given before it *)
(* to the same queue; the queues do not mix.                               *)
(***************************************************************************)
EXTENDS Naturals, Sequences

CONSTANTS
  Queues,
  Packets(_),   (* the packets of a queue                                  *)
  Capacity      (* how many packets a queue holds at most                  *)

VARIABLE paths  (* queue -> packets under way, oldest first *)

Init == paths = [q \in Queues |-> << >>]

(* At a step a queue may lose its oldest packet and gain one. *)
Moved(old) == {old} \cup (IF old = << >> THEN {} ELSE {Tail(old)})

Step(q, old, new) ==
  \/ new \in Moved(old)
  \/ \E p \in Packets(q) :
       /\ Len(old) < Capacity
       /\ new \in {Append(s, p) : s \in Moved(old)}

Next == \E old \in {paths}, new \in {paths'} :
          /\ DOMAIN new = Queues
          /\ \A q \in Queues : Step(q, old[q], new[q])

Spec == Init /\ [][Next]_paths
=============================================================================
