-------------------------- MODULE Axi4WriteArbiter --------------------------
(***************************************************************************)
(* The lower memory of one cluster: the arbiter between the lower port of  *)
(* the CPU's cache and the backing port of PacketDMA                       *)
(* (rtl/common/Axi4WriteArbiter.h), and the controller that moves a line   *)
(* as words of a native DDR port (rtl/common/Axi4DDR4.h).                  *)
(*                                                                         *)
(* A master's signals are a record: which of its channels ask, and the     *)
(* address and data it shows with them.  A line of memory is one value;    *)
(* the words it is made of are counted.                                    *)
(***************************************************************************)
EXTENDS Integers

CONSTANT WORDS_PER_BEAT      (* words of the DDR port to a line *)

ASSUME WordsAssumption == WORDS_PER_BEAT \in Nat /\ WORDS_PER_BEAT > 1

Zero == << >>                (* a line of zeros *)
NoAddress == << 0, 0 >>

Idle == [ar |-> FALSE, aw |-> FALSE, w |-> FALSE, r |-> FALSE, b |-> FALSE,
         address |-> NoAddress, data |-> Zero]

ArbiterInit == [state |-> "IDLE", packet_owner |-> FALSE]

cpu_ar_selected(a, cpu) == a.state = "IDLE" /\ cpu.ar
packet_ar_selected(a, cpu, packet) == a.state = "IDLE" /\ ~cpu.ar /\ packet.ar
cpu_aw_selected(a, cpu, packet) ==
  a.state = "IDLE" /\ ~cpu.ar /\ ~packet.ar /\ cpu.aw
packet_aw_selected(a, cpu, packet) ==
  a.state = "IDLE" /\ ~cpu.ar /\ ~packet.ar /\ ~cpu.aw /\ packet.aw

(* What memory sees of the two masters. *)
ToMemory(a, cpu, packet) ==
  LET packet_aw == packet_aw_selected(a, cpu, packet)
      packet_ar == packet_ar_selected(a, cpu, packet)
      owner == IF a.packet_owner THEN packet ELSE cpu
  IN  [ ar |-> cpu_ar_selected(a, cpu) \/ packet_ar,
        aw |-> cpu_aw_selected(a, cpu, packet) \/ packet_aw,
        w |-> (packet_aw /\ packet.w) \/ (a.state = "WRITE_DATA" /\ owner.w),
        r |-> a.state = "READ_DATA" /\ owner.r,
        b |-> a.state = "WRITE_RESPONSE" /\ owner.b,
        address |-> IF packet_aw \/ packet_ar THEN packet.address ELSE cpu.address,
        data |-> IF packet_aw \/ a.packet_owner THEN packet.data ELSE cpu.data ]

(* What each master sees of memory. *)
ToPacket(a, cpu, packet, memory) ==
  [ awready |-> packet_aw_selected(a, cpu, packet) /\ memory.awready,
    wready |-> /\ \/ packet_aw_selected(a, cpu, packet)
                  \/ (a.state = "WRITE_DATA" /\ a.packet_owner)
               /\ memory.wready,
    bvalid |-> a.state = "WRITE_RESPONSE" /\ a.packet_owner /\ memory.bvalid,
    arready |-> packet_ar_selected(a, cpu, packet) /\ memory.arready,
    rvalid |-> a.state = "READ_DATA" /\ a.packet_owner /\ memory.rvalid,
    rdata |-> memory.rdata ]

ToCpu(a, cpu, packet, memory) ==
  [ awready |-> cpu_aw_selected(a, cpu, packet) /\ memory.awready,
    wready |-> a.state = "WRITE_DATA" /\ ~a.packet_owner /\ memory.wready,
    bvalid |-> a.state = "WRITE_RESPONSE" /\ ~a.packet_owner /\ memory.bvalid,
    arready |-> cpu_ar_selected(a, cpu) /\ memory.arready,
    rvalid |-> a.state = "READ_DATA" /\ ~a.packet_owner /\ memory.rvalid,
    rdata |-> memory.rdata ]

(* A bug: a write granted to the CPU leaves the owner of the last one. *)
ArbiterEdge_Bug(a, cpu, packet, memory) ==
  LET to == ToMemory(a, cpu, packet)
  IN  CASE a.state = "IDLE" /\ cpu.ar /\ memory.arready ->
             [state |-> "READ_DATA", packet_owner |-> FALSE]
        [] a.state = "IDLE" /\ ToPacket(a, cpu, packet, memory).arready ->
             [state |-> "READ_DATA", packet_owner |-> TRUE]
        [] a.state = "IDLE" /\ ToCpu(a, cpu, packet, memory).awready ->
             [a EXCEPT !.state = "WRITE_DATA"]
        [] a.state = "IDLE" /\ ToPacket(a, cpu, packet, memory).awready ->
             [state |-> IF packet.w /\ memory.wready
                        THEN "WRITE_RESPONSE" ELSE "WRITE_DATA",
              packet_owner |-> TRUE]
        [] a.state = "WRITE_DATA" /\ to.w /\ memory.wready ->
             [a EXCEPT !.state = "WRITE_RESPONSE"]
        [] a.state = "WRITE_RESPONSE" /\ to.b /\ memory.bvalid ->
             [a EXCEPT !.state = "IDLE"]
        [] a.state = "READ_DATA" /\ to.r /\ memory.rvalid ->
             [a EXCEPT !.state = "IDLE"]
        [] OTHER -> a

(* Reads before writes, the CPU before the packet master, one at a time. *)
ArbiterEdge(a, cpu, packet, memory) ==
  LET to == ToMemory(a, cpu, packet)
  IN  CASE a.state = "IDLE" /\ ToCpu(a, cpu, packet, memory).arready ->
             [state |-> "READ_DATA", packet_owner |-> FALSE]
        [] a.state = "IDLE" /\ ToPacket(a, cpu, packet, memory).arready ->
             [state |-> "READ_DATA", packet_owner |-> TRUE]
        [] a.state = "IDLE" /\ ToCpu(a, cpu, packet, memory).awready ->
             [state |-> "WRITE_DATA", packet_owner |-> FALSE]
        [] a.state = "IDLE" /\ ToPacket(a, cpu, packet, memory).awready ->
             [state |-> IF packet.w /\ memory.wready
                        THEN "WRITE_RESPONSE" ELSE "WRITE_DATA",
              packet_owner |-> TRUE]
        [] a.state = "WRITE_DATA" /\ to.w /\ memory.wready ->
             [a EXCEPT !.state = "WRITE_RESPONSE"]
        [] a.state = "WRITE_RESPONSE" /\ to.b /\ memory.bvalid ->
             [a EXCEPT !.state = "IDLE"]
        [] a.state = "READ_DATA" /\ to.r /\ memory.rvalid ->
             [a EXCEPT !.state = "IDLE"]
        [] OTHER -> a

-----------------------------------------------------------------------------
(* The controller: m are its registers, axi what the arbiter shows it,     *)
(* ddr whether the memory takes a word or answers with one.                *)
DDR4Init == [state |-> "IDLE", address |-> NoAddress, word |-> 0, data |-> Zero]

FromDDR4(m, axi) ==
  [ awready |-> m.state = "IDLE",
    wready |-> m.state = "WAIT_WRITE_DATA",
    bvalid |-> m.state = "WRITE_RESPONSE",
    arready |-> m.state = "IDLE" /\ ~axi.aw,
    rvalid |-> m.state = "READ_RESPONSE",
    rdata |-> m.data ]

LastWord(m) == m.word + 1 = WORDS_PER_BEAT

DDR4Edge(m, axi, ddr, line) ==
  CASE m.state = "IDLE" /\ axi.aw ->
         [m EXCEPT !.state = "WAIT_WRITE_DATA", !.address = axi.address]
    [] m.state = "IDLE" /\ axi.ar /\ ~axi.aw ->
         [state |-> "READ_WORD", address |-> axi.address, word |-> 0, data |-> Zero]
    [] m.state = "WAIT_WRITE_DATA" /\ axi.w ->
         [m EXCEPT !.state = "WRITE_WORD", !.data = axi.data, !.word = 0]
    [] m.state = "WRITE_WORD" /\ ddr ->
         IF LastWord(m) THEN [m EXCEPT !.state = "WRITE_RESPONSE"]
         ELSE [m EXCEPT !.word = @ + 1]
    [] m.state = "WRITE_RESPONSE" /\ axi.b -> [m EXCEPT !.state = "IDLE"]
    [] m.state = "READ_WORD" /\ ddr -> [m EXCEPT !.state = "READ_WAIT"]
    [] m.state = "READ_WAIT" /\ ddr ->
         IF LastWord(m) THEN [m EXCEPT !.state = "READ_RESPONSE", !.data = line]
         ELSE [m EXCEPT !.state = "READ_WORD", !.word = @ + 1]
    [] m.state = "READ_RESPONSE" /\ axi.r -> [m EXCEPT !.state = "IDLE"]
    [] OTHER -> m

(* The line is in memory when its last word is. *)
Stores(m, ddr) == m.state = "WRITE_WORD" /\ ddr /\ LastWord(m)
=============================================================================
