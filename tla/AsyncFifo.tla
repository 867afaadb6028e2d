----------------------------- MODULE AsyncFifo -----------------------------
(***************************************************************************)
(* The clock-crossing FIFO every domain boundary of the NIC is built from  *)
(* (rtl/common/AsyncFifoImpl.inc).  The write side and the read side are   *)
(* clocked independently.  Each keeps its own pointer in binary and in     *)
(* Gray code and sees the other's Gray pointer through two flip-flops, so  *)
(* what it knows of the other side is up to two of its own edges old.      *)
(*                                                                         *)
(* One step is an edge of the write clock (work_write), of the read clock  *)
(* (work_read), or of both at once; a register is read as it was before    *)
(* the edge.  The Gray code enters through the constants Gray and FullGray *)
(* (the pointer code, and the inversion of its two top bits): the FIFO     *)
(* needs no more of them than GrayAssumption says.                         *)
(***************************************************************************)
EXTENDS Integers, Sequences

CONSTANTS
  DEPTH,        (* entries of data_mem, a power of two                     *)
  Data,         (* the entries                                             *)
  Gray(_),      (* the code of a pointer: b ^ (b >> 1)                     *)
  FullGray(_)   (* a code with its two top bits inverted                   *)

Pointers == 0 .. 2 * DEPTH - 1

(* The pointer n places after p, for n in 0 .. 2 * DEPTH. *)
Ahead(p, n) == IF p + n >= 2 * DEPTH THEN p + n - 2 * DEPTH ELSE p + n

ASSUME DepthAssumption == DEPTH \in Nat \ {0}

(* The code tells pointers apart, and inverting its two top bits yields    *)
(* the code of the pointer one full buffer ahead.                          *)
ASSUME GrayAssumption ==
  /\ \A p, q \in Pointers : Gray(p) = Gray(q) => p = q
  /\ \A p, q \in Pointers :
        Gray(p) = FullGray(Gray(q)) <=> p = Ahead(q, DEPTH)

VARIABLES
  write_bin,          (* write domain: its pointer, in binary             *)
  write_gray,         (*   and in Gray code, which the read side samples  *)
  read_gray_write1,   (*   the read pointer's code after one flip-flop    *)
  read_gray_write2,   (*   and after two                                  *)
  data_mem,           (*   the entries, written by the write domain only  *)
  read_bin,           (* read domain: the same the other way round        *)
  read_gray,
  write_gray_read1,
  write_gray_read2,
  reset,              (* the level both domains sample at their edges     *)
  cleared             (* the domains that had an edge since it was raised *)

writeRegs == << write_bin, write_gray, read_gray_write1, read_gray_write2 >>
readRegs  == << read_bin, read_gray, write_gray_read1, write_gray_read2 >>
vars == << writeRegs, data_mem, readRegs, reset, cleared >>

Domains == {"write", "read"}

-----------------------------------------------------------------------------
(* Mistakes the checks below must catch: an address one bit too narrow, a  *)
(* full test left out.                                                     *)
Slot_Narrow(p) == p % (DEPTH \div 2)
write_ready_Unchecked == TRUE

(* An address is the pointer without its top bit. *)
Slot(p) == IF p >= DEPTH THEN p - DEPTH ELSE p

write_ready == write_gray # FullGray(read_gray_write2)
read_valid  == read_gray # write_gray_read2

(* Entries in the buffer: the distance from the read to the write pointer. *)
Distance(p, q) == IF q >= p THEN q - p ELSE q - p + 2 * DEPTH
Occupancy == Distance(read_bin, write_bin)

-----------------------------------------------------------------------------
Init ==
  /\ write_bin = 0 /\ write_gray = Gray(0)
  /\ read_gray_write1 = Gray(0) /\ read_gray_write2 = Gray(0)
  /\ data_mem \in [0 .. DEPTH - 1 -> Data]
  /\ read_bin = 0 /\ read_gray = Gray(0)
  /\ write_gray_read1 = Gray(0) /\ write_gray_read2 = Gray(0)
  /\ reset = FALSE
  /\ cleared = {}

(* Mistakes the checks below must catch: a synchroniser left out of the    *)
(* reset, or whose second flip-flop is never clocked.                      *)
SyncWritePointer_Unreset ==
  write_gray_read1' = write_gray /\ write_gray_read2' = write_gray_read1
SyncReadPointer_Stuck ==
  /\ read_gray_write1' = IF reset THEN Gray(0) ELSE read_gray
  /\ read_gray_write2' = IF reset THEN Gray(0) ELSE read_gray_write2
SyncWritePointer_Stuck ==
  /\ write_gray_read1' = IF reset THEN Gray(0) ELSE write_gray
  /\ write_gray_read2' = IF reset THEN Gray(0) ELSE write_gray_read2

(* The other side's pointer through two flip-flops. *)
SyncReadPointer ==
  /\ read_gray_write1' = IF reset THEN Gray(0) ELSE read_gray
  /\ read_gray_write2' = IF reset THEN Gray(0) ELSE read_gray_write1

SyncWritePointer ==
  /\ write_gray_read1' = IF reset THEN Gray(0) ELSE write_gray
  /\ write_gray_read2' = IF reset THEN Gray(0) ELSE write_gray_read1

(* work_write: the entry goes to the memory whether or not reset is up,    *)
(* the registers are overridden by it.                                     *)
work_write(valid, d) ==
  LET fire == valid /\ write_ready
      next == IF fire THEN Ahead(write_bin, 1) ELSE write_bin
  IN  /\ data_mem' = IF fire THEN [data_mem EXCEPT ![Slot(write_bin)] = d]
                             ELSE data_mem
      /\ write_bin' = IF reset THEN 0 ELSE next
      /\ write_gray' = IF reset THEN Gray(0)
                       ELSE IF fire THEN Gray(next) ELSE write_gray
      /\ SyncReadPointer

(* work_read.  The entry popped at this edge is data_mem[Slot(read_bin)]. *)
work_read(ready) ==
  LET fire == ready /\ read_valid
      next == IF fire THEN Ahead(read_bin, 1) ELSE read_bin
  IN  /\ read_bin' = IF reset THEN 0 ELSE next
      /\ read_gray' = IF reset THEN Gray(0)
                      ELSE IF fire THEN Gray(next) ELSE read_gray
      /\ SyncWritePointer

Clocked(domains) ==
  /\ cleared' = IF reset THEN cleared \cup domains ELSE cleared
  /\ UNCHANGED reset

WriteEdge(valid, d) ==
  work_write(valid, d) /\ UNCHANGED readRegs /\ Clocked({"write"})

ReadEdge(ready) ==
  work_read(ready) /\ UNCHANGED << writeRegs, data_mem >> /\ Clocked({"read"})

BothEdges(valid, d, ready) ==
  work_write(valid, d) /\ work_read(ready) /\ Clocked(Domains)

(* The reset level.  It is held until each domain has had an edge.         *)
RaiseReset ==
  /\ ~reset
  /\ reset' = TRUE
  /\ cleared' = {}
  /\ UNCHANGED << writeRegs, data_mem, readRegs >>

LowerReset ==
  /\ reset
  /\ cleared = Domains
  /\ reset' = FALSE
  /\ cleared' = {}
  /\ UNCHANGED << writeRegs, data_mem, readRegs >>

Writes == \E valid \in BOOLEAN, d \in Data : WriteEdge(valid, d)
Reads  == \E ready \in BOOLEAN : ReadEdge(ready)
Both   == \E valid, ready \in BOOLEAN, d \in Data : BothEdges(valid, d, ready)

Next == Writes \/ Reads \/ Both \/ RaiseReset \/ LowerReset

Spec == Init /\ [][Next]_vars

(* Both clocks run for ever. *)
Fairness == WF_vars(Writes \/ Both) /\ WF_vars(Reads \/ Both)

FairSpec == Spec /\ Fairness

(* The same with a reset pulse that one domain's clock may miss: nothing   *)
(* in the code waits for the other domain.                                 *)
DropReset ==
  /\ reset
  /\ cleared # {}
  /\ reset' = FALSE
  /\ cleared' = {}
  /\ UNCHANGED << writeRegs, data_mem, readRegs >>

PulseSpec == Init /\ [][Next \/ DropReset]_vars

-----------------------------------------------------------------------------
Codes == {Gray(p) : p \in Pointers}

(* The pointers stay on their circle, the Gray registers hold codes.        *)
TypeOK ==
  /\ write_bin \in Pointers /\ read_bin \in Pointers
  /\ data_mem \in [0 .. DEPTH - 1 -> Data]
  /\ {write_gray, read_gray_write1, read_gray_write2} \subseteq Codes
  /\ {read_gray, write_gray_read1, write_gray_read2} \subseteq Codes
  /\ reset \in BOOLEAN
  /\ cleared \subseteq Domains

(* The pointer a code stands for. *)
Bin(g) == CHOOSE p \in Pointers : Gray(p) = g

(* Each Gray register holds the code of its domain's own pointer. *)
GrayMatches == write_gray = Gray(write_bin) /\ read_gray = Gray(read_bin)

(* What the write side knows of the read pointer is old, never ahead, and  *)
(* never more than a full buffer behind its own pointer.                   *)
WriteView ==
  Distance(Bin(read_gray_write2), Bin(read_gray_write1))
    + Distance(Bin(read_gray_write1), read_bin) + Occupancy <= DEPTH

(* What the read side knows of the write pointer is old, never ahead.      *)
ReadView ==
  Distance(read_bin, Bin(write_gray_read2))
    + Distance(Bin(write_gray_read2), Bin(write_gray_read1))
    + Distance(Bin(write_gray_read1), write_bin) = Occupancy

(* While reset is up, a domain that had an edge is at zero.                *)
ResetView ==
  /\ "write" \in cleared =>
        /\ write_bin = 0 /\ write_gray = Gray(0)
        /\ read_gray_write1 = Gray(0) /\ read_gray_write2 = Gray(0)
  /\ "read" \in cleared =>
        /\ read_bin = 0 /\ read_gray = Gray(0)
        /\ write_gray_read1 = Gray(0) /\ write_gray_read2 = Gray(0)

(* The inductive invariant: whatever the phases of the clocks, what each    *)
(* domain knows of the other's pointer is consistent with the occupancy.   *)
FifoInv ==
  /\ TypeOK
  /\ GrayMatches
  /\ ~reset => WriteView /\ ReadView /\ cleared = {}
  /\ reset => ResetView

-----------------------------------------------------------------------------
(* The flags each side acts on err only to the safe side: a writer told    *)
(* there is room has room, a reader told there is an entry has one, however *)
(* stale the synchronised pointers are.                                    *)
FlagsConservative ==
  ~reset => /\ write_ready => Occupancy < DEPTH
            /\ read_valid => Occupancy \in 1 .. DEPTH

(* The FIFO implements the abstract channel: the entries between the two   *)
(* pointers, oldest first, are the channel's contents.  So no entry is     *)
(* lost, duplicated, reordered or overwritten between the two clocks.      *)
Window(mem, first, n) == [i \in 1 .. n |-> mem[Slot(Ahead(first, i - 1))]]

Contents == IF reset THEN << >> ELSE Window(data_mem, read_bin, Occupancy)

Abstract == INSTANCE Channel WITH Capacity <- DEPTH, queue <- Contents

(* Every behaviour of the two clock domains is one of the channel. *)
ImplementsChannel == Abstract!Spec

(* An entry written is eventually offered to the reader.                   *)
EntryBecomesVisible == (~reset /\ Occupancy > 0) ~> (read_valid \/ reset)

(* Room made by the reader is eventually seen by the writer.               *)
RoomBecomesVisible == (~reset /\ Occupancy < DEPTH) ~> (write_ready \/ reset)
=============================================================================
