-------------------------- MODULE AsyncFifoProofs ---------------------------
(***************************************************************************)
(* Proofs about AsyncFifo, for every depth, set of entries and pointer     *)
(* code that meet its assumptions.                                         *)
(***************************************************************************)
EXTENDS AsyncFifo, SequenceTheorems, TLAPS

-----------------------------------------------------------------------------
(* Distances around the ring of pointers.                                  *)

(* Moving a pointer ahead wraps it onto the circle.                        *)
LEMMA AheadType ==
  ASSUME NEW p \in Pointers, NEW n \in 0 .. 2 * DEPTH
  PROVE  Ahead(p, n) \in Pointers
BY DepthAssumption DEF Pointers, Ahead

(* A distance leads from one pointer to the other; zero is no distance.    *)
LEMMA DistanceType ==
  ASSUME NEW p \in Pointers, NEW q \in Pointers
  PROVE  /\ Distance(p, q) \in 0 .. 2 * DEPTH - 1
         /\ Distance(p, q) = 0 <=> p = q
         /\ Ahead(p, Distance(p, q)) = q
BY DepthAssumption DEF Pointers, Distance, Ahead

(* A write makes the distance to the write pointer one more.               *)
LEMMA DistanceToNext ==
  ASSUME NEW p \in Pointers, NEW q \in Pointers,
         Distance(p, q) < 2 * DEPTH - 1
  PROVE  Distance(p, Ahead(q, 1)) = Distance(p, q) + 1
BY DepthAssumption DEF Pointers, Distance, Ahead

(* A read makes the distance from the read pointer one less.               *)
LEMMA DistanceFromNext ==
  ASSUME NEW p \in Pointers, NEW q \in Pointers, p # q
  PROVE  Distance(Ahead(p, 1), q) = Distance(p, q) - 1
BY DepthAssumption DEF Pointers, Distance, Ahead

(* Distances that do not go round the circle add up.                       *)
LEMMA DistanceSum ==
  ASSUME NEW p \in Pointers, NEW q \in Pointers, NEW s \in Pointers,
         Distance(p, q) + Distance(q, s) < 2 * DEPTH
  PROVE  Distance(p, s) = Distance(p, q) + Distance(q, s)
BY DepthAssumption DEF Pointers, Distance

-----------------------------------------------------------------------------
(* The code and its inverse.                                               *)

(* Decoding undoes coding.                                                 *)
LEMMA BinOfGray ==
  ASSUME NEW p \in Pointers
  PROVE  Gray(p) \in Codes /\ Bin(Gray(p)) = p
<1>1. \E q \in Pointers : Gray(q) = Gray(p)
  OBVIOUS
<1>2. Bin(Gray(p)) \in Pointers /\ Gray(Bin(Gray(p))) = Gray(p)
  BY <1>1 DEF Bin
<1>3. QED
  BY <1>2, GrayAssumption DEF Codes

(* Coding undoes decoding.                                                 *)
LEMMA GrayOfBin ==
  ASSUME NEW g \in Codes
  PROVE  Bin(g) \in Pointers /\ Gray(Bin(g)) = g
<1>1. PICK p \in Pointers : Gray(p) = g
  BY DEF Codes
<1>2. QED
  BY <1>1 DEF Bin

(* The pointer after a reset is one of the pointers.                       *)
LEMMA ZeroPointer == 0 \in Pointers
BY DepthAssumption DEF Pointers

-----------------------------------------------------------------------------
(* Both views at once.  i, j are the read pointer as the write side has it *)
(* after two and one flip-flops, k, l the write pointer as the read side   *)
(* has it; r and w are the pointers.                                       *)
ViewsOK(i, j, r, k, l, w) ==
  /\ Distance(i, j) + Distance(j, r) + Distance(r, w) <= DEPTH
  /\ Distance(r, k) + Distance(k, l) + Distance(l, w) = Distance(r, w)

(* A pointer moves only if its side's flag says so. *)
ReadMoves(r, k, rn) == rn = r \/ (r # k /\ rn = Ahead(r, 1))
WriteMoves(w, i, wn) == wn = w \/ (w # Ahead(i, DEPTH) /\ wn = Ahead(w, 1))

(* With both views, a stale flag that promises something is right.         *)
LEMMA FlagsArithmetic ==
  ASSUME NEW i \in Pointers, NEW j \in Pointers, NEW r \in Pointers,
         NEW k \in Pointers, NEW l \in Pointers, NEW w \in Pointers,
         ViewsOK(i, j, r, k, l, w)
  PROVE  /\ w # Ahead(i, DEPTH) => Distance(r, w) < DEPTH
         /\ r # k => Distance(r, w) \in 1 .. DEPTH
<1> USE DEF ViewsOK
<1>1. /\ {Distance(i, j), Distance(j, r), Distance(r, w), Distance(i, w),
          Distance(r, k), Distance(k, l), Distance(l, w)} \subseteq Nat
      /\ r # k => Distance(r, k) > 0
  BY DistanceType, DepthAssumption
<1>2. Distance(i, r) = Distance(i, j) + Distance(j, r)
  BY <1>1, DistanceSum, DepthAssumption
<1>3. Distance(i, w) = Distance(i, r) + Distance(r, w)
  BY <1>1, <1>2, DistanceSum, DepthAssumption
<1>4. w # Ahead(i, DEPTH) => Distance(i, w) # DEPTH
  BY DistanceType
<1>5. QED
  BY <1>1, <1>2, <1>3, <1>4, DepthAssumption

(* The views survive an edge of either clock, or of both: rn and wn are    *)
(* the pointers after it.                                                  *)
LEMMA EdgeArithmetic ==
  ASSUME NEW i \in Pointers, NEW j \in Pointers, NEW r \in Pointers,
         NEW k \in Pointers, NEW l \in Pointers, NEW w \in Pointers,
         NEW rn, NEW wn,
         ViewsOK(i, j, r, k, l, w), ReadMoves(r, k, rn), WriteMoves(w, i, wn)
  PROVE  /\ ViewsOK(j, r, rn, l, w, wn)
         /\ ViewsOK(i, j, rn, l, w, w)
         /\ ViewsOK(j, r, r, k, l, wn)
<1> USE DEF ViewsOK
<1>1. rn \in Pointers /\ wn \in Pointers
  BY AheadType, DepthAssumption DEF ReadMoves, WriteMoves
<1>2. \A p, q \in Pointers : Distance(p, q) \in Nat
  BY DistanceType
<1>3. Distance(r, l) = Distance(r, k) + Distance(k, l)
  BY <1>2, DistanceSum, DepthAssumption
<1>4. CASE wn = w
  BY <1>1, <1>2, <1>3, <1>4, DepthAssumption
  DEF Pointers, Distance, Ahead, ReadMoves
<1>5. CASE w # Ahead(i, DEPTH) /\ wn = Ahead(w, 1)
  <2>1. Distance(r, w) < DEPTH
    BY <1>5, FlagsArithmetic
  <2>2. Distance(l, wn) = Distance(l, w) + 1
    BY <1>2, <1>5, <2>1, DistanceToNext, DepthAssumption
  <2>3. QED
    BY <1>1, <1>2, <1>3, <1>5, <2>1, <2>2, DepthAssumption
    DEF Pointers, Distance, Ahead, ReadMoves
<1>6. QED
  BY <1>4, <1>5 DEF WriteMoves

-----------------------------------------------------------------------------
(* What the flags compare, in pointers: write_ready_comb_func and           *)
(* read_valid_comb_func.                                                   *)
LEMMA FlagsMeaning ==
  ASSUME TypeOK, GrayMatches
  PROVE  /\ write_ready <=> write_bin # Ahead(Bin(read_gray_write2), DEPTH)
         /\ read_valid <=> read_bin # Bin(write_gray_read2)
<1>1. /\ Bin(read_gray_write2) \in Pointers
      /\ Gray(Bin(read_gray_write2)) = read_gray_write2
      /\ Bin(write_gray_read2) \in Pointers
      /\ Gray(Bin(write_gray_read2)) = write_gray_read2
  BY GrayOfBin DEF TypeOK
<1>2. write_ready <=> write_bin # Ahead(Bin(read_gray_write2), DEPTH)
  BY <1>1, GrayAssumption DEF TypeOK, GrayMatches, write_ready
<1>3. read_valid <=> read_bin # Bin(write_gray_read2)
  BY <1>1, GrayAssumption DEF TypeOK, GrayMatches, read_valid
<1>4. QED
  BY <1>2, <1>3

(* What work_write does to the registers of the write domain.              *)
LEMMA WriteWork ==
  ASSUME TypeOK, GrayMatches,
         NEW valid \in BOOLEAN, NEW d \in Data, work_write(valid, d)
  PROVE  /\ write_bin' \in Pointers
         /\ data_mem' \in [0 .. DEPTH - 1 -> Data]
         /\ {write_gray', read_gray_write1', read_gray_write2'} \subseteq Codes
         /\ write_gray' = Gray(write_bin')
         /\ reset => /\ write_bin' = 0 /\ write_gray' = Gray(0)
                     /\ read_gray_write1' = Gray(0)
                     /\ read_gray_write2' = Gray(0)
         /\ ~reset =>
              /\ WriteMoves(write_bin, Bin(read_gray_write2), write_bin')
              /\ Bin(read_gray_write2') = Bin(read_gray_write1)
              /\ Bin(read_gray_write1') = read_bin
<1>1. 0 \in Pointers /\ Gray(0) \in Codes /\ Gray(read_bin) \in Codes
  BY ZeroPointer, BinOfGray DEF TypeOK
<1>2. Ahead(write_bin, 1) \in Pointers
  BY AheadType, DepthAssumption DEF TypeOK
<1>3. Gray(Ahead(write_bin, 1)) \in Codes
  BY <1>2, BinOfGray
<1>4. Bin(read_gray) = read_bin
  BY BinOfGray DEF TypeOK, GrayMatches
<1>5. data_mem' \in [0 .. DEPTH - 1 -> Data]
  BY DEF work_write, TypeOK
<1>6. CASE reset
  BY <1>1, <1>5, <1>6 DEF work_write, SyncReadPointer
<1>7. CASE ~reset /\ valid /\ write_ready
  BY <1>1, <1>2, <1>3, <1>4, <1>5, <1>7, FlagsMeaning
  DEF work_write, SyncReadPointer, TypeOK, GrayMatches, WriteMoves
<1>8. CASE ~reset /\ ~(valid /\ write_ready)
  BY <1>1, <1>4, <1>5, <1>8 DEF work_write, SyncReadPointer, TypeOK, GrayMatches, WriteMoves
<1>9. QED
  BY <1>6, <1>7, <1>8

(* What work_read does to the registers of the read domain.                *)
LEMMA ReadWork ==
  ASSUME TypeOK, GrayMatches, NEW ready \in BOOLEAN, work_read(ready)
  PROVE  /\ read_bin' \in Pointers
         /\ {read_gray', write_gray_read1', write_gray_read2'} \subseteq Codes
         /\ read_gray' = Gray(read_bin')
         /\ reset => /\ read_bin' = 0 /\ read_gray' = Gray(0)
                     /\ write_gray_read1' = Gray(0)
                     /\ write_gray_read2' = Gray(0)
         /\ ~reset =>
              /\ ReadMoves(read_bin, Bin(write_gray_read2), read_bin')
              /\ Bin(write_gray_read2') = Bin(write_gray_read1)
              /\ Bin(write_gray_read1') = write_bin
<1>1. 0 \in Pointers /\ Gray(0) \in Codes /\ Gray(write_bin) \in Codes
  BY ZeroPointer, BinOfGray DEF TypeOK
<1>2. Ahead(read_bin, 1) \in Pointers
  BY AheadType, DepthAssumption DEF TypeOK
<1>3. Gray(Ahead(read_bin, 1)) \in Codes
  BY <1>2, BinOfGray
<1>4. Bin(write_gray) = write_bin
  BY BinOfGray DEF TypeOK, GrayMatches
<1>5. CASE reset
  BY <1>1, <1>5 DEF work_read, SyncWritePointer
<1>6. CASE ~reset /\ ready /\ read_valid
  BY <1>1, <1>2, <1>3, <1>4, <1>6, FlagsMeaning
  DEF work_read, SyncWritePointer, TypeOK, GrayMatches, ReadMoves
<1>7. CASE ~reset /\ ~(ready /\ read_valid)
  BY <1>1, <1>4, <1>7 DEF work_read, SyncWritePointer, TypeOK, GrayMatches, ReadMoves
<1>8. QED
  BY <1>5, <1>6, <1>7

(* The two views of a state, of its registers by name. *)
ViewsHold == ViewsOK(Bin(read_gray_write2), Bin(read_gray_write1), read_bin,
                     Bin(write_gray_read2), Bin(write_gray_read1), write_bin)

(* The two views of the invariant are ViewsOK of the decoded registers.    *)
LEMMA ViewsAreOK == WriteView /\ ReadView <=> ViewsHold
BY DEF WriteView, ReadView, Occupancy, ViewsHold, ViewsOK

(* Every register stands for a pointer.                                    *)
LEMMA PointerTypes ==
  ASSUME TypeOK
  PROVE  /\ Bin(read_gray_write1) \in Pointers
         /\ Bin(read_gray_write2) \in Pointers
         /\ Bin(write_gray_read1) \in Pointers
         /\ Bin(write_gray_read2) \in Pointers
         /\ read_bin \in Pointers /\ write_bin \in Pointers
BY GrayOfBin DEF TypeOK

-----------------------------------------------------------------------------
(* Every register at zero, as at the start and at the end of a reset. *)
InitialRegisters ==
  /\ write_bin = 0 /\ write_gray = Gray(0)
  /\ read_gray_write1 = Gray(0) /\ read_gray_write2 = Gray(0)
  /\ read_bin = 0 /\ read_gray = Gray(0)
  /\ write_gray_read1 = Gray(0) /\ write_gray_read2 = Gray(0)

(* Both views hold when every pointer is zero.                             *)
LEMMA InitialViews ==
  ASSUME InitialRegisters
  PROVE  WriteView /\ ReadView
<1>1. Bin(Gray(0)) = 0 /\ Distance(0, 0) = 0
  BY ZeroPointer, BinOfGray, DistanceType
<1>2. QED
  BY <1>1, DepthAssumption
  DEF InitialRegisters, WriteView, ReadView, Occupancy

(* The invariant holds before the first edge.                              *)
LEMMA InitInv == Init => FifoInv
<1>1. 0 \in Pointers /\ Gray(0) \in Codes
  BY ZeroPointer, BinOfGray
<1>2. Init => TypeOK /\ GrayMatches
  BY <1>1 DEF Init, TypeOK, GrayMatches, Domains
<1>3. Init => WriteView /\ ReadView
  BY InitialViews DEF Init, InitialRegisters
<1>4. QED
  BY <1>2, <1>3 DEF Init, FifoInv

(* An edge of the write clock alone keeps the invariant.                   *)
LEMMA WriteEdgeInv ==
  ASSUME FifoInv, NEW valid \in BOOLEAN, NEW d \in Data, WriteEdge(valid, d)
  PROVE  FifoInv'
<1>1. TypeOK /\ GrayMatches /\ work_write(valid, d)
  BY DEF FifoInv, WriteEdge
<1>2. UNCHANGED << readRegs, reset >> /\ TypeOK' /\ GrayMatches'
  BY <1>1, WriteWork
  DEF WriteEdge, Clocked, readRegs, TypeOK, GrayMatches, Domains
<1>3. CASE reset
  BY <1>1, <1>2, <1>3, WriteWork
  DEF FifoInv, ResetView, WriteEdge, Clocked, readRegs
<1>4. CASE ~reset
  <2>1. ViewsHold /\ cleared' = {}
    BY <1>4, ViewsAreOK DEF FifoInv, WriteEdge, Clocked
  <2>2. ViewsHold'
    <3>1. /\ WriteMoves(write_bin, Bin(read_gray_write2), write_bin')
          /\ Bin(read_gray_write2') = Bin(read_gray_write1)
          /\ Bin(read_gray_write1') = read_bin
      BY <1>1, <1>4, WriteWork
    <3>2. ReadMoves(read_bin, Bin(write_gray_read2), read_bin)
      BY DEF ReadMoves
    <3>3. ViewsOK(Bin(read_gray_write1), read_bin, read_bin,
                  Bin(write_gray_read2), Bin(write_gray_read1), write_bin')
      BY <1>1, <2>1, <3>1, <3>2, PointerTypes, EdgeArithmetic DEF ViewsHold
    <3>4. QED
      BY <1>2, <3>1, <3>3 DEF ViewsHold, readRegs
  <2>3. (WriteView /\ ReadView)'
    BY <2>2 DEF WriteView, ReadView, Occupancy, ViewsHold, ViewsOK
  <2>4. QED
    BY <1>2, <1>4, <2>1, <2>3 DEF FifoInv
<1>5. QED
  BY <1>3, <1>4

(* An edge of the read clock alone keeps the invariant.                    *)
LEMMA ReadEdgeInv ==
  ASSUME FifoInv, NEW ready \in BOOLEAN, ReadEdge(ready)
  PROVE  FifoInv'
<1>1. TypeOK /\ GrayMatches /\ work_read(ready)
  BY DEF FifoInv, ReadEdge
<1>2. UNCHANGED << writeRegs, data_mem, reset >> /\ TypeOK' /\ GrayMatches'
  BY <1>1, ReadWork
  DEF ReadEdge, Clocked, writeRegs, TypeOK, GrayMatches, Domains
<1>3. CASE reset
  BY <1>1, <1>2, <1>3, ReadWork
  DEF FifoInv, ResetView, ReadEdge, Clocked, writeRegs
<1>4. CASE ~reset
  <2>1. ViewsHold /\ cleared' = {}
    BY <1>4, ViewsAreOK DEF FifoInv, ReadEdge, Clocked
  <2>2. ViewsHold'
    <3>1. /\ ReadMoves(read_bin, Bin(write_gray_read2), read_bin')
          /\ Bin(write_gray_read2') = Bin(write_gray_read1)
          /\ Bin(write_gray_read1') = write_bin
      BY <1>1, <1>4, ReadWork
    <3>2. WriteMoves(write_bin, Bin(read_gray_write2), write_bin)
      BY DEF WriteMoves
    <3>3. ViewsOK(Bin(read_gray_write2), Bin(read_gray_write1), read_bin',
                  Bin(write_gray_read1), write_bin, write_bin)
      BY <1>1, <2>1, <3>1, <3>2, PointerTypes, EdgeArithmetic DEF ViewsHold
    <3>4. QED
      BY <1>2, <3>1, <3>3 DEF ViewsHold, writeRegs
  <2>3. (WriteView /\ ReadView)'
    BY <2>2 DEF WriteView, ReadView, Occupancy, ViewsHold, ViewsOK
  <2>4. QED
    BY <1>2, <1>4, <2>1, <2>3 DEF FifoInv
<1>5. QED
  BY <1>3, <1>4

(* Edges of both clocks at one instant keep the invariant.                 *)
LEMMA BothEdgesInv ==
  ASSUME FifoInv, NEW valid \in BOOLEAN, NEW d \in Data,
         NEW ready \in BOOLEAN, BothEdges(valid, d, ready)
  PROVE  FifoInv'
<1>1. TypeOK /\ GrayMatches /\ work_write(valid, d) /\ work_read(ready)
  BY DEF FifoInv, BothEdges
<1>2. UNCHANGED reset /\ TypeOK' /\ GrayMatches'
  BY <1>1, WriteWork, ReadWork
  DEF BothEdges, Clocked, TypeOK, GrayMatches, Domains
<1>3. CASE reset
  BY <1>1, <1>2, <1>3, WriteWork, ReadWork DEF FifoInv, ResetView
<1>4. CASE ~reset
  <2>1. ViewsHold /\ cleared' = {}
    BY <1>4, ViewsAreOK DEF FifoInv, BothEdges, Clocked
  <2>2. ViewsHold'
    <3>1. /\ WriteMoves(write_bin, Bin(read_gray_write2), write_bin')
          /\ Bin(read_gray_write2') = Bin(read_gray_write1)
          /\ Bin(read_gray_write1') = read_bin
      BY <1>1, <1>4, WriteWork
    <3>2. /\ ReadMoves(read_bin, Bin(write_gray_read2), read_bin')
          /\ Bin(write_gray_read2') = Bin(write_gray_read1)
          /\ Bin(write_gray_read1') = write_bin
      BY <1>1, <1>4, ReadWork
    <3>3. ViewsOK(Bin(read_gray_write1), read_bin, read_bin',
                  Bin(write_gray_read1), write_bin, write_bin')
      BY <1>1, <2>1, <3>1, <3>2, PointerTypes, EdgeArithmetic DEF ViewsHold
    <3>4. QED
      BY <3>1, <3>2, <3>3 DEF ViewsHold
  <2>3. (WriteView /\ ReadView)'
    BY <2>2 DEF WriteView, ReadView, Occupancy, ViewsHold, ViewsOK
  <2>4. QED
    BY <1>2, <1>4, <2>1, <2>3 DEF FifoInv
<1>5. QED
  BY <1>3, <1>4

(* Raising and lowering the reset keeps the invariant.                     *)
LEMMA ResetInv ==
  ASSUME FifoInv, RaiseReset \/ LowerReset
  PROVE  FifoInv'
<1>1. TypeOK' /\ GrayMatches'
  BY DEF FifoInv, TypeOK, GrayMatches, RaiseReset, LowerReset, readRegs,
         writeRegs
<1>2. CASE RaiseReset
  BY <1>1, <1>2 DEF FifoInv, RaiseReset, ResetView
<1>3. CASE LowerReset
  <2>1. InitialRegisters
    BY <1>3 DEF FifoInv, LowerReset, ResetView, Domains, InitialRegisters
  <2>2. (WriteView /\ ReadView)'
    BY <1>3, <2>1, InitialViews
    DEF LowerReset, readRegs, writeRegs, WriteView, ReadView, Occupancy
  <2>3. QED
    BY <1>1, <1>3, <2>2 DEF FifoInv, LowerReset
<1>4. QED
  BY <1>2, <1>3

(* The inductive invariant: each side's view of the other's pointer is old *)
(* but never ahead (work_write and work_read, and the reset).              *)
THEOREM FifoInvariant == Spec => []FifoInv
<1>1. FifoInv /\ [Next]_vars => FifoInv'
  <2> SUFFICES ASSUME FifoInv, [Next]_vars
               PROVE  FifoInv'
    OBVIOUS
  <2>1. CASE Writes
    BY <2>1, WriteEdgeInv DEF Writes
  <2>2. CASE Reads
    BY <2>2, ReadEdgeInv DEF Reads
  <2>3. CASE Both
    BY <2>3, BothEdgesInv DEF Both
  <2>4. CASE RaiseReset \/ LowerReset
    BY <2>4, ResetInv
  <2>5. CASE UNCHANGED vars
    BY <2>5
    DEF vars, readRegs, writeRegs, FifoInv, TypeOK, GrayMatches, WriteView,
        ReadView, Occupancy, ResetView
  <2>6. QED
    BY <2>1, <2>2, <2>3, <2>4, <2>5 DEF Next
<1>2. QED
  BY <1>1, InitInv, PTL DEF Spec

(* write_ready_comb_func and read_valid_comb_func err only to the safe     *)
(* side, for every depth.                                                  *)
THEOREM FlagsAreConservative == Spec => []FlagsConservative
<1>1. FifoInv => FlagsConservative
  <2> SUFFICES ASSUME FifoInv, ~reset
               PROVE  /\ write_ready => Occupancy < DEPTH
                      /\ read_valid => Occupancy \in 1 .. DEPTH
    BY DEF FlagsConservative
  <2>1. TypeOK /\ GrayMatches /\ ViewsHold
    BY ViewsAreOK DEF FifoInv
  <2>2. QED
    BY <2>1, FlagsMeaning, PointerTypes, FlagsArithmetic
    DEF ViewsHold, Occupancy
<1>2. QED
  BY <1>1, FifoInvariant, PTL

-----------------------------------------------------------------------------
(* The entries between the pointers, as a sequence.                        *)

Memories == [0 .. DEPTH - 1 -> Data]

(* A pointer without its top bit is an address of data_mem.                *)
LEMMA SlotType ==
  ASSUME NEW p \in Pointers
  PROVE  Slot(p) \in 0 .. DEPTH - 1
BY DepthAssumption DEF Pointers, Slot

(* A window of at most DEPTH entries is a sequence of data.                *)
LEMMA WindowType ==
  ASSUME NEW mem \in Memories, NEW r \in Pointers, NEW n \in 0 .. DEPTH
  PROVE  /\ Window(mem, r, n) \in Seq(Data)
         /\ Len(Window(mem, r, n)) = n
         /\ \A i \in 1 .. n :
              Window(mem, r, n)[i] = mem[Slot(Ahead(r, i - 1))]
<1>1. \A i \in 1 .. n : mem[Slot(Ahead(r, i - 1))] \in Data
  <2>1. TAKE i \in 1 .. n
  <2>2. i - 1 \in 0 .. 2 * DEPTH
    BY DepthAssumption
  <2>3. Ahead(r, i - 1) \in Pointers
    BY <2>2, AheadType
  <2>4. Slot(Ahead(r, i - 1)) \in 0 .. DEPTH - 1
    BY <2>3, SlotType
  <2>5. QED
    BY <2>4 DEF Memories
<1>2. Window(mem, r, n) \in [1 .. n -> Data]
  BY <1>1 DEF Window
<1>3. n \in Nat
  BY DepthAssumption
<1>4. Window(mem, r, n) \in Seq(Data)
  BY <1>2, <1>3, SeqDef
<1>5. Len(Window(mem, r, n)) = n
  BY <1>2, <1>3, <1>4, LenProperties
<1>6. QED
  BY <1>4, <1>5 DEF Window

(* The write lands outside the window, in the place that extends it. *)
LEMMA WindowAppend ==
  ASSUME NEW mem \in Memories, NEW r \in Pointers, NEW w \in Pointers,
         NEW d \in Data, Distance(r, w) < DEPTH
  PROVE  Window([mem EXCEPT ![Slot(w)] = d], r, Distance(r, w) + 1)
           = Append(Window(mem, r, Distance(r, w)), d)
<1> DEFINE n == Distance(r, w)
           new == [mem EXCEPT ![Slot(w)] = d]
           s == Window(mem, r, n)
           t == Window(new, r, n + 1)
<1>1. n \in Nat /\ n \in 0 .. DEPTH /\ n + 1 \in 0 .. DEPTH
  BY DistanceType, DepthAssumption
<1>2. new \in Memories
  BY SlotType DEF Memories
<1>3. /\ s \in Seq(Data) /\ Len(s) = n
      /\ \A i \in 1 .. n : s[i] = mem[Slot(Ahead(r, i - 1))]
  BY <1>1, WindowType
<1>4. /\ t \in Seq(Data) /\ Len(t) = n + 1
      /\ \A i \in 1 .. n + 1 : t[i] = new[Slot(Ahead(r, i - 1))]
  BY <1>1, <1>2, WindowType
<1>5. /\ Append(s, d) \in Seq(Data) /\ Len(Append(s, d)) = n + 1
      /\ \A i \in 1 .. n : Append(s, d)[i] = s[i]
      /\ Append(s, d)[n + 1] = d
  BY <1>1, <1>3, AppendProperties
<1>6. ASSUME NEW i \in 1 .. n
      PROVE  new[Slot(Ahead(r, i - 1))] = mem[Slot(Ahead(r, i - 1))]
  <2>1. /\ Slot(Ahead(r, i - 1)) # Slot(w)
        /\ Slot(Ahead(r, i - 1)) \in 0 .. DEPTH - 1
    BY <1>1, DepthAssumption DEF Slot, Ahead, Distance, Pointers
  <2>2. QED
    BY <2>1 DEF Memories
<1>7. Ahead(r, n) = w /\ new[Slot(w)] = d
  BY DistanceType, SlotType DEF Memories
<1> HIDE DEF n, new, s, t
<1>8. ASSUME NEW i \in 1 .. n
      PROVE  t[i] = Append(s, d)[i]
  <2>1. i \in 1 .. n + 1
    BY <1>1
  <2>2. t[i] = new[Slot(Ahead(r, i - 1))]
    BY <1>4, <2>1
  <2>3. s[i] = mem[Slot(Ahead(r, i - 1))]
    BY <1>3
  <2>4. QED
    BY <1>5, <1>6, <2>2, <2>3
<1>9. t[n + 1] = Append(s, d)[n + 1]
  BY <1>1, <1>4, <1>5, <1>7
<1>10. \A i \in 1 .. Len(t) : t[i] = Append(s, d)[i]
  <2> SUFFICES ASSUME NEW i \in 1 .. n + 1
               PROVE  t[i] = Append(s, d)[i]
    BY <1>4
  <2>1. i \in 1 .. n \/ i = n + 1
    BY <1>1
  <2>2. QED
    BY <1>8, <1>9, <2>1
<1>11. t = Append(s, d)
  BY <1>4, <1>5, <1>10, SeqEqual
<1>12. QED
  BY <1>11 DEF n, new, s, t

(* A read takes the head off the window.                                   *)
LEMMA WindowTail ==
  ASSUME NEW mem \in Memories, NEW r \in Pointers, NEW n \in 1 .. DEPTH
  PROVE  Window(mem, Ahead(r, 1), n - 1) = Tail(Window(mem, r, n))
<1> DEFINE s == Window(mem, r, n)
           t == Window(mem, Ahead(r, 1), n - 1)
<1>1. /\ n \in Nat /\ n \in 0 .. DEPTH /\ n - 1 \in 0 .. DEPTH
      /\ Ahead(r, 1) \in Pointers
  BY DepthAssumption, AheadType
<1>2. /\ s \in Seq(Data) /\ Len(s) = n
      /\ \A i \in 1 .. n : s[i] = mem[Slot(Ahead(r, i - 1))]
  BY <1>1, WindowType
<1>3. /\ t \in Seq(Data) /\ Len(t) = n - 1
      /\ \A i \in 1 .. n - 1 : t[i] = mem[Slot(Ahead(Ahead(r, 1), i - 1))]
  BY <1>1, WindowType
<1>4. \A i \in 1 .. n - 1 : Ahead(Ahead(r, 1), i - 1) = Ahead(r, i)
  BY DepthAssumption DEF Ahead, Pointers
<1>5. \A i \in 1 .. n - 1 : s[i + 1] = mem[Slot(Ahead(r, i))]
  BY <1>1, <1>2
<1> HIDE DEF s, t
<1>6. s # << >>
  BY <1>1, <1>2, EmptySeq
<1>7. /\ Tail(s) \in Seq(Data) /\ Len(Tail(s)) = n - 1
      /\ \A i \in 1 .. n - 1 : Tail(s)[i] = s[i + 1]
  BY <1>2, <1>6, HeadTailProperties
<1>8. \A i \in 1 .. Len(t) : t[i] = Tail(s)[i]
  BY <1>1, <1>3, <1>4, <1>5, <1>7
<1>9. t = Tail(s)
  BY <1>3, <1>7, <1>8, SeqEqual
<1>10. QED
  BY <1>9 DEF s, t

-----------------------------------------------------------------------------
(* What an edge does to the abstract channel.                              *)

Pushes(d) == /\ write_ready
             /\ data_mem' = [data_mem EXCEPT ![Slot(write_bin)] = d]
             /\ write_bin' = Ahead(write_bin, 1)

Pops == read_valid /\ read_bin' = Ahead(read_bin, 1)

(* The contents are as long as the occupancy, and the flags match them.    *)
LEMMA ContentsType ==
  ASSUME FifoInv, ~reset
  PROVE  /\ Contents \in Seq(Data) /\ Len(Contents) = Occupancy
         /\ Occupancy \in 0 .. DEPTH
         /\ data_mem \in Memories
         /\ write_ready => Occupancy < DEPTH
         /\ read_valid => Occupancy > 0 /\ Contents # << >>
<1>1. TypeOK /\ GrayMatches /\ ViewsHold
  BY ViewsAreOK DEF FifoInv
<1>2. \A p, q \in Pointers : Distance(p, q) \in Nat
  BY DistanceType
<1>3. Occupancy \in 0 .. DEPTH
  BY <1>1, <1>2, PointerTypes, DepthAssumption
  DEF ViewsHold, ViewsOK, Occupancy
<1>4. /\ write_ready => Occupancy < DEPTH
      /\ read_valid => Occupancy > 0
  BY <1>1, FlagsMeaning, PointerTypes, FlagsArithmetic
  DEF ViewsHold, Occupancy
<1>5. data_mem \in Memories
  BY <1>1 DEF TypeOK, Memories
<1>6. Contents \in Seq(Data) /\ Len(Contents) = Occupancy
  BY <1>1, <1>3, <1>5, WindowType DEF Contents, TypeOK
<1>7. Len(Contents) > 0 => Contents # << >>
  BY EmptySeq
<1>8. QED
  BY <1>3, <1>4, <1>5, <1>6, <1>7

(* A write without a read appends to the contents.                         *)
LEMMA PushStep ==
  ASSUME FifoInv, ~reset, ~reset', NEW d \in Data, Pushes(d),
         UNCHANGED read_bin
  PROVE  Contents' = Append(Contents, d) /\ Len(Contents) < DEPTH
<1>1. read_bin \in Pointers /\ write_bin \in Pointers
  BY DEF FifoInv, TypeOK
<1>2. data_mem \in Memories /\ Occupancy < DEPTH /\ Len(Contents) = Occupancy
  BY ContentsType DEF Pushes
<1>3. Occupancy' = Occupancy + 1
  BY <1>1, <1>2, DistanceToNext, DepthAssumption DEF Occupancy, Pushes
<1>4. Window(data_mem', read_bin, Occupancy + 1)
        = Append(Window(data_mem, read_bin, Occupancy), d)
  BY <1>1, <1>2, WindowAppend DEF Occupancy, Pushes
<1>5. QED
  BY <1>2, <1>3, <1>4 DEF Contents

(* A read without a write takes the head of the contents.                  *)
LEMMA PopStep ==
  ASSUME FifoInv, ~reset, ~reset', Pops, UNCHANGED << data_mem, write_bin >>
  PROVE  Contents' = Tail(Contents) /\ Contents # << >>
<1>1. read_bin \in Pointers /\ write_bin \in Pointers
  BY DEF FifoInv, TypeOK
<1>2. /\ data_mem \in Memories /\ Occupancy \in 1 .. DEPTH
      /\ Contents # << >>
  BY ContentsType, DepthAssumption DEF Pops
<1>3. Occupancy' = Occupancy - 1
  BY <1>1, <1>2, DistanceType, DistanceFromNext DEF Occupancy, Pops
<1>4. QED
  BY <1>1, <1>2, <1>3, WindowTail DEF Contents, Pops

(* A write and a read at one instant do both.                              *)
LEMMA PushPopStep ==
  ASSUME FifoInv, ~reset, ~reset', NEW d \in Data, Pushes(d), Pops
  PROVE  /\ Contents' = Append(Tail(Contents), d)
         /\ Len(Contents) < DEPTH /\ Contents # << >>
<1>1. read_bin \in Pointers /\ write_bin \in Pointers
  BY DEF FifoInv, TypeOK
<1>2. /\ data_mem \in Memories /\ Occupancy \in 1 .. DEPTH - 1
      /\ Contents # << >> /\ Contents \in Seq(Data)
      /\ Len(Contents) = Occupancy
  BY ContentsType, DepthAssumption DEF Pops, Pushes
<1>3. /\ Ahead(write_bin, 1) \in Pointers
      /\ Distance(read_bin, Ahead(write_bin, 1)) = Occupancy + 1
  BY <1>1, <1>2, AheadType, DistanceToNext, DepthAssumption DEF Occupancy
<1>4. Distance(Ahead(read_bin, 1), Ahead(write_bin, 1)) = Occupancy
  <2>1. read_bin # Ahead(write_bin, 1)
    BY <1>1, <1>2, <1>3, DistanceType
  <2>2. QED
    BY <1>1, <1>2, <1>3, <2>1, DistanceFromNext
<1>5. Occupancy' = Occupancy
  BY <1>4 DEF Occupancy, Pushes, Pops
<1>6. data_mem' \in Memories
  BY <1>1, <1>2, SlotType DEF Pushes, Memories
<1>7. Window(data_mem', read_bin, Occupancy + 1) = Append(Contents, d)
  <2>1. Distance(read_bin, write_bin) < DEPTH
    BY <1>2, DepthAssumption DEF Occupancy
  <2>2. QED
    BY <1>1, <1>2, <2>1, WindowAppend DEF Occupancy, Pushes, Contents
<1>8. Window(data_mem', Ahead(read_bin, 1), Occupancy)
        = Tail(Window(data_mem', read_bin, Occupancy + 1))
  <2>1. Occupancy + 1 \in 1 .. DEPTH /\ (Occupancy + 1) - 1 = Occupancy
    BY <1>2, DepthAssumption
  <2>2. QED
    BY <1>1, <1>6, <2>1, WindowTail
<1>9. Tail(Append(Contents, d)) = Append(Tail(Contents), d)
  BY <1>2, HeadTailAppend
<1>10. Contents' = Window(data_mem', Ahead(read_bin, 1), Occupancy)
  BY <1>5 DEF Contents, Pops
<1>11. QED
  BY <1>2, <1>7, <1>8, <1>9, <1>10, DepthAssumption

(* Every step of the FIFO, an edge of either clock or of both, is a step   *)
(* of the abstract channel: work_write pushes and work_read pops what the  *)
(* channel says, whatever the synchronised pointers had not seen yet.      *)
THEOREM FifoImplementsChannel == Spec => ImplementsChannel
<1>1. Init => Abstract!Init
  <2> SUFFICES ASSUME Init
               PROVE  Contents = << >>
    BY DEF Abstract!Init
  <2>1. FifoInv /\ ~reset /\ Occupancy = 0
    BY InitInv, ZeroPointer, DistanceType DEF Init, Occupancy
  <2>2. Contents \in Seq(Data) /\ Len(Contents) = 0
    BY <2>1, ContentsType
  <2>3. QED
    BY <2>2, EmptySeq
<1>2. FifoInv /\ FifoInv' /\ [Next]_vars => [Abstract!Next]_Contents
  <2> SUFFICES ASSUME FifoInv, FifoInv', [Next]_vars
               PROVE  Abstract!Next \/ Contents' = Contents
    OBVIOUS
  <2> USE DEF Abstract!Next, Abstract!Push, Abstract!Pop, Abstract!PushPop,
              Abstract!Flush
  <2>1. CASE reset /\ reset'
    BY <2>1 DEF Contents
  <2>2. CASE ~reset /\ ~reset' /\ Writes
    <3>1. PICK valid \in BOOLEAN, d \in Data : WriteEdge(valid, d)
      BY <2>2 DEF Writes
    <3>2. UNCHANGED read_bin
      BY <3>1 DEF WriteEdge, readRegs
    <3>3. Pushes(d) \/ UNCHANGED << data_mem, write_bin >>
      BY <2>2, <3>1 DEF WriteEdge, work_write, Pushes
    <3>4. CASE Pushes(d)
      BY <2>2, <3>2, <3>4, PushStep
    <3>5. CASE UNCHANGED << data_mem, write_bin >>
      BY <2>2, <3>2, <3>5 DEF Contents, Occupancy
    <3>6. QED
      BY <3>3, <3>4, <3>5
  <2>3. CASE ~reset /\ ~reset' /\ Reads
    <3>1. PICK ready \in BOOLEAN : ReadEdge(ready)
      BY <2>3 DEF Reads
    <3>2. UNCHANGED << data_mem, write_bin >>
      BY <3>1 DEF ReadEdge, writeRegs
    <3>3. Pops \/ UNCHANGED read_bin
      BY <2>3, <3>1 DEF ReadEdge, work_read, Pops
    <3>4. CASE Pops
      BY <2>3, <3>2, <3>4, PopStep
    <3>5. CASE UNCHANGED read_bin
      BY <2>3, <3>2, <3>5 DEF Contents, Occupancy
    <3>6. QED
      BY <3>3, <3>4, <3>5
  <2>4. CASE ~reset /\ ~reset' /\ Both
    <3>1. PICK valid \in BOOLEAN, ready \in BOOLEAN, d \in Data :
            BothEdges(valid, d, ready)
      BY <2>4 DEF Both
    <3>2. Pushes(d) \/ UNCHANGED << data_mem, write_bin >>
      BY <2>4, <3>1 DEF BothEdges, work_write, Pushes
    <3>3. Pops \/ UNCHANGED read_bin
      BY <2>4, <3>1 DEF BothEdges, work_read, Pops
    <3>4. CASE Pushes(d) /\ Pops
      BY <2>4, <3>4, PushPopStep
    <3>5. CASE Pushes(d) /\ UNCHANGED read_bin
      BY <2>4, <3>5, PushStep
    <3>6. CASE UNCHANGED << data_mem, write_bin >> /\ Pops
      BY <2>4, <3>6, PopStep
    <3>7. CASE UNCHANGED << data_mem, write_bin >> /\ UNCHANGED read_bin
      BY <2>4, <3>7 DEF Contents, Occupancy
    <3>8. QED
      BY <3>2, <3>3, <3>4, <3>5, <3>6, <3>7
  <2>5. CASE ~reset /\ reset'
    BY <2>5 DEF Contents
  <2>6. CASE reset /\ ~reset'
    <3>1. LowerReset
      BY <2>6
      DEF Next, Writes, Reads, Both, WriteEdge, ReadEdge, BothEdges, Clocked,
          RaiseReset, vars
    <3>2. read_bin' = 0 /\ write_bin' = 0
      BY <2>6, <3>1
      DEF FifoInv, ResetView, LowerReset, Domains, readRegs, writeRegs
    <3>3. Occupancy' = 0
      BY <3>2, ZeroPointer, DistanceType DEF Occupancy
    <3>4. (Contents \in Seq(Data) /\ Len(Contents) = Occupancy)'
      BY <2>6, ContentsType, PTL
    <3>5. Contents' = << >>
      BY <3>3, <3>4, EmptySeq
    <3>6. QED
      BY <3>5
  <2>7. CASE UNCHANGED vars
    BY <2>7 DEF vars, readRegs, writeRegs, Contents, Occupancy
  <2>8. CASE ~reset /\ ~reset' /\ (RaiseReset \/ LowerReset)
    BY <2>8 DEF RaiseReset, LowerReset
  <2>9. reset \in BOOLEAN /\ reset' \in BOOLEAN
    BY DEF FifoInv, TypeOK
  <2>10. QED
    BY <2>1, <2>2, <2>3, <2>4, <2>5, <2>6, <2>7, <2>8, <2>9 DEF Next
<1>3. QED
  BY <1>1, <1>2, FifoInvariant, PTL DEF Spec, ImplementsChannel, Abstract!Spec
=============================================================================
