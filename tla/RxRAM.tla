------------------------------- MODULE RxRAM -------------------------------
(***************************************************************************)
(* The receive packet store of one ingress stream (rtl/network/RxRAM.h).   *)
(* The rows of the stream are a circular buffer: beats append bytes to the *)
(* open frame, the end of a frame pushes its handle and length into a      *)
(* completion FIFO, the read engines release packets in any order, and     *)
(* rows become free again in the order they were allocated; releases that  *)
(* come too early wait in a small associative memory.                      *)
(*                                                                         *)
(* One step is one net_clk edge: all that _work does for the stream, from  *)
(* the registers as they were before the edge.  The inputs of the edge are *)
(* a beat of the InputBalancer or none, the ready of the descriptor join,  *)
(* and what each read port releases.  The eight streams share nothing but  *)
(* the release ports, so one of them is modelled; the read path (bank      *)
(* arbitration, response registers) is not: a packet may be read at any    *)
(* time from its pop to its release, so its rows must hold it so long.     *)
(*                                                                         *)
(* Bytes are counted, not stored.  A row holds which word of which packet  *)
(* was written there; a packet is named by an identity of Ids, used again  *)
(* after its release.                                                      *)
(***************************************************************************)
EXTENDS Integers, Sequences, FiniteSets, FiniteSetsExt, SequencesExt

CONSTANTS
  LANE_BYTES,            (* bytes of a beat and of a row                   *)
  LOGICAL_ROWS,          (* rows of the stream, even                       *)
  MAX_LENGTH,            (* the largest length the length register holds   *)
  COMPLETION_FIFO_WORDS,
  RELEASE_SLOTS,         (* early releases that can wait                   *)
  READ_PORTS,            (* ports that may release at the same edge        *)
  FrameLengths,          (* the lengths the wire brings                    *)
  MaxHeld,               (* bound: packets popped and not yet released     *)
  BackToBack,            (* may a beat hold an EOP and the following SOP?  *)
  Ids

(* InputBalancer drops no byte of a frame longer than a beat and shorter   *)
(* than MAX_FRAME_BYTES; what comes after that is not modelled.            *)
ASSUME RxRAMAssumption ==
  /\ {LANE_BYTES, LOGICAL_ROWS, MAX_LENGTH, COMPLETION_FIFO_WORDS,
      RELEASE_SLOTS, READ_PORTS, MaxHeld} \subseteq Nat \ {0}
  /\ LOGICAL_ROWS % 2 = 0
  /\ FrameLengths \subseteq LANE_BYTES + 1 .. MAX_LENGTH
  /\ BackToBack \in BOOLEAN
  /\ Ids \subseteq Nat

VARIABLES
  pack_count,      (* bytes of the row being assembled                     *)
  next_row,        (* the row the assembled bytes will go to               *)
  packet_start, packet_length, in_frame,           (* the open frame       *)
  release_row, used_rows,                          (* the allocated region *)
  deferred,        (* the releases that came early                         *)
  completions,     (* the completion FIFO                                  *)
  protocol_error, storage_full,                    (* sticky outputs       *)
  ram,             (* row -> the packet word it holds, or none             *)
  writing,         (* the balancer: identity of the frame being sent,      *)
  left,            (*   its bytes still to come                            *)
  held             (* downstream: the packets popped and not yet released  *)

frameRegs == << pack_count, next_row, packet_start, packet_length, in_frame >>
vars == << frameRegs, release_row, used_rows, deferred, completions,
           protocol_error, storage_full, ram, writing, left, held >>

-----------------------------------------------------------------------------
Even(n) == n + (n % 2)
Row(n) == n % LOGICAL_ROWS     (* & (LOGICAL_ROWS - 1) in the code          *)

(* Mistakes the checks below must catch come before what they replace:     *)
(* here, rows not rounded to a whole interleave block.                     *)
released_rows_Odd(length) == (length + LANE_BYTES - 1) \div LANE_BYTES

(* Rows allocated to a packet of the given length. *)
released_rows(length) == Even((length + LANE_BYTES - 1) \div LANE_BYTES)
MAX_PACKET_ROWS == released_rows(MAX_LENGTH)

(* A packet the store knows: a completion, a held descriptor or a release. *)
RowsOf(p) == {Row(p.row + i) : i \in 0 .. released_rows(p.length) - 1}
Words(p) == 0 .. (p.length - 1) \div LANE_BYTES

Unread == ToSet(completions) \cup held
Allocated == Unread \cup deferred

None == [id |-> -1, word |-> 0]

Init ==
  /\ pack_count = 0 /\ next_row = 0
  /\ packet_start = 0 /\ packet_length = 0 /\ in_frame = FALSE
  /\ release_row = 0 /\ used_rows = 0
  /\ deferred = {}
  /\ completions = << >>
  /\ protocol_error = FALSE /\ storage_full = FALSE
  /\ ram = [r \in 0 .. LOGICAL_ROWS - 1 |-> None]
  /\ writing = 0 /\ left = 0
  /\ held = {}

-----------------------------------------------------------------------------
(* Releases.  The local variables of _work, threaded through its loops:    *)
(* the deferred releases that are kept, those added at this edge.          *)
Free_Unwrapped(st, p) == [st EXCEPT !.row = @ + released_rows(p.length),
                                    !.used = @ - released_rows(p.length)]

Free(st, p) == [st EXCEPT !.row = Row(@ + released_rows(p.length)),
                          !.used = @ - released_rows(p.length)]

(* A waiting release is never looked at again; or its slot is not cleared. *)
Retire_Never(st) == st
Retire_Kept(st) ==
  LET due == {p \in deferred : p.row = st.row}
  IN  IF due = {} THEN st
      ELSE LET p == CHOOSE p \in due : TRUE
           IN  IF released_rows(p.length) \in 1 .. st.used
               THEN Free(st, p) ELSE [st EXCEPT !.error = TRUE]

(* One early release whose turn has come is retired at each edge. *)
Retire(st) ==
  LET due == {p \in deferred : p.row = st.row}
  IN  IF due = {} THEN st
      ELSE LET p == CHOOSE p \in due : TRUE
               gone == [st EXCEPT !.kept = @ \ {p}]
           IN  IF released_rows(p.length) \in 1 .. st.used
               THEN Free(gone, p)
               ELSE [gone EXCEPT !.error = TRUE]

(* A port's release: of the oldest packet, or set aside if a slot that was *)
(* free before the edge is still unclaimed, or else lost.                  *)
Release(st, p) ==
  CASE released_rows(p.length) \notin 1 .. st.used -> [st EXCEPT !.error = TRUE]
    [] released_rows(p.length) \in 1 .. st.used /\ p.row = st.row -> Free(st, p)
    [] OTHER ->
         [st EXCEPT
           !.error = \/ @
                     \/ \E q \in deferred : q.row = p.row
                     \/ Cardinality(deferred \cup st.added) >= RELEASE_SLOTS,
           !.added = IF Cardinality(deferred \cup @) < RELEASE_SLOTS
                     THEN @ \cup {p} ELSE @]

AfterReleases(released) ==
  LET before == [row |-> release_row, used |-> used_rows, kept |-> deferred,
                 added |-> {}, error |-> FALSE]
      after[n \in 0 .. Len(released)] ==
        IF n = 0 THEN Retire(before) ELSE Release(after[n - 1], released[n])
  IN  after[Len(released)]

-----------------------------------------------------------------------------
(* Beats.  A beat carries more bytes of the open frame, up to its last if  *)
(* eop, and then the first bytes of a frame of the given length if sop.    *)
NoBeat == [more |-> 0, eop |-> FALSE, sop |-> FALSE, first |-> 0, size |-> 0]

Beats ==
  LET b(m, f, L) == [more |-> m, eop |-> m > 0 /\ m = left, sop |-> f > 0,
                     first |-> f, size |-> L]
      starts(room) == (1 .. room) \X FrameLengths
  IN  IF left = 0
      THEN {b(0, x[1], x[2]) : x \in starts(LANE_BYTES)}
      ELSE {b(m, 0, 0) : m \in 1 .. Min({left, LANE_BYTES})}
           \cup IF BackToBack /\ left < LANE_BYTES
                THEN {b(left, x[1], x[2]) : x \in starts(LANE_BYTES - left)}
                ELSE {}

(* Completions left once the join has taken the head. *)
CompletionsKept(pop) ==
  IF pop /\ completions # << >> THEN Tail(completions) ELSE completions

(* A frame is admitted while any row is free. *)
InputReady_AnyRow(pop) ==
  /\ Len(CompletionsKept(pop)) < COMPLETION_FIFO_WORDS
  /\ in_frame \/ used_rows < LOGICAL_ROWS

(* Between frames a beat is taken only if the largest frame fits. *)
InputReady(pop) ==
  /\ Len(CompletionsKept(pop)) < COMPLETION_FIFO_WORDS
  /\ in_frame \/ used_rows <= LOGICAL_ROWS - MAX_PACKET_ROWS

(* The rows with the words that the bytes of a beat complete. *)
Written(rows, id, start, first, count) ==
  LET target == {Row(first + i) : i \in 0 .. count - 1}
  IN  [r \in DOMAIN rows |-> IF r \in target THEN [id |-> id, word |-> Row(r - start)]
                            ELSE rows[r]]

(* The identity of a packet that starts in the given row: unused, and that *)
(* row's own unless the store holds another packet that starts there.      *)
FreeId(start) ==
  CHOOSE i \in Ids :
    LET unused(j) == j # writing /\ \A p \in Allocated : j # p.id
    IN  /\ Row(i) = start /\ unused(i)
        /\ \A j \in Ids : Row(j) = start /\ unused(j) => i <= j

(* The beat's bytes through the row being assembled. *)
Take(beat, free, pop, stored) ==
  LET sum     == pack_count + beat.more
      full    == sum \div LANE_BYTES
      rest    == sum % LANE_BYTES
      partial == IF beat.eop /\ rest # 0 THEN 1 ELSE 0
      length  == Min({packet_length + beat.more, MAX_LENGTH})
      after   == next_row + full + partial
      start   == Even(IF beat.eop THEN Row(Even(after)) ELSE after)
      id      == FreeId(Row(start))
      rows    == released_rows(length)
      fits    == free.used + rows <= LOGICAL_ROWS
      kept    == CompletionsKept(pop)
      packet  == [row |-> packet_start, length |-> length, id |-> writing]
  IN  /\ pack_count' = IF beat.sop THEN beat.first % LANE_BYTES
                       ELSE IF beat.eop THEN 0 ELSE rest
      /\ next_row' = Row(IF beat.sop THEN start + beat.first \div LANE_BYTES
                         ELSE IF beat.eop THEN start ELSE after)
      /\ packet_start' = IF beat.sop THEN Row(start) ELSE packet_start
      /\ packet_length' = IF beat.sop THEN beat.first ELSE length
      /\ in_frame' = (beat.sop \/ (in_frame /\ ~beat.eop))
      /\ completions' = IF beat.eop /\ Len(kept) < COMPLETION_FIFO_WORDS
                        THEN Append(kept, packet) ELSE kept
      /\ used_rows' = IF beat.eop /\ fits THEN free.used + rows ELSE free.used
      /\ protocol_error' =
           \/ protocol_error \/ free.error
           \/ beat.eop /\ (~fits \/ Len(kept) >= COMPLETION_FIFO_WORDS)
      /\ storage_full' = (storage_full \/ (beat.eop /\ ~fits))
      /\ ram' = Written(Written(stored, writing, packet_start, next_row, full + partial),
                        id, Row(start), Row(start), beat.first \div LANE_BYTES)
      /\ left' = IF beat.sop THEN beat.size - beat.first ELSE left - beat.more
      /\ writing' = IF beat.sop THEN id ELSE writing

(* No beat, or one that has to wait. *)
Idle(beat, free, pop, stored) ==
  /\ completions' = CompletionsKept(pop)
  /\ used_rows' = free.used
  /\ protocol_error' = (protocol_error \/ free.error)
  /\ storage_full' = (storage_full \/ (beat # NoBeat /\ ~in_frame))
  /\ ram' = stored
  /\ UNCHANGED << frameRegs, left, writing >>

(* Nobody reads a packet's rows once it is released. *)
Stored(released) ==
  [r \in DOMAIN ram |->
     IF \E p \in ToSet(released) : p.id = ram[r].id THEN None ELSE ram[r]]

(* One edge.  released is what the ports release, in port order.           *)
Clock(beat, pop, released) ==
  LET free == AfterReleases(released)
  IN  /\ release_row' = free.row
      /\ deferred' = free.kept \cup free.added
      /\ held' = (held \ ToSet(released)) \cup
                 (IF pop /\ completions # << >> THEN {Head(completions)} ELSE {})
      /\ IF beat # NoBeat /\ InputReady(pop)
         THEN Take(beat, free, pop, Stored(released))
         ELSE Idle(beat, free, pop, Stored(released))

(* The ports release distinct held packets, in some order of the ports.    *)
ReleaseOrders ==
  {s \in UNION {[1 .. n -> held] : n \in 0 .. READ_PORTS} :
     \A i, j \in DOMAIN s : i # j => s[i] # s[j]}

Pops == IF Cardinality(held) < MaxHeld THEN BOOLEAN ELSE {FALSE}

Next == \E beat \in Beats \cup {NoBeat}, pop \in Pops,
          released \in ReleaseOrders : Clock(beat, pop, released)

Spec == Init /\ [][Next]_vars

-----------------------------------------------------------------------------
Packets == [row : 0 .. LOGICAL_ROWS - 1, length : FrameLengths, id : Ids]

(* Every register stays in the range of its width: rows wrap, the deferred  *)
(* releases and the completions never exceed their slots.                  *)
TypeOK ==
  /\ pack_count \in 0 .. LANE_BYTES - 1
  /\ {next_row, packet_start, release_row} \subseteq 0 .. LOGICAL_ROWS - 1
  /\ packet_length \in 0 .. MAX_LENGTH
  /\ used_rows \in 0 .. LOGICAL_ROWS
  /\ {in_frame, protocol_error, storage_full} \subseteq BOOLEAN
  /\ deferred \subseteq Packets /\ Cardinality(deferred) <= RELEASE_SLOTS
  /\ completions \in Seq(Packets) /\ Len(completions) <= COMPLETION_FIFO_WORDS
  /\ held \subseteq Packets

-----------------------------------------------------------------------------
(* A packet reported complete can be read whole until it is released: each *)
(* of its rows holds its own word.                                         *)
PacketsIntact ==
  \A p \in Unread : \A i \in Words(p) :
    ram[Row(p.row + i)] = [id |-> p.id, word |-> i]

(* used_rows counts exactly the rows of the packets not yet reclaimed, and *)
(* they are the rows from release_row on, each belonging to one packet; so *)
(* no release, early, late or simultaneous, leaks a row or frees one twice. *)
Region == {Row(release_row + i) : i \in 0 .. used_rows - 1}

RegionTiled ==
  /\ UNION {RowsOf(p) : p \in Allocated} = Region
  /\ \A p, q \in Allocated : p # q => RowsOf(p) \cap RowsOf(q) = {}
  /\ next_row = Row(IF in_frame THEN packet_start + packet_length \div LANE_BYTES
                                ELSE release_row + used_rows)
  /\ packet_start % 2 = 0 /\ release_row % 2 = 0

(* The framing of the balancer and the releases of the read engines never  *)
(* raise an error.                                                         *)
NoError == ~protocol_error

(* The store never stops for good: as long as downstream takes completions *)
(* and releases what it holds, it becomes ready for a beat again.          *)
Ready == InputReady(FALSE)

Drains ==
  /\ WF_vars(\E beat \in Beats \cup {NoBeat}, released \in ReleaseOrders :
               TRUE \in Pops /\ Clock(beat, TRUE, released))
  /\ WF_vars(\E beat \in Beats \cup {NoBeat}, pop \in Pops,
               released \in ReleaseOrders \ {<< >>} :
               Clock(beat, pop, released))

FairSpec == Spec /\ Drains

(* input_ready_comb_func is high again and again.                          *)
ReadyAgain == []<>Ready
=============================================================================
