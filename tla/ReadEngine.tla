----------------------------- MODULE ReadEngine -----------------------------
(***************************************************************************)
(* Reading packets back: the read ports of rtl/network/RxRAM.h, with the   *)
(* arbitration of its banks and their output registers, and the engine of  *)
(* each port in rtl/SmartNIC.h, which turns a command into row requests    *)
(* and keeps, for each, what its response is: the bytes kept, the marks of *)
(* the packet's ends, what to release with the last.                       *)
(*                                                                         *)
(* The store has room for every packet here: RxRAM.tla is about its rows.  *)
(* A packet is found by its address, its stream and its place among the    *)
(* packets of the stream; a packet starts on an even row, so bank and row  *)
(* follow from the word's number, and the length to release from the       *)
(* address.  What is released holds nothing any more.                      *)
(***************************************************************************)
EXTENDS Frames

CONSTANTS
  READ_PORTS,
  READ_META_DEPTH,
  COMPLETION_FIFO_WORDS

ASSUME ReadAssumption ==
  {READ_PORTS, READ_META_DEPTH, COMPLETION_FIFO_WORDS} \subseteq Nat \ {0}

Ports == 0 .. READ_PORTS - 1
Banks == Streams \X {0, 1}

-----------------------------------------------------------------------------
(* The write side of the store of one stream.                              *)
StoreInit == [open |-> << >>, kept |-> << >>, completions |-> << >>, protocol_error |-> FALSE]

CompletionsLeft(st, ready) ==
  IF ready /\ st.completions # << >> THEN Tail(st.completions) ELSE st.completions

store_ready(st, ready) == Len(CompletionsLeft(st, ready)) < COMPLETION_FIFO_WORDS

(* One byte into the store of stream s. *)
Store(s, st, byte) ==
  LET open == Append(IF sop(byte) THEN << >> ELSE st.open, byte)
      room == Len(st.completions) < COMPLETION_FIFO_WORDS
  IN  [open |-> IF eop(byte) THEN << >> ELSE open,
       kept |-> IF eop(byte) THEN Append(st.kept, open) ELSE st.kept,
       completions |-> IF eop(byte) /\ room
                       THEN Append(st.completions, [address |-> << s, Len(st.kept) + 1 >>,
                                                    length |-> Len(open)])
                       ELSE st.completions,
       protocol_error |-> \/ st.protocol_error
                          \/ sop(byte) = (st.open # << >>) \/ (eop(byte) /\ ~room)]

(* One edge: a word, << >> if none; the join's ready; the releases.        *)
StoreEdge(s, st, word, ready, released) ==
  LET left == [st EXCEPT !.completions = CompletionsLeft(st, ready),
                         !.kept = [k \in DOMAIN @ |->
                                     IF << s, k >> \in released THEN << >> ELSE @[k]]]
      new == FoldLeft(LAMBDA x, byte : Store(s, x, byte), left, word)
  IN  IF word # << >> /\ store_ready(st, ready) THEN new ELSE left

-----------------------------------------------------------------------------
(* The engine of a port and the read port behind it.                       *)
PortInit ==
  [active |-> FALSE, address |-> << >>, remaining |-> 0, word |-> 0,
   meta |-> << >>,                    (* of requests without their answer  *)
   pipe |-> << >>, response |-> << >>]      (* a bank, a row, or none      *)

ReadInit ==
  [port |-> [p \in Ports |-> PortInit],
   rr |-> [b \in Banks |-> 0],
   q_out |-> [b \in Banks |-> << >>]]       (* the RAMs' output registers  *)

(* Row w of what is kept at an address.                                    *)
RowAt(stores, address, w) ==
  UpTo(After(stores[address[1]].kept[address[2]], w * LANE_BYTES), LANE_BYTES)

request_physical_bank(x) == << x.address[1], x.word % 2 >>

network_read_valid(x) == x.active /\ Len(x.meta) < READ_META_DEPTH
network_read_ready(x, stream_ready) == x.meta # << >> /\ stream_ready

(* Port p can have a row: the one it waits for, if any, moves on.          *)
ResponseFree(x, stream_ready) == x.response = << >> \/ network_read_ready(x, stream_ready)
PipeFree(x, stream_ready) == x.pipe = << >> \/ ResponseFree(x, stream_ready)

(* The port each bank is granted to; ready[p] is that of p's stream.       *)
Granted(r, ready) ==
  {p \in Ports :
     LET wants(q) == /\ network_read_valid(r.port[q]) /\ PipeFree(r.port[q], ready[q])
                     /\ request_physical_bank(r.port[q]) = request_physical_bank(r.port[p])
     IN  /\ wants(p)
         /\ p = InTurn(READ_PORTS, r.rr[request_physical_bank(r.port[p])],
                       {q \in Ports : wants(q)})}

LastRequest(x, granted) == granted /\ x.remaining <= LANE_BYTES

(* A command is taken when the engine is idle, or at the last request of   *)
(* the command before; by mistake, at any.                                 *)
read_command_pop_Bug(x, granted) == ~x.active \/ granted
read_command_pop(x, granted) == ~x.active \/ LastRequest(x, granted)

Responds(x, stream_ready) == x.response # << >> /\ network_read_ready(x, stream_ready)

(* What the engine passes on: of the row, the bytes its metadata keep.     *)
ResponseBeat(x) ==
  LET m == Head(x.meta)
      row == x.response[1]
  IN  [bytes |-> [i \in 1 .. m.bytes |-> IF i <= Len(row) THEN row[i] ELSE Gap],
       sop |-> m.sop, eop |-> m.eop]

(* Released with the last response; by mistake, with the last request.     *)
Releases_Bug(r, ready) ==
  {r.port[p].address : p \in {p \in Ports : LastRequest(r.port[p], p \in Granted(r, ready))}}

Releases(r, ready) ==
  {Head(r.port[p].meta).address :
     p \in {p \in Ports : /\ Responds(r.port[p], ready[p])
                          /\ Head(r.port[p].meta).eop}}

(* The engine's registers of a port after an edge; command is what its     *)
(* FIFO offers, a sequence of at most one.                                 *)
EngineEdge(x, granted, stream_ready, command) ==
  LET loads == command # << >> /\ read_command_pop(x, granted)
      last == x.remaining <= LANE_BYTES
      asked == [bytes |-> IF last THEN x.remaining ELSE LANE_BYTES, sop |-> x.word = 0,
                eop |-> last, address |-> x.address]
      meta == (IF Responds(x, stream_ready) THEN Tail(x.meta) ELSE x.meta)
              \o (IF granted THEN << asked >> ELSE << >>)
  IN  CASE loads ->
             [x EXCEPT !.active = command[1].length # 0, !.address = command[1].address,
                       !.remaining = command[1].length, !.word = 0, !.meta = meta]
        [] ~loads /\ granted ->
             [x EXCEPT !.active = ~last, !.meta = meta,
                       !.remaining = IF last THEN 0 ELSE @ - LANE_BYTES,
                       !.word = IF last THEN @ ELSE @ + 1]
        [] OTHER -> [x EXCEPT !.meta = meta]

(* One edge of all ports: rows come from the output registers as they were *)
(* before it.                                                              *)
ReadEdge(r, stores, ready, commands) ==
  LET granted == Granted(r, ready)
      from(b) == {p \in granted : request_physical_bank(r.port[p]) = b}
      port(p) ==
        LET x == r.port[p]
            moves == x.pipe # << >> /\ ResponseFree(x, ready[p])
        IN  [EngineEdge(x, p \in granted, ready[p], commands[p]) EXCEPT
               !.pipe = IF p \in granted THEN << request_physical_bank(x) >>
                        ELSE IF moves THEN << >> ELSE @,
               !.response = IF moves THEN << r.q_out[x.pipe[1]] >>
                            ELSE IF Responds(x, ready[p]) THEN << >> ELSE @]
  IN  [port |-> [p \in Ports |-> port(p)],
       rr |-> [b \in Banks |-> IF from(b) = {} THEN r.rr[b]
                               ELSE ((CHOOSE p \in from(b) : TRUE) + 1) % READ_PORTS],
       q_out |-> [b \in Banks |->
                    IF from(b) = {} THEN r.q_out[b]
                    ELSE LET x == r.port[CHOOSE p \in from(b) : TRUE]
                         IN  RowAt(stores, x.address, x.word)]]
=============================================================================
