------------------------------ MODULE PacketDMA -----------------------------
(***************************************************************************)
(* The DMA engine of one cluster (rtl/processing/PacketDMA.h): a queue of  *)
(* commands and the engine that serves it, an engine that loads packets    *)
(* into the L2 cache for the descriptor queue, the backing queue that      *)
(* writes every loaded line through to DDR, and the queue of lines to      *)
(* clear once their packet is sent.                                        *)
(*                                                                         *)
(* A packet is << identity, lines >>, an address << slot, line >>; a beat  *)
(* is one line, so keep masks and alignment are left out.  Lengths count   *)
(* lines: source, destination, remaining and first of the code are told    *)
(* by the command and the number of its lines moved.                       *)
(***************************************************************************)
EXTENDS Integers, Sequences

CONSTANTS CMD_DEPTH, BACKING_DEPTH, CLEAR_DEPTH   (* sizes of the queues *)

ASSUME DmaAssumption ==
  /\ CMD_DEPTH \in Nat \ {0}
  /\ BACKING_DEPTH \in Nat \ {0, 1}
  /\ CLEAR_DEPTH \in Nat \ {0}

Operations == {"SYSTEM_CPU", "CPU_SYSTEM", "CPU_NETWORK", "NETWORK_CPU"}

(* What firmware may put in the flags of a command. *)
FlagsAllowed(flags) ==
  /\ "NETWORK_PREFETCHED" \notin flags
  /\ flags \cap {"NETWORK_DISCARD", "NETWORK_SYSTEM"} # {} => "NETWORK_CPU" \in flags
  /\ ~({"NETWORK_DISCARD", "NETWORK_SYSTEM"} \subseteq flags)
  /\ "RING_SOURCE" \in flags => "CPU_NETWORK" \in flags
  /\ "CLEAR_SOURCE_AFTER_TX" \in flags => {"CPU_NETWORK", "RING_SOURCE"} \subseteq flags

NoBeat == [data |-> << >>, sop |-> FALSE, eop |-> FALSE]
NoLine == [address |-> << 0, 0 >>, data |-> << >>, clear |-> FALSE, eop |-> FALSE]

(* The staged registers, and a command: the copy of them. *)
NoCommand == [RX_HANDLE |-> << 0, 0 >>, LENGTH |-> 0, SOURCE |-> << 0, 0 >>,
              DESTINATION |-> << 0, 0 >>, FLAGS |-> {"SYSTEM_CPU"}]

(* The registers after reset. *)
DMAInit ==
  [ commands |-> << >>, issued |-> 0, completed |-> 0,
    stage |-> NoCommand, armed |-> FALSE, lock |-> 0,
    state |-> "IDLE", active |-> NoCommand, moved |-> 0, beat |-> NoBeat,
    prefetch |-> [state |-> "IDLE", packet |-> << 0, 0 >>, buffer |-> 0, moved |-> 0],
    backing |-> << >>, backing_state |-> "IDLE",
    l2_commits |-> 0, backing_commits |-> 0, cache_completed |-> 0,
    post_clear |-> << >>, clear_address |-> << 0, 0 >>, clear_armed |-> FALSE,
    clear_completed |-> 0, protocol_error |-> FALSE ]

After(address, lines) == << address[1], address[2] + lines >>

Is(d, operation) == operation \in d.active.FLAGS
Flag(d, flag) == flag \in d.active.FLAGS

(* A command that reads the packet from DDR, where the ring is kept. *)
ReadsRing(d) == Is(d, "CPU_NETWORK") /\ Flag(d, "RING_SOURCE")

ReadsL2(d) == d.state \in {"READ_ADDRESS", "READ_DATA"} /\ ~ReadsRing(d)

remaining(d) == d.active.LENGTH - d.moved

-----------------------------------------------------------------------------
(* What the engine shows its neighbours before the edge. *)
rx_l2_line_selected(d, rx) ==
  /\ rx # NoBeat
  /\ \/ d.prefetch.state = "STREAM"
     \/ d.state = "WAIT_INPUT" /\ Is(d, "NETWORK_CPU") /\ Flag(d, "CACHE_ALLOCATE")

clear_l2_line_selected(d, rx) == d.post_clear # << >> /\ ~rx_l2_line_selected(d, rx)

(* A bug: a line is offered with no room to queue it for DDR. *)
l2_line_valid_Bug(d, rx) ==
  /\ ~ReadsL2(d)
  /\ rx_l2_line_selected(d, rx) \/ clear_l2_line_selected(d, rx)

l2_line_valid(d, rx) ==
  /\ Len(d.backing) < BACKING_DEPTH
  /\ ~ReadsL2(d)
  /\ rx_l2_line_selected(d, rx) \/ clear_l2_line_selected(d, rx)

(* The line for L2, and with it for the backing queue.  Its eop marks the  *)
(* end of a loaded packet: a clear has none.                               *)
l2_line(d, rx) ==
  IF clear_l2_line_selected(d, rx)
  THEN [address |-> Head(d.post_clear), data |-> << >>, clear |-> TRUE, eop |-> FALSE]
  ELSE [address |-> IF d.prefetch.state = "STREAM"
                    THEN << d.prefetch.buffer, d.prefetch.moved >>
                    ELSE After(d.active.DESTINATION, d.moved),
        data |-> rx.data, clear |-> FALSE, eop |-> rx.eop]

HasRoom(d) == Len(d.commands) < CMD_DEPTH

(* The read command for the network side: that of the loading engine, of   *)
(* the command at work, or of a descriptor on its way into the queue.      *)
rx_read(d, descriptor) ==
  IF d.prefetch.state = "ISSUE" THEN << d.prefetch.packet >>
  ELSE IF d.state = "ISSUE_NETWORK_READ" THEN << Head(d.commands).RX_HANDLE >>
  ELSE IF descriptor # << >> /\ ~Head(descriptor).cache /\ HasRoom(d)
  THEN << Head(descriptor).packet >> ELSE << >>

rx_ready(d, in) ==
  LET room == in.line_ready /\ Len(d.backing) < BACKING_DEPTH
  IN  IF d.prefetch.state = "STREAM" THEN room /\ ~ReadsL2(d)
      ELSE /\ d.state = "WAIT_INPUT"
           /\ Is(d, "NETWORK_CPU")
           /\ IF Flag(d, "CACHE_ALLOCATE") THEN room
              ELSE Flag(d, "NETWORK_SYSTEM") => in.system_tx_ready

system_rx_ready(d) == d.state = "WAIT_INPUT" /\ Is(d, "SYSTEM_CPU")

(* A packet for System comes from the engine or straight from the network. *)
Streams(d) == d.state = "WAIT_INPUT" /\ Is(d, "NETWORK_CPU") /\ Flag(d, "NETWORK_SYSTEM")

system_tx(d, rx) ==
  IF Streams(d) THEN rx
  ELSE IF d.state = "SEND_OUTPUT" /\ Is(d, "CPU_SYSTEM") THEN d.beat ELSE NoBeat

network_tx(d) ==
  IF d.state = "SEND_OUTPUT" /\ Is(d, "CPU_NETWORK") THEN d.beat ELSE NoBeat

descriptor_command_ready(d, descriptor) ==
  IF descriptor # << >> /\ Head(descriptor).cache THEN d.prefetch.state = "IDLE"
  ELSE HasRoom(d) /\ d.prefetch.state # "ISSUE" /\ d.state # "ISSUE_NETWORK_READ"

(* The requests to L2 and to the backing store. *)
Request(ar, r, aw, w, b, address, data) ==
  [ar |-> ar, r |-> r, aw |-> aw, w |-> w, b |-> b, address |-> address, data |-> data]

l2_dma(d) ==
  Request(d.state = "READ_ADDRESS" /\ ~ReadsRing(d), d.state = "READ_DATA" /\ ~ReadsRing(d),
          d.state = "WRITE_ADDRESS", d.state = "WRITE_DATA", d.state = "WRITE_RESPONSE",
          After(IF d.state \in {"READ_ADDRESS", "READ_DATA"}
                THEN d.active.SOURCE ELSE d.active.DESTINATION, d.moved),
          d.beat.data)

backing_dma(d) ==
  LET queued == d.backing # << >>
      reads == d.state = "READ_ADDRESS" /\ ReadsRing(d)
      head == IF queued THEN Head(d.backing) ELSE NoLine
  IN  [ Request(reads, d.state = "READ_DATA" /\ ReadsRing(d),
                d.backing_state = "ADDRESS" /\ queued,
                d.backing_state \in {"ADDRESS", "DATA"} /\ queued,
                d.backing_state = "RESPONSE", head.address, head.data)
        EXCEPT !.address = IF reads THEN After(d.active.SOURCE, d.moved) ELSE @ ]

(* A doorbell is taken when there is room for what it orders. *)
wready(d, in) ==
  /\ in.store.register = "COMMAND" => HasRoom(d)
  /\ in.store.register = "CLEAR_NOTIFY" =>
       /\ Len(d.backing) < BACKING_DEPTH
       /\ ~(l2_line_valid(d, in.rx) /\ in.line_ready)

-----------------------------------------------------------------------------
(* What one edge does, in the order of the code: d are the registers as    *)
(* they were, e what the stages before made of them.                       *)

(* A line offered to L2 enters the backing queue at the same edge. *)
BackingPush(d, e, in) ==
  IF l2_line_valid(d, in.rx) /\ in.line_ready
  THEN [e EXCEPT !.backing = Append(@, l2_line(d, in.rx)),
                 !.post_clear = IF clear_l2_line_selected(d, in.rx) THEN Tail(@) ELSE @]
  ELSE e

(* A bug: a packet counts as stored when its last line leaves the queue. *)
BackingWrite_Bug(d, e, in) ==
  CASE d.backing_state = "IDLE" /\ e.backing # << >> ->
         [e EXCEPT !.backing_state = "ADDRESS"]
    [] d.backing_state = "ADDRESS" /\ backing_dma(d).aw /\ in.backing.awready ->
         [e EXCEPT !.backing_state = IF in.backing.wready THEN "RESPONSE" ELSE "DATA",
                   !.backing_commits = IF Head(d.backing).eop THEN @ + 1 ELSE @]
    [] d.backing_state = "DATA" /\ backing_dma(d).w /\ in.backing.wready ->
         [e EXCEPT !.backing_state = "RESPONSE"]
    [] d.backing_state = "RESPONSE" /\ in.backing.bvalid ->
         [e EXCEPT !.backing_state = IF Len(e.backing) > 1 THEN "ADDRESS" ELSE "IDLE",
                   !.backing = Tail(@),
                   !.clear_completed = IF Head(d.backing).clear THEN @ + 1 ELSE @]
    [] OTHER -> e

(* The head of the backing queue is written to DDR; it leaves the queue    *)
(* and counts with the response.                                           *)
BackingWrite(d, e, in) ==
  CASE d.backing_state = "IDLE" /\ e.backing # << >> ->
         [e EXCEPT !.backing_state = "ADDRESS"]
    [] d.backing_state = "ADDRESS" /\ backing_dma(d).aw /\ in.backing.awready ->
         [e EXCEPT !.backing_state = IF in.backing.wready THEN "RESPONSE" ELSE "DATA"]
    [] d.backing_state = "DATA" /\ backing_dma(d).w /\ in.backing.wready ->
         [e EXCEPT !.backing_state = "RESPONSE"]
    [] d.backing_state = "RESPONSE" /\ in.backing.bvalid ->
         [e EXCEPT !.backing_state = IF Len(e.backing) > 1 THEN "ADDRESS" ELSE "IDLE",
                   !.backing = Tail(@),
                   !.clear_completed = IF Head(d.backing).clear THEN @ + 1 ELSE @,
                   !.backing_commits = IF Head(d.backing).eop THEN @ + 1 ELSE @]
    [] OTHER -> e

(* A beat that is not the next line of its packet. *)
BeatError(moved, length, beat) ==
  \/ beat.sop # (moved = 0)
  \/ moved >= length
  \/ beat.eop # (moved + 1 = length)

Noted(e, error) == [e EXCEPT !.protocol_error = @ \/ error]

(* A bug: the next packet is taken up while one still comes. *)
TakesPacket_Bug(d, descriptor) ==
  descriptor # << >> /\ Head(descriptor).cache /\ d.prefetch.state # "ISSUE"

TakesPacket(d, descriptor) ==
  descriptor # << >> /\ Head(descriptor).cache /\ d.prefetch.state = "IDLE"

(* The loading engine: take a descriptor's packet, ask for it, bring it    *)
(* into L2 line by line.                                                   *)
Prefetch(d, e, in) ==
  LET p == d.prefetch
  IN  CASE TakesPacket(d, in.descriptor) ->
             [e EXCEPT !.prefetch = [state |-> "ISSUE", packet |-> Head(in.descriptor).packet,
                                     buffer |-> Head(in.descriptor).buffer, moved |-> 0]]
        [] p.state = "ISSUE" /\ in.read_ready -> [e EXCEPT !.prefetch.state = "STREAM"]
        [] p.state = "STREAM" /\ in.rx # NoBeat /\ l2_line_valid(d, in.rx) /\ in.line_ready ->
             [Noted(e, BeatError(p.moved, p.packet[2], in.rx)) EXCEPT
                !.prefetch.state = IF in.rx.eop THEN "IDLE" ELSE @,
                !.prefetch.moved = @ + 1]
        [] OTHER -> e

(* A doorbell that orders a command, and one that is refused. *)
Orders(d, in) ==
  /\ in.store.register = "COMMAND"
  /\ d.armed
  /\ HasRoom(d)
  /\ d.stage.LENGTH # 0
  /\ FlagsAllowed(d.stage.FLAGS)

StageRegisters == DOMAIN NoCommand

(* A bug: who asks has the lock. *)
MayLock_Bug(d, token) == TRUE

(* The lock is free for one who has it, and anyone may give it back. *)
MayLock(d, token) == token = 0 \/ d.lock \in {0, token}

(* A store: a staged register, the lock, the address and the doorbell of a *)
(* clear, the doorbell of a command.                                       *)
DMAStore(d, e, in) ==
  LET r == in.store.register
      v == in.store.value
  IN  CASE r \in StageRegisters -> [e EXCEPT !.stage[r] = v, !.armed = TRUE]
        [] r = "COMMAND_LOCK" /\ MayLock(d, v) -> [e EXCEPT !.lock = v]
        [] r = "CLEAR_ADDRESS" -> [e EXCEPT !.clear_address = v, !.clear_armed = TRUE]
        [] r = "CLEAR_NOTIFY" /\ d.clear_armed ->
             [e EXCEPT !.clear_armed = FALSE,
                       !.backing = Append(@, [NoLine EXCEPT !.address = d.clear_address,
                                                            !.clear = TRUE])]
        [] r = "COMMAND" /\ d.armed /\ ~Orders(d, in) -> Noted(e, TRUE)
        [] OTHER -> e

(* The command of a descriptor: the packet goes to System or nowhere.  Its *)
(* read may already have been taken at this edge.                          *)
DescriptorCommand(descriptor, read_ready) ==
  [NoCommand EXCEPT !.RX_HANDLE = descriptor.packet, !.LENGTH = descriptor.packet[2],
                    !.FLAGS = {"NETWORK_CPU",
                               IF descriptor.system THEN "NETWORK_SYSTEM"
                               ELSE "NETWORK_DISCARD"}
                              \cup (IF read_ready THEN {"NETWORK_PREFETCHED"} ELSE {})]

(* One command enters the queue at an edge; a doorbell goes first. *)
Push(d, e, in) ==
  IF Orders(d, in)
  THEN [e EXCEPT !.commands = Append(@, d.stage), !.armed = FALSE, !.issued = @ + 1]
  ELSE IF in.descriptor # << >> /\ ~Head(in.descriptor).cache /\ HasRoom(d)
  THEN [e EXCEPT !.commands = Append(@, DescriptorCommand(Head(in.descriptor), in.read_ready)),
                 !.issued = @ + 1]
  ELSE e

(* The command of a descriptor enters the queue and its read is refused:   *)
(* the engine has to ask again when the command is at work.                *)
Refuses(d, in) ==
  /\ ~Orders(d, in)
  /\ in.descriptor # << >> /\ ~Head(in.descriptor).cache
  /\ HasRoom(d)
  /\ ~in.read_ready

(* The engine takes up the command at the head of the queue, also one that *)
(* came at this edge.  The answers of the network belong to the loading    *)
(* engine while that is at work.                                           *)
Start(d, e) ==
  LET c == Head(e.commands)
      taken == [e EXCEPT !.active = c, !.moved = 0]
  IN  IF "NETWORK_CPU" \in c.FLAGS
      THEN IF d.prefetch.state # "IDLE" THEN taken
           ELSE [taken EXCEPT !.state = IF "NETWORK_PREFETCHED" \in c.FLAGS
                                        THEN "WAIT_INPUT" ELSE "ISSUE_NETWORK_READ"]
      ELSE [taken EXCEPT !.state = IF "SYSTEM_CPU" \in c.FLAGS
                                   THEN "WAIT_INPUT" ELSE "READ_ADDRESS"]

Complete(e) ==
  [e EXCEPT !.state = "IDLE", !.commands = Tail(@), !.completed = @ + 1]

(* A bug: the number of lines left stays what it was. *)
Moved_Bug(d, e, beat, state) ==
  IF beat.eop THEN Complete(e) ELSE [e EXCEPT !.state = state]

(* A beat moved: the next one, or the end of the command. *)
Moved(d, e, beat, state) ==
  IF beat.eop THEN Complete(e) ELSE [e EXCEPT !.moved = @ + 1, !.state = state]

WaitInput(d, e, in) ==
  LET input == IF Is(d, "NETWORK_CPU") THEN in.rx ELSE in.system_rx
      straight == Flag(d, "NETWORK_DISCARD") \/ Flag(d, "NETWORK_SYSTEM")
      takes == IF straight THEN Flag(d, "NETWORK_SYSTEM") => in.system_tx_ready
               ELSE l2_line_valid(d, in.rx) /\ in.line_ready
      whole == Noted(e, BeatError(d.moved, d.active.LENGTH, input))
  IN  IF input = NoBeat THEN e
      ELSE IF Is(d, "NETWORK_CPU") /\ (straight \/ Flag(d, "CACHE_ALLOCATE"))
      THEN IF takes THEN Moved(d, whole, input, "WAIT_INPUT") ELSE e
      ELSE [Noted(e, input.sop # (d.moved = 0)) EXCEPT
              !.beat = input, !.state = "WRITE_ADDRESS"]

(* A bug: a beat on offer counts as taken. *)
SendOutput_Bug(d, e, ready) == Moved(d, e, d.beat, "READ_ADDRESS")

SendOutput(d, e, ready) ==
  IF ~ready THEN e
  ELSE IF remaining(d) <= 1 /\ Flag(d, "CLEAR_SOURCE_AFTER_TX")
  THEN [e EXCEPT !.state = "POST_TX_CLEAR"]
  ELSE Moved(d, e, d.beat, "READ_ADDRESS")

Engine(d, e, in) ==
  LET memory == IF ReadsRing(d) THEN in.backing ELSE in.l2
      goto(state) == [e EXCEPT !.state = state]
  IN  CASE d.state = "IDLE" /\ e.commands # << >> -> Start(d, e)
        [] d.state = "ISSUE_NETWORK_READ" /\ in.read_ready -> goto("WAIT_INPUT")
        [] d.state = "WAIT_INPUT" -> WaitInput(d, e, in)
        [] d.state = "WRITE_ADDRESS" /\ in.l2.awready -> goto("WRITE_DATA")
        [] d.state = "WRITE_DATA" /\ in.l2.wready -> goto("WRITE_RESPONSE")
        [] d.state = "WRITE_RESPONSE" /\ in.l2.bvalid ->
             Moved(d, Noted(e, BeatError(d.moved, d.active.LENGTH, d.beat)), d.beat, "WAIT_INPUT")
        [] d.state = "READ_ADDRESS" /\ memory.arready -> goto("READ_DATA")
        [] d.state = "READ_DATA" /\ memory.rvalid ->
             [e EXCEPT !.state = "SEND_OUTPUT",
                       !.beat = [data |-> memory.rdata, sop |-> d.moved = 0,
                                 eop |-> remaining(d) <= 1]]
        [] d.state = "SEND_OUTPUT" ->
             SendOutput(d, e, IF Is(d, "CPU_SYSTEM") THEN in.system_tx_ready
                              ELSE in.network_tx_ready)
        [] d.state = "POST_TX_CLEAR" /\ Len(e.post_clear) < CLEAR_DEPTH ->
             [Complete(e) EXCEPT !.post_clear = Append(@, d.active.SOURCE)]
        [] OTHER -> e

(* A bug: the end of a packet in L2 is missed before its end in DDR. *)
PairCommits_Bug(e, commit) ==
  IF commit /\ e.backing_commits # 0
  THEN [e EXCEPT !.backing_commits = @ - 1, !.cache_completed = @ + 1]
  ELSE e

(* A packet is loaded when its last line is in L2 and in DDR. *)
PairCommits(e, commit) ==
  LET l2 == IF commit THEN e.l2_commits + 1 ELSE e.l2_commits
      both == l2 # 0 /\ e.backing_commits # 0
  IN  IF both
      THEN [e EXCEPT !.l2_commits = l2 - 1, !.backing_commits = @ - 1,
                     !.cache_completed = @ + 1]
      ELSE [e EXCEPT !.l2_commits = l2]

DMAEdge(d, in) ==
  LET backed == BackingWrite(d, BackingPush(d, d, in), in)
      stored == DMAStore(d, Prefetch(d, backed, in), in)
  IN  PairCommits(Engine(d, Push(d, stored, in), in), in.commit)
=============================================================================
