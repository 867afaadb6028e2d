---------------------------- MODULE PacketParser ----------------------------
(***************************************************************************)
(* The parser of one stream (rtl/network/PacketParser.h), from the words   *)
(* of the balancer to the descriptor words it makes of them: the decoder   *)
(* that splits a word at the frames' ends, the alignment that packs each   *)
(* frame into words of its own, the pipeline, the store of RAW frames with *)
(* the tokens that keep their order, the output FIFO and the credits that  *)
(* hold room in it.                                                        *)
(*                                                                         *)
(* What the stages of the pipeline read from the headers is left out: the  *)
(* word of a parsed frame is made of the bytes that have left the pipeline *)
(* since its first one.  pending_raw_token_reg is never set in the code.   *)
(***************************************************************************)
EXTENDS Frames

CONSTANTS
  PIPE_STAGES,          (* at least 2                                      *)
  OUTPUT_FIFO_WORDS,
  RAW_STORE,            (* RAW frames that wait for their tokens           *)
  OUTPUT_BYTES          (* bytes of a word of the output                   *)

RAW_BYTES == 2 * OUTPUT_BYTES
RAW_WORDS == (RAW_BYTES + LANE_BYTES - 1) \div LANE_BYTES

ASSUME ParserAssumption ==
  /\ PIPE_STAGES \in Nat \ {0, 1}
  /\ {RAW_STORE, OUTPUT_BYTES} \subseteq Nat \ {0}
  /\ OUTPUT_FIFO_WORDS \in Nat \ {0, 1}

ParserInit ==
  [ingress |-> << >>,                  (* the segments of the decoded word *)
   ingress_valid |-> FALSE, decode_in_frame |-> FALSE, decode_raw |-> FALSE,
   align |-> << >>, align_sop |-> FALSE, in_frame |-> FALSE, frame_raw |-> FALSE,
   pending |-> << >>,                  (* a second aligned word, or none   *)
   raw_emit |-> << >>, raw_data |-> << >>, raw_words |-> 0, raw_store |-> << >>,
   pipe |-> [i \in 1 .. PIPE_STAGES |-> << >>],   (* a word or none        *)
   parsed |-> << >>,                   (* what has left the pipeline       *)
   fifo |-> << >>, reserved_slots |-> 0, protocol_error |-> FALSE]

Word(bytes, first, last, raw) == [bytes |-> bytes, sop |-> first, eop |-> last, raw |-> raw]
Token == Word(<< >>, TRUE, TRUE, TRUE)

(* The room alignment needs: two slots, for a RAW frame takes two.         *)
HasCredit(p, reserved) ==
  /\ reserved <= OUTPUT_FIFO_WORDS - 2
  /\ p.pending = << >>
  /\ Len(p.raw_store) < RAW_STORE

(* A mistake: the slot of a word that leaves is not given back.            *)
SlotsKept_Bug(p, ready) == p.reserved_slots

(* The slots in use once the join has taken the head of the FIFO. *)
SlotsKept(p, ready) ==
  IF ready /\ p.fifo # << >> THEN p.reserved_slots - 1 ELSE p.reserved_slots

parser_ready(p, ready) == ~p.ingress_valid \/ HasCredit(p, SlotsKept(p, ready))

(* Decode: the segments of a word, the end of the open frame first.        *)
Starts(word) == {i \in DOMAIN word : sop(word[i])}
Ends(word) == {i \in DOMAIN word : eop(word[i])}
sop_pos(word) == Max(Starts(word))
eop_pos(word) == Max(Ends(word))

(* A frame starts in the word, and no end follows.                         *)
StartsLast(word) ==
  Starts(word) # {} /\ (Ends(word) # {} => sop_pos(word) > eop_pos(word))

Segments(p, word, raw) ==
  LET starts == Starts(word)
      ends == Ends(word)
      segment(first, last, new, ends_here, is_raw) ==
        Word(SubSeq(word, first, last), new, ends_here, is_raw)
      end == eop_pos(word)
      start == sop_pos(word)
  IN  CASE p.decode_in_frame /\ ends # {} /\ StartsLast(word) ->
             << segment(1, end, FALSE, TRUE, p.decode_raw),
                segment(start, Len(word), TRUE, FALSE, raw) >>
        [] p.decode_in_frame /\ ends # {} /\ ~StartsLast(word) ->
             << segment(1, end, FALSE, TRUE, p.decode_raw) >>
        [] p.decode_in_frame /\ ends = {} ->
             << segment(1, Len(word), FALSE, FALSE, p.decode_raw) >>
        [] ~p.decode_in_frame /\ starts # {} ->
             IF ends # {} /\ end >= start
             THEN << segment(start, end, TRUE, TRUE, raw) >>
             ELSE << segment(start, Len(word), TRUE, FALSE, raw) >>
        [] OTHER -> << >>

(* A frame is open after the word, and the word opened it: what the next   *)
(* word is decoded with.                                                   *)
Open(p, word) == StartsLast(word) \/ (p.decode_in_frame /\ Ends(word) = {})
OpensNew(p, word) ==
  IF p.decode_in_frame THEN Ends(word) # {} /\ StartsLast(word) ELSE Starts(word) # {}

(* The decoder finds the word's marks malformed. *)
Malformed(p, word) ==
  \/ Cardinality(Starts(word)) > 1 \/ Cardinality(Ends(word)) > 1
  \/ ~p.decode_in_frame /\ Starts(word) = {}

(* Align: a segment after the bytes the open frame has left over; what     *)
(* fills a word, and the rest at the frame's end, is emitted.              *)
Align(st, segment) ==
  LET bytes == (IF segment.sop THEN << >> ELSE st.align) \o segment.bytes
      first == segment.sop \/ st.align_sop
      raw == IF segment.sop THEN segment.raw ELSE st.frame_raw
      full == Len(bytes) >= LANE_BYTES
      rest == IF full THEN After(bytes, LANE_BYTES) ELSE bytes
      last == segment.eop /\ rest # << >>
      emitted ==
        (IF full THEN << Word(UpTo(bytes, LANE_BYTES), first, segment.eop /\ ~last, raw) >>
                 ELSE << >>)
        \o (IF last THEN << Word(rest, first /\ ~full, TRUE, raw) >> ELSE << >>)
  IN  [align |-> IF segment.eop THEN << >> ELSE rest,
       align_sop |-> first /\ ~full /\ ~last,
       frame_raw |-> raw,
       in_frame |-> (segment.sop \/ st.in_frame) /\ ~segment.eop,
       emitted |-> st.emitted \o emitted,
       ended |-> st.ended \/ segment.eop,
       error |-> st.error \/ (segment.sop /\ st.in_frame) \/ (segment.eop /\ st.ended)]

(* A RAW word, one clock after its alignment: gathered, and at the end of  *)
(* the frame stored, with a token for the pipeline.  The words before it   *)
(* are counted in eight bits, and the count says how many bytes are kept.  *)
Gather(st, word) ==
  LET before == IF word.sop THEN << >> ELSE st.data
      words == IF word.sop THEN 0 ELSE st.words
      count == words * LANE_BYTES + Len(word.bytes)
      data == IF Len(before) < RAW_WORDS * LANE_BYTES THEN before \o word.bytes ELSE before
      room == Len(st.store) < RAW_STORE
  IN  IF ~word.eop THEN [st EXCEPT !.data = data, !.words = (words + 1) % 256]
      ELSE [data |-> << >>, words |-> 0,
            store |-> IF room THEN Append(st.store, UpTo(UpTo(data, RAW_BYTES), count))
                      ELSE st.store,
            token |-> st.token \/ room,
            error |-> st.error \/ ~room]

Entry(bytes, last, raw) == [bytes |-> bytes, last |-> last, raw |-> raw]

(* The descriptor words that leave the pipeline: one, or two of a RAW      *)
(* frame that has been stored.                                             *)
Leaving(p, parsed) ==
  LET item == p.pipe[PIPE_STAGES][1]
      stored == Head(p.raw_store)
  IN  IF p.pipe[PIPE_STAGES] = << >> \/ ~item.eop THEN << >>
      ELSE IF ~item.raw THEN << Entry(parsed, TRUE, FALSE) >>
      ELSE IF p.raw_store = << >> THEN << >>
      ELSE << Entry(UpTo(stored, OUTPUT_BYTES), FALSE, TRUE),
              Entry(After(stored, OUTPUT_BYTES), TRUE, TRUE) >>

(* The alignment of the segments of an edge, from the registers on.        *)
Aligned(p, segments) ==
  FoldLeft(Align,
           [align |-> p.align, align_sop |-> p.align_sop, in_frame |-> p.in_frame,
            frame_raw |-> p.frame_raw, emitted |-> << >>, ended |-> FALSE, error |-> FALSE],
           segments)

(* Every stage of the pipeline hands its word to the next one; a token     *)
(* enters behind the first stage.                                          *)
Advance(p, parses, token) ==
  [i \in 1 .. PIPE_STAGES |-> CASE i = 1 -> parses
                               [] i = 2 /\ token -> << Token >>
                               [] OTHER -> p.pipe[i - 1]]

(* One edge: word comes from the balancer, << >> if none, raw_in with it;  *)
(* ready is that of the join.                                              *)
ParserEdge(p, word, raw_in, ready) ==
  LET slots == SlotsKept(p, ready)
      fifo == IF ready /\ p.fifo # << >> THEN Tail(p.fifo) ELSE p.fifo
      out == p.pipe[PIPE_STAGES]
      ends == out # << >> /\ out[1].eop
      parsed == IF out = << >> \/ out[1].raw THEN p.parsed
                ELSE (IF out[1].sop THEN << >> ELSE p.parsed) \o out[1].bytes
      leaving == Leaving(p, parsed)
      fits == leaving # << >> /\ Len(fifo) + Len(leaving) <= OUTPUT_FIFO_WORDS
      store == IF fits /\ out[1].raw THEN Tail(p.raw_store) ELSE p.raw_store
      aligns == p.ingress_valid /\ HasCredit([p EXCEPT !.raw_store = store], slots)
      st == Aligned(p, IF aligns THEN p.ingress ELSE << >>)
      emit == UpTo(st.emitted, 1)
      emit2 == After(st.emitted, 1)
      parses == IF p.pending # << >> THEN p.pending
                ELSE SelectSeq(emit, LAMBDA w : ~w.raw)
      raw == FoldLeft(Gather, [data |-> p.raw_data, words |-> p.raw_words, store |-> store,
                               token |-> FALSE, error |-> FALSE], p.raw_emit)
      taken == word # << >> /\ parser_ready(p, ready)
  IN  [ingress |-> IF taken THEN Segments(p, word, raw_in)
                   ELSE IF aligns THEN << >> ELSE p.ingress,
       ingress_valid |-> taken \/ (p.ingress_valid /\ ~aligns),
       decode_in_frame |-> IF taken THEN Open(p, word) ELSE p.decode_in_frame,
       decode_raw |-> IF taken /\ OpensNew(p, word) THEN raw_in ELSE p.decode_raw,
       align |-> st.align, align_sop |-> st.align_sop, in_frame |-> st.in_frame,
       frame_raw |-> st.frame_raw,
       pending |-> SelectSeq(emit2, LAMBDA w : ~w.raw),
       raw_emit |-> SelectSeq(st.emitted, LAMBDA w : w.raw),
       raw_data |-> raw.data, raw_words |-> raw.words, raw_store |-> raw.store,
       pipe |-> Advance(p, parses, raw.token),
       parsed |-> parsed,
       fifo |-> IF fits THEN fifo \o leaving ELSE fifo,
       reserved_slots |-> slots + (IF parses # << >> /\ parses[1].eop THEN 1 ELSE 0)
                                + (IF raw.token THEN 2 ELSE 0),
       protocol_error |-> \/ p.protocol_error \/ st.error \/ raw.error
                          \/ ends /\ ~fits
                          \/ taken /\ Malformed(p, word)]
=============================================================================
