---------------------------- MODULE QueueProofs ----------------------------
(***************************************************************************)
(* What a packet queue keeps of its packets when a beat is written or      *)
(* read, for every depth and whatever the bytes are.                       *)
(***************************************************************************)
EXTENDS PacketQueue, CutProofs

Beats(B) == [bytes : Seq(B) \ {<< >>}, sop : BOOLEAN, eop : BOOLEAN]

(* A beat, part of a packet, or a fragment of one with its queue. *)
Pieces(B) == Beats(B) \cup [bytes : Seq(B), eop : BOOLEAN]
                      \cup [queue : Nat, bytes : Seq(B), eop : BOOLEAN]

(* The packets in a queue, the first of which was read in part.            *)
Queued(q, read) == Cutting(<< Part(read) >> \o q.data)

(* The beat after those in data, of which read came before, begins a       *)
(* packet.                                                                 *)
Between(read, data) ==
  IF data = << >> THEN read = << >> ELSE data[Len(data)].eop

Marked(read, data) ==
  \A i \in DOMAIN data : data[i].sop = IF i = 1 THEN read = << >> ELSE data[i - 1].eop

LengthsIn(packets) == [i \in DOMAIN packets |-> Len(packets[i])]

QueueSound(q, read, B) ==
  /\ DOMAIN q = {"data", "lengths", "assembling", "assembling_length",
                "packet_count", "protocol_error"}
  /\ q.data \in Seq(Beats(B)) /\ read \in Seq(B)
  /\ Marked(read, q.data)
  /\ q.lengths = LengthsIn(Queued(q, read).packets)
  /\ q.packet_count = Len(Queued(q, read).packets)
  /\ q.assembling = (Queued(q, read).open # << >>)
  /\ q.assembling_length = Len(Queued(q, read).open)
  /\ q.protocol_error = FALSE

-----------------------------------------------------------------------------

(* Beats, and parts of packets, carry bytes. *)
LEMMA PiecesCarry ==
  ASSUME NEW B
  PROVE  /\ Carries(Pieces(B), B)
         /\ \A b \in Beats(B) : b \in Pieces(B)
         /\ Seq(Beats(B)) \subseteq Seq(Pieces(B))
         /\ \A r \in Seq(B) : Part(r) \in Pieces(B) /\ << Part(r) >> \in Seq(Pieces(B))
<1>1. Beats(B) \subseteq Pieces(B)
  BY DEF Pieces
<1>2. ASSUME NEW r \in Seq(B)
      PROVE  Part(r) \in Pieces(B)
  BY DEF Pieces, Part
<1>3. Carries(Pieces(B), B)
  BY DEF Carries, Pieces, Beats
<1>4. Seq(Beats(B)) \subseteq Seq(Pieces(B))
  BY <1>1
<1>5. QED
  BY <1>1, <1>2, <1>3, <1>4

(* The packets of a queue are packets of bytes. *)
LEMMA QueuedType ==
  ASSUME NEW B, NEW q, NEW read \in Seq(B), q.data \in Seq(Beats(B))
  PROVE  /\ << Part(read) >> \o q.data \in Seq(Pieces(B))
         /\ Queued(q, read) \in [packets : Seq(Seq(B)), open : Seq(B)]
<1>1. << Part(read) >> \in Seq(Pieces(B)) /\ q.data \in Seq(Pieces(B))
  BY PiecesCarry
<1>2. << Part(read) >> \o q.data \in Seq(Pieces(B))
  BY <1>1, ConcatProperties
<1>3. QED
  BY <1>2, PiecesCarry, CutType DEF Queued

(* Nothing is assembled between packets. *)
LEMMA OpenBetween ==
  ASSUME NEW B, NEW q, NEW read \in Seq(B), q.data \in Seq(Beats(B))
  PROVE  (Queued(q, read).open = << >>) = Between(read, q.data)
<1> DEFINE data == q.data
           S == Pieces(B)
<1>1. data \in Seq(Beats(B))
  OBVIOUS
<1>2. CASE data = << >>
  <2>1. << Part(read) >> \in Seq(S)
    BY PiecesCarry
  <2>2. << Part(read) >> \o data = << Part(read) >>
    BY <1>2, <2>1, ConcatEmptySeq
  <2>3. Queued(q, read).open = read
    <3>1. Queued(q, read) = Cutting(<< Part(read) >>)
      BY <2>2 DEF Queued
    <3>2. Cutting(<< Part(read) >>) = [packets |-> << >>, open |-> read]
      BY CutPart
    <3>3. QED
      BY <3>1, <3>2
  <2>4. QED
    BY <1>2, <2>3 DEF Between
<1>3. CASE data # << >>
  <2> DEFINE front == SubSeq(data, 1, Len(data) - 1)
             last == data[Len(data)]
  <2>1. front \in Seq(Beats(B)) /\ last \in Beats(B) /\ data = Append(front, last)
    BY <1>1, <1>3, FrontLast
  <2> HIDE DEF front, last
  <2>2. /\ << Part(read) >> \in Seq(S) /\ front \in Seq(S) /\ last \in S
        /\ << Part(read) >> \o front \in Seq(S)
    BY <2>1, PiecesCarry, ConcatProperties
  <2> DEFINE c == Cutting(<< Part(read) >> \o front)
  <2>3. Queued(q, read) = With(c, last)
    <3> DEFINE e == << Part(read) >>
    <3>1. Queued(q, read) = Cutting(e \o Append(front, last))
      BY <2>1 DEF Queued
    <3>2. e \in Seq(S)
      BY <2>2
    <3> HIDE DEF e, S
    <3>3. Cutting(e \o Append(front, last)) = With(Cutting(e \o front), last)
      BY <2>2, <3>2, CutConcatAppend
    <3>4. QED
      BY <3>1, <3>3 DEF e
  <2>4. c.open \in Seq(B)
    BY <2>2, PiecesCarry, CutType
  <2> HIDE DEF c
  <2>5. last.bytes \in Seq(B) /\ last.bytes # << >> /\ last.eop \in BOOLEAN
    BY <2>1 DEF Beats
  <2>6. c.open \o last.bytes # << >>
    BY <2>4, <2>5, LongerNotEmpty
  <2>7. With(c, last).open = IF last.eop THEN << >> ELSE c.open \o last.bytes
    BY DEF With
  <2>8. (Queued(q, read).open = << >>) = last.eop
    BY <2>3, <2>5, <2>6, <2>7
  <2>9. QED
    BY <1>3, <2>8 DEF Between, last
<1>4. QED
  BY <1>2, <1>3

(* The lengths of one packet more. *)
LEMMA LengthsAppend ==
  ASSUME NEW V, NEW packets \in Seq(V), NEW p \in V
  PROVE  LengthsIn(Append(packets, p)) = Append(LengthsIn(packets), Len(p))
<1> DEFINE n == Len(packets)
           more == Append(packets, p)
           lengths == LengthsIn(packets)
<1>1. /\ more \in Seq(V) /\ n \in Nat /\ DOMAIN more = 1 .. n + 1
      /\ DOMAIN packets = 1 .. n
      /\ more[n + 1] = p /\ \A i \in 1 .. n : more[i] = packets[i]
  BY AppendProperties, LenProperties
<1>2. /\ DOMAIN lengths = 1 .. n /\ \A i \in 1 .. n : lengths[i] = Len(packets[i])
  BY <1>1 DEF LengthsIn
<1> DEFINE L == {Len(packets[i]) : i \in 1 .. n} \cup {Len(p)}
<1>3. lengths = [i \in 1 .. n |-> lengths[i]] /\ \A i \in 1 .. n : lengths[i] \in L
  BY <1>1, <1>2 DEF LengthsIn
<1> HIDE DEF lengths, more, n
<1>4. lengths \in Seq(L) /\ Len(lengths) = n /\ Len(p) \in L
  BY <1>1, <1>3, IsASeq
<1> HIDE DEF L
<1>5. /\ DOMAIN Append(lengths, Len(p)) = 1 .. n + 1
      /\ Append(lengths, Len(p)) = [i \in 1 .. n + 1 |-> Append(lengths, Len(p))[i]]
      /\ Append(lengths, Len(p))[n + 1] = Len(p)
      /\ \A i \in 1 .. n : Append(lengths, Len(p))[i] = lengths[i]
  <2>1. Append(lengths, Len(p)) \in Seq(L) /\ Len(Append(lengths, Len(p))) = n + 1
    BY <1>4, AppendProperties
  <2>2. Append(lengths, Len(p))[n + 1] = Len(p)
        /\ \A i \in 1 .. n : Append(lengths, Len(p))[i] = lengths[i]
    BY <1>4, AppendProperties
  <2> DEFINE a == Append(lengths, Len(p))
  <2>3. a \in Seq(L) /\ Len(a) = n + 1
    BY <2>1
  <2> HIDE DEF a
  <2>4. DOMAIN a = 1 .. n + 1 /\ a = [i \in 1 .. n + 1 |-> a[i]]
    BY <2>3
  <2>5. QED
    BY <2>2, <2>4 DEF a
<1>6. LengthsIn(more) = [i \in 1 .. n + 1 |-> Len(more[i])]
  BY <1>1 DEF LengthsIn
<1>7. \A i \in 1 .. n + 1 : Len(more[i]) = Append(lengths, Len(p))[i]
  <2>1. \A i \in 1 .. n + 1 : i \in 1 .. n \/ i = n + 1
    BY <1>1
  <2>2. QED
    BY <1>1, <1>2, <1>5, <2>1
<1>8. LengthsIn(more) = Append(lengths, Len(p))
  BY <1>5, <1>6, <1>7
<1>9. QED
  BY <1>8 DEF more, lengths

(* The writer marks the first beat of a packet. *)
MarkedNext(q, read, b) == b.sop = (Queued(q, read).open = << >>)

(* A beat that goes on where the last one ended leaves the queue sound:    *)
(* its lengths, its count and what is assembled are those of the packets   *)
(* its beats make (PacketQueue's write).                                   *)
LEMMA QueueWrite ==
  ASSUME NEW B, NEW q, NEW read, QueueSound(q, read, B),
         NEW b \in Beats(B), MarkedNext(q, read, b)
  PROVE  /\ QueueSound(WriteBeat(q, b), read, B)
         /\ Queued(WriteBeat(q, b), read) = With(Queued(q, read), b)
<1> DEFINE w == WriteBeat(q, b)
           S == Pieces(B)
           V == Seq(B)
           c == Queued(q, read)
           d == Queued(w, read)
           length == (IF b.sop THEN 0 ELSE q.assembling_length) + Len(b.bytes)
<1>1. /\ q.data \in Seq(Beats(B)) /\ read \in Seq(B) /\ Marked(read, q.data)
      /\ q.lengths = LengthsIn(c.packets) /\ q.packet_count = Len(c.packets)
      /\ q.assembling = (c.open # << >>) /\ q.assembling_length = Len(c.open)
      /\ q.protocol_error = FALSE
  BY DEF QueueSound
<1>2. /\ DOMAIN w = DOMAIN q
      /\ w.data = Append(q.data, b)
      /\ w.lengths = IF b.eop THEN Append(q.lengths, length) ELSE q.lengths
      /\ w.assembling_length = IF b.eop THEN 0 ELSE length
      /\ w.assembling = ((b.sop \/ q.assembling) /\ ~b.eop)
      /\ w.packet_count = IF b.eop THEN q.packet_count + 1 ELSE q.packet_count
      /\ w.protocol_error = (q.protocol_error \/ b.bytes = << >> \/ b.sop = q.assembling)
  BY DEF QueueSound, WriteBeat
<1> HIDE DEF w
<1>3. /\ b.bytes \in V /\ b.bytes # << >> /\ b.sop \in BOOLEAN /\ b.eop \in BOOLEAN
      /\ Len(b.bytes) \in Nat
  BY DEF Beats
<1>4. c.packets \in Seq(V) /\ c.open \in V /\ Len(c.open) \in Nat
  BY <1>1, QueuedType
<1>5. w.data \in Seq(Beats(B)) /\ w.data # << >> /\ Len(w.data) = Len(q.data) + 1
  BY <1>1, <1>2, AppendProperties
<1>6. d = With(c, b)
  <2> DEFINE e == << Part(read) >>
             data == q.data
  <2>1. e \in Seq(S) /\ data \in Seq(S) /\ b \in S
    BY <1>1, PiecesCarry
  <2>2. d = Cutting(e \o Append(data, b)) /\ c = Cutting(e \o data)
    BY <1>2 DEF Queued
  <2> HIDE DEF e, data, S, c, d
  <2>3. Cutting(e \o Append(data, b)) = With(Cutting(e \o data), b)
    BY <2>1, CutConcatAppend
  <2>4. QED
    BY <2>2, <2>3
<1> DEFINE open == c.open \o b.bytes
<1>7. open \in V /\ open # << >> /\ Len(open) = length
  <2>1. open \in V /\ Len(open) = Len(c.open) + Len(b.bytes)
    BY <1>3, <1>4, ConcatProperties
  <2>2. open # << >>
    BY <1>3, <1>4, LongerNotEmpty
  <2>3. b.sop => Len(c.open) = 0
    <3>1. b.sop => c.open = << >>
      BY <1>3 DEF MarkedNext
    <3>2. Len(<< >>) = 0
      OBVIOUS
    <3>3. QED
      BY <3>1, <3>2
  <2>4. QED
    BY <1>1, <1>3, <1>4, <2>1, <2>2, <2>3
<1>8. /\ d.packets = IF b.eop THEN Append(c.packets, open) ELSE c.packets
      /\ d.open = IF b.eop THEN << >> ELSE open
  BY <1>6 DEF With
<1>9. Marked(read, w.data)
  <2>1. b.sop = Between(read, q.data)
    BY <1>1, OpenBetween DEF MarkedNext
  <2> DEFINE n == Len(q.data)
             data == q.data
             more == w.data
  <2>2. /\ n \in Nat /\ DOMAIN more = 1 .. n + 1 /\ more[n + 1] = b
        /\ \A i \in 1 .. n : more[i] = data[i]
        /\ DOMAIN data = 1 .. n /\ (data = << >> <=> n = 0)
    BY <1>1, <1>2, <1>5, AppendProperties, LenProperties, EmptySeq
  <2>3. b.sop = IF n = 0 THEN read = << >> ELSE data[n].eop
    BY <2>1, <2>2 DEF Between
  <2>4. \A i \in 1 .. n : data[i].sop = IF i = 1 THEN read = << >> ELSE data[i - 1].eop
    BY <1>1, <2>2 DEF Marked
  <2> HIDE DEF n, data, more
  <2>5. ASSUME NEW i \in 1 .. n + 1
        PROVE  more[i].sop = IF i = 1 THEN read = << >> ELSE more[i - 1].eop
    <3>1. CASE i = n + 1
      <4>1. CASE n = 0
        BY <2>2, <2>3, <3>1, <4>1
      <4>2. CASE n # 0
        <5>1. i # 1 /\ i - 1 = n /\ n \in 1 .. n
          BY <2>2, <3>1, <4>2
        <5>2. QED
          BY <2>2, <2>3, <3>1, <4>2, <5>1
      <4>3. QED
        BY <4>1, <4>2
    <3>2. CASE i # n + 1
      <4>1. i \in 1 .. n /\ (i # 1 => i - 1 \in 1 .. n)
        BY <2>2, <3>2
      <4>2. QED
        BY <2>2, <2>4, <4>1
    <3>3. QED
      BY <3>1, <3>2
  <2>6. QED
    BY <2>2, <2>5 DEF Marked, more
<1>10. w.lengths = LengthsIn(d.packets)
  <2> HIDE DEF open, length, c, d, V
  <2>1. CASE b.eop
    <3>1. LengthsIn(Append(c.packets, open)) = Append(LengthsIn(c.packets), Len(open))
      BY <1>4, <1>7, LengthsAppend
    <3>2. QED
      BY <1>1, <1>2, <1>7, <1>8, <2>1, <3>1
  <2>2. CASE ~b.eop
    BY <1>1, <1>2, <1>8, <2>2
  <2>3. QED
    BY <2>1, <2>2
<1>11. w.packet_count = Len(d.packets)
  BY <1>1, <1>2, <1>4, <1>7, <1>8, AppendProperties
<1> HIDE DEF open, length
<1>12. w.assembling = (d.open # << >>) /\ w.assembling_length = Len(d.open)
  BY <1>1, <1>2, <1>3, <1>7, <1>8 DEF MarkedNext
<1>13. w.protocol_error = FALSE
  BY <1>1, <1>2, <1>3 DEF MarkedNext
<1>14. DOMAIN w = {"data", "lengths", "assembling", "assembling_length",
                   "packet_count", "protocol_error"}
  BY <1>2 DEF QueueSound
<1>15. QueueSound(w, read, B)
  BY <1>1, <1>5, <1>9, <1>10, <1>11, <1>12, <1>13, <1>14 DEF QueueSound
<1>16. QED
  BY <1>6, <1>15 DEF w

(* The first length is that of the first packet. *)
LEMMA LengthsHead ==
  ASSUME NEW V, NEW packets \in Seq(V), LengthsIn(packets) # << >>
  PROVE  packets # << >> /\ Head(LengthsIn(packets)) = Len(Head(packets))
<1> DEFINE n == Len(packets)
           lengths == LengthsIn(packets)
           L == {Len(packets[i]) : i \in 1 .. n}
<1>1. n \in Nat /\ DOMAIN packets = 1 .. n /\ (packets = << >> <=> n = 0)
  BY LenProperties
<1>2. lengths = [i \in 1 .. n |-> Len(packets[i])]
  BY <1>1 DEF LengthsIn
<1>3. lengths \in Seq(L) /\ Len(lengths) = n
  BY <1>1, <1>2
<1>4. n # 0
  <2> HIDE DEF lengths, L, n
  <2>1. lengths # << >>
    BY DEF lengths
  <2>2. QED
    BY <1>3, <2>1
<1>5. Head(packets) = packets[1] /\ lengths[1] = Len(packets[1])
  BY <1>1, <1>2, <1>4
<1>6. Head(lengths) = lengths[1]
  <2> HIDE DEF lengths, L, n
  <2>1. QED
    BY <1>3, <1>4
<1>7. QED
  BY <1>1, <1>4, <1>5, <1>6

(* Without the first packet its length is gone, and no other. *)
LEMMA LengthsTail ==
  ASSUME NEW V, NEW packets \in Seq(V), packets # << >>
  PROVE  LengthsIn(Tail(packets)) = Tail(LengthsIn(packets)) /\ LengthsIn(packets) # << >>
<1> DEFINE n == Len(packets)
           rest == Tail(packets)
           lengths == LengthsIn(packets)
           L == {Len(packets[i]) : i \in 1 .. n}
<1>1. /\ n \in Nat \ {0} /\ DOMAIN packets = 1 .. n
      /\ rest \in Seq(V) /\ DOMAIN rest = 1 .. n - 1
      /\ \A i \in 1 .. n - 1 : rest[i] = packets[i + 1]
  BY HeadTailProperties, LenProperties
<1>2. lengths = [i \in 1 .. n |-> Len(packets[i])]
  BY <1>1 DEF LengthsIn
<1>3. lengths \in Seq(L) /\ Len(lengths) = n /\ lengths # << >>
  <2>1. \A i \in 1 .. n : Len(packets[i]) \in L
    OBVIOUS
  <2>2. lengths \in [1 .. n -> L] /\ n \in Nat \ {0}
    BY <1>1, <1>2, <2>1
  <2> HIDE DEF lengths, L, n
  <2>3. QED
    BY <2>2
<1>4. /\ \A i \in 1 .. n - 1 : Tail(lengths)[i] = lengths[i + 1]
      /\ Tail(lengths) \in Seq(L) /\ Len(Tail(lengths)) = n - 1
  <2> HIDE DEF lengths, L, n
  <2>1. QED
    BY <1>3, HeadTailProperties
<1> DEFINE t == Tail(lengths)
<1>5. t = [i \in 1 .. n - 1 |-> t[i]]
  <2>1. t \in Seq(L) /\ Len(t) = n - 1
    BY <1>4
  <2> HIDE DEF t, L
  <2>2. QED
    BY <2>1
<1>6. LengthsIn(rest) = [i \in 1 .. n - 1 |-> Len(rest[i])]
  BY <1>1 DEF LengthsIn
<1>7. \A i \in 1 .. n - 1 : Len(rest[i]) = t[i]
  <2>1. \A i \in 1 .. n - 1 : i + 1 \in 1 .. n
    BY <1>1
  <2>2. \A i \in 1 .. n - 1 : t[i] = lengths[i + 1]
    BY <1>4
  <2>3. \A i \in 1 .. n : lengths[i] = Len(packets[i])
    BY <1>2
  <2> HIDE DEF t, lengths, rest, n
  <2>4. QED
    BY <1>1, <2>1, <2>2, <2>3
<1> HIDE DEF t, lengths, rest, n
<1>8. LengthsIn(rest) = t
  BY <1>5, <1>6, <1>7
<1>9. QED
  BY <1>3, <1>8 DEF t, rest, lengths

(* What was read of a packet once b is read, too. *)
ReadOn(read, b) == IF b.eop THEN << >> ELSE read \o b.bytes

Reads(q, h, r) == q.data # << >> /\ h = Head(q.data) /\ r.data = Tail(q.data)

(* c are the packets before b was read, d those after, and first is the    *)
(* packet that b may end.                                                  *)
QueuedAfter(c, b, first, d) ==
  /\ d.open = c.open
  /\ ~b.eop => d.packets = c.packets
  /\ b.eop => c.packets # << >> /\ Head(c.packets) = first /\ Tail(c.packets) = d.packets

(* A beat that is read goes from the queue to what was read of its         *)
(* packet; the last one takes the packet out of the queue.                 *)
LEMMA QueuedRead ==
  ASSUME NEW B, NEW q, NEW read \in Seq(B), q.data \in Seq(Pieces(B)),
         NEW h, NEW r, Reads(q, h, r)
  PROVE  QueuedAfter(Queued(q, read), h, read \o h.bytes, Queued(r, ReadOn(read, h)))
<1> DEFINE S == Pieces(B)
           V == Seq(B)
           e == << Part(read) >>
           f == Append(e, h)
           data == q.data
           t == Tail(data)
           on == ReadOn(read, h)
           g == << Part(on) >>
<1>1. /\ data \in Seq(S) /\ data # << >> /\ e \in Seq(S) /\ h = Head(data)
      /\ h \in S /\ t \in Seq(S) /\ f \in Seq(S)
  <2>1. data \in Seq(S) /\ data # << >>
    BY DEF Reads
  <2> HIDE DEF data
  <2>2. e \in Seq(S)
    BY PiecesCarry
  <2> HIDE DEF S
  <2>3. Head(data) \in S /\ t \in Seq(S)
    BY <2>1, HeadTailProperties
  <2>4. h = Head(data)
    BY DEF data, Reads
  <2>5. QED
    BY <2>1, <2>2, <2>3, <2>4, AppendProperties
<1>2. h.bytes \in V /\ h.eop \in BOOLEAN /\ read \o h.bytes \in V
  <2>1. h.bytes \in V /\ h.eop \in BOOLEAN
    BY <1>1, PiecesCarry DEF Carries
  <2>2. QED
    BY <2>1, ConcatProperties
<1>3. on \in V /\ g \in Seq(S)
  <2>1. on = IF h.eop THEN << >> ELSE read \o h.bytes
    BY DEF ReadOn
  <2>2. on \in V
    <3>1. << >> \in V
      OBVIOUS
    <3> HIDE DEF on, V
    <3>2. QED
      BY <1>2, <2>1, <3>1
  <2>3. QED
    BY <2>2, PiecesCarry
<1>4. Queued(q, read) = Cutting(e \o data) /\ Queued(r, on) = Cutting(g \o t)
  BY DEF Queued, Reads
<1>5. Cutting(f) = IF h.eop THEN [packets |-> << read \o h.bytes >>, open |-> << >>]
                   ELSE [packets |-> << >>, open |-> read \o h.bytes]
  <2>1. Cutting(f) = With(Cutting(e), h)
    BY <1>1, CutAppend
  <2>2. Cutting(e) = [packets |-> << >>, open |-> read]
    BY CutPart
  <2>3. Append(<< >>, read \o h.bytes) = << read \o h.bytes >>
    OBVIOUS
  <2>4. /\ Cutting(e).packets = << >> /\ Cutting(e).open = read
    BY <2>2
  <2>5. CASE h.eop
    <3>1. With(Cutting(e), h) = [packets |-> Append(<< >>, read \o h.bytes), open |-> << >>]
      BY <2>4, <2>5 DEF With
    <3>2. QED
      BY <2>1, <2>3, <2>5, <3>1
  <2>6. CASE ~h.eop
    <3>1. With(Cutting(e), h) = [packets |-> << >>, open |-> read \o h.bytes]
      BY <2>4, <2>6 DEF With
    <3>2. QED
      BY <2>1, <2>6, <3>1
  <2>7. QED
    BY <2>5, <2>6
<1>6. Cutting(f \o t) = Cutting(e \o data)
  <2> HIDE DEF S, e, data
  <2>1. QED
    BY <1>1, CutTake DEF f, t
<1> HIDE DEF S, e, data, t
<1>7. CASE ~h.eop
  <2>1. Cutting(g) = Cutting(f)
    BY <1>2, <1>5, <1>7, CutPart DEF ReadOn
  <2> HIDE DEF f, g
  <2>2. Cutting(g \o t) = Cutting(f \o t)
    BY <1>1, <1>3, <2>1, CutConcat
  <2>3. Queued(r, on) = Queued(q, read)
    BY <1>4, <1>6, <2>2
  <2> HIDE DEF on
  <2>4. QED
    BY <1>7, <2>3 DEF QueuedAfter, on
<1>8. CASE h.eop
  <2>1. Cutting(f).packets = << read \o h.bytes >> /\ Cutting(f).open = << >>
    BY <1>5, <1>8
  <2> HIDE DEF f
  <2>2. Cutting(f \o t) = [packets |-> << read \o h.bytes >> \o Cutting(t).packets,
                           open |-> Cutting(t).open]
    <3>1. Carries(S, B)
      BY PiecesCarry DEF S
    <3>2. QED
      BY <1>1, <2>1, <3>1, CutBoundary
  <2>3. Cutting(g \o t) = Cutting(t)
    <3>1. << >> \in Seq(S) /\ << >> \in V
      OBVIOUS
    <3>2. on = << >>
      BY <1>8 DEF ReadOn
    <3>3. Cutting(g) = Cutting(<< >>)
      <4>1. << >> \in Seq(B)
        OBVIOUS
      <4>2. Cutting(<< Part(<< >>) >>) = NoPackets
        BY ONLY <4>1, CutPart DEF NoPackets
      <4>3. g = << Part(<< >>) >>
        BY <3>2
      <4> HIDE DEF g, on
      <4>4. QED
        BY <4>2, <4>3, CutEmpty
    <3> HIDE DEF g
    <3> DEFINE none == << >>
    <3>6. none \in Seq(S) /\ Cutting(g) = Cutting(none)
      BY <3>1, <3>3
    <3> HIDE DEF none
    <3>4. Cutting(g \o t) = Cutting(none \o t)
      BY ONLY <1>1, <1>3, <3>6, CutConcat
    <3>5. << >> \o t = t
      BY <1>1, ConcatEmptySeq
    <3>7. QED
      BY <3>4, <3>5 DEF none
  <2> DEFINE first == read \o h.bytes
             rest == Cutting(t).packets
  <2>4. first \in V /\ rest \in Seq(V)
    BY <1>1, <1>2, PiecesCarry, CutType DEF S
  <2>5. Queued(q, read).packets = << first >> \o rest /\ Queued(q, read).open = Cutting(t).open
    BY <1>4, <1>6, <2>2
  <2>6. Queued(r, on) = Cutting(t)
    BY <1>4, <2>3
  <2> HIDE DEF first, rest, V, on
  <2>7. << first >> \o rest # << >> /\ Head(<< first >> \o rest) = first
        /\ Tail(<< first >> \o rest) = rest
    BY <2>4
  <2>8. Queued(r, on).packets = rest /\ Queued(r, on).open = Cutting(t).open
    BY <2>6 DEF rest
  <2>9. QueuedAfter(Queued(q, read), h, first, Queued(r, on))
    BY <1>8, <2>5, <2>7, <2>8 DEF QueuedAfter
  <2>10. QED
    BY <2>9 DEF first, on
<1>9. QED
  BY <1>2, <1>7, <1>8

(* A reader that has some of the first packet, and reads h.                *)
BeatRead(q, read, h, B) ==
  /\ h \in Beats(B) /\ h.sop = (read = << >>)
  /\ h.eop => Head(Queued(q, read).packets) = read \o h.bytes
  /\ QueueSound(ReadBeat(q), ReadOn(read, h), B)
  /\ Queued(ReadBeat(q), ReadOn(read, h)).packets =
       IF h.eop THEN Tail(Queued(q, read).packets) ELSE Queued(q, read).packets
  /\ Queued(ReadBeat(q), ReadOn(read, h)).open = Queued(q, read).open

(* Reading a beat leaves the queue sound: the length that is dropped with  *)
(* the last beat of a packet is that packet's (PacketQueue's read).        *)
LEMMA QueueRead ==
  ASSUME NEW B, NEW q, NEW read, QueueSound(q, read, B), q.data # << >>, q.lengths # << >>,
         NEW h, h = Head(q.data)
  PROVE  BeatRead(q, read, h, B)
<1> DEFINE r == ReadBeat(q)
           V == Seq(B)
           on == ReadOn(read, h)
           c == Queued(q, read)
           d == Queued(r, on)
           data == q.data
<1>1. /\ data \in Seq(Beats(B)) /\ read \in V /\ Marked(read, data)
      /\ q.lengths = LengthsIn(c.packets) /\ q.packet_count = Len(c.packets)
      /\ q.assembling = (c.open # << >>) /\ q.assembling_length = Len(c.open)
      /\ q.protocol_error = FALSE
  BY DEF QueueSound
<1>2. /\ DOMAIN r = DOMAIN q
      /\ r.data = Tail(data)
      /\ r.lengths = IF h.eop THEN Tail(q.lengths) ELSE q.lengths
      /\ r.assembling_length = q.assembling_length
      /\ r.assembling = q.assembling
      /\ r.packet_count = IF h.eop /\ q.packet_count # 0 THEN q.packet_count - 1
                          ELSE q.packet_count
      /\ r.protocol_error = (q.protocol_error \/ (h.eop /\ q.packet_count = 0))
  BY DEF QueueSound, ReadBeat
<1>3. h \in Beats(B) /\ h = data[1] /\ Tail(data) \in Seq(Beats(B))
  BY <1>1, HeadTailProperties
<1>4. h.sop = (read = << >>)
  <2>1. 1 \in DOMAIN data
    BY <1>1
  <2>2. QED
    BY <1>1, <1>3, <2>1 DEF Marked
<1>5. c.packets \in Seq(V) /\ c.open \in V
  BY <1>1, QueuedType
<1>6. on \in V
  <2>1. h.bytes \in V /\ << >> \in V
    BY <1>3 DEF Beats
  <2>2. read \o h.bytes \in V
    BY <1>1, <2>1, ConcatProperties
  <2>3. on = IF h.eop THEN << >> ELSE read \o h.bytes
    BY DEF ReadOn
  <2> HIDE DEF on, V
  <2>4. QED
    BY <2>1, <2>2, <2>3
<1> HIDE DEF r
<1>7. d.packets \in Seq(V)
  BY <1>2, <1>3, <1>6, QueuedType
<1>8. QueuedAfter(c, h, read \o h.bytes, d)
  <2>1. read \in Seq(B) /\ q.data \in Seq(Pieces(B)) /\ Reads(q, h, r)
    BY <1>1, <1>2, PiecesCarry DEF Reads
  <2> HIDE DEF on, c, d
  <2>2. QueuedAfter(Queued(q, read), h, read \o h.bytes, Queued(r, ReadOn(read, h)))
    BY <2>1, QueuedRead
  <2>3. QED
    BY <2>2 DEF c, d, on
<1>9. /\ d.open = c.open
      /\ ~h.eop => d.packets = c.packets
      /\ h.eop => c.packets # << >> /\ Head(c.packets) = read \o h.bytes
                  /\ Tail(c.packets) = d.packets
  BY <1>8 DEF QueuedAfter
<1>10. Marked(on, r.data)
  <2> DEFINE n == Len(data)
             more == Tail(data)
  <2>1. /\ n \in Nat \ {0} /\ DOMAIN more = 1 .. n - 1 /\ DOMAIN data = 1 .. n
        /\ \A i \in 1 .. n - 1 : more[i] = data[i + 1]
    BY <1>1, <1>3, HeadTailProperties, LenProperties
  <2>2. \A i \in 1 .. n : data[i].sop = IF i = 1 THEN read = << >> ELSE data[i - 1].eop
    BY <1>1, <2>1 DEF Marked
  <2>3. (on = << >>) = h.eop
    <3>1. h.bytes \in V /\ h.bytes # << >> /\ h.eop \in BOOLEAN
      BY <1>3 DEF Beats
    <3>2. read \o h.bytes # << >>
      BY <1>1, <3>1, LongerNotEmpty
    <3>3. QED
      BY <3>1, <3>2 DEF ReadOn
  <2> HIDE DEF n, data, more, on
  <2>4. ASSUME NEW i \in 1 .. n - 1
        PROVE  more[i].sop = IF i = 1 THEN on = << >> ELSE more[i - 1].eop
    <3>1. i + 1 \in 1 .. n /\ i + 1 # 1 /\ (i + 1) - 1 = i
          /\ (i # 1 => i - 1 \in 1 .. n - 1 /\ (i - 1) + 1 = i)
      BY <2>1
    <3>2. more[i].sop = data[i].eop
      BY <2>1, <2>2, <3>1
    <3>3. CASE i = 1
      BY <1>3, <2>3, <3>2, <3>3
    <3>4. CASE i # 1
      BY <2>1, <3>1, <3>2, <3>4
    <3>5. QED
      BY <3>3, <3>4
  <2>5. QED
    BY <1>2, <2>1, <2>4 DEF Marked, more
<1>11. d = [packets |-> IF h.eop THEN Tail(c.packets) ELSE c.packets, open |-> c.open]
  <2>1. d \in [packets : Seq(V), open : V]
    BY <1>2, <1>3, <1>6, QueuedType
  <2>2. d = [packets |-> d.packets, open |-> d.open]
    BY <2>1
  <2>3. QED
    BY <1>9, <2>2
<1>12. r.lengths = LengthsIn(d.packets)
  <2>1. CASE h.eop
    <3>1. LengthsIn(Tail(c.packets)) = Tail(LengthsIn(c.packets))
      BY <1>5, <1>9, <2>1, LengthsTail
    <3>2. QED
      BY <1>1, <1>2, <1>9, <2>1, <3>1
  <2>2. CASE ~h.eop
    BY <1>1, <1>2, <1>9, <2>2
  <2>3. QED
    BY <2>1, <2>2
<1>13. /\ r.packet_count = Len(d.packets)
       /\ r.protocol_error = FALSE
  <2>1. CASE h.eop
    <3>1. Len(Tail(c.packets)) = Len(c.packets) - 1 /\ Len(c.packets) # 0
      BY <1>5, <1>9, <2>1
    <3>2. QED
      BY <1>1, <1>2, <1>9, <2>1, <3>1
  <2>2. CASE ~h.eop
    BY <1>1, <1>2, <1>9, <2>2
  <2>3. QED
    BY <2>1, <2>2
<1>14. DOMAIN r = {"data", "lengths", "assembling", "assembling_length",
                   "packet_count", "protocol_error"}
  BY <1>2 DEF QueueSound
<1>15. QueueSound(r, on, B)
  BY <1>1, <1>2, <1>3, <1>6, <1>9, <1>10, <1>12, <1>13, <1>14 DEF QueueSound
<1> HIDE DEF c, d, on
<1>16. d.open = c.open /\ d.packets = IF h.eop THEN Tail(c.packets) ELSE c.packets
  BY <1>11
<1>17. QED
  BY <1>3, <1>4, <1>9, <1>15, <1>16 DEF BeatRead, r, c, d, on

(* Nothing read: the packets of the data alone. *)
LEMMA QueuedFresh ==
  ASSUME NEW B, NEW q, q.data \in Seq(Beats(B))
  PROVE  Queued(q, << >>) = Cutting(q.data)
<1> DEFINE S == Pieces(B)
           g == << Part(<< >>) >>
           t == q.data
<1>1. << >> \in Seq(S) /\ << >> \in Seq(B) /\ t \in Seq(S)
  BY PiecesCarry
<1>2. g \in Seq(S)
  BY <1>1, PiecesCarry
<1>3. Cutting(g) = Cutting(<< >>)
  BY <1>1, CutPart, CutEmpty DEF NoPackets
<1>4. Queued(q, << >>) = Cutting(g \o t)
  BY DEF Queued
<1> HIDE DEF S, g, t
<1>5. Cutting(g \o t) = Cutting(<< >> \o t)
  BY <1>1, <1>2, <1>3, CutConcat
<1>6. << >> \o t = t
  BY <1>1, ConcatEmptySeq
<1>7. QED
  BY <1>4, <1>5, <1>6 DEF t

(* A queue with nothing in it.                                             *)
EmptySound(B) ==
  /\ QueueSound(EmptyQueue, << >>, B) /\ Queued(EmptyQueue, << >>) = NoPackets
  /\ EmptyQueue.data = << >> /\ EmptyQueue.lengths = << >>

(* It has no packets, and says so. *)
LEMMA EmptyIsSound ==
  ASSUME NEW B
  PROVE  EmptySound(B)
<1> DEFINE p == EmptyQueue
           c == Queued(p, << >>)
<1>1. /\ p.data = << >> /\ p.lengths = << >> /\ p.assembling = FALSE
      /\ p.assembling_length = 0 /\ p.packet_count = 0 /\ p.protocol_error = FALSE
      /\ DOMAIN p = {"data", "lengths", "assembling", "assembling_length",
                     "packet_count", "protocol_error"}
  BY DEF EmptyQueue
<1>2. << >> \in Seq(Beats(B)) /\ << >> \in Seq(B)
  OBVIOUS
<1> HIDE DEF p
<1>3. c = NoPackets
  BY <1>1, <1>2, QueuedFresh, CutEmpty
<1> HIDE DEF c
<1>4. c.packets = << >> /\ c.open = << >>
  BY <1>3 DEF NoPackets
<1>5. LengthsIn(c.packets) = << >> /\ Len(c.packets) = 0 /\ Len(c.open) = 0
  <2>1. LengthsIn(<< >>) = << >> /\ Len(<< >>) = 0
    BY DEF LengthsIn
  <2>2. QED
    BY <1>4, <2>1
<1>6. Marked(<< >>, p.data)
  BY <1>1 DEF Marked
<1>7. p.data \in Seq(Beats(B)) /\ (p.assembling <=> c.open # << >>)
  BY <1>1, <1>2, <1>4
<1>8. /\ p.assembling = (c.open # << >>) /\ p.lengths = LengthsIn(c.packets)
      /\ p.packet_count = Len(c.packets) /\ p.assembling_length = Len(c.open)
  BY <1>1, <1>4, <1>5
<1>9. QueueSound(p, << >>, B)
  BY <1>1, <1>2, <1>6, <1>7, <1>8 DEF QueueSound, c
<1>10. QED
  BY <1>1, <1>3, <1>9 DEF EmptySound, p, c

(* The reader has part of a packet, or it has whole packets: after what it *)
(* has come the packets that are still in the queue.                       *)
Reader(e) == Cutting(e).packets = << >> \/ Cutting(e).open = << >>

(* The packets on the whole way are those the reader has, and then those   *)
(* of the queue that the reader has begun to read.                         *)
LEMMA PathSplits ==
  ASSUME NEW B, NEW q, q.data \in Seq(Beats(B)), NEW e \in Seq(Pieces(B)), Reader(e)
  PROVE  /\ Cutting(e \o q.data).packets =
              Cutting(e).packets \o Queued(q, Cutting(e).open).packets
         /\ Cutting(e \o q.data).open = Queued(q, Cutting(e).open).open
<1> DEFINE S == Pieces(B)
           V == Seq(B)
           data == q.data
           c == Cutting(e)
           g == << Part(c.open) >>
<1>1. data \in Seq(S) /\ Carries(S, B)
  BY PiecesCarry
<1>2. c \in [packets : Seq(V), open : V]
  BY <1>1, CutType
<1>3. g \in Seq(S)
  BY <1>2, PiecesCarry
<1>4. Queued(q, c.open) = Cutting(g \o data)
  BY DEF Queued
<1>5. CASE c.packets = << >>
  <2>1. Cutting(g) = [packets |-> << >>, open |-> c.open]
    BY <1>2, CutPart
  <2>2. c = [packets |-> << >>, open |-> c.open]
    BY <1>2, <1>5
  <2>3. Cutting(g) = Cutting(e)
    BY <2>1, <2>2
  <2> HIDE DEF S, g, data
  <2>4. Cutting(g \o data) = Cutting(e \o data)
    BY <1>1, <1>3, <2>3, CutConcat DEF S
  <2>5. Cutting(g \o data).packets \in Seq(V)
    <3>1. g \o data \in Seq(S)
      BY <1>1, <1>3, ConcatProperties
    <3>2. Cutting(g \o data) \in [packets : Seq(V), open : V]
      BY <1>1, <3>1, CutType
    <3>3. QED
      BY <3>2
  <2>6. << >> \o Cutting(g \o data).packets = Cutting(g \o data).packets
    BY <2>5, ConcatEmptySeq
  <2>7. QED
    BY <1>4, <1>5, <2>4, <2>6 DEF data
<1>6. CASE c.open = << >>
  <2>1. Queued(q, c.open) = Cutting(data)
    BY <1>6, QueuedFresh
  <2> HIDE DEF data, S
  <2>2. e \in Seq(S)
    BY DEF S
  <2>3. Cutting(e \o data) = [packets |-> Cutting(e).packets \o Cutting(data).packets,
                              open |-> Cutting(data).open]
    BY <1>1, <1>6, <2>2, CutBoundary
  <2>4. /\ Cutting(e \o data).packets = Cutting(e).packets \o Queued(q, c.open).packets
        /\ Cutting(e \o data).open = Queued(q, c.open).open
    <3> DEFINE x == Queued(q, c.open)
               y == Cutting(data)
               z == Cutting(e \o data)
               w == Cutting(e).packets
    <3>1. x = y
      BY <2>1
    <3>2. z = [packets |-> w \o y.packets, open |-> y.open]
      BY <2>3
    <3> HIDE DEF x, y, z, w
    <3>3. z.packets = w \o x.packets /\ z.open = x.open
      BY <3>1, <3>2
    <3>4. QED
      BY <3>3 DEF x, z, w
  <2>5. QED
    BY <2>4 DEF data
<1>7. QED
  BY <1>5, <1>6 DEF Reader
=============================================================================
