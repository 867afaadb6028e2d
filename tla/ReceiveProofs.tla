---------------------------- MODULE ReceiveProofs ---------------------------
(***************************************************************************)
(* Packets on their way to the host land in the posted buffers in order,   *)
(* whole and once, for every number of queues, depth, width of the bus,    *)
(* ring and set of packets of lengths the engine accepts.                  *)
(***************************************************************************)
EXTENDS SystemProofs, QueueProofs, FiniteSetTheorems

-----------------------------------------------------------------------------
(* The receive queues and the engine's registers: what is invariant of     *)
(* them, and what one edge does to each.                                   *)

Bytes == QUEUES \X Nat \X Nat

ToHost == direction = "queue to host"

(* What the engine has of the packets of a queue.                          *)
Held(q) == Cutting(InEngine(q))

(* What is on its way to a queue makes a packet with what is there of it.  *)
MakesPacket(q, open, source) ==
  IF source = << >> THEN open = << >>
  ELSE open # << >> /\ \E n \in RxLengths : open \o source = Payload(q, n)

(* Only the last beat of a packet is not full.                             *)
BeatsFull(data) ==
  \A i \in DOMAIN data : ~data[i].eop => Len(data[i].bytes) = QUEUE_DATA_BYTES

ReceiveQueue(q, p, read, source) ==
  /\ QueueSound(p, read, Bytes)
  /\ BeatsFull(p.data)
  /\ MakesPacket(q, Queued(p, read).open, source)

(* The command offered is for the first packet in its queue. *)
CommandHolds ==
  /\ command.queue \in QUEUES
  /\ command_valid /\ command.direction = "queue to host" =>
       /\ command.bytes = << >>
       /\ rx_queue[command.queue].lengths # << >>
       /\ command.length = Head(rx_queue[command.queue].lengths)

(* What the engine's registers hold in each of its states.                 *)
HasLow == beat.low \in Seq(Bytes) /\ Len(beat.low) = QUEUE_DATA_BYTES

HasBeat ==
  /\ beat.low \in Seq(Bytes) \ {<< >>} /\ beat.high \in Seq(Bytes)
  /\ beat.high # << >> => Len(beat.low) = QUEUE_DATA_BYTES
  /\ beat.eop \in BOOLEAN

EngineShape ==
  /\ queue \in QUEUES /\ completion_valid \in BOOLEAN
  /\ DOMAIN beat = {"low", "high", "eop"}
  /\ DOMAIN transfer = {"address", "remaining", "sop", "eop", "first_beat"}
  /\ Busy => ~completion_valid
  /\ Busy => (ToHost <=>
                 state \in {"WAIT_QUEUE", "WAIT_QUEUE_SECOND", "WRITE_ADDRESS"})
  /\ ToHost /\ (Busy \/ completion_valid) => host \in Seq(Bytes)
  /\ ToHost /\ state = "WAIT_QUEUE_SECOND" => HasLow
  /\ ToHost /\ state = "WRITE_ADDRESS" => HasBeat

(* The engine is in the middle of the first packet of its queue, which is  *)
(* as long as the command said.                                            *)
MidPacket ==
  /\ transfer.address = Len(host) /\ transfer.remaining \in Nat
  /\ transfer.address + transfer.remaining = command.length
  /\ transfer.first_beat = (host = << >>)
  /\ RxPackets(queue) # << >> /\ Len(Head(RxPackets(queue))) = command.length

EngineHolds ==
  /\ EngineShape
  /\ Busy /\ ToHost => MidPacket
  /\ completion_valid /\ ToHost => Len(host) = command.length
  /\ dma_error = FALSE

ReceiveInv ==
  /\ SystemInv /\ CommandHolds /\ EngineHolds
  /\ \A q \in QUEUES : ReceiveQueue(q, rx_queue[q], BytesRead(q), rx_source[q])

-----------------------------------------------------------------------------
(* What the engine has.                                                    *)

(* Host memory that was written without a hole is a sequence. *)
LEMMA LandedIs ==
  ASSUME NEW S, NEW h \in Seq(S)
  PROVE  /\ [i \in 1 .. Cardinality(DOMAIN h) |-> IF i \in DOMAIN h THEN h[i] ELSE Junk] = h
         /\ DOMAIN h = 1 .. Cardinality(DOMAIN h) /\ Cardinality(DOMAIN h) = Len(h)
<1>1. Len(h) \in Nat /\ DOMAIN h = 1 .. Len(h)
  BY LenProperties
<1>2. Cardinality(1 .. Len(h)) = Len(h)
  BY <1>1, FS_Interval
<1>3. h = [i \in 1 .. Len(h) |-> h[i]]
  BY <1>1
<1>4. QED
  BY <1>1, <1>2, <1>3

Begun(bytes) == [packets |-> << >>, open |-> bytes]
Whole(bytes) == [packets |-> << bytes >>, open |-> << >>]

IsBeat(p, bytes, eop) == p = [bytes |-> bytes, eop |-> eop]

(* e carries bytes, all or part of a packet. *)
IsHeld(e, B, bytes, eop) ==
  e \in Seq(Pieces(B)) /\ Cutting(e) = IF eop THEN Whole(bytes) ELSE Begun(bytes)

(* One piece of a packet, all of it or its beginning. *)
LEMMA HeldOne ==
  ASSUME NEW B, NEW h \in Seq(B), NEW eop \in BOOLEAN, NEW p,
         IsBeat(p, h, eop)
  PROVE  /\ p \in Pieces(B) /\ << p >> \in Seq(Pieces(B)) /\ << p >> \o << >> = << p >>
         /\ Cutting(<< p >>) = IF eop THEN Whole(h) ELSE Begun(h)
<1> DEFINE S == Pieces(B)
<1>1. p \in S /\ p.bytes = h /\ p.eop = eop
  BY DEF Pieces, IsBeat
<1> HIDE DEF S
<1>2. /\ << >> \in Seq(S) /\ << p >> \in Seq(S) /\ << p >> = Append(<< >>, p)
      /\ << p >> \o << >> = << p >>
  BY <1>1
<1>3. Cutting(<< p >>) = With(NoPackets, p)
  BY <1>1, <1>2, CutAppend, CutEmpty
<1>4. << >> \o h = h
  BY ConcatEmptySeq
<1>5. Append(<< >>, h) = << h >>
  OBVIOUS
<1>6. CASE eop
  BY <1>1, <1>2, <1>3, <1>4, <1>5, <1>6 DEF With, NoPackets, Whole, S
<1>7. CASE ~eop
  BY <1>1, <1>2, <1>3, <1>4, <1>7 DEF With, NoPackets, Begun, S
<1>8. QED
  BY <1>1, <1>2, <1>6, <1>7 DEF S

(* Two pieces of a packet, the second of which may be its end. *)
LEMMA HeldTwo ==
  ASSUME NEW B, NEW h \in Seq(B), NEW more \in Seq(B), NEW eop \in BOOLEAN,
         NEW p, NEW b, IsBeat(p, h, FALSE), IsBeat(b, more, eop)
  PROVE  IsHeld(<< p >> \o << b >>, B, h \o more, eop)
<1> DEFINE S == Pieces(B)
<1>1. /\ p \in S /\ << p >> \in Seq(S) /\ Cutting(<< p >>) = Begun(h)
      /\ b \in S /\ b.bytes = more /\ b.eop = eop
  <2>1. b \in S /\ b.bytes = more /\ b.eop = eop
    BY HeldOne DEF IsBeat
  <2>2. FALSE \in BOOLEAN
    OBVIOUS
  <2>3. p \in S /\ << p >> \in Seq(S) /\ Cutting(<< p >>) = Begun(h)
    BY <2>2, HeldOne
  <2>4. QED
    BY <2>1, <2>3
<1> HIDE DEF S
<1>2. << p >> \o << b >> = Append(<< p >>, b) /\ Append(<< p >>, b) \in Seq(S)
  BY <1>1
<1>3. Cutting(Append(<< p >>, b)) = With(Cutting(<< p >>), b)
  BY <1>1, CutAppend
<1>4. Cutting(<< p >>).packets = << >> /\ Cutting(<< p >>).open = h
  BY <1>1 DEF Begun
<1>5. Append(<< >>, h \o more) = << h \o more >>
  OBVIOUS
<1>6. CASE eop
  BY <1>1, <1>2, <1>3, <1>4, <1>5, <1>6 DEF With, Whole, S, IsHeld
<1>7. CASE ~eop
  BY <1>1, <1>2, <1>3, <1>4, <1>7 DEF With, Begun, S, IsHeld
<1>8. QED
  BY <1>6, <1>7

(* In terms of the engine's registers. *)
HeldBy(q) ==
  IF ~ToHost \/ queue # q \/ ~(Busy \/ completion_valid) THEN NoPackets
  ELSE IF completion_valid THEN Whole(host)
  ELSE IF state = "WAIT_QUEUE" THEN Begun(host)
  ELSE IF state = "WAIT_QUEUE_SECOND" THEN Begun(host \o beat.low)
  ELSE IF beat.eop THEN Whole(host \o (beat.low \o beat.high))
  ELSE Begun(host \o (beat.low \o beat.high))

HeldSound ==
  \A q \in QUEUES : /\ InEngine(q) \in Seq(Pieces(Bytes)) /\ Reader(InEngine(q))
                    /\ Held(q) = HeldBy(q)

(* What the engine has of the packets of a queue, said with its            *)
(* registers.                                                              *)
LEMMA HeldIs == EngineShape => HeldSound
<1>1. SUFFICES ASSUME EngineShape, NEW q \in QUEUES
               PROVE  /\ InEngine(q) \in Seq(Pieces(Bytes)) /\ Reader(InEngine(q))
                      /\ Held(q) = HeldBy(q)
  BY DEF HeldSound
<1> DEFINE S == Pieces(Bytes)
<1>2. CASE ~ToHost \/ queue # q \/ ~(Busy \/ completion_valid)
  <2>1. InEngine(q) = << >>
    BY <1>2 DEF InEngine, ToHost
  <2>2. Held(q) = NoPackets
    BY <2>1, CutEmpty DEF Held
  <2>3. Held(q).packets = << >>
    BY <2>2 DEF NoPackets
  <2>4. QED
    BY <1>2, <2>1, <2>2, <2>3 DEF HeldBy, Reader, Held
<1>3. CASE ToHost /\ queue = q /\ (Busy \/ completion_valid)
  <2>1. /\ host \in Seq(Bytes) /\ completion_valid \in BOOLEAN
        /\ Busy => ~completion_valid
        /\ Busy => state \in {"WAIT_QUEUE", "WAIT_QUEUE_SECOND", "WRITE_ADDRESS"}
    BY <1>1, <1>3 DEF EngineShape
  <2>2. Landed = host
    BY <2>1, LandedIs DEF Landed
  <2> DEFINE more == CASE state \in {"IDLE", "WAIT_QUEUE"} -> << >>
                       [] state = "WAIT_QUEUE_SECOND" -> << Part(beat.low) >>
                       [] state = "WRITE_ADDRESS" ->
                            << [bytes |-> beat.low \o beat.high, eop |-> beat.eop] >>
  <2>3. InEngine(q) = << [bytes |-> host, eop |-> completion_valid] >> \o more
    BY <1>3, <2>2 DEF InEngine, ToHost
  <2>4. CASE completion_valid
    <3>1. state = "IDLE"
      BY <2>1, <2>4 DEF Busy
    <3>2. InEngine(q) = << [bytes |-> host, eop |-> TRUE] >> \o << >>
      BY <2>1, <2>3, <2>4, <3>1
    <3> DEFINE p == [bytes |-> host, eop |-> TRUE]
    <3>7. IsBeat(p, host, TRUE)
      BY DEF IsBeat
    <3>6. << p >> \in Seq(S) /\ << p >> \o << >> = << p >> /\ Cutting(<< p >>) = Whole(host)
      BY <2>1, <3>7, HeldOne
    <3>3. InEngine(q) \in Seq(S) /\ Held(q) = Whole(host)
      BY <3>2, <3>6 DEF Held
    <3>4. Held(q).open = << >>
      BY <3>3 DEF Whole
    <3>5. QED
      BY <1>3, <2>4, <3>3, <3>4 DEF HeldBy, Reader, Held
  <2>5. CASE state = "WAIT_QUEUE"
    <3>1. ~completion_valid
      BY <2>1, <2>5 DEF Busy
    <3>2. InEngine(q) = << [bytes |-> host, eop |-> FALSE] >> \o << >>
      BY <2>1, <2>3, <2>5, <3>1
    <3> DEFINE p == [bytes |-> host, eop |-> FALSE]
    <3>7. IsBeat(p, host, FALSE)
      BY DEF IsBeat
    <3>6. << p >> \in Seq(S) /\ << p >> \o << >> = << p >> /\ Cutting(<< p >>) = Begun(host)
      BY <2>1, <3>7, HeldOne
    <3>3. InEngine(q) \in Seq(S) /\ Held(q) = Begun(host)
      BY <3>2, <3>6 DEF Held
    <3>4. Held(q).packets = << >>
      BY <3>3 DEF Begun
    <3>5. QED
      BY <1>3, <2>5, <3>1, <3>3, <3>4 DEF HeldBy, Reader, Held
  <2>6. CASE state = "WAIT_QUEUE_SECOND"
    <3>1. ~completion_valid /\ beat.low \in Seq(Bytes)
      BY <1>1, <1>3, <2>1, <2>6 DEF Busy, EngineShape, HasLow
    <3>2. InEngine(q) = << [bytes |-> host, eop |-> FALSE] >>
                          \o << [bytes |-> beat.low, eop |-> FALSE] >>
      BY <2>1, <2>3, <2>6, <3>1 DEF Part
    <3> DEFINE p == [bytes |-> host, eop |-> FALSE]
               b == [bytes |-> beat.low, eop |-> FALSE]
               c == FALSE
    <3>5. IsBeat(p, host, FALSE) /\ IsBeat(b, beat.low, c) /\ c \in BOOLEAN
      BY <3>1 DEF IsBeat
    <3> HIDE DEF p, b, c
    <3>6. IsHeld(<< p >> \o << b >>, Bytes, host \o beat.low, c)
      BY <2>1, <3>1, <3>5, HeldTwo
    <3>7. InEngine(q) = << p >> \o << b >>
      BY <3>2 DEF p, b
    <3>3. InEngine(q) \in Seq(S) /\ Held(q) = Begun(host \o beat.low)
      BY <3>6, <3>7 DEF c, Held, IsHeld
    <3>4. Held(q).packets = << >>
      BY <3>3 DEF Begun
    <3>8. QED
      BY <1>3, <2>6, <3>1, <3>3, <3>4 DEF HeldBy, Reader, Held
  <2>7. CASE state = "WRITE_ADDRESS"
    <3> DEFINE bytes == beat.low \o beat.high
    <3>1. ~completion_valid /\ beat.eop \in BOOLEAN /\ bytes \in Seq(Bytes)
      BY <1>1, <1>3, <2>1, <2>7, ConcatProperties DEF Busy, EngineShape, HasBeat
    <3>2. InEngine(q) = << [bytes |-> host, eop |-> FALSE] >>
                          \o << [bytes |-> bytes, eop |-> beat.eop] >>
      BY <2>1, <2>3, <2>7, <3>1
    <3> HIDE DEF bytes
    <3> DEFINE p == [bytes |-> host, eop |-> FALSE]
               b == [bytes |-> bytes, eop |-> beat.eop]
               c == beat.eop
    <3>5. IsBeat(p, host, FALSE) /\ IsBeat(b, bytes, c) /\ c \in BOOLEAN
      BY <3>1 DEF IsBeat
    <3> HIDE DEF p, b, c
    <3>6. IsHeld(<< p >> \o << b >>, Bytes, host \o bytes, c)
      BY <2>1, <3>1, <3>5, HeldTwo
    <3>7. InEngine(q) = << p >> \o << b >>
      BY <3>2 DEF p, b
    <3>3. InEngine(q) \in Seq(S)
          /\ Held(q) = IF beat.eop THEN Whole(host \o bytes) ELSE Begun(host \o bytes)
      BY <3>6, <3>7 DEF c, Held, IsHeld
    <3>4. Held(q).packets = << >> \/ Held(q).open = << >>
      BY <3>3 DEF Begun, Whole
    <3>8. QED
      BY <1>3, <2>7, <3>1, <3>3, <3>4 DEF HeldBy, Reader, Held, bytes
  <2>8. QED
    BY <1>3, <2>1, <2>4, <2>5, <2>6, <2>7
<1>4. QED
  BY <1>2, <1>3

(* The same after the edge. *)
LEMMA HeldIsNext == EngineShape' => HeldSound'
BY HeldIs, PTL

-----------------------------------------------------------------------------
(* Host memory.                                                            *)

(* x is s and then t. *)
Joined(x, s, t) ==
  /\ Len(x) = Len(s) + Len(t)
  /\ \A i \in 1 .. Len(s) + Len(t) : x[i] = IF i <= Len(s) THEN s[i] ELSE t[i - Len(s)]

(* Two sequences of the same things, index by index. *)
LEMMA ConcatTwo ==
  ASSUME NEW S, NEW s \in Seq(S), NEW t \in Seq(S)
  PROVE  s \o t \in Seq(S) /\ Joined(s \o t, s, t)
BY ConcatProperties DEF Joined

(* Three of them. *)
LEMMA ConcatThree ==
  ASSUME NEW S, NEW h \in Seq(S), NEW l \in Seq(S), NEW m \in Seq(S)
  PROVE  LET n == Len(h)
             a == Len(l)
             b == Len(m)
             w == h \o (l \o m)
         IN  /\ w \in Seq(S) /\ Len(w) = n + (a + b)
             /\ \A i \in 1 .. n + (a + b) :
                  w[i] = IF i <= n THEN h[i]
                         ELSE IF i - n <= a THEN l[i - n] ELSE m[(i - n) - a]
<1> DEFINE n == Len(h)
           a == Len(l)
           b == Len(m)
           lm == l \o m
<1>1. lm \in Seq(S) /\ Len(lm) = a + b
      /\ \A i \in 1 .. a + b : lm[i] = IF i <= a THEN l[i] ELSE m[i - a]
  BY ConcatTwo DEF Joined
<1> HIDE DEF lm
<1>7. h \o lm \in Seq(S) /\ Joined(h \o lm, h, lm)
  BY <1>1, ConcatTwo
<1> DEFINE x == h \o lm
<1>2. x \in Seq(S) /\ Len(x) = n + Len(lm)
      /\ \A i \in 1 .. n + Len(lm) : x[i] = IF i <= n THEN h[i] ELSE lm[i - n]
  BY <1>7 DEF Joined
<1>3. n \in Nat /\ a \in Nat /\ b \in Nat
  OBVIOUS
<1> HIDE DEF x, n, a, b
<1>4. ASSUME NEW i \in 1 .. n + (a + b)
      PROVE  x[i] = IF i <= n THEN h[i] ELSE IF i - n <= a THEN l[i - n] ELSE m[(i - n) - a]
  <2>1. ~(i <= n) => i - n \in 1 .. a + b
    BY <1>3
  <2>2. QED
    BY <1>1, <1>2, <2>1
<1>5. x \in Seq(S) /\ Len(x) = n + (a + b)
  BY <1>1, <1>2
<1>6. QED
  BY <1>4, <1>5 DEF x, lm, n, a, b

(* The beat is written where what is there ends. *)
LEMMA Appended ==
  ASSUME ToHost, EngineShape, state = "WRITE_ADDRESS", transfer.address = Len(host)
  PROVE  /\ HostWritten = host \o (beat.low \o beat.high)
         /\ HostWritten \in Seq(Bytes) /\ HostWritten # << >>
         /\ kept_bytes \in Nat \ {0} /\ Len(HostWritten) = Len(host) + kept_bytes
         /\ ~keep_gap
<1> DEFINE h == host
           l == beat.low
           m == beat.high
           Q == QUEUE_DATA_BYTES
           n == Len(h)
           a == Len(l)
           b == Len(m)
           w == h \o (l \o m)
<1>1. h \in Seq(Bytes) /\ l \in Seq(Bytes) /\ m \in Seq(Bytes) /\ l # << >>
      /\ (m # << >> => a = Q) /\ Q \in Nat
  BY MasterDMAAssumption DEF EngineShape, HasBeat, Busy
<1>2. /\ n \in Nat /\ a \in Nat \ {0} /\ b \in Nat /\ (m = << >> <=> b = 0)
      /\ DOMAIN h = 1 .. n /\ DOMAIN l = 1 .. a /\ DOMAIN m = 1 .. b
  <2>1. DOMAIN h = 1 .. n /\ DOMAIN l = 1 .. a /\ DOMAIN m = 1 .. b
    BY <1>1, LenProperties
  <2>2. QED
    BY <1>1, <2>1
<1>3. transfer.address = n
  OBVIOUS
<1>4. /\ w \in Seq(Bytes) /\ Len(w) = n + (a + b)
      /\ \A i \in 1 .. n + (a + b) :
           w[i] = IF i <= n THEN h[i] ELSE IF i - n <= a THEN l[i - n] ELSE m[(i - n) - a]
  <2> HIDE DEF h, l, m
  <2>1. QED
    BY <1>1, ConcatThree DEF w, n, a, b
<1>5. HostWritten =
        [i \in (1 .. n) \cup (n + 1 .. n + a) \cup (n + Q + 1 .. n + Q + b) |->
           IF i \in n + 1 .. n + a THEN l[i - n]
           ELSE IF i \in n + Q + 1 .. n + Q + b THEN m[i - (n + Q)] ELSE h[i]]
  BY <1>2, <1>3 DEF HostWritten
<1> HIDE DEF h, l, m, n, a, b, w, Q
<1>6. (1 .. n) \cup (n + 1 .. n + a) \cup (n + Q + 1 .. n + Q + b) = 1 .. n + (a + b)
  <2>1. CASE b = 0
    BY <1>1, <1>2, <2>1
  <2>2. CASE b # 0
    <3>1. a = Q
      BY <1>1, <1>2, <2>2
    <3>2. QED
      BY <1>1, <1>2, <3>1
  <2>3. QED
    BY <2>1, <2>2
<1>7. ASSUME NEW i \in 1 .. n + (a + b)
      PROVE  w[i] = IF i \in n + 1 .. n + a THEN l[i - n]
                    ELSE IF i \in n + Q + 1 .. n + Q + b THEN m[i - (n + Q)] ELSE h[i]
  <2>1. CASE i <= n
    BY <1>1, <1>2, <1>4, <2>1, SMTT(30)
  <2>2. CASE ~(i <= n) /\ i - n <= a
    <3>1. i \in n + 1 .. n + a
      BY <1>2, <2>2
    <3>2. QED
      BY <1>4, <2>2, <3>1
  <2>3. CASE ~(i <= n) /\ ~(i - n <= a)
    <3>1. b # 0
      BY <1>2, <2>3
    <3>2. a = Q
      BY <1>1, <1>2, <3>1
    <3>3. i \notin n + 1 .. n + a /\ i \in n + Q + 1 .. n + Q + b
          /\ (i - n) - a = i - (n + Q)
      BY <1>2, <2>3, <3>2
    <3>4. QED
      BY <1>4, <2>3, <3>3
  <2>4. QED
    BY <2>1, <2>2, <2>3
<1>8. HostWritten = w
  <2>1. w = [i \in 1 .. n + (a + b) |-> w[i]]
    BY <1>2, <1>4
  <2>2. QED
    BY <1>5, <1>6, <1>7, <2>1
<1>9. kept_bytes = a + b /\ (keep_gap <=> a < Q /\ m # << >>)
  BY DEF kept_bytes, keep_gap, a, b, l, m, Q
<1>10. Len(w) # 0
  BY <1>2, <1>4
<1>11. w # << >>
  BY <1>10
<1>12. a + b \in Nat \ {0} /\ ~keep_gap
  BY <1>1, <1>2, <1>9
<1>13. /\ HostWritten = w /\ HostWritten \in Seq(Bytes) /\ HostWritten # << >>
       /\ kept_bytes \in Nat \ {0} /\ Len(HostWritten) = n + kept_bytes
       /\ ~keep_gap
  BY <1>4, <1>8, <1>9, <1>11, <1>12
<1>14. QED
  BY <1>13 DEF w, h, l, m, n

-----------------------------------------------------------------------------
(* What Processing offers.                                                 *)

(* bytes are s up to what fits in a beat, rest is what does not.           *)
Beaten(s, bytes, rest) ==
  /\ bytes \in Seq(Bytes) \ {<< >>} /\ rest \in Seq(Bytes)
  /\ bytes \o rest = s
  /\ Len(s) <= QUEUE_DATA_BYTES => rest = << >>
  /\ ~(Len(s) <= QUEUE_DATA_BYTES) => Len(bytes) = QUEUE_DATA_BYTES /\ rest # << >>

(* A beat takes from the packet what fits in it. *)
LEMMA BeatenBy ==
  ASSUME NEW s \in Seq(Bytes), s # << >>
  PROVE  Beaten(s, SubSeq(s, 1, Min({QUEUE_DATA_BYTES, Len(s)})),
                SubSeq(s, QUEUE_DATA_BYTES + 1, Len(s)))
<1> DEFINE n == Len(s)
           Q == QUEUE_DATA_BYTES
           m == Min({Q, n})
           f == SubSeq(s, 1, m)
           r == SubSeq(s, Q + 1, n)
<1>1. Q \in Nat \ {0} /\ n \in Nat \ {0} /\ \A i \in 1 .. n : s[i] \in Bytes
  BY MasterDMAAssumption
<1>2. m = IF Q <= n THEN Q ELSE n
  BY <1>1, MinOf
<1>3. m \in 1 .. n
  BY <1>1, <1>2
<1> HIDE DEF n, Q, m, Bytes
<1>4. f \in Seq(Bytes) /\ Len(f) = m
  BY <1>1, <1>3, SubSeqProperties
<1>5. r \in Seq(Bytes) /\ Len(r) = IF Q + 1 <= n THEN n - (Q + 1) + 1 ELSE 0
  BY <1>1, SubSeqProperties
<1>6. f # << >>
  BY <1>3, <1>4
<1>7. CASE n <= Q
  <2>1. m = n
    BY <1>1, <1>2, <1>7
  <2>2. f = s
    BY <2>1, SubSeqFull DEF n
  <2>3. r = << >>
    BY <1>1, <1>7, SubSeqEmpty
  <2>4. s \o << >> = s
    BY ConcatEmptySeq
  <2>5. f \o r = s
    BY <2>2, <2>3, <2>4
  <2>6. Beaten(s, f, r)
    BY <1>4, <1>5, <1>6, <1>7, <2>3, <2>5 DEF Beaten, n, Q
  <2>7. QED
    BY <2>6 DEF m, n, Q
<1>8. CASE ~(n <= Q)
  <2>1. m = Q /\ Q \in 1 .. n
    BY <1>1, <1>2, <1>8
  <2>2. SubSeq(s, 1, Q) \o SubSeq(s, Q + 1, n) = SubSeq(s, 1, n)
    BY <1>1, <2>1, ConcatAdjacentSubSeq
  <2>3. f \o r = s
    BY <2>1, <2>2, SubSeqFull DEF n
  <2>4. Len(r) # 0
    BY <1>1, <1>5, <1>8
  <2>5. r # << >>
    <3> HIDE DEF r
    <3>1. Len(<< >>) = 0
      OBVIOUS
    <3>2. QED
      BY <2>4, <3>1
  <2>6. Beaten(s, f, r)
    BY <1>4, <1>5, <1>6, <1>8, <2>1, <2>3, <2>5 DEF Beaten, n, Q
  <2>7. QED
    BY <2>6 DEF m, n, Q
<1>9. QED
  BY <1>7, <1>8

(* b goes on with a packet of q, of which open is there, and leaves rest.  *)
Continues(q, open, b, rest) ==
  /\ b \in Beats(Bytes) /\ b.sop = (open = << >>)
  /\ ~b.eop => Len(b.bytes) = QUEUE_DATA_BYTES /\ open \o b.bytes # << >>
  /\ b.eop => open \o b.bytes \in RxPayloads(q) /\ rest = << >>
  /\ ~b.eop => rest # << >>
               /\ \E n \in RxLengths : (open \o b.bytes) \o rest = Payload(q, n)

(* A beat of what is left of a packet goes on with that packet. *)
LEMMA Continued ==
  ASSUME NEW q \in QUEUES, NEW open \in Seq(Bytes), NEW s \in Seq(Bytes), s # << >>,
         NEW n \in RxLengths, open \o s = Payload(q, n),
         NEW bytes, NEW rest, Beaten(s, bytes, rest),
         NEW sop \in BOOLEAN, sop = (open = << >>)
  PROVE  Continues(q, open, [bytes |-> bytes, sop |-> sop,
                             eop |-> Len(s) <= QUEUE_DATA_BYTES], rest)
<1> DEFINE b == [bytes |-> bytes, sop |-> sop, eop |-> Len(s) <= QUEUE_DATA_BYTES]
<1>1. Len(s) \in Nat /\ QUEUE_DATA_BYTES \in Nat
  BY MasterDMAAssumption
<1>2. b \in Beats(Bytes) /\ b.bytes = bytes /\ b.sop = sop
      /\ b.eop = (Len(s) <= QUEUE_DATA_BYTES)
  BY <1>1 DEF Beats, Beaten
<1>3. bytes \in Seq(Bytes) /\ bytes # << >> /\ rest \in Seq(Bytes) /\ bytes \o rest = s
  BY DEF Beaten
<1> HIDE DEF b, Bytes
<1>4. (open \o bytes) \o rest = Payload(q, n)
  <2>1. (open \o bytes) \o rest = open \o (bytes \o rest)
    <3>1. open \in Seq(Bytes) /\ bytes \in Seq(Bytes) /\ rest \in Seq(Bytes)
      BY <1>3
    <3>2. Associates(open, bytes, rest)
      BY ONLY <3>1, Associative
    <3>3. QED
      BY <3>2 DEF Associates
  <2>2. QED
    BY <1>3, <2>1
<1>5. open \o bytes # << >>
  BY <1>3, LongerNotEmpty
<1>6. CASE b.eop
  <2>1. rest = << >>
    BY <1>2, <1>6 DEF Beaten
  <2>2. (open \o bytes) \o << >> = open \o bytes
    BY <1>3, ConcatProperties, ConcatEmptySeq
  <2>3. open \o bytes \in RxPayloads(q)
    BY <1>4, <2>1, <2>2 DEF RxPayloads
  <2>4. QED
    BY <1>2, <1>6, <2>1, <2>3 DEF Continues, b
<1>7. CASE ~b.eop
  <2>1. rest # << >> /\ Len(bytes) = QUEUE_DATA_BYTES
    BY <1>2, <1>7 DEF Beaten
  <2>2. QED
    BY <1>2, <1>4, <1>5, <1>7, <2>1 DEF Continues, b
<1>8. QED
  BY <1>6, <1>7

(* What Processing offers a queue goes on with the packet that the queue   *)
(* assembles, or begins one.                                               *)
LEMMA OfferFits ==
  ASSUME NEW q \in QUEUES, NEW p, NEW read,
         ReceiveQueue(q, p, read, rx_source[q]), rx_source[q] \in Seq(Bytes),
         NEW offer \in NextBeats(q)
  PROVE  Continues(q, Queued(p, read).open, offer.beat, offer.rest)
<1> DEFINE first(s) == SubSeq(s, 1, Min({QUEUE_DATA_BYTES, Len(s)}))
           rest(s) == SubSeq(s, QUEUE_DATA_BYTES + 1, Len(s))
           beatOf(s, sop) == [bytes |-> first(s), sop |-> sop,
                              eop |-> Len(s) <= QUEUE_DATA_BYTES]
           offered(s, sop) == [beat |-> beatOf(s, sop), rest |-> rest(s)]
           open == Queued(p, read).open
<1>1. \/ rx_source[q] # << >> /\ offer = offered(rx_source[q], FALSE)
      \/ rx_source[q] = << >> /\ \E n \in RxLengths : offer = offered(Payload(q, n), TRUE)
  BY DEF NextBeats
<1>2. open \in Seq(Bytes)
  BY QueuedType DEF ReceiveQueue, QueueSound
<1>3. MakesPacket(q, open, rx_source[q])
  BY DEF ReceiveQueue
<1>4. CASE rx_source[q] # << >> /\ offer = offered(rx_source[q], FALSE)
  <2>1. PICK n \in RxLengths : open \o rx_source[q] = Payload(q, n)
    BY <1>3, <1>4 DEF MakesPacket
  <2>2. FALSE = (open = << >>)
    BY <1>3, <1>4 DEF MakesPacket
  <2>3. Beaten(rx_source[q], first(rx_source[q]), rest(rx_source[q]))
    BY <1>4, BeatenBy
  <2> DEFINE s == rx_source[q]
             f == first(s)
             r == rest(s)
  <2>4. offer.beat = [bytes |-> f, sop |-> FALSE, eop |-> Len(s) <= QUEUE_DATA_BYTES]
        /\ offer.rest = r
    BY <1>4
  <2>5. Beaten(s, f, r) /\ s # << >> /\ s \in Seq(Bytes)
    BY <1>4, <2>3
  <2>6. open \o s = Payload(q, n)
    BY <2>1
  <2> HIDE DEF s, f, r, first, rest, open
  <2>7. Continues(q, open, [bytes |-> f, sop |-> FALSE,
                            eop |-> Len(s) <= QUEUE_DATA_BYTES], r)
    BY <1>2, <2>2, <2>5, <2>6, Continued
  <2>8. QED
    BY <2>4, <2>7 DEF open
<1>5. ASSUME rx_source[q] = << >>, NEW n \in RxLengths, offer = offered(Payload(q, n), TRUE)
      PROVE  Continues(q, Queued(p, read).open, offer.beat, offer.rest)
  <2> DEFINE s == Payload(q, n)
             f == first(s)
             r == rest(s)
  <2>1. s \in Seq(Bytes) /\ s # << >>
    <3>1. n \in Nat \ {0}
      BY SystemAssumption
    <3>2. Payload(q, n) \in Seq(Bytes) /\ Len(Payload(q, n)) = n
      BY <3>1, PayloadType DEF Bytes
    <3>3. QED
      BY <3>1, <3>2
  <2>2. open = << >>
    BY <1>3, <1>5 DEF MakesPacket
  <2>3. offer.beat = [bytes |-> f, sop |-> TRUE, eop |-> Len(s) <= QUEUE_DATA_BYTES]
        /\ offer.rest = r
    BY <1>5
  <2>4. Beaten(s, f, r)
    BY <2>1, BeatenBy
  <2>5. << >> \o s = s
    BY <2>1, ConcatEmptySeq
  <2>6. s = Payload(q, n)
    OBVIOUS
  <2> HIDE DEF s, f, r, first, rest, open
  <2>7. open \o s = Payload(q, n) /\ TRUE = (open = << >>) /\ TRUE \in BOOLEAN
    BY <2>2, <2>5, <2>6
  <2>8. Continues(q, open, [bytes |-> f, sop |-> TRUE,
                            eop |-> Len(s) <= QUEUE_DATA_BYTES], r)
    BY <1>2, <2>1, <2>4, <2>7, Continued
  <2>9. QED
    BY <2>3, <2>8 DEF open
<1>6. QED
  BY <1>1, <1>4, <1>5

-----------------------------------------------------------------------------
(* A beat offered to a queue.                                              *)

Taken(p, offer) == offer.beat # NoBeat /\ write_ready(p, offer.beat)

Written(p, offer) == IF Taken(p, offer) THEN WriteBeat(p, offer.beat) ELSE p

SourceLeft(p, offer, source) == IF Taken(p, offer) THEN offer.rest ELSE source

(* What is first in a queue stays first.                                   *)
KeepsFirst(p, w) ==
  /\ p.data # << >> => w.data # << >> /\ Head(w.data) = Head(p.data)
  /\ p.lengths # << >> => w.lengths # << >> /\ Head(w.lengths) = Head(p.lengths)

(* At most one more packet, if there is room for its length.               *)
Grows(q, old, new) ==
  new # old => Len(old) < DEPTH /\ \E x \in RxPayloads(q) : new = Append(old, x)

(* The first element stays the first when one is added. *)
LEMMA AppendKeeps ==
  ASSUME NEW S, NEW s \in Seq(S), NEW x, s # << >>
  PROVE  Append(s, x) # << >> /\ Head(Append(s, x)) = Head(s)
<1>1. Len(s) \in Nat \ {0} /\ Len(Append(s, x)) = Len(s) + 1
  OBVIOUS
<1>2. Append(s, x) # << >>
  <2> DEFINE t == Append(s, x)
  <2>1. Len(t) # 0
    BY <1>1
  <2> HIDE DEF t
  <2>2. Len(<< >>) = 0
    OBVIOUS
  <2>3. t # << >>
    BY <2>1, <2>2
  <2>4. QED
    BY <2>3 DEF t
<1>3. QED
  BY <1>2, HeadTailAppend

(* A beat that is offered and taken leaves the queue sound, what is first  *)
(* in it first, and adds at most a packet of those Processing sends.       *)
LEMMA QueueWritten ==
  ASSUME NEW q \in QUEUES, NEW p, NEW read, NEW source, ReceiveQueue(q, p, read, source),
         NEW offer, Continues(q, Queued(p, read).open, offer.beat, offer.rest),
         write_ready(p, offer.beat), NEW w, w = WriteBeat(p, offer.beat)
  PROVE  /\ ReceiveQueue(q, w, read, offer.rest) /\ KeepsFirst(p, w)
         /\ Grows(q, Queued(p, read).packets, Queued(w, read).packets)
<1> DEFINE b == offer.beat
           c == Queued(p, read)
           d == Queued(w, read)
           V == Seq(Bytes)
           open == c.open \o b.bytes
<1>1. QueueSound(p, read, Bytes) /\ BeatsFull(p.data)
  BY DEF ReceiveQueue
<1>2. b \in Beats(Bytes) /\ MarkedNext(p, read, b)
  BY DEF Continues, MarkedNext
<1>3. QueueSound(w, read, Bytes) /\ d = With(c, b)
  BY <1>1, <1>2, QueueWrite
<1>4. b.eop \in BOOLEAN /\ b.bytes \in V
  BY <1>2 DEF Beats
<1>5. p.data \in Seq(Beats(Bytes)) /\ w.data = Append(p.data, b)
      /\ w.lengths = IF b.eop THEN Append(p.lengths, (IF b.sop THEN 0 ELSE p.assembling_length)
                                                       + Len(b.bytes))
                     ELSE p.lengths
  BY <1>1 DEF QueueSound, WriteBeat
<1>6. c.packets \in Seq(V) /\ c.open \in V /\ p.lengths = LengthsIn(c.packets)
  BY <1>1, QueuedType DEF QueueSound
<1>7. p.lengths \in Seq(Nat) /\ Len(p.lengths) = Len(c.packets)
  <2> DEFINE packets == c.packets
  <2>1. packets \in Seq(V)
    BY <1>6
  <2>2. /\ Len(packets) \in Nat /\ DOMAIN packets = 1 .. Len(packets)
        /\ \A i \in 1 .. Len(packets) : Len(packets[i]) \in Nat
    BY <2>1
  <2>3. p.lengths = [i \in 1 .. Len(packets) |-> Len(packets[i])]
    BY <1>6, <2>2 DEF LengthsIn
  <2> HIDE DEF packets
  <2>4. QED
    BY <2>2, <2>3 DEF packets
<1>8. BeatsFull(w.data)
  <2> DEFINE data == p.data
             more == w.data
             n == Len(p.data)
  <2>1. n \in Nat /\ DOMAIN data = 1 .. n /\ DOMAIN more = 1 .. n + 1
        /\ more[n + 1] = b /\ \A i \in 1 .. n : more[i] = data[i]
    BY <1>2, <1>5, AppendProperties, LenProperties
  <2>2. \A i \in 1 .. n : ~data[i].eop => Len(data[i].bytes) = QUEUE_DATA_BYTES
    BY <1>1, <2>1 DEF BeatsFull
  <2>3. ~b.eop => Len(b.bytes) = QUEUE_DATA_BYTES
    BY DEF Continues
  <2> HIDE DEF data, more, n, b
  <2>4. \A i \in 1 .. n + 1 : i \in 1 .. n \/ i = n + 1
    BY <2>1
  <2>5. \A i \in 1 .. n + 1 : ~more[i].eop => Len(more[i].bytes) = QUEUE_DATA_BYTES
    BY <2>1, <2>2, <2>3, <2>4
  <2>6. QED
    BY <2>1, <2>5 DEF BeatsFull, more
<1>9. KeepsFirst(p, w)
  <2>1. p.data # << >> => w.data # << >> /\ Head(w.data) = Head(p.data)
    BY <1>5, AppendKeeps
  <2> DEFINE n == (IF b.sop THEN 0 ELSE p.assembling_length) + Len(b.bytes)
  <2>2. w.lengths = IF b.eop THEN Append(p.lengths, n) ELSE p.lengths
    BY <1>5
  <2> HIDE DEF n, b
  <2>3. p.lengths # << >> => w.lengths # << >> /\ Head(w.lengths) = Head(p.lengths)
    BY <1>7, <2>2, AppendKeeps
  <2>4. QED
    BY <2>1, <2>3 DEF KeepsFirst
<1>10. /\ d.packets = IF b.eop THEN Append(c.packets, open) ELSE c.packets
       /\ d.open = IF b.eop THEN << >> ELSE open
  BY <1>3, <1>4 DEF With
<1>11. Grows(q, c.packets, d.packets)
  <2>1. CASE b.eop
    <3>1. open \in RxPayloads(q)
      BY <2>1 DEF Continues
    <3>2. Len(c.packets) < DEPTH
      BY <1>7, <2>1 DEF write_ready
    <3>3. QED
      BY <1>10, <2>1, <3>1, <3>2 DEF Grows
  <2>2. CASE ~b.eop
    BY <1>10, <2>2 DEF Grows
  <2>3. QED
    BY <2>1, <2>2
<1>12. MakesPacket(q, d.open, offer.rest)
  <2>1. CASE b.eop
    BY <1>10, <2>1 DEF Continues, MakesPacket
  <2>2. CASE ~b.eop
    BY <1>10, <2>2 DEF Continues, MakesPacket
  <2>3. QED
    BY <2>1, <2>2
<1>13. QED
  BY <1>3, <1>8, <1>9, <1>11, <1>12 DEF ReceiveQueue

(* One edge of a receive queue, as far as what comes in.                   *)
LEMMA QueueOffered ==
  ASSUME NEW q \in QUEUES, NEW p, NEW read,
         ReceiveQueue(q, p, read, rx_source[q]), rx_source[q] \in Seq(Bytes),
         NEW offer \in NextBeats(q) \cup {NoOffer}
  PROVE  /\ ReceiveQueue(q, Written(p, offer), read, SourceLeft(p, offer, rx_source[q]))
         /\ KeepsFirst(p, Written(p, offer))
         /\ Grows(q, Queued(p, read).packets, Queued(Written(p, offer), read).packets)
<1>1. CASE Taken(p, offer)
  <2>1. offer \in NextBeats(q)
    BY <1>1 DEF Taken, NoOffer
  <2>2. Continues(q, Queued(p, read).open, offer.beat, offer.rest)
    BY <2>1, OfferFits
  <2>3. Written(p, offer) = WriteBeat(p, offer.beat) /\ write_ready(p, offer.beat)
        /\ SourceLeft(p, offer, rx_source[q]) = offer.rest
    BY <1>1 DEF Taken, Written, SourceLeft
  <2>4. QED
    BY <2>2, <2>3, QueueWritten
<1>2. CASE ~Taken(p, offer)
  BY <1>2 DEF Written, SourceLeft, KeepsFirst, Grows
<1>3. QED
  BY <1>1, <1>2

-----------------------------------------------------------------------------
(* The engine.                                                             *)

Numbers ==
  /\ transfer.address = Len(host) /\ transfer.remaining \in Nat
  /\ transfer.address + transfer.remaining = command.length
  /\ transfer.first_beat = (host = << >>)

EngineNow ==
  /\ EngineShape
  /\ Busy /\ ToHost => Numbers
  /\ completion_valid /\ ToHost => Len(host) = command.length
  /\ dma_error = FALSE

Pops(q) == queue_input_ready /\ queue = q /\ read_valid(rx_queue[q])

HeldPops(q, h) ==
  /\ HeldBy(q) = Begun(HeldBy(q).open)
  /\ HeldBy(q)' = IF h.eop THEN Whole(HeldBy(q).open \o h.bytes)
                  ELSE Begun(HeldBy(q).open \o h.bytes)

HeldDrops(q) ==
  completion_valid /\ HeldBy(q) = Whole(host) /\ HeldBy(q)' = NoPackets

HeldMoves(q) ==
  IF Pops(q) THEN HeldPops(q, Head(rx_queue[q].data))
  ELSE HeldBy(q)' = HeldBy(q) \/ HeldDrops(q)

EngineMoves == EngineNow' /\ \A q \in QUEUES : HeldMoves(q)

(* A beat that is next for the engine.                                     *)
NextIn(h, read) ==
  /\ h.bytes \in Seq(Bytes) \ {<< >>} /\ h.eop \in BOOLEAN
  /\ h.sop = (read = << >>)
  /\ ~h.eop => Len(h.bytes) = QUEUE_DATA_BYTES

(* The engine takes a command: it has nothing of its packet yet. *)
LEMMA MoveAccept ==
  ASSUME EngineNow, CommandHolds, command_valid, command' = command,
         command.length \in Accepted, state = "IDLE", ~completion_valid,
         AcceptCommand(command)
  PROVE  EngineMoves
<1>1. /\ queue' = command.queue /\ direction' = command.direction
      /\ host' = command.bytes /\ completion_valid' = FALSE /\ beat' = beat
      /\ transfer' = [address |-> 0, remaining |-> command.length,
                      sop |-> command.sop, eop |-> command.eop, first_beat |-> TRUE]
      /\ state' = IF command.direction = "queue to host" THEN "WAIT_QUEUE"
                  ELSE "READ_ADDRESS"
      /\ dma_error' = FALSE
  BY DEF AcceptCommand, Accepted, EngineNow
<1>2. ToHost' => command.bytes = << >>
  BY <1>1 DEF ToHost, CommandHolds
<1>3. command.length \in Nat /\ command.queue \in QUEUES
  BY DEF Accepted, CommandHolds
<1>4. << >> \in Seq(Bytes) /\ Len(<< >>) = 0
  OBVIOUS
<1> DEFINE n == command.length
<1>10. /\ DOMAIN transfer' = {"address", "remaining", "sop", "eop", "first_beat"}
       /\ transfer'.address = 0 /\ transfer'.remaining = n /\ transfer'.first_beat = TRUE
       /\ command'.length = n
  BY <1>1
<1>11. DOMAIN beat' = {"low", "high", "eop"} /\ queue' \in QUEUES
  BY <1>1, <1>3 DEF EngineNow, EngineShape
<1>12. ToHost' = (command.direction = "queue to host")
  BY <1>1 DEF ToHost
<1>5. EngineShape'
  <2>1. CASE command.direction = "queue to host"
    <3>1. /\ ToHost' = TRUE /\ host' = << >> /\ state' = "WAIT_QUEUE"
          /\ completion_valid' = FALSE
      BY <1>1, <1>2, <1>12, <2>1
    <3>2. QED
      BY <1>4, <1>10, <1>11, <3>1 DEF EngineShape, Busy
  <2>2. CASE command.direction # "queue to host"
    <3>1. ToHost' = FALSE /\ state' = "READ_ADDRESS" /\ completion_valid' = FALSE
      BY <1>1, <1>12, <2>2
    <3>2. QED
      BY <1>10, <1>11, <3>1 DEF EngineShape, Busy
  <2>3. QED
    BY <2>1, <2>2
<1>6. ToHost' => Numbers'
  <2> HIDE DEF n
  <2>1. n \in Nat
    BY <1>3 DEF n
  <2>2. ToHost' => host' = << >>
    BY <1>1, <1>2
  <2>3. ASSUME ToHost'
        PROVE  Numbers'
    <3>1. host' = << >> /\ Len(host') = 0 /\ (host' = << >>) = TRUE
      BY <1>4, <2>2, <2>3
    <3>2. transfer'.first_beat = (host' = << >>)
      BY <1>10, <3>1
    <3>3. transfer'.address + transfer'.remaining = command'.length
      BY <1>10, <2>1
    <3>4. transfer'.address = Len(host') /\ transfer'.remaining \in Nat
      BY <1>10, <2>1, <3>1
    <3>5. QED
      BY <3>2, <3>3, <3>4 DEF Numbers
  <2>4. QED
    BY <2>3
<1>7. EngineNow'
  BY <1>1, <1>5, <1>6 DEF EngineNow
<1>8. ASSUME NEW q \in QUEUES
      PROVE  HeldMoves(q)
  <2>1. HeldBy(q) = NoPackets
    BY DEF HeldBy, Busy
  <2>2. HeldBy(q)' = NoPackets
    BY <1>1, <1>2 DEF HeldBy, Busy, ToHost, Begun, NoPackets
  <2>3. ~Pops(q)
    BY DEF Pops, queue_input_ready
  <2>4. QED
    BY <2>1, <2>2, <2>3 DEF HeldMoves
<1>9. QED
  BY <1>7, <1>8 DEF EngineMoves

(* The engine waits: it has what it had, or has handed it over. *)
LEMMA MoveStay ==
  ASSUME EngineNow, Stay, Busy => command' = command,
         queue_input_ready => ~read_valid(rx_queue[queue])
  PROVE  EngineMoves
<1>1. /\ state' = state /\ direction' = direction /\ queue' = queue
      /\ transfer' = transfer /\ beat' = beat /\ dma_error' = dma_error
      /\ host' = host /\ completion_valid' = FALSE
  BY DEF Stay
<1>2. EngineNow'
  BY <1>1 DEF EngineNow, EngineShape, Numbers, Busy, ToHost, HasLow, HasBeat
<1>3. ASSUME NEW q \in QUEUES
      PROVE  HeldMoves(q)
  <2>1. ~Pops(q)
    BY DEF Pops
  <2>2. CASE completion_valid
    <3>1. HeldBy(q)' = NoPackets
      BY <1>1, <2>2 DEF HeldBy, EngineNow, EngineShape, Busy
    <3>2. HeldBy(q) = NoPackets \/ HeldBy(q) = Whole(host)
      BY <2>2 DEF HeldBy
    <3>3. QED
      BY <2>1, <2>2, <3>1, <3>2 DEF HeldMoves, HeldDrops
  <2>3. CASE ~completion_valid
    <3>1. HeldBy(q)' = HeldBy(q)
      BY <1>1, <2>3 DEF HeldBy, Busy, ToHost
    <3>2. QED
      BY <2>1, <3>1 DEF HeldMoves
  <2>4. QED
    BY <2>2, <2>3
<1>4. QED
  BY <1>2, <1>3 DEF EngineMoves

(* The engine takes the first of two beats of the queue. *)
LEMMA MoveWait ==
  ASSUME EngineNow, state = "WAIT_QUEUE", command' = command,
         read_valid(rx_queue[queue]), NEW h, h = Head(rx_queue[queue].data),
         NextIn(h, host), WaitQueue(h)
  PROVE  EngineMoves
<1>1. /\ beat' = [low |-> h.bytes, high |-> << >>, eop |-> h.eop]
      /\ dma_error' = (dma_error \/ transfer.first_beat # h.sop)
      /\ state' = IF h.eop THEN "WRITE_ADDRESS" ELSE "WAIT_QUEUE_SECOND"
      /\ completion_valid' = FALSE
      /\ direction' = direction /\ queue' = queue /\ transfer' = transfer /\ host' = host
  BY DEF WaitQueue
<1>2. ToHost /\ Busy /\ Numbers /\ host \in Seq(Bytes) /\ ~completion_valid
  BY DEF EngineNow, EngineShape, Busy
<1>3. dma_error' = FALSE
  BY <1>1, <1>2 DEF EngineNow, Numbers, NextIn
<1>4. h.bytes \in Seq(Bytes) \ {<< >>} /\ h.eop \in BOOLEAN /\ << >> \in Seq(Bytes)
      /\ (~h.eop => Len(h.bytes) = QUEUE_DATA_BYTES)
  BY DEF NextIn
<1>5. EngineShape'
  BY <1>1, <1>2, <1>4 DEF EngineNow, EngineShape, Busy, ToHost, HasLow, HasBeat
<1>6. EngineNow'
  BY <1>1, <1>2, <1>3, <1>5 DEF EngineNow, Numbers
<1>7. ASSUME NEW q \in QUEUES
      PROVE  HeldMoves(q)
  <2>1. CASE queue = q
    <3>1. HeldBy(q) = Begun(host)
      BY <1>2, <2>1 DEF HeldBy
    <3>2. HeldBy(q).open = host
      BY <3>1 DEF Begun
    <3>3. h.bytes \o << >> = h.bytes
      BY <1>4, ConcatEmptySeq
    <3>4. HeldBy(q)' = IF h.eop THEN Whole(host \o h.bytes) ELSE Begun(host \o h.bytes)
      <4>1. ToHost' /\ Busy' /\ ~completion_valid' /\ queue' = q
            /\ beat'.low = h.bytes /\ beat'.high = << >> /\ beat'.eop = h.eop
        BY <1>1, <1>2, <2>1 DEF ToHost, Busy
      <4>2. CASE h.eop
        BY <1>1, <3>3, <4>1, <4>2 DEF HeldBy
      <4>3. CASE ~h.eop
        BY <1>1, <4>1, <4>3 DEF HeldBy
      <4>4. QED
        BY <4>2, <4>3
    <3>5. Pops(q)
      BY <2>1 DEF Pops, queue_input_ready
    <3>6. QED
      BY <2>1, <3>1, <3>2, <3>4, <3>5 DEF HeldMoves, HeldPops
  <2>2. CASE queue # q
    <3>1. HeldBy(q)' = HeldBy(q) /\ ~Pops(q)
      BY <1>1, <2>2 DEF HeldBy, Pops
    <3>2. QED
      BY <3>1 DEF HeldMoves
  <2>3. QED
    BY <2>1, <2>2
<1>8. QED
  BY <1>6, <1>7 DEF EngineMoves

(* The engine takes the second of two beats of the queue. *)
LEMMA MoveWaitSecond ==
  ASSUME EngineNow, state = "WAIT_QUEUE_SECOND", command' = command,
         read_valid(rx_queue[queue]), NEW h, h = Head(rx_queue[queue].data),
         NextIn(h, host \o beat.low), WaitQueueSecond(h)
  PROVE  EngineMoves
<1>1. ToHost /\ Busy /\ Numbers /\ host \in Seq(Bytes) /\ ~completion_valid /\ HasLow
      /\ DOMAIN beat = {"low", "high", "eop"}
  BY DEF EngineNow, EngineShape, Busy
<1>2. /\ beat'.low = beat.low /\ beat'.high = h.bytes /\ beat'.eop = h.eop
      /\ DOMAIN beat' = {"low", "high", "eop"}
      /\ dma_error' = (dma_error \/ h.sop)
      /\ state' = "WRITE_ADDRESS"
      /\ completion_valid' = FALSE
      /\ direction' = direction /\ queue' = queue /\ transfer' = transfer /\ host' = host
  BY <1>1 DEF WaitQueueSecond
<1>3. beat.low \in Seq(Bytes) /\ beat.low # << >> /\ Len(beat.low) = QUEUE_DATA_BYTES
  <2>1. QUEUE_DATA_BYTES # 0 /\ Len(<< >>) = 0
    BY MasterDMAAssumption
  <2>2. QED
    BY <1>1, <2>1 DEF HasLow
<1>4. dma_error' = FALSE
  <2>1. host \o beat.low # << >>
    BY <1>1, <1>3, LongerNotEmpty
  <2>2. QED
    BY <1>2, <2>1 DEF EngineNow, NextIn
<1>5. h.bytes \in Seq(Bytes) \ {<< >>} /\ h.eop \in BOOLEAN
  BY DEF NextIn
<1>6. EngineShape'
  BY <1>1, <1>2, <1>3, <1>5 DEF EngineNow, EngineShape, Busy, ToHost, HasLow, HasBeat
<1>7. EngineNow'
  BY <1>1, <1>2, <1>4, <1>6 DEF EngineNow, Numbers
<1>8. ASSUME NEW q \in QUEUES
      PROVE  HeldMoves(q)
  <2>1. CASE queue = q
    <3>1. HeldBy(q) = Begun(host \o beat.low)
      BY <1>1, <2>1 DEF HeldBy
    <3>2. HeldBy(q).open = host \o beat.low
      BY <3>1 DEF Begun
    <3>3. (host \o beat.low) \o h.bytes = host \o (beat.low \o h.bytes)
      <4>1. host \in Seq(Bytes) /\ beat.low \in Seq(Bytes) /\ h.bytes \in Seq(Bytes)
        BY <1>1, <1>3, <1>5
      <4>2. Associates(host, beat.low, h.bytes)
        BY ONLY <4>1, Associative
      <4>3. QED
        BY <4>2 DEF Associates
    <3>4. HeldBy(q)' = IF h.eop THEN Whole(host \o (beat.low \o h.bytes))
                       ELSE Begun(host \o (beat.low \o h.bytes))
      <4>1. ToHost' /\ Busy' /\ ~completion_valid' /\ queue' = q
        BY <1>1, <1>2, <2>1 DEF ToHost, Busy
      <4>2. QED
        BY <1>2, <4>1 DEF HeldBy
    <3>5. Pops(q)
      BY <2>1 DEF Pops, queue_input_ready
    <3>6. QED
      BY <2>1, <3>1, <3>2, <3>3, <3>4, <3>5 DEF HeldMoves, HeldPops
  <2>2. CASE queue # q
    <3>1. HeldBy(q)' = HeldBy(q) /\ ~Pops(q)
      BY <1>2, <2>2 DEF HeldBy, Pops
    <3>2. QED
      BY <3>1 DEF HeldMoves
  <2>3. QED
    BY <2>1, <2>2
<1>9. QED
  BY <1>7, <1>8 DEF EngineMoves

(* What is written fits what is left of the packet.                        *)
Fits == /\ kept_bytes <= transfer.remaining
        /\ beat.eop => kept_bytes = transfer.remaining

(* The engine writes the beat behind what is in the buffer: the gap and    *)
(* length checks of the write (master_dma's dma_error) never fire.         *)
LEMMA MoveWrite ==
  ASSUME EngineNow, state = "WRITE_ADDRESS", command' = command, Fits, WriteAddress
  PROVE  EngineMoves
<1>1. ToHost /\ Busy /\ Numbers /\ host \in Seq(Bytes) /\ ~completion_valid /\ HasBeat
  BY DEF EngineNow, EngineShape, Busy
<1> DEFINE w == HostWritten
           k == kept_bytes
<1>2. /\ w = host \o (beat.low \o beat.high) /\ w \in Seq(Bytes) /\ w # << >>
      /\ k \in Nat \ {0} /\ Len(w) = Len(host) + k /\ ~keep_gap
  BY <1>1, Appended DEF EngineNow, Numbers
<1>3. /\ host' = w /\ direction' = direction /\ queue' = queue /\ beat' = beat
      /\ dma_error' = \/ dma_error \/ keep_gap \/ k = 0 \/ k > transfer.remaining
                      \/ beat.eop /\ k # transfer.remaining
      /\ beat.eop => state' = "IDLE" /\ completion_valid' = TRUE /\ transfer' = transfer
      /\ ~beat.eop => /\ state' = "WAIT_QUEUE" /\ completion_valid' = FALSE
                      /\ transfer' = Advance(k)
  BY DEF WriteAddress
<1> HIDE DEF w, k
<1>4. transfer.remaining \in Nat /\ transfer.address \in Nat /\ Len(host) \in Nat
      /\ transfer.address = Len(host)
      /\ transfer.address + transfer.remaining = command.length
  BY <1>1 DEF Numbers
<1>5. k <= transfer.remaining /\ (beat.eop => k = transfer.remaining)
  BY DEF Fits, k
<1>6. dma_error' = FALSE
  BY <1>2, <1>3, <1>4, <1>5 DEF EngineNow
<1>7. beat.eop \in BOOLEAN
  BY <1>1 DEF HasBeat
<1>8. CASE beat.eop
  <2>1. EngineShape'
    BY <1>2, <1>3, <1>8 DEF EngineNow, EngineShape, Busy, ToHost
  <2>2. Len(host') = command'.length
    BY <1>2, <1>3, <1>4, <1>5, <1>8
  <2>3. ~Busy'
    BY <1>3, <1>8 DEF Busy
  <2>4. EngineNow'
    BY <1>6, <2>1, <2>2, <2>3 DEF EngineNow
  <2>5. ASSUME NEW q \in QUEUES
        PROVE  HeldMoves(q)
    <3>1. ~Pops(q)
      BY DEF Pops, queue_input_ready
    <3>2. HeldBy(q)' = HeldBy(q)
      BY <1>1, <1>2, <1>3, <1>8 DEF HeldBy, Busy, ToHost
    <3>3. QED
      BY <3>1, <3>2 DEF HeldMoves
  <2>6. QED
    BY <2>4, <2>5 DEF EngineMoves
<1>9. CASE ~beat.eop
  <2>1. transfer' = [transfer EXCEPT !.address = @ + k, !.remaining = @ - k,
                                     !.first_beat = FALSE]
    BY <1>3, <1>9 DEF Advance
  <2>2. /\ DOMAIN transfer' = {"address", "remaining", "sop", "eop", "first_beat"}
        /\ transfer'.address = transfer.address + k
        /\ transfer'.remaining = transfer.remaining - k
        /\ transfer'.first_beat = FALSE
    BY <2>1 DEF EngineNow, EngineShape
  <2>3. EngineShape'
    BY <1>1, <1>2, <1>3, <1>9, <2>2 DEF EngineNow, EngineShape, Busy, ToHost
  <2>4. Numbers'
    <3>1. transfer'.remaining \in Nat
      BY <1>2, <1>4, <1>5, <2>2
    <3>2. transfer'.address = Len(host')
      BY <1>2, <1>3, <1>4, <2>2
    <3>3. transfer'.address + transfer'.remaining = command'.length
      BY <1>2, <1>4, <2>2
    <3>4. transfer'.first_beat = (host' = << >>)
      BY <1>2, <1>3, <2>2
    <3>5. QED
      BY <3>1, <3>2, <3>3, <3>4 DEF Numbers
  <2>5. EngineNow'
    BY <1>3, <1>6, <1>9, <2>3, <2>4 DEF EngineNow
  <2>6. ASSUME NEW q \in QUEUES
        PROVE  HeldMoves(q)
    <3>1. ~Pops(q)
      BY DEF Pops, queue_input_ready
    <3>2. HeldBy(q)' = HeldBy(q)
      BY <1>1, <1>2, <1>3, <1>9 DEF HeldBy, Busy, ToHost
    <3>3. QED
      BY <3>1, <3>2 DEF HeldMoves
  <2>7. QED
    BY <2>5, <2>6 DEF EngineMoves
<1>10. QED
  BY <1>7, <1>8, <1>9

(* The other way, the engine has nothing of the packets to the host.       *)
LEMMA MoveOut ==
  ASSUME EngineNow, state \in {"READ_ADDRESS", "READ_DATA", "SEND_QUEUE", "SEND_QUEUE_SECOND"},
         ReadAddress \/ ReadData \/ SendQueue \/ SendQueueSecond
  PROVE  EngineMoves
<1>1. ~ToHost
  BY DEF EngineNow, EngineShape, Busy
<1>2. /\ direction' = direction /\ queue' = queue /\ dma_error' = dma_error
      /\ DOMAIN beat' = {"low", "high", "eop"}
      /\ DOMAIN transfer' = {"address", "remaining", "sop", "eop", "first_beat"}
      /\ completion_valid' \in BOOLEAN
      /\ Busy' => ~completion_valid'
      /\ state' \in {"IDLE", "READ_ADDRESS", "READ_DATA", "SEND_QUEUE", "SEND_QUEUE_SECOND"}
  <2>1. DOMAIN beat = {"low", "high", "eop"}
        /\ DOMAIN transfer = {"address", "remaining", "sop", "eop", "first_beat"}
    BY DEF EngineNow, EngineShape
  <2>2. CASE ReadAddress
    BY <2>1, <2>2 DEF ReadAddress
  <2>3. CASE ReadData
    BY <2>1, <2>3 DEF ReadData
  <2>4. CASE SendQueue
    BY <2>1, <2>4 DEF SendQueue, Busy
  <2>5. CASE SendQueueSecond
    BY <2>1, <2>5 DEF SendQueueSecond, Busy, Advance
  <2>6. QED
    BY <2>2, <2>3, <2>4, <2>5
<1>3. ~ToHost'
  BY <1>1, <1>2 DEF ToHost
<1>4. EngineNow'
  <2>1. queue' \in QUEUES /\ dma_error' = FALSE
    BY <1>2 DEF EngineNow, EngineShape
  <2>2. Busy' => (ToHost' <=> state' \in {"WAIT_QUEUE", "WAIT_QUEUE_SECOND", "WRITE_ADDRESS"})
    BY <1>2, <1>3 DEF Busy, ToHost
  <2>3. EngineShape'
    BY <1>2, <1>3, <2>1, <2>2 DEF EngineShape
  <2>4. QED
    BY <1>3, <2>1, <2>3 DEF EngineNow
<1>5. \A q \in QUEUES : HeldMoves(q)
  BY <1>1, <1>3 DEF HeldMoves, HeldBy, Pops, queue_input_ready
<1>6. QED
  BY <1>4, <1>5 DEF EngineMoves

-----------------------------------------------------------------------------
(* Paths.                                                                  *)

DataSound == \A q \in QUEUES : rx_queue[q].data \in Seq(Beats(Bytes))

PathSound ==
  \A q \in QUEUES :
     /\ Held(q) \in [packets : Seq(Seq(Bytes)), open : Seq(Bytes)]
     /\ RxPackets(q) = Held(q).packets \o Queued(rx_queue[q], Held(q).open).packets

(* The packets on the way to the host are the engine's and then the        *)
(* queue's.                                                                *)
LEMMA PathIs == HeldSound /\ DataSound => PathSound
<1>1. SUFFICES ASSUME HeldSound, DataSound, NEW q \in QUEUES
               PROVE  /\ Held(q) \in [packets : Seq(Seq(Bytes)), open : Seq(Bytes)]
                      /\ RxPackets(q) =
                           Held(q).packets \o Queued(rx_queue[q], Held(q).open).packets
  BY DEF PathSound
<1>2. /\ InEngine(q) \in Seq(Pieces(Bytes)) /\ Reader(InEngine(q))
      /\ rx_queue[q].data \in Seq(Beats(Bytes))
  BY <1>1 DEF HeldSound, DataSound
<1>3. Held(q) \in [packets : Seq(Seq(Bytes)), open : Seq(Bytes)]
  BY <1>2, PiecesCarry, CutType DEF Held
<1>4. Cutting(InEngine(q) \o rx_queue[q].data).packets =
        Cutting(InEngine(q)).packets
          \o Queued(rx_queue[q], Cutting(InEngine(q)).open).packets
  BY <1>2, PathSplits
<1>5. QED
  BY <1>3, <1>4 DEF RxPackets, Cut, Held

(* The same after the edge. *)
LEMMA PathIsNext == HeldSound' /\ DataSound' => PathSound'
BY PathIs, PTL

(* All this holds where the invariant does. *)
LEMMA SoundNow == ReceiveInv => HeldSound /\ DataSound /\ PathSound
<1>1. ReceiveInv => HeldSound
  BY HeldIs DEF ReceiveInv, EngineHolds
<1>2. ReceiveInv => DataSound
  BY DEF ReceiveInv, ReceiveQueue, QueueSound, DataSound
<1>3. QED
  BY <1>1, <1>2, PathIs

-----------------------------------------------------------------------------
(* A beat read from a queue.                                               *)

(* h is the beat to be read of queue w, of which read was read before: one  *)
(* the engine accepts, and the last of the first packet if of any.         *)
Popped(q, w, read, source, h) ==
  /\ NextIn(h, read)
  /\ ReceiveQueue(q, ReadBeat(w), ReadOn(read, h), source)
  /\ Queued(w, read).packets # << >>
  /\ h.eop => Head(Queued(w, read).packets) = read \o h.bytes
  /\ Queued(ReadBeat(w), ReadOn(read, h)).packets =
       IF h.eop THEN Tail(Queued(w, read).packets) ELSE Queued(w, read).packets

(* A beat that is read is one the engine accepts, and leaves the queue     *)
(* sound.                                                                  *)
LEMMA QueuePopped ==
  ASSUME NEW q \in QUEUES, NEW w, NEW read, NEW source, ReceiveQueue(q, w, read, source),
         w.data # << >>, w.lengths # << >>, NEW h, h = Head(w.data)
  PROVE  Popped(q, w, read, source, h)
<1>1. QueueSound(w, read, Bytes) /\ BeatsFull(w.data)
      /\ MakesPacket(q, Queued(w, read).open, source)
  BY DEF ReceiveQueue
<1>12. BeatRead(w, read, h, Bytes)
  BY <1>1, QueueRead
<1> DEFINE r == ReadBeat(w)
           on == ReadOn(read, h)
           c == Queued(w, read)
           d == Queued(r, on)
<1>2. /\ h \in Beats(Bytes) /\ h.sop = (read = << >>)
      /\ h.eop => Head(c.packets) = read \o h.bytes
      /\ QueueSound(r, on, Bytes)
      /\ d.packets = (IF h.eop THEN Tail(c.packets) ELSE c.packets) /\ d.open = c.open
      /\ MakesPacket(q, c.open, source)
  BY <1>1, <1>12 DEF BeatRead
<1>3. w.data \in Seq(Beats(Bytes)) /\ r.data = Tail(w.data)
  BY <1>1 DEF QueueSound, ReadBeat
<1> DEFINE data == w.data
           rest == Tail(data)
           n == Len(data)
<1>4. /\ n \in Nat \ {0} /\ DOMAIN data = 1 .. n /\ DOMAIN rest = 1 .. n - 1
      /\ h = data[1] /\ \A i \in 1 .. n - 1 : rest[i] = data[i + 1]
  BY <1>3, HeadTailProperties, LenProperties
<1>5. \A i \in 1 .. n : ~data[i].eop => Len(data[i].bytes) = QUEUE_DATA_BYTES
  BY <1>1, <1>4 DEF BeatsFull
<1>6. NextIn(h, read)
  <2>1. ~h.eop => Len(h.bytes) = QUEUE_DATA_BYTES
    BY <1>4, <1>5
  <2>2. QED
    BY <1>2, <2>1 DEF NextIn, Beats
<1>7. BeatsFull(r.data)
  <2> HIDE DEF n, data, rest
  <2>1. \A i \in 1 .. n - 1 : i + 1 \in 1 .. n
    BY <1>4
  <2>2. \A i \in 1 .. n - 1 : ~rest[i].eop => Len(rest[i].bytes) = QUEUE_DATA_BYTES
    BY <1>4, <1>5, <2>1
  <2>3. r.data = rest
    BY <1>3 DEF rest, data
  <2>4. QED
    BY <1>4, <2>2, <2>3 DEF BeatsFull
<1>8. c.packets # << >>
  <2>1. w.lengths = LengthsIn(c.packets)
    BY <1>1 DEF QueueSound
  <2>2. LengthsIn(<< >>) = << >>
    BY DEF LengthsIn
  <2>3. QED
    BY <2>1, <2>2
<1> HIDE DEF c, d, r, on
<1>9. d.open = c.open /\ d.packets = IF h.eop THEN Tail(c.packets) ELSE c.packets
  BY <1>2
<1>10. ReceiveQueue(q, r, on, source)
  BY <1>1, <1>2, <1>7, <1>9 DEF ReceiveQueue, d
<1>11. QED
  BY <1>2, <1>6, <1>8, <1>9, <1>10 DEF c, d, r, on, Popped

-----------------------------------------------------------------------------
(* The engine at an edge.                                                  *)

(* What is there of a packet is not more than the packet.                  *)
LEMMA ReadFits ==
  ASSUME NEW q \in QUEUES, NEW p, NEW read \in Seq(Bytes), p.data \in Seq(Beats(Bytes)),
         Queued(p, read).packets # << >>
  PROVE  Len(read) <= Len(Head(Queued(p, read).packets))
<1> DEFINE S == Pieces(Bytes)
           e == << Part(read) >>
           data == p.data
<1>1. e \in Seq(S) /\ data \in Seq(S) /\ Carries(S, Bytes)
  BY PiecesCarry
<1>2. Cutting(e) = [packets |-> << >>, open |-> read]
  BY CutPart
<1>3. Begins(Cutting(e), read)
  <2>1. Cutting(e).packets = << >> /\ Cutting(e).open = read
    BY <1>2
  <2>2. Len(read) \in Nat
    OBVIOUS
  <2>3. QED
    BY <2>1, <2>2 DEF Begins
<1> HIDE DEF e, S, data
<1>4. Begins(Cutting(e \o data), read)
  BY <1>1, <1>3, CutBegins
<1>5. Queued(p, read) = Cutting(e \o data)
  BY DEF Queued, e, data
<1>6. Queued(p, read).packets \in Seq(Seq(Bytes))
  BY QueuedType
<1>7. Head(Queued(p, read).packets) = Queued(p, read).packets[1]
  BY <1>6
<1>8. QED
  BY <1>4, <1>5, <1>7 DEF Begins

(* What the engine is about to write is no more than is left of the        *)
(* packet, and all of it when it is the last: the packet is as long as     *)
(* the command said.                                                       *)
LEMMA FitsNow ==
  ASSUME ReceiveInv, state = "WRITE_ADDRESS"
  PROVE  Fits
<1> DEFINE x == host \o (beat.low \o beat.high)
           k == kept_bytes
           p == rx_queue[queue]
<1>1. ToHost /\ Busy /\ MidPacket /\ ~completion_valid /\ HasBeat /\ EngineShape
      /\ queue \in QUEUES /\ host \in Seq(Bytes)
  BY DEF ReceiveInv, EngineHolds, EngineShape, Busy
<1>2. x \in Seq(Bytes) /\ k \in Nat \ {0} /\ Len(x) = Len(host) + k
  BY <1>1, Appended DEF MidPacket
<1>3. Held(queue) = IF beat.eop THEN Whole(x) ELSE Begun(x)
  <2>1. Held(queue) = HeldBy(queue)
    BY <1>1, SoundNow DEF HeldSound
  <2>2. QED
    BY <1>1, <2>1 DEF HeldBy
<1>4. /\ RxPackets(queue) = Held(queue).packets \o Queued(p, Held(queue).open).packets
      /\ p.data \in Seq(Beats(Bytes))
      /\ Held(queue) \in [packets : Seq(Seq(Bytes)), open : Seq(Bytes)]
  BY <1>1, SoundNow DEF PathSound, DataSound
<1>5. /\ transfer.address = Len(host) /\ transfer.remaining \in Nat /\ Len(host) \in Nat
      /\ transfer.address + transfer.remaining = command.length
      /\ RxPackets(queue) # << >> /\ Len(Head(RxPackets(queue))) = command.length
  BY <1>1 DEF MidPacket
<1> HIDE DEF x, k, p
<1>6. beat.eop \in BOOLEAN
  BY <1>1 DEF HasBeat
<1>7. CASE beat.eop
  <2> DEFINE rest == Queued(p, Held(queue).open).packets
  <2>1. rest \in Seq(Seq(Bytes))
    BY <1>4, QueuedType
  <2>2. RxPackets(queue) = << x >> \o rest
    BY <1>3, <1>4, <1>7 DEF Whole
  <2> HIDE DEF rest
  <2>3. Head(<< x >> \o rest) = x
    BY <1>2, <2>1
  <2>4. Len(x) = command.length
    BY <1>5, <2>2, <2>3
  <2>5. k = transfer.remaining
    BY <1>2, <1>5, <2>4
  <2>6. QED
    BY <1>5, <2>5 DEF Fits, k
<1>8. CASE ~beat.eop
  <2>1. Held(queue).packets = << >> /\ Held(queue).open = x
    BY <1>3, <1>8 DEF Begun
  <2> DEFINE rest == Queued(p, x).packets
  <2>2. rest \in Seq(Seq(Bytes))
    BY <1>2, <1>4, QueuedType
  <2>3. RxPackets(queue) = rest
    <3>1. RxPackets(queue) = << >> \o rest
      BY <1>4, <2>1
    <3> HIDE DEF rest
    <3>2. QED
      BY <2>2, <3>1, ConcatEmptySeq
  <2>4. Len(x) <= Len(Head(rest))
    BY <1>1, <1>2, <1>4, <1>5, <2>3, ReadFits
  <2>5. k <= transfer.remaining
    BY <1>2, <1>5, <2>3, <2>4
  <2>6. QED
    BY <1>8, <2>5 DEF Fits, k
<1>9. QED
  BY <1>6, <1>7, <1>8

(* What the invariant says of the engine. *)
LEMMA EngineIsNow == ReceiveInv => EngineNow
BY DEF ReceiveInv, EngineHolds, EngineNow, MidPacket, Numbers

(* A command stays until it has completed.                                 *)
LEMMA CommandKept ==
  ASSUME ReceiveInv, NEW bus, NEW offers, NEW takes, NEW host_ready, NEW stale,
         Edge(bus, offers, takes, host_ready, stale), command_valid \/ dma_active
  PROVE  command' = command /\ command_valid' = FALSE
<1> DEFINE done == [valid |-> completion_valid, queue |-> queue, direction |-> direction]
           rx_empty == [q \in QUEUES |-> empty(rx_queue[q])]
           tx_full == [q \in QUEUES |-> full(tx_queue[q])]
           lengths == rx_packet_length(stale)
<1>1. Controller_work(bus, command_ready, done, rx_empty, lengths, tx_full)
  BY DEF Edge
<1> HIDE DEF done, rx_empty, tx_full, lengths
<1>2. IssueNothing(command_ready)
  BY <1>1 DEF Controller_work, MayIssue
<1>3. command_valid \in BOOLEAN /\ (command_valid => command_ready)
  BY DEF ReceiveInv, SystemInv, HandshakeHolds, OneCommand, Busy, command_ready
<1>4. QED
  BY <1>2, <1>3 DEF IssueNothing

(* At every edge the engine keeps what it has of packets, or takes a beat  *)
(* from its queue, or hands a packet over.                                 *)
LEMMA EngineAtEdge ==
  ASSUME ReceiveInv, NEW bus, NEW offers, NEW takes, NEW host_ready, NEW stale,
         Edge(bus, offers, takes, host_ready, stale)
  PROVE  EngineMoves
<1> DEFINE offered == IF command_valid THEN {command} ELSE {}
           p == rx_queue[queue]
           out_ready == write_ready(tx_queue[queue], out_beat(queue))
<1>1. MasterDMA_work(offered, selected_rx, out_ready, host_ready)
  BY DEF Edge
<1>2. EngineNow /\ CommandHolds
  BY EngineIsNow DEF ReceiveInv
<1>3. /\ state \in EngineStates /\ command_valid \in BOOLEAN
      /\ Busy => dma_active /\ ~completion_valid
      /\ command_valid => ~Busy /\ ~completion_valid /\ command.length \in Accepted
  BY DEF ReceiveInv, SystemInv, HandshakeHolds, OneCommand
<1>4. Busy \/ command_valid => command' = command
  BY <1>3, CommandKept
<1>5. selected_rx = IF read_valid(p) THEN {Head(p.data)} ELSE {}
  BY DEF selected_rx
<1>6. read_valid(p) => p.data # << >> /\ p.lengths # << >>
  BY DEF read_valid
<1>7. queue \in QUEUES /\ HeldSound /\ ReceiveQueue(queue, p, BytesRead(queue), rx_source[queue])
  BY SoundNow, <1>2 DEF ReceiveInv, EngineNow, EngineShape
<1>8. read_valid(p) => NextIn(Head(p.data), BytesRead(queue))
  <2>1. read_valid(p) => Popped(queue, p, BytesRead(queue), rx_source[queue], Head(p.data))
    <3> HIDE DEF p
    <3>1. QED
      BY <1>6, <1>7, QueuePopped
  <2>2. QED
    BY <2>1 DEF Popped
<1>9. BytesRead(queue) = HeldBy(queue).open
  BY <1>7 DEF HeldSound, BytesRead, Held
<1> HIDE DEF p, offered, out_ready
<1>10. CASE state = "IDLE"
  <2>1. \/ command_valid /\ AcceptCommand(command)
        \/ Stay
    BY <1>1, <1>3, <1>10 DEF MasterDMA_work, offered
  <2>2. ~Busy /\ ~queue_input_ready
    BY <1>10 DEF Busy, queue_input_ready
  <2>3. QED
    BY <1>2, <1>3, <1>4, <1>10, <2>1, <2>2, MoveAccept, MoveStay
<1>11. CASE state = "WAIT_QUEUE"
  <2>1. Busy /\ ToHost /\ command' = command /\ ~completion_valid
    BY <1>2, <1>3, <1>4, <1>11 DEF EngineNow, EngineShape, Busy
  <2>2. HeldBy(queue).open = host
    BY <1>11, <2>1 DEF HeldBy, Begun
  <2>3. IF read_valid(p) THEN WaitQueue(Head(p.data)) ELSE Stay
    BY <1>1, <1>5, <1>11 DEF MasterDMA_work
  <2>4. CASE read_valid(p)
    BY <1>2, <1>8, <1>9, <1>11, <2>1, <2>2, <2>3, <2>4, MoveWait DEF p
  <2>5. CASE ~read_valid(p)
    BY <1>2, <2>1, <2>3, <2>5, MoveStay DEF p
  <2>6. QED
    BY <2>4, <2>5
<1>12. CASE state = "WAIT_QUEUE_SECOND"
  <2>1. Busy /\ ToHost /\ command' = command /\ ~completion_valid
    BY <1>2, <1>3, <1>4, <1>12 DEF EngineNow, EngineShape, Busy
  <2>2. HeldBy(queue).open = host \o beat.low
    BY <1>12, <2>1 DEF HeldBy, Begun
  <2>3. IF read_valid(p) THEN WaitQueueSecond(Head(p.data)) ELSE Stay
    BY <1>1, <1>5, <1>12 DEF MasterDMA_work
  <2>4. CASE read_valid(p)
    BY <1>2, <1>8, <1>9, <1>12, <2>1, <2>2, <2>3, <2>4, MoveWaitSecond DEF p
  <2>5. CASE ~read_valid(p)
    BY <1>2, <2>1, <2>3, <2>5, MoveStay DEF p
  <2>6. QED
    BY <2>4, <2>5
<1>13. CASE state = "WRITE_ADDRESS"
  <2>1. command' = command /\ ~queue_input_ready
    BY <1>4, <1>13 DEF Busy, queue_input_ready
  <2>2. WriteAddress \/ Stay
    BY <1>1, <1>13 DEF MasterDMA_work
  <2>3. QED
    BY <1>2, <1>13, <2>1, <2>2, FitsNow, MoveWrite, MoveStay
<1>14. CASE state \in {"READ_ADDRESS", "READ_DATA", "SEND_QUEUE", "SEND_QUEUE_SECOND"}
  <2>1. command' = command /\ ~queue_input_ready
    BY <1>4, <1>14 DEF Busy, queue_input_ready
  <2>2. ReadAddress \/ ReadData \/ SendQueue \/ SendQueueSecond \/ Stay
    BY <1>1, <1>14 DEF MasterDMA_work
  <2>3. QED
    BY <1>2, <1>14, <2>1, <2>2, MoveOut, MoveStay
<1>15. QED
  BY <1>3, <1>10, <1>11, <1>12, <1>13, <1>14 DEF EngineStates

-----------------------------------------------------------------------------
(* The queues at an edge.                                                  *)

(* m are the packets of the queue with the beat that is offered: one that  *)
(* is read, with what the engine has, leaves all of them; else they are    *)
(* in the queue, and the engine keeps or has delivered what it has.        *)
QueueGoes(q) ==
  /\ ReceiveQueue(q, rx_queue'[q], BytesRead(q)', rx_source'[q])
  /\ \E m \in Seq(Seq(Bytes)) :
        /\ Grows(q, Queued(rx_queue[q], BytesRead(q)).packets, m)
        /\ \/ Held(q)'.packets \o Queued(rx_queue'[q], BytesRead(q)').packets =
                Held(q).packets \o m
           \/ /\ completion_valid /\ \E x \in Seq(Bytes) : Held(q).packets = << x >>
              /\ Held(q)'.packets = << >>
              /\ Queued(rx_queue'[q], BytesRead(q)').packets = m

(* A receive queue at an edge: written first, then read. *)
LEMMA RecordAtEdge ==
  ASSUME NEW bus, NEW offers, NEW takes, NEW host_ready, NEW stale,
         Edge(bus, offers, takes, host_ready, stale), NEW q \in QUEUES
  PROVE  /\ rx_queue'[q] = IF Pops(q) THEN ReadBeat(Written(rx_queue[q], offers[q]))
                           ELSE Written(rx_queue[q], offers[q])
         /\ rx_source'[q] = SourceLeft(rx_queue[q], offers[q], rx_source[q])
BY DEF Edge, QueueEdge, Pops, Written, SourceLeft, Taken

(* At every edge a receive queue stays sound, and no packet is lost        *)
(* between the queue and the engine.                                       *)
LEMMA QueueGoesOn ==
  ASSUME ReceiveInv, NEW bus, NEW offers \in Offers, NEW takes, NEW host_ready, NEW stale,
         Edge(bus, offers, takes, host_ready, stale), EngineMoves, HeldSound',
         NEW q \in QUEUES
  PROVE  QueueGoes(q)
<1> DEFINE p == rx_queue[q]
           read == BytesRead(q)
           w == Written(p, offers[q])
           source == SourceLeft(p, offers[q], rx_source[q])
           m == Queued(w, read).packets
           h == Head(p.data)
<1>1. HeldSound /\ PathSound /\ ReceiveQueue(q, p, read, rx_source[q])
  BY SoundNow DEF ReceiveInv
<1>2. rx_source[q] \in Seq(Bytes)
  BY DEF ReceiveInv, SystemInv, QueuesHold, QueueHolds, Bytes
<1>3. offers[q] \in NextBeats(q) \cup {NoOffer}
  BY DEF Offers
<1>4. /\ ReceiveQueue(q, w, read, source) /\ KeepsFirst(p, w)
      /\ Grows(q, Queued(p, read).packets, m)
  BY <1>1, <1>2, <1>3, QueueOffered
<1>5. m \in Seq(Seq(Bytes))
  BY <1>4, QueuedType DEF ReceiveQueue, QueueSound
<1>6. rx_queue'[q] = (IF Pops(q) THEN ReadBeat(w) ELSE w) /\ rx_source'[q] = source
  BY RecordAtEdge
<1>7. /\ Held(q) = HeldBy(q) /\ Held(q)' = HeldBy(q)' /\ HeldMoves(q)
      /\ read = HeldBy(q).open /\ BytesRead(q)' = HeldBy(q)'.open
  BY <1>1 DEF HeldSound, EngineMoves, BytesRead, Held
<1>8. Held(q) \in [packets : Seq(Seq(Bytes)), open : Seq(Bytes)]
  BY <1>1 DEF PathSound
<1> HIDE DEF p, w, source, m, h
<1>9. CASE Pops(q)
  <2>1. p.data # << >> /\ p.lengths # << >>
    BY <1>9 DEF Pops, read_valid, p
  <2>2. w.data # << >> /\ w.lengths # << >> /\ h = Head(w.data)
    BY <1>4, <2>1 DEF KeepsFirst, h
  <2>11. Popped(q, w, read, source, h)
    <3> HIDE DEF read
    <3>1. ReceiveQueue(q, w, read, source)
      BY <1>4
    <3>2. QED
      BY <2>2, <3>1, QueuePopped
  <2>3. /\ NextIn(h, read)
        /\ ReceiveQueue(q, ReadBeat(w), ReadOn(read, h), source)
        /\ m # << >>
        /\ h.eop => Head(m) = read \o h.bytes
        /\ Queued(ReadBeat(w), ReadOn(read, h)).packets = IF h.eop THEN Tail(m) ELSE m
    BY <2>11 DEF Popped, m
  <2>4. HeldPops(q, h)
    BY <1>7, <1>9 DEF HeldMoves, h, p
  <2>5. /\ HeldBy(q).packets = << >> /\ h.eop \in BOOLEAN
        /\ HeldBy(q)'.packets = IF h.eop THEN << read \o h.bytes >> ELSE << >>
        /\ HeldBy(q)'.open = ReadOn(read, h)
    <3> DEFINE r == HeldBy(q).open
    <3>1. HeldBy(q) = Begun(r) /\ HeldBy(q)' = IF h.eop THEN Whole(r \o h.bytes)
                                               ELSE Begun(r \o h.bytes)
      BY <2>4 DEF HeldPops
    <3>2. read = r /\ h.eop \in BOOLEAN
      BY <1>7, <2>3 DEF NextIn
    <3> HIDE DEF r
    <3>3. HeldBy(q).packets = << >>
      BY <3>1 DEF Begun
    <3>4. QED
      BY <3>1, <3>2, <3>3 DEF Begun, Whole, ReadOn
  <2>6. rx_queue'[q] = ReadBeat(w) /\ BytesRead(q)' = ReadOn(read, h)
    BY <1>6, <1>7, <1>9, <2>5
  <2>7. << >> \o m = m
    BY <1>5, ConcatEmptySeq
  <2>8. Held(q)'.packets \o Queued(rx_queue'[q], BytesRead(q)').packets = Held(q).packets \o m
    <3> DEFINE V == Seq(Bytes)
    <3>1. m \in Seq(V)
      BY <1>5
    <3> HIDE DEF V
    <3>2. CASE h.eop
      <4>1. << Head(m) >> \o Tail(m) = m
        BY <2>3, <3>1
      <4>2. QED
        BY <1>7, <2>3, <2>5, <2>6, <2>7, <3>2, <4>1
    <3>3. CASE ~h.eop
      BY <1>7, <2>3, <2>5, <2>6, <2>7, <3>3
    <3>4. QED
      BY <2>5, <3>2, <3>3
  <2>9. ReceiveQueue(q, rx_queue'[q], BytesRead(q)', rx_source'[q])
    BY <1>6, <2>3, <2>6
  <2>10. QED
    BY <1>4, <1>5, <2>8, <2>9 DEF QueueGoes, p
<1>10. CASE ~Pops(q)
  <2>1. rx_queue'[q] = w
    BY <1>6, <1>10
  <2>2. CASE HeldBy(q)' = HeldBy(q)
    <3>1. BytesRead(q)' = read /\ Held(q)'.packets = Held(q).packets
      BY <1>7, <2>2
    <3>2. Held(q)'.packets \o Queued(rx_queue'[q], BytesRead(q)').packets
            = Held(q).packets \o m
      BY <2>1, <3>1 DEF m
    <3>3. QED
      BY <1>4, <1>5, <1>6, <2>1, <3>1, <3>2 DEF QueueGoes, p
  <2>3. CASE HeldDrops(q) /\ HeldBy(q)' # HeldBy(q)
    <3>1. HeldBy(q) = Whole(host) /\ HeldBy(q)' = NoPackets
      BY <2>3 DEF HeldDrops
    <3>2. /\ read = << >> /\ BytesRead(q)' = << >>
          /\ Held(q).packets = << host >> /\ Held(q)'.packets = << >>
      BY <1>7, <3>1 DEF Whole, NoPackets
    <3>3. host \in Seq(Bytes)
      <4>1. << host >> \in Seq(Seq(Bytes))
        BY <1>8, <3>2
      <4>2. QED
        BY <4>1
    <3>4. completion_valid
      BY <2>3 DEF HeldDrops
    <3>5. Queued(rx_queue'[q], BytesRead(q)').packets = m
      BY <2>1, <3>2 DEF m
    <3>6. ReceiveQueue(q, rx_queue'[q], BytesRead(q)', rx_source'[q])
      BY <1>4, <1>6, <2>1, <3>2
    <3>7. Grows(q, Queued(p, read).packets, m)
      BY <1>4
    <3> HIDE DEF m
    <3>8. QED
      BY <1>5, <3>2, <3>3, <3>4, <3>5, <3>6, <3>7 DEF QueueGoes, p
  <2>4. QED
    BY <1>7, <1>10, <2>2, <2>3 DEF HeldMoves
<1>11. QED
  BY <1>9, <1>10

(* A packet may come in behind the others, and the first one may be        *)
(* delivered.                                                              *)
PathGoes(q) ==
  \E mid \in Seq(Seq(Bytes)) :
     /\ \/ mid = RxPackets(q)
        \/ /\ Len(RxPackets(q)) < DEPTH + 1
           /\ \E x \in RxPayloads(q) : mid = Append(RxPackets(q), x)
     /\ \/ RxPackets(q)' = mid
        \/ completion_valid /\ RxPackets(q) # << >> /\ RxPackets(q)' = Tail(mid)

(* So a path gains at most the packet that came in and loses at most the   *)
(* one that was delivered.                                                 *)
LEMMA PathGoesOn ==
  ASSUME PathSound, PathSound', HeldSound, NEW q \in QUEUES, QueueGoes(q),
         Queued(rx_queue[q], BytesRead(q)).packets \in Seq(Seq(Bytes))
  PROVE  PathGoes(q) /\ RxPackets(q) \in Seq(Seq(Bytes))
<1> DEFINE V == Seq(Bytes)
           P == Queued(rx_queue[q], BytesRead(q)).packets
           H == Held(q).packets
<1>1. PICK m \in Seq(V) :
         /\ Grows(q, P, m)
         /\ \/ Held(q)'.packets \o Queued(rx_queue'[q], BytesRead(q)').packets = H \o m
            \/ /\ completion_valid /\ \E x \in V : H = << x >>
               /\ Held(q)'.packets = << >>
               /\ Queued(rx_queue'[q], BytesRead(q)').packets = m
  BY DEF QueueGoes
<1>2. /\ RxPackets(q) = H \o P /\ H \in Seq(V) /\ P \in Seq(V)
      /\ RxPackets(q)' = Held(q)'.packets \o Queued(rx_queue'[q], BytesRead(q)').packets
  BY DEF PathSound, BytesRead, Held
<1>3. Len(H) <= 1
  <2>1. H = HeldBy(q).packets
    BY DEF HeldSound
  <2>2. H = << >> \/ \E x : H = << x >>
    BY <2>1 DEF HeldBy, NoPackets, Begun, Whole
  <2> HIDE DEF H
  <2>3. \A x : Len(<< x >>) = 1
    OBVIOUS
  <2>4. Len(<< >>) = 0
    OBVIOUS
  <2>5. CASE H = << >>
    <3>1. Len(H) = 0
      BY <2>4, <2>5
    <3>2. QED
      BY <3>1
  <2>6. CASE \E x : H = << x >>
    <3>1. Len(H) = 1
      BY <2>3, <2>6
    <3>2. QED
      BY <3>1
  <2>7. QED
    BY <2>2, <2>5, <2>6
<1>4. m # P => Len(P) < DEPTH /\ \E x \in RxPayloads(q) : m = Append(P, x)
  BY <1>1 DEF Grows
<1>5. RxPayloads(q) \subseteq V
  <2>1. \A n \in RxLengths : n \in Nat
    BY SystemAssumption
  <2>2. QED
    BY <2>1, PayloadType DEF RxPayloads, Bytes
<1> HIDE DEF V, H, P
<1> DEFINE mid == H \o m
           old == H \o P
<1>6. mid \in Seq(V) /\ old \in Seq(V) /\ Len(old) = Len(H) + Len(P)
  BY <1>1, <1>2, ConcatProperties
<1>7. m = P => mid = old
  OBVIOUS
<1>8. \A x \in RxPayloads(q) : m = Append(P, x) => mid = Append(old, x)
  BY <1>2, <1>5, ConcatAppend
<1>9. Len(P) < DEPTH => Len(old) < DEPTH + 1
  BY <1>2, <1>3, <1>6, QueueDepthAssumption
<1>10. \/ mid = old
       \/ Len(old) < DEPTH + 1 /\ \E x \in RxPayloads(q) : mid = Append(old, x)
  BY <1>4, <1>7, <1>8, <1>9
<1>11. \/ RxPackets(q)' = mid
       \/ completion_valid /\ old # << >> /\ RxPackets(q)' = Tail(mid)
  <2>1. CASE RxPackets(q)' = H \o m
    BY <2>1
  <2>2. CASE /\ completion_valid /\ \E x \in V : H = << x >>
             /\ Held(q)'.packets = << >>
             /\ Queued(rx_queue'[q], BytesRead(q)').packets = m
    <3>1. PICK x \in V : H = << x >>
      BY <2>2
    <3>2. old # << >> /\ Tail(mid) = m
      BY <1>1, <1>2, <3>1
    <3>3. RxPackets(q)' = << >> \o m
      BY <1>2, <2>2
    <3>4. << >> \o m = m
      BY <1>1, ConcatEmptySeq
    <3>5. QED
      BY <2>2, <3>2, <3>3, <3>4
  <2>3. QED
    BY <1>1, <1>2, <2>1, <2>2
<1> HIDE DEF mid, old
<1>12. RxPackets(q) = old
  BY <1>2 DEF old
<1>13. QED
  BY <1>6, <1>10, <1>11, <1>12 DEF PathGoes, V

(* As long as nothing is delivered the first packet stays the first.       *)
LEMMA FirstStays ==
  ASSUME NEW q \in QUEUES, PathGoes(q), RxPackets(q) \in Seq(Seq(Bytes)),
         ~completion_valid, RxPackets(q) # << >>
  PROVE  RxPackets(q)' # << >> /\ Head(RxPackets(q)') = Head(RxPackets(q))
<1> DEFINE old == RxPackets(q)
           V == Seq(Bytes)
<1>1. old \in Seq(V) /\ old # << >>
  OBVIOUS
<1>2. \/ RxPackets(q)' = old
      \/ \E x \in RxPayloads(q) : RxPackets(q)' = Append(old, x)
  BY DEF PathGoes
<1> HIDE DEF old, V
<1>3. \A x : Append(old, x) # << >> /\ Head(Append(old, x)) = Head(old)
  BY <1>1, AppendKeeps
<1>4. QED
  BY <1>1, <1>2, <1>3 DEF old

-----------------------------------------------------------------------------
(* Steps.                                                                  *)

(* A command is issued for the first packet in its queue, which stays the  *)
(* first as long as the engine is idle.                                    *)
LEMMA CommandGoesOn ==
  ASSUME ReceiveInv, NEW bus, NEW offers \in Offers, NEW takes, NEW host_ready, NEW stale,
         Edge(bus, offers, takes, host_ready, stale)
  PROVE  CommandHolds'
<1> DEFINE done == [valid |-> completion_valid, queue |-> queue, direction |-> direction]
           rx_empty == [q \in QUEUES |-> empty(rx_queue[q])]
           tx_full == [q \in QUEUES |-> full(tx_queue[q])]
           lengths == rx_packet_length(stale)
<1>1. Controller_work(bus, command_ready, done, rx_empty, lengths, tx_full)
  BY DEF Edge
<1>2. CASE command_valid \/ dma_active
  <2>1. command' = command /\ command_valid' = FALSE
    BY <1>2, CommandKept
  <2>2. QED
    BY <2>1 DEF ReceiveInv, CommandHolds
<1>3. CASE ~command_valid /\ ~dma_active
  <2>1. ~Busy
    BY <1>3 DEF ReceiveInv, SystemInv, HandshakeHolds, OneCommand
  <2>2. ASSUME NEW q \in QUEUES, rx_queue[q].lengths # << >>
        PROVE  /\ rx_queue'[q].lengths # << >>
               /\ Head(rx_queue'[q].lengths) = Head(rx_queue[q].lengths)
    <3>1. rx_queue'[q] = Written(rx_queue[q], offers[q])
      BY <2>1, RecordAtEdge DEF Pops, queue_input_ready, Busy
    <3>2. ReceiveQueue(q, rx_queue[q], BytesRead(q), rx_source[q])
      BY DEF ReceiveInv
    <3>3. rx_source[q] \in Seq(Bytes)
      BY DEF ReceiveInv, SystemInv, QueuesHold, QueueHolds, Bytes
    <3>4. offers[q] \in NextBeats(q) \cup {NoOffer}
      BY DEF Offers
    <3>5. KeepsFirst(rx_queue[q], Written(rx_queue[q], offers[q]))
      BY <3>2, <3>3, <3>4, QueueOffered
    <3>6. QED
      BY <2>2, <3>1, <3>5 DEF KeepsFirst
  <2>3. CASE RxFits(rx_empty, lengths) /\ IssueRx(lengths)
    <3> DEFINE q == rx_ring[rx_consumer].queue
    <3>1. q \in QUEUES /\ ~empty(rx_queue[q])
      BY <2>3 DEF RxFits
    <3>2. rx_queue[q].lengths # << >>
      <4>1. QueueHolds(rx_queue[q], rx_source[q])
        BY <3>1 DEF ReceiveInv, SystemInv, QueuesHold
      <4>2. QED
        BY <3>1, <4>1 DEF QueueHolds, empty
    <3>3. RxLength(lengths) = Head(rx_queue[q].lengths)
      BY <3>1, <3>2 DEF RxLength, rx_packet_length
    <3> HIDE DEF lengths, q
    <3>4. command'.queue = q /\ command'.length = RxLength(lengths) /\ command'.bytes = << >>
      BY <2>3 DEF IssueRx, RxCommand, q
    <3>5. QED
      BY <2>2, <3>1, <3>2, <3>3, <3>4 DEF CommandHolds
  <2>4. CASE TxFits(tx_full) /\ IssueTx
    <3>1. command'.queue = tx_ring[tx_consumer].queue /\ command'.queue \in QUEUES
          /\ command'.direction = "host to queue"
      BY <2>4 DEF TxFits, IssueTx, TxCommand
    <3>2. QED
      BY <3>1 DEF CommandHolds
  <2>5. CASE IssueNothing(command_ready)
    BY <1>3, <2>5 DEF IssueNothing, ReceiveInv, CommandHolds
  <2> HIDE DEF done, rx_empty, tx_full, lengths
  <2>6. \/ RxFits(rx_empty, lengths) /\ IssueRx(lengths)
        \/ TxFits(tx_full) /\ IssueTx
        \/ IssueNothing(command_ready)
    BY <1>1 DEF Controller_work
  <2>7. QED
    BY <2>3, <2>4, <2>5, <2>6
<1>4. QED
  BY <1>2, <1>3

(* What the engine is at is the first packet in its path. *)
FirstIs(q, n) == RxPackets(q) # << >> /\ Len(Head(RxPackets(q))) = n

(* The engine accepts a command for the first packet in its path. *)
LEMMA CommandIsFirst ==
  ASSUME ReceiveInv, command_valid, command.direction = "queue to host"
  PROVE  FirstIs(command.queue, command.length)
<1> DEFINE q == command.queue
           P == Queued(rx_queue[q], BytesRead(q)).packets
<1>1. q \in QUEUES /\ rx_queue[q].lengths # << >>
      /\ command.length = Head(rx_queue[q].lengths)
  BY DEF ReceiveInv, CommandHolds
<1>2. ~Busy /\ ~completion_valid
  BY DEF ReceiveInv, SystemInv, HandshakeHolds, OneCommand
<1>3. Held(q) = NoPackets
  BY <1>1, <1>2, SoundNow DEF HeldSound, HeldBy
<1>4. RxPackets(q) = << >> \o P /\ P \in Seq(Seq(Bytes))
      /\ rx_queue[q].lengths = LengthsIn(P)
  <2>1. RxPackets(q) = Held(q).packets \o P
    BY <1>1, SoundNow DEF PathSound, BytesRead, Held
  <2>2. QueueSound(rx_queue[q], BytesRead(q), Bytes)
    BY <1>1 DEF ReceiveInv, ReceiveQueue
  <2>3. P \in Seq(Seq(Bytes))
    BY <2>2, QueuedType DEF QueueSound
  <2>4. rx_queue[q].lengths = LengthsIn(P)
    BY <2>2 DEF QueueSound
  <2> HIDE DEF P, q
  <2>5. NoPackets.packets = << >>
    BY DEF NoPackets
  <2>6. Held(q).packets = << >>
    BY <1>3, <2>5
  <2>7. QED
    BY <2>1, <2>3, <2>4, <2>6
<1> HIDE DEF P, q
<1>5. RxPackets(q) = P
  BY <1>4, ConcatEmptySeq
<1>6. P # << >> /\ Head(LengthsIn(P)) = Len(Head(P))
  <2>1. LengthsIn(P) # << >>
    BY <1>1, <1>4
  <2>2. QED
    BY <1>4, <2>1, LengthsHead
<1>7. QED
  BY <1>1, <1>4, <1>5, <1>6 DEF FirstIs, q

(* An edge keeps the invariant, and every path goes on as promised. *)
LEMMA ReceiveAtEdge ==
  ASSUME ReceiveInv, SystemInv', NEW bus, NEW offers \in Offers, NEW takes,
         NEW host_ready, NEW stale, Edge(bus, offers, takes, host_ready, stale)
  PROVE  ReceiveInv' /\ \A q \in QUEUES : PathGoes(q) /\ RxPackets(q) \in Seq(Seq(Bytes))
<1>1. HeldSound /\ DataSound /\ PathSound
  BY SoundNow
<1>2. EngineMoves /\ EngineNow'
  BY EngineAtEdge DEF EngineMoves
<1>3. HeldSound'
  BY <1>2, HeldIsNext DEF EngineNow
<1>4. \A q \in QUEUES : QueueGoes(q)
  BY <1>2, <1>3, QueueGoesOn
<1>5. \A q \in QUEUES : ReceiveQueue(q, rx_queue'[q], BytesRead(q)', rx_source'[q])
  BY <1>4 DEF QueueGoes
<1>6. DataSound'
  BY <1>5 DEF DataSound, ReceiveQueue, QueueSound
<1>7. PathSound'
  BY <1>3, <1>6, PathIsNext
<1>8. ASSUME NEW q \in QUEUES
      PROVE  PathGoes(q) /\ RxPackets(q) \in Seq(Seq(Bytes))
  <2>1. QueueSound(rx_queue[q], BytesRead(q), Bytes)
    BY DEF ReceiveInv, ReceiveQueue
  <2>2. Queued(rx_queue[q], BytesRead(q)).packets \in Seq(Seq(Bytes))
    BY <2>1, QueuedType DEF QueueSound
  <2>3. QED
    BY <1>1, <1>4, <1>7, <2>2, PathGoesOn
<1>9. CommandHolds'
  BY CommandGoesOn
<1>10. ASSUME Busy', ToHost'
       PROVE  MidPacket'
  <2>1. EngineGoesOn(IF command_valid THEN {command} ELSE {})
    <3>1. state \in EngineStates
      BY DEF ReceiveInv, SystemInv, HandshakeHolds
    <3>2. QED
      BY <3>1, EngineStep DEF Edge
  <2>2. Numbers'
    BY <1>2, <1>10 DEF EngineNow
  <2>3. /\ queue \in QUEUES /\ command.queue \in QUEUES /\ command_valid \in BOOLEAN
        /\ Busy => dma_active /\ ~completion_valid
        /\ command_valid => ~Busy /\ ~completion_valid
    BY DEF ReceiveInv, EngineHolds, EngineShape, CommandHolds, SystemInv,
           HandshakeHolds, OneCommand
  <2>4. /\ Busy \/ command_valid
        /\ command' = command /\ ~completion_valid
        /\ FirstIs(queue', command.length) /\ queue' \in QUEUES
    <3>1. CASE Busy
      <4>1. queue' = queue /\ ToHost
        BY <1>10, <2>1, <3>1 DEF EngineGoesOn, ToHost
      <4>2. MidPacket
        BY <3>1, <4>1 DEF ReceiveInv, EngineHolds
      <4>3. QED
        BY <2>3, <3>1, <4>1, <4>2, CommandKept DEF MidPacket, FirstIs
    <3>2. CASE ~Busy
      <4>1. command_valid
        BY <1>10, <2>1, <2>3, <3>2 DEF EngineGoesOn
      <4>2. queue' = command.queue /\ command.direction = "queue to host"
        BY <1>10, <2>1, <3>2, <4>1 DEF EngineGoesOn, ToHost
      <4>3. QED
        BY <2>3, <4>1, <4>2, CommandKept, CommandIsFirst
    <3>3. QED
      BY <3>1, <3>2
  <2>5. command' = command /\ ~completion_valid
    BY <2>3, <2>4, CommandKept
  <2> DEFINE q == queue'
  <2>6. q \in QUEUES /\ RxPackets(q) # << >> /\ Len(Head(RxPackets(q))) = command.length
    BY <2>4 DEF FirstIs
  <2> HIDE DEF q
  <2>7. \A r \in QUEUES : RxPackets(r) # << >> =>
          RxPackets(r)' # << >> /\ Head(RxPackets(r)') = Head(RxPackets(r))
    BY <1>8, <2>5, FirstStays
  <2>8. \A r \in QUEUES : r = queue' => RxPackets(r)' = RxPackets(queue)'
    BY DEF RxPackets, InEngine
  <2>9. RxPackets(queue)' # << >> /\ Len(Head(RxPackets(queue)')) = command'.length
    BY <2>5, <2>6, <2>7, <2>8 DEF q
  <2>10. QED
    BY <2>2, <2>9 DEF MidPacket, Numbers
<1>11. EngineHolds'
  BY <1>2, <1>10 DEF EngineHolds, EngineNow
<1>12. QED
  BY <1>5, <1>8, <1>9, <1>11 DEF ReceiveInv

(* After reset nothing is on the way. *)
LEMMA ReceiveInit ==
  ASSUME SystemInit
  PROVE  ReceiveInv /\ \A q \in QUEUES : RxPackets(q) = << >>
<1>1. SystemInv
  BY InitHolds
<1>2. 0 \in QUEUES
  BY QueuesAssumption
<1>3. CommandHolds
  BY <1>2 DEF SystemInit, ControllerInit, CommandHolds
<1>4. ~Busy /\ ~completion_valid
  BY DEF SystemInit, DMAInit, Busy
<1>5. EngineShape
  BY <1>2, <1>4 DEF SystemInit, DMAInit, EngineShape
<1>6. EngineHolds
  BY <1>4, <1>5 DEF EngineHolds, SystemInit, DMAInit
<1>7. HeldSound
  BY <1>5, HeldIs
<1>8. ASSUME NEW q \in QUEUES
      PROVE  /\ ReceiveQueue(q, rx_queue[q], BytesRead(q), rx_source[q])
             /\ RxPackets(q) = << >>
  <2>1. rx_queue[q] = EmptyQueue /\ rx_source[q] = << >>
    BY DEF SystemInit
  <2>2. NoPackets.packets = << >> /\ NoPackets.open = << >>
    BY DEF NoPackets
  <2>3. Held(q) = NoPackets
    BY <1>4, <1>7 DEF HeldSound, HeldBy
  <2>4. BytesRead(q) = << >> /\ Held(q).packets = << >>
    BY <2>2, <2>3 DEF BytesRead, Held
  <2> DEFINE p == EmptyQueue
             c == Queued(p, << >>)
  <2>5. QueueSound(p, << >>, Bytes) /\ c = NoPackets /\ p.data = << >>
    BY EmptyIsSound DEF EmptySound
  <2>6. << >> \in Seq(Beats(Bytes))
    OBVIOUS
  <2> HIDE DEF p, c
  <2>8. c.packets = << >> /\ c.open = << >>
    BY <2>2, <2>5
  <2>10. BeatsFull(p.data)
    BY <2>5 DEF BeatsFull
  <2>12. ReceiveQueue(q, p, << >>, << >>)
    BY <2>5, <2>8, <2>10 DEF ReceiveQueue, MakesPacket, c
  <2>13. RxPackets(q) = << >>
    <3>1. DataSound
      BY <2>5, <2>6 DEF DataSound, SystemInit, p
    <3>2. RxPackets(q) = Held(q).packets \o Queued(rx_queue[q], Held(q).open).packets
      BY <1>7, <3>1, PathIs DEF PathSound
    <3>3. Queued(rx_queue[q], Held(q).open) = c
      BY <2>1, <2>2, <2>3 DEF c, p
    <3>4. RxPackets(q) = << >> \o << >>
      BY <2>4, <2>8, <3>2, <3>3
    <3>5. QED
      BY <3>4
  <2>14. QED
    BY <2>1, <2>4, <2>12, <2>13 DEF p
<1>9. QED
  BY <1>1, <1>3, <1>6, <1>8 DEF ReceiveInv

(* Paths are sequences of packets. *)
LEMMA PathTyped ==
  ASSUME ReceiveInv, NEW q \in QUEUES
  PROVE  RxPackets(q) \in Seq(Seq(Bytes))
<1>1. HeldSound /\ PathSound
  BY SoundNow
<1>2. QueueSound(rx_queue[q], BytesRead(q), Bytes)
  BY DEF ReceiveInv, ReceiveQueue
<1>3. Queued(rx_queue[q], BytesRead(q)).packets \in Seq(Seq(Bytes))
  BY <1>2, QueuedType DEF QueueSound
<1>4. Held(q).packets \in Seq(Seq(Bytes))
  BY <1>1 DEF PathSound
<1>5. RxPackets(q) = Held(q).packets \o Queued(rx_queue[q], BytesRead(q)).packets
  BY <1>1 DEF PathSound, BytesRead, Held
<1>6. QED
  BY <1>3, <1>4, <1>5, ConcatProperties

(* Taking the first and adding at the end are independent. *)
LEMMA TailAppend ==
  ASSUME NEW V, NEW s \in Seq(V), s # << >>, NEW x
  PROVE  Tail(Append(s, x)) = Append(Tail(s), x)
OBVIOUS

(* What a step does to the paths. *)
PathsGo ==
  \A q \in QUEUES : RxPackets(q) \in Seq(Seq(Bytes)) /\ (PathGoes(q) \/ RxPackets(q)' = RxPackets(q))

(* What the invariant speaks of stays when nothing changes. *)
LEMMA ReceiveStays ==
  ASSUME ReceiveInv, UNCHANGED vars
  PROVE  ReceiveInv' /\ \A q \in QUEUES : RxPackets(q)' = RxPackets(q)
<1> USE DEF vars, ctlVars, rxVars, txVars, dmaVars, sysVars
<1>1. \A q : InEngine(q)' = InEngine(q)
  BY DEF InEngine, Landed, Busy
<1>2. \A q : BytesRead(q)' = BytesRead(q) /\ RxPackets(q)' = RxPackets(q)
  BY <1>1 DEF BytesRead, RxPackets
<1>3. SystemInv' = SystemInv
  BY DEF SystemInv, RingsHold, QueuesHold, QueueHolds, PostingHolds,
         HandshakeHolds, OneCommand, Busy, RxWaiting, TxWaiting
<1>4. CommandHolds' = CommandHolds
  BY DEF CommandHolds
<1>5. EngineShape' = EngineShape
  BY DEF EngineShape, Busy, ToHost, HasLow, HasBeat
<1>6. RxPackets(queue)' = RxPackets(queue)
  BY <1>1 DEF RxPackets
<1>7. MidPacket' = MidPacket
  BY <1>6 DEF MidPacket
<1>8. EngineHolds' = EngineHolds
  BY <1>5, <1>7 DEF EngineHolds, Busy, ToHost
<1>9. \A q \in QUEUES : ReceiveQueue(q, rx_queue[q], BytesRead(q), rx_source[q])'
  BY <1>2 DEF ReceiveInv
<1>10. QED
  BY <1>2, <1>3, <1>4, <1>8, <1>9 DEF ReceiveInv

(* Every step keeps the invariant, and every path goes on as promised. *)
LEMMA ReceiveStep ==
  ASSUME LengthsAccepted, ReceiveInv, [Next]_vars
  PROVE  ReceiveInv' /\ PathsGo
<1>1. SystemInv'
  BY StepKeeps DEF ReceiveInv
<1>2. CASE UNCHANGED vars
  <2>1. DataSound /\ HeldSound /\ PathSound
    BY SoundNow
  <2>2. QED
    BY <1>2, <2>1, ReceiveStays, PathTyped DEF PathsGo
<1>3. CASE Next
  <2>1. CASE QuietEdge(Quiet, HostReady, {})
    <3>1. PICK bus \in Quiet, host_ready \in HostReady, offers \in Offers,
               stale \in Stale, takes \in Takes :
                 Edge(bus, offers, takes, host_ready, stale)
      BY <2>1 DEF QuietEdge
    <3>2. QED
      BY <1>1, <3>1, ReceiveAtEdge DEF PathsGo
  <2>2. CASE PostRxEdge
    <3>1. PICK d \in RxDescriptors, host_ready \in HostReady, offers \in Offers,
               stale \in Stale, takes \in Takes :
                 Edge(PostRx(d), offers, takes, host_ready, stale)
      BY <2>2 DEF PostRxEdge
    <3>2. QED
      BY <1>1, <3>1, ReceiveAtEdge DEF PathsGo
  <2>3. CASE PostTxEdge
    <3>1. PICK p \in NextPackets, host_ready \in HostReady, offers \in Offers,
               stale \in Stale, takes \in Takes :
                 Edge(PostTx(NextFragment(p)), offers, takes, host_ready, stale)
      BY <2>3 DEF PostTxEdge
    <3>2. QED
      BY <1>1, <3>1, ReceiveAtEdge DEF PathsGo
  <2>4. QED
    BY <1>3, <2>1, <2>2, <2>3 DEF Next
<1>4. QED
  BY <1>2, <1>3

(* Such a move of a path is one PacketPaths allows. *)
LEMMA PathMoves ==
  ASSUME NEW q \in QUEUES, RxPackets(q) \in Seq(Seq(Bytes)),
         PathGoes(q) \/ RxPackets(q)' = RxPackets(q)
  PROVE  RxPath!Step(q, RxPackets(q), RxPackets(q)')
<1> DEFINE V == Seq(Bytes)
           old == RxPackets(q)
           new == RxPackets(q)'
<1>1. old \in Seq(V)
  OBVIOUS
<1> HIDE DEF V, old, new
<1>2. \A x : old # << >> => Tail(Append(old, x)) = Append(Tail(old), x)
  BY <1>1, TailAppend
<1>3. \/ new = old
      \/ old # << >> /\ new = Tail(old)
      \/ /\ Len(old) < DEPTH + 1
         /\ \E x \in RxPayloads(q) :
              \/ new = Append(old, x)
              \/ old # << >> /\ new = Tail(Append(old, x))
  BY DEF PathGoes, old, new
<1>4. RxPath!Step(q, old, new)
  BY <1>2, <1>3 DEF RxPath!Step, RxPath!Moved
<1>5. QED
  BY <1>4 DEF old, new

(* Packets reach their buffers. *)
THEOREM PacketsInOrder ==
  ASSUME LengthsAccepted
  PROVE  Spec => RxInOrder
<1>1. SystemInit => ReceiveInv /\ RxPath!Init
  BY ReceiveInit DEF RxPath!Init
<1>2. ReceiveInv /\ [Next]_vars => ReceiveInv' /\ PathsGo
  BY ReceiveStep
<1>3. PathsGo => RxPath!Next
  BY PathMoves DEF PathsGo, RxPath!Next
<1>4. QED
  BY <1>1, <1>2, <1>3, PTL DEF Spec, RxInOrder, RxPath!Spec

(* What is in the buffer is no longer than the buffer. *)
LEMMA LandedFits ==
  ASSUME NEW h \in Seq(Bytes), NEW m, NEW k \in Nat, k >= m,
         Len(h) = m \/ \E r \in Nat : Len(h) + r = m
  PROVE  DOMAIN h = 1 .. Cardinality(DOMAIN h) /\ Cardinality(DOMAIN h) <= k
<1>1. DOMAIN h = 1 .. Cardinality(DOMAIN h) /\ Cardinality(DOMAIN h) = Len(h)
  BY LandedIs
<1>2. Len(h) \in Nat
  OBVIOUS
<1>3. Len(h) <= k
  BY <1>2
<1>4. QED
  BY <1>1, <1>3

(* The engine writes inside the posted buffer and leaves no hole,          *)
(* wherever the invariant holds.                                           *)
LEMMA BufferHolds ==
  ASSUME ReceiveInv
  PROVE  BufferKept
<1>1. ASSUME direction = "queue to host", dma_active
      PROVE  /\ host \in Seq(Bytes) /\ rx_ring[rx_consumer].length \in Nat
             /\ rx_ring[rx_consumer].length >= command.length
             /\ Len(host) = command.length \/ \E r \in Nat : Len(host) + r = command.length
  <2>1. /\ Busy \/ completion_valid
        /\ rx_ring[rx_consumer].length >= command.length
        /\ rx_ring[rx_consumer].length \in Nat
    BY <1>1 DEF ReceiveInv, SystemInv, HandshakeHolds, OneCommand, RingsHold
  <2>2. QED
    BY <1>1, <2>1 DEF ReceiveInv, EngineHolds, EngineShape, MidPacket, ToHost
<1>2. QED
  BY <1>1, LandedFits DEF BufferKept

(* Buffers. *)
THEOREM BufferIsKept ==
  ASSUME LengthsAccepted
  PROVE  Spec => []BufferKept
<1>1. SystemInit => ReceiveInv
  BY ReceiveInit
<1>2. ReceiveInv /\ [Next]_vars => ReceiveInv'
  BY ReceiveStep
<1>3. ReceiveInv => BufferKept
  BY BufferHolds
<1>4. QED
  BY <1>1, <1>2, <1>3, PTL DEF Spec
=============================================================================
