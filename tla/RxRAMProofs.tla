----------------------------- MODULE RxRAMProofs ----------------------------
(***************************************************************************)
(* The receive packet store for every number of rows, width of a row, set  *)
(* of frame lengths, number of ports, of completions and of slots for      *)
(* early releases: what was reported complete stays whole until it is      *)
(* released, and rows are neither lost nor given twice.                    *)
(***************************************************************************)
EXTENDS RxRAM, CutProofs, FiniteSetTheorems

-----------------------------------------------------------------------------
(* Rows.                                                                   *)

(* Divided by a number there is a rest.                                    *)
LEMMA Divided ==
  ASSUME NEW n \in Nat \ {0}, NEW a \in Int
  PROVE  /\ a % n \in 0 .. n - 1 /\ a \div n \in Int /\ a = n * (a \div n) + (a % n)
OBVIOUS

(* Turns are counted. *)
LEMMA Turns ==
  ASSUME NEW n \in Int, NEW k \in Int, NEW j \in Int
  PROVE  n * (k + j) = n * k + n * j /\ n * (k + 1) = n * k + n /\ n * (k - 1) = n * k - n
         /\ n * k \in Int /\ n * j \in Int
OBVIOUS

(* And only one.                                                           *)
LEMMA DividedOnce ==
  ASSUME NEW n \in Nat \ {0}, NEW k \in Int, NEW r \in 0 .. n - 1, NEW a, a = n * k + r
  PROVE  a % n = r /\ a \div n = k
<1>1. /\ a \in Int /\ a % n \in 0 .. n - 1 /\ a \div n \in Int
      /\ a = n * (a \div n) + (a % n)
  BY Divided
<1> DEFINE d == k - (a \div n)
<1>2. d \in Int /\ n * d = (a % n) - r
  BY <1>1
<1>3. n * d \in -(n - 1) .. n - 1
  BY <1>1, <1>2
<1> HIDE DEF d
<1>4. d = 0
  <2>1. d >= 1 => n * d >= n
    BY <1>2
  <2>2. d <= -1 => n * d <= -n
    BY <1>2
  <2>3. QED
    BY <1>2, <1>3, <2>1, <2>2
<1>5. QED
  BY <1>1, <1>2, <1>4 DEF d

(* A row is what is left of whole turns. *)
LEMMA RowIn ==
  ASSUME NEW a \in Int
  PROVE  Row(a) \in 0 .. LOGICAL_ROWS - 1
         /\ \E k \in Int : LOGICAL_ROWS * k \in Int /\ a = LOGICAL_ROWS * k + Row(a)
<1>1. LOGICAL_ROWS \in Nat \ {0}
  BY RxRAMAssumption
<1>2. /\ Row(a) \in 0 .. LOGICAL_ROWS - 1 /\ a \div LOGICAL_ROWS \in Int
      /\ a = LOGICAL_ROWS * (a \div LOGICAL_ROWS) + Row(a)
  BY <1>1, Divided DEF Row
<1>3. LOGICAL_ROWS * (a \div LOGICAL_ROWS) \in Int
  BY <1>1, <1>2
<1>4. QED
  BY <1>2, <1>3

(* And only one row is. *)
LEMMA RowOnce ==
  ASSUME NEW k \in Int, NEW r \in 0 .. LOGICAL_ROWS - 1, NEW a, a = LOGICAL_ROWS * k + r
  PROVE  Row(a) = r
<1> DEFINE n == LOGICAL_ROWS
<1>1. n \in Nat \ {0}
  BY RxRAMAssumption
<1>2. Row(a) = a % n /\ r \in 0 .. n - 1 /\ a = n * k + r
  BY DEF Row
<1> HIDE DEF n
<1>3. a % n = r
  BY <1>1, <1>2, DividedOnce
<1>4. QED
  BY <1>2, <1>3

(* Rows in the store are what they are. *)
LEMMA RowSmall ==
  ASSUME NEW a \in 0 .. LOGICAL_ROWS - 1
  PROVE  Row(a) = a
BY RxRAMAssumption DEF Row

(* Row by row, or all at once. *)
LEMMA RowSum ==
  ASSUME NEW a \in Int, NEW b \in Int
  PROVE  Row(Row(a) + b) = Row(a + b)
<1> DEFINE n == LOGICAL_ROWS
           x == Row(a)
           y == Row(x + b)
<1>1. n \in Int
  BY RxRAMAssumption
<1>2. x \in Int /\ \E k \in Int : n * k \in Int /\ a = n * k + x
  BY RowIn
<1>3. y \in 0 .. n - 1 /\ y \in Int /\ \E j \in Int : n * j \in Int /\ x + b = n * j + y
  <2> HIDE DEF x
  <2>1. x + b \in Int
    BY <1>2
  <2>2. QED
    BY <2>1, RowIn, RxRAMAssumption
<1> HIDE DEF n, x, y
<1>4. PICK k \in Int : n * k \in Int /\ a = n * k + x
  BY <1>2
<1>5. PICK j \in Int : n * j \in Int /\ x + b = n * j + y
  BY <1>3
<1>6. n * (k + j) = n * k + n * j /\ k + j \in Int
  BY <1>1, Turns
<1> DEFINE p == n * k
           o == n * j
<1>7. p \in Int /\ o \in Int /\ a = p + x /\ x + b = o + y /\ n * (k + j) = p + o
  BY <1>4, <1>5, <1>6
<1> HIDE DEF p, o
<1>8. a + b = n * (k + j) + y
  BY <1>2, <1>3, <1>7
<1>9. QED
  BY <1>3, <1>6, <1>8, RowOnce DEF n, x, y

(* Less than a turn apart, the same row is the same place. *)
LEMMA RowApart ==
  ASSUME NEW a \in Int, NEW b \in Int, Row(a) = Row(b), a - b < LOGICAL_ROWS, b - a < LOGICAL_ROWS
  PROVE  a = b
<1> DEFINE n == LOGICAL_ROWS
           x == Row(a)
<1>1. n \in Nat \ {0} /\ x \in Int
  BY RowIn, RxRAMAssumption
<1>2. PICK k \in Int : n * k \in Int /\ a = n * k + x
  BY RowIn
<1>3. PICK j \in Int : n * j \in Int /\ b = n * j + x
  BY RowIn
<1> DEFINE p == n * k
           o == n * j
           d == k - j
           m == n * d
<1>4. p \in Int /\ o \in Int /\ a = p + x /\ b = o + x /\ d \in Int /\ k = j + d
  BY <1>1, <1>2, <1>3
<1>5. p = o + m /\ m \in Int
  <2> HIDE DEF n, d
  <2>1. QED
    BY <1>1, <1>4, Turns
<1>6. (d >= 1 => m >= n) /\ (d <= -1 => m <= -n)
  <2> HIDE DEF n, d
  <2>1. QED
    BY <1>1, <1>4
<1>7. a - b < n /\ b - a < n
  OBVIOUS
<1> HIDE DEF p, o, d, m, n, x
<1>8. m = a - b
  BY <1>1, <1>4, <1>5
<1>9. d = 0
  BY <1>1, <1>4, <1>6, <1>7, <1>8
<1>10. k = j
  BY <1>4, <1>9 DEF d
<1>11. QED
  BY <1>2, <1>3, <1>10

-----------------------------------------------------------------------------
(* Sizes.                                                                  *)

(* Even numbers. *)
LEMMA EvenIs ==
  ASSUME NEW n \in Nat
  PROVE  /\ Even(n) \in Nat /\ Even(n) % 2 = 0 /\ n <= Even(n) /\ Even(n) <= n + 1
         /\ n % 2 = 0 => Even(n) = n
BY DEF Even

(* Sums and differences of even numbers are even. *)
LEMMA EvenSum ==
  ASSUME NEW a \in Int, NEW b \in Int, a % 2 = 0, b % 2 = 0
  PROVE  (a + b) % 2 = 0 /\ (a - b) % 2 = 0
OBVIOUS

(* Rows are as even as what they count. *)
LEMMA EvenRow ==
  ASSUME NEW a \in Int, a % 2 = 0
  PROVE  Row(a) % 2 = 0
<1> DEFINE n == LOGICAL_ROWS
           x == Row(a)
           h == n \div 2
<1>1. n \in Nat \ {0} /\ n % 2 = 0 /\ x \in Int
  <2>1. n \in Nat \ {0} /\ n % 2 = 0
    BY RxRAMAssumption
  <2>2. x \in 0 .. n - 1
    BY RowIn
  <2>3. QED
    BY <2>1, <2>2
<1>2. PICK k \in Int : n * k \in Int /\ a = n * k + x
  BY RowIn
<1>3. h \in Int /\ n = 2 * h
  BY <1>1
<1> DEFINE m == h * k
<1>4. n * k = 2 * m /\ m \in Int
  <2> HIDE DEF h, n
  <2>1. QED
    BY <1>3
<1> HIDE DEF m, h, n, x
<1>5. a = 2 * m + x
  BY <1>2, <1>4
<1>6. x % 2 = 0
  BY <1>1, <1>4, <1>5
<1>7. QED
  BY <1>6 DEF x

-----------------------------------------------------------------------------
(* Words and rows of a packet.                                             *)

(* What is not negative has no negative share. *)
LEMMA DividedNat ==
  ASSUME NEW n \in Nat \ {0}, NEW a \in Nat
  PROVE  a \div n \in Nat /\ a % n \in 0 .. n - 1
<1> DEFINE q == a \div n
           m == n * q
<1>1. q \in Int /\ a % n \in 0 .. n - 1 /\ a = m + (a % n)
  BY Divided
<1>2. m \in Int /\ (q <= -1 => m <= -n)
  <2> HIDE DEF q
  <2>1. QED
    BY <1>1
<1>3. q >= 0
  <2> HIDE DEF q, m
  <2>1. QED
    BY <1>1, <1>2
<1>4. QED
  BY <1>1, <1>3

(* Only the rest counts for what is added. *)
LEMMA DividedSum ==
  ASSUME NEW n \in Nat \ {0}, NEW a \in Nat, NEW b \in Nat
  PROVE  /\ (a + b) \div n = (a \div n) + (((a % n) + b) \div n)
         /\ (a + b) % n = ((a % n) + b) % n
<1> DEFINE c == (a % n) + b
           q == a \div n
           s == c \div n
           r == c % n
<1>1. q \in Int /\ a % n \in 0 .. n - 1 /\ a = n * q + (a % n)
  BY Divided
<1>2. c \in Nat
  BY <1>1
<1>3. s \in Int /\ r \in 0 .. n - 1 /\ c = n * s + r
  <2> HIDE DEF c
  <2>1. QED
    BY <1>2, Divided
<1> HIDE DEF q, s, r
<1>4. n * (q + s) = n * q + n * s /\ n * q \in Int /\ n * s \in Int /\ q + s \in Int
  BY <1>1, <1>3, Turns
<1> DEFINE p == n * q
           o == n * s
           sum == a + b
<1>5. a = p + (a % n) /\ c = o + r /\ n * (q + s) = p + o /\ p \in Int /\ o \in Int
  BY <1>1, <1>3, <1>4
<1>6. c = (a % n) + b
  OBVIOUS
<1> HIDE DEF p, o, c
<1>7. sum = n * (q + s) + r
  BY <1>1, <1>3, <1>5, <1>6
<1> HIDE DEF sum
<1>8. sum % n = r /\ sum \div n = q + s
  BY <1>3, <1>4, <1>7, DividedOnce
<1>9. QED
  BY <1>8 DEF sum, q, s, r, c

(* More is not less after division. *)
LEMMA DividedGrows ==
  ASSUME NEW n \in Nat \ {0}, NEW a \in Nat, NEW b \in Nat, a <= b
  PROVE  a \div n <= b \div n
<1> DEFINE d == b - a
           c == (a % n) + d
<1>1. d \in Nat /\ a % n \in Nat /\ c \in Nat /\ a + d = b
  BY DividedNat
<1> HIDE DEF c
<1>2. b \div n = (a \div n) + (c \div n)
  <2> HIDE DEF d
  <2>1. QED
    BY <1>1, DividedSum DEF c
<1>3. c \div n \in Nat /\ a \div n \in Nat
  BY <1>1, DividedNat
<1>4. QED
  BY <1>2, <1>3

(* Rounded up: one more if there is a rest, *)
LEMMA RoundedUp ==
  ASSUME NEW n \in Nat \ {0}, NEW a \in Nat
  PROVE  (a + n - 1) \div n = (a \div n) + (IF a % n = 0 THEN 0 ELSE 1)
<1> DEFINE q == a \div n
           r == a % n
           m == n * q
           up == a + n - 1
<1>1. q \in Int /\ r \in 0 .. n - 1 /\ a = m + r /\ m \in Int /\ n * (q + 1) = m + n /\ q + 1 \in Int
  <2>1. q \in Int /\ r \in 0 .. n - 1 /\ a = m + r
    BY Divided
  <2> HIDE DEF q
  <2>2. QED
    BY <2>1, Turns
<1>2. CASE r = 0
  <2>1. up = n * q + (n - 1) /\ n - 1 \in 0 .. n - 1
    <3> HIDE DEF q, r
    <3>1. QED
      BY <1>1, <1>2
  <2> DEFINE r1 == n - 1
  <2> HIDE DEF up, q
  <2>2. up \div n = q
    <3>1. up = n * q + r1 /\ r1 \in 0 .. n - 1 /\ q \in Int
      BY <1>1, <2>1
    <3> HIDE DEF r1
    <3>2. QED
      BY <3>1, DividedOnce
  <2>3. QED
    BY <1>1, <1>2, <2>2 DEF up, q
<1>3. CASE r # 0
  <2>1. up = n * (q + 1) + (r - 1) /\ r - 1 \in 0 .. n - 1
    <3> HIDE DEF q, r, m
    <3>1. QED
      BY <1>1, <1>3
  <2> HIDE DEF up, q, r
  <2>2. up \div n = q + 1
    <3> DEFINE q1 == q + 1
               r1 == r - 1
    <3>1. up = n * q1 + r1 /\ r1 \in 0 .. n - 1 /\ q1 \in Int
      BY <1>1, <2>1
    <3> HIDE DEF q1, r1
    <3>2. up \div n = q1
      BY <3>1, DividedOnce
    <3>3. QED
      BY <3>2 DEF q1
  <2>3. QED
    BY <1>1, <1>3, <2>2 DEF up, q, r
<1>4. QED
  BY <1>2, <1>3

(* and one less counts from zero. *)
LEMMA RoundedDown ==
  ASSUME NEW n \in Nat \ {0}, NEW a \in Nat \ {0}
  PROVE  (a - 1) \div n = ((a + n - 1) \div n) - 1
<1> DEFINE b == a - 1
           q == b \div n
           r == b % n
           m == n * q
           up == a + n - 1
           q1 == q + 1
<1>1. b \in Nat /\ a = b + 1
  OBVIOUS
<1>2. q \in Int /\ r \in 0 .. n - 1 /\ b = m + r
  <2> HIDE DEF b
  <2>1. QED
    BY <1>1, Divided
<1>3. n * q1 = m + n /\ m \in Int /\ q1 \in Int
  <2> HIDE DEF q
  <2>1. QED
    BY <1>2, Turns
<1> HIDE DEF q, r, m, b
<1>4. up = n * q1 + r
  BY <1>1, <1>2, <1>3
<1> HIDE DEF up, q1
<1>5. up \div n = q1
  BY <1>2, <1>3, <1>4, DividedOnce
<1>6. QED
  BY <1>2, <1>5 DEF up, q, q1, b

-----------------------------------------------------------------------------
(* The rows of a packet.                                                   *)

(* The rows that the bytes of a packet fill, and the last of them in part. *)
RowsFilled(length) == (length + LANE_BYTES - 1) \div LANE_BYTES

(* Every packet takes rows, an even number and enough for its words. *)
LEMMA RowsTaken ==
  ASSUME NEW length \in Nat \ {0}
  PROVE  /\ RowsFilled(length) \in Nat \ {0}
         /\ released_rows(length) = Even(RowsFilled(length))
         /\ released_rows(length) \in Nat /\ released_rows(length) >= 2
         /\ released_rows(length) % 2 = 0
         /\ RowsFilled(length) <= released_rows(length)
         /\ (length - 1) \div LANE_BYTES = RowsFilled(length) - 1
<1> DEFINE f == RowsFilled(length)
           n == LANE_BYTES
           l == length - 1
<1>1. n \in Nat \ {0} /\ l \in Nat
  BY RxRAMAssumption
<1>2. l \div n \in Nat
  <2> HIDE DEF l, n
  <2>1. QED
    BY <1>1, DividedNat
<1>3. l \div n = f - 1 /\ f \in Int
  <2>1. (length - 1) \div n = ((length + n - 1) \div n) - 1
    <3> HIDE DEF n
    <3>1. QED
      BY <1>1, RoundedDown
  <2>2. length + n - 1 \in Int
    BY <1>1
  <2>3. (length + n - 1) \div n \in Int
    <3> DEFINE x == length + n - 1
    <3> HIDE DEF n, x
    <3>1. x \div n \in Int
      BY <1>1, <2>2, Divided DEF x
    <3>2. QED
      BY <3>1 DEF x
  <2>4. QED
    BY <2>1, <2>3 DEF RowsFilled
<1>4. released_rows(length) = Even(f)
  BY DEF released_rows, RowsFilled
<1> HIDE DEF f
<1>5. f \in Nat \ {0}
  <2> DEFINE q == l \div n
  <2> HIDE DEF q
  <2>1. q \in Nat /\ q = f - 1 /\ f \in Int
    BY <1>2, <1>3 DEF q
  <2>2. QED
    BY <2>1
<1>6. Even(f) \in Nat /\ Even(f) % 2 = 0 /\ f <= Even(f)
  BY <1>5, EvenIs
<1>7. Even(f) >= 2
  BY <1>5, <1>6
<1>8. QED
  BY <1>3, <1>4, <1>5, <1>6, <1>7 DEF f

(* The largest frame takes the most rows. *)
LEMMA RowsFit ==
  ASSUME NEW length \in 1 .. MAX_LENGTH
  PROVE  released_rows(length) <= MAX_PACKET_ROWS
<1> DEFINE n == LANE_BYTES
           a == length + n - 1
           b == MAX_LENGTH + n - 1
<1>1. n \in Nat \ {0} /\ a \in Nat /\ b \in Nat /\ a <= b /\ length \in Nat \ {0}
      /\ MAX_LENGTH \in Nat \ {0}
  BY RxRAMAssumption
<1>2. a \div n <= b \div n
  <2> HIDE DEF a, b, n
  <2>1. QED
    BY <1>1, DividedGrows
<1>3. RowsFilled(length) <= RowsFilled(MAX_LENGTH)
  BY <1>2 DEF RowsFilled
<1>4. /\ RowsFilled(length) \in Nat /\ RowsFilled(MAX_LENGTH) \in Nat
      /\ released_rows(length) = Even(RowsFilled(length))
      /\ MAX_PACKET_ROWS = Even(RowsFilled(MAX_LENGTH))
  BY <1>1, RowsTaken DEF MAX_PACKET_ROWS
<1>5. \A x, y \in Nat : x <= y => Even(x) <= Even(y)
  BY DEF Even
<1>6. QED
  BY <1>3, <1>4, <1>5

(* The sizes are numbers. *)
LEMMA Sizes ==
  /\ LANE_BYTES \in Nat \ {0} /\ LOGICAL_ROWS \in Nat \ {0} /\ MAX_LENGTH \in Nat \ {0}
  /\ COMPLETION_FIFO_WORDS \in Nat \ {0} /\ RELEASE_SLOTS \in Nat \ {0}
BY RxRAMAssumption

(* The wire brings frames of more than a beat. *)
LEMMA LengthIs ==
  ASSUME NEW l \in FrameLengths
  PROVE  l \in Nat \ {0} /\ l \in 1 .. MAX_LENGTH /\ l > LANE_BYTES
<1>1. l \in LANE_BYTES + 1 .. MAX_LENGTH
  BY RxRAMAssumption
<1>2. QED
  BY <1>1, Sizes

(* A packet of the store. *)
LEMMA PacketIs ==
  ASSUME NEW p \in Packets
  PROVE  /\ p.row \in 0 .. LOGICAL_ROWS - 1 /\ p.row \in Int /\ p.length \in FrameLengths
         /\ p.length \in Nat \ {0} /\ p.length \in 1 .. MAX_LENGTH
         /\ RowsFilled(p.length) \in Nat /\ p.id \in Ids /\ p.id \in Nat
<1>1. p.row \in 0 .. LOGICAL_ROWS - 1 /\ p.length \in FrameLengths /\ p.id \in Ids
  BY DEF Packets
<1>2. p.length \in Nat \ {0} /\ p.length \in 1 .. MAX_LENGTH
  BY <1>1, LengthIs
<1>3. RowsFilled(p.length) \in Nat
  BY <1>2, RowsTaken
<1>4. p.row \in Int
  BY <1>1, Sizes
<1>5. p.id \in Nat
  BY <1>1, RxRAMAssumption
<1>6. QED
  BY <1>1, <1>2, <1>3, <1>4, <1>5

-----------------------------------------------------------------------------
(* The region as a row of packets.                                         *)

(* Whole turns lead back. *)
LEMMA RowTurns ==
  ASSUME NEW a \in Int, NEW k \in Int
  PROVE  Row(a + LOGICAL_ROWS * k) = Row(a)
<1> DEFINE n == LOGICAL_ROWS
           x == Row(a)
           m == n * k
           b == a + m
<1>1. n \in Nat \ {0} /\ m \in Int
  BY RxRAMAssumption
<1>2. x \in 0 .. n - 1 /\ \E j \in Int : n * j \in Int /\ a = n * j + x
  BY RowIn
<1>3. PICK j \in Int : n * j \in Int /\ a = n * j + x
  BY <1>2
<1>4. n * (j + k) = n * j + m /\ j + k \in Int
  <2> HIDE DEF n
  <2>1. QED
    BY <1>1, Turns
<1> HIDE DEF m, x
<1>5. b = n * (j + k) + x
  BY <1>1, <1>2, <1>3, <1>4
<1> HIDE DEF b
<1>6. Row(b) = x
  BY <1>2, <1>4, <1>5, RowOnce
<1>7. QED
  BY <1>6 DEF b, m, x

(* A distance may be taken from a row or from any place it stands for. *)
LEMMA RowDiff ==
  ASSUME NEW a \in Int, NEW b \in Int
  PROVE  Row(a - Row(b)) = Row(a - b) /\ Row(Row(a) - b) = Row(a - b)
<1> DEFINE n == LOGICAL_ROWS
           x == Row(b)
           d == a - b
<1>1. x \in 0 .. n - 1 /\ \E k \in Int : n * k \in Int /\ b = n * k + x
  BY RowIn
<1>2. PICK k \in Int : n * k \in Int /\ b = n * k + x
  BY <1>1
<1>3. n \in Nat
  BY RxRAMAssumption
<1>4. Row(d + n * k) = Row(d)
  <2>1. d \in Int
    OBVIOUS
  <2> HIDE DEF d
  <2>2. QED
    BY <2>1, RowTurns
<1>5. a - x = d + n * k
  <2> HIDE DEF n, x
  <2>1. x \in Int
    BY <1>1, <1>3
  <2>2. QED
    BY <1>2, <2>1
<1>6. Row(a - x) = Row(d)
  BY <1>4, <1>5
<1> DEFINE c == -b
<1>7. c \in Int /\ a - b = a + c /\ \A y \in Int : y - b = y + c
  OBVIOUS
<1>8. Row(a) \in Int
  <2>1. Row(a) \in 0 .. n - 1
    BY RowIn
  <2>2. QED
    BY <2>1, <1>3
<1>9. Row(Row(a) + c) = Row(a + c)
  <2> HIDE DEF c
  <2>1. QED
    BY <1>7, RowSum
<1>10. QED
  BY <1>6, <1>7, <1>8, <1>9

(* A row of the store. *)
InStore(r) == r \in 0 .. LOGICAL_ROWS - 1

(* How many rows a packet occupies. *)
Rows(p) == released_rows(p.length)

(* How far its first row is from the row given. *)
Place(p, row) == Row(p.row - row)

(* It is a block of the interleaved banks. *)
Block(p) == InStore(p.row) /\ p.row % 2 = 0 /\ p.length \in 1 .. MAX_LENGTH

(* Seen from a row, one packet ends before another begins. *)
Before(p, q, row) == Place(p, row) + Rows(p) <= Place(q, row)

(* The packets of A are the first rows of the store, from a row on. *)
Tiled(A, row, used) ==
  /\ InStore(row) /\ row % 2 = 0 /\ used \in 0 .. LOGICAL_ROWS /\ used % 2 = 0
  /\ \A p \in A : Block(p) /\ Place(p, row) + Rows(p) <= used
  /\ \A p, q \in A : p = q \/ Before(p, q, row) \/ Before(q, p, row)
  /\ \A i \in 0 .. used - 1 :
       \E p \in A : Place(p, row) <= i /\ i < Place(p, row) + Rows(p)

(* A packet has an even number of rows, at least two. *)
LEMMA RowsOfBlock ==
  ASSUME NEW p, Block(p)
  PROVE  Rows(p) \in Nat /\ Rows(p) >= 2 /\ Rows(p) % 2 = 0 /\ Rows(p) <= MAX_PACKET_ROWS
<1>1. p.length \in Nat \ {0} /\ p.length \in 1 .. MAX_LENGTH
  BY RxRAMAssumption DEF Block
<1>2. QED
  BY <1>1, RowsTaken, RowsFit DEF Rows

(* A distance leads from the row to the packet's. *)
LEMMA Placed ==
  ASSUME NEW p, InStore(p.row), NEW row, InStore(row)
  PROVE  /\ Place(p, row) \in 0 .. LOGICAL_ROWS - 1
         /\ \A i \in Int : Row(p.row + i) = Row(row + (Place(p, row) + i))
         /\ Place(p, row) = 0 <=> p.row = row
<1> DEFINE x == Place(p, row)
           a == p.row
           d == a - row
<1>0. LOGICAL_ROWS \in Nat
  BY RxRAMAssumption
<1>1. a \in Int /\ row \in Int /\ d \in Int
  BY <1>0 DEF InStore
<1>2. x = Row(d)
  BY DEF Place
<1>3. x \in 0 .. LOGICAL_ROWS - 1
  <2> HIDE DEF d, x
  <2>1. QED
    BY <1>1, <1>2, RowIn
<1>4. ASSUME NEW i \in Int PROVE Row(a + i) = Row(row + (x + i))
  <2> DEFINE b == row + i
             y == row + (x + i)
  <2>1. b \in Int
    BY <1>1
  <2>2. Row(Row(d) + b) = Row(d + b)
    <3> HIDE DEF d, b
    <3>1. QED
      BY <1>1, <2>1, RowSum
  <2>3. d + b = a + i /\ y = x + b
    <3> HIDE DEF a, x
    <3>1. QED
      BY <1>1, <1>3, <1>0
  <2>4. QED
    BY <1>2, <2>2, <2>3
<1>5. x = 0 <=> a = row
  <2>1. ASSUME a = row PROVE x = 0
    <3>1. d = 0
      BY <1>1, <2>1
    <3>2. 0 \in 0 .. LOGICAL_ROWS - 1
      BY RxRAMAssumption
    <3>3. QED
      BY <1>2, <3>1, <3>2, RowSmall
  <2>2. ASSUME x = 0 PROVE a = row
    <3>1. Row(a + 0) = Row(row + (0 + 0))
      BY <1>4, <2>2
    <3>2. Row(a) = a /\ Row(row) = row
      BY RowSmall DEF InStore
    <3>3. a + 0 = a /\ row + (0 + 0) = row
      BY <1>1
    <3>4. QED
      BY <3>1, <3>2, <3>3
  <2>3. QED
    BY <2>1, <2>2
<1>6. QED
  BY <1>3, <1>4, <1>5

(* The place of a packet of the region: not behind its end. *)
LEMMA PlaceInRegion ==
  ASSUME NEW A, NEW row, NEW used, Tiled(A, row, used), NEW p \in A
  PROVE  /\ Block(p) /\ Rows(p) \in Nat /\ Rows(p) >= 2 /\ Rows(p) % 2 = 0
         /\ Place(p, row) \in Nat /\ Place(p, row) + Rows(p) <= used
         /\ Rows(p) \in 1 .. used
         /\ used \in Nat /\ used <= LOGICAL_ROWS /\ LOGICAL_ROWS \in Nat \ {0}
<1>1. LOGICAL_ROWS \in Nat \ {0} /\ used \in 0 .. LOGICAL_ROWS
  BY RxRAMAssumption DEF Tiled
<1>2. Block(p) /\ Rows(p) \in Nat /\ Rows(p) >= 2 /\ Rows(p) % 2 = 0
  BY RowsOfBlock DEF Tiled
<1>3. Place(p, row) \in 0 .. LOGICAL_ROWS - 1
  BY <1>2, Placed DEF Tiled, Block
<1>4. Place(p, row) + Rows(p) <= used
  BY DEF Tiled
<1>5. QED
  BY <1>1, <1>2, <1>3, <1>4

(* The rows of two packets are apart, *)
LEMMA RowsApart ==
  ASSUME NEW A, NEW row, NEW used, Tiled(A, row, used), NEW p \in A, NEW q \in A, p # q,
         NEW i \in 0 .. Rows(p) - 1, NEW j \in 0 .. Rows(q) - 1
  PROVE  Row(p.row + i) # Row(q.row + j)
<1> DEFINE x == Place(p, row)
           y == Place(q, row)
           a == x + i
           b == y + j
<1>1. /\ x \in Nat /\ y \in Nat /\ Rows(p) \in Nat /\ Rows(q) \in Nat
      /\ x + Rows(p) <= used /\ y + Rows(q) <= used /\ used <= LOGICAL_ROWS
      /\ used \in Nat /\ LOGICAL_ROWS \in Nat /\ row \in Int /\ InStore(row)
      /\ InStore(p.row) /\ InStore(q.row)
  BY PlaceInRegion DEF Tiled, InStore, Block
<1>2. x + Rows(p) <= y \/ y + Rows(q) <= x
  BY DEF Tiled, Before
<1>3. Row(p.row + i) = Row(row + a) /\ Row(q.row + j) = Row(row + b)
  BY <1>1, Placed
<1> HIDE DEF x, y
<1>4. a \in 0 .. LOGICAL_ROWS - 1 /\ b \in 0 .. LOGICAL_ROWS - 1 /\ a # b
  BY <1>1, <1>2
<1> DEFINE r == row + a
           s == row + b
<1>5. r \in Int /\ s \in Int /\ r # s /\ r - s < LOGICAL_ROWS /\ s - r < LOGICAL_ROWS
  BY <1>1, <1>4
<1> HIDE DEF a, b
<1>6. Row(r) # Row(s)
  <2> HIDE DEF r, s
  <2>1. QED
    BY <1>5, RowApart
<1>7. QED
  BY <1>3, <1>6

(* and apart from the free rows. *)
LEMMA FreeRows ==
  ASSUME NEW A, NEW row, NEW used, Tiled(A, row, used), NEW p \in A,
         NEW i \in 0 .. Rows(p) - 1, NEW b \in used .. LOGICAL_ROWS - 1
  PROVE  Row(p.row + i) # Row(row + b)
<1> DEFINE x == Place(p, row)
           a == x + i
           r == row + a
           s == row + b
<1>1. /\ x \in Nat /\ Rows(p) \in Nat /\ x + Rows(p) <= used /\ used <= LOGICAL_ROWS
      /\ used \in Nat /\ LOGICAL_ROWS \in Nat /\ row \in Int /\ InStore(row)
      /\ InStore(p.row)
  BY PlaceInRegion DEF Tiled, InStore, Block
<1>2. Row(p.row + i) = Row(row + a)
  BY <1>1, Placed
<1> HIDE DEF x
<1>3. a \in 0 .. LOGICAL_ROWS - 1 /\ a < b
  BY <1>1
<1>4. r \in Int /\ s \in Int /\ r # s /\ r - s < LOGICAL_ROWS /\ s - r < LOGICAL_ROWS
  BY <1>1, <1>3
<1>5. Row(r) # Row(s)
  <2> HIDE DEF r, s
  <2>1. QED
    BY <1>4, RowApart
<1>6. QED
  BY <1>2, <1>5

(* When the oldest row moves on, what lies behind is nearer. *)
LEMMA NearerPlace ==
  ASSUME NEW q, InStore(q.row), NEW row, InStore(row), NEW r \in 0 .. Place(q, row)
  PROVE  Place(q, Row(row + r)) = Place(q, row) - r
<1> DEFINE a == q.row
           b == row + r
           x == Place(q, row)
           d == a - row
           e == x - r
<1>0. LOGICAL_ROWS \in Nat
  BY RxRAMAssumption
<1>1. x \in 0 .. LOGICAL_ROWS - 1
  BY Placed
<1>2. a \in Int /\ row \in Int /\ r \in Int /\ b \in Int /\ d \in Int /\ x = Row(d)
      /\ r \in 0 .. x
  BY <1>0, <1>1 DEF InStore, Place
<1>3. Row(a - Row(b)) = Row(a - b)
  <2> HIDE DEF a, b
  <2>1. QED
    BY <1>2, RowDiff
<1>4. Row(Row(d) - r) = Row(d - r)
  <2> HIDE DEF d
  <2>1. QED
    BY <1>2, RowDiff
<1>5. d - r = a - b
  BY <1>2
<1>6. e \in 0 .. LOGICAL_ROWS - 1
  <2> HIDE DEF x
  <2>1. QED
    BY <1>0, <1>1, <1>2
<1>7. Row(e) = e
  <2> HIDE DEF e
  <2>1. QED
    BY <1>6, RowSmall
<1>8. QED
  BY <1>2, <1>3, <1>4, <1>5, <1>7 DEF Place

(* The oldest packet given back: the others are the region. *)
LEMMA TiledFree ==
  ASSUME NEW A, NEW row, NEW used, Tiled(A, row, used), NEW p \in A, p.row = row
  PROVE  Tiled(A \ {p}, Row(row + Rows(p)), used - Rows(p))
<1> DEFINE r == Rows(p)
           to == Row(row + r)
           B == A \ {p}
<1>1. /\ r \in Nat /\ r >= 2 /\ r % 2 = 0 /\ r <= used
      /\ used \in Nat /\ used <= LOGICAL_ROWS /\ LOGICAL_ROWS \in Nat \ {0}
      /\ row \in Int /\ row % 2 = 0 /\ used % 2 = 0 /\ InStore(row)
  BY PlaceInRegion DEF Tiled, InStore
<1>2. Place(p, row) = 0
  BY Placed DEF Tiled, Block
<1>3. InStore(to) /\ to % 2 = 0 /\ used - r \in 0 .. LOGICAL_ROWS /\ (used - r) % 2 = 0
  <2> DEFINE b == row + r
  <2>1. b \in Int /\ b % 2 = 0
    BY <1>1, EvenSum
  <2>2. InStore(Row(b)) /\ Row(b) % 2 = 0
    <3> HIDE DEF b
    <3>1. QED
      BY <2>1, RowIn, EvenRow DEF InStore
  <2>3. (used - r) % 2 = 0
    BY <1>1, EvenSum
  <2>4. QED
    BY <1>1, <2>2, <2>3
<1>4. ASSUME NEW q \in B
      PROVE  /\ Block(q) /\ Place(q, to) = Place(q, row) - r /\ Place(q, row) >= r
             /\ Place(q, row) \in Nat /\ Rows(q) \in Nat
             /\ Place(q, row) + Rows(q) <= used
  <2>1. /\ Block(q) /\ Place(q, row) \in Nat /\ Rows(q) \in Nat /\ Rows(q) >= 2
        /\ Place(q, row) + Rows(q) <= used
    BY PlaceInRegion
  <2>2. Before(p, q, row) \/ Before(q, p, row)
    BY DEF Tiled
  <2>3. Place(q, row) >= r
    BY <1>1, <1>2, <2>1, <2>2 DEF Before
  <2>4. Place(q, to) = Place(q, row) - r
    <3>1. r \in 0 .. Place(q, row) /\ InStore(q.row)
      BY <1>1, <2>1, <2>3 DEF Block
    <3> HIDE DEF r
    <3>2. QED
      BY <1>1, <3>1, NearerPlace
  <2>5. QED
    BY <2>1, <2>3, <2>4
<1> HIDE DEF r, to
<1>5. \A q \in B : Block(q) /\ Place(q, to) + Rows(q) <= used - r
  BY <1>1, <1>4
<1>6. ASSUME NEW q \in B, NEW s \in B, q # s
      PROVE  Before(q, s, to) \/ Before(s, q, to)
  <2>1. Before(q, s, row) \/ Before(s, q, row)
    BY <1>6 DEF Tiled
  <2>2. /\ Place(q, to) = Place(q, row) - r /\ Place(s, to) = Place(s, row) - r
        /\ Place(q, row) \in Nat /\ Place(s, row) \in Nat /\ Rows(q) \in Nat /\ Rows(s) \in Nat
    BY <1>4
  <2>3. QED
    BY <1>1, <2>1, <2>2 DEF Before
<1>7. ASSUME NEW i \in 0 .. used - r - 1
      PROVE  \E q \in B : Place(q, to) <= i /\ i < Place(q, to) + Rows(q)
  <2> DEFINE j == i + r
  <2>1. j \in 0 .. used - 1 /\ j >= r /\ i = j - r /\ j \in Int
    BY <1>1
  <2> HIDE DEF j
  <2>2. PICK q \in A : Place(q, row) <= j /\ j < Place(q, row) + Rows(q)
    BY <2>1 DEF Tiled
  <2>3. q # p
    BY <1>1, <1>2, <2>1, <2>2 DEF r
  <2>4. Place(q, to) = Place(q, row) - r /\ Place(q, row) \in Nat /\ Rows(q) \in Nat
    BY <1>4, <2>3
  <2>5. Place(q, to) <= i /\ i < Place(q, to) + Rows(q)
    BY <1>1, <2>1, <2>2, <2>4
  <2>6. QED
    BY <2>3, <2>5
<1>8. Tiled(B, to, used - r)
  <2>1. \A q, s \in B : q = s \/ Before(q, s, to) \/ Before(s, q, to)
    BY <1>6
  <2> HIDE DEF B
  <2>2. QED
    BY <1>3, <1>5, <1>7, <2>1 DEF Tiled
<1>9. QED
  BY <1>8 DEF r, to

(* A packet behind the last row: the region is longer by its rows. *)
LEMMA TiledAppend ==
  ASSUME NEW A, NEW row, NEW used, Tiled(A, row, used), NEW p, Block(p),
         p.row = Row(row + used), used + Rows(p) <= LOGICAL_ROWS
  PROVE  Tiled(A \cup {p}, row, used + Rows(p))
<1> DEFINE r == Rows(p)
           B == A \cup {p}
<1>1. /\ r \in Nat /\ r >= 2 /\ r % 2 = 0
      /\ used \in Nat /\ used <= LOGICAL_ROWS /\ LOGICAL_ROWS \in Nat \ {0}
      /\ row \in Int /\ row % 2 = 0 /\ used % 2 = 0 /\ InStore(row)
  <2>1. LOGICAL_ROWS \in Nat \ {0}
    BY RxRAMAssumption
  <2>2. QED
    BY <2>1, RowsOfBlock DEF Tiled, InStore
<1>2. Place(p, row) = used
  <2> DEFINE b == row + used
  <2>1. b \in Int /\ b - row = used /\ used \in 0 .. LOGICAL_ROWS - 1
    BY <1>1
  <2>2. Row(Row(b) - row) = Row(b - row)
    <3> HIDE DEF b
    <3>1. QED
      BY <1>1, <2>1, RowDiff
  <2>3. Row(used) = used
    BY <2>1, RowSmall
  <2>4. QED
    BY <2>1, <2>2, <2>3 DEF Place
<1>3. \A q \in A : /\ Block(q) /\ Place(q, row) \in Nat /\ Rows(q) \in Nat
                   /\ Place(q, row) + Rows(q) <= used
  BY PlaceInRegion
<1> HIDE DEF r
<1>4. used + r \in 0 .. LOGICAL_ROWS /\ (used + r) % 2 = 0
  <2>1. (used + r) % 2 = 0
    BY <1>1, EvenSum
  <2>2. QED
    BY <1>1, <2>1 DEF r
<1>5. \A q \in B : Block(q) /\ Place(q, row) + Rows(q) <= used + r
  BY <1>1, <1>2, <1>3 DEF r
<1>6. \A q, s \in B : q = s \/ Before(q, s, row) \/ Before(s, q, row)
  <2>1. \A q \in A : Before(q, p, row)
    BY <1>2, <1>3 DEF Before
  <2>2. QED
    BY <2>1 DEF Tiled
<1>7. ASSUME NEW i \in 0 .. used + r - 1
      PROVE  \E q \in B : Place(q, row) <= i /\ i < Place(q, row) + Rows(q)
  <2>1. CASE i < used
    <3>1. i \in 0 .. used - 1
      BY <1>1, <2>1
    <3>2. QED
      BY <3>1 DEF Tiled
  <2>2. CASE i >= used
    <3>1. Place(p, row) <= i /\ i < Place(p, row) + Rows(p)
      BY <1>1, <1>2, <2>2 DEF r
    <3>2. QED
      BY <3>1
  <2>3. QED
    BY <1>1, <2>1, <2>2
<1>8. Tiled(B, row, used + r)
  <2> HIDE DEF B
  <2>1. QED
    BY <1>1, <1>4, <1>5, <1>6, <1>7 DEF Tiled
<1>9. QED
  BY <1>8 DEF r

(* What a region is made of, as numbers. *)
LEMMA TiledNumbers ==
  ASSUME NEW A, NEW row, NEW used, Tiled(A, row, used)
  PROVE  row \in Int /\ used \in Nat /\ used <= LOGICAL_ROWS /\ LOGICAL_ROWS \in Nat \ {0}
         /\ row \in 0 .. LOGICAL_ROWS - 1
BY RxRAMAssumption DEF Tiled, InStore

(* A region has at most a packet to every two of its rows.                 *)
LEMMA PacketsAreFew ==
  ASSUME NEW A, NEW row, NEW used, Tiled(A, row, used)
  PROVE  IsFiniteSet(A) /\ Cardinality(A) <= used \div 2
<1> DEFINE h == used \div 2
           T == 0 .. h - 1
           f == [p \in A |-> Place(p, row) \div 2]
<1>1. LOGICAL_ROWS \in Nat /\ used \in Nat /\ h \in Nat /\ used = 2 * h
  <2>1. LOGICAL_ROWS \in Nat /\ used \in Nat /\ used % 2 = 0
    BY TiledNumbers DEF Tiled
  <2>2. QED
    BY <2>1
<1>2. ASSUME NEW p \in A
      PROVE  /\ Place(p, row) \in Nat /\ Place(p, row) % 2 = 0 /\ Place(p, row) < used
             /\ Rows(p) \in Nat /\ Rows(p) >= 2
  <2>1. /\ Block(p) /\ Place(p, row) \in Nat /\ Place(p, row) + Rows(p) <= used /\ Rows(p) >= 2
        /\ Rows(p) \in Nat /\ used \in Nat /\ used <= LOGICAL_ROWS
    BY PlaceInRegion
  <2>2. (p.row - row) % 2 = 0 /\ p.row - row \in Int
    <3>1. p.row % 2 = 0 /\ row % 2 = 0 /\ p.row \in Int /\ row \in Int
      BY <1>1, <2>1 DEF Block, Tiled, InStore
    <3> DEFINE a == p.row
    <3>2. a % 2 = 0 /\ row % 2 = 0 /\ a \in Int /\ row \in Int
      BY <3>1
    <3> HIDE DEF a
    <3>3. (a - row) % 2 = 0 /\ a - row \in Int
      BY <3>2, EvenSum
    <3>4. QED
      BY <3>3 DEF a
  <2>3. Place(p, row) % 2 = 0
    <3> DEFINE d == p.row - row
    <3> HIDE DEF d
    <3>1. Row(d) % 2 = 0
      BY <2>2, EvenRow DEF d
    <3>2. QED
      BY <3>1 DEF Place, d
  <2>4. QED
    BY <1>1, <2>1, <2>3
<1>3. f \in [A -> T]
  <2>1. \A p \in A : Place(p, row) \div 2 \in T
    BY <1>1, <1>2
  <2>2. QED
    BY <2>1
<1>4. ASSUME NEW p \in A, NEW q \in A, f[p] = f[q] PROVE p = q
  <2>1. Place(p, row) = Place(q, row)
    BY <1>2, <1>4
  <2>2. QED
    BY <1>2, <2>1 DEF Tiled, Before
<1>5. f \in Injection(A, T)
  BY <1>3, <1>4 DEF Injection, IsInjective
<1>6. IsFiniteSet(T) /\ Cardinality(T) = h
  <2> HIDE DEF h
  <2>1. 0 \in Int /\ h - 1 \in Int /\ h \in Nat
    BY <1>1
  <2>2. IsFiniteSet(0 .. h - 1) 
        /\ Cardinality(0 .. h - 1) = IF 0 > h - 1 THEN 0 ELSE (h - 1) - 0 + 1
    BY <2>1, FS_Interval
  <2>3. QED
    BY <2>1, <2>2
<1>7. IsFiniteSet(A) /\ Cardinality(A) <= Cardinality(T)
  <2> HIDE DEF f, T
  <2>1. QED
    BY <1>5, <1>6, FS_Injection
<1>8. QED
  BY <1>6, <1>7

-----------------------------------------------------------------------------
(* Releases.                                                               *)

(* No two packets of a region begin at the same row. *)
LEMMA RowsDiffer ==
  ASSUME NEW A, NEW row, NEW used, Tiled(A, row, used), NEW p \in A, NEW q \in A, p.row = q.row
  PROVE  p = q
<1>1. Place(p, row) = Place(q, row)
  BY DEF Place
<1>2. Rows(p) \in Nat /\ Rows(p) >= 2 /\ Rows(q) \in Nat /\ Rows(q) >= 2 /\ Place(p, row) \in Nat
  BY PlaceInRegion
<1>3. QED
  BY <1>1, <1>2 DEF Tiled, Before

(* As many packets as there are slots: none can be released in vain. *)
FewPackets == Cardinality(Allocated) <= RELEASE_SLOTS

(* Before an edge the packets A have the rows in use: the unread ones, the *)
(* deferred ones, and those whose release was lost.                        *)
Holding(A) ==
  /\ Tiled(A, release_row, used_rows)
  /\ Unread \cup deferred \subseteq A
  /\ Unread \cap deferred = {}
  /\ IsFiniteSet(deferred) /\ Cardinality(deferred) <= RELEASE_SLOTS

(* The local variables of _work that the releases change. *)
Locals == {"row", "used", "kept", "added", "error"}

(* Where the loops over the releases stand when those of `done` have been  *)
(* seen: the packets B of A have the rows in use, none of them is given    *)
(* back twice, and none is forgotten without an error.                     *)
Reclaims(st, A, B, done) ==
  /\ DOMAIN st = Locals
  /\ Tiled(B, st.row, st.used) /\ B \subseteq A
  /\ (Unread \ done) \cup st.kept \cup st.added \subseteq B
  /\ st.kept \subseteq deferred /\ st.added \subseteq done
  /\ IsFiniteSet(deferred \cup st.added)
  /\ Cardinality(deferred \cup st.added) <= RELEASE_SLOTS
  /\ st.error \in BOOLEAN
  /\ ~st.error /\ A = Allocated => B = (Unread \ done) \cup st.kept \cup st.added
  /\ Row(st.row + st.used) = Row(release_row + used_rows) /\ st.used <= used_rows
  /\ A = Allocated /\ FewPackets => ~st.error

(* Giving back rows leaves the end of the region where it is. *)
LEMMA FreeKeepsEnd ==
  ASSUME NEW row \in Int, NEW used \in Int, NEW r \in Int
  PROVE  Row(Row(row + r) + (used - r)) = Row(row + used)
<1> DEFINE a == row + r
           b == used - r
<1>1. a \in Int /\ b \in Int /\ a + b = row + used
  OBVIOUS
<1>2. Row(Row(a) + b) = Row(a + b)
  <2> HIDE DEF a, b
  <2>1. QED
    BY <1>1, RowSum
<1>3. QED
  BY <1>1, <1>2

(* Rows given back. *)
LEMMA FreeIs ==
  ASSUME NEW st, DOMAIN st = Locals, NEW p
  PROVE  /\ DOMAIN Free(st, p) = Locals
         /\ Free(st, p).row = Row(st.row + Rows(p)) /\ Free(st, p).used = st.used - Rows(p)
         /\ Free(st, p).kept = st.kept /\ Free(st, p).added = st.added
         /\ Free(st, p).error = st.error
BY DEF Free, Locals, Rows

(* First a deferred release whose turn has come. *)
LEMMA RetireReclaims ==
  ASSUME NEW A, Holding(A),
         NEW st, st = [row |-> release_row, used |-> used_rows, kept |-> deferred,
                       added |-> {}, error |-> FALSE]
  PROVE  \E B : Reclaims(Retire(st), A, B, {})
<1> DEFINE due == {p \in deferred : p.row = st.row}
<1>1. /\ DOMAIN st = Locals
      /\ st.row = release_row /\ st.used = used_rows /\ st.kept = deferred
      /\ st.added = {} /\ st.error = FALSE
  BY DEF Locals
<1>2. deferred \cup {} = deferred
  OBVIOUS
<1>3. release_row \in Int /\ used_rows \in Nat /\ used_rows \in Int
  <2>1. release_row \in Int /\ used_rows \in Nat
    BY TiledNumbers DEF Holding
  <2>2. QED
    BY <2>1
<1>4. CASE due = {}
  <2>1. Retire(st) = st
    BY <1>4 DEF Retire
  <2>2. Reclaims(st, A, A, {})
    BY <1>1, <1>2, <1>3 DEF Reclaims, Holding, Allocated
  <2>3. QED
    BY <2>1, <2>2
<1>5. CASE due # {}
  <2> DEFINE p == CHOOSE p \in due : TRUE
             gone == [st EXCEPT !.kept = @ \ {p}]
             to == Free(gone, p)
             B == A \ {p}
  <2>1. p \in deferred /\ p.row = release_row
    BY <1>1, <1>5
  <2>2. p \in A
    BY <2>1 DEF Holding
  <2>3. Rows(p) \in 1 .. used_rows /\ Rows(p) \in Nat
    BY <2>2, PlaceInRegion DEF Holding
  <2>4. Retire(st) = to
    <3>1. released_rows(p.length) \in 1 .. st.used
      BY <1>1, <2>3 DEF Rows
    <3>2. Retire(st) = IF released_rows(p.length) \in 1 .. st.used
                       THEN Free(gone, p) ELSE [gone EXCEPT !.error = TRUE]
      BY <1>5 DEF Retire
    <3>3. QED
      BY <3>1, <3>2
  <2> HIDE DEF p, due
  <2>5. /\ DOMAIN to = Locals
        /\ to.row = Row(release_row + Rows(p)) /\ to.used = used_rows - Rows(p)
        /\ to.kept = deferred \ {p} /\ to.added = {} /\ to.error = FALSE
    <3>1. /\ DOMAIN gone = Locals /\ gone.row = release_row /\ gone.used = used_rows
          /\ gone.kept = deferred \ {p} /\ gone.added = {} /\ gone.error = FALSE
      BY <1>1 DEF Locals
    <3> HIDE DEF gone
    <3>2. QED
      BY <3>1, FreeIs
  <2> HIDE DEF to
  <2>6. Tiled(B, to.row, to.used)
    <3>1. to.row = Row(release_row + Rows(p)) /\ to.used = used_rows - Rows(p)
      BY <2>5
    <3>2. QED
      BY <2>1, <2>2, <3>1, TiledFree DEF Holding
  <2>7. Row(to.row + to.used) = Row(release_row + used_rows) /\ to.used <= used_rows
    <3>1. to.row = Row(release_row + Rows(p)) /\ to.used = used_rows - Rows(p)
      BY <2>5
    <3> DEFINE r == Rows(p)
    <3>2. r \in Int /\ r >= 0
      BY <2>3
    <3> HIDE DEF r
    <3>3. Row(Row(release_row + r) + (used_rows - r)) = Row(release_row + used_rows)
      BY <1>3, <3>2, FreeKeepsEnd
    <3>4. QED
      BY <1>3, <3>1, <3>2, <3>3 DEF r
  <2>8. p \notin Unread /\ Unread \cup (deferred \ {p}) \subseteq B
    BY <2>1 DEF Holding
  <2>9. A = Allocated => B = Unread \cup (deferred \ {p})
    BY <2>8 DEF Allocated
  <2>10. Reclaims(to, A, B, {})
    BY <1>2, <2>5, <2>6, <2>7, <2>8, <2>9 DEF Reclaims, Holding
  <2>11. QED
    BY <2>4, <2>10
<1>6. QED
  BY <1>4, <1>5

(* Then what a port releases: the oldest packet, one whose turn has not    *)
(* come yet, or one that finds no slot.                                    *)
LEMMA ReleaseReclaims ==
  ASSUME NEW A, Holding(A), NEW st, NEW B, NEW done \in SUBSET held,
         Reclaims(st, A, B, done), NEW p \in held \ done
  PROVE  \E C : Reclaims(Release(st, p), A, C, done \cup {p})
<1> DEFINE more == done \cup {p}
           size == Cardinality(deferred \cup st.added)
<1>1. p \in Unread \ done /\ p \in B /\ p \in A /\ p \notin deferred /\ p \notin st.added
  BY DEF Reclaims, Holding, Unread
<1>2. Rows(p) \in 1 .. st.used /\ Rows(p) \in Nat
  BY <1>1, PlaceInRegion DEF Reclaims
<1>3. st.row \in Int /\ st.used \in Nat /\ st.used \in Int /\ used_rows \in Nat
  <2>1. st.row \in Int /\ st.used \in Nat
    BY TiledNumbers DEF Reclaims
  <2>2. used_rows \in Nat
    BY TiledNumbers DEF Holding
  <2>3. QED
    BY <2>1, <2>2
<1>4. CASE p.row = st.row
  <2> DEFINE to == Free(st, p)
             C == B \ {p}
             r == Rows(p)
  <2>1. Release(st, p) = to
    BY <1>2, <1>4 DEF Release, Rows
  <2>2. /\ DOMAIN to = Locals /\ to.row = Row(st.row + r) /\ to.used = st.used - r
        /\ to.kept = st.kept /\ to.added = st.added /\ to.error = st.error
    BY FreeIs DEF Reclaims
  <2> HIDE DEF to
  <2>3. Tiled(C, to.row, to.used)
    BY <1>1, <1>4, <2>2, TiledFree DEF Reclaims
  <2>4. r \in Int /\ r >= 0
    BY <1>2
  <2> HIDE DEF r
  <2>5. Row(to.row + to.used) = Row(release_row + used_rows) /\ to.used <= used_rows
    <3>1. Row(Row(st.row + r) + (st.used - r)) = Row(st.row + st.used)
      BY <1>3, <2>4, FreeKeepsEnd
    <3>2. QED
      BY <1>3, <2>2, <2>4, <3>1 DEF Reclaims
  <2>6. p \notin st.kept
    BY <1>1 DEF Reclaims
  <2>7. (Unread \ more) \cup to.kept \cup to.added \subseteq C
    BY <1>1, <2>2, <2>6 DEF Reclaims
  <2>8. ~to.error /\ A = Allocated => C = (Unread \ more) \cup to.kept \cup to.added
    BY <1>1, <2>2, <2>6 DEF Reclaims
  <2>9. C \subseteq A /\ to.kept \subseteq deferred /\ to.added \subseteq more
    BY <2>2 DEF Reclaims
  <2>10. /\ IsFiniteSet(deferred \cup to.added) /\ to.error \in BOOLEAN
         /\ Cardinality(deferred \cup to.added) <= RELEASE_SLOTS
         /\ A = Allocated /\ FewPackets => ~to.error
    BY <2>2 DEF Reclaims
  <2> HIDE DEF C, more
  <2>11. Reclaims(to, A, C, more)
    BY <2>2, <2>3, <2>5, <2>7, <2>8, <2>9, <2>10 DEF Reclaims
  <2>12. QED
    BY <2>1, <2>11 DEF more
<1>5. CASE p.row # st.row
  <2> DEFINE to == Release(st, p)
             twice == \E q \in deferred : q.row = p.row
  <2>1. /\ DOMAIN to = Locals /\ to.row = st.row /\ to.used = st.used /\ to.kept = st.kept
        /\ to.added = IF size < RELEASE_SLOTS THEN st.added \cup {p} ELSE st.added
        /\ to.error <=> st.error \/ twice \/ size >= RELEASE_SLOTS
        /\ to.error \in BOOLEAN
    <3> DEFINE error == st.error \/ twice \/ size >= RELEASE_SLOTS
               added == IF size < RELEASE_SLOTS THEN st.added \cup {p} ELSE st.added
    <3>1. to = [st EXCEPT !.error = error, !.added = added]
      BY <1>2, <1>5 DEF Release, Rows
    <3>2. error \in BOOLEAN
      OBVIOUS
    <3> HIDE DEF to, error, added
    <3>3. /\ DOMAIN to = Locals /\ to.row = st.row /\ to.used = st.used /\ to.kept = st.kept
          /\ to.added = added /\ to.error = error
      BY <3>1 DEF Locals, Reclaims
    <3>4. QED
      BY <3>2, <3>3 DEF error, added
  <2> HIDE DEF to
  <2>2. size \in Nat /\ IsFiniteSet(deferred \cup st.added)
    BY FS_CardinalityType DEF Reclaims
  <2>3. ~twice
    <3>1. SUFFICES ASSUME NEW q \in deferred, q.row = p.row PROVE FALSE
      OBVIOUS
    <3>2. q \in A
      BY DEF Holding
    <3>3. q = p
      BY <1>1, <3>1, <3>2, RowsDiffer DEF Holding
    <3>4. QED
      BY <1>1, <3>3
  <2>4. RELEASE_SLOTS \in Nat
    BY RxRAMAssumption
  <2> DEFINE wait == deferred \cup st.added
  <2>5. /\ IsFiniteSet(wait \cup {p}) /\ Cardinality(wait \cup {p}) = size + 1
    BY <1>1, <2>2, FS_AddElement
  <2>6. wait \cup {p} \subseteq A
    BY <1>1 DEF Reclaims, Holding
  <2>7. A = Allocated /\ FewPackets => size < RELEASE_SLOTS
    <3>1. IsFiniteSet(A)
      BY PacketsAreFew DEF Holding
    <3>2. Cardinality(wait \cup {p}) <= Cardinality(A)
      <4> HIDE DEF wait
      <4>1. QED
        BY <2>6, <3>1, FS_Subset
    <3>3. Cardinality(A) \in Nat
      BY <3>1, FS_CardinalityType
    <3> HIDE DEF size, wait
    <3>4. QED
      BY <2>2, <2>4, <2>5, <3>2, <3>3 DEF FewPackets
  <2>8. CASE size < RELEASE_SLOTS
    <3>1. to.added = st.added \cup {p} /\ to.error = st.error
      BY <2>1, <2>2, <2>3, <2>4, <2>8 DEF Reclaims
    <3>2. deferred \cup to.added = wait \cup {p}
      BY <3>1
    <3>3. IsFiniteSet(deferred \cup to.added) /\ Cardinality(deferred \cup to.added) <= RELEASE_SLOTS
      <4>1. deferred \cup to.added = wait \cup {p} /\ size < RELEASE_SLOTS /\ size \in Nat
        BY <2>2, <2>8, <3>2
      <4> HIDE DEF size, wait
      <4>2. QED
        BY <2>4, <2>5, <4>1
    <3> HIDE DEF size, wait
    <3>4. Reclaims(to, A, B, more)
      BY <1>1, <2>1, <3>1, <3>3 DEF Reclaims
    <3>5. QED
      BY <3>4 DEF to, more
  <2>9. CASE ~(size < RELEASE_SLOTS)
    <3>1. to.added = st.added /\ to.error
      BY <2>1, <2>2, <2>4, <2>9
    <3> HIDE DEF size, wait
    <3>2. Reclaims(to, A, B, more)
      BY <1>1, <2>1, <2>7, <2>9, <3>1 DEF Reclaims
    <3>3. QED
      BY <3>2 DEF to, more
  <2>10. QED
    BY <2>8, <2>9
<1>6. QED
  BY <1>4, <1>5

(* The states that the loops over the releases of n ports go through. *)
ReleaseTo(g, released, n) ==
  g = [i \in 0 .. n |->
         IF i = 0
         THEN Retire([row |-> release_row, used |-> used_rows, kept |-> deferred,
                      added |-> {}, error |-> FALSE])
         ELSE Release(g[i - 1], released[i])]

(* The releases can be gone through port by port. *)
LEMMA ReleaseToExists ==
  ASSUME NEW released, NEW n \in Nat
  PROVE  \E g : ReleaseTo(g, released, n)
<1> DEFINE T == {m \in Nat : \E g : ReleaseTo(g, released, m)}
           first == Retire([row |-> release_row, used |-> used_rows, kept |-> deferred,
                            added |-> {}, error |-> FALSE])
<1>1. 0 \in T
  <2> DEFINE g == [i \in 0 .. 0 |-> first]
  <2>1. ReleaseTo(g, released, 0)
    <3> HIDE DEF first
    <3>1. g = [i \in 0 .. 0 |-> IF i = 0 THEN first ELSE Release(g[i - 1], released[i])]
      OBVIOUS
    <3>2. QED
      BY <3>1 DEF ReleaseTo, first
  <2>2. QED
    BY <2>1
<1>2. ASSUME NEW m \in T PROVE m + 1 \in T
  <2>1. PICK g : ReleaseTo(g, released, m)
    OBVIOUS
  <2>2. m \in Nat
    OBVIOUS
  <2> DEFINE h == [i \in 0 .. m + 1 |-> IF i = m + 1 THEN Release(g[m], released[m + 1]) ELSE g[i]]
  <2>3. \A i \in 0 .. m : g[i] = IF i = 0 THEN first ELSE Release(g[i - 1], released[i])
    BY <2>1 DEF ReleaseTo
  <2> HIDE DEF first
  <2>4. \A i \in 0 .. m + 1 : h[i] = IF i = 0 THEN first ELSE Release(h[i - 1], released[i])
    BY <2>2, <2>3
  <2>5. ReleaseTo(h, released, m + 1)
    <3>1. h = [i \in 0 .. m + 1 |-> h[i]]
      OBVIOUS
    <3> HIDE DEF h
    <3>2. QED
      BY <2>4, <3>1 DEF ReleaseTo, first
  <2>6. QED
    BY <2>2, <2>5
<1>3. T = Nat
  <2> HIDE DEF T
  <2>1. T \in SUBSET Nat
    BY DEF T
  <2>2. QED
    BY <1>1, <1>2, <2>1, SetInduction
<1>4. QED
  BY <1>3

(* Two who go through them agree. *)
LEMMA ReleaseToOnce ==
  ASSUME NEW released, NEW n \in Nat, NEW g, NEW h,
         ReleaseTo(g, released, n), ReleaseTo(h, released, n)
  PROVE  g = h
<1> DEFINE first == Retire([row |-> release_row, used |-> used_rows, kept |-> deferred,
                            added |-> {}, error |-> FALSE])
           T == {k \in Nat : k <= n => g[k] = h[k]}
<1>1. /\ g = [i \in 0 .. n |-> IF i = 0 THEN first ELSE Release(g[i - 1], released[i])]
      /\ h = [i \in 0 .. n |-> IF i = 0 THEN first ELSE Release(h[i - 1], released[i])]
  BY DEF ReleaseTo
<1> HIDE DEF first
<1>2. /\ \A i \in 0 .. n : g[i] = IF i = 0 THEN first ELSE Release(g[i - 1], released[i])
      /\ \A i \in 0 .. n : h[i] = IF i = 0 THEN first ELSE Release(h[i - 1], released[i])
  BY <1>1
<1>3. 0 \in T
  BY <1>2
<1>4. ASSUME NEW k \in T PROVE k + 1 \in T
  BY <1>2
<1>5. T = Nat
  <2> HIDE DEF T
  <2>1. T \in SUBSET Nat
    BY DEF T
  <2>2. QED
    BY <1>3, <1>4, <2>1, SetInduction
<1>6. \A i \in 0 .. n : g[i] = h[i]
  BY <1>5
<1>7. QED
  BY <1>1, <1>6

(* The releases of an edge leave the store with the packets that are left. *)
LEMMA ReleasesReclaim ==
  ASSUME NEW A, Holding(A), NEW released \in ReleaseOrders
  PROVE  \E B : Reclaims(AfterReleases(released), A, B, ToSet(released))
<1> DEFINE n == Len(released)
           Done(k) == {released[i] : i \in 1 .. k}
           first == [row |-> release_row, used |-> used_rows, kept |-> deferred,
                     added |-> {}, error |-> FALSE]
<1>1. /\ n \in Nat /\ released \in [1 .. n -> held] /\ ToSet(released) = Done(n)
      /\ \A i, j \in 1 .. n : i # j => released[i] # released[j]
  <2>1. PICK m \in 0 .. READ_PORTS : released \in [1 .. m -> held]
    BY DEF ReleaseOrders
  <2>2. m \in Nat
    BY RxRAMAssumption
  <2>3. Len(released) = m
    BY <2>1, <2>2
  <2>4. \A i, j \in DOMAIN released : i # j => released[i] # released[j]
    BY DEF ReleaseOrders
  <2>5. QED
    BY <2>1, <2>2, <2>3, <2>4 DEF ToSet
<1> HIDE DEF n
<1>2. PICK g : ReleaseTo(g, released, n)
  BY <1>1, ReleaseToExists
<1>3. AfterReleases(released) = g[n]
  <2>1. \A h : ReleaseTo(h, released, n) => h = g
    BY <1>1, <1>2, ReleaseToOnce
  <2>2. QED
    BY <1>2, <2>1 DEF AfterReleases, ReleaseTo, n
<1>4. \A i \in 0 .. n : g[i] = IF i = 0 THEN Retire(first) ELSE Release(g[i - 1], released[i])
  BY <1>2 DEF ReleaseTo
<1> DEFINE T == {k \in Nat : k <= n => \E B : Reclaims(g[k], A, B, Done(k))}
<1>5. 0 \in T
  <2>1. g[0] = Retire(first) /\ Done(0) = {}
    <3>1. Done(0) = {}
      OBVIOUS
    <3> HIDE DEF first, Done
    <3>2. 0 \in 0 .. n
      BY <1>1
    <3>3. QED
      BY <1>4, <3>1, <3>2
  <2>2. \E B : Reclaims(Retire(first), A, B, {})
    BY RetireReclaims
  <2> HIDE DEF Done, first
  <2>3. QED
    BY <2>1, <2>2
<1>6. ASSUME NEW k \in T PROVE k + 1 \in T
  <2>1. SUFFICES ASSUME k + 1 <= n PROVE \E B : Reclaims(g[k + 1], A, B, Done(k + 1))
    OBVIOUS
  <2>2. k \in Nat /\ k <= n
    BY <1>1, <2>1
  <2>3. PICK B : Reclaims(g[k], A, B, Done(k))
    BY <2>2
  <2> DEFINE p == released[k + 1]
  <2>4. Done(k) \in SUBSET held /\ p \in held \ Done(k) /\ Done(k + 1) = Done(k) \cup {p}
    BY <1>1, <2>1, <2>2
  <2>5. g[k + 1] = Release(g[k], p)
    <3>1. k + 1 \in 0 .. n /\ k + 1 # 0 /\ (k + 1) - 1 = k
      BY <1>1, <2>1, <2>2
    <3> HIDE DEF first
    <3>2. QED
      BY <1>4, <3>1
  <2> HIDE DEF Done, p
  <2>6. \E C : Reclaims(Release(g[k], p), A, C, Done(k) \cup {p})
    BY <2>3, <2>4, ReleaseReclaims
  <2>7. QED
    BY <2>4, <2>5, <2>6
<1>7. T = Nat
  <2> HIDE DEF T
  <2>1. T \in SUBSET Nat
    BY DEF T
  <2>2. QED
    BY <1>5, <1>6, <2>1, SetInduction
<1>8. \E B : Reclaims(g[n], A, B, Done(n))
  <2> HIDE DEF Done
  <2>1. n \in T
    BY <1>1, <1>7
  <2>2. QED
    BY <1>1, <2>1
<1>9. QED
  BY <1>1, <1>3, <1>8

-----------------------------------------------------------------------------
(* The packets of the store.                                               *)

(* A packet more at the end of the completions. *)
LEMMA ToSetAppend ==
  ASSUME NEW S, NEW s \in Seq(S), NEW x \in S
  PROVE  /\ Append(s, x) \in Seq(S) /\ Len(Append(s, x)) = Len(s) + 1
         /\ ToSet(Append(s, x)) = ToSet(s) \cup {x}
         /\ \A i \in 1 .. Len(s) : Append(s, x)[i] = s[i]
         /\ Append(s, x)[Len(s) + 1] = x
<1> DEFINE t == Append(s, x)
           n == Len(s)
<1>1. /\ t \in Seq(S) /\ n \in Nat /\ Len(t) = n + 1 /\ t[n + 1] = x
      /\ \A i \in 1 .. n : t[i] = s[i]
  BY AppendProperties
<1>2. DOMAIN t = 1 .. n + 1 /\ DOMAIN s = 1 .. n
  BY <1>1
<1> HIDE DEF t, n
<1>3. ToSet(t) = ToSet(s) \cup {x}
  <2>1. ASSUME NEW i \in 1 .. n + 1 PROVE t[i] \in {s[j] : j \in 1 .. n} \cup {x}
    <3>1. i \in 1 .. n \/ i = n + 1
      BY <1>1
    <3>2. QED
      BY <1>1, <3>1
  <2>2. ASSUME NEW j \in 1 .. n PROVE j \in 1 .. n + 1 /\ t[j] = s[j]
    BY <1>1
  <2>3. n + 1 \in 1 .. n + 1
    BY <1>1
  <2>4. QED
    BY <1>1, <1>2, <2>1, <2>2, <2>3 DEF ToSet
<1>4. QED
  BY <1>1, <1>3 DEF t, n

(* No packet is there twice. *)
Distinct(s) == \A i, j \in 1 .. Len(s) : s[i] = s[j] => i = j

(* A completion less at their head. *)
LEMMA ToSetTail ==
  ASSUME NEW S, NEW s \in Seq(S), Distinct(s), s # << >>
  PROVE  /\ Head(s) \in S /\ Tail(s) \in Seq(S) /\ Len(Tail(s)) <= Len(s) /\ Distinct(Tail(s))
         /\ ToSet(s) = ToSet(Tail(s)) \cup {Head(s)} /\ Head(s) \notin ToSet(Tail(s))
<1> DEFINE t == Tail(s)
           n == Len(s)
<1>1. /\ n \in Nat \ {0} /\ t \in Seq(S) /\ Len(t) = n - 1 /\ Head(s) = s[1] /\ s[1] \in S
      /\ \A i \in 1 .. n - 1 : t[i] = s[i + 1]
  OBVIOUS
<1>2. DOMAIN t = 1 .. n - 1 /\ DOMAIN s = 1 .. n
  BY <1>1
<1> HIDE DEF t, n
<1>3. Distinct(t)
  BY <1>1 DEF Distinct, n
<1>4. ToSet(s) = ToSet(t) \cup {s[1]}
  <2>1. ASSUME NEW i \in 1 .. n PROVE s[i] \in {t[j] : j \in 1 .. n - 1} \cup {s[1]}
    <3>1. CASE i = 1
      BY <3>1
    <3>2. CASE i # 1
      <4>1. i - 1 \in 1 .. n - 1 /\ t[i - 1] = s[i]
        BY <1>1, <3>2
      <4>2. QED
        BY <4>1
    <3>3. QED
      BY <3>1, <3>2
  <2>2. ASSUME NEW j \in 1 .. n - 1 PROVE j + 1 \in 1 .. n /\ t[j] = s[j + 1]
    BY <1>1
  <2>3. 1 \in 1 .. n
    BY <1>1
  <2>4. ToSet(s) = {s[i] : i \in 1 .. n} /\ ToSet(t) = {t[j] : j \in 1 .. n - 1}
    BY <1>2 DEF ToSet
  <2>5. ToSet(s) \subseteq ToSet(t) \cup {s[1]}
    BY <2>1, <2>4
  <2>6. ToSet(t) \subseteq ToSet(s) /\ s[1] \in ToSet(s)
    BY <2>2, <2>3, <2>4
  <2>7. QED
    BY <2>5, <2>6
<1>5. s[1] \notin ToSet(t)
  <2>1. SUFFICES ASSUME NEW j \in 1 .. n - 1, t[j] = s[1] PROVE FALSE
    BY <1>2 DEF ToSet
  <2>2. s[j + 1] = s[1] /\ j + 1 \in 1 .. n /\ 1 \in 1 .. n /\ j + 1 # 1
    BY <1>1, <2>1
  <2>3. QED
    BY <2>2 DEF Distinct, n
<1>6. QED
  BY <1>1, <1>3, <1>4, <1>5 DEF t, n

(* The first words of a packet are in their rows. *)
Filled(start, id, count, S) ==
  \A i \in 0 .. count - 1 : S[Row(start + i)] = [id |-> id, word |-> i]

(* The completions K, the held packets H and the deferred releases D are   *)
(* different packets, each under the identity of its first row, and the    *)
(* unread ones have all their words in the rows S.                         *)
Packed(K, H, D, S) ==
  /\ K \in Seq(Packets) /\ Len(K) <= COMPLETION_FIFO_WORDS /\ Distinct(K)
  /\ H \subseteq Packets
  /\ D \subseteq Packets /\ IsFiniteSet(D) /\ Cardinality(D) <= RELEASE_SLOTS
  /\ ToSet(K) \cap H = {} /\ (ToSet(K) \cup H) \cap D = {}
  /\ \A p \in ToSet(K) \cup H \cup D : Row(p.id) = p.row
  /\ \A p, q \in ToSet(K) \cup H : p.id = q.id => p = q
  /\ \A p \in ToSet(K) \cup H : Filled(p.row, p.id, RowsFilled(p.length), S)
  /\ DOMAIN S = 0 .. LOGICAL_ROWS - 1

(* The completions of Packets are packets. *)
LEMMA ToSetType ==
  ASSUME NEW S, NEW s \in Seq(S)
  PROVE  ToSet(s) \subseteq S
BY DEF ToSet

(* What is released is held. *)
LEMMA ReleasedHeld ==
  ASSUME NEW released \in ReleaseOrders
  PROVE  ToSet(released) \subseteq held
BY DEF ReleaseOrders, ToSet

(* The words of one packet stay when others are released. *)
LEMMA StoredKeeps ==
  ASSUME DOMAIN ram = 0 .. LOGICAL_ROWS - 1, NEW released, NEW id,
         \A p \in ToSet(released) : p.id # id,
         NEW start \in Int, NEW count \in Int, Filled(start, id, count, ram)
  PROVE  Filled(start, id, count, Stored(released))
<1> SUFFICES ASSUME NEW i \in 0 .. count - 1
             PROVE  Stored(released)[Row(start + i)] = [id |-> id, word |-> i]
  BY DEF Filled
<1> DEFINE r == Row(start + i)
<1>1. r \in DOMAIN ram
  <2>1. start + i \in Int
    OBVIOUS
  <2>2. QED
    BY <2>1, RowIn
<1>2. ram[r] = [id |-> id, word |-> i]
  BY DEF Filled
<1>3. ram[r].id = id
  BY <1>2
<1> HIDE DEF r
<1>4. Stored(released)[r] = ram[r]
  BY <1>1, <1>3 DEF Stored
<1>5. QED
  BY <1>2, <1>4 DEF r

(* What is held after an edge. *)
HeldAfter(released, pop) ==
  (held \ ToSet(released)) \cup
  (IF pop /\ completions # << >> THEN {Head(completions)} ELSE {})

(* A release and a pop take nothing away from the packets that stay. *)
LEMMA PackedAfterReleases ==
  ASSUME Packed(completions, held, deferred, ram),
         NEW released \in ReleaseOrders, NEW pop \in BOOLEAN,
         NEW H, H = HeldAfter(released, pop),
         NEW D, D \subseteq deferred \cup ToSet(released), D \cap (Unread \ ToSet(released)) = {},
         IsFiniteSet(D), Cardinality(D) <= RELEASE_SLOTS
  PROVE  /\ Packed(CompletionsKept(pop), H, D, Stored(released))
         /\ ToSet(CompletionsKept(pop)) \cup H = Unread \ ToSet(released)
<1> DEFINE K == CompletionsKept(pop)
           R == ToSet(released)
           S == Stored(released)
           U == ToSet(K) \cup H
<1>1. /\ completions \in Seq(Packets) /\ Distinct(completions)
      /\ Len(completions) <= COMPLETION_FIFO_WORDS /\ Len(completions) \in Nat
      /\ held \subseteq Packets /\ ToSet(completions) \cap held = {}
      /\ Unread \cap deferred = {}
  BY DEF Packed, Unread
<1>2. R \subseteq held
  BY ReleasedHeld
<1>3. COMPLETION_FIFO_WORDS \in Nat
  BY RxRAMAssumption
<1>4. /\ K \in Seq(Packets) /\ Len(K) <= COMPLETION_FIFO_WORDS /\ Distinct(K)
      /\ H \subseteq Packets /\ ToSet(K) \cap H = {} /\ U = Unread \ R
  <2>1. CASE pop /\ completions # << >>
    <3>1. K = Tail(completions) /\ H = (held \ R) \cup {Head(completions)}
      BY <2>1 DEF CompletionsKept, HeldAfter
    <3>2. /\ Head(completions) \in Packets /\ Tail(completions) \in Seq(Packets)
          /\ Len(Tail(completions)) <= Len(completions) /\ Distinct(Tail(completions))
          /\ ToSet(completions) = ToSet(Tail(completions)) \cup {Head(completions)}
          /\ Head(completions) \notin ToSet(Tail(completions))
      BY <1>1, <2>1, ToSetTail
    <3> HIDE DEF K, R
    <3>3. /\ K \in Seq(Packets) /\ Distinct(K) /\ Len(K) <= Len(completions)
      BY <3>1, <3>2
    <3>4. Len(K) <= COMPLETION_FIFO_WORDS
      <4>1. Len(K) \in Nat
        BY <3>3
      <4>2. QED
        BY <1>1, <1>3, <3>3, <4>1
    <3>5. /\ H \subseteq Packets /\ ToSet(K) \cap H = {} /\ U = Unread \ R
      BY <1>1, <1>2, <3>1, <3>2 DEF Unread
    <3>6. QED
      BY <3>3, <3>4, <3>5
  <2>2. CASE ~(pop /\ completions # << >>)
    <3>1. K = completions /\ H = held \ R
      BY <2>2 DEF CompletionsKept, HeldAfter
    <3> HIDE DEF K, R
    <3>2. QED
      BY <1>1, <1>2, <3>1 DEF Unread
  <2>3. QED
    BY <2>1, <2>2
<1>5. D \subseteq Packets /\ U \cap D = {}
  BY <1>1, <1>2, <1>4 DEF Packed
<1>6. U \subseteq Unread /\ U \cup D \subseteq Allocated
  BY <1>2, <1>4 DEF Allocated, Unread
<1>7. \A p \in U \cup D : Row(p.id) = p.row
  BY <1>6 DEF Packed, Allocated, Unread
<1>8. \A p, q \in U : p.id = q.id => p = q
  BY <1>6 DEF Packed, Unread
<1>9. ASSUME NEW p \in U PROVE Filled(p.row, p.id, RowsFilled(p.length), S)
  <2>1. p \in Unread /\ p \in Packets /\ Filled(p.row, p.id, RowsFilled(p.length), ram)
    BY <1>4, <1>6, ToSetType DEF Packed, Unread
  <2>2. \A q \in R : q.id # p.id
    <3>1. SUFFICES ASSUME NEW q \in R, q.id = p.id PROVE FALSE
      OBVIOUS
    <3>2. q \in Unread
      BY <1>2 DEF Unread
    <3>3. p = q
      BY <2>1, <3>1, <3>2 DEF Packed, Unread
    <3>4. QED
      BY <1>4, <3>3
  <2>3. p.row \in Int /\ RowsFilled(p.length) \in Int
    BY <2>1, PacketIs
  <2>4. DOMAIN ram = 0 .. LOGICAL_ROWS - 1
    BY DEF Packed
  <2> HIDE DEF S, R
  <2>5. QED
    BY <2>1, <2>2, <2>3, <2>4, StoredKeeps DEF S, R
<1>10. DOMAIN S = 0 .. LOGICAL_ROWS - 1
  BY DEF Stored, Packed
<1> HIDE DEF S, R, K
<1>11. Packed(K, H, D, S)
  BY <1>4, <1>5, <1>7, <1>8, <1>9, <1>10 DEF Packed
<1>12. QED
  BY <1>4, <1>11 DEF K, S, R

-----------------------------------------------------------------------------
(* Words written.                                                          *)

(* An empty write. *)
LEMMA WrittenNothing ==
  ASSUME NEW old, NEW a, NEW b, NEW c, NEW n, NEW rows, rows = Written(old, a, b, c, n),
         NEW id, NEW start, NEW first
  PROVE  Written(rows, id, start, first, 0) = rows
<1>1. 0 .. 0 - 1 = {}
  OBVIOUS
<1>2. QED
  BY <1>1 DEF Written

(* Different places of a packet are different rows. *)
LEMMA PlacesDiffer ==
  ASSUME NEW start \in Int, NEW i \in 0 .. LOGICAL_ROWS - 1, NEW j \in 0 .. LOGICAL_ROWS - 1,
         i # j
  PROVE  Row(start + i) # Row(start + j)
<1> DEFINE a == start + i
           b == start + j
<1>1. LOGICAL_ROWS \in Nat
  BY Sizes
<1>2. a \in Int /\ b \in Int /\ a # b /\ a - b < LOGICAL_ROWS /\ b - a < LOGICAL_ROWS
  BY <1>1
<1>3. Row(a) # Row(b)
  <2> HIDE DEF a, b
  <2>1. QED
    BY <1>2, RowApart
<1>4. QED
  BY <1>3

(* Of the rows S only those of `count` words behind the first k have       *)
(* changed in T, and they hold these words.                                *)
Grown(id, start, k, count, S, T) ==
  /\ DOMAIN T = 0 .. LOGICAL_ROWS - 1
  /\ Filled(start, id, k + count, T)
  /\ \A r \in 0 .. LOGICAL_ROWS - 1 :
       (\A j \in k .. k + count - 1 : r # Row(start + j)) => T[r] = S[r]

(* A packet that had its first k words has `count` more, and nothing else  *)
(* is written.                                                             *)
LEMMA FilledGrows ==
  ASSUME NEW id, NEW start \in Int, NEW k \in Nat, NEW count \in Nat, k + count <= LOGICAL_ROWS,
         NEW S, DOMAIN S = 0 .. LOGICAL_ROWS - 1, Filled(start, id, k, S),
         NEW T, T = Written(S, id, start, Row(start + k), count)
  PROVE  Grown(id, start, k, count, S, T)
<1> DEFINE first == Row(start + k)
           R == {Row(first + i) : i \in 0 .. count - 1}
<1>1. LOGICAL_ROWS \in Nat \ {0}
  BY Sizes
<1>2. T = [r \in 0 .. LOGICAL_ROWS - 1 |->
             IF r \in R THEN [id |-> id, word |-> Row(r - start)] ELSE S[r]]
  BY DEF Written
<1>3. ASSUME NEW i \in 0 .. count - 1 PROVE Row(first + i) = Row(start + (k + i))
  <2> DEFINE a == start + k
  <2>1. a \in Int /\ i \in Int /\ a + i = start + (k + i)
    OBVIOUS
  <2>2. Row(Row(a) + i) = Row(a + i)
    <3> HIDE DEF a
    <3>1. QED
      BY <2>1, RowSum
  <2>3. QED
    BY <2>1, <2>2
<1>4. ASSUME NEW j \in k .. k + count - 1
      PROVE  Row(start + j) \in R /\ Row(Row(start + j) - start) = j
  <2> DEFINE i == j - k
             a == start + j
  <2>1. i \in 0 .. count - 1 /\ k + i = j /\ a \in Int /\ a - start = j
        /\ j \in 0 .. LOGICAL_ROWS - 1
    BY <1>1
  <2>2. Row(first + i) = Row(start + j)
    <3>1. Row(first + i) = Row(start + (k + i))
      <4> HIDE DEF i
      <4>1. QED
        BY <1>3, <2>1
    <3>2. QED
      BY <2>1, <3>1
  <2>3. Row(Row(a) - start) = Row(a - start)
    <3> HIDE DEF a
    <3>1. QED
      BY <2>1, RowDiff
  <2>4. Row(j) = j
    BY <2>1, RowSmall
  <2>5. QED
    BY <2>1, <2>2, <2>3, <2>4
<1>5. ASSUME NEW r \in R PROVE \E j \in k .. k + count - 1 : r = Row(start + j)
  <2>1. PICK i \in 0 .. count - 1 : r = Row(first + i)
    OBVIOUS
  <2> DEFINE j == k + i
  <2>2. r = Row(start + j) /\ j \in k .. k + count - 1
    BY <1>3, <2>1
  <2>3. QED
    BY <2>2
<1> HIDE DEF R
<1>6. DOMAIN T = 0 .. LOGICAL_ROWS - 1
  BY <1>2
<1>7. ASSUME NEW r \in 0 .. LOGICAL_ROWS - 1, \A j \in k .. k + count - 1 : r # Row(start + j)
      PROVE  T[r] = S[r]
  BY <1>2, <1>5, <1>7
<1>8. \A i \in Nat : Row(start + i) \in 0 .. LOGICAL_ROWS - 1
  <2>1. \A i \in Nat : start + i \in Int
    OBVIOUS
  <2>2. QED
    BY <2>1, RowIn
<1>9. ASSUME NEW i \in 0 .. k + count - 1
      PROVE  T[Row(start + i)] = [id |-> id, word |-> i]
  <2>1. CASE i \in k .. k + count - 1
    <3>1. Row(start + i) \in 0 .. LOGICAL_ROWS - 1
      BY <1>8
    <3>2. QED
      BY <1>2, <1>4, <2>1, <3>1
  <2>2. CASE i \in 0 .. k - 1
    <3>1. S[Row(start + i)] = [id |-> id, word |-> i]
      BY <2>2 DEF Filled
    <3>2. ASSUME NEW j \in k .. k + count - 1 PROVE Row(start + i) # Row(start + j)
      <4>1. i \in 0 .. LOGICAL_ROWS - 1 /\ j \in 0 .. LOGICAL_ROWS - 1 /\ i # j
        BY <1>1, <2>2
      <4>2. QED
        BY <4>1, PlacesDiffer
    <3>3. T[Row(start + i)] = S[Row(start + i)]
      <4> DEFINE r == Row(start + i)
      <4>1. r \in 0 .. LOGICAL_ROWS - 1
        BY <1>8
      <4>2. \A j \in k .. k + count - 1 : r # Row(start + j)
        BY <3>2
      <4> HIDE DEF r
      <4>3. T[r] = S[r]
        BY <1>7, <4>1, <4>2
      <4>4. QED
        BY <4>3 DEF r
    <3>4. QED
      BY <3>1, <3>3
  <2>3. QED
    BY <2>1, <2>2
<1>10. Filled(start, id, k + count, T)
  BY <1>9 DEF Filled
<1>11. \A r \in 0 .. LOGICAL_ROWS - 1 :
         (\A j \in k .. k + count - 1 : r # Row(start + j)) => T[r] = S[r]
  BY <1>7
<1>12. QED
  BY ONLY <1>6, <1>10, <1>11 DEF Grown

-----------------------------------------------------------------------------
(* The invariant.                                                          *)

(* In a frame the words that are full are in their rows, the rest is being *)
(* assembled, and the rows that the frame will need are free.              *)
Open ==
  /\ left \in Nat \ {0} /\ packet_length \in Nat \ {0}
  /\ packet_length + left \in FrameLengths
  /\ pack_count = packet_length % LANE_BYTES
  /\ packet_start = Row(release_row + used_rows)
  /\ next_row = Row(packet_start + (packet_length \div LANE_BYTES))
  /\ used_rows <= LOGICAL_ROWS - MAX_PACKET_ROWS
  /\ writing \in Ids /\ Row(writing) = packet_start
  /\ \A p \in Allocated : p.id # writing
  /\ Filled(packet_start, writing, packet_length \div LANE_BYTES, ram)

(* Between two frames nothing is pending and the next row is the first     *)
(* free one.                                                               *)
Between ==
  /\ left = 0 /\ pack_count = 0 /\ packet_length \in 0 .. MAX_LENGTH
  /\ next_row = Row(release_row + used_rows)
  /\ InStore(packet_start) /\ packet_start % 2 = 0

(* The open frame. *)
Framed == (in_frame => Open) /\ (~in_frame => Between)

(* The packets in rows in use: the allocated ones if nothing went wrong.   *)
Accounted ==
  \E A : /\ Holding(A)
         /\ NoError => A = Allocated

(* The inductive invariant. *)
StoreInv ==
  /\ Packed(completions, held, deferred, ram)
  /\ Framed
  /\ Accounted
  /\ {in_frame, protocol_error, storage_full} \subseteq BOOLEAN

-----------------------------------------------------------------------------
(* Steps of an edge.                                                       *)

(* The smaller of two. *)
LEMMA MinIs ==
  ASSUME NEW a \in Int, NEW b \in Int, a <= b
  PROVE  Min({a, b}) = a
<1>1. \A x \in {a, b} : (\A y \in {a, b} : x <= y) <=> x = a
  OBVIOUS
<1>2. QED
  BY <1>1 DEF Min

(* A row has the parity of what it counts. *)
LEMMA RowParity ==
  ASSUME NEW a \in Int
  PROVE  Row(a) % 2 = a % 2
<1> DEFINE x == Row(a)
<1>1. LOGICAL_ROWS \in Nat \ {0} /\ LOGICAL_ROWS % 2 = 0
  BY RxRAMAssumption
<1>2. x \in 0 .. LOGICAL_ROWS - 1
  BY RowIn
<1>3. CASE a % 2 = 0
  BY <1>3, EvenRow
<1>4. CASE a % 2 = 1
  <2> DEFINE a1 == a + 1
  <2>1. a1 \in Int /\ a1 % 2 = 0
    BY <1>4
  <2>2. Row(a1) % 2 = 0
    <3> HIDE DEF a1
    <3>1. QED
      BY <2>1, EvenRow
  <2>3. Row(x + 1) = Row(a1)
    BY RowSum
  <2> HIDE DEF a1, x
  <2>4. SUFFICES ASSUME x % 2 = 0 PROVE FALSE
    BY <1>2, <1>4 DEF x
  <2>5. x + 1 \in 0 .. LOGICAL_ROWS - 1
    BY <1>1, <1>2, <2>4
  <2>6. Row(x + 1) = x + 1
    BY <2>5, RowSmall
  <2>7. QED
    BY <1>2, <2>2, <2>3, <2>4, <2>6
<1>5. QED
  BY <1>3, <1>4

(* What is added changes two parities alike. *)
LEMMA ParitySum ==
  ASSUME NEW x \in Int, NEW y \in Int, NEW m \in Int, x % 2 = y % 2
  PROVE  (x + m) % 2 = (y + m) % 2
<1>1. x % 2 \in 0 .. 1 /\ m % 2 \in 0 .. 1
  OBVIOUS
<1>2. CASE x % 2 = 0
  <2>1. x % 2 = 0 /\ y % 2 = 0
    BY <1>2
  <2>2. (x + m) % 2 = m % 2 /\ (y + m) % 2 = m % 2
    BY <2>1
  <2>3. QED
    BY <2>2
<1>3. CASE x % 2 = 1
  <2>1. x % 2 = 1 /\ y % 2 = 1
    BY <1>3
  <2>2. (x + m) % 2 = (1 + m) % 2 /\ (y + m) % 2 = (1 + m) % 2
    BY <2>1
  <2>3. QED
    BY <2>2
<1>4. QED
  BY <1>1, <1>2, <1>3

(* A row of the store, and the one behind a packet of the given rows.      *)
EndsAt(to, s, n) ==
  to \in 0 .. LOGICAL_ROWS - 1 /\ Even(to) = to /\ Row(to) = to /\ to = Row(s + Even(n))

(* The end of a frame that began in an even row is rounded up to the rows  *)
(* that the packet takes.                                                  *)
LEMMA EndRow ==
  ASSUME NEW s \in Int, s % 2 = 0, NEW k \in Nat, NEW m \in Nat
  PROVE  EndsAt(Row(Even(Row(s + k) + m)), s, k + m)
<1> DEFINE a == s + k
           next == Row(a)
           to == Row(Even(next + m))
           c == next + m
           e == m + (c % 2)
           d == s + Even(k + m)
<1>1. a \in Int /\ next = Row(a)
  OBVIOUS
<1> HIDE DEF next, to
<1>2. next \in 0 .. LOGICAL_ROWS - 1 /\ next % 2 = a % 2 /\ LOGICAL_ROWS \in Nat \ {0}
  <2> HIDE DEF a
  <2>1. QED
    BY <1>1, RowIn, RowParity, Sizes
<1>3. next \in Nat /\ c \in Nat /\ e \in Nat
  BY <1>2
<1>4. Even(c) = next + e
  BY <1>2, <1>3 DEF Even
<1>5. c % 2 = (k + m) % 2
  <2>1. (next + m) % 2 = (a + m) % 2
    <3> HIDE DEF a
    <3>1. next \in Int /\ a \in Int /\ m \in Int /\ next % 2 = a % 2
      BY <1>1, <1>2, <1>3
    <3>2. QED
      BY ONLY <3>1, ParitySum
  <2>2. (s + (k + m)) % 2 = (k + m) % 2
    <3> DEFINE n == k + m
    <3>1. n \in Int
      OBVIOUS
    <3> HIDE DEF n
    <3>2. (s + n) % 2 = n % 2
      BY <3>1
    <3>3. QED
      BY <3>2 DEF n
  <2>3. a + m = s + (k + m)
    OBVIOUS
  <2>4. QED
    BY <2>1, <2>2, <2>3
<1>6. a + e = d /\ d \in Int /\ d % 2 = 0
  BY <1>5 DEF Even
<1>7. Row(next + e) = Row(a + e)
  <2> HIDE DEF a, e
  <2>1. QED
    BY <1>1, <1>3, RowSum
<1>8. to = Row(d)
  BY <1>4, <1>6, <1>7 DEF to
<1>9. to \in 0 .. LOGICAL_ROWS - 1 /\ to % 2 = 0
  <2> HIDE DEF d
  <2>1. QED
    BY <1>6, <1>8, RowIn, EvenRow
<1>10. Even(to) = to /\ Row(to) = to
  BY <1>2, <1>9, EvenIs, RowSmall
<1>11. QED
  BY <1>8, <1>9, <1>10 DEF EndsAt, to, next

(* The model has two names for the packets that may begin in a row. *)
IdsSuffice ==
  \A r \in 0 .. LOGICAL_ROWS - 1 :
    \E i, j \in Ids : i # j /\ Row(i) = r /\ Row(j) = r

(* A packet about to begin where no packet does has a name of its own. *)
LEMMA FreeIdIs ==
  ASSUME IdsSuffice, NEW start \in 0 .. LOGICAL_ROWS - 1,
         \A p \in Allocated : Row(p.id) # start
  PROVE  /\ FreeId(start) \in Ids /\ Row(FreeId(start)) = start
         /\ \A p \in Allocated : p.id # FreeId(start)
<1> DEFINE Unused(j) == j # writing /\ \A p \in Allocated : j # p.id
           T == {j \in Ids : Row(j) = start /\ Unused(j)}
           Good(i) == Row(i) = start /\ Unused(i)
                      /\ \A j \in Ids : Row(j) = start /\ Unused(j) => i <= j
<1>1. PICK i \in Ids, j \in Ids : i # j /\ Row(i) = start /\ Row(j) = start
  BY DEF IdsSuffice
<1>2. \A n \in Ids : Row(n) = start => \A p \in Allocated : n # p.id
  OBVIOUS
<1>3. T # {}
  BY <1>1, <1>2
<1>4. T \in SUBSET Nat
  BY RxRAMAssumption
<1>5. PICK x \in T : \A y \in T : x <= y
  <2> HIDE DEF T
  <2>1. QED
    BY <1>3, <1>4, SetMin
<1>6. x \in Ids /\ Good(x)
  BY <1>5
<1>7. FreeId(start) = CHOOSE n \in Ids : Good(n)
  BY DEF FreeId
<1> HIDE DEF Good
<1>8. FreeId(start) \in Ids /\ Good(FreeId(start))
  BY <1>6, <1>7
<1>9. QED
  BY <1>8 DEF Good

(* Words written elsewhere leave the packets whole. *)
LEMMA PackedElsewhere ==
  ASSUME NEW K, NEW H, NEW D, NEW S, Packed(K, H, D, S),
         NEW T, DOMAIN T = 0 .. LOGICAL_ROWS - 1,
         \A p \in ToSet(K) \cup H : \A i \in 0 .. RowsFilled(p.length) - 1 :
           T[Row(p.row + i)] = S[Row(p.row + i)]
  PROVE  Packed(K, H, D, T)
<1>1. ASSUME NEW p \in ToSet(K) \cup H PROVE Filled(p.row, p.id, RowsFilled(p.length), T)
  BY DEF Packed, Filled
<1>2. QED
  BY <1>1 DEF Packed

(* What the releases and the pop of an edge leave to its beat: the packets *)
(* B in rows in use, the completions K, held packets H and deferred        *)
(* releases D, and the rows S.                                             *)
Survive(free, B, K, H, D, S) ==
  /\ Tiled(B, free.row, free.used)
  /\ free.used \in 0 .. used_rows
  /\ Row(free.row + free.used) = Row(release_row + used_rows)
  /\ Packed(K, H, D, S)
  /\ ToSet(K) \cup H \subseteq Unread
  /\ ToSet(K) \cup H \cup D \subseteq B
  /\ ToSet(K) \cup H \cup D \subseteq Allocated
  /\ free.error \in BOOLEAN
  /\ NoError /\ ~free.error => B = ToSet(K) \cup H \cup D
  /\ NoError /\ FewPackets => ~free.error

(* Releases and the pop do. *)
LEMMA EdgeReclaims ==
  ASSUME StoreInv, NEW released \in ReleaseOrders, NEW pop \in BOOLEAN,
         NEW H, H = HeldAfter(released, pop),
         NEW free, free = AfterReleases(released),
         NEW D, D = free.kept \cup free.added
  PROVE  \E B : Survive(free, B, CompletionsKept(pop), H, D, Stored(released))
<1> DEFINE R == ToSet(released)
           K == CompletionsKept(pop)
           S == Stored(released)
<1>1. PICK A : Holding(A) /\ (NoError => A = Allocated)
  BY DEF StoreInv, Accounted
<1>2. PICK B : Reclaims(free, A, B, R)
  BY <1>1, ReleasesReclaim
<1>3. R \subseteq held /\ R \subseteq Unread
  BY ReleasedHeld DEF Unread
<1>4. /\ Tiled(B, free.row, free.used) /\ B \subseteq A
      /\ (Unread \ R) \cup D \subseteq B
      /\ free.kept \subseteq deferred /\ free.added \subseteq R
      /\ IsFiniteSet(deferred \cup free.added)
      /\ Cardinality(deferred \cup free.added) <= RELEASE_SLOTS
      /\ free.error \in BOOLEAN
      /\ ~free.error /\ A = Allocated => B = (Unread \ R) \cup D
      /\ Row(free.row + free.used) = Row(release_row + used_rows) /\ free.used <= used_rows
      /\ A = Allocated /\ FewPackets => ~free.error
  <2>1. (Unread \ R) \cup free.kept \cup free.added = (Unread \ R) \cup D
    OBVIOUS
  <2>2. QED
    BY <1>2, <2>1 DEF Reclaims
<1>5. D \subseteq deferred \cup R /\ D \cap (Unread \ R) = {}
  BY <1>1, <1>4 DEF Holding
<1>6. IsFiniteSet(D) /\ Cardinality(D) <= RELEASE_SLOTS
  <2>1. D \subseteq deferred \cup free.added
    BY <1>4
  <2>2. IsFiniteSet(D) /\ Cardinality(D) <= Cardinality(deferred \cup free.added)
    BY <1>4, <2>1, FS_Subset
  <2>3. Cardinality(D) \in Nat /\ Cardinality(deferred \cup free.added) \in Nat
    BY <1>4, <2>2, FS_CardinalityType
  <2>4. QED
    BY <1>4, <2>2, <2>3, Sizes
<1>7. Packed(K, H, D, S) /\ ToSet(K) \cup H = Unread \ R
  <2>1. Packed(completions, held, deferred, ram)
    BY DEF StoreInv
  <2>2. /\ D \subseteq deferred \cup ToSet(released) /\ D \cap (Unread \ ToSet(released)) = {}
        /\ IsFiniteSet(D) /\ Cardinality(D) <= RELEASE_SLOTS
    BY <1>5, <1>6
  <2>3. QED
    BY <2>1, <2>2, PackedAfterReleases
<1>8. free.used \in 0 .. used_rows
  <2>1. free.used \in Nat
    BY <1>4, TiledNumbers
  <2>2. used_rows \in Nat
    BY <1>1, TiledNumbers DEF Holding
  <2>3. QED
    BY <1>4, <2>1, <2>2
<1>9. ToSet(K) \cup H \cup D \subseteq Allocated
  BY <1>3, <1>4, <1>7 DEF Allocated
<1> HIDE DEF R, K, S
<1>10. NoError /\ ~free.error => B = ToSet(K) \cup H \cup D
  BY <1>1, <1>4, <1>7
<1>11. NoError /\ FewPackets => ~free.error
  BY <1>1, <1>4
<1>12. Survive(free, B, K, H, D, S)
  BY <1>4, <1>7, <1>8, <1>9, <1>10, <1>11 DEF Survive
<1>13. QED
  BY <1>12 DEF K, S

(* The store with no packet more is still accounted for. *)
LEMMA SurvivorsAccounted ==
  ASSUME StoreInv, NEW free, NEW B,
         Survive(free, B, completions', held', deferred', ram'),
         release_row' = free.row, used_rows' = free.used,
         protocol_error' = (protocol_error \/ free.error)
  PROVE  /\ Packed(completions, held, deferred, ram)'
         /\ Accounted' /\ protocol_error' \in BOOLEAN
<1>1. Packed(completions, held, deferred, ram)'
  BY DEF Survive, Packed, Distinct, Filled, Packets, Row, RowsFilled
<1>2. Allocated' = ToSet(completions') \cup held' \cup deferred'
  BY DEF Allocated, Unread
<1>3. Tiled(B, release_row', used_rows')
  BY DEF Survive
<1>4. Holding(B)'
  <2>1. Tiled(B, release_row, used_rows)'
    BY <1>3 DEF Tiled, Before, Block, Place, Rows, InStore, Row, released_rows, Even,
                MAX_PACKET_ROWS
  <2>2. /\ (Unread \cup deferred \subseteq B)' /\ (Unread \cap deferred = {})'
        /\ IsFiniteSet(deferred)' /\ (Cardinality(deferred) <= RELEASE_SLOTS)'
    BY DEF Survive, Packed, Unread
  <2>3. QED
    BY <2>1, <2>2 DEF Holding
<1>5. NoError' => B = Allocated'
  BY <1>2 DEF Survive, NoError, StoreInv
<1>6. Accounted'
  BY <1>4, <1>5 DEF Accounted
<1>7. QED
  BY <1>1, <1>6 DEF StoreInv, Survive

(* No beat holds the end of a frame and the start of the next, as on a     *)
(* wire with gaps; in beats that do, the next frame is taken without room. *)
FramesApart == BackToBack = FALSE

(* A beat begins a frame or carries on the open one. *)
LEMMA BeatIs ==
  ASSUME FramesApart, NEW beat \in Beats, left \in Nat
  PROVE  \/ /\ left = 0 /\ beat.more = 0 /\ ~beat.eop /\ beat.sop
            /\ beat.first \in 1 .. LANE_BYTES /\ beat.size \in FrameLengths
         \/ /\ left > 0 /\ beat.more \in 1 .. left /\ beat.more <= LANE_BYTES
            /\ (beat.eop <=> beat.more = left) /\ ~beat.sop /\ beat.first = 0
<1>1. LANE_BYTES \in Nat \ {0}
  BY Sizes
<1>2. CASE left = 0
  <2>1. PICK f \in 1 .. LANE_BYTES, L \in FrameLengths :
          beat = [more |-> 0, eop |-> 0 > 0 /\ 0 = left, sop |-> f > 0, first |-> f, size |-> L]
    BY <1>2 DEF Beats
  <2>2. beat.more = 0 /\ beat.first = f /\ beat.size = L
        /\ beat.eop = (0 > 0 /\ 0 = left) /\ beat.sop = (f > 0)
    BY <2>1
  <2>3. (0 > 0 /\ 0 = left) = FALSE /\ (f > 0) = TRUE /\ f \in 1 .. LANE_BYTES
    BY <1>1
  <2>4. ~beat.eop /\ beat.sop
    BY <2>2, <2>3, Zenon
  <2>5. QED
    BY <1>2, <2>2, <2>3, <2>4
<1>3. CASE left # 0
  <2>1. PICK m \in 1 .. Min({left, LANE_BYTES}) :
          beat = [more |-> m, eop |-> m > 0 /\ m = left, sop |-> 0 > 0, first |-> 0, size |-> 0]
    BY <1>3 DEF Beats, FramesApart
  <2>2. beat.more = m /\ beat.first = 0
        /\ beat.eop = (m > 0 /\ m = left) /\ beat.sop = (0 > 0)
    BY <2>1
  <2>3. m \in 1 .. left /\ m <= LANE_BYTES
    <3>1. CASE left <= LANE_BYTES
      <4>1. Min({left, LANE_BYTES}) = left
        BY <1>1, <3>1, MinIs
      <4>2. QED
        BY <1>1, <3>1, <4>1
    <3>2. CASE LANE_BYTES <= left
      <4>1. Min({LANE_BYTES, left}) = LANE_BYTES /\ {LANE_BYTES, left} = {left, LANE_BYTES}
        BY <1>1, <3>2, MinIs
      <4>2. Min({left, LANE_BYTES}) = LANE_BYTES
        BY <4>1
      <4>3. QED
        BY <1>1, <3>2, <4>2
    <3>3. QED
      BY <1>1, <3>1, <3>2
  <2>4. (m > 0 /\ m = left) = (m = left) /\ (0 > 0) = FALSE
    BY <1>1, <2>3
  <2>5. (beat.eop <=> beat.more = left) /\ ~beat.sop
    BY <2>2, <2>4, Zenon
  <2>6. left > 0
    BY <1>3
  <2>7. QED
    BY <2>2, <2>3, <2>5, <2>6
<1>4. QED
  BY <1>2, <1>3

(* The words of the open frame are not released. *)
LEMMA OpenStored ==
  ASSUME StoreInv, in_frame, NEW released \in ReleaseOrders
  PROVE  Filled(packet_start, writing, packet_length \div LANE_BYTES, Stored(released))
<1>1. Open /\ Packed(completions, held, deferred, ram)
  BY DEF StoreInv, Framed
<1>2. \A p \in ToSet(released) : p.id # writing
  BY <1>1, ReleasedHeld DEF Open, Allocated, Unread
<1>3. DOMAIN ram = 0 .. LOGICAL_ROWS - 1
  BY <1>1 DEF Packed
<1>4. packet_length \in Nat /\ LANE_BYTES \in Nat \ {0}
  BY <1>1, Sizes DEF Open
<1>5. packet_length \div LANE_BYTES \in Int
  BY <1>4, Divided
<1>6. packet_start \in Int
  <2>1. packet_start = Row(writing) /\ writing \in Int
    BY <1>1, RxRAMAssumption DEF Open
  <2>2. QED
    BY <2>1, RowIn
<1> DEFINE n == packet_length \div LANE_BYTES
<1>7. Filled(packet_start, writing, n, ram)
  BY <1>1 DEF Open
<1> HIDE DEF n
<1>8. n \in Int
  BY <1>5 DEF n
<1>9. Filled(packet_start, writing, n, Stored(released))
  BY <1>2, <1>3, <1>6, <1>7, <1>8, StoredKeeps
<1>10. QED
  BY <1>9 DEF n

(* An edge at which no beat is taken. *)
LEMMA IdleKeeps ==
  ASSUME StoreInv, NEW released \in ReleaseOrders, NEW pop \in BOOLEAN, NEW beat,
         NEW free, NEW B,
         Survive(free, B, CompletionsKept(pop), held', deferred', Stored(released)),
         release_row' = free.row, Idle(beat, free, pop, Stored(released))
  PROVE  StoreInv' /\ protocol_error' = (protocol_error \/ free.error)
<1>1. /\ completions' = CompletionsKept(pop) /\ used_rows' = free.used
      /\ protocol_error' = (protocol_error \/ free.error)
      /\ storage_full' \in BOOLEAN /\ ram' = Stored(released)
      /\ pack_count' = pack_count /\ next_row' = next_row /\ packet_start' = packet_start
      /\ packet_length' = packet_length /\ in_frame' = in_frame
      /\ left' = left /\ writing' = writing
  BY DEF Idle, frameRegs, StoreInv
<1>2. Survive(free, B, completions', held', deferred', ram')
  BY <1>1
<1>3. /\ Packed(completions, held, deferred, ram)'
      /\ Accounted' /\ protocol_error' \in BOOLEAN
  BY <1>1, <1>2, SurvivorsAccounted
<1>4. /\ Row(release_row' + used_rows') = Row(release_row + used_rows)
      /\ used_rows' \in 0 .. used_rows /\ Allocated' \subseteq Allocated
  BY <1>1, <1>2 DEF Survive, Allocated, Unread
<1>5. CASE in_frame
  <2>1. Open
    BY <1>5 DEF StoreInv, Framed
  <2>2. Filled(packet_start, writing, packet_length \div LANE_BYTES, Stored(released))
    BY <1>5, OpenStored
  <2>3. Filled(packet_start, writing, packet_length \div LANE_BYTES, ram)'
    BY <1>1, <2>2 DEF Filled, Row
  <2>4. used_rows' <= LOGICAL_ROWS - MAX_PACKET_ROWS
    <3>1. used_rows \in Nat /\ LOGICAL_ROWS \in Nat /\ MAX_PACKET_ROWS \in Nat
      <4>1. used_rows \in Nat
        BY TiledNumbers DEF StoreInv, Accounted, Holding
      <4>2. MAX_PACKET_ROWS \in Nat
        BY Sizes, RowsTaken DEF MAX_PACKET_ROWS
      <4>3. QED
        BY <4>1, <4>2, Sizes
    <3>2. QED
      BY <1>4, <2>1, <3>1 DEF Open
  <2>5. Open'
    BY <1>1, <1>4, <2>1, <2>3, <2>4 DEF Open, Row, MAX_PACKET_ROWS, released_rows, Even
  <2>6. Framed'
    BY <1>1, <1>5, <2>5 DEF Framed
  <2>7. QED
    BY <1>1, <1>3, <2>6 DEF StoreInv
<1>6. CASE ~in_frame
  <2>1. Between
    BY <1>6 DEF StoreInv, Framed
  <2>2. Between'
    BY <1>1, <1>4, <2>1 DEF Between, Row, InStore
  <2>3. Framed'
    BY <1>1, <1>6, <2>2 DEF Framed
  <2>4. QED
    BY <1>1, <1>3, <2>3 DEF StoreInv
<1>7. QED
  BY <1>1, <1>5, <1>6 DEF StoreInv

(* Words written to the rows behind the last packet leave the packets whole. *)
LEMMA FreeWords ==
  ASSUME StoreInv, NEW free, NEW B, NEW K, NEW H, NEW D, NEW S, Survive(free, B, K, H, D, S),
         NEW start, start = Row(release_row + used_rows), NEW id, NEW k \in Nat,
         NEW count \in Nat, used_rows + (k + count) <= LOGICAL_ROWS, Filled(start, id, k, S),
         NEW first, first = Row(start + k),
         NEW T, T = Written(S, id, start, first, count)
  PROVE  /\ Packed(K, H, D, T) /\ Filled(start, id, k + count, T)
<1>1. PICK A : Holding(A)
  BY DEF StoreInv, Accounted
<1>2. /\ release_row \in Int /\ used_rows \in Nat /\ LOGICAL_ROWS \in Nat \ {0}
      /\ used_rows <= LOGICAL_ROWS
  BY <1>1, TiledNumbers DEF Holding
<1>3. start \in Int
  <2>1. release_row + used_rows \in Int
    BY <1>2
  <2>2. QED
    BY <2>1, RowIn
<1>4. DOMAIN S = 0 .. LOGICAL_ROWS - 1 /\ k + count <= LOGICAL_ROWS
  BY <1>2 DEF Survive, Packed
<1>5. Grown(id, start, k, count, S, T)
  BY <1>3, <1>4, FilledGrows
<1>6. ASSUME NEW p \in ToSet(K) \cup H, NEW i \in 0 .. RowsFilled(p.length) - 1
      PROVE  T[Row(p.row + i)] = S[Row(p.row + i)]
  <2> DEFINE r == Row(p.row + i)
  <2>1. p \in A /\ p \in Packets
    BY <1>1, ToSetType DEF Survive, Packed, Holding
  <2>2. p.row \in Int /\ p.length \in Nat \ {0} /\ RowsFilled(p.length) \in Nat
    BY <2>1, PacketIs
  <2>3. RowsFilled(p.length) <= Rows(p) /\ Rows(p) \in Nat
    BY <2>2, RowsTaken DEF Rows
  <2>4. i \in 0 .. Rows(p) - 1
    BY <2>2, <2>3
  <2>5. r \in 0 .. LOGICAL_ROWS - 1
    <3>1. p.row + i \in Int
      BY <2>2
    <3>2. QED
      BY <3>1, RowIn
  <2>6. ASSUME NEW j \in k .. k + count - 1 PROVE r # Row(start + j)
    <3> DEFINE a == release_row + used_rows
               b == used_rows + j
    <3>1. a \in Int /\ j \in Int /\ a + j = release_row + b /\ b \in used_rows .. LOGICAL_ROWS - 1
      BY <1>2
    <3>2. Row(start + j) = Row(a + j)
      <4>1. start = Row(a)
        OBVIOUS
      <4> HIDE DEF a
      <4>2. QED
        BY <3>1, <4>1, RowSum
    <3>3. r # Row(release_row + b)
      <4>1. Tiled(A, release_row, used_rows)
        BY <1>1 DEF Holding
      <4> HIDE DEF b
      <4>2. QED
        BY <2>1, <2>4, <3>1, <4>1, FreeRows
    <3>4. QED
      BY <3>1, <3>2, <3>3
  <2> HIDE DEF r
  <2>7. T[r] = S[r]
    BY <1>5, <2>5, <2>6 DEF Grown
  <2>8. QED
    BY <2>7 DEF r
<1>7. Packed(K, H, D, T)
  BY <1>5, <1>6, PackedElsewhere DEF Survive, Grown
<1>8. QED
  BY <1>5, <1>7 DEF Grown

(* Survivors in other words. *)
LEMMA SurviveElsewhere ==
  ASSUME NEW free, NEW B, NEW K, NEW H, NEW D, NEW S, Survive(free, B, K, H, D, S),
         NEW T, Packed(K, H, D, T)
  PROVE  Survive(free, B, K, H, D, T)
BY DEF Survive

(* Rows are left for a frame that is under way. *)
LEMMA RoomIs ==
  ASSUME StoreInv
  PROVE  /\ release_row \in Int /\ used_rows \in Nat /\ MAX_PACKET_ROWS \in Nat
         /\ release_row + used_rows \in Int /\ (release_row + used_rows) % 2 = 0
         /\ Row(release_row + used_rows) \in 0 .. LOGICAL_ROWS - 1
         /\ Row(release_row + used_rows) % 2 = 0
<1>1. PICK A : Tiled(A, release_row, used_rows)
  BY DEF StoreInv, Accounted, Holding
<1>2. release_row \in Int /\ used_rows \in Nat
  BY <1>1, TiledNumbers
<1>3. MAX_PACKET_ROWS \in Nat
  BY Sizes, RowsTaken DEF MAX_PACKET_ROWS
<1>4. release_row % 2 = 0 /\ used_rows % 2 = 0
  BY <1>1 DEF Tiled
<1> DEFINE a == release_row + used_rows
<1>5. a \in Int /\ a % 2 = 0
  BY <1>2, <1>4, EvenSum
<1> HIDE DEF a
<1>6. Row(a) \in 0 .. LOGICAL_ROWS - 1 /\ Row(a) % 2 = 0
  BY <1>5, RowIn, EvenRow
<1>7. QED
  BY <1>2, <1>3, <1>5, <1>6 DEF a

(* No packet begins behind the last one. *)
LEMMA NoneBegins ==
  ASSUME StoreInv, used_rows <= LOGICAL_ROWS - MAX_PACKET_ROWS, NEW p \in Allocated
  PROVE  p.row # Row(release_row + used_rows) /\ Row(p.id) = p.row
<1>1. PICK A : Holding(A)
  BY DEF StoreInv, Accounted
<1>2. p \in A
  BY <1>1 DEF Holding, Allocated
<1>3. Tiled(A, release_row, used_rows)
  BY <1>1 DEF Holding
<1>4. Block(p) /\ Rows(p) \in Nat /\ Rows(p) >= 2 /\ Rows(p) <= MAX_PACKET_ROWS
  BY <1>2, <1>3, PlaceInRegion, RowsOfBlock
<1>5. used_rows \in used_rows .. LOGICAL_ROWS - 1 /\ 0 \in 0 .. Rows(p) - 1
  BY <1>4, RoomIs, Sizes
<1>6. Row(p.row + 0) # Row(release_row + used_rows)
  BY <1>2, <1>3, <1>5, FreeRows
<1>7. p.row + 0 = p.row /\ Row(p.row) = p.row
  BY <1>4, RowSmall DEF Block, InStore
<1>8. Row(p.id) = p.row
  BY DEF StoreInv, Packed, Allocated, Unread
<1>9. QED
  BY <1>6, <1>7, <1>8

(* What a beat begins: *)
LEMMA FirstBeatKeeps ==
  ASSUME StoreInv, IdsSuffice, NEW released \in ReleaseOrders, NEW pop \in BOOLEAN, NEW beat,
         ~in_frame, used_rows <= LOGICAL_ROWS - MAX_PACKET_ROWS,
         beat.more = 0, ~beat.eop, beat.sop,
         beat.first \in 1 .. LANE_BYTES, beat.size \in FrameLengths,
         NEW free, NEW B,
         Survive(free, B, CompletionsKept(pop), held', deferred', Stored(released)),
         release_row' = free.row, Take(beat, free, pop, Stored(released))
  PROVE  StoreInv' /\ protocol_error' = (protocol_error \/ free.error)
<1> DEFINE sum     == pack_count + beat.more
           full    == sum \div LANE_BYTES
           rest    == sum % LANE_BYTES
           partial == IF beat.eop /\ rest # 0 THEN 1 ELSE 0
           length  == Min({packet_length + beat.more, MAX_LENGTH})
           after   == next_row + full + partial
           start   == Even(IF beat.eop THEN Row(Even(after)) ELSE after)
           id      == FreeId(Row(start))
           rows    == released_rows(length)
           K       == CompletionsKept(pop)
           S       == Stored(released)
           count   == beat.first \div LANE_BYTES
<1>1. /\ pack_count' = beat.first % LANE_BYTES
      /\ next_row' = Row(start + count)
      /\ packet_start' = Row(start) /\ packet_length' = beat.first
      /\ in_frame' = TRUE /\ completions' = K /\ used_rows' = free.used
      /\ left' = beat.size - beat.first /\ writing' = id
  BY DEF Take
<1>2. /\ protocol_error' = (protocol_error \/ free.error \/ (beat.eop
             /\ (~(free.used + rows <= LOGICAL_ROWS) \/ Len(K) >= COMPLETION_FIFO_WORDS)))
      /\ storage_full' = (storage_full \/ (beat.eop /\ ~(free.used + rows <= LOGICAL_ROWS)))
  BY DEF Take
<1>3. ram' = Written(Written(S, writing, packet_start, next_row, full + partial),
                     id, Row(start), Row(start), count)
  BY DEF Take
<1>4. Between
  BY DEF StoreInv, Framed
<1>5. /\ LANE_BYTES \in Nat \ {0} /\ LOGICAL_ROWS \in Nat \ {0}
      /\ beat.size \in Nat /\ beat.size > LANE_BYTES /\ beat.size <= MAX_LENGTH
  BY Sizes, LengthIs
<1>6. sum = 0 /\ full = 0 /\ rest = 0 /\ partial = 0
  <2>1. sum = 0
    BY <1>4 DEF Between
  <2> HIDE DEF sum
  <2>2. full = 0 /\ rest = 0
    BY <1>5, <2>1
  <2>3. QED
    BY <2>1, <2>2
<1>7. /\ start = Row(release_row + used_rows) /\ start \in 0 .. LOGICAL_ROWS - 1
      /\ Row(start) = start
  <2>1. next_row = Row(release_row + used_rows) /\ next_row \in 0 .. LOGICAL_ROWS - 1
        /\ next_row % 2 = 0
    BY <1>4, RoomIs DEF Between
  <2> HIDE DEF full, partial
  <2>2. after = next_row
    BY <1>5, <1>6, <2>1
  <2> HIDE DEF after
  <2>3. start = next_row
    BY <1>5, <2>1, <2>2, EvenIs
  <2> HIDE DEF start
  <2>4. QED
    BY <2>1, <2>3, RowSmall
<1> HIDE DEF sum, full, rest, partial, start, K, S
<1>8. /\ id \in Ids /\ Row(id) = start /\ \A p \in Allocated : p.id # id
  <2>1. \A p \in Allocated : Row(p.id) # start
    BY <1>7, NoneBegins
  <2>2. QED
    BY <1>7, <2>1, FreeIdIs
<1> HIDE DEF id
<1>9. count \in Nat /\ count <= 1
  <2>1. beat.first \in Nat
    BY <1>5
  <2>2. LANE_BYTES \div LANE_BYTES = 1
    BY <1>5, DividedOnce
  <2>3. beat.first \div LANE_BYTES <= LANE_BYTES \div LANE_BYTES
    BY <1>5, <2>1, DividedGrows
  <2>4. count \in Nat
    BY <1>5, <2>1, DividedNat
  <2>5. QED
    BY <2>2, <2>3, <2>4
<1> DEFINE mid == Written(S, writing, packet_start, next_row, full + partial)
<1>10. /\ Survive(free, B, K, held', deferred', ram')
       /\ Filled(start, id, count, ram')
  <2>1. full + partial = 0
    BY <1>6
  <2>2. mid = S
    <3>1. mid = [r \in DOMAIN S |-> S[r]]
      <4>1. 0 .. 0 - 1 = {}
        OBVIOUS
      <4>2. QED
        BY <2>1, <4>1 DEF Written
    <3>2. S = [r \in DOMAIN S |-> S[r]]
      BY DEF S, Stored
    <3>3. QED
      BY <3>1, <3>2
  <2>3. ram' = Written(S, id, start, start, count)
    BY <1>3, <1>7, <2>2
  <2>4. start = Row(start + 0) /\ 0 + count = count
    BY <1>5, <1>7, <1>9
  <2>5. Filled(start, id, 0, S)
    BY DEF Filled
  <2>6. used_rows + (0 + count) <= LOGICAL_ROWS
    <3>1. MAX_PACKET_ROWS >= 2
      BY Sizes, RowsTaken DEF MAX_PACKET_ROWS
    <3>2. QED
      BY <1>5, <1>9, <3>1, RoomIs
  <2>7. Survive(free, B, K, held', deferred', S)
    BY DEF K, S
  <2> HIDE DEF count
  <2>8. Packed(K, held', deferred', ram') /\ Filled(start, id, 0 + count, ram')
    BY <1>7, <1>9, <2>3, <2>4, <2>5, <2>6, <2>7, FreeWords
  <2>9. QED
    BY <2>4, <2>7, <2>8, SurviveElsewhere
<1>11. protocol_error' = (protocol_error \/ free.error) /\ storage_full' \in BOOLEAN
  BY <1>2
<1>12. /\ Packed(completions, held, deferred, ram)'
       /\ Accounted' /\ protocol_error' \in BOOLEAN
  BY <1>1, <1>10, <1>11, SurvivorsAccounted
<1>13. /\ Row(release_row' + used_rows') = Row(release_row + used_rows)
       /\ used_rows' \in 0 .. used_rows /\ Allocated' \subseteq Allocated
  BY <1>1, <1>10 DEF Survive, Allocated, Unread
<1>14. Open'
  <2>1. left' \in Nat \ {0} /\ packet_length' \in Nat \ {0}
        /\ packet_length' + left' = beat.size
    BY <1>1, <1>5
  <2>2. used_rows' <= LOGICAL_ROWS - MAX_PACKET_ROWS
    BY <1>5, <1>13, RoomIs
  <2>3. packet_start' = Row(release_row' + used_rows') /\ packet_start' = start
    BY <1>1, <1>7, <1>13
  <2>4. next_row' = Row(packet_start' + (packet_length' \div LANE_BYTES))
    BY <1>1, <2>3
  <2>5. writing' \in Ids /\ Row(writing') = packet_start' /\ \A p \in Allocated' : p.id # writing'
    BY <1>1, <1>8, <1>13, <2>3
  <2>6. Filled(packet_start', writing', packet_length' \div LANE_BYTES, ram')
    BY <1>1, <1>10, <2>3
  <2>7. QED
    BY <1>1, <2>1, <2>2, <2>3, <2>4, <2>5, <2>6
    DEF Open, Row, Filled, MAX_PACKET_ROWS, released_rows, Even
<1>15. Framed' /\ in_frame' \in BOOLEAN
  BY <1>1, <1>14 DEF Framed
<1>16. QED
  BY <1>11, <1>12, <1>15 DEF StoreInv

(* The bytes of a beat of the open frame, in rows. *)
LEMMA BeatRows ==
  ASSUME StoreInv, in_frame, NEW m \in 1 .. left, NEW length, length = packet_length + m,
         NEW sum, sum = pack_count + m
  PROVE  /\ length \in 1 .. MAX_LENGTH /\ Min({length, MAX_LENGTH}) = length
         /\ packet_length \div LANE_BYTES \in Nat /\ sum \div LANE_BYTES \in Nat
         /\ (packet_length \div LANE_BYTES) + (sum \div LANE_BYTES) = length \div LANE_BYTES
         /\ sum % LANE_BYTES = length % LANE_BYTES
         /\ RowsFilled(length) = (packet_length \div LANE_BYTES) + (sum \div LANE_BYTES)
                                 + (IF sum % LANE_BYTES = 0 THEN 0 ELSE 1)
         /\ RowsFilled(length) \in Nat /\ used_rows + RowsFilled(length) <= LOGICAL_ROWS
         /\ released_rows(length) \in Nat /\ released_rows(length) <= MAX_PACKET_ROWS
         /\ released_rows(length) = Even(RowsFilled(length))
<1>1. Open
  BY DEF StoreInv, Framed
<1>2. /\ packet_length \in Nat \ {0} /\ left \in Nat \ {0}
      /\ packet_length + left \in 1 .. MAX_LENGTH
  BY <1>1, LengthIs DEF Open
<1>3. LANE_BYTES \in Nat \ {0} /\ MAX_LENGTH \in Nat \ {0} /\ LOGICAL_ROWS \in Nat \ {0}
  BY Sizes
<1>4. length \in 1 .. MAX_LENGTH /\ length \in Nat \ {0}
  BY <1>2, <1>3
<1>5. Min({length, MAX_LENGTH}) = length
  BY <1>3, <1>4, MinIs
<1>6. /\ length \div LANE_BYTES = (packet_length \div LANE_BYTES) + (sum \div LANE_BYTES)
      /\ length % LANE_BYTES = sum % LANE_BYTES
  <2>1. m \in Nat /\ packet_length \in Nat
    BY <1>2
  <2>2. /\ (packet_length + m) \div LANE_BYTES
             = (packet_length \div LANE_BYTES) + (((packet_length % LANE_BYTES) + m) \div LANE_BYTES)
        /\ (packet_length + m) % LANE_BYTES = ((packet_length % LANE_BYTES) + m) % LANE_BYTES
    BY <1>3, <2>1, DividedSum
  <2>3. pack_count = packet_length % LANE_BYTES
    BY <1>1 DEF Open
  <2>4. QED
    BY <2>2, <2>3
<1>7. packet_length \div LANE_BYTES \in Nat /\ sum \in Nat
  <2>1. packet_length \in Nat
    BY <1>2
  <2>2. packet_length \div LANE_BYTES \in Nat
        /\ packet_length % LANE_BYTES \in 0 .. LANE_BYTES - 1
    BY <1>3, <2>1, DividedNat
  <2>3. pack_count \in Nat
    BY <1>1, <1>3, <2>2 DEF Open
  <2>4. QED
    BY <1>2, <2>2, <2>3
<1>8. sum \div LANE_BYTES \in Nat
  BY <1>3, <1>7, DividedNat
<1>9. RowsFilled(length) = (length \div LANE_BYTES) + (IF length % LANE_BYTES = 0 THEN 0 ELSE 1)
  BY <1>3, <1>4, RoundedUp DEF RowsFilled
<1>10. /\ RowsFilled(length) \in Nat /\ released_rows(length) = Even(RowsFilled(length))
       /\ RowsFilled(length) <= released_rows(length) /\ released_rows(length) \in Nat
  BY <1>4, RowsTaken
<1>11. released_rows(length) <= MAX_PACKET_ROWS
  BY <1>4, RowsFit
<1>12. used_rows + RowsFilled(length) <= LOGICAL_ROWS
  <2>1. used_rows <= LOGICAL_ROWS - MAX_PACKET_ROWS
    BY <1>1 DEF Open
  <2>2. used_rows \in Nat /\ MAX_PACKET_ROWS \in Nat
    BY RoomIs
  <2>3. QED
    BY <1>3, <1>10, <1>11, <2>1, <2>2
<1>13. QED
  BY <1>4, <1>5, <1>6, <1>7, <1>8, <1>9, <1>10, <1>11, <1>12

(* What a beat carries on: *)
LEMMA NextBeatKeeps ==
  ASSUME StoreInv, NEW released \in ReleaseOrders, NEW pop \in BOOLEAN, NEW beat, in_frame,
         beat.more \in 1 .. left, beat.more # left, ~beat.eop, ~beat.sop, beat.first = 0,
         NEW free, NEW B,
         Survive(free, B, CompletionsKept(pop), held', deferred', Stored(released)),
         release_row' = free.row, Take(beat, free, pop, Stored(released))
  PROVE  StoreInv' /\ protocol_error' = (protocol_error \/ free.error)
<1> DEFINE m       == beat.more
           sum     == pack_count + m
           full    == sum \div LANE_BYTES
           rest    == sum % LANE_BYTES
           partial == IF beat.eop /\ rest # 0 THEN 1 ELSE 0
           long    == packet_length + m
           length  == Min({long, MAX_LENGTH})
           after   == next_row + full + partial
           start   == Even(IF beat.eop THEN Row(Even(after)) ELSE after)
           id      == FreeId(Row(start))
           rows    == released_rows(length)
           K       == CompletionsKept(pop)
           S       == Stored(released)
           k       == packet_length \div LANE_BYTES
           mid     == Written(S, writing, packet_start, next_row, full + partial)
<1>1. /\ pack_count' = rest /\ next_row' = Row(after)
      /\ packet_start' = packet_start /\ packet_length' = length
      /\ in_frame' = TRUE /\ completions' = K /\ used_rows' = free.used
      /\ left' = left - m /\ writing' = writing
  BY DEF Take
<1>2. /\ protocol_error' = (protocol_error \/ free.error \/ (beat.eop
             /\ (~(free.used + rows <= LOGICAL_ROWS) \/ Len(K) >= COMPLETION_FIFO_WORDS)))
      /\ storage_full' = (storage_full \/ (beat.eop /\ ~(free.used + rows <= LOGICAL_ROWS)))
  BY DEF Take
<1>3. ram' = Written(mid, id, Row(start), Row(start), beat.first \div LANE_BYTES)
  BY DEF Take
<1>4. protocol_error' = (protocol_error \/ free.error) /\ storage_full' \in BOOLEAN
  BY <1>2
<1>5. Open
  BY DEF StoreInv, Framed
<1>6. LANE_BYTES \in Nat \ {0} /\ LOGICAL_ROWS \in Nat \ {0}
  BY Sizes
<1>7. partial = 0 /\ beat.first \div LANE_BYTES = 0
  BY <1>6
<1> HIDE DEF long, sum
<1>8. /\ length = long /\ k \in Nat /\ full \in Nat /\ k + full = long \div LANE_BYTES
      /\ rest = long % LANE_BYTES /\ k + full <= RowsFilled(long)
      /\ RowsFilled(long) \in Nat /\ used_rows + RowsFilled(long) <= LOGICAL_ROWS
  <2>1. long = packet_length + m /\ sum = pack_count + m /\ m \in 1 .. left
    BY DEF long, sum
  <2> HIDE DEF m
  <2>2. /\ Min({long, MAX_LENGTH}) = long /\ k \in Nat /\ full \in Nat
        /\ k + full = long \div LANE_BYTES /\ rest = long % LANE_BYTES
        /\ RowsFilled(long) = k + full + (IF rest = 0 THEN 0 ELSE 1)
        /\ RowsFilled(long) \in Nat /\ used_rows + RowsFilled(long) <= LOGICAL_ROWS
    BY <2>1, BeatRows
  <2> HIDE DEF k, full
  <2>3. k + full <= RowsFilled(long)
    BY <2>2
  <2>4. QED
    BY <2>2, <2>3
<1> HIDE DEF full, rest, partial, length, K, S, id, rows, k
<1>9. packet_start = Row(release_row + used_rows) /\ next_row = Row(packet_start + k)
      /\ packet_start \in Int
  <2>1. packet_start = Row(release_row + used_rows) /\ next_row = Row(packet_start + k)
    BY <1>5 DEF Open, k
  <2>2. QED
    BY <2>1, RoomIs
<1>10. /\ Survive(free, B, K, held', deferred', ram')
       /\ Filled(packet_start, writing, k + full, ram')
  <2>1. full + partial = full
    BY <1>7, <1>8
  <2>2. mid = Written(S, writing, packet_start, Row(packet_start + k), full)
    BY <1>9, <2>1
  <2>3. ram' = mid
    <3> HIDE DEF start
    <3>1. ram' = Written(mid, id, Row(start), Row(start), 0)
      BY <1>3, <1>7
    <3>2. QED
      BY <3>1, WrittenNothing
  <2>4. used_rows + (k + full) <= LOGICAL_ROWS
    BY <1>6, <1>8, RoomIs
  <2>5. Survive(free, B, K, held', deferred', S)
    BY DEF K, S
  <2>6. Filled(packet_start, writing, k, S)
    BY OpenStored DEF k, S
  <2> HIDE DEF mid
  <2>7. Packed(K, held', deferred', mid) /\ Filled(packet_start, writing, k + full, mid)
    <3>1. packet_start = Row(release_row + used_rows)
      BY <1>9
    <3>2. QED
      BY <1>8, <2>2, <2>4, <2>5, <2>6, <3>1, FreeWords
  <2>8. QED
    BY <2>3, <2>5, <2>7, SurviveElsewhere
<1>11. /\ Packed(completions, held, deferred, ram)'
       /\ Accounted' /\ protocol_error' \in BOOLEAN
  BY <1>1, <1>4, <1>10, SurvivorsAccounted
<1>12. /\ Row(release_row' + used_rows') = Row(release_row + used_rows)
       /\ used_rows' \in 0 .. used_rows /\ Allocated' \subseteq Allocated
  BY <1>1, <1>10 DEF Survive, Allocated, Unread
<1>13. Open'
  <2>1. left' \in Nat \ {0} /\ packet_length' \in Nat \ {0}
        /\ packet_length' + left' = packet_length + left
    BY <1>1, <1>5, <1>8 DEF Open, long
  <2>2. used_rows' <= LOGICAL_ROWS - MAX_PACKET_ROWS
    BY <1>5, <1>6, <1>12, RoomIs DEF Open
  <2>3. packet_start' = Row(release_row' + used_rows')
    BY <1>1, <1>9, <1>12
  <2>4. packet_length' \div LANE_BYTES = k + full /\ pack_count' = packet_length' % LANE_BYTES
    BY <1>1, <1>8
  <2>5. next_row' = Row(packet_start' + (packet_length' \div LANE_BYTES))
    <3>1. next_row' = Row(next_row + full)
      <4>1. after = next_row + full
        <5>1. next_row \in Int
          <6>1. packet_start + k \in Int
            BY <1>8, <1>9
          <6>2. QED
            BY <1>9, <6>1, RowIn
        <5>2. QED
          BY <1>7, <1>8, <5>1
      <4>2. QED
        BY <1>1, <4>1
    <3>2. Row(Row(packet_start + k) + full) = Row((packet_start + k) + full)
      <4> DEFINE a == packet_start + k
      <4>1. a \in Int /\ full \in Int
        BY <1>8, <1>9
      <4> HIDE DEF a
      <4>2. Row(Row(a) + full) = Row(a + full)
        BY <4>1, RowSum
      <4>3. QED
        BY <4>2 DEF a
    <3>3. (packet_start + k) + full = packet_start + (k + full)
      BY <1>8, <1>9
    <3>4. QED
      BY <1>1, <1>9, <2>4, <3>1, <3>2, <3>3
  <2>6. writing' \in Ids /\ Row(writing') = packet_start' /\ \A p \in Allocated' : p.id # writing'
    BY <1>1, <1>5, <1>12 DEF Open
  <2>7. Filled(packet_start', writing', packet_length' \div LANE_BYTES, ram')
    BY <1>1, <1>10, <2>4
  <2>8. packet_length' + left' \in FrameLengths
    BY <1>5, <2>1 DEF Open
  <2>9. QED
    BY <2>1, <2>2, <2>3, <2>4, <2>5, <2>6, <2>7, <2>8
    DEF Open, Row, Filled, MAX_PACKET_ROWS, released_rows, Even
<1>14. Framed' /\ in_frame' \in BOOLEAN
  BY <1>1, <1>13 DEF Framed
<1>15. QED
  BY <1>4, <1>11, <1>14 DEF StoreInv

(* A completion more at the end. *)
LEMMA PackedAppend ==
  ASSUME NEW K, NEW H, NEW D, NEW S, Packed(K, H, D, S), Len(K) < COMPLETION_FIFO_WORDS,
         NEW p \in Packets, Row(p.id) = p.row, \A q \in ToSet(K) \cup H \cup D : q.id # p.id,
         Filled(p.row, p.id, RowsFilled(p.length), S)
  PROVE  /\ Packed(Append(K, p), H, D, S) /\ ToSet(Append(K, p)) = ToSet(K) \cup {p}
         /\ p \notin ToSet(K) \cup H \cup D
<1> DEFINE L == Append(K, p)
<1>1. K \in Seq(Packets) /\ Len(K) \in Nat /\ COMPLETION_FIFO_WORDS \in Nat
  BY Sizes DEF Packed
<1>2. /\ L \in Seq(Packets) /\ Len(L) = Len(K) + 1 /\ ToSet(L) = ToSet(K) \cup {p}
      /\ \A i \in 1 .. Len(K) : L[i] = K[i]
      /\ L[Len(K) + 1] = p
  BY <1>1, ToSetAppend
<1>3. p \notin ToSet(K) \cup H \cup D
  OBVIOUS
<1>4. \A i \in 1 .. Len(K) : K[i] \in ToSet(K)
  BY <1>1 DEF ToSet
<1> HIDE DEF L
<1>5. Distinct(L)
  <2>1. SUFFICES ASSUME NEW i \in 1 .. Len(L), NEW j \in 1 .. Len(L), L[i] = L[j] PROVE i = j
    BY DEF Distinct
  <2>2. CASE i \in 1 .. Len(K) /\ j \in 1 .. Len(K)
    BY <1>2, <2>1, <2>2 DEF Packed, Distinct
  <2>3. CASE i = Len(K) + 1 /\ j \in 1 .. Len(K)
    BY <1>2, <1>3, <1>4, <2>1, <2>3
  <2>4. CASE i \in 1 .. Len(K) /\ j = Len(K) + 1
    BY <1>2, <1>3, <1>4, <2>1, <2>4
  <2>5. CASE i = Len(K) + 1 /\ j = Len(K) + 1
    BY <2>5
  <2>6. QED
    BY <1>1, <1>2, <2>2, <2>3, <2>4, <2>5
<1>6. Len(L) <= COMPLETION_FIFO_WORDS
  BY <1>1, <1>2
<1>7. /\ ToSet(L) \cap H = {} /\ (ToSet(L) \cup H) \cap D = {}
      /\ \A q \in ToSet(L) \cup H \cup D : Row(q.id) = q.row
      /\ \A q, r \in ToSet(L) \cup H : q.id = r.id => q = r
      /\ \A q \in ToSet(L) \cup H : Filled(q.row, q.id, RowsFilled(q.length), S)
  BY <1>2, <1>3 DEF Packed
<1>8. Packed(L, H, D, S)
  BY <1>2, <1>5, <1>6, <1>7 DEF Packed
<1>9. QED
  BY <1>2, <1>3, <1>8 DEF L

(* What a beat ends: *)
LEMMA LastBeatKeeps ==
  ASSUME StoreInv, NEW released \in ReleaseOrders, NEW pop \in BOOLEAN, NEW beat, in_frame,
         beat.more = left, beat.eop, ~beat.sop, beat.first = 0,
         Len(CompletionsKept(pop)) < COMPLETION_FIFO_WORDS,
         NEW free, NEW B,
         Survive(free, B, CompletionsKept(pop), held', deferred', Stored(released)),
         release_row' = free.row, Take(beat, free, pop, Stored(released))
  PROVE  StoreInv' /\ protocol_error' = (protocol_error \/ free.error)
<1> DEFINE m       == beat.more
           sum     == pack_count + m
           full    == sum \div LANE_BYTES
           rest    == sum % LANE_BYTES
           partial == IF beat.eop /\ rest # 0 THEN 1 ELSE 0
           long    == packet_length + m
           length  == Min({long, MAX_LENGTH})
           after   == next_row + full + partial
           to      == Row(Even(after))
           start   == Even(IF beat.eop THEN to ELSE after)
           id      == FreeId(Row(start))
           rows    == released_rows(length)
           fits    == free.used + rows <= LOGICAL_ROWS
           K       == CompletionsKept(pop)
           S       == Stored(released)
           k       == packet_length \div LANE_BYTES
           mid     == Written(S, writing, packet_start, next_row, full + partial)
           packet  == [row |-> packet_start, length |-> length, id |-> writing]
           count   == full + partial
<1>1. /\ pack_count' = 0 /\ next_row' = Row(start)
      /\ packet_start' = packet_start /\ packet_length' = length
      /\ in_frame' = FALSE /\ left' = left - m /\ writing' = writing
  BY DEF Take
<1>2. /\ completions' = IF beat.eop /\ Len(K) < COMPLETION_FIFO_WORDS
                        THEN Append(K, packet) ELSE K
      /\ used_rows' = IF beat.eop /\ fits THEN free.used + rows ELSE free.used
      /\ protocol_error' = (protocol_error \/ free.error
                            \/ (beat.eop /\ (~fits \/ Len(K) >= COMPLETION_FIFO_WORDS)))
      /\ storage_full' = (storage_full \/ (beat.eop /\ ~fits))
  BY DEF Take
<1>3. ram' = Written(mid, id, Row(start), Row(start), beat.first \div LANE_BYTES)
  BY DEF Take
<1>4. Open
  BY DEF StoreInv, Framed
<1>5. LANE_BYTES \in Nat \ {0} /\ LOGICAL_ROWS \in Nat \ {0} /\ COMPLETION_FIFO_WORDS \in Nat
  BY Sizes
<1>6. /\ partial = (IF rest = 0 THEN 0 ELSE 1) /\ beat.first \div LANE_BYTES = 0
      /\ start = Even(to)
  BY <1>5
<1> HIDE DEF long, sum
<1>7. /\ length = long /\ long \in FrameLengths /\ k \in Nat /\ count \in Nat
      /\ k + count = RowsFilled(long) /\ RowsFilled(long) \in Nat
      /\ used_rows + RowsFilled(long) <= LOGICAL_ROWS
      /\ rows = Even(k + count) /\ rows \in Nat /\ rows <= MAX_PACKET_ROWS
      /\ full \in Nat
  <2>1. long = packet_length + m /\ sum = pack_count + m /\ m = left /\ m \in 1 .. left
    BY <1>4 DEF long, sum, Open
  <2> HIDE DEF m
  <2>2. /\ Min({long, MAX_LENGTH}) = long /\ k \in Nat /\ full \in Nat
        /\ RowsFilled(long) = k + full + (IF rest = 0 THEN 0 ELSE 1)
        /\ RowsFilled(long) \in Nat /\ used_rows + RowsFilled(long) <= LOGICAL_ROWS
        /\ released_rows(long) = Even(RowsFilled(long)) /\ released_rows(long) \in Nat
        /\ released_rows(long) <= MAX_PACKET_ROWS
    BY <2>1, BeatRows
  <2>3. length = long
    BY <2>2
  <2>4. rows = released_rows(long)
    BY <2>3
  <2> HIDE DEF k, full, rest, partial, length, rows
  <2>5. count \in Nat /\ k + count = RowsFilled(long)
    BY <1>6, <2>2
  <2> HIDE DEF count
  <2>6. long \in FrameLengths
    BY <1>4, <2>1 DEF Open
  <2>7. QED
    BY <2>2, <2>3, <2>4, <2>5, <2>6
<1> HIDE DEF K, S, id, rows, k
<1>8. /\ free.used \in Nat /\ free.used <= used_rows /\ used_rows \in Nat /\ fits
      /\ MAX_PACKET_ROWS \in Nat /\ free.row \in Int
  <2>1. free.used \in 0 .. used_rows /\ Tiled(B, free.row, free.used)
    BY DEF Survive
  <2>2. used_rows <= LOGICAL_ROWS - MAX_PACKET_ROWS
    BY <1>4 DEF Open
  <2>3. free.row \in Int
    BY <2>1, TiledNumbers
  <2>4. used_rows \in Nat /\ MAX_PACKET_ROWS \in Nat
    BY RoomIs
  <2>5. free.used \in Nat /\ free.used <= used_rows
    BY <2>1, <2>4
  <2>6. fits
    <3>1. /\ LOGICAL_ROWS \in Nat /\ rows \in Nat /\ rows <= MAX_PACKET_ROWS
          /\ used_rows <= LOGICAL_ROWS - MAX_PACKET_ROWS
          /\ used_rows \in Nat /\ MAX_PACKET_ROWS \in Nat
          /\ free.used \in Nat /\ free.used <= used_rows
      BY <1>5, <1>7, <2>2, <2>4, <2>5
    <3>2. free.used + rows <= LOGICAL_ROWS
      BY ONLY <3>1
    <3>3. QED
      BY <3>2
  <2>7. QED
    BY <2>3, <2>4, <2>5, <2>6
<1>9. /\ completions' = Append(K, packet) /\ used_rows' = free.used + rows
      /\ protocol_error' = (protocol_error \/ free.error) /\ storage_full' = storage_full
  <2>1. Len(K) < COMPLETION_FIFO_WORDS /\ ~(Len(K) >= COMPLETION_FIFO_WORDS)
    <3>1. Len(K) \in Nat
      BY DEF Survive, Packed, K
    <3>2. QED
      BY <1>5, <3>1 DEF K
  <2>2. completions' = Append(K, packet) /\ used_rows' = free.used + rows
    BY <1>2, <1>8, <2>1
  <2> HIDE DEF fits
  <2>3. (beat.eop /\ (~fits \/ Len(K) >= COMPLETION_FIFO_WORDS)) = FALSE
        /\ (beat.eop /\ ~fits) = FALSE
    BY <1>8, <2>1
  <2>4. protocol_error \in BOOLEAN /\ storage_full \in BOOLEAN /\ free.error \in BOOLEAN
    BY DEF StoreInv, Survive
  <2>5. QED
    BY <1>2, <2>2, <2>3, <2>4
<1>10. /\ packet_start = Row(release_row + used_rows) /\ next_row = Row(packet_start + k)
       /\ packet_start \in 0 .. LOGICAL_ROWS - 1 /\ packet_start \in Int
       /\ packet_start % 2 = 0 /\ next_row \in Int
  <2>1. packet_start = Row(release_row + used_rows) /\ next_row = Row(packet_start + k)
    BY <1>4 DEF Open, k
  <2>2. packet_start \in 0 .. LOGICAL_ROWS - 1 /\ packet_start \in Int /\ packet_start % 2 = 0
    BY <2>1, RoomIs, <1>5
  <2>3. packet_start + k \in Int
    BY <1>7, <2>2
  <2>4. next_row \in Int
    BY <2>1, <2>3, RowIn
  <2>5. QED
    BY <2>1, <2>2, <2>4
<1>11. /\ Survive(free, B, K, held', deferred', ram')
       /\ Filled(packet_start, writing, RowsFilled(long), ram')
  <2> HIDE DEF start, to, after, full, partial, rest, length, packet
  <2>1. mid = Written(S, writing, packet_start, Row(packet_start + k), count)
    BY <1>10
  <2>2. ram' = mid
    <3>1. ram' = Written(mid, id, Row(start), Row(start), 0)
      BY <1>3, <1>6
    <3>2. QED
      BY <3>1, WrittenNothing
  <2> HIDE DEF count, mid
  <2>3. used_rows + (k + count) <= LOGICAL_ROWS
    BY <1>7
  <2>4. Survive(free, B, K, held', deferred', S)
    BY DEF K, S
  <2>5. Filled(packet_start, writing, k, S)
    BY OpenStored DEF k, S
  <2>6. Packed(K, held', deferred', mid) /\ Filled(packet_start, writing, k + count, mid)
    <3>1. packet_start = Row(release_row + used_rows)
      BY <1>10
    <3>2. QED
      BY <1>7, <2>1, <2>3, <2>4, <2>5, <3>1, FreeWords
  <2>7. QED
    BY <1>7, <2>2, <2>4, <2>6, SurviveElsewhere
<1>12. next_row' = Row(packet_start + rows)
  <2>1. after = next_row + count
    <3>1. full \in Int /\ partial \in Int /\ next_row \in Int
      BY <1>6, <1>7, <1>10
    <3> HIDE DEF full, partial
    <3>2. QED
      BY <3>1
  <2>2. to = Row(Even(next_row + count))
    BY <2>1
  <2> HIDE DEF to, after, start, count
  <2>3. Even(to) = to /\ Row(to) = to /\ to = Row(packet_start + Even(k + count))
    <3>1. /\ packet_start \in Int /\ packet_start % 2 = 0 /\ k \in Nat /\ count \in Nat
          /\ next_row = Row(packet_start + k) /\ to = Row(Even(next_row + count))
      BY <1>7, <1>10, <2>2
    <3>2. EndsAt(Row(Even(Row(packet_start + k) + count)), packet_start, k + count)
      BY ONLY <3>1, EndRow
    <3>3. EndsAt(to, packet_start, k + count)
      BY ONLY <3>1, <3>2
    <3>4. QED
      BY ONLY <3>3 DEF EndsAt
  <2>4. QED
    BY <1>1, <1>6, <1>7, <2>3
<1> HIDE DEF to, after, start, count, full, partial, rest, length, mid, fits
<1>13. /\ packet \in Packets /\ packet.row = packet_start /\ packet.length = long
       /\ packet.id = writing
  BY <1>4, <1>7, <1>10 DEF Packets, Open
<1> HIDE DEF packet
<1>14. PICK p : p = packet
  OBVIOUS
<1>15. p \in Packets /\ p.row = packet_start /\ p.length = long /\ p.id = writing
  BY <1>13, <1>14
<1>16. completions' = Append(K, p)
  BY <1>9, <1>14
<1>17. Rows(p) = rows /\ Block(p)
  BY <1>7, <1>10, <1>15, LengthIs DEF Rows, rows, Block, InStore
<1>18. /\ Row(p.id) = p.row
       /\ \A q \in ToSet(K) \cup held' \cup deferred' : q.id # p.id
       /\ Filled(p.row, p.id, RowsFilled(p.length), ram')
  BY <1>4, <1>11, <1>15 DEF Open, Survive
<1>19. /\ Packed(Append(K, p), held', deferred', ram')
       /\ ToSet(Append(K, p)) = ToSet(K) \cup {p}
       /\ p \notin ToSet(K) \cup held' \cup deferred'
  <2>1. Packed(K, held', deferred', ram') /\ Len(K) < COMPLETION_FIFO_WORDS
    BY <1>11 DEF Survive, K
  <2>2. QED
    BY <1>15, <1>18, <2>1, PackedAppend
<1>20. Packed(completions, held, deferred, ram)'
  <2>1. Packed(completions', held', deferred', ram')
    BY <1>19, <1>16
  <2>2. QED
    BY <2>1 DEF Packed, Distinct, Filled, Packets, Row, RowsFilled
<1> DEFINE C == B \cup {p}
<1>21. Tiled(C, release_row', used_rows')
  <2>1. Tiled(B, free.row, free.used) /\ p.row = Row(free.row + free.used)
    BY <1>10, <1>11, <1>15 DEF Survive
  <2>2. free.used + Rows(p) <= LOGICAL_ROWS
    BY <1>8, <1>17 DEF fits
  <2>3. Tiled(B \cup {p}, free.row, free.used + Rows(p))
    BY <1>17, <2>1, <2>2, TiledAppend
  <2>4. QED
    BY <1>9, <1>17, <2>3
<1>22. Allocated' = ToSet(K) \cup {p} \cup held' \cup deferred'
  BY <1>19, <1>16 DEF Allocated, Unread
<1>23. Holding(C)'
  <2>1. Tiled(C, release_row, used_rows)'
    BY <1>21 DEF Tiled, Before, Block, Place, Rows, InStore, Row, released_rows, Even,
                 MAX_PACKET_ROWS
  <2>2. (Unread \cup deferred \subseteq C)'
    BY <1>11, <1>19, <1>16 DEF Survive, Unread
  <2>3. /\ (Unread \cap deferred = {})'
        /\ IsFiniteSet(deferred)' /\ (Cardinality(deferred) <= RELEASE_SLOTS)'
    BY <1>20 DEF Packed, Unread
  <2>4. QED
    BY <2>1, <2>2, <2>3 DEF Holding
<1>24. NoError' => C = Allocated'
  BY <1>9, <1>11, <1>22 DEF Survive, NoError, StoreInv
<1>25. Accounted'
  BY <1>23, <1>24 DEF Accounted
<1>26. protocol_error' \in BOOLEAN /\ storage_full' \in BOOLEAN
  BY <1>9, <1>11 DEF StoreInv, Survive
<1>27. Between'
  <2>1. left' = 0
    BY <1>1, <1>4 DEF Open
  <2>2. packet_length' \in 0 .. MAX_LENGTH
    <3>1. long \in 1 .. MAX_LENGTH
      BY <1>7, LengthIs
    <3>2. QED
      BY <1>1, <1>7, <3>1, Sizes
  <2>3. next_row' = Row(release_row' + used_rows')
    <3> DEFINE a == free.row + free.used
    <3>1. a \in Int /\ a + rows = release_row' + used_rows' /\ rows \in Int
      <4>1. /\ free.row \in Int /\ free.used \in Nat /\ rows \in Nat
            /\ release_row' = free.row /\ used_rows' = free.used + rows
        BY <1>7, <1>8, <1>9
      <4>2. QED
        BY ONLY <4>1
    <3>2. packet_start = Row(a)
      BY <1>10, <1>11 DEF Survive
    <3> HIDE DEF a
    <3>3. Row(Row(a) + rows) = Row(a + rows)
      BY <3>1, RowSum
    <3>4. QED
      BY <1>12, <3>1, <3>2, <3>3
  <2>4. InStore(packet_start') /\ packet_start' % 2 = 0
    BY <1>1, <1>10 DEF InStore
  <2>5. QED
    BY <1>1, <2>1, <2>2, <2>3, <2>4 DEF Between, Row, InStore
<1>28. Framed' /\ in_frame' \in BOOLEAN
  BY <1>1, <1>27 DEF Framed
<1>29. QED
  BY <1>9, <1>20, <1>25, <1>26, <1>28 DEF StoreInv

-----------------------------------------------------------------------------
(* The invariant holds.                                                    *)

(* The empty store. *)
LEMMA StoreBegins ==
  ASSUME Init
  PROVE  StoreInv
<1>1. /\ LANE_BYTES \in Nat \ {0} /\ LOGICAL_ROWS \in Nat \ {0}
      /\ COMPLETION_FIFO_WORDS \in Nat \ {0} /\ RELEASE_SLOTS \in Nat \ {0}
      /\ MAX_LENGTH \in Nat \ {0}
  BY Sizes
<1>2. ToSet(completions) = {} /\ Len(completions) = 0 /\ completions \in Seq(Packets)
  BY DEF Init, ToSet
<1>3. Unread = {} /\ Allocated = {}
  BY <1>2 DEF Init, Unread, Allocated
<1>4. Packed(completions, held, deferred, ram)
  <2>1. IsFiniteSet(deferred) /\ Cardinality(deferred) <= RELEASE_SLOTS
    BY <1>1, FS_EmptySet DEF Init
  <2>2. Distinct(completions) /\ Len(completions) <= COMPLETION_FIFO_WORDS
    BY <1>1, <1>2 DEF Distinct
  <2>3. QED
    BY <1>2, <2>1, <2>2 DEF Packed, Init
<1>5. Row(0) = 0 /\ 0 % 2 = 0
  BY <1>1, RowSmall
<1>6. Framed
  <2>1. Row(release_row + used_rows) = 0
    BY <1>5 DEF Init
  <2>2. Between
    BY <1>1, <1>5, <2>1 DEF Init, Between, InStore
  <2>3. QED
    BY <2>2 DEF Framed, Init
<1>7. Tiled({}, release_row, used_rows)
  BY <1>1, <1>5 DEF Init, Tiled, InStore
<1>8. Holding({})
  BY <1>3, <1>7, <1>1, FS_EmptySet DEF Holding, Init, Unread
<1>9. Accounted
  <2>1. Cardinality({}) <= RELEASE_SLOTS
    BY <1>1, FS_EmptySet
  <2>2. QED
    BY <1>3, <1>8, <2>1 DEF Accounted
<1>10. QED
  BY <1>4, <1>6, <1>9 DEF StoreInv, Init

(* And every edge, which raises no error while the packets are few. *)
LEMMA StoreSteps ==
  ASSUME FramesApart, IdsSuffice, StoreInv, [Next]_vars
  PROVE  StoreInv' /\ (NoError /\ FewPackets => NoError')
<1>1. CASE UNCHANGED vars
  <2>1. /\ pack_count' = pack_count /\ next_row' = next_row /\ packet_start' = packet_start
        /\ packet_length' = packet_length /\ in_frame' = in_frame
        /\ release_row' = release_row /\ used_rows' = used_rows /\ deferred' = deferred
        /\ completions' = completions /\ protocol_error' = protocol_error
        /\ storage_full' = storage_full /\ ram' = ram /\ writing' = writing
        /\ left' = left /\ held' = held
    BY <1>1 DEF vars, frameRegs
  <2>2. Packed(completions, held, deferred, ram)'
    BY <2>1 DEF StoreInv, Packed, Distinct, Filled, Packets, Row, RowsFilled
  <2>3. Allocated' = Allocated /\ Unread' = Unread
    BY <2>1 DEF Allocated, Unread
  <2>4. Framed'
    BY <2>1, <2>3 DEF StoreInv, Framed, Open, Between, Filled, Row, InStore,
                      MAX_PACKET_ROWS, released_rows, Even
  <2>5. Accounted'
    <3>1. PICK A : Holding(A) /\ (NoError => A = Allocated)
      BY DEF StoreInv, Accounted
    <3>2. Tiled(A, release_row, used_rows)'
      BY <2>1, <3>1 DEF Holding, Tiled, Before, Block, Place, Rows, InStore, Row,
                        released_rows, Even, MAX_PACKET_ROWS
    <3>3. Holding(A)'
      BY <2>1, <2>3, <3>1, <3>2 DEF Holding
    <3>4. NoError' => A = Allocated'
      BY <2>1, <2>3, <3>1 DEF NoError
    <3>5. QED
      BY <3>3, <3>4 DEF Accounted
  <2>6. QED
    BY <2>1, <2>2, <2>4, <2>5 DEF StoreInv, NoError
<1>2. CASE Next
  <2>1. PICK beat \in Beats \cup {NoBeat}, pop \in Pops, released \in ReleaseOrders :
          Clock(beat, pop, released)
    BY <1>2 DEF Next
  <2>2. pop \in BOOLEAN
    BY DEF Pops
  <2> DEFINE free == AfterReleases(released)
             D == free.kept \cup free.added
             K == CompletionsKept(pop)
             S == Stored(released)
  <2>3. /\ release_row' = free.row /\ deferred' = D /\ held' = HeldAfter(released, pop)
        /\ IF beat # NoBeat /\ InputReady(pop)
           THEN Take(beat, free, pop, S) ELSE Idle(beat, free, pop, S)
    BY <2>1 DEF Clock, HeldAfter
  <2>4. \E B : Survive(free, B, K, held', deferred', S)
    <3> HIDE DEF free, K, S
    <3>1. \E B : Survive(free, B, CompletionsKept(pop), HeldAfter(released, pop), D, Stored(released))
      <4> HIDE DEF D
      <4>1. D = free.kept \cup free.added /\ free = AfterReleases(released)
        BY DEF D, free
      <4>2. QED
        BY <2>2, <4>1, EdgeReclaims
    <3>2. QED
      BY <2>3, <3>1 DEF K, S
  <2> HIDE DEF free, D
  <2>5. PICK B : Survive(free, B, K, held', deferred', S)
    BY <2>4
  <2>6. SUFFICES StoreInv' /\ protocol_error' = (protocol_error \/ free.error)
    BY <2>5 DEF Survive, NoError
  <2>7. CASE ~(beat # NoBeat /\ InputReady(pop))
    <3>1. Idle(beat, free, pop, S)
      BY <2>3, <2>7
    <3>2. QED
      BY <2>2, <2>3, <2>5, <3>1, IdleKeeps
  <2>8. CASE beat # NoBeat /\ InputReady(pop)
    <3>1. Take(beat, free, pop, S) /\ beat \in Beats
      BY <2>3, <2>8
    <3>2. /\ Len(K) < COMPLETION_FIFO_WORDS
          /\ in_frame \/ used_rows <= LOGICAL_ROWS - MAX_PACKET_ROWS
      BY <2>8 DEF InputReady
    <3>3. /\ left \in Nat /\ in_frame \in BOOLEAN
          /\ left = 0 <=> ~in_frame
      BY DEF StoreInv, Framed, Open, Between
    <3>4. \/ /\ left = 0 /\ beat.more = 0 /\ ~beat.eop /\ beat.sop
             /\ beat.first \in 1 .. LANE_BYTES /\ beat.size \in FrameLengths
          \/ /\ left > 0 /\ beat.more \in 1 .. left /\ beat.more <= LANE_BYTES
             /\ (beat.eop <=> beat.more = left) /\ ~beat.sop /\ beat.first = 0
      BY <3>1, <3>3, BeatIs
    <3>5. CASE ~in_frame
      <4>1. /\ beat.more = 0 /\ ~beat.eop /\ beat.sop
            /\ beat.first \in 1 .. LANE_BYTES /\ beat.size \in FrameLengths
        BY <3>3, <3>4, <3>5
      <4>2. QED
        BY <2>2, <2>3, <2>5, <3>1, <3>2, <3>5, <4>1, FirstBeatKeeps
    <3>6. CASE in_frame /\ beat.more # left
      <4>1. beat.more \in 1 .. left /\ ~beat.eop /\ ~beat.sop /\ beat.first = 0
        BY <3>3, <3>4, <3>6
      <4>2. QED
        BY <2>2, <2>3, <2>5, <3>1, <3>6, <4>1, NextBeatKeeps
    <3>7. CASE in_frame /\ beat.more = left
      <4>1. beat.eop /\ ~beat.sop /\ beat.first = 0
        BY <3>3, <3>4, <3>7
      <4>2. QED
        BY <2>2, <2>3, <2>5, <3>1, <3>2, <3>7, <4>1, LastBeatKeeps
    <3>8. QED
      BY <3>5, <3>6, <3>7
  <2>9. QED
    BY <2>7, <2>8
<1>3. QED
  BY <1>1, <1>2

(* Where frames are apart the invariant is one.                            *)
LEMMA StoreHolds ==
  ASSUME FramesApart, IdsSuffice
  PROVE  Spec => []StoreInv
<1>1. Init => StoreInv
  BY StoreBegins
<1>2. StoreInv /\ [Next]_vars => StoreInv'
  BY StoreSteps
<1>3. QED
  BY <1>1, <1>2, PTL DEF Spec

-----------------------------------------------------------------------------
(* What it is for.                                                         *)

(* A packet that was reported complete can be read whole until it is       *)
(* released, whatever the order of the releases and however many slots     *)
(* there are for early ones: a lost release costs rows, never bytes.       *)
THEOREM PacketsStayIntact ==
  ASSUME FramesApart, IdsSuffice
  PROVE  Spec => []PacketsIntact
<1>1. StoreInv => PacketsIntact
  <2> SUFFICES ASSUME StoreInv, NEW p \in Unread, NEW i \in Words(p)
               PROVE  ram[Row(p.row + i)] = [id |-> p.id, word |-> i]
    BY DEF PacketsIntact
  <2>1. p \in Packets /\ Filled(p.row, p.id, RowsFilled(p.length), ram)
    BY ToSetType DEF StoreInv, Packed, Unread
  <2>2. (p.length - 1) \div LANE_BYTES = RowsFilled(p.length) - 1
    BY <2>1, PacketIs, RowsTaken
  <2>3. i \in 0 .. RowsFilled(p.length) - 1
    BY <2>2 DEF Words
  <2>4. QED
    BY <2>1, <2>3 DEF Filled
<1>2. QED
  BY <1>1, StoreHolds, PTL

(* Every register stays in its range, and no FIFO overflows. *)
THEOREM StoreTypes ==
  ASSUME FramesApart, IdsSuffice
  PROVE  Spec => []TypeOK
<1>1. StoreInv => TypeOK
  <2> SUFFICES ASSUME StoreInv PROVE TypeOK
    OBVIOUS
  <2>1. PICK A : Tiled(A, release_row, used_rows)
    BY DEF StoreInv, Accounted, Holding
  <2>2. used_rows \in 0 .. LOGICAL_ROWS /\ release_row \in 0 .. LOGICAL_ROWS - 1
    BY <2>1 DEF Tiled, InStore
  <2>3. /\ pack_count \in 0 .. LANE_BYTES - 1
        /\ next_row \in 0 .. LOGICAL_ROWS - 1 /\ packet_start \in 0 .. LOGICAL_ROWS - 1
        /\ packet_length \in 0 .. MAX_LENGTH
    <3>1. CASE in_frame
      <4>1. Open
        BY <3>1 DEF StoreInv, Framed
      <4>2. /\ packet_length \in Nat /\ left \in Nat \ {0}
            /\ packet_length + left \in 1 .. MAX_LENGTH
        BY <4>1, LengthIs DEF Open
      <4>3. packet_length \in 0 .. MAX_LENGTH
        BY <4>2, Sizes
      <4>4. /\ packet_length \div LANE_BYTES \in Nat
            /\ packet_length % LANE_BYTES \in 0 .. LANE_BYTES - 1
        BY <4>2, Sizes, DividedNat
      <4>5. packet_start \in 0 .. LOGICAL_ROWS - 1 /\ packet_start \in Int
        BY <4>1, RoomIs, Sizes DEF Open
      <4>6. packet_start + (packet_length \div LANE_BYTES) \in Int
        BY <4>4, <4>5
      <4>7. next_row \in 0 .. LOGICAL_ROWS - 1
        BY <4>1, <4>6, RowIn DEF Open
      <4>8. QED
        BY <4>1, <4>3, <4>4, <4>5, <4>7 DEF Open
    <3>2. CASE ~in_frame
      <4>1. Between
        BY <3>2 DEF StoreInv, Framed
      <4>2. QED
        BY <4>1, RoomIs, Sizes DEF Between, InStore
    <3>3. QED
      BY <3>1, <3>2
  <2>4. QED
    BY <2>2, <2>3 DEF StoreInv, Packed, TypeOK
<1>2. QED
  BY <1>1, StoreHolds, PTL

(* As long as no error was raised the rows in use are exactly those of the *)
(* packets not yet reclaimed, each in one packet. *)
LEMMA TiledRegion ==
  ASSUME StoreInv, NoError
  PROVE  RegionTiled
<1>1. Tiled(Allocated, release_row, used_rows)
  BY DEF StoreInv, Accounted, Holding
<1>2. /\ release_row \in Int /\ used_rows \in Nat /\ LOGICAL_ROWS \in Nat \ {0}
      /\ release_row % 2 = 0
  BY <1>1, TiledNumbers DEF Tiled
<1>3. ASSUME NEW p \in Allocated
      PROVE  /\ Rows(p) \in Nat /\ Place(p, release_row) \in Nat
             /\ Place(p, release_row) + Rows(p) <= used_rows
             /\ \A i \in Int : Row(p.row + i) = Row(release_row + (Place(p, release_row) + i))
  BY <1>1, PlaceInRegion, Placed DEF Tiled, Block
<1>4. ASSUME NEW r \in UNION {RowsOf(p) : p \in Allocated} PROVE r \in Region
  <2>1. PICK p \in Allocated : r \in RowsOf(p)
    OBVIOUS
  <2>2. PICK i \in 0 .. Rows(p) - 1 : r = Row(p.row + i)
    BY <2>1 DEF RowsOf, Rows
  <2> DEFINE a == Place(p, release_row) + i
  <2>3. a \in 0 .. used_rows - 1
    BY <1>2, <1>3
  <2>4. r = Row(release_row + a)
    BY <1>3, <2>2
  <2> HIDE DEF a
  <2>5. QED
    BY <2>3, <2>4 DEF Region
<1>5. ASSUME NEW r \in Region PROVE r \in UNION {RowsOf(p) : p \in Allocated}
  <2>1. PICK a \in 0 .. used_rows - 1 : r = Row(release_row + a)
    BY DEF Region
  <2>2. PICK p \in Allocated : Place(p, release_row) <= a /\ a < Place(p, release_row) + Rows(p)
    BY <1>1, <2>1 DEF Tiled
  <2> DEFINE i == a - Place(p, release_row)
  <2>3. i \in 0 .. Rows(p) - 1 /\ Place(p, release_row) + i = a
    BY <1>3, <2>2
  <2>4. Row(p.row + i) = Row(release_row + (Place(p, release_row) + i))
    BY <1>3, <2>3
  <2>5. r = Row(p.row + i)
    BY <2>1, <2>3, <2>4
  <2> HIDE DEF i
  <2>6. r \in RowsOf(p)
    BY <2>3, <2>5 DEF RowsOf, Rows
  <2>7. QED
    BY <2>6
<1>6. ASSUME NEW p \in Allocated, NEW q \in Allocated, p # q
      PROVE  RowsOf(p) \cap RowsOf(q) = {}
  <2>1. SUFFICES ASSUME NEW i \in 0 .. Rows(p) - 1, NEW j \in 0 .. Rows(q) - 1,
                        Row(p.row + i) = Row(q.row + j)
                 PROVE  FALSE
    BY DEF RowsOf, Rows
  <2>2. QED
    BY <1>1, <1>6, <2>1, RowsApart
<1>7. /\ next_row = Row(IF in_frame THEN packet_start + packet_length \div LANE_BYTES
                                    ELSE release_row + used_rows)
      /\ packet_start % 2 = 0
  <2>1. CASE in_frame
    BY <2>1, RoomIs DEF StoreInv, Framed, Open
  <2>2. CASE ~in_frame
    BY <2>2 DEF StoreInv, Framed, Between
  <2>3. QED
    BY <2>1, <2>2
<1>8. QED
  BY <1>2, <1>4, <1>5, <1>6, <1>7 DEF RegionTiled

(* As long as no error was raised no row is lost and none is given twice. *)
THEOREM RegionIsTiled ==
  ASSUME FramesApart, IdsSuffice
  PROVE  Spec => [](NoError => RegionTiled)
<1>1. StoreInv => (NoError => RegionTiled)
  BY TiledRegion
<1>2. QED
  BY <1>1, StoreHolds, PTL

(* An error needs more packets in the store than there are slots for early *)
(* releases: the beats of frames that fit never raise one, and a release   *)
(* is lost only if it finds no slot. *)
THEOREM ErrorsNeedCrowds ==
  ASSUME FramesApart, IdsSuffice
  PROVE  Spec /\ []FewPackets => [](NoError /\ RegionTiled)
<1>1. Init => StoreInv /\ NoError
  BY StoreBegins DEF Init, NoError
<1>2. StoreInv /\ NoError /\ FewPackets /\ [Next]_vars => StoreInv' /\ NoError'
  BY StoreSteps
<1>3. StoreInv /\ NoError => NoError /\ RegionTiled
  BY TiledRegion
<1>4. QED
  BY <1>1, <1>2, <1>3, PTL DEF Spec
=============================================================================
