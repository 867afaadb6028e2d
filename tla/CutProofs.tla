----------------------------- MODULE CutProofs -----------------------------
(***************************************************************************)
(* Facts about packets cut from beats, by induction over the beats.        *)
(***************************************************************************)
EXTENDS Cuts, Integers, SequenceTheorems, WellFoundedInduction, TLAPS

-----------------------------------------------------------------------------
(* Induction, as facts about sets.                                         *)

(* A set of numbers has a least one.                                       *)
LEMMA SetMin ==
  ASSUME NEW T \in SUBSET Nat, T # {}
  PROVE  \E x \in T : \A y \in T : x <= y
<1> DEFINE R == OpToRel(<, Nat)
<1>1. IsWellFoundedOn(R, Nat)
  BY NatLessThanWellFounded
<1>2. \A x, y \in Nat : x < y => << x, y >> \in R
  BY DEF OpToRel
<1> HIDE DEF R
<1>3. \E x \in T : \A y \in T : ~(<< y, x >> \in R)
  BY <1>1, WFMin
<1>4. PICK x \in T : \A y \in T : ~(<< y, x >> \in R)
  BY <1>3
<1>5. \A y \in T : ~(y < x)
  BY <1>2, <1>4
<1>6. QED
  BY <1>5

(* A set that has zero, and with a number the next, has all numbers.       *)
LEMMA SetInduction ==
  ASSUME NEW T \in SUBSET Nat, 0 \in T, \A n \in T : n + 1 \in T
  PROVE  T = Nat
<1>1. SUFFICES ASSUME Nat \ T # {} PROVE FALSE
  OBVIOUS
<1>2. PICK x \in Nat \ T : \A y \in Nat \ T : x <= y
  BY <1>1, SetMin
<1>3. x # 0 /\ x - 1 \in Nat /\ x - 1 \in T
  BY <1>2
<1>4. QED
  BY <1>2, <1>3

(* A set that has the empty sequence, and with a sequence those one longer, *)
(* has all sequences.                                                       *)
LEMMA SequenceInduction ==
  ASSUME NEW S, NEW T \in SUBSET Seq(S), << >> \in T,
         \A t \in T : \A x \in S : Append(t, x) \in T
  PROVE  T = Seq(S)
<1> DEFINE N == {n \in Nat : \A t \in Seq(S) : Len(t) = n => t \in T}
<1>1. 0 \in N
  <2>1. \A t \in Seq(S) : Len(t) = 0 => t = << >>
    OBVIOUS
  <2>2. QED
    BY <2>1
<1>2. ASSUME NEW n \in N PROVE n + 1 \in N
  <2>1. SUFFICES ASSUME NEW t \in Seq(S), Len(t) = n + 1 PROVE t \in T
    OBVIOUS
  <2>2. n \in Nat
    OBVIOUS
  <2> DEFINE f == SubSeq(t, 1, n)
             x == t[n + 1]
  <2>3. f \in Seq(S) /\ Len(f) = n /\ x \in S
    BY <2>1, <2>2
  <2>4. t = Append(f, x)
    <3>2. \A i \in 1 .. n : f[i] = t[i]
      BY <2>1, <2>2
    <3> HIDE DEF f, x
    <3>1. Append(f, x) \in Seq(S) /\ Len(Append(f, x)) = Len(t)
      BY ONLY <2>1, <2>3, AppendProperties
    <3>3. Append(f, x)[n + 1] = x /\ \A i \in 1 .. n : Append(f, x)[i] = f[i]
      BY <2>2, <2>3, AppendProperties
    <3>4. \A i \in 1 .. n + 1 : Append(f, x)[i] = t[i]
      <4> DEFINE a == Append(f, x)
      <4>1. a[n + 1] = t[n + 1] /\ \A i \in 1 .. n : a[i] = t[i]
        BY <3>2, <3>3 DEF x
      <4> HIDE DEF a
      <4>2. \A i \in 1 .. n + 1 : a[i] = t[i]
        <5>1. \A i \in 1 .. n + 1 : i \in 1 .. n \/ i = n + 1
          BY <2>2
        <5>2. QED
          BY <4>1, <5>1
      <4>3. QED
        BY <4>2 DEF a
    <3>5. QED
      BY <2>1, <3>1, <3>4, SeqEqual
  <2>5. f \in T
    BY <2>3
  <2> HIDE DEF f, x
  <2>6. QED
    BY <2>3, <2>4, <2>5
<1>3. N = Nat
  <2> HIDE DEF N
  <2>1. N \in SUBSET Nat
    BY DEF N
  <2>2. QED
    BY <1>1, <1>2, <2>1, SetInduction
<1>4. ASSUME NEW t \in Seq(S)
      PROVE  t \in T
  <2>1. Len(t) \in N
    BY <1>3
  <2>2. QED
    BY <2>1
<1>5. QED
  BY <1>4

-----------------------------------------------------------------------------
(* The recursion.                                                          *)

NoPackets == [packets |-> << >>, open |-> << >>]

(* g is the recursive function of Cutting up to the n-th beat.             *)
CutsTo(g, beats, n) ==
  g = [i \in 0 .. n |-> IF i = 0 THEN NoPackets ELSE With(g[i - 1], beats[i])]

(* The packets of the first beats can be counted up one beat at a time. *)
LEMMA CutsToExists ==
  ASSUME NEW beats, NEW n \in Nat
  PROVE  \E g : CutsTo(g, beats, n)
<1> DEFINE T == {m \in Nat : \E g : CutsTo(g, beats, m)}
<1>1. 0 \in T
  <2> DEFINE g == [i \in 0 .. 0 |-> NoPackets]
  <2>1. CutsTo(g, beats, 0)
    BY DEF CutsTo
  <2>2. QED
    BY <2>1
<1>2. ASSUME NEW m \in T PROVE m + 1 \in T
  <2>1. PICK g : CutsTo(g, beats, m)
    OBVIOUS
  <2>2. m \in Nat
    OBVIOUS
  <2> DEFINE h == [i \in 0 .. m + 1 |-> IF i = m + 1 THEN With(g[m], beats[m + 1]) ELSE g[i]]
  <2>3. \A i \in 0 .. m : g[i] = IF i = 0 THEN NoPackets ELSE With(g[i - 1], beats[i])
    BY <2>1 DEF CutsTo
  <2>4. \A i \in 0 .. m + 1 : h[i] = IF i = 0 THEN NoPackets ELSE With(h[i - 1], beats[i])
    BY <2>2, <2>3
  <2>5. CutsTo(h, beats, m + 1)
    <3>1. h = [i \in 0 .. m + 1 |-> h[i]]
      OBVIOUS
    <3> HIDE DEF h
    <3>2. QED
      BY <2>4, <3>1 DEF CutsTo
  <2>6. QED
    BY <2>2, <2>5
<1>3. T = Nat
  <2> HIDE DEF T
  <2>1. T \in SUBSET Nat
    BY DEF T
  <2>2. QED
    BY <1>1, <1>2, <2>1, SetInduction
<1>4. QED
  BY <1>3

Agree(beats, other, m) == \A i \in 1 .. m : beats[i] = other[i]

(* There is one way to do so, which depends on the beats alone: two        *)
(* sequences that agree on their first beats have the same packets up to   *)
(* there.                                                                  *)
LEMMA CutsToUnique ==
  ASSUME NEW beats, NEW other, NEW n \in Nat, NEW m \in 0 .. n, NEW g, NEW h,
         CutsTo(g, beats, n), CutsTo(h, other, m), Agree(beats, other, m)
  PROVE  \A i \in 0 .. m : g[i] = h[i]
<1> DEFINE T == {k \in Nat : k <= m => g[k] = h[k]}
<1>1. /\ \A i \in 0 .. n : g[i] = IF i = 0 THEN NoPackets ELSE With(g[i - 1], beats[i])
      /\ \A i \in 0 .. m : h[i] = IF i = 0 THEN NoPackets ELSE With(h[i - 1], other[i])
  BY DEF CutsTo
<1>2. 0 \in T
  BY <1>1
<1>3. ASSUME NEW k \in T PROVE k + 1 \in T
  BY <1>1 DEF Agree
<1>4. T = Nat
  <2> HIDE DEF T
  <2>1. T \in SUBSET Nat
    BY DEF T
  <2>2. QED
    BY <1>2, <1>3, <2>1, SetInduction
<1>5. QED
  BY <1>4

(* Whatever is counted up in this way is what the beats make. *)
LEMMA CuttingIs ==
  ASSUME NEW S, NEW beats \in Seq(S), NEW g, CutsTo(g, beats, Len(beats))
  PROVE  Cutting(beats) = g[Len(beats)]
<1>1. \A h : CutsTo(h, beats, Len(beats)) => h = g
  <2>1. SUFFICES ASSUME NEW h, CutsTo(h, beats, Len(beats)) PROVE h = g
    OBVIOUS
  <2>2. \A i \in 0 .. Len(beats) : g[i] = h[i]
    <3>1. Len(beats) \in Nat /\ Len(beats) \in 0 .. Len(beats)
      OBVIOUS
    <3>2. Agree(beats, beats, Len(beats))
      BY DEF Agree
    <3>3. QED
      BY <2>1, <3>1, <3>2, CutsToUnique
  <2>3. /\ g = [i \in 0 .. Len(beats) |-> g[i]]
        /\ h = [i \in 0 .. Len(beats) |-> h[i]]
    BY <2>1 DEF CutsTo
  <2>4. QED
    BY <2>2, <2>3
<1>2. QED
  BY <1>1 DEF Cutting, CutsTo, NoPackets

-----------------------------------------------------------------------------
(* The packets of longer sequences.                                        *)

(* No beats make no packets. *)
LEMMA CutEmpty == Cutting(<< >>) = NoPackets
<1>1. PICK g : CutsTo(g, << >>, 0)
  BY CutsToExists
<1>2. << >> \in Seq({}) /\ Len(<< >>) = 0
  OBVIOUS
<1>3. Cutting(<< >>) = g[0]
  BY <1>1, <1>2, CuttingIs
<1>4. g[0] = NoPackets
  BY <1>1 DEF CutsTo
<1>5. QED
  BY <1>3, <1>4

(* One more beat adds to what those before it make, and only to that. *)
LEMMA CutAppend ==
  ASSUME NEW S, NEW beats \in Seq(S), NEW b \in S
  PROVE  Cutting(Append(beats, b)) = With(Cutting(beats), b)
<1> DEFINE more == Append(beats, b)
           n == Len(beats)
<1>1. /\ more \in Seq(S) /\ n \in Nat /\ Len(more) = n + 1
      /\ more[n + 1] = b /\ \A i \in 1 .. n : more[i] = beats[i]
  BY AppendProperties
<1> HIDE DEF more, n
<1>2. PICK g : CutsTo(g, more, n + 1)
  BY <1>1, CutsToExists
<1>3. PICK h : CutsTo(h, beats, n)
  BY <1>1, CutsToExists
<1>4. \A i \in 0 .. n : g[i] = h[i]
  <2>1. n + 1 \in Nat /\ n \in 0 .. n + 1
    BY <1>1
  <2> DEFINE k == n + 1
  <2>2. k \in Nat /\ n \in 0 .. k /\ CutsTo(g, more, k)
    BY <1>2, <2>1
  <2>3. Agree(more, beats, n)
    BY <1>1 DEF Agree
  <2> HIDE DEF k
  <2>4. QED
    BY <1>3, <2>2, <2>3, CutsToUnique
<1>5. Cutting(more) = g[n + 1] /\ Cutting(beats) = h[n]
  BY <1>1, <1>2, <1>3, CuttingIs DEF n
<1>6. g[n + 1] = With(g[n], b)
  <2>1. \A i \in 0 .. n + 1 : g[i] = IF i = 0 THEN NoPackets ELSE With(g[i - 1], more[i])
    BY <1>2 DEF CutsTo
  <2>2. n + 1 \in 0 .. n + 1 /\ n + 1 # 0 /\ (n + 1) - 1 = n
    BY <1>1
  <2>3. QED
    BY <1>1, <2>1, <2>2
<1>7. QED
  BY <1>1, <1>4, <1>5, <1>6 DEF more

(* An element put behind the second of two sequences is behind both. *)
LEMMA ConcatAppend ==
  ASSUME NEW S, NEW s \in Seq(S), NEW t \in Seq(S), NEW x \in S
  PROVE  s \o Append(t, x) = Append(s \o t, x)
<1>1. Append(t, x) = t \o << x >> /\ Append(s \o t, x) = (s \o t) \o << x >>
  BY AppendIsConcat, ConcatProperties
<1>2. << x >> \in Seq(S)
  OBVIOUS
<1>3. QED
  BY <1>1, <1>2, ConcatAssociative

Associates(s, t, u) == (s \o t) \o u = s \o (t \o u)

(* Concatenation is associative. *)
LEMMA Associative ==
  ASSUME NEW S, NEW s \in Seq(S), NEW t \in Seq(S), NEW u \in Seq(S)
  PROVE  Associates(s, t, u)
BY ConcatAssociative DEF Associates

AppendsBehind(s, t, x) == s \o Append(t, x) = Append(s \o t, x)

(* What is appended comes after all that is before. *)
LEMMA AppendBehind ==
  ASSUME NEW S, NEW s \in Seq(S), NEW t \in Seq(S), NEW x \in S
  PROVE  AppendsBehind(s, t, x)
BY ConcatAppend DEF AppendsBehind

FirstKept(s, x) == Append(s, x) # << >> /\ Append(s, x)[1] = s[1]

(* The first of a sequence stays the first. *)
LEMMA AppendFirst ==
  ASSUME NEW S, NEW s \in Seq(S), s # << >>, NEW x \in S
  PROVE  FirstKept(s, x)
<1>1. Len(s) \in Nat \ {0}
  OBVIOUS
<1>2. Append(s, x) \in Seq(S) /\ Len(Append(s, x)) = Len(s) + 1 /\ Append(s, x)[1] = s[1]
  BY <1>1, AppendProperties
<1>3. Append(s, x) # << >>
  BY <1>1, <1>2
<1>4. QED
  BY <1>2, <1>3 DEF FirstKept

Carries(S, B) == \A x \in S : x.bytes \in Seq(B) /\ x.eop \in BOOLEAN

(* A beat of bytes keeps packets and rest sequences of bytes. *)
LEMMA WithType ==
  ASSUME NEW B, NEW before \in [packets : Seq(Seq(B)), open : Seq(B)],
         NEW b, b.bytes \in Seq(B)
  PROVE  With(before, b) \in [packets : Seq(Seq(B)), open : Seq(B)]
<1>1. before.packets \in Seq(Seq(B)) /\ before.open \in Seq(B)
  OBVIOUS
<1>2. before.open \o b.bytes \in Seq(B)
  BY <1>1, ConcatProperties
<1> DEFINE open == before.open \o b.bytes
<1> HIDE DEF open
<1>3. Append(before.packets, open) \in Seq(Seq(B))
  BY <1>1, <1>2, AppendProperties DEF open
<1>4. << >> \in Seq(B)
  OBVIOUS
<1>5. QED
  BY <1>1, <1>2, <1>3, <1>4 DEF With, open

(* What beats of bytes make are packets of bytes, and bytes of a next      *)
(* one.                                                                    *)
LEMMA CutType ==
  ASSUME NEW S, NEW B, Carries(S, B), NEW s \in Seq(S)
  PROVE  Cutting(s) \in [packets : Seq(Seq(B)), open : Seq(B)]
<1> DEFINE R == [packets : Seq(Seq(B)), open : Seq(B)]
           T == {t \in Seq(S) : Cutting(t) \in R}
<1>1. NoPackets \in R
  BY DEF NoPackets
<1>2. << >> \in T
  BY <1>1, CutEmpty
<1>3. ASSUME NEW t \in T, NEW x \in S
      PROVE  Append(t, x) \in T
  <2>1. t \in Seq(S) /\ Cutting(t) \in R /\ x.bytes \in Seq(B)
    BY DEF Carries
  <2>2. Cutting(Append(t, x)) = With(Cutting(t), x)
    BY <2>1, CutAppend
  <2>3. With(Cutting(t), x) \in R
    BY <2>1, WithType
  <2>4. QED
    BY <2>1, <2>2, <2>3
<1>4. T \in SUBSET Seq(S)
  OBVIOUS
<1> HIDE DEF T
<1>5. T = Seq(S)
  BY <1>2, <1>3, <1>4, SequenceInduction
<1>6. QED
  BY <1>5 DEF T

(* Beats before others matter only by what they make. *)
LEMMA CutConcat ==
  ASSUME NEW S, NEW s1 \in Seq(S), NEW s2 \in Seq(S), Cutting(s1) = Cutting(s2),
         NEW s \in Seq(S)
  PROVE  Cutting(s1 \o s) = Cutting(s2 \o s)
<1> DEFINE T == {t \in Seq(S) : Cutting(s1 \o t) = Cutting(s2 \o t)}
<1>1. << >> \in T
  <2>1. s1 \o << >> = s1 /\ s2 \o << >> = s2
    BY ConcatEmptySeq
  <2>2. QED
    BY <2>1
<1>2. ASSUME NEW t \in T, NEW x \in S
      PROVE  Append(t, x) \in T
  <2>0. t \in Seq(S)
    OBVIOUS
  <2>1. t \in Seq(S) /\ s1 \o t \in Seq(S) /\ s2 \o t \in Seq(S)
    BY <2>0, ConcatProperties
  <2>2. s1 \o Append(t, x) = Append(s1 \o t, x) /\ s2 \o Append(t, x) = Append(s2 \o t, x)
    <3>1. AppendsBehind(s1, t, x) /\ AppendsBehind(s2, t, x)
      BY <2>0, AppendBehind
    <3>2. QED
      BY <3>1 DEF AppendsBehind
  <2>3. /\ Cutting(Append(s1 \o t, x)) = With(Cutting(s1 \o t), x)
        /\ Cutting(Append(s2 \o t, x)) = With(Cutting(s2 \o t), x)
    BY <2>1, CutAppend
  <2>4. Cutting(s1 \o t) = Cutting(s2 \o t) /\ Append(t, x) \in Seq(S)
    BY <2>1, AppendProperties
  <2>5. Cutting(s1 \o Append(t, x)) = Cutting(s2 \o Append(t, x))
    BY <2>2, <2>3, <2>4
  <2>6. QED
    BY <2>4, <2>5
<1>3. T \in SUBSET Seq(S)
  OBVIOUS
<1> HIDE DEF T
<1>4. T = Seq(S)
  BY <1>1, <1>2, <1>3, SequenceInduction
<1>5. QED
  BY <1>4 DEF T

(* After the end of a packet the beats that follow make the packets they   *)
(* would make alone.                                                       *)
LEMMA CutBoundary ==
  ASSUME NEW S, NEW B, Carries(S, B), NEW s \in Seq(S), NEW u \in Seq(S),
         Cutting(s).open = << >>
  PROVE  Cutting(s \o u) = [packets |-> Cutting(s).packets \o Cutting(u).packets,
                            open |-> Cutting(u).open]
<1> DEFINE all(t) == [packets |-> Cutting(s).packets \o Cutting(t).packets,
                      open |-> Cutting(t).open]
           T == {t \in Seq(S) : Cutting(s \o t) = all(t)}
<1>0. Cutting(s).packets \in Seq(Seq(B)) /\ Cutting(s) = [packets |-> Cutting(s).packets, open |-> << >>]
  BY CutType
<1>1. << >> \in T
  <2>1. s \o << >> = s /\ Cutting(s).packets \o << >> = Cutting(s).packets
    BY <1>0, ConcatEmptySeq
  <2>2. all(<< >>) = [packets |-> Cutting(s).packets \o << >>, open |-> << >>]
    <3>1. Cutting(<< >>).packets = << >> /\ Cutting(<< >>).open = << >>
      BY CutEmpty DEF NoPackets
    <3>2. QED
      BY <3>1
  <2>3. QED
    BY <1>0, <2>1, <2>2
<1>2. ASSUME NEW t \in T, NEW x \in S
      PROVE  Append(t, x) \in T
  <2>1. t \in Seq(S) /\ s \o t \in Seq(S) /\ Append(t, x) \in Seq(S) /\ Cutting(s \o t) = all(t)
    BY ConcatProperties, AppendProperties
  <2>2. s \o Append(t, x) = Append(s \o t, x)
    BY <2>1, ConcatAppend
  <2>3. /\ Cutting(Append(s \o t, x)) = With(all(t), x)
        /\ Cutting(Append(t, x)) = With(Cutting(t), x)
    BY <2>1, CutAppend
  <2>4. /\ Cutting(t).packets \in Seq(Seq(B)) /\ Cutting(t).open \in Seq(B)
        /\ x.bytes \in Seq(B)
    BY <2>1, CutType DEF Carries
  <2> DEFINE open == Cutting(t).open \o x.bytes
  <2>5. open \in Seq(B)
    BY <2>4, ConcatProperties
  <2>6. With(all(t), x) = IF x.eop THEN [packets |-> Append(Cutting(s).packets \o Cutting(t).packets, open), open |-> << >>]
                          ELSE [packets |-> Cutting(s).packets \o Cutting(t).packets, open |-> open]
    BY DEF With
  <2>7. With(Cutting(t), x) = IF x.eop THEN [packets |-> Append(Cutting(t).packets, open), open |-> << >>]
                              ELSE [packets |-> Cutting(t).packets, open |-> open]
    BY DEF With
  <2> HIDE DEF open
  <2>8. Cutting(s).packets \o Append(Cutting(t).packets, open) = Append(Cutting(s).packets \o Cutting(t).packets, open)
    <3> DEFINE V == Seq(B)
               ps == Cutting(s).packets
               pt == Cutting(t).packets
    <3>1. ps \in Seq(V) /\ pt \in Seq(V) /\ open \in V
      BY <1>0, <2>4, <2>5
    <3> HIDE DEF V, ps, pt
    <3>2. ps \o Append(pt, open) = Append(ps \o pt, open)
      BY <3>1, ConcatAppend
    <3>3. QED
      BY <3>2 DEF ps, pt
  <2>9. With(all(t), x) = all(Append(t, x))
    <3>1. CASE x.eop
      <4>1. Cutting(Append(t, x)).packets = Append(Cutting(t).packets, open)
            /\ Cutting(Append(t, x)).open = << >>
        BY <2>3, <2>7, <3>1
      <4>2. all(Append(t, x)) = [packets |-> Cutting(s).packets \o Append(Cutting(t).packets, open),
                                 open |-> << >>]
        BY <4>1
      <4>3. QED
        BY <2>6, <2>8, <3>1, <4>2
    <3>2. CASE ~x.eop
      <4>1. Cutting(Append(t, x)).packets = Cutting(t).packets
            /\ Cutting(Append(t, x)).open = open
        BY <2>3, <2>7, <3>2
      <4>2. all(Append(t, x)) = [packets |-> Cutting(s).packets \o Cutting(t).packets,
                                 open |-> open]
        BY <4>1
      <4>3. QED
        BY <2>6, <3>2, <4>2
    <3>3. QED
      BY <3>1, <3>2
  <2>10. QED
    BY <2>1, <2>2, <2>3, <2>9
<1>3. T \in SUBSET Seq(S)
  OBVIOUS
<1> HIDE DEF T
<1>4. T = Seq(S)
  BY <1>1, <1>2, <1>3, SequenceInduction
<1>5. QED
  BY <1>4 DEF T

(* Bytes of a packet alone are no packet yet. *)
LEMMA CutPart ==
  ASSUME NEW B, NEW r \in Seq(B)
  PROVE  Cutting(<< Part(r) >>) = [packets |-> << >>, open |-> r]
<1> DEFINE x == Part(r)
<1>1. << >> \in Seq({x}) /\ x \in {x}
  OBVIOUS
<1>2. Append(<< >>, x) = << x >>
  OBVIOUS
<1>3. x.bytes = r /\ x.eop = FALSE
  BY DEF Part
<1>4. << >> \o r = r
  BY ConcatEmptySeq
<1> HIDE DEF x
<1>5. Cutting(<< x >>) = With(NoPackets, x)
  BY <1>1, <1>2, CutAppend, CutEmpty
<1>6. With(NoPackets, x) = [packets |-> << >>, open |-> r]
  BY <1>3, <1>4 DEF With, NoPackets
<1>7. QED
  BY <1>5, <1>6 DEF x

(* Moving the first beat from one place on the way to the place before it  *)
(* leaves the packets on the way as they are.                              *)
LEMMA CutTake ==
  ASSUME NEW S, NEW e \in Seq(S), NEW f \in Seq(S), NEW d \in Seq(S), d # << >>,
         Cutting(f) = Cutting(Append(e, Head(d)))
  PROVE  Cutting(f \o Tail(d)) = Cutting(e \o d)
<1> DEFINE h == Head(d)
           r == Tail(d)
<1>1. h \in S /\ r \in Seq(S) /\ d = << h >> \o r
  BY HeadTailProperties, HeadTailAppend
<1> HIDE DEF h, r
<1>2. << h >> \in Seq(S) /\ Append(e, h) \in Seq(S) /\ Append(e, h) = e \o << h >>
  BY <1>1, AppendProperties, AppendIsConcat
<1>3. e \o d = Append(e, h) \o r
  <2> DEFINE one == << h >>
  <2>0. one \in Seq(S)
    BY <1>2
  <2> HIDE DEF one
  <2>1. Associates(e, one, r)
    BY <1>1, <2>0, Associative
  <2>2. QED
    BY <1>1, <1>2, <2>1 DEF Associates, one
<1>4. Cutting(f \o r) = Cutting(Append(e, h) \o r)
  BY <1>1, <1>2, CutConcat DEF h
<1>5. QED
  BY <1>3, <1>4 DEF r

(* One more beat at the end of the way, wherever the way is divided. *)
LEMMA CutConcatAppend ==
  ASSUME NEW S, NEW s \in Seq(S), NEW t \in Seq(S), NEW x \in S
  PROVE  Cutting(s \o Append(t, x)) = With(Cutting(s \o t), x)
<1>1. s \o t \in Seq(S)
  BY ConcatProperties
<1>2. s \o Append(t, x) = Append(s \o t, x)
  BY ConcatAppend
<1>3. Cutting(Append(s \o t, x)) = With(Cutting(s \o t), x)
  BY <1>1, CutAppend
<1>4. QED
  BY <1>2, <1>3

(* The first packet of s and what follows begins with what is there of it. *)
Begins(c, first) ==
  IF c.packets = << >> THEN Len(first) <= Len(c.open) ELSE Len(first) <= Len(c.packets[1])

(* What a packet begins with it still begins with when a beat is added. *)
LEMMA WithBegins ==
  ASSUME NEW B, NEW c \in [packets : Seq(Seq(B)), open : Seq(B)], NEW x,
         x.bytes \in Seq(B), NEW first \in Seq(B), Begins(c, first)
  PROVE  Begins(With(c, x), first)
<1> DEFINE open == c.open \o x.bytes
           V == Seq(B)
<1>1. /\ c.packets \in Seq(V) /\ c.open \in V /\ open \in V
      /\ Len(open) = Len(c.open) + Len(x.bytes)
      /\ Len(c.open) \in Nat /\ Len(x.bytes) \in Nat /\ Len(first) \in Nat
  BY ConcatProperties
<1>2. Len(c.open) <= Len(open)
  BY <1>1
<1>3. /\ With(c, x).packets = IF x.eop THEN Append(c.packets, open) ELSE c.packets
      /\ With(c, x).open = IF x.eop THEN << >> ELSE open
  BY DEF With
<1> HIDE DEF open, V
<1>4. CASE c.packets = << >>
  <2>1. Append(c.packets, open) # << >> /\ Append(c.packets, open)[1] = open
    BY <1>1, <1>4, AppendProperties
  <2>2. Len(first) <= Len(open)
    BY <1>1, <1>2, <1>4 DEF Begins
  <2>3. QED
    BY <1>3, <1>4, <2>1, <2>2 DEF Begins
<1>5. CASE c.packets # << >>
  <2> DEFINE ps == c.packets
  <2>1. ps \in Seq(V) /\ Len(ps) \in Nat \ {0}
    BY <1>1, <1>5
  <2> HIDE DEF ps
  <2>2. ps # << >>
    BY <1>5 DEF ps
  <2>3. open \in V
    BY <1>1
  <2>4. FirstKept(ps, open)
    BY <2>1, <2>2, <2>3, AppendFirst
  <2>5. QED
    BY <1>3, <1>5, <2>4 DEF Begins, ps, FirstKept
<1>6. QED
  BY <1>4, <1>5

(* What the first packet begins with it still begins with when beats are   *)
(* added at the end.                                                       *)
LEMMA CutBegins ==
  ASSUME NEW S, NEW B, Carries(S, B), NEW s \in Seq(S), NEW first \in Seq(B),
         Begins(Cutting(s), first), NEW u \in Seq(S)
  PROVE  Begins(Cutting(s \o u), first)
<1> DEFINE T == {t \in Seq(S) : Begins(Cutting(s \o t), first)}
<1>1. << >> \in T
  BY ConcatEmptySeq
<1>2. ASSUME NEW t \in T, NEW x \in S
      PROVE  Append(t, x) \in T
  <2>1. t \in Seq(S) /\ s \o t \in Seq(S) /\ Append(t, x) \in Seq(S)
        /\ Begins(Cutting(s \o t), first)
    BY ConcatProperties, AppendProperties
  <2>2. Cutting(s \o Append(t, x)) = With(Cutting(s \o t), x)
    BY <2>1, CutConcatAppend
  <2>3. Begins(With(Cutting(s \o t), x), first)
    BY <2>1, CutType, WithBegins DEF Carries
  <2>4. QED
    BY <2>1, <2>2, <2>3
<1>3. T \in SUBSET Seq(S)
  OBVIOUS
<1> HIDE DEF T
<1>4. T = Seq(S)
  BY <1>1, <1>2, <1>3, SequenceInduction
<1>5. QED
  BY <1>4 DEF T

(* A beat ends at most one packet. *)
LEMMA CutCount ==
  ASSUME NEW S, NEW B, Carries(S, B), NEW s \in Seq(S), NEW u \in Seq(S)
  PROVE  Len(Cutting(s \o u).packets) <= Len(Cutting(s).packets) + Len(u)
<1> DEFINE T == {t \in Seq(S) :
                   Len(Cutting(s \o t).packets) <= Len(Cutting(s).packets) + Len(t)}
           n == Len(Cutting(s).packets)
<1>0. n \in Nat
  BY CutType
<1> HIDE DEF n
<1>1. << >> \in T
  BY <1>0, ConcatEmptySeq DEF n
<1>2. ASSUME NEW t \in T, NEW x \in S
      PROVE  Append(t, x) \in T
  <2>1. /\ t \in Seq(S) /\ s \o t \in Seq(S) /\ Append(t, x) \in Seq(S)
        /\ Len(Cutting(s \o t).packets) <= n + Len(t)
        /\ Len(Append(t, x)) = Len(t) + 1
    BY ConcatProperties, AppendProperties DEF n
  <2>2. Cutting(s \o Append(t, x)) = With(Cutting(s \o t), x)
    BY <2>1, CutConcatAppend
  <2> DEFINE m == Len(Cutting(s \o t).packets)
             k == Len(t)
             open == Cutting(s \o t).open \o x.bytes
  <2>3. m \in Nat /\ k \in Nat /\ Cutting(s \o t).packets \in Seq(Seq(B))
        /\ open \in Seq(B)
    <3>1. Cutting(s \o t) \in [packets : Seq(Seq(B)), open : Seq(B)]
      BY <2>1, CutType
    <3>2. x.bytes \in Seq(B)
      BY DEF Carries
    <3>3. QED
      BY <2>1, <3>1, <3>2, ConcatProperties
  <2>4. Len(Append(Cutting(s \o t).packets, open)) = m + 1
    BY <2>3, AppendProperties
  <2>5. With(Cutting(s \o t), x).packets = IF x.eop THEN Append(Cutting(s \o t).packets, open)
                                           ELSE Cutting(s \o t).packets
    BY DEF With
  <2>6. Len(With(Cutting(s \o t), x).packets) \in {m, m + 1}
    BY <2>4, <2>5
  <2> HIDE DEF m, k, open
  <2>7. Len(With(Cutting(s \o t), x).packets) <= n + (k + 1)
    <3>1. m <= n + k
      BY <2>1 DEF m, k
    <3>2. QED
      BY <1>0, <2>3, <2>6, <3>1
  <2>8. QED
    BY <2>1, <2>2, <2>7 DEF k, n
<1>3. T \in SUBSET Seq(S)
  OBVIOUS
<1> HIDE DEF T
<1>4. T = Seq(S)
  BY <1>1, <1>2, <1>3, SequenceInduction
<1>5. QED
  BY <1>4 DEF T

(* Two beats of a packet make what one beat of the bytes of both makes. *)
LEMMA WithMerged ==
  ASSUME NEW B, NEW c \in [packets : Seq(Seq(B)), open : Seq(B)], NEW x, NEW y, NEW z,
         x.bytes \in Seq(B), y.bytes \in Seq(B), ~x.eop, z.eop = y.eop,
         z.bytes = x.bytes \o y.bytes
  PROVE  With(With(c, x), y) = With(c, z)
<1>1. With(c, x) = [packets |-> c.packets, open |-> c.open \o x.bytes]
  BY DEF With
<1>2. (c.open \o x.bytes) \o y.bytes = c.open \o z.bytes
  <2> DEFINE p == c.open
             a == x.bytes
             b == y.bytes
  <2>1. p \in Seq(B) /\ a \in Seq(B) /\ b \in Seq(B)
    OBVIOUS
  <2>2. z.bytes = a \o b
    OBVIOUS
  <2> HIDE DEF p, a, b
  <2>3. Associates(p, a, b)
    BY <2>1, Associative
  <2>4. QED
    BY <2>2, <2>3 DEF p, a, b, Associates
<1>3. /\ With(c, x).packets = c.packets /\ With(c, x).open = c.open \o x.bytes
  BY <1>1
<1>4. QED
  BY <1>2, <1>3 DEF With

-----------------------------------------------------------------------------
(* Sequences.                                                              *)

(* A sequence that is not empty is what comes before its last, and that.   *)
LEMMA FrontLast ==
  ASSUME NEW S, NEW s \in Seq(S), s # << >>
  PROVE  /\ SubSeq(s, 1, Len(s) - 1) \in Seq(S) /\ s[Len(s)] \in S
         /\ s = Append(SubSeq(s, 1, Len(s) - 1), s[Len(s)])
         /\ Len(s) \in Nat \ {0}
OBVIOUS

(* Something after a sequence makes it not empty. *)
LEMMA LongerNotEmpty ==
  ASSUME NEW S, NEW s \in Seq(S), NEW t \in Seq(S), t # << >>
  PROVE  s \o t # << >>
<1>1. Len(s \o t) = Len(s) + Len(t) /\ Len(s) \in Nat /\ Len(t) \in Nat \ {0}
  BY ConcatProperties
<1>2. Len(s \o t) # 0
  BY <1>1
<1>3. QED
  BY <1>2
=============================================================================
