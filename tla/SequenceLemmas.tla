--------------------------- MODULE SequenceLemmas ---------------------------
(***************************************************************************)
(* Induction over the numbers and over sequences, and what FlattenSeq of   *)
(* the community modules returns for every sequence of sequences.          *)
(***************************************************************************)
EXTENDS Integers, Sequences, SequencesExt, TLAPS, WellFoundedInduction, SequenceTheorems

\* A set of numbers that is not empty has a least one.
LEMMA LeastNumber ==
    ASSUME NEW T, T \subseteq Nat, T # {}
    PROVE  \E n \in T : \A m \in T : n <= m
<1>1. IsWellFoundedOn(OpToRel(<, Nat), Nat)
    BY NatLessThanWellFounded
<1>2. PICK n \in T : \A m \in T : ~ (<<m, n>> \in OpToRel(<, Nat))
    BY <1>1, WFMin, Zenon
<1>3. \A m \in T : ~ (m < n)
    BY <1>2 DEF OpToRel
<1> QED
    BY <1>3

\* Induction: a set that has 0, and with a number the next one, has all.
LEMMA AllNumbers ==
    ASSUME NEW P, 0 \in P, \A n \in Nat : n \in P => n + 1 \in P
    PROVE  Nat \subseteq P
<1> SUFFICES ASSUME Nat \ P # {} PROVE FALSE
    OBVIOUS
<1>1. PICK n \in Nat \ P : \A m \in Nat \ P : n <= m
    BY LeastNumber
<1>2. n - 1 \in Nat /\ n - 1 \in P
    BY <1>1
<1> QED
    BY <1>1, <1>2

\* A sequence is its front and its last element.
LEMMA FrontAndLast ==
    ASSUME NEW S, NEW s \in Seq(S), Len(s) > 0
    PROVE  /\ SubSeq(s, 1, Len(s) - 1) \in Seq(S)
           /\ Len(SubSeq(s, 1, Len(s) - 1)) = Len(s) - 1
           /\ s[Len(s)] \in S
           /\ s = Append(SubSeq(s, 1, Len(s) - 1), s[Len(s)])
<1>1. Len(s) \in Nat \ {0} /\ s[Len(s)] \in S
    BY LenProperties, ElementOfSeq
<1>2. /\ SubSeq(s, 1, Len(s) - 1) \in Seq(S)
      /\ Len(SubSeq(s, 1, Len(s) - 1)) = Len(s) - 1
      /\ \A i \in 1 .. Len(s) - 1 : SubSeq(s, 1, Len(s) - 1)[i] = s[i]
  <2>1. 1 \in Int /\ Len(s) - 1 \in Int /\ \A i \in 1 .. Len(s) - 1 : s[i] \in S
      BY <1>1, ElementOfSeq
  <2>2. /\ SubSeq(s, 1, Len(s) - 1) \in Seq(S)
        /\ Len(SubSeq(s, 1, Len(s) - 1)) = IF 1 <= Len(s) - 1 THEN (Len(s) - 1) - 1 + 1 ELSE 0
        /\ \A i \in 1 .. (Len(s) - 1) - 1 + 1 : SubSeq(s, 1, Len(s) - 1)[i] = s[1 + i - 1]
      BY <1>1, <2>1, SubSeqProperties
  <2>3. (Len(s) - 1) - 1 + 1 = Len(s) - 1 /\ \A i \in 1 .. Len(s) - 1 : 1 + i - 1 = i
      BY <1>1
  <2> QED
      BY <1>1, <2>2, <2>3
<1> DEFINE f == SubSeq(s, 1, Len(s) - 1)
           a == Append(f, s[Len(s)])
<1>3. a \in Seq(S) /\ Len(a) = Len(s) /\ \A i \in 1 .. Len(s) : a[i] = s[i]
    BY <1>1, <1>2
<1> HIDE DEF a
<1>4. s = a
    BY <1>3, SeqEqual
<1> QED
    BY <1>1, <1>2, <1>4 DEF a

\* A part of a sequence, position by position.
LEMMA Part ==
    ASSUME NEW S, NEW s \in Seq(S), NEW i \in 1 .. Len(s) + 1, NEW j \in (i - 1) .. Len(s)
    PROVE  /\ SubSeq(s, i, j) \in Seq(S)
           /\ Len(SubSeq(s, i, j)) = j - i + 1
           /\ \A k \in 1 .. (j - i + 1) : SubSeq(s, i, j)[k] = s[i + k - 1]
<1>1. Len(s) \in Nat
    BY LenProperties
<1>2. i \in Int /\ j \in Int /\ \A k \in i .. j : s[k] \in S
    BY <1>1, ElementOfSeq
<1>3. /\ SubSeq(s, i, j) \in Seq(S)
      /\ Len(SubSeq(s, i, j)) = IF i <= j THEN j - i + 1 ELSE 0
      /\ \A k \in 1 .. j - i + 1 : SubSeq(s, i, j)[k] = s[i + k - 1]
    BY <1>2, SubSeqProperties
<1> QED
    BY <1>1, <1>2, <1>3

\* A part of a part, position by position.
LEMMA PartOfPart ==
    ASSUME NEW S, NEW s \in Seq(S), NEW i \in 1 .. Len(s) + 1, NEW j \in (i - 1) .. Len(s),
           NEW m \in 1 .. (j - i + 2), NEW n \in (m - 1) .. (j - i + 1),
           NEW x, NEW y, x = i + m - 1, y = i + n - 1
    PROVE  SubSeq(SubSeq(s, i, j), m, n) = SubSeq(s, x, y)
<1>1. /\ Len(s) \in Nat /\ i \in Int /\ j \in Int /\ m \in Int /\ n \in Int
      /\ x \in 1 .. Len(s) + 1 /\ y \in (x - 1) .. Len(s) /\ y - x + 1 = n - m + 1
    BY LenProperties
<1> DEFINE u == SubSeq(s, i, j)
<1>2. /\ u \in Seq(S) /\ Len(u) = j - i + 1
      /\ \A k \in 1 .. (j - i + 1) : u[k] = s[i + k - 1]
    BY Part
<1> HIDE DEF u
<1>3. m \in 1 .. Len(u) + 1 /\ n \in (m - 1) .. Len(u)
    BY <1>1, <1>2
<1> DEFINE v == SubSeq(u, m, n)
           w == SubSeq(s, x, y)
<1>4. v \in Seq(S) /\ Len(v) = n - m + 1 /\ \A k \in 1 .. (n - m + 1) : v[k] = u[m + k - 1]
    BY <1>2, <1>3, Part
<1>5. w \in Seq(S) /\ Len(w) = y - x + 1 /\ \A k \in 1 .. (y - x + 1) : w[k] = s[x + k - 1]
    BY <1>1, Part
<1> HIDE DEF v, w
<1>6. ASSUME NEW k \in 1 .. Len(v) PROVE v[k] = w[k]
  <2>1. /\ k \in 1 .. (n - m + 1) /\ k \in 1 .. (y - x + 1) /\ m + k - 1 \in 1 .. (j - i + 1)
        /\ i + (m + k - 1) - 1 = x + k - 1
      BY <1>1, <1>4
  <2>2. v[k] = u[m + k - 1] /\ w[k] = s[x + k - 1]
      BY <1>4, <1>5, <2>1
  <2>3. u[m + k - 1] = s[i + (m + k - 1) - 1]
      BY <1>2, <2>1
  <2> QED
      BY <2>1, <2>2, <2>3
<1>7. v = w
    BY <1>1, <1>4, <1>5, <1>6, SeqEqual
<1> QED
    BY <1>7 DEF u, v, w

\* The end of a sequence is a suffix of it.
LEMMA EndIsSuffix ==
    ASSUME NEW S, NEW s \in Seq(S), NEW i \in 1 .. Len(s) + 1
    PROVE  IsSuffix(SubSeq(s, i, Len(s)), s)
<1>1. Len(s) \in Nat /\ i \in Int /\ Len(s) \in (i - 1) .. Len(s)
    BY LenProperties
<1> DEFINE u == SubSeq(s, i, Len(s))
           x == Reverse(u)
           y == Reverse(s)
<1>2. /\ u \in Seq(S) /\ Len(u) = Len(s) - i + 1
      /\ \A k \in 1 .. (Len(s) - i + 1) : u[k] = s[i + k - 1]
    BY <1>1, Part
<1> HIDE DEF u
<1>3. ASSUME NEW t \in Seq(S)
      PROVE  /\ Reverse(t) \in Seq(S) /\ Len(Reverse(t)) = Len(t)
             /\ \A k \in 1 .. Len(t) : Reverse(t)[k] = t[(Len(t) - k) + 1]
    BY LenProperties, ElementOfSeq DEF Reverse
<1>4. x \in Seq(S) /\ Len(x) = Len(u) /\ \A k \in 1 .. Len(u) : x[k] = u[(Len(u) - k) + 1]
    BY <1>2, <1>3
<1>5. y \in Seq(S) /\ Len(y) = Len(s) /\ \A k \in 1 .. Len(s) : y[k] = s[(Len(s) - k) + 1]
    BY <1>3
<1> HIDE DEF x, y
<1>6. Len(x) \in Nat /\ Len(x) <= Len(y)
    BY <1>1, <1>2, <1>4, <1>5
<1> DEFINE v == SubSeq(x, 1, Len(x))
           w == SubSeq(y, 1, Len(x))
<1>7. v \in Seq(S) /\ Len(v) = Len(x) - 1 + 1 /\ \A k \in 1 .. Len(x) - 1 + 1 : v[k] = x[1 + k - 1]
  <2>1. 1 \in 1 .. Len(x) + 1 /\ Len(x) \in (1 - 1) .. Len(x)
      BY <1>6
  <2> QED
      BY <1>4, <2>1, Part
<1>8. w \in Seq(S) /\ Len(w) = Len(x) - 1 + 1 /\ \A k \in 1 .. Len(x) - 1 + 1 : w[k] = y[1 + k - 1]
  <2>1. 1 \in 1 .. Len(y) + 1 /\ Len(x) \in (1 - 1) .. Len(y)
      BY <1>1, <1>5, <1>6
  <2> QED
      BY <1>5, <2>1, Part
<1> HIDE DEF v, w
<1>9. ASSUME NEW k \in 1 .. Len(v) PROVE v[k] = w[k]
  <2>1. /\ k \in 1 .. Len(x) - 1 + 1 /\ 1 + k - 1 = k /\ k \in 1 .. Len(u) /\ k \in 1 .. Len(s)
        /\ (Len(u) - k) + 1 \in 1 .. (Len(s) - i + 1)
        /\ i + ((Len(u) - k) + 1) - 1 = (Len(s) - k) + 1
      BY <1>1, <1>2, <1>4, <1>6, <1>7
  <2>2. v[k] = x[k] /\ w[k] = y[k]
      BY <1>7, <1>8, <2>1
  <2>3. x[k] = u[(Len(u) - k) + 1] /\ y[k] = s[(Len(s) - k) + 1]
      BY <1>4, <1>5, <2>1
  <2>4. u[(Len(u) - k) + 1] = s[i + ((Len(u) - k) + 1) - 1]
      BY <1>2, <2>1
  <2> QED
      BY <2>1, <2>2, <2>3, <2>4
<1>10. v = w
    BY <1>7, <1>8, <1>9, SeqEqual
<1> QED
    BY <1>6, <1>10 DEF IsSuffix, IsPrefix, u, v, w, x, y

\* Three sequences can be joined in any order.
LEMMA ConcatThree ==
    ASSUME NEW S, NEW x \in Seq(S), NEW y \in Seq(S), NEW z \in Seq(S)
    PROVE  (x \o y) \o z = x \o (y \o z)
<1> QED
    BY ConcatAssociative

----------------------------------------------------------------------------
(* FlattenSeq.                                                             *)

\* The sequences of the first so many joined: what FlattenSeq computes.
Joins(s, n, g) == g = [i \in 1 .. n |-> IF i = 1 THEN s[i] ELSE g[i - 1] \o s[i]]

LEMMA JoinsExists ==
    ASSUME NEW S, NEW s \in Seq(Seq(S))
    PROVE  \E g : Joins(s, Len(s), g)
<1> DEFINE P == {n \in Nat : \E g : Joins(s, n, g)}
<1>1. 0 \in P
  <2>1. Joins(s, 0, [i \in 1 .. 0 |-> s[i]])
      BY DEF Joins
  <2> QED
      BY <2>1
<1>2. ASSUME NEW n \in Nat, n \in P PROVE n + 1 \in P
  <2>1. PICK g : Joins(s, n, g)
      BY <1>2
  <2> DEFINE h == [i \in 1 .. n + 1 |-> IF i <= n THEN g[i] ELSE IF i = 1 THEN s[i] ELSE g[n] \o s[i]]
  <2>2. \A i \in 1 .. n + 1 : h[i] = IF i = 1 THEN s[i] ELSE h[i - 1] \o s[i]
    <3>1. TAKE i \in 1 .. n + 1
    <3>2. CASE i <= n
      <4>1. g[i] = IF i = 1 THEN s[i] ELSE g[i - 1] \o s[i]
        <5>1. i \in 1 .. n
            BY <3>2
        <5> HIDE DEF h
        <5> QED
            BY <2>1, <5>1 DEF Joins
      <4>2. h[i] = g[i] /\ (i # 1 => h[i - 1] = g[i - 1])
          BY <3>2
      <4> QED
          BY <4>1, <4>2
    <3>3. CASE i = n + 1
        BY <3>3
    <3> QED
        BY <3>2, <3>3
  <2>3. h = [i \in 1 .. n + 1 |-> h[i]]
      OBVIOUS
  <2> HIDE DEF h
  <2>4. Joins(s, n + 1, h)
      BY <2>2, <2>3 DEF Joins
  <2> QED
      BY <2>4
<1> HIDE DEF P
<1>3. Len(s) \in P
    BY <1>1, <1>2, AllNumbers, LenProperties
<1> QED
    BY <1>3 DEF P

\* Two such functions agree as long as the sequences do.
LEMMA JoinsAgree ==
    ASSUME NEW s, NEW t, NEW m \in Nat, NEW n \in Nat, NEW g, NEW h,
           Joins(s, m, g), Joins(t, n, h), m <= n, \A i \in 1 .. m : s[i] = t[i]
    PROVE  \A i \in 1 .. m : g[i] = h[i]
<1> DEFINE P == {k \in Nat : k \in 1 .. m => g[k] = h[k]}
<1>1. 0 \in P
    OBVIOUS
<1>2. ASSUME NEW k \in Nat, k \in P PROVE k + 1 \in P
  <2>1. SUFFICES ASSUME k + 1 \in 1 .. m PROVE g[k + 1] = h[k + 1]
      OBVIOUS
  <2>2. /\ g[k + 1] = IF k + 1 = 1 THEN s[k + 1] ELSE g[k] \o s[k + 1]
        /\ h[k + 1] = IF k + 1 = 1 THEN t[k + 1] ELSE h[k] \o t[k + 1]
    <3>1. k + 1 \in 1 .. m /\ k + 1 \in 1 .. n /\ (k + 1) - 1 = k
        BY <2>1
    <3> QED
        BY <3>1 DEF Joins
  <2> QED
      BY <1>2, <2>1, <2>2
<1> HIDE DEF P
<1>3. Nat \subseteq P
    BY <1>1, <1>2, AllNumbers
<1> QED
    BY <1>3 DEF P

LEMMA JoinsExtend ==
    ASSUME NEW s, NEW t, NEW n \in Nat, NEW m \in Nat, NEW g, NEW h,
           Joins(s, n, g), Joins(t, m, h), n <= m, n # 0, \A i \in 1 .. n : s[i] = t[i]
    PROVE  g[n] = h[n]
<1>1. \A i \in 1 .. n : g[i] = h[i]
    BY JoinsAgree
<1>2. n \in 1 .. n
    OBVIOUS
<1> QED
    BY <1>1, <1>2

LEMMA FlattenJoins ==
    ASSUME NEW S, NEW s \in Seq(Seq(S)), Len(s) > 0
    PROVE  \E g : Joins(s, Len(s), g) /\ FlattenSeq(s) = g[Len(s)]
<1> DEFINE g == CHOOSE x : x = [i \in 1 .. Len(s) |-> IF i = 1 THEN s[i] ELSE x[i - 1] \o s[i]]
<1>1. PICK h : Joins(s, Len(s), h)
    BY JoinsExists
<1>2. g = [i \in 1 .. Len(s) |-> IF i = 1 THEN s[i] ELSE g[i - 1] \o s[i]]
    BY <1>1, Zenon DEF Joins
<1>3. FlattenSeq(s) = g[Len(s)]
    BY DEF FlattenSeq
<1> HIDE DEF g
<1> QED
    BY <1>2, <1>3 DEF Joins

LEMMA FlattenEmpty == FlattenSeq(<<>>) = <<>>
<1> QED
    BY DEF FlattenSeq

\* One more sequence goes to the end of what the others make.
LEMMA FlattenLonger ==
    ASSUME NEW S, NEW s \in Seq(Seq(S)), NEW t \in Seq(Seq(S)), NEW n \in Nat, n # 0,
           Len(s) = n, Len(t) = n + 1, \A i \in 1 .. n : s[i] = t[i]
    PROVE  FlattenSeq(t) = FlattenSeq(s) \o t[n + 1]
<1>1. PICK g : Joins(s, n, g) /\ FlattenSeq(s) = g[n]
  <2>1. Len(s) > 0
      OBVIOUS
  <2>2. \E g : Joins(s, Len(s), g) /\ FlattenSeq(s) = g[Len(s)]
      BY <2>1, FlattenJoins
  <2> QED
      BY <2>2
<1>2. PICK h : Joins(t, n + 1, h) /\ FlattenSeq(t) = h[n + 1]
  <2>1. Len(t) > 0
      OBVIOUS
  <2>2. \E h : Joins(t, Len(t), h) /\ FlattenSeq(t) = h[Len(t)]
      BY <2>1, FlattenJoins
  <2> QED
      BY <2>2
<1>3. g[n] = h[n]
  <2>1. PICK m \in Nat : m = n + 1
      OBVIOUS
  <2>2. Joins(s, n, g) /\ Joins(t, m, h) /\ n <= m
      BY <1>1, <1>2, <2>1
  <2> QED
      BY <2>2, JoinsExtend, SMTT(60)
<1>4. h[n + 1] = h[n] \o t[n + 1]
  <2>1. n + 1 \in 1 .. n + 1 /\ (n + 1) - 1 = n /\ n + 1 # 1
      OBVIOUS
  <2> QED
      BY <1>2, <2>1 DEF Joins
<1> QED
    BY <1>1, <1>2, <1>3, <1>4

LEMMA FlattenAppend ==
    ASSUME NEW S, NEW s \in Seq(Seq(S)), NEW e \in Seq(S)
    PROVE  FlattenSeq(Append(s, e)) = FlattenSeq(s) \o e
<1> DEFINE a == Append(s, e)
<1>1. /\ a \in Seq(Seq(S)) /\ Len(a) = Len(s) + 1 /\ Len(s) \in Nat
      /\ a[Len(s) + 1] = e /\ \A i \in 1 .. Len(s) : s[i] = a[i]
    OBVIOUS
<1> HIDE DEF a
<1>2. CASE Len(s) = 0
  <2>1. s = <<>> /\ Len(a) = 1 /\ a[1] = e
      BY <1>1, <1>2, EmptySeq
  <2>2. PICK g : Joins(a, 1, g) /\ FlattenSeq(a) = g[1]
    <3>1. \E g : Joins(a, Len(a), g) /\ FlattenSeq(a) = g[Len(a)]
      <4>1. Len(a) > 0
          BY <2>1
      <4> QED
          BY <1>1, <4>1, FlattenJoins
    <3> QED
        BY <2>1, <3>1
  <2>3. g[1] = e
      BY <2>1, <2>2 DEF Joins
  <2> QED
      BY <2>1, <2>2, <2>3, FlattenEmpty, ConcatEmptySeq DEF a
<1>3. CASE Len(s) # 0
  <2>1. FlattenSeq(a) = FlattenSeq(s) \o a[Len(s) + 1]
      BY <1>1, <1>3, FlattenLonger
  <2> QED
      BY <1>1, <2>1 DEF a
<1> QED
    BY <1>2, <1>3

\* It is a sequence of the elements of the sequences.
LEMMA FlattenType ==
    ASSUME NEW S, NEW s \in Seq(Seq(S))
    PROVE  FlattenSeq(s) \in Seq(S)
<1> DEFINE P == {n \in Nat : \A t \in Seq(Seq(S)) : Len(t) = n => FlattenSeq(t) \in Seq(S)}
<1>1. 0 \in P
    BY FlattenEmpty, EmptySeq
<1>2. ASSUME NEW n \in Nat, n \in P PROVE n + 1 \in P
  <2>1. SUFFICES ASSUME NEW t \in Seq(Seq(S)), Len(t) = n + 1 PROVE FlattenSeq(t) \in Seq(S)
      OBVIOUS
  <2> DEFINE f == SubSeq(t, 1, Len(t) - 1)
  <2>2. f \in Seq(Seq(S)) /\ Len(f) = n /\ t[Len(t)] \in Seq(S) /\ t = Append(f, t[Len(t)])
      BY <2>1, FrontAndLast
  <2> HIDE DEF f
  <2>3. FlattenSeq(f) \in Seq(S) /\ FlattenSeq(t) = FlattenSeq(f) \o t[Len(t)]
      BY <1>2, <2>2, FlattenAppend
  <2> QED
      BY <2>2, <2>3, ConcatProperties
<1> HIDE DEF P
<1>3. Len(s) \in P
    BY <1>1, <1>2, AllNumbers, LenProperties
<1> QED
    BY <1>3 DEF P

\* What two parts make, joined, is what the whole makes.
LEMMA FlattenConcat ==
    ASSUME NEW S, NEW s \in Seq(Seq(S)), NEW t \in Seq(Seq(S))
    PROVE  FlattenSeq(s \o t) = FlattenSeq(s) \o FlattenSeq(t)
<1> DEFINE P == {n \in Nat : \A u \in Seq(Seq(S)) :
                     Len(u) = n => FlattenSeq(s \o u) = FlattenSeq(s) \o FlattenSeq(u)}
<1>1. 0 \in P
  <2>1. SUFFICES ASSUME NEW u \in Seq(Seq(S)), Len(u) = 0
                 PROVE  FlattenSeq(s \o u) = FlattenSeq(s) \o FlattenSeq(u)
      OBVIOUS
  <2>2. u = <<>>
      BY <2>1, EmptySeq
  <2>3. s \o <<>> = s /\ FlattenSeq(s) \o <<>> = FlattenSeq(s)
      BY FlattenType, ConcatEmptySeq
  <2> QED
      BY <2>2, <2>3, FlattenEmpty
<1>2. ASSUME NEW n \in Nat, n \in P PROVE n + 1 \in P
  <2>1. SUFFICES ASSUME NEW u \in Seq(Seq(S)), Len(u) = n + 1
                 PROVE  FlattenSeq(s \o u) = FlattenSeq(s) \o FlattenSeq(u)
      OBVIOUS
  <2>2. PICK f \in Seq(Seq(S)), e \in Seq(S) : Len(f) = n /\ u = Append(f, e)
    <3> DEFINE f == SubSeq(u, 1, Len(u) - 1)
    <3>1. f \in Seq(Seq(S)) /\ Len(f) = n /\ u[Len(u)] \in Seq(S) /\ u = Append(f, u[Len(u)])
        BY <2>1, FrontAndLast
    <3> HIDE DEF f
    <3> QED
        BY <3>1
  <2>3. s \o u = Append(s \o f, e)
    <3>1. u = f \o <<e>> /\ Append(s \o f, e) = (s \o f) \o <<e>>
        BY <2>2
    <3>2. <<e>> \in Seq(Seq(S))
        OBVIOUS
    <3> QED
        BY <3>1, <3>2, ConcatAssociative
  <2>4. FlattenSeq(s \o u) = FlattenSeq(s \o f) \o e
      BY <2>3, FlattenAppend, ConcatProperties
  <2>5. FlattenSeq(s \o f) = FlattenSeq(s) \o FlattenSeq(f)
      BY <1>2, <2>2
  <2>6. FlattenSeq(u) = FlattenSeq(f) \o e
      BY <2>2, FlattenAppend
  <2>7. (FlattenSeq(s) \o FlattenSeq(f)) \o e = FlattenSeq(s) \o (FlattenSeq(f) \o e)
    <3>1. FlattenSeq(s) \in Seq(S) /\ FlattenSeq(f) \in Seq(S)
        BY FlattenType
    <3> QED
        BY <3>1, ConcatThree, SMTT(60)
  <2> QED
      BY <2>4, <2>5, <2>6, <2>7
<1> HIDE DEF P
<1>3. Len(t) \in P
    BY <1>1, <1>2, AllNumbers, LenProperties
<1> QED
    BY <1>3 DEF P

\* Single elements make the sequence of them.
LEMMA FlattenSingles ==
    ASSUME NEW S, NEW s \in Seq(S)
    PROVE  FlattenSeq([i \in DOMAIN s |-> <<s[i]>>]) = s
<1> DEFINE Ones(u) == [i \in DOMAIN u |-> <<u[i]>>]
           P == {n \in Nat : \A u \in Seq(S) : Len(u) = n => FlattenSeq(Ones(u)) = u}
<1>0. ASSUME NEW u \in Seq(S) PROVE Ones(u) \in Seq(Seq(S)) /\ Len(Ones(u)) = Len(u)
  <2>1. DOMAIN u = 1 .. Len(u) /\ Len(u) \in Nat /\ \A i \in 1 .. Len(u) : <<u[i]>> \in Seq(S)
      BY LenProperties, ElementOfSeq
  <2> QED
      BY <2>1
<1>1. 0 \in P
  <2>1. SUFFICES ASSUME NEW u \in Seq(S), Len(u) = 0 PROVE FlattenSeq(Ones(u)) = u
      OBVIOUS
  <2>2. u = <<>> /\ Ones(u) = <<>>
      BY <1>0, <2>1, EmptySeq
  <2> QED
      BY <2>2, FlattenEmpty
<1>2. ASSUME NEW n \in Nat, n \in P PROVE n + 1 \in P
  <2>1. SUFFICES ASSUME NEW u \in Seq(S), Len(u) = n + 1 PROVE FlattenSeq(Ones(u)) = u
      OBVIOUS
  <2>2. PICK f \in Seq(S), e \in S : Len(f) = n /\ u = Append(f, e)
    <3> DEFINE f == SubSeq(u, 1, Len(u) - 1)
    <3>1. f \in Seq(S) /\ Len(f) = n /\ u[Len(u)] \in S /\ u = Append(f, u[Len(u)])
        BY <2>1, FrontAndLast
    <3> HIDE DEF f
    <3> QED
        BY <3>1
  <2>3. Ones(u) = Append(Ones(f), <<e>>)
    <3>1. Ones(f) \in Seq(Seq(S)) /\ Len(Ones(f)) = n /\ Ones(u) \in Seq(Seq(S)) /\ Len(Ones(u)) = n + 1
        BY <1>0, <2>1, <2>2
    <3>2. \A i \in 1 .. n + 1 : Ones(u)[i] = <<u[i]>>
        BY <2>1
    <3>3. \A i \in 1 .. n : Ones(f)[i] = <<f[i]>>
        BY <2>2
    <3>4. \A i \in 1 .. n : u[i] = f[i]
        BY <2>2
    <3>5. u[n + 1] = e
        BY <2>2
    <3> HIDE DEF Ones
    <3> DEFINE o == Ones(u)
               q == Ones(f)
    <3>6. q \in Seq(Seq(S)) /\ Len(q) = n /\ o \in Seq(Seq(S)) /\ Len(o) = n + 1 /\ <<e>> \in Seq(S)
        BY <3>1
    <3>7. /\ \A i \in 1 .. n : o[i] = q[i]
          /\ o[n + 1] = <<e>>
      <4>1. ASSUME NEW i \in 1 .. n PROVE o[i] = q[i]
        <5>1. i \in 1 .. n + 1
            OBVIOUS
        <5>2. o[i] = <<u[i]>> /\ q[i] = <<f[i]>> /\ u[i] = f[i]
            BY <3>2, <3>3, <3>4, <5>1
        <5> QED
            BY <5>2
      <4>2. n + 1 \in 1 .. n + 1
          OBVIOUS
      <4> QED
          BY <3>2, <3>5, <4>1, <4>2
    <3> HIDE DEF o, q
    <3>8. o = Append(q, <<e>>)
      <4>1. /\ Append(q, <<e>>) \in Seq(Seq(S)) /\ Len(Append(q, <<e>>)) = n + 1
            /\ \A i \in 1 .. n : Append(q, <<e>>)[i] = q[i]
            /\ Append(q, <<e>>)[n + 1] = <<e>>
          BY <3>6
      <4>2. ASSUME NEW i \in 1 .. n + 1 PROVE o[i] = Append(q, <<e>>)[i]
        <5>2. CASE i \in 1 .. n
            BY <3>7, <4>1, <5>2
        <5>3. CASE i = n + 1
            BY <3>7, <4>1, <5>3
        <5>4. i \in 1 .. n \/ i = n + 1
            OBVIOUS
        <5> QED
            BY <5>2, <5>3, <5>4
      <4> QED
          BY <3>6, <4>1, <4>2, SeqEqual
    <3> QED
        BY <3>8 DEF o, q
  <2>4. FlattenSeq(Ones(f)) = f
      BY <1>2, <2>2
  <2>5. FlattenSeq(Ones(u)) = f \o <<e>>
    <3>1. Ones(f) \in Seq(Seq(S)) /\ <<e>> \in Seq(S)
        BY <1>0, <2>2
    <3> QED
        BY <2>3, <2>4, <3>1, FlattenAppend
  <2>6. u = f \o <<e>>
      BY <2>2
  <2> HIDE DEF Ones
  <2> QED
      BY <2>5, <2>6
<1>3. Nat \subseteq P
  <2> HIDE DEF P
  <2> QED
      BY <1>1, <1>2, AllNumbers
<1> QED
    BY <1>3, LenProperties
\* FlattenSeq of the parts of a sequence of sequences.
LEMMA FlattenCut ==
    ASSUME NEW S, NEW s \in Seq(Seq(S)), NEW i \in 0 .. Len(s)
    PROVE  /\ SubSeq(s, 1, i) \in Seq(Seq(S)) /\ SubSeq(s, i + 1, Len(s)) \in Seq(Seq(S))
           /\ FlattenSeq(s) = FlattenSeq(SubSeq(s, 1, i)) \o FlattenSeq(SubSeq(s, i + 1, Len(s)))
<1>1. Len(s) \in Nat /\ i \in Nat /\ i <= Len(s)
    BY LenProperties
<1>2. /\ 1 \in 1 .. Len(s) + 1 /\ i \in (1 - 1) .. Len(s)
      /\ i + 1 \in 1 .. Len(s) + 1 /\ Len(s) \in ((i + 1) - 1) .. Len(s) /\ Len(s) \in i .. Len(s)
    BY <1>1
<1>3. SubSeq(s, 1, i) \in Seq(Seq(S)) /\ SubSeq(s, i + 1, Len(s)) \in Seq(Seq(S))
    BY <1>2, Part
<1>4. SubSeq(s, 1, i) \o SubSeq(s, i + 1, Len(s)) = SubSeq(s, 1, Len(s))
    BY <1>2, ConcatAdjacentSubSeq
<1>5. SubSeq(s, 1, Len(s)) = s
    BY SubSeqFull
<1> QED
    BY <1>3, <1>4, <1>5, FlattenConcat, ZenonT(30)

\* The sequence of the single elements of t makes t.
LEMMA FlattenOnes ==
    ASSUME NEW S, NEW t \in Seq(S), NEW s \in Seq(Seq(S)), Len(s) = Len(t),
           \A i \in 1 .. Len(t) : s[i] = <<t[i]>>
    PROVE  FlattenSeq(s) = t
<1> DEFINE ones == [i \in DOMAIN t |-> <<t[i]>>]
<1>1. Len(t) \in Nat /\ DOMAIN t = 1 .. Len(t) /\ DOMAIN s = 1 .. Len(s)
    BY LenProperties
<1>2. s = [i \in 1 .. Len(s) |-> s[i]]
    BY LenProperties
<1>3. s = ones
    BY <1>1, <1>2
<1>4. FlattenSeq(ones) = t
    BY FlattenSingles
<1> QED
    BY <1>3, <1>4

\* What is empty but for its first sequence makes that.
LEMMA FlattenFirst ==
    ASSUME NEW S, NEW e \in Seq(S)
    PROVE  \A s \in Seq(Seq(S)) :
               Len(s) > 0 /\ s[1] = e /\ (\A i \in 2 .. Len(s) : s[i] = <<>>) => FlattenSeq(s) = e
<1> DEFINE Says(n) == \A s \in Seq(Seq(S)) :
                          Len(s) = n + 1 /\ s[1] = e /\ (\A i \in 2 .. Len(s) : s[i] = <<>>) => FlattenSeq(s) = e
           P == {n \in Nat : Says(n)}
<1>1. ASSUME NEW s \in Seq(Seq(S)), Len(s) > 0
      PROVE  /\ SubSeq(s, 1, Len(s) - 1) \in Seq(Seq(S))
             /\ Len(SubSeq(s, 1, Len(s) - 1)) = Len(s) - 1
             /\ \A i \in 1 .. Len(s) - 1 : SubSeq(s, 1, Len(s) - 1)[i] = s[i]
             /\ FlattenSeq(s) = FlattenSeq(SubSeq(s, 1, Len(s) - 1)) \o s[Len(s)]
  <2>1. Len(s) \in Nat
      BY LenProperties
  <2> DEFINE front == SubSeq(s, 1, Len(s) - 1)
  <2>2. front \in Seq(Seq(S)) /\ Len(front) = Len(s) - 1 /\ s[Len(s)] \in Seq(S)
        /\ s = Append(front, s[Len(s)])
      BY <1>1, FrontAndLast
  <2>3. 1 \in 1 .. Len(s) + 1 /\ Len(s) - 1 \in (1 - 1) .. Len(s)
        /\ (Len(s) - 1) - 1 + 1 = Len(s) - 1
      BY <1>1, <2>1
  <2>4. \A i \in 1 .. Len(s) - 1 : front[i] = s[1 + i - 1]
    <3>1. \A i \in 1 .. ((Len(s) - 1) - 1 + 1) : front[i] = s[1 + i - 1]
        BY <2>3, Part
    <3> QED
        BY <2>3, <3>1
  <2>5. \A i \in 1 .. Len(s) - 1 : 1 + i - 1 = i
      BY <2>1
  <2>6. FlattenSeq(Append(front, s[Len(s)])) = FlattenSeq(front) \o s[Len(s)]
    <3> HIDE DEF front
    <3> QED
        BY <2>2, FlattenAppend
  <2> QED
      BY <2>2, <2>4, <2>5, <2>6
<1>2. 0 \in P
  <2>1. SUFFICES ASSUME NEW s \in Seq(Seq(S)), Len(s) = 0 + 1, s[1] = e PROVE FlattenSeq(s) = e
      OBVIOUS
  <2>2. Len(s) > 0 /\ Len(s) - 1 = 0 /\ s[Len(s)] = e
      BY <2>1
  <2>3. SubSeq(s, 1, 0) = <<>>
      BY SubSeqEmpty
  <2>4. FlattenSeq(s) = FlattenSeq(SubSeq(s, 1, Len(s) - 1)) \o s[Len(s)]
      BY <1>1, <2>2
  <2>5. FlattenSeq(s) = <<>> \o e
      BY <2>2, <2>3, <2>4, FlattenEmpty
  <2> QED
      BY <2>5, ConcatEmptySeq
<1>3. ASSUME NEW n \in Nat, n \in P PROVE n + 1 \in P
  <2>1. SUFFICES ASSUME NEW s \in Seq(Seq(S)), Len(s) = (n + 1) + 1, s[1] = e,
                        \A i \in 2 .. Len(s) : s[i] = <<>>
                 PROVE  FlattenSeq(s) = e
      OBVIOUS
  <2> DEFINE front == SubSeq(s, 1, Len(s) - 1)
  <2>2. Len(s) > 0 /\ Len(s) - 1 = n + 1 /\ Len(s) \in 2 .. Len(s) /\ 1 \in 1 .. Len(s) - 1
      BY <2>1
  <2>3. /\ front \in Seq(Seq(S)) /\ Len(front) = n + 1
        /\ \A i \in 1 .. n + 1 : front[i] = s[i]
        /\ FlattenSeq(s) = FlattenSeq(front) \o s[Len(s)]
      BY <1>1, <2>2
  <2>4. front[1] = e /\ \A i \in 2 .. n + 1 : front[i] = <<>>
      BY <2>1, <2>2, <2>3
  <2>5. FlattenSeq(front) = e
    <3>1. Says(n)
        BY <1>3
    <3> HIDE DEF front
    <3> QED
        BY <2>3, <2>4, <3>1
  <2>6. s[Len(s)] = <<>>
      BY <2>1, <2>2
  <2> QED
      BY <2>3, <2>5, <2>6, ConcatEmptySeq
<1>4. SUFFICES ASSUME NEW s \in Seq(Seq(S)), Len(s) > 0, s[1] = e, \A i \in 2 .. Len(s) : s[i] = <<>>
               PROVE  FlattenSeq(s) = e
    OBVIOUS
<1>5. Len(s) - 1 \in Nat /\ Len(s) = (Len(s) - 1) + 1
    BY <1>4, LenProperties
<1>6. Says(Len(s) - 1)
  <2>1. Nat \subseteq P
    <3> HIDE DEF P
    <3> QED
        BY <1>2, <1>3, AllNumbers
  <2> QED
      BY <1>5, <2>1
<1> QED
    BY <1>4, <1>5, <1>6

\* The two parts of a concatenation, and what is before an end within the first.
LEMMA PartsOfConcat ==
    ASSUME NEW S, NEW a \in Seq(S), NEW b \in Seq(S), NEW n \in 0 .. Len(a)
    PROVE  /\ SubSeq(a \o b, 1, n) = SubSeq(a, 1, n)
           /\ SubSeq(a \o b, Len(a) + 1, Len(a \o b)) = b
<1> DEFINE c == a \o b
<1>1. Len(a) \in Nat /\ Len(b) \in Nat
    BY LenProperties
<1>2. c \in Seq(S) /\ Len(c) = Len(a) + Len(b)
      /\ \A i \in 1 .. Len(a) + Len(b) : c[i] = IF i <= Len(a) THEN a[i] ELSE b[i - Len(a)]
    BY ConcatProperties
<1> HIDE DEF c
<1>3. SubSeq(c, 1, n) = SubSeq(a, 1, n)
  <2>1. /\ 1 \in 1 .. Len(c) + 1 /\ n \in (1 - 1) .. Len(c) /\ n - 1 + 1 = n
        /\ 1 \in 1 .. Len(a) + 1 /\ n \in (1 - 1) .. Len(a)
      BY <1>1, <1>2
  <2>2. /\ SubSeq(c, 1, n) \in Seq(S) /\ Len(SubSeq(c, 1, n)) = n - 1 + 1
        /\ \A k \in 1 .. (n - 1 + 1) : SubSeq(c, 1, n)[k] = c[1 + k - 1]
      BY <1>2, <2>1, Part
  <2>3. /\ SubSeq(a, 1, n) \in Seq(S) /\ Len(SubSeq(a, 1, n)) = n - 1 + 1
        /\ \A k \in 1 .. (n - 1 + 1) : SubSeq(a, 1, n)[k] = a[1 + k - 1]
      BY <2>1, Part
  <2>4. \A k \in 1 .. n : 1 + k - 1 = k /\ k \in 1 .. Len(a) + Len(b) /\ k <= Len(a)
      BY <1>1
  <2>5. \A k \in 1 .. n : SubSeq(c, 1, n)[k] = SubSeq(a, 1, n)[k]
      BY <1>2, <2>1, <2>2, <2>3, <2>4
  <2> QED
      BY <2>1, <2>2, <2>3, <2>5, SeqEqual
<1>4. SubSeq(c, Len(a) + 1, Len(c)) = b
  <2>1. Len(a) + 1 \in 1 .. Len(c) + 1 /\ Len(c) \in ((Len(a) + 1) - 1) .. Len(c)
        /\ Len(c) - (Len(a) + 1) + 1 = Len(b)
      BY <1>1, <1>2
  <2> DEFINE d == SubSeq(c, Len(a) + 1, Len(c))
  <2>2. d \in Seq(S) /\ Len(d) = Len(b)
        /\ \A k \in 1 .. (Len(c) - (Len(a) + 1) + 1) : d[k] = c[(Len(a) + 1) + k - 1]
      BY <1>2, <2>1, Part
  <2>3. \A k \in 1 .. Len(b) : /\ (Len(a) + 1) + k - 1 \in 1 .. Len(a) + Len(b)
                               /\ ~ ((Len(a) + 1) + k - 1 <= Len(a))
                               /\ ((Len(a) + 1) + k - 1) - Len(a) = k
      BY <1>1
  <2>4. \A k \in 1 .. Len(b) : d[k] = b[k]
      BY <1>2, <2>1, <2>2, <2>3
  <2> HIDE DEF d
  <2>5. \A k \in 1 .. Len(d) : d[k] = b[k]
      BY <2>2, <2>4
  <2>6. d \in Seq(S) /\ Len(d) = Len(b)
      BY <2>2
  <2>7. d = b
      BY <2>5, <2>6, SeqEqual
  <2> QED
      BY <2>7 DEF d
<1> QED
    BY <1>3, <1>4 DEF c

\* Where the first elements of t, up to the place to, are single pieces: e instead of
\* those behind from is the same piece by piece and in the whole.
Replaces(t, p, q, e, from, to) ==
    /\ Len(p) = Len(t) /\ Len(q) = Len(t)
    /\ \A x \in 1 .. to : p[x] = <<t[x]>>
    /\ \A x \in 1 .. from : q[x] = <<t[x]>>
    /\ q[from + 1] = <<e>>
    /\ \A x \in from + 2 .. to : q[x] = <<>>
    /\ \A x \in to + 1 .. Len(t) : q[x] = p[x]

\* The sequence f with e instead of its elements behind from, up to the place to.
Spliced(f, e, from, to) == SubSeq(f, 1, from) \o <<e>> \o SubSeq(f, to + 1, Len(f))

LEMMA OneBetween ==
    ASSUME NEW S, NEW u \in Seq(S), NEW e, <<e>> \in Seq(S), NEW v \in Seq(S)
    PROVE  (u \o <<e>>) \o v = u \o (<<e>> \o v)
<1> DEFINE one == <<e>>
<1>1. one \in Seq(S)
    OBVIOUS
<1> HIDE DEF one
<1>2. (u \o one) \o v = u \o (one \o v)
    BY <1>1, ConcatThree
<1> QED
    BY <1>2 DEF one

LEMMA FlattenReplace ==
    ASSUME NEW S, NEW t \in Seq(S), NEW p \in Seq(Seq(S)), NEW q \in Seq(Seq(S)), NEW e \in S,
           NEW from \in 0 .. Len(t), NEW to \in from + 1 .. Len(t),
           Replaces(t, p, q, e, from, to)
    PROVE  FlattenSeq(q) = Spliced(FlattenSeq(p), e, from, to)
<1> DEFINE l == Len(t)
<1>1. l \in Nat /\ from \in Nat /\ to \in Nat /\ from < to /\ to <= l
    BY LenProperties
<1> HIDE DEF l
<1>2. /\ to \in 0 .. Len(p) /\ from \in 0 .. Len(q) /\ from \in 0 .. to
      /\ Len(p) = l /\ Len(q) = l /\ Len(t) = l
    BY <1>1 DEF l, Replaces
<1> DEFINE a == SubSeq(t, 1, to)
           u == SubSeq(t, 1, from)
           rest == SubSeq(p, to + 1, l)
           R == FlattenSeq(rest)
           back == SubSeq(q, from + 1, l)
           mid == SubSeq(back, 1, to - from)
<1>3. a \in Seq(S) /\ Len(a) = to /\ \A k \in 1 .. to : a[k] = t[k]
  <2>1. 1 \in 1 .. Len(t) + 1 /\ to \in (1 - 1) .. Len(t) /\ to - 1 + 1 = to
      BY <1>1, <1>2
  <2>2. a \in Seq(S) /\ Len(a) = to - 1 + 1 /\ \A k \in 1 .. (to - 1 + 1) : a[k] = t[1 + k - 1]
      BY <2>1, Part
  <2> QED
      BY <1>1, <2>1, <2>2
<1>4. u \in Seq(S) /\ Len(u) = from /\ \A k \in 1 .. from : u[k] = t[k]
  <2>1. 1 \in 1 .. Len(t) + 1 /\ from \in (1 - 1) .. Len(t) /\ from - 1 + 1 = from
      BY <1>1, <1>2
  <2>2. u \in Seq(S) /\ Len(u) = from - 1 + 1 /\ \A k \in 1 .. (from - 1 + 1) : u[k] = t[1 + k - 1]
      BY <2>1, Part
  <2> QED
      BY <1>1, <2>1, <2>2
<1>5. rest \in Seq(Seq(S)) /\ R \in Seq(S) /\ FlattenSeq(p) = a \o R
  <2> DEFINE head == SubSeq(p, 1, to)
  <2>1. /\ head \in Seq(Seq(S)) /\ rest \in Seq(Seq(S))
        /\ FlattenSeq(p) = FlattenSeq(head) \o FlattenSeq(rest)
      BY <1>2, FlattenCut
  <2>2. Len(head) = to /\ \A k \in 1 .. to : head[k] = p[k]
    <3>1. 1 \in 1 .. Len(p) + 1 /\ to \in (1 - 1) .. Len(p) /\ to - 1 + 1 = to
        BY <1>1, <1>2
    <3>2. Len(head) = to - 1 + 1 /\ \A k \in 1 .. (to - 1 + 1) : head[k] = p[1 + k - 1]
        BY <3>1, Part
    <3> QED
        BY <1>1, <3>1, <3>2
  <2>3. \A k \in 1 .. Len(a) : head[k] = <<a[k]>>
      BY <1>3, <2>2 DEF Replaces
  <2> HIDE DEF head, a, rest
  <2>4. FlattenSeq(head) = a
      BY <1>3, <2>1, <2>2, <2>3, FlattenOnes
  <2> QED
      BY <2>1, <2>4, FlattenType
<1>6. /\ back \in Seq(Seq(S)) /\ FlattenSeq(q) = u \o FlattenSeq(back)
      /\ Len(back) = l - from /\ \A k \in 1 .. l - from : back[k] = q[from + k]
  <2> DEFINE head == SubSeq(q, 1, from)
  <2>1. /\ head \in Seq(Seq(S)) /\ back \in Seq(Seq(S))
        /\ FlattenSeq(q) = FlattenSeq(head) \o FlattenSeq(back)
      BY <1>2, FlattenCut
  <2>2. Len(head) = from /\ \A k \in 1 .. from : head[k] = q[k]
    <3>1. 1 \in 1 .. Len(q) + 1 /\ from \in (1 - 1) .. Len(q) /\ from - 1 + 1 = from
        BY <1>1, <1>2
    <3>2. Len(head) = from - 1 + 1 /\ \A k \in 1 .. (from - 1 + 1) : head[k] = q[1 + k - 1]
        BY <3>1, Part
    <3> QED
        BY <1>1, <3>1, <3>2
  <2>3. \A k \in 1 .. Len(u) : head[k] = <<u[k]>>
      BY <1>4, <2>2 DEF Replaces
  <2>4. Len(back) = l - from /\ \A k \in 1 .. l - from : back[k] = q[from + k]
    <3>1. from + 1 \in 1 .. Len(q) + 1 /\ l \in ((from + 1) - 1) .. Len(q) /\ l - (from + 1) + 1 = l - from
        BY <1>1, <1>2
    <3>2. /\ Len(back) = l - (from + 1) + 1
          /\ \A k \in 1 .. (l - (from + 1) + 1) : back[k] = q[(from + 1) + k - 1]
        BY <3>1, Part
    <3>3. \A k \in 1 .. l - from : (from + 1) + k - 1 = from + k
        BY <1>1
    <3> QED
        BY <3>1, <3>2, <3>3
  <2> HIDE DEF head, u, back
  <2>5. FlattenSeq(head) = u
      BY <1>4, <2>1, <2>2, <2>3, FlattenOnes
  <2> QED
      BY <2>1, <2>4, <2>5
<1> HIDE DEF a, u, R, back, rest, mid
<1>19. back \in Seq(Seq(S)) /\ Len(back) = l - from
    BY <1>6
<1>20. u \in Seq(S) /\ R \in Seq(S)
    BY <1>4, <1>5
<1>7. to - from \in 0 .. Len(back) /\ to - from > 0
    BY <1>1, <1>19
<1>8. /\ mid \in Seq(Seq(S)) /\ SubSeq(back, (to - from) + 1, Len(back)) \in Seq(Seq(S))
      /\ FlattenSeq(back) = FlattenSeq(mid) \o FlattenSeq(SubSeq(back, (to - from) + 1, Len(back)))
  <2> QED
      BY <1>6, <1>7, FlattenCut DEF mid
<1>9. FlattenSeq(mid) = <<e>>
  <2>1. Len(mid) = to - from /\ \A k \in 1 .. to - from : mid[k] = back[k]
    <3>1. 1 \in 1 .. Len(back) + 1 /\ to - from \in (1 - 1) .. Len(back) /\ (to - from) - 1 + 1 = to - from
        BY <1>1, <1>19
    <3>2. /\ Len(mid) = (to - from) - 1 + 1
          /\ \A k \in 1 .. ((to - from) - 1 + 1) : mid[k] = back[1 + k - 1]
        BY <1>6, <3>1, Part DEF mid
    <3> QED
        BY <1>1, <3>1, <3>2
  <2>2. \A k \in 1 .. to - from : mid[k] = q[from + k]
    <3>1. \A k \in 1 .. to - from : k \in 1 .. l - from
        BY <1>1
    <3> QED
        BY <1>6, <2>1, <3>1
  <2>3. mid[1] = <<e>>
    <3>1. 1 \in 1 .. to - from
        BY <1>1
    <3> QED
        BY <2>2, <3>1 DEF Replaces
  <2>4. \A k \in 2 .. to - from : mid[k] = <<>>
    <3>1. \A k \in 2 .. to - from : k \in 1 .. to - from /\ from + k \in from + 2 .. to
        BY <1>1
    <3> QED
        BY <2>2, <3>1 DEF Replaces
  <2>5. <<e>> \in Seq(S)
      OBVIOUS
  <2>6. Len(mid) > 0 /\ \A k \in 2 .. Len(mid) : mid[k] = <<>>
      BY <1>1, <2>1, <2>4
  <2> HIDE DEF mid
  <2> QED
      BY <1>8, <2>3, <2>5, <2>6, FlattenFirst
<1>10. SubSeq(back, (to - from) + 1, Len(back)) = rest
  <2> DEFINE end == SubSeq(back, (to - from) + 1, Len(back))
  <2>1. Len(end) = l - to /\ \A k \in 1 .. l - to : end[k] = back[(to - from) + k]
    <3>1. /\ (to - from) + 1 \in 1 .. Len(back) + 1 /\ Len(back) \in (((to - from) + 1) - 1) .. Len(back)
          /\ Len(back) - ((to - from) + 1) + 1 = l - to
        BY <1>1, <1>19
    <3>2. /\ Len(end) = Len(back) - ((to - from) + 1) + 1
          /\ \A k \in 1 .. (Len(back) - ((to - from) + 1) + 1) : end[k] = back[((to - from) + 1) + k - 1]
      <4> DEFINE i == (to - from) + 1
                 j == Len(back)
      <4>1. i \in 1 .. Len(back) + 1 /\ j \in (i - 1) .. Len(back)
          BY <3>1
      <4>2. end = SubSeq(back, i, j)
          OBVIOUS
      <4> HIDE DEF end, i, j
      <4>3. /\ Len(SubSeq(back, i, j)) = j - i + 1
            /\ \A k \in 1 .. (j - i + 1) : SubSeq(back, i, j)[k] = back[i + k - 1]
          BY <1>19, <4>1, Part
      <4>4. Len(end) = j - i + 1 /\ \A k \in 1 .. (j - i + 1) : end[k] = back[i + k - 1]
          BY <4>2, <4>3
      <4> QED
          BY <4>4 DEF i, j
    <3>3. \A k \in 1 .. l - to : ((to - from) + 1) + k - 1 = (to - from) + k
        BY <1>1
    <3> QED
        BY <3>1, <3>2, <3>3
  <2>2. Len(rest) = l - to /\ \A k \in 1 .. l - to : rest[k] = p[to + k]
    <3>1. to + 1 \in 1 .. Len(p) + 1 /\ l \in ((to + 1) - 1) .. Len(p) /\ l - (to + 1) + 1 = l - to
        BY <1>1, <1>2
    <3>2. /\ Len(rest) = l - (to + 1) + 1
          /\ \A k \in 1 .. (l - (to + 1) + 1) : rest[k] = p[(to + 1) + k - 1]
        BY <3>1, Part DEF rest
    <3>3. \A k \in 1 .. l - to : (to + 1) + k - 1 = to + k
        BY <1>1
    <3> QED
        BY <3>1, <3>2, <3>3
  <2>3. end \in Seq(Seq(S))
      BY <1>8
  <2> HIDE DEF end
  <2>4. ASSUME NEW k \in 1 .. l - to PROVE end[k] = rest[k]
    <3>1. (to - from) + k \in 1 .. l - from /\ from + ((to - from) + k) = to + k /\ to + k \in to + 1 .. l
        BY <1>1
    <3>2. end[k] = q[to + k]
        BY <1>6, <2>1, <3>1
    <3>3. q[to + k] = p[to + k]
        BY <1>2, <3>1 DEF Replaces
    <3> QED
        BY <2>2, <3>2, <3>3
  <2>5. end = rest
      BY <1>5, <2>1, <2>2, <2>3, <2>4, SeqEqual
  <2> QED
      BY <2>5 DEF end
<1>11. FlattenSeq(q) = u \o (<<e>> \o R)
    BY <1>6, <1>8, <1>9, <1>10 DEF R
<1>12. /\ SubSeq(a \o R, 1, from) = SubSeq(a, 1, from)
       /\ SubSeq(a \o R, to + 1, Len(a \o R)) = R
       /\ Len(a \o R) = to + Len(R) /\ Len(R) \in Nat
  <2>1. from \in 0 .. Len(a)
      BY <1>2, <1>3
  <2> QED
      BY <1>3, <1>5, <2>1, PartsOfConcat, ConcatProperties, LenProperties, ZenonT(30)
<1>13. SubSeq(a, 1, from) = u
  <2>1. 1 \in 1 .. Len(a) + 1 /\ from \in (1 - 1) .. Len(a) /\ from - 1 + 1 = from
      BY <1>1, <1>3
  <2>2. /\ SubSeq(a, 1, from) \in Seq(S) /\ Len(SubSeq(a, 1, from)) = from - 1 + 1
        /\ \A k \in 1 .. (from - 1 + 1) : SubSeq(a, 1, from)[k] = a[1 + k - 1]
      BY <1>3, <2>1, Part
  <2>4. \A k \in 1 .. from : 1 + k - 1 = k /\ k \in 1 .. to
      BY <1>1
  <2>5. \A k \in 1 .. from : SubSeq(a, 1, from)[k] = a[k]
      BY <2>1, <2>2, <2>4
  <2>3. \A k \in 1 .. from : SubSeq(a, 1, from)[k] = u[k]
      BY <1>3, <1>4, <2>4, <2>5
  <2> QED
      BY <1>4, <2>1, <2>2, <2>3, SeqEqual
<1>14. <<e>> \in Seq(S) /\ (u \o <<e>>) \o R = u \o (<<e>> \o R)
  <2>1. <<e>> \in Seq(S)
      OBVIOUS
  <2> QED
      BY <1>20, <2>1, OneBetween
<1>16. u = SubSeq(FlattenSeq(p), 1, from)
    BY <1>5, <1>12, <1>13
<1>17. R = SubSeq(FlattenSeq(p), to + 1, Len(FlattenSeq(p)))
    BY <1>5, <1>12
<1>18. FlattenSeq(q) = (u \o <<e>>) \o R
    BY <1>11, <1>14
<1> QED
    BY <1>16, <1>17, <1>18, Zenon DEF Spliced
=============================================================================
