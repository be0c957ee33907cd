------------------------- MODULE TextMaskingProofs -------------------------
(***************************************************************************)
(* Proofs about TextMasking, for texts of any length: what the detectors   *)
(* make of a text is made of the client's lexemes and of whole placeholders*)
(* that were passed to addPlaceholder, and RestoreAll takes them out again.*)
(* What the detectors find in the client's text can no longer be seen, but *)
(* for what stands behind something else that was masked; and a second     *)
(* masking changes nothing.                                                *)
(***************************************************************************)
EXTENDS TextMasking, SequenceLemmas

----------------------------------------------------------------------------
(* Where the patterns match.                                               *)

\* A set of numbers below a bound has a largest one.
LEMMA LargestNumber ==
    ASSUME NEW n \in Nat, NEW T, T \subseteq 0 .. n, T # {}
    PROVE  Max(T) \in T /\ \A x \in T : Max(T) >= x
<1> DEFINE U == {n - x : x \in T}
<1>1. U \subseteq Nat /\ U # {}
    OBVIOUS
<1>2. PICK u \in U : \A v \in U : u <= v
  <2> HIDE DEF U
  <2> QED
      BY <1>1, LeastNumber
<1>3. PICK x \in T : u = n - x
    BY <1>2
<1>4. ASSUME NEW y \in T PROVE x >= y
  <2>1. n - y \in U
      OBVIOUS
  <2>2. u <= n - y
      BY <1>2, <2>1
  <2> QED
      BY <1>3, <2>2
<1>5. \E z \in T : \A y \in T : z >= y
    BY <1>4
<1> QED
    BY <1>5 DEF Max

\* A run has none of the kinds and goes as far as there are none.
LEMMA RunEndFacts ==
    ASSUME NEW t, Len(t) \in Nat, NEW from \in 1 .. Len(t) + 1, NEW without
    PROVE  /\ RunEnd(t, from, without) \in (from - 1) .. Len(t)
           /\ \A c \in from .. RunEnd(t, from, without) : t[c].kind \notin without
           /\ \A j \in from .. Len(t) :
                  (\A c \in from .. j : t[c].kind \notin without) => j <= RunEnd(t, from, without)
<1> DEFINE T == {from - 1} \cup {j \in from .. Len(t) : \A i \in from .. j : t[i].kind \notin without}
<1>1. T \subseteq (from - 1) .. Len(t) /\ T # {} /\ T \subseteq 0 .. Len(t)
    OBVIOUS
<1>2. RunEnd(t, from, without) = Max(T)
    BY DEF RunEnd
<1>4. \A j \in T : \A c \in from .. j : t[c].kind \notin without
    OBVIOUS
<1>5. \A j \in from .. Len(t) : (\A c \in from .. j : t[c].kind \notin without) => j \in T
    OBVIOUS
<1> HIDE DEF T
<1>3. Max(T) \in T /\ \A x \in T : Max(T) >= x
    BY <1>1, LargestNumber
<1>6. Max(T) \in (from - 1) .. Len(t) /\ \A c \in from .. Max(T) : t[c].kind \notin without
    BY <1>1, <1>3, <1>4
<1>7. \A j \in from .. Len(t) : (\A c \in from .. j : t[c].kind \notin without) => j <= Max(T)
  <2>1. SUFFICES ASSUME NEW j \in from .. Len(t), \A c \in from .. j : t[c].kind \notin without
                 PROVE  j <= Max(T)
      OBVIOUS
  <2>2. j \in T
      BY <1>5, <2>1
  <2> QED
      BY <1>3, <1>6, <2>2
<1> QED
    BY <1>2, <1>6, <1>7

\* How many characters the lexemes have.
LEMMA SizeFacts == /\ \A kind : Size(kind) \in Nat /\ Size(kind) >= 1
                   /\ Size("url") = 8 /\ Size("body") = 15
<1> DEFINE size == [key |-> 9, pwd |-> 10, url |-> 8, akia |-> 20, phone |-> 11, mail |-> 15,
                    word |-> 13, pin |-> 5, quote |-> 1, stop |-> 3, body |-> 15]
<1>1. \A k \in DOMAIN size : size[k] \in Nat /\ size[k] >= 1
    OBVIOUS
<1>2. "url" \in DOMAIN size /\ size["url"] = 8 /\ "body" \in DOMAIN size /\ size["body"] = 15
    OBVIOUS
<1>3. \A kind : Size(kind) = IF kind \in DOMAIN size THEN size[kind] ELSE 1
    BY Zenon DEF Size
<1> HIDE DEF size
<1> QED
    BY <1>1, <1>2, <1>3

\* The characters of the first so many lexemes, as a function of their number.
Counts(t, n, g) == g = [i \in 0 .. n |-> IF i = 0 THEN 0 ELSE g[i - 1] + Size(t[i].kind)]

LEMMA CountsExists ==
    ASSUME NEW t, NEW n \in Nat
    PROVE  \E g : Counts(t, n, g)
<1> DEFINE P == {k \in Nat : \E g : Counts(t, k, g)}
<1>1. 0 \in P
  <2> DEFINE h == [i \in 0 .. 0 |-> 0]
  <2>1. h = [i \in 0 .. 0 |-> IF i = 0 THEN 0 ELSE h[i - 1] + Size(t[i].kind)]
    <3>1. \A i \in 0 .. 0 : i = 0
        OBVIOUS
    <3> QED
        BY <3>1
  <2> HIDE DEF h
  <2>2. Counts(t, 0, h)
      BY <2>1 DEF Counts
  <2> QED
      BY <2>2
<1>2. ASSUME NEW k \in Nat, k \in P PROVE k + 1 \in P
  <2>1. PICK g : Counts(t, k, g)
      BY <1>2
  <2>2. g = [i \in 0 .. k |-> IF i = 0 THEN 0 ELSE g[i - 1] + Size(t[i].kind)]
      BY <2>1 DEF Counts
  <2> DEFINE h == [i \in 0 .. k + 1 |-> IF i = k + 1 THEN g[k] + Size(t[k + 1].kind) ELSE g[i]]
  <2>3. ASSUME NEW i \in 0 .. k + 1
        PROVE  h[i] = IF i = 0 THEN 0 ELSE h[i - 1] + Size(t[i].kind)
    <3>1. i # 0 => i - 1 \in 0 .. k + 1 /\ i - 1 # k + 1
        OBVIOUS
    <3>2. i # 0 => h[i - 1] = g[i - 1]
        BY <3>1
    <3>3. CASE i = k + 1
      <4>1. i # 0 /\ i - 1 = k
          BY <3>3
      <4>2. h[i] = g[k] + Size(t[k + 1].kind)
          BY <3>3
      <4> HIDE DEF h
      <4> QED
          BY <3>2, <3>3, <4>1, <4>2
    <3>4. CASE i # k + 1
      <4>1. i \in 0 .. k /\ h[i] = g[i]
          BY <3>4
      <4> HIDE DEF h
      <4>2. g[i] = IF i = 0 THEN 0 ELSE g[i - 1] + Size(t[i].kind)
          BY <2>2, <4>1
      <4> QED
          BY <3>2, <4>1, <4>2
    <3> QED
        BY <3>3, <3>4
  <2>4. h = [i \in 0 .. k + 1 |-> h[i]]
      OBVIOUS
  <2> HIDE DEF h
  <2>5. Counts(t, k + 1, h)
      BY <2>3, <2>4 DEF Counts
  <2> QED
      BY <2>5
<1>3. n \in P
  <2> HIDE DEF P
  <2> QED
      BY <1>1, <1>2, AllNumbers
<1> QED
    BY <1>3

\* What such a function is: it begins with 0 and grows with each lexeme.
Sums(t, n, g) ==
    /\ g[0] = 0
    /\ \A i \in 1 .. n : g[i] = g[i - 1] + Size(t[i].kind)
    /\ \A i \in 0 .. n : g[i] \in Nat

LEMMA CountsAreSums ==
    ASSUME NEW t, NEW n \in Nat, NEW g, Counts(t, n, g)
    PROVE  Sums(t, n, g)
<1>1. g = [i \in 0 .. n |-> IF i = 0 THEN 0 ELSE g[i - 1] + Size(t[i].kind)]
    BY DEF Counts
<1>2. g[0] = 0
    BY <1>1
<1>3. ASSUME NEW i \in 1 .. n PROVE g[i] = g[i - 1] + Size(t[i].kind)
  <2>1. i \in 0 .. n /\ i # 0
      OBVIOUS
  <2> QED
      BY <1>1, <2>1
<1> DEFINE P == {k \in Nat : k <= n => g[k] \in Nat}
<1>4. 0 \in P
    BY <1>2
<1>5. ASSUME NEW k \in Nat, k \in P PROVE k + 1 \in P
  <2>1. SUFFICES ASSUME k + 1 <= n PROVE g[k + 1] \in Nat
      OBVIOUS
  <2>2. k + 1 \in 1 .. n /\ (k + 1) - 1 = k /\ g[k] \in Nat
      BY <1>5, <2>1
  <2>3. g[k + 1] = g[k] + Size(t[k + 1].kind)
      BY <1>3, <2>2
  <2>4. Size(t[k + 1].kind) \in Nat
      BY SizeFacts
  <2> QED
      BY <2>2, <2>3, <2>4
<1>6. \A k \in Nat : k \in P
  <2> HIDE DEF P
  <2> QED
      BY <1>4, <1>5, AllNumbers
<1>7. \A i \in 0 .. n : g[i] \in Nat
    BY <1>6
<1> QED
    BY <1>2, <1>3, <1>7 DEF Sums

LEMMA LengthSums ==
    ASSUME NEW t, Len(t) \in Nat
    PROVE  \E g : Sums(t, Len(t), g) /\ Length(t) = g[Len(t)]
<1> DEFINE g == CHOOSE x : x = [i \in 0 .. Len(t) |-> IF i = 0 THEN 0 ELSE x[i - 1] + Size(t[i].kind)]
<1>1. PICK h : Counts(t, Len(t), h)
    BY CountsExists
<1>2. g = [i \in 0 .. Len(t) |-> IF i = 0 THEN 0 ELSE g[i - 1] + Size(t[i].kind)]
    BY <1>1, Zenon DEF Counts
<1>3. Length(t) = g[Len(t)]
    BY DEF Length
<1> HIDE DEF g
<1>4. Counts(t, Len(t), g)
    BY <1>2, Zenon DEF Counts
<1> QED
    BY <1>3, <1>4, CountsAreSums

LEMMA SumsGrow ==
    ASSUME NEW t, NEW n \in Nat, NEW g, Sums(t, n, g), NEW i \in 0 .. n
    PROVE  \A j \in i .. n : g[i] <= g[j]
<1> DEFINE P == {k \in Nat : i + k <= n => g[i] <= g[i + k]}
<1>1. \A k \in 0 .. n : g[k] \in Nat
    BY DEF Sums
<1>2. 0 \in P
    BY <1>1
<1>3. ASSUME NEW k \in Nat, k \in P PROVE k + 1 \in P
  <2>1. SUFFICES ASSUME i + (k + 1) <= n PROVE g[i] <= g[i + (k + 1)]
      OBVIOUS
  <2>2. i + (k + 1) \in 1 .. n /\ (i + (k + 1)) - 1 = i + k /\ i + k <= n /\ i + k \in 0 .. n
      BY <2>1
  <2>3. g[i + (k + 1)] = g[i + k] + Size(t[i + (k + 1)].kind)
      BY <2>2 DEF Sums
  <2>4. Size(t[i + (k + 1)].kind) \in Nat
      BY SizeFacts
  <2>5. g[i] <= g[i + k]
      BY <1>3, <2>2
  <2>6. g[i] \in Nat /\ g[i + k] \in Nat
      BY <1>1, <2>2
  <2> QED
      BY <2>3, <2>4, <2>5, <2>6
<1>4. \A k \in Nat : k \in P
  <2> HIDE DEF P
  <2> QED
      BY <1>2, <1>3, AllNumbers
<1>5. SUFFICES ASSUME NEW j \in i .. n PROVE g[i] <= g[j]
    OBVIOUS
<1>6. j - i \in Nat /\ i + (j - i) = j /\ j <= n
    OBVIOUS
<1> QED
    BY <1>4, <1>6

\* A text is at least as long as what it begins with.
LEMMA LengthOfStart ==
    ASSUME NEW t, NEW u, Len(t) \in Nat, Len(u) \in Nat, Len(u) <= Len(t),
           \A i \in 1 .. Len(u) : u[i] = t[i]
    PROVE  Length(u) <= Length(t)
<1> DEFINE n == Len(u)
<1>1. PICK g : Sums(t, Len(t), g) /\ Length(t) = g[Len(t)]
    BY LengthSums
<1>2. PICK h : Sums(u, n, h) /\ Length(u) = h[n]
    BY LengthSums
<1> HIDE DEF n
<1>3. n \in Nat /\ n <= Len(t) /\ \A i \in 1 .. n : u[i] = t[i]
    BY DEF n
<1> DEFINE P == {k \in Nat : k <= n => h[k] = g[k]}
<1>4. 0 \in P
    BY <1>1, <1>2 DEF Sums
<1>5. ASSUME NEW k \in Nat, k \in P PROVE k + 1 \in P
  <2>1. SUFFICES ASSUME k + 1 <= n PROVE h[k + 1] = g[k + 1]
      OBVIOUS
  <2>2. k + 1 \in 1 .. n /\ k + 1 \in 1 .. Len(t) /\ (k + 1) - 1 = k /\ k <= n
      BY <1>3, <2>1
  <2>3. h[k + 1] = h[k] + Size(u[k + 1].kind) /\ g[k + 1] = g[k] + Size(t[k + 1].kind)
      BY <1>1, <1>2, <2>2 DEF Sums
  <2>4. u[k + 1] = t[k + 1] /\ h[k] = g[k]
      BY <1>3, <1>5, <2>2
  <2> QED
      BY <2>3, <2>4
<1>6. n \in P
  <2> HIDE DEF P
  <2> QED
      BY <1>3, <1>4, <1>5, AllNumbers
<1>7. h[n] = g[n]
    BY <1>3, <1>6
<1>8. n \in 0 .. Len(t) /\ Len(t) \in n .. Len(t)
    BY <1>3
<1>9. g[n] <= g[Len(t)]
    BY <1>1, <1>8, SumsGrow
<1> QED
    BY <1>1, <1>2, <1>7, <1>9

\* ... and as each of its lexemes; with two, as the first and one character more.
LEMMA LengthOfParts ==
    ASSUME NEW t, Len(t) \in Nat
    PROVE  /\ \A i \in 1 .. Len(t) : Size(t[i].kind) <= Length(t)
           /\ Len(t) = 0 => Length(t) = 0
           /\ Len(t) = 1 => Length(t) = Size(t[1].kind)
           /\ Len(t) >= 2 => Size(t[1].kind) + 1 <= Length(t)
           /\ Length(t) \in Nat
<1> DEFINE n == Len(t)
<1>1. PICK g : Sums(t, n, g) /\ Length(t) = g[n]
    BY LengthSums
<1> HIDE DEF n
<1>2. /\ n \in Nat /\ g[0] = 0
      /\ \A i \in 1 .. n : g[i] = g[i - 1] + Size(t[i].kind)
      /\ \A i \in 0 .. n : g[i] \in Nat
    BY <1>1 DEF Sums, n
<1>3. \A i \in 0 .. n : g[i] <= g[n]
  <2>1. SUFFICES ASSUME NEW i \in 0 .. n PROVE g[i] <= g[n]
      OBVIOUS
  <2>2. n \in i .. n
      BY <1>2
  <2> QED
      BY <1>1, <1>2, <2>2, SumsGrow
<1>4. \A i \in 1 .. n : Size(t[i].kind) <= g[n]
  <2>1. SUFFICES ASSUME NEW i \in 1 .. n PROVE Size(t[i].kind) <= g[n]
      OBVIOUS
  <2>2. i \in 0 .. n /\ i - 1 \in 0 .. n /\ n \in 0 .. n
      BY <1>2
  <2>3. g[i] = g[i - 1] + Size(t[i].kind) /\ g[i] <= g[n]
      BY <1>2, <1>3, <2>2
  <2>4. g[i - 1] \in Nat /\ g[i] \in Nat /\ g[n] \in Nat /\ Size(t[i].kind) \in Nat
      BY <1>2, <2>2, SizeFacts
  <2> QED
      BY <2>3, <2>4
<1>5. n >= 1 => g[1] = Size(t[1].kind)
  <2>1. SUFFICES ASSUME n >= 1 PROVE g[1] = Size(t[1].kind)
      OBVIOUS
  <2>2. 1 \in 1 .. n /\ 1 - 1 = 0
      BY <1>2, <2>1
  <2>3. g[1] = g[0] + Size(t[1].kind) /\ Size(t[1].kind) \in Nat
      BY <1>2, <2>2, SizeFacts
  <2> QED
      BY <1>2, <2>3
<1>6. n >= 2 => Size(t[1].kind) + 1 <= g[n]
  <2>1. SUFFICES ASSUME n >= 2 PROVE Size(t[1].kind) + 1 <= g[n]
      OBVIOUS
  <2>2. 2 \in 1 .. n /\ 2 - 1 = 1 /\ 2 \in 0 .. n /\ n \in 0 .. n
      BY <1>2, <2>1
  <2>3. g[2] = g[1] + Size(t[2].kind) /\ g[2] <= g[n] /\ g[2] \in Nat /\ g[n] \in Nat
      BY <1>2, <1>3, <2>2
  <2>4. Size(t[1].kind) \in Nat /\ Size(t[2].kind) \in Nat /\ Size(t[2].kind) >= 1
      BY SizeFacts
  <2>5. g[1] = Size(t[1].kind)
      BY <1>2, <1>5, <2>1
  <2> QED
      BY <2>3, <2>4, <2>5
<1>7. g[n] \in Nat
    BY <1>2
<1>8. (n = 0 => g[n] = 0) /\ (n = 1 => g[n] = Size(t[1].kind))
    BY <1>2, <1>5
<1> QED
    BY <1>1, <1>4, <1>6, <1>7, <1>8 DEF n

\* An empty run has no characters.
LEMMA NoLength == Length(<<>>) = 0
<1>1. Len(<<>>) = 0 /\ Len(<<>>) \in Nat
    OBVIOUS
<1> QED
    BY <1>1, LengthOfParts

\* The matches of a pattern lie in the text and do not overlap.
Separate(matches, t) ==
    /\ \A x \in matches : x.from \in 1 .. Len(t) /\ x.to \in x.from .. Len(t)
    /\ \A x, y \in matches : x.from < y.from => x.to < y.from

\* What a search from left to right finds of all.
Searched(found, all) ==
    \A m \in all : m \in found <=> \A x \in found : x.open < m.open => x.to < m.open

\* There is such a set, whatever the runs are: it grows from left to right.
LEMMA SearchFinds ==
    ASSUME NEW all, NEW n \in Nat, \A x \in all : x.open \in 1 .. n
    PROVE  \E found \in SUBSET all : Searched(found, all)
<1> DEFINE Before(k) == {x \in all : x.open <= k}
           Swept(k) == \E found \in SUBSET Before(k) : Searched(found, Before(k))
           N == {k \in Nat : Swept(k)}
<1>1. 0 \in N
  <2>1. Before(0) = {}
    <3>1. ASSUME NEW x \in Before(0) PROVE FALSE
      <4>1. x \in all /\ x.open <= 0
          OBVIOUS
      <4>2. x.open \in 1 .. n
          BY <4>1
      <4> QED
          BY <4>1, <4>2
    <3> QED
        BY <3>1
  <2>2. Searched({}, Before(0))
      BY <2>1 DEF Searched
  <2> QED
      BY <2>2
<1>2. ASSUME NEW k \in N PROVE k + 1 \in N
  <2>1. k \in Nat /\ k + 1 \in Nat /\ Swept(k)
    <3>1. k \in Nat /\ Swept(k)
      <4> HIDE DEF Swept
      <4> QED
          BY Zenon
    <3>2. k + 1 \in Nat
        BY <3>1
    <3> QED
        BY <3>1, <3>2
  <2>2. PICK found \in SUBSET Before(k) : Searched(found, Before(k))
      BY <2>1
  <2> DEFINE next == {m \in all : m.open = k + 1 /\ \A x \in found : x.to < m.open}
             more == found \cup next
  <2>3. more \in SUBSET Before(k + 1)
      BY <2>1, <2>2
  <2>4. ASSUME NEW m \in Before(k + 1)
        PROVE  m \in more <=> \A x \in more : x.open < m.open => x.to < m.open
    <3>1. m \in all /\ m.open \in 1 .. n /\ m.open <= k + 1
        OBVIOUS
    <3>2. \A x \in found : x \in all /\ x.open \in 1 .. n /\ x.open <= k
        BY <2>2
    <3>3. \A x \in next : x.open = k + 1
        OBVIOUS
    <3>4. CASE m.open <= k
      <4>1. m \in Before(k)
          BY <3>1, <3>4
      <4>2. m \in found <=> \A x \in found : x.open < m.open => x.to < m.open
          BY <2>2, <4>1 DEF Searched
      <4>3. m \notin next
          BY <2>1, <3>1, <3>3, <3>4
      <4>4. \A x \in next : ~ (x.open < m.open)
          BY <2>1, <3>1, <3>3, <3>4
      <4> QED
          BY <4>2, <4>3, <4>4
    <3>5. CASE m.open = k + 1
      <4>1. m \notin found
          BY <2>1, <3>2, <3>5
      <4>2. m \in next <=> \A x \in found : x.to < m.open
          BY <3>1, <3>5
      <4>3. \A x \in found : x.open < m.open
          BY <2>1, <3>1, <3>2, <3>5
      <4>4. \A x \in next : ~ (x.open < m.open)
          BY <2>1, <3>3, <3>5
      <4> QED
          BY <4>1, <4>2, <4>3, <4>4
    <3> QED
        BY <2>1, <3>1, <3>4, <3>5
  <2>5. Searched(more, Before(k + 1))
      BY <2>4 DEF Searched
  <2>6. Swept(k + 1)
    <3> HIDE DEF more
    <3> QED
        BY <2>3, <2>5
  <2> QED
      BY <2>1, <2>6
<1>3. n \in N
  <2> HIDE DEF N
  <2> QED
      BY <1>1, <1>2, AllNumbers
<1>4. Before(n) = all
    OBVIOUS
<1> QED
    BY <1>3, <1>4

\* What RunsBehind returns: runs that are long enough and do not overlap, and of each long
\* run the one that begins there or one that covers its opening lexeme.
RunsOf(t, begin, without, least, runs) ==
    /\ \A x \in runs : /\ x.open \in DOMAIN begin /\ x.from = begin[x.open]
                       /\ x.to = RunEnd(t, x.from, without)
                       /\ x.open \in 1 .. Len(t) /\ x.from \in x.open .. Len(t) + 1
                       /\ x.to \in x.from .. Len(t)
                       /\ Length(SubSeq(t, x.from, x.to)) >= least
    /\ \A x, y \in runs : x.open < y.open => x.to < y.open
    /\ \A i \in DOMAIN begin :
           Length(SubSeq(t, begin[i], RunEnd(t, begin[i], without))) >= least =>
               \E x \in runs : x.open = i \/ (x.open < i /\ x.to >= i)

LEMMA RunsFound ==
    ASSUME NEW S, NEW t \in Seq(S), NEW begin, NEW without, NEW least \in Nat \ {0},
           \A i \in DOMAIN begin : i \in 1 .. Len(t) /\ begin[i] \in i .. Len(t) + 1
    PROVE  RunsOf(t, begin, without, least, RunsBehind(t, begin, without, least))
<1>1. Len(t) \in Nat
    BY LenProperties
<1> DEFINE run(i) == [open |-> i, from |-> begin[i], to |-> RunEnd(t, begin[i], without)]
           all == {run(i) : i \in DOMAIN begin}
           long == {m \in all : Length(SubSeq(t, m.from, m.to)) >= least}
           matches == RunsBehind(t, begin, without, least)
<1>3. ASSUME NEW x \in long
      PROVE  /\ x.open \in DOMAIN begin /\ x.from = begin[x.open] /\ x.open \in 1 .. Len(t)
             /\ x.from \in x.open .. Len(t) + 1 /\ x.to \in x.from .. Len(t)
             /\ x.to = RunEnd(t, x.from, without) /\ Length(SubSeq(t, x.from, x.to)) >= least
  <2>1. PICK i \in DOMAIN begin : x = run(i)
      OBVIOUS
  <2>2. x.open = i /\ x.from = begin[i] /\ x.to = RunEnd(t, begin[i], without)
      BY <2>1
  <2>3. i \in 1 .. Len(t) /\ begin[i] \in i .. Len(t) + 1
      OBVIOUS
  <2>4. begin[i] \in 1 .. Len(t) + 1
      BY <1>1, <2>3
  <2>5. x.to \in (x.from - 1) .. Len(t)
      BY <1>1, <2>2, <2>4, RunEndFacts
  <2>7. Length(SubSeq(t, x.from, x.to)) >= least
      OBVIOUS
  <2>6. x.to # x.from - 1
    <3>1. SUFFICES ASSUME x.to = x.from - 1 PROVE FALSE
        OBVIOUS
    <3>2. SubSeq(t, x.from, x.to) = <<>>
      <4>1. x.from \in Int /\ x.to \in Int /\ x.to < x.from
          BY <1>1, <2>2, <2>4, <3>1
      <4> QED
          BY <4>1, SubSeqEmpty
    <3> QED
        BY <2>7, <3>2, NoLength
  <2> QED
      BY <1>1, <2>2, <2>3, <2>4, <2>5, <2>6, <2>7
<1>2. matches = CHOOSE found \in SUBSET long :
            \A m \in long : m \in found <=> \A x \in found : x.open < m.open => x.to < m.open
    BY DEF RunsBehind
<1>4. ASSUME NEW i \in DOMAIN begin,
             Length(SubSeq(t, begin[i], RunEnd(t, begin[i], without))) >= least
      PROVE  run(i) \in long /\ run(i).open = i
    BY <1>4
<1> HIDE DEF run, all, long, matches
<1>5. matches \in SUBSET long /\ Searched(matches, long)
  <2>1. \E found \in SUBSET long : Searched(found, long)
      BY <1>1, <1>3, SearchFinds
  <2>2. \E found \in SUBSET long :
            \A m \in long : m \in found <=> \A x \in found : x.open < m.open => x.to < m.open
      BY <2>1, Zenon DEF Searched
  <2> QED
      BY <1>2, <2>2 DEF Searched
<1>6. \A x, y \in matches : x.open < y.open => x.to < y.open
    BY <1>5 DEF Searched
<1>7. ASSUME NEW i \in DOMAIN begin,
             Length(SubSeq(t, begin[i], RunEnd(t, begin[i], without))) >= least
      PROVE  \E x \in matches : x.open = i \/ (x.open < i /\ x.to >= i)
  <2>1. run(i) \in long /\ run(i).open = i
      BY <1>4, <1>7
  <2>2. CASE run(i) \in matches
      BY <2>1, <2>2
  <2>3. CASE run(i) \notin matches
    <3>1. PICK x \in matches : x.open < i /\ ~ (x.to < i)
        BY <1>5, <2>1, <2>3 DEF Searched
    <3>2. x.to \in Int /\ i \in Int
      <4>1. x \in long
          BY <1>5
      <4>2. x.open \in 1 .. Len(t) /\ x.from \in x.open .. Len(t) + 1 /\ x.to \in x.from .. Len(t)
          BY <1>3, <4>1
      <4> QED
          BY <1>1, <4>2
    <3> QED
        BY <3>1, <3>2
  <2> QED
      BY <2>2, <2>3
<1>8. \A x \in matches : /\ x.open \in DOMAIN begin /\ x.from = begin[x.open]
                         /\ x.to = RunEnd(t, x.from, without)
                         /\ x.open \in 1 .. Len(t) /\ x.from \in x.open .. Len(t) + 1
                         /\ x.to \in x.from .. Len(t)
                         /\ Length(SubSeq(t, x.from, x.to)) >= least
    BY <1>3, <1>5
<1> QED
    BY <1>6, <1>7, <1>8 DEF RunsOf, matches

LEMMA RunsSeparate ==
    ASSUME NEW S, NEW t \in Seq(S), NEW begin, NEW without, NEW least \in Nat \ {0},
           \A i \in DOMAIN begin : i \in 1 .. Len(t) /\ begin[i] \in i .. Len(t) + 1
    PROVE  Separate(RunsBehind(t, begin, without, least), t)
<1> DEFINE matches == RunsBehind(t, begin, without, least)
<1>1. Len(t) \in Nat /\ RunsOf(t, begin, without, least, matches)
    BY LenProperties, RunsFound
<1> HIDE DEF matches
<1>2. ASSUME NEW x \in matches
      PROVE  /\ x.open \in 1 .. Len(t) /\ x.from \in x.open .. Len(t) + 1 /\ x.to \in x.from .. Len(t)
             /\ x.from = begin[x.open]
    BY <1>1 DEF RunsOf
<1>3. ASSUME NEW x \in matches PROVE x.from \in 1 .. Len(t) /\ x.to \in x.from .. Len(t)
  <2>1. x.open \in 1 .. Len(t) /\ x.from \in x.open .. Len(t) + 1 /\ x.to \in x.from .. Len(t)
      BY <1>2
  <2> QED
      BY <1>1, <2>1
<1>4. ASSUME NEW x \in matches, NEW y \in matches, x.from < y.from PROVE x.to < y.from
  <2>1. /\ x.open \in 1 .. Len(t) /\ x.from \in x.open .. Len(t) + 1 /\ x.to \in x.from .. Len(t)
        /\ x.from = begin[x.open]
      BY <1>2
  <2>2. /\ y.open \in 1 .. Len(t) /\ y.from \in y.open .. Len(t) + 1 /\ y.to \in y.from .. Len(t)
        /\ y.from = begin[y.open]
      BY <1>2
  <2>3. x.open # y.open
      BY <1>1, <1>4, <2>1, <2>2
  <2>4. ~ (y.open < x.open)
    <3>1. SUFFICES ASSUME y.open < x.open PROVE FALSE
        OBVIOUS
    <3>2. y.to < x.open
        BY <1>1, <3>1 DEF RunsOf
    <3> QED
        BY <1>1, <1>4, <2>1, <2>2, <3>2
  <2>5. x.open < y.open
      BY <1>1, <2>1, <2>2, <2>3, <2>4
  <2>6. x.to < y.open
      BY <1>1, <2>5 DEF RunsOf
  <2> QED
      BY <1>1, <2>1, <2>2, <2>6
<1> QED
    BY <1>3, <1>4 DEF Separate, matches

\* Where the values of key names begin.
KeyBegin(t, kind) ==
    [i \in Positions(t, kind) |-> IF KindAt(t, i + 1) = "quote" THEN i + 2 ELSE i + 1]

LEMMA KeyBegins ==
    ASSUME NEW t, Len(t) \in Nat, DOMAIN t = 1 .. Len(t), NEW kind, NEW i \in DOMAIN KeyBegin(t, kind)
    PROVE  /\ i \in 1 .. Len(t) /\ t[i].kind = kind
           /\ KeyBegin(t, kind)[i] \in i .. Len(t) + 1
           /\ \/ KeyBegin(t, kind)[i] = i + 1 /\ (i + 1 \in 1 .. Len(t) => t[i + 1].kind # "quote")
              \/ KeyBegin(t, kind)[i] = i + 2 /\ i + 1 \in 1 .. Len(t) /\ t[i + 1].kind = "quote"
<1>1. i \in Positions(t, kind)
    BY DEF KeyBegin
<1>2. i \in 1 .. Len(t) /\ t[i].kind = kind
    BY <1>1 DEF Positions
<1>3. KindAt(t, i + 1) = "quote" => i + 1 \in 1 .. Len(t) /\ t[i + 1].kind = "quote"
    BY DEF KindAt
<1>4. KindAt(t, i + 1) # "quote" => (i + 1 \in 1 .. Len(t) => t[i + 1].kind # "quote")
    BY DEF KindAt
<1>5. KeyBegin(t, kind)[i] = IF KindAt(t, i + 1) = "quote" THEN i + 2 ELSE i + 1
    BY <1>1 DEF KeyBegin
<1>6. CASE KindAt(t, i + 1) = "quote"
  <2>1. KeyBegin(t, kind)[i] = i + 2 /\ i + 1 \in 1 .. Len(t) /\ t[i + 1].kind = "quote"
      BY <1>3, <1>5, <1>6
  <2>2. i + 2 \in i .. Len(t) + 1
      BY <1>2, <2>1
  <2> QED
      BY <1>2, <2>1, <2>2
<1>7. CASE KindAt(t, i + 1) # "quote"
  <2>1. KeyBegin(t, kind)[i] = i + 1 /\ (i + 1 \in 1 .. Len(t) => t[i + 1].kind # "quote")
      BY <1>4, <1>5, <1>7
  <2>2. i + 1 \in i .. Len(t) + 1
      BY <1>2
  <2> QED
      BY <1>2, <2>1, <2>2
<1> QED
    BY <1>6, <1>7

LEMMA KeyRuns ==
    ASSUME NEW S, NEW t \in Seq(S), NEW kind
    PROVE  RunsOf(t, KeyBegin(t, kind), {"quote", "stop"}, 8, KeyMatches(t, kind))
<1>1. Len(t) \in Nat /\ DOMAIN t = 1 .. Len(t)
    BY LenProperties
<1>2. \A i \in DOMAIN KeyBegin(t, kind) : i \in 1 .. Len(t) /\ KeyBegin(t, kind)[i] \in i .. Len(t) + 1
    BY <1>1, KeyBegins
<1>3. KeyMatches(t, kind) = RunsBehind(t, KeyBegin(t, kind), {"quote", "stop"}, 8)
    BY DEF KeyMatches, KeyBegin
<1>4. 8 \in Nat \ {0}
    OBVIOUS
<1> QED
    BY <1>2, <1>3, <1>4, RunsFound

LEMMA URLRuns ==
    ASSUME NEW S, NEW t \in Seq(S)
    PROVE  RunsOf(t, [i \in Positions(t, "url") |-> i], {"quote", "stop", "{", "}"}, 9, URLMatches(t))
<1> DEFINE begin == [i \in Positions(t, "url") |-> i]
<1>1. Len(t) \in Nat /\ DOMAIN t = 1 .. Len(t)
    BY LenProperties
<1>2. ASSUME NEW i \in DOMAIN begin PROVE i \in 1 .. Len(t) /\ begin[i] \in i .. Len(t) + 1
    BY <1>1 DEF Positions
<1>3. URLMatches(t) = RunsBehind(t, begin, {"quote", "stop", "{", "}"}, 9)
    BY DEF URLMatches
<1>4. 9 \in Nat \ {0}
    OBVIOUS
<1> HIDE DEF begin
<1>5. RunsOf(t, begin, {"quote", "stop", "{", "}"}, 9, URLMatches(t))
    BY <1>2, <1>3, <1>4, RunsFound
<1> QED
    BY <1>5 DEF begin

LEMMA PasswordRuns ==
    ASSUME NEW S, NEW t \in Seq(S)
    PROVE  RunsOf(t, [i \in Positions(t, "pwd") |-> i + 1], {"stop"}, 1, PasswordMatches(t))
<1> DEFINE begin == [i \in Positions(t, "pwd") |-> i + 1]
<1>1. Len(t) \in Nat /\ DOMAIN t = 1 .. Len(t)
    BY LenProperties
<1>2. ASSUME NEW i \in DOMAIN begin PROVE i \in 1 .. Len(t) /\ begin[i] \in i .. Len(t) + 1
    BY <1>1 DEF Positions
<1>3. PasswordMatches(t) = RunsBehind(t, begin, {"stop"}, 1)
    BY DEF PasswordMatches
<1>4. 1 \in Nat \ {0}
    OBVIOUS
<1> HIDE DEF begin
<1>5. RunsOf(t, begin, {"stop"}, 1, PasswordMatches(t))
    BY <1>2, <1>3, <1>4, RunsFound
<1> QED
    BY <1>5 DEF begin

LEMMA MatchesSeparate ==
    ASSUME NEW S, NEW t \in Seq(S), NEW n \in DOMAIN Passes
    PROVE  Separate(FindAll(Passes[n], t), t)
<1>1. Len(t) \in Nat /\ DOMAIN t = 1 .. Len(t)
    BY LenProperties
<1>2. ASSUME NEW kind PROVE Separate(KindMatches(t, kind), t)
    BY <1>1 DEF KindMatches, Positions, Separate
<1>3. ASSUME NEW kind PROVE Separate(KeyMatches(t, kind), t)
  <2> DEFINE begin == [i \in Positions(t, kind) |->
                          IF KindAt(t, i + 1) = "quote" THEN i + 2 ELSE i + 1]
  <2>1. ASSUME NEW i \in DOMAIN begin PROVE i \in 1 .. Len(t) /\ begin[i] \in i .. Len(t) + 1
    <3>1. i \in 1 .. Len(t)
        BY <1>1 DEF Positions
    <3>2. KindAt(t, i + 1) = "quote" => i + 1 \in 1 .. Len(t)
        BY <1>1 DEF KindAt
    <3> QED
        BY <1>1, <3>1, <3>2
  <2>2. 8 \in Nat \ {0}
      OBVIOUS
  <2>3. KeyMatches(t, kind) = RunsBehind(t, begin, {"quote", "stop"}, 8)
      BY DEF KeyMatches
  <2> HIDE DEF begin
  <2> QED
      BY <2>1, <2>2, <2>3, RunsSeparate
<1>4. Separate(URLMatches(t), t)
  <2> DEFINE begin == [i \in Positions(t, "url") |-> i]
  <2>1. ASSUME NEW i \in DOMAIN begin PROVE i \in 1 .. Len(t) /\ begin[i] \in i .. Len(t) + 1
      BY <1>1 DEF Positions
  <2>2. 9 \in Nat \ {0}
      OBVIOUS
  <2>3. URLMatches(t) = RunsBehind(t, begin, {"quote", "stop", "{", "}"}, 9)
      BY DEF URLMatches
  <2> HIDE DEF begin
  <2> QED
      BY <2>1, <2>2, <2>3, RunsSeparate
<1>5. Separate(PasswordMatches(t), t)
  <2> DEFINE begin == [i \in Positions(t, "pwd") |-> i + 1]
  <2>1. ASSUME NEW i \in DOMAIN begin PROVE i \in 1 .. Len(t) /\ begin[i] \in i .. Len(t) + 1
      BY <1>1 DEF Positions
  <2>2. 1 \in Nat \ {0}
      OBVIOUS
  <2>3. PasswordMatches(t) = RunsBehind(t, begin, {"stop"}, 1)
      BY DEF PasswordMatches
  <2> HIDE DEF begin
  <2> QED
      BY <2>1, <2>2, <2>3, RunsSeparate
<1>6. Passes[n] \in {"api_key", "password", "format", "PHONE", "EMAIL", "URL_ADDRESS", "PASSWORD"}
    BY DEF Passes
<1> QED
    BY <1>2, <1>3, <1>4, <1>5, <1>6 DEF FindAll
----------------------------------------------------------------------------
(* What the texts are made of.                                             *)

Clients == {Plain(k, n) : k \in Kinds, n \in Nat \ {0}}

Marks == {Plain(k, 0) : k \in {"$", "{", "}"}}

\* The lexemes of a text whose placeholders were made of the bodies in made.
Elements(made_) == Clients \cup Marks \cup made_

MarkKinds == {"$", "{", "}", "body"}

\* A body is of what was masked; if that is the client's, it is a text of the client's.
BodiesFit(made_) ==
    \A b \in made_ :
        /\ b.kind = "body" /\ b.at = 0
        /\ (\A i \in DOMAIN b.value : b.value[i].at > 0) => b.value \in Seq(Clients)

LEMMA ClientFacts ==
    ASSUME NEW x \in Clients
    PROVE  x.kind \in Kinds /\ x.at \in Nat \ {0} /\ x.kind \notin MarkKinds
<1>1. PICK k \in Kinds, n \in Nat \ {0} : x = Plain(k, n)
    BY DEF Clients
<1>2. x.kind = k /\ x.at = n
    BY <1>1 DEF Plain
<1>3. k \notin MarkKinds
    BY DEF Kinds, MarkKinds
<1> QED
    BY <1>2, <1>3

LEMMA PositiveIsNotZero == \A n \in Nat : n > 0 => n # 0
    OBVIOUS

LEMMA ElementFacts ==
    ASSUME NEW M, BodiesFit(M), NEW x \in Elements(M)
    PROVE  /\ x.kind \in Kinds \cup MarkKinds
           /\ x.kind = "body" => x \in M
           /\ x.at \in Nat /\ (x.at > 0 => x \in Clients)
           /\ x \in Clients => x.kind \notin MarkKinds
<1>1. CASE x \in Clients
  <2>1. x.kind \in Kinds /\ x.at \in Nat \ {0} /\ x.kind \notin MarkKinds
      BY <1>1, ClientFacts
  <2>2. x.kind # "body"
      BY <2>1 DEF MarkKinds
  <2> QED
      BY <1>1, <2>1, <2>2
<1>2. CASE x \in Marks
  <2>1. PICK k \in {"$", "{", "}"} : x = Plain(k, 0)
      BY <1>2 DEF Marks
  <2>2. x.kind = k /\ x.at = 0
      BY <2>1 DEF Plain
  <2>3. x \notin Clients
      BY <2>2, ClientFacts
  <2>4. x.kind \in MarkKinds /\ x.kind # "body"
      BY <2>2 DEF MarkKinds
  <2>5. x.at \in Nat /\ ~ (x.at > 0)
    <3>1. 0 \in Nat
        OBVIOUS
    <3> QED
        BY <2>2, <3>1, PositiveIsNotZero, Zenon
  <2> QED
      BY <2>3, <2>4, <2>5
<1>3. CASE x \in M
  <2>1. x.kind = "body" /\ x.at = 0
      BY <1>3 DEF BodiesFit
  <2>2. x \notin Clients
      BY <2>1, ClientFacts
  <2>3. "body" \in MarkKinds
      BY DEF MarkKinds
  <2> QED
      BY <1>3, <2>1, <2>2, <2>3
<1> QED
    BY <1>1, <1>2, <1>3 DEF Elements

\* Every part of a placeholder is in a whole one.
Whole(u) ==
    \A i \in 1 .. Len(u) :
        /\ u[i].kind = "body" =>
              /\ i >= 3 /\ i + 1 <= Len(u)
              /\ u[i - 2].kind = "$" /\ u[i - 1].kind = "{" /\ u[i + 1].kind = "}"
        /\ u[i].kind = "{" => i + 1 <= Len(u) /\ u[i + 1].kind = "body"
        /\ u[i].kind = "$" => i + 2 <= Len(u) /\ u[i + 2].kind = "body"
        /\ u[i].kind = "}" => i >= 2 /\ u[i - 1].kind = "body"

----------------------------------------------------------------------------
(* RestoreAll of a text with whole placeholders goes lexeme by lexeme.      *)

Becomes(x) ==
    IF x.kind = "body" THEN x.value ELSE IF x.kind \in {"$", "{", "}"} THEN <<>> ELSE <<x>>

Parts(u) == [i \in DOMAIN u |-> Becomes(u[i])]

LEMMA BodiesOfWhole ==
    ASSUME NEW S, NEW u \in Seq(S), Whole(u), NEW i \in Int
    PROVE  i \in Bodies(u) <=> i \in 1 .. Len(u) /\ u[i].kind = "body"
<1>1. Len(u) \in Nat /\ DOMAIN u = 1 .. Len(u)
    BY LenProperties
<1>2. i \in Bodies(u) <=> i \in 1 .. Len(u) /\ u[i].kind = "body" /\ KindAt(u, i - 1) = "{"
    BY <1>1 DEF Bodies, KindAt
<1>3. ASSUME i \in 1 .. Len(u), u[i].kind = "body" PROVE KindAt(u, i - 1) = "{"
  <2>1. i >= 3 /\ u[i - 1].kind = "{"
      BY <1>3 DEF Whole
  <2>2. i - 1 \in 1 .. Len(u)
    <3>1. i \in 1 .. Len(u) /\ i >= 3
        BY <1>3, <2>1
    <3> QED
        BY <1>1, <3>1
  <2> QED
      BY <1>1, <2>1, <2>2 DEF KindAt
<1> QED
    BY <1>2, <1>3

LEMMA RestoreParts ==
    ASSUME NEW S, NEW u \in Seq(S), Whole(u)
    PROVE  RestoreAll(u) = FlattenSeq(Parts(u))
<1>1. Len(u) \in Nat /\ DOMAIN u = 1 .. Len(u)
    BY LenProperties
<1>2. ASSUME NEW i \in 1 .. Len(u) PROVE Restored(u, i) = Becomes(u[i])
  <2> DEFINE Mark == i + 1 \in Bodies(u) \/ i - 1 \in Bodies(u) \/ (i + 2 \in Bodies(u) /\ u[i].kind = "$")
  <2>1. i \in Bodies(u) <=> u[i].kind = "body"
      BY <1>1, BodiesOfWhole
  <2>2. i + 1 \in Bodies(u) <=> i + 1 \in 1 .. Len(u) /\ u[i + 1].kind = "body"
    <3>1. i + 1 \in Int
        BY <1>1
    <3> QED
        BY <3>1, BodiesOfWhole
  <2>3. i - 1 \in Bodies(u) <=> i - 1 \in 1 .. Len(u) /\ u[i - 1].kind = "body"
    <3>1. i - 1 \in Int
        BY <1>1
    <3> QED
        BY <3>1, BodiesOfWhole
  <2>4. i + 2 \in Bodies(u) <=> i + 2 \in 1 .. Len(u) /\ u[i + 2].kind = "body"
    <3>1. i + 2 \in Int
        BY <1>1
    <3> QED
        BY <3>1, BodiesOfWhole
  <2>5. Restored(u, i) = CASE i \in Bodies(u) -> u[i].value [] Mark -> <<>> [] OTHER -> <<u[i]>>
      BY DEF Restored
  <2>6. Mark <=> u[i].kind \in {"$", "{", "}"}
    <3>1. i + 1 \in Bodies(u) => u[i].kind = "{"
      <4>1. SUFFICES ASSUME i + 1 \in Bodies(u) PROVE u[i].kind = "{"
          OBVIOUS
      <4>2. i + 1 \in 1 .. Len(u) /\ u[i + 1].kind = "body"
          BY <2>2, <4>1
      <4>3. u[(i + 1) - 1].kind = "{"
          BY <4>2 DEF Whole
      <4>4. (i + 1) - 1 = i
          BY <1>1
      <4> QED
          BY <4>3, <4>4
    <3>2. i - 1 \in Bodies(u) => u[i].kind = "}"
      <4>1. SUFFICES ASSUME i - 1 \in Bodies(u) PROVE u[i].kind = "}"
          OBVIOUS
      <4>2. i - 1 \in 1 .. Len(u) /\ u[i - 1].kind = "body"
          BY <2>3, <4>1
      <4>3. u[(i - 1) + 1].kind = "}"
          BY <4>2 DEF Whole
      <4>4. (i - 1) + 1 = i
          BY <1>1
      <4> QED
          BY <4>3, <4>4
    <3>3. u[i].kind = "{" => i + 1 \in Bodies(u)
      <4>1. u[i].kind = "{" => i + 1 <= Len(u) /\ u[i + 1].kind = "body"
          BY DEF Whole
      <4>2. i + 1 <= Len(u) => i + 1 \in 1 .. Len(u)
          BY <1>1
      <4> QED
          BY <2>2, <4>1, <4>2
    <3>4. u[i].kind = "}" => i - 1 \in Bodies(u)
      <4>1. u[i].kind = "}" => i >= 2 /\ u[i - 1].kind = "body"
          BY DEF Whole
      <4>2. i >= 2 => i - 1 \in 1 .. Len(u)
          BY <1>1
      <4> QED
          BY <2>3, <4>1, <4>2
    <3>5. u[i].kind = "$" => i + 2 \in Bodies(u)
      <4>1. u[i].kind = "$" => i + 2 <= Len(u) /\ u[i + 2].kind = "body"
          BY DEF Whole
      <4>2. i + 2 <= Len(u) => i + 2 \in 1 .. Len(u)
          BY <1>1
      <4> QED
          BY <2>4, <4>1, <4>2
    <3> QED
        BY <3>1, <3>2, <3>3, <3>4, <3>5
  <2> HIDE DEF Mark
  <2>7. u[i].kind = "body" => u[i].kind \notin {"$", "{", "}"}
      OBVIOUS
  <2> QED
      BY <2>1, <2>5, <2>6, <2>7 DEF Becomes
<1>3. [i \in DOMAIN u |-> Restored(u, i)] = Parts(u)
    BY <1>1, <1>2 DEF Parts
<1> QED
    BY <1>3 DEF RestoreAll
----------------------------------------------------------------------------
(* Texts are cut and joined at places where no placeholder is cut.          *)

\* What begins or ends with the client's words can be taken apart there.
LEMMA WholeStart ==
    ASSUME NEW S, NEW a \in Seq(S), NEW b \in Seq(S), Whole(a \o b), Len(a) # 0, Len(b) # 0,
           a[Len(a)].kind \notin MarkKinds \/ b[1].kind \notin MarkKinds
    PROVE  Whole(a) /\ Whole(b)
<1> DEFINE u == a \o b
           n == Len(a)
           m == Len(b)
<1>1. n \in Nat /\ m \in Nat /\ n >= 1 /\ m >= 1
    BY LenProperties
<1>2. Len(u) = n + m /\ \A i \in 1 .. n + m : u[i] = IF i <= n THEN a[i] ELSE b[i - n]
    BY ConcatProperties
<1>3. Whole(u) /\ (a[n].kind \notin MarkKinds \/ b[1].kind \notin MarkKinds)
    OBVIOUS
<1> HIDE DEF u, n, m
<1>4. \A i \in 1 .. n : u[i] = a[i]
  <2>1. TAKE i \in 1 .. n
  <2>2. i \in 1 .. n + m /\ i <= n
      BY <1>1
  <2> QED
      BY <1>2, <2>2
<1>5. \A i \in 1 .. m : u[n + i] = b[i]
  <2>1. TAKE i \in 1 .. m
  <2>2. n + i \in 1 .. n + m /\ ~ (n + i <= n) /\ (n + i) - n = i
      BY <1>1
  <2> QED
      BY <1>2, <2>2
<1>6. u[n].kind \notin MarkKinds \/ u[n + 1].kind \notin MarkKinds
  <2>1. n \in 1 .. n /\ 1 \in 1 .. m
      BY <1>1
  <2> QED
      BY <1>3, <1>4, <1>5, <2>1
<1>7. ASSUME NEW i \in 1 .. n + m
      PROVE  /\ u[i].kind = "body" =>
                    /\ i >= 3 /\ i + 1 <= n + m
                    /\ u[i - 2].kind = "$" /\ u[i - 1].kind = "{" /\ u[i + 1].kind = "}"
             /\ u[i].kind = "{" => i + 1 <= n + m /\ u[i + 1].kind = "body"
             /\ u[i].kind = "$" => i + 2 <= n + m /\ u[i + 2].kind = "body"
             /\ u[i].kind = "}" => i >= 2 /\ u[i - 1].kind = "body"
    BY <1>2, <1>3, ZenonT(30) DEF Whole
\* No two neighbours at the border are parts of one placeholder.
<1>8. ASSUME NEW x \in MarkKinds, NEW y \in MarkKinds, u[n].kind = x, u[n + 1].kind = y PROVE FALSE
    BY <1>6, <1>8
<1>9. {"$", "{", "}", "body"} = MarkKinds
    BY DEF MarkKinds
\* A body has the rest of its placeholder on its side of the border.
<1>10. ASSUME NEW i \in 1 .. n + m, u[i].kind = "body"
       PROVE  i # n /\ i # n + 1 /\ i - 1 # n /\ i - 2 # n /\ i >= 3 /\ i + 1 <= n + m
  <2>1. /\ i >= 3 /\ i + 1 <= n + m
        /\ u[i - 2].kind = "$" /\ u[i - 1].kind = "{" /\ u[i + 1].kind = "}"
      BY <1>7, <1>10
  <2>2. i # n
      BY <1>8, <1>9, <1>10, <2>1
  <2>3. i - 1 # n
    <3>1. SUFFICES ASSUME i - 1 = n PROVE FALSE
        OBVIOUS
    <3>2. i = n + 1
        BY <1>1, <3>1
    <3> QED
        BY <1>8, <1>9, <1>10, <2>1, <3>1, <3>2
  <2>4. i - 2 # n
    <3>1. SUFFICES ASSUME i - 2 = n PROVE FALSE
        OBVIOUS
    <3>2. i - 1 = n + 1
        BY <1>1, <3>1
    <3> QED
        BY <1>8, <1>9, <2>1, <3>1, <3>2
  <2>5. i # n + 1
    <3>1. i = n + 1 => i - 1 = n
        BY <1>1
    <3> QED
        BY <2>3, <3>1
  <2>6. i >= 3 /\ i + 1 <= n + m
      BY <2>1
  <2> QED
      BY <2>2, <2>3, <2>4, <2>5, <2>6, Zenon
<1>11. Whole(a)
  <2>1. SUFFICES ASSUME NEW i \in 1 .. n
                 PROVE  /\ a[i].kind = "body" =>
                              /\ i >= 3 /\ i + 1 <= n
                              /\ a[i - 2].kind = "$" /\ a[i - 1].kind = "{" /\ a[i + 1].kind = "}"
                        /\ a[i].kind = "{" => i + 1 <= n /\ a[i + 1].kind = "body"
                        /\ a[i].kind = "$" => i + 2 <= n /\ a[i + 2].kind = "body"
                        /\ a[i].kind = "}" => i >= 2 /\ a[i - 1].kind = "body"
      BY Zenon DEF Whole, n
  <2>2. i \in 1 .. n + m /\ u[i] = a[i]
      BY <1>1, <1>4
  <2>3. ASSUME a[i].kind = "body"
        PROVE  /\ i >= 3 /\ i + 1 <= n
               /\ a[i - 2].kind = "$" /\ a[i - 1].kind = "{" /\ a[i + 1].kind = "}"
    <3>1. /\ i >= 3 /\ i # n
        BY <1>10, <2>2, <2>3
    <3>2. i - 2 \in 1 .. n /\ i - 1 \in 1 .. n /\ i + 1 \in 1 .. n /\ i + 1 <= n
        BY <1>1, <3>1
    <3>3. u[i - 2].kind = "$" /\ u[i - 1].kind = "{" /\ u[i + 1].kind = "}"
        BY <1>7, <2>2, <2>3
    <3> QED
        BY <1>4, <3>1, <3>2, <3>3
  <2>4. ASSUME a[i].kind = "{" PROVE i + 1 <= n /\ a[i + 1].kind = "body"
    <3>1. i + 1 <= n + m /\ u[i + 1].kind = "body"
        BY <1>7, <2>2, <2>4
    <3>2. i + 1 \in 1 .. n + m
        BY <1>1, <3>1
    <3>3. (i + 1) - 1 # n
        BY <1>10, <3>1, <3>2
    <3>4. i + 1 \in 1 .. n /\ i + 1 <= n
        BY <1>1, <3>3
    <3> QED
        BY <1>4, <3>1, <3>4
  <2>5. ASSUME a[i].kind = "$" PROVE i + 2 <= n /\ a[i + 2].kind = "body"
    <3>1. i + 2 <= n + m /\ u[i + 2].kind = "body"
        BY <1>7, <2>2, <2>5
    <3>2. i + 2 \in 1 .. n + m
        BY <1>1, <3>1
    <3>3. (i + 2) - 1 # n /\ (i + 2) - 2 # n
        BY <1>10, <3>1, <3>2
    <3>4. i + 2 \in 1 .. n /\ i + 2 <= n
        BY <1>1, <3>3
    <3> QED
        BY <1>4, <3>1, <3>4
  <2>6. ASSUME a[i].kind = "}" PROVE i >= 2 /\ a[i - 1].kind = "body"
    <3>1. i >= 2 /\ u[i - 1].kind = "body"
        BY <1>7, <2>2, <2>6
    <3>2. i - 1 \in 1 .. n
        BY <1>1, <3>1
    <3> QED
        BY <1>4, <3>1, <3>2
  <2> QED
      BY <2>3, <2>4, <2>5, <2>6
<1>12. Whole(b)
  <2>1. SUFFICES ASSUME NEW i \in 1 .. m
                 PROVE  /\ b[i].kind = "body" =>
                              /\ i >= 3 /\ i + 1 <= m
                              /\ b[i - 2].kind = "$" /\ b[i - 1].kind = "{" /\ b[i + 1].kind = "}"
                        /\ b[i].kind = "{" => i + 1 <= m /\ b[i + 1].kind = "body"
                        /\ b[i].kind = "$" => i + 2 <= m /\ b[i + 2].kind = "body"
                        /\ b[i].kind = "}" => i >= 2 /\ b[i - 1].kind = "body"
      BY Zenon DEF Whole, m
  <2> DEFINE k == n + i
  <2>2. k \in 1 .. n + m /\ k - n = i /\ k \in Int /\ i \in Int
      BY <1>1
  <2>7. u[k] = b[i]
      BY <1>5
  <2> HIDE DEF k
  <2>8. \A j \in 1 .. m, d \in Int : j = i + d => u[k + d] = b[j]
    <3>1. TAKE j \in 1 .. m, d \in Int
    <3>2. j = i + d => k + d = n + j
        BY <1>1, <2>2
    <3> QED
        BY <1>5, <3>2
  <2>3. ASSUME b[i].kind = "body"
        PROVE  /\ i >= 3 /\ i + 1 <= m
               /\ b[i - 2].kind = "$" /\ b[i - 1].kind = "{" /\ b[i + 1].kind = "}"
    <3>1. k # n + 1 /\ k - 1 # n /\ k - 2 # n /\ k + 1 <= n + m
        BY <1>10, <2>2, <2>3, <2>7
    <3>2. i >= 3 /\ i + 1 <= m
        BY <1>1, <2>2, <3>1
    <3>3. i - 2 \in 1 .. m /\ i - 1 \in 1 .. m /\ i + 1 \in 1 .. m
        BY <1>1, <3>2
    <3>4. u[k - 2].kind = "$" /\ u[k - 1].kind = "{" /\ u[k + 1].kind = "}"
        BY <1>7, <2>2, <2>3, <2>7
    <3>5. /\ i - 2 = i + (-2) /\ i - 1 = i + (-1) /\ k - 2 = k + (-2) /\ k - 1 = k + (-1)
          /\ -2 \in Int /\ -1 \in Int /\ 1 \in Int
        BY <2>2
    <3>6. u[k - 2] = b[i - 2] /\ u[k - 1] = b[i - 1] /\ u[k + 1] = b[i + 1]
        BY <2>8, <3>3, <3>5
    <3> QED
        BY <3>2, <3>4, <3>6
  <2>4. ASSUME b[i].kind = "{" PROVE i + 1 <= m /\ b[i + 1].kind = "body"
    <3>1. k + 1 <= n + m /\ u[k + 1].kind = "body"
        BY <1>7, <2>2, <2>4, <2>7
    <3>2. i + 1 \in 1 .. m /\ i + 1 <= m
        BY <1>1, <2>2, <3>1
    <3>3. u[k + 1] = b[i + 1]
        BY <2>8, <3>2
    <3> QED
        BY <3>1, <3>2, <3>3
  <2>5. ASSUME b[i].kind = "$" PROVE i + 2 <= m /\ b[i + 2].kind = "body"
    <3>1. k + 2 <= n + m /\ u[k + 2].kind = "body"
        BY <1>7, <2>2, <2>5, <2>7
    <3>2. i + 2 \in 1 .. m /\ i + 2 <= m
        BY <1>1, <2>2, <3>1
    <3>3. u[k + 2] = b[i + 2]
        BY <2>8, <3>2
    <3> QED
        BY <3>1, <3>2, <3>3
  <2>6. ASSUME b[i].kind = "}" PROVE i >= 2 /\ b[i - 1].kind = "body"
    <3>1. k >= 2 /\ u[k - 1].kind = "body"
        BY <1>7, <2>2, <2>6, <2>7
    <3>2. k - 1 \in 1 .. n + m
        BY <1>1, <2>2, <3>1
    <3>3. k - 1 # n
        BY <1>10, <3>1, <3>2
    <3>4. i >= 2 /\ i - 1 \in 1 .. m
        BY <1>1, <2>2, <3>3
    <3>5. i - 1 = i + (-1) /\ k - 1 = k + (-1) /\ -1 \in Int
        BY <2>2
    <3>6. u[k - 1] = b[i - 1]
        BY <2>8, <3>4, <3>5
    <3> QED
        BY <3>1, <3>4, <3>6
  <2> QED
      BY <2>3, <2>4, <2>5, <2>6
<1> QED
    BY <1>11, <1>12
\* Two texts with whole placeholders make one.
LEMMA WholeJoin ==
    ASSUME NEW S, NEW a \in Seq(S), NEW b \in Seq(S), Whole(a), Whole(b)
    PROVE  Whole(a \o b)
<1> DEFINE u == a \o b
           n == Len(a)
           m == Len(b)
<1>1. n \in Nat /\ m \in Nat
    BY LenProperties
<1>2. Len(u) = n + m /\ \A i \in 1 .. n + m : u[i] = IF i <= n THEN a[i] ELSE b[i - n]
    BY ConcatProperties
<1>3. ASSUME NEW i \in 1 .. n
      PROVE  /\ a[i].kind = "body" =>
                    /\ i >= 3 /\ i + 1 <= n
                    /\ a[i - 2].kind = "$" /\ a[i - 1].kind = "{" /\ a[i + 1].kind = "}"
             /\ a[i].kind = "{" => i + 1 <= n /\ a[i + 1].kind = "body"
             /\ a[i].kind = "$" => i + 2 <= n /\ a[i + 2].kind = "body"
             /\ a[i].kind = "}" => i >= 2 /\ a[i - 1].kind = "body"
    BY Zenon DEF Whole, n
<1>4. ASSUME NEW i \in 1 .. m
      PROVE  /\ b[i].kind = "body" =>
                    /\ i >= 3 /\ i + 1 <= m
                    /\ b[i - 2].kind = "$" /\ b[i - 1].kind = "{" /\ b[i + 1].kind = "}"
             /\ b[i].kind = "{" => i + 1 <= m /\ b[i + 1].kind = "body"
             /\ b[i].kind = "$" => i + 2 <= m /\ b[i + 2].kind = "body"
             /\ b[i].kind = "}" => i >= 2 /\ b[i - 1].kind = "body"
    BY Zenon DEF Whole, m
<1> HIDE DEF u, n, m
<1>5. \A i \in 1 .. n : u[i] = a[i]
  <2>1. TAKE i \in 1 .. n
  <2>2. i \in 1 .. n + m /\ i <= n
      BY <1>1
  <2> QED
      BY <1>2, <2>2
<1>6. \A i \in 1 .. m, d \in Int : \A k \in Int : k + d = n + i => u[k + d] = b[i]
  <2>1. TAKE i \in 1 .. m, d \in Int
  <2>2. TAKE k \in Int
  <2>3. HAVE k + d = n + i
  <2>4. n + i \in 1 .. n + m /\ ~ (n + i <= n) /\ (n + i) - n = i
      BY <1>1
  <2> QED
      BY <1>2, <2>3, <2>4
<1>7. SUFFICES ASSUME NEW k \in 1 .. n + m
               PROVE  /\ u[k].kind = "body" =>
                            /\ k >= 3 /\ k + 1 <= n + m
                            /\ u[k - 2].kind = "$" /\ u[k - 1].kind = "{" /\ u[k + 1].kind = "}"
                      /\ u[k].kind = "{" => k + 1 <= n + m /\ u[k + 1].kind = "body"
                      /\ u[k].kind = "$" => k + 2 <= n + m /\ u[k + 2].kind = "body"
                      /\ u[k].kind = "}" => k >= 2 /\ u[k - 1].kind = "body"
    BY <1>2, ZenonT(30) DEF Whole, u
<1>8. CASE k <= n
  <2>1. k \in 1 .. n
      BY <1>1, <1>8
  <2>2. u[k] = a[k]
      BY <1>5, <2>1
  <2>3. ASSUME u[k].kind = "body"
        PROVE  /\ k >= 3 /\ k + 1 <= n + m
               /\ u[k - 2].kind = "$" /\ u[k - 1].kind = "{" /\ u[k + 1].kind = "}"
    <3>1. /\ k >= 3 /\ k + 1 <= n
          /\ a[k - 2].kind = "$" /\ a[k - 1].kind = "{" /\ a[k + 1].kind = "}"
        BY <1>3, <2>1, <2>2, <2>3
    <3>2. k >= 3 /\ k + 1 <= n
        BY <3>1
    <3>3. k - 2 \in 1 .. n /\ k - 1 \in 1 .. n /\ k + 1 \in 1 .. n /\ k + 1 <= n + m
        BY <1>1, <3>2
    <3> QED
        BY <1>5, <3>1, <3>3
  <2>4. ASSUME u[k].kind = "{" PROVE k + 1 <= n + m /\ u[k + 1].kind = "body"
    <3>1. k + 1 <= n /\ a[k + 1].kind = "body"
        BY <1>3, <2>1, <2>2, <2>4
    <3>2. k + 1 \in 1 .. n /\ k + 1 <= n + m
        BY <1>1, <3>1
    <3> QED
        BY <1>5, <3>1, <3>2
  <2>5. ASSUME u[k].kind = "$" PROVE k + 2 <= n + m /\ u[k + 2].kind = "body"
    <3>1. k + 2 <= n /\ a[k + 2].kind = "body"
        BY <1>3, <2>1, <2>2, <2>5
    <3>2. k + 2 \in 1 .. n /\ k + 2 <= n + m
        BY <1>1, <3>1
    <3> QED
        BY <1>5, <3>1, <3>2
  <2>6. ASSUME u[k].kind = "}" PROVE k >= 2 /\ u[k - 1].kind = "body"
    <3>1. k >= 2 /\ a[k - 1].kind = "body"
        BY <1>3, <2>1, <2>2, <2>6
    <3>2. k - 1 \in 1 .. n
        BY <1>1, <2>1, <3>1
    <3> QED
        BY <1>5, <3>1, <3>2
  <2> QED
      BY <2>3, <2>4, <2>5, <2>6
<1>9. CASE k > n
  <2> DEFINE i == k - n
  <2>1. i \in 1 .. m /\ k \in Int /\ k + 0 = n + i /\ k + 0 = k /\ 0 \in Int
      BY <1>1, <1>9
  <2>2. u[k] = b[i]
    <3>1. i \in 1 .. m /\ k \in Int /\ k + 0 = n + i /\ k + 0 = k /\ 0 \in Int
        BY <2>1
    <3> HIDE DEF i
    <3>2. u[k + 0] = b[i]
        BY <1>6, <3>1
    <3> QED
        BY <3>1, <3>2
  <2>7. /\ (k + 1) = n + (i + 1) /\ (k + 2) = n + (i + 2)
        /\ k + (-1) = n + (i - 1) /\ k + (-2) = n + (i - 2) /\ k - 1 = k + (-1) /\ k - 2 = k + (-2)
        /\ 1 \in Int /\ 2 \in Int /\ -1 \in Int /\ -2 \in Int
      BY <1>1
  <2>8. \A x \in Int : i + x <= m => k + x <= n + m
      BY <1>1
  <2>9. i <= k
      BY <1>1
  <2> HIDE DEF i
  <2>3. ASSUME u[k].kind = "body"
        PROVE  /\ k >= 3 /\ k + 1 <= n + m
               /\ u[k - 2].kind = "$" /\ u[k - 1].kind = "{" /\ u[k + 1].kind = "}"
    <3>1. /\ i >= 3 /\ i + 1 <= m
          /\ b[i - 2].kind = "$" /\ b[i - 1].kind = "{" /\ b[i + 1].kind = "}"
        BY <1>4, <2>1, <2>2, <2>3
    <3>5. i >= 3 /\ i + 1 <= m
        BY <3>1
    <3>2. i - 2 \in 1 .. m /\ i - 1 \in 1 .. m /\ i + 1 \in 1 .. m
        BY <1>1, <2>1, <3>5
    <3>3. u[k - 2] = b[i - 2] /\ u[k - 1] = b[i - 1] /\ u[k + 1] = b[i + 1]
        BY <1>6, <2>1, <2>7, <3>2, SMTT(30)
    <3>4. k >= 3 /\ k + 1 <= n + m
      <4>1. k >= 3
          BY <1>1, <2>1, <2>9, <3>5
      <4>2. k + 1 <= n + m
          BY <2>8, <3>5
      <4> QED
          BY <4>1, <4>2
    <3> QED
        BY <3>1, <3>3, <3>4
  <2>4. ASSUME u[k].kind = "{" PROVE k + 1 <= n + m /\ u[k + 1].kind = "body"
    <3>1. i + 1 <= m /\ b[i + 1].kind = "body"
        BY <1>4, <2>1, <2>2, <2>4
    <3>2. i + 1 \in 1 .. m /\ k + 1 <= n + m
        BY <1>1, <2>1, <2>8, <3>1
    <3>3. u[k + 1] = b[i + 1]
        BY <1>6, <2>1, <2>7, <3>2
    <3> QED
        BY <3>1, <3>2, <3>3
  <2>5. ASSUME u[k].kind = "$" PROVE k + 2 <= n + m /\ u[k + 2].kind = "body"
    <3>1. i + 2 <= m /\ b[i + 2].kind = "body"
        BY <1>4, <2>1, <2>2, <2>5
    <3>2. i + 2 \in 1 .. m /\ k + 2 <= n + m
        BY <1>1, <2>1, <2>8, <3>1
    <3>3. u[k + 2] = b[i + 2]
        BY <1>6, <2>1, <2>7, <3>2
    <3> QED
        BY <3>1, <3>2, <3>3
  <2>6. ASSUME u[k].kind = "}" PROVE k >= 2 /\ u[k - 1].kind = "body"
    <3>1. i >= 2 /\ b[i - 1].kind = "body"
        BY <1>4, <2>1, <2>2, <2>6
    <3>2. i - 1 \in 1 .. m /\ k >= 2
        BY <1>1, <2>1, <2>9, <3>1
    <3>3. u[k - 1] = b[i - 1]
        BY <1>6, <2>1, <2>7, <3>2
    <3> QED
        BY <3>1, <3>2, <3>3
  <2> QED
      BY <2>3, <2>4, <2>5, <2>6
<1>10. k <= n \/ k > n
    BY <1>1
<1> QED
    BY <1>8, <1>9, <1>10, Zenon
\* A text of the client's is whole and restored to itself.
LEMMA ClientText ==
    ASSUME NEW v \in Seq(Clients)
    PROVE  Whole(v) /\ Parts(v) \in Seq(Seq(Clients)) /\ FlattenSeq(Parts(v)) = v
<1>1. Len(v) \in Nat /\ DOMAIN v = 1 .. Len(v)
    BY LenProperties
<1>2. ASSUME NEW i \in 1 .. Len(v) PROVE v[i] \in Clients /\ v[i].kind \notin MarkKinds
  <2>1. v[i] \in Clients
      BY ElementOfSeq
  <2> QED
      BY <2>1, ClientFacts
<1>3. ASSUME NEW i \in 1 .. Len(v)
      PROVE  v[i].kind # "body" /\ v[i].kind # "{" /\ v[i].kind # "$" /\ v[i].kind # "}"
    BY <1>2 DEF MarkKinds
<1>4. Whole(v)
    BY <1>3, Zenon DEF Whole
<1>5. ASSUME NEW i \in 1 .. Len(v) PROVE Becomes(v[i]) = <<v[i]>>
    BY <1>3 DEF Becomes
<1>6. Parts(v) = [i \in DOMAIN v |-> <<v[i]>>]
    BY <1>1, <1>5 DEF Parts
<1>7. Parts(v) \in Seq(Seq(Clients))
  <2>1. \A i \in 1 .. Len(v) : <<v[i]>> \in Seq(Clients)
      BY <1>2
  <2> QED
      BY <1>1, <1>6, <2>1
<1> QED
    BY <1>4, <1>6, <1>7, FlattenSingles

\* All bodies were made of the client's text alone.
FlatIn(M) == \A b \in M : \A i \in DOMAIN b.value : b.value[i].at > 0

\* What a text is restored to is the client's, part by part.
LEMMA PartsType ==
    ASSUME NEW M, BodiesFit(M), FlatIn(M), NEW u \in Seq(Elements(M))
    PROVE  Parts(u) \in Seq(Seq(Clients)) /\ Len(Parts(u)) = Len(u)
<1>1. Len(u) \in Nat /\ DOMAIN u = 1 .. Len(u)
    BY LenProperties
<1>2. ASSUME NEW x \in Elements(M) PROVE Becomes(x) \in Seq(Clients)
  <2>1. CASE x.kind = "body"
    <3>1. x \in M
        BY <2>1, ElementFacts
    <3>2. x.value \in Seq(Clients)
        BY <3>1 DEF BodiesFit, FlatIn
    <3> QED
        BY <2>1, <3>2 DEF Becomes
  <2>2. CASE x.kind \in {"$", "{", "}"}
    <3>1. Becomes(x) = <<>>
        BY <2>2 DEF Becomes
    <3> QED
        BY <3>1, EmptySeq
  <2>3. CASE x.kind # "body" /\ x.kind \notin {"$", "{", "}"}
    <3>1. x \in Clients
      <4>1. x \notin Marks
        <5>1. SUFFICES ASSUME NEW k \in {"$", "{", "}"}, x = Plain(k, 0) PROVE FALSE
            BY DEF Marks
        <5>2. x.kind = k
            BY <5>1 DEF Plain
        <5> QED
            BY <2>3, <5>2
      <4>2. x \notin M
          BY <2>3 DEF BodiesFit
      <4> QED
          BY <4>1, <4>2 DEF Elements
    <3>2. Becomes(x) = <<x>>
        BY <2>3 DEF Becomes
    <3> QED
        BY <3>1, <3>2
  <2> QED
      BY <2>1, <2>2, <2>3
<1>3. \A i \in 1 .. Len(u) : Becomes(u[i]) \in Seq(Clients)
    BY <1>2, ElementOfSeq
<1> QED
    BY <1>1, <1>3 DEF Parts

LEMMA PartsConcat ==
    ASSUME NEW S, NEW a \in Seq(S), NEW b \in Seq(S)
    PROVE  Parts(a \o b) = Parts(a) \o Parts(b)
<1> DEFINE Q == {Becomes(x) : x \in S}
<1>1. /\ Len(a) \in Nat /\ DOMAIN a = 1 .. Len(a) /\ \A i \in 1 .. Len(a) : a[i] \in S
      /\ Len(b) \in Nat /\ DOMAIN b = 1 .. Len(b) /\ \A i \in 1 .. Len(b) : b[i] \in S
    BY LenProperties, ElementOfSeq
<1>2. /\ a \o b \in Seq(S) /\ Len(a \o b) = Len(a) + Len(b)
      /\ \A i \in 1 .. Len(a) + Len(b) : (a \o b)[i] = IF i <= Len(a) THEN a[i] ELSE b[i - Len(a)]
    BY ConcatProperties
<1>3. ASSUME NEW c \in Seq(S)
      PROVE  /\ Parts(c) \in Seq(Q) /\ Len(Parts(c)) = Len(c)
             /\ \A i \in 1 .. Len(c) : Parts(c)[i] = Becomes(c[i])
  <2>1. Len(c) \in Nat /\ DOMAIN c = 1 .. Len(c) /\ \A i \in 1 .. Len(c) : c[i] \in S
      BY LenProperties, ElementOfSeq
  <2>2. \A i \in 1 .. Len(c) : Becomes(c[i]) \in Q
      BY <2>1
  <2> HIDE DEF Q
  <2> QED
      BY <2>1, <2>2 DEF Parts
<1> HIDE DEF Q
<1> DEFINE u == a \o b
           x == Parts(a)
           y == Parts(b)
<1>4. /\ x \in Seq(Q) /\ y \in Seq(Q) /\ Len(x) = Len(a) /\ Len(y) = Len(b)
      /\ \A i \in 1 .. Len(a) : x[i] = Becomes(a[i])
      /\ \A i \in 1 .. Len(b) : y[i] = Becomes(b[i])
    BY <1>3
<1>5. /\ Parts(u) \in Seq(Q) /\ Len(Parts(u)) = Len(a) + Len(b)
      /\ \A i \in 1 .. Len(a) + Len(b) : Parts(u)[i] = Becomes(u[i])
    BY <1>2, <1>3
<1>6. \A i \in 1 .. Len(a) + Len(b) : u[i] = IF i <= Len(a) THEN a[i] ELSE b[i - Len(a)]
    BY <1>2
<1> HIDE DEF u, x, y
<1>7. /\ x \o y \in Seq(Q) /\ Len(x \o y) = Len(a) + Len(b)
      /\ \A i \in 1 .. Len(a) + Len(b) : (x \o y)[i] = IF i <= Len(a) THEN x[i] ELSE y[i - Len(a)]
  <2>1. x \in Seq(Q) /\ y \in Seq(Q)
      BY <1>4
  <2>2. /\ x \o y \in Seq(Q) /\ Len(x \o y) = Len(x) + Len(y)
        /\ \A i \in 1 .. Len(x) + Len(y) : (x \o y)[i] = IF i <= Len(x) THEN x[i] ELSE y[i - Len(x)]
      BY <2>1, ConcatProperties
  <2>3. Len(x) = Len(a) /\ Len(y) = Len(b)
      BY <1>4
  <2> QED
      BY <2>2, <2>3, Zenon
<1>8. \A i \in 1 .. Len(a) + Len(b) : (x \o y)[i] = Parts(u)[i]
  <2>1. TAKE i \in 1 .. Len(a) + Len(b)
  <2>2. CASE i <= Len(a)
    <3>1. i \in 1 .. Len(a)
        BY <1>1, <2>2
    <3> QED
        BY <1>4, <1>5, <1>6, <1>7, <2>2, <3>1
  <2>3. CASE ~ (i <= Len(a))
    <3>1. i - Len(a) \in 1 .. Len(b)
        BY <1>1, <2>3
    <3> QED
        BY <1>4, <1>5, <1>6, <1>7, <2>3, <3>1
  <2> QED
      BY <2>2, <2>3
<1>9. x \o y = Parts(u)
    BY <1>5, <1>7, <1>8, SeqEqual
<1> QED
    BY <1>9 DEF u, x, y

\* A placeholder is whole and restored to the value it was made of.
LEMMA TokenText ==
    ASSUME NEW type, NEW v \in Seq(Clients)
    PROVE  /\ Whole(GeneratePlaceholder(type, v))
           /\ FlattenSeq(Parts(GeneratePlaceholder(type, v))) = v
<1> DEFINE g == GeneratePlaceholder(type, v)
<1>1. /\ Len(g) = 4 /\ DOMAIN g = 1 .. 4
      /\ g[1].kind = "$" /\ g[2].kind = "{" /\ g[3].kind = "body" /\ g[4].kind = "}"
      /\ g[3].value = v
  <2>1. PICK x1, x2, x3, x4 :
           x1 = Plain("$", 0) /\ x2 = Plain("{", 0) /\ x3 = Body(type, v) /\ x4 = Plain("}", 0)
      OBVIOUS
  <2>2. g = <<x1, x2, x3, x4>>
      BY <2>1, Zenon DEF GeneratePlaceholder
  <2>3. x1.kind = "$" /\ x2.kind = "{" /\ x4.kind = "}"
      BY <2>1 DEF Plain
  <2>4. x3.kind = "body" /\ x3.value = v
      BY <2>1 DEF Body
  <2> HIDE DEF g
  <2>5. Len(g) = 4 /\ DOMAIN g = 1 .. 4 /\ g[1] = x1 /\ g[2] = x2 /\ g[3] = x3 /\ g[4] = x4
      BY <2>2
  <2> QED
      BY <2>3, <2>4, <2>5
<1> HIDE DEF g
<1>2. Whole(g)
  <2>1. SUFFICES ASSUME NEW i \in 1 .. 4
                 PROVE  /\ g[i].kind = "body" =>
                              /\ i >= 3 /\ i + 1 <= 4
                              /\ g[i - 2].kind = "$" /\ g[i - 1].kind = "{" /\ g[i + 1].kind = "}"
                        /\ g[i].kind = "{" => i + 1 <= 4 /\ g[i + 1].kind = "body"
                        /\ g[i].kind = "$" => i + 2 <= 4 /\ g[i + 2].kind = "body"
                        /\ g[i].kind = "}" => i >= 2 /\ g[i - 1].kind = "body"
      BY <1>1, Zenon DEF Whole
  <2>2. CASE i = 1
    <3>1. i + 2 <= 4 /\ i + 2 = 3
        BY <2>2
    <3>2. g[i].kind = "$"
        BY <1>1, <2>2, Zenon
    <3> QED
        BY <1>1, <3>1, <3>2
  <2>3. CASE i = 2
    <3>1. i + 1 <= 4 /\ i + 1 = 3
        BY <2>3
    <3>2. g[i].kind = "{"
        BY <1>1, <2>3, Zenon
    <3> QED
        BY <1>1, <3>1, <3>2
  <2>4. CASE i = 3
    <3>1. i >= 3 /\ i + 1 <= 4 /\ i - 2 = 1 /\ i - 1 = 2 /\ i + 1 = 4
        BY <2>4
    <3>2. g[i].kind = "body"
        BY <1>1, <2>4, Zenon
    <3> QED
        BY <1>1, <3>1, <3>2
  <2>5. CASE i = 4
    <3>1. i >= 2 /\ i - 1 = 3
        BY <2>5
    <3>2. g[i].kind = "}"
        BY <1>1, <2>5, Zenon
    <3> QED
        BY <1>1, <3>1, <3>2
  <2>6. i = 1 \/ i = 2 \/ i = 3 \/ i = 4
      OBVIOUS
  <2> QED
      BY <2>2, <2>3, <2>4, <2>5, <2>6, Zenon
<1>3. Parts(g) = <<<<>>, <<>>, v, <<>>>>
  <2>1. Becomes(g[1]) = <<>> /\ Becomes(g[2]) = <<>> /\ Becomes(g[3]) = v /\ Becomes(g[4]) = <<>>
      BY <1>1 DEF Becomes
  <2>2. \A i \in 1 .. 4 : i = 1 \/ i = 2 \/ i = 3 \/ i = 4
      OBVIOUS
  <2> DEFINE e == <<>>
             w == <<e, e, v, e>>
             q == Parts(g)
  <2>3. w = [i \in 1 .. 4 |-> w[i]] /\ w[1] = e /\ w[2] = e /\ w[3] = v /\ w[4] = e
      OBVIOUS
  <2>4. q = [i \in 1 .. 4 |-> Becomes(g[i])]
      BY <1>1, Zenon DEF Parts
  <2> HIDE DEF w, q
  <2>5. \A i \in 1 .. 4 : w[i] = Becomes(g[i])
      BY <2>1, <2>2, <2>3
  <2>6. q = w
      BY <2>3, <2>4, <2>5
  <2> QED
      BY <2>6 DEF w, q
<1> DEFINE two == <<<<>>, <<>>>>
           three == <<<<>>, <<>>, v>>
           none == <<>>
<1>4. /\ none \in Seq(Clients) /\ <<none>> \in Seq(Seq(Clients))
      /\ two \in Seq(Seq(Clients)) /\ three \in Seq(Seq(Clients))
    BY EmptySeq
<1>5. /\ <<none>> = Append(<<>>, none) /\ two = Append(<<none>>, none) /\ three = Append(two, v)
      /\ <<<<>>, <<>>, v, <<>>>> = Append(three, none) /\ <<>> \in Seq(Seq(Clients))
    OBVIOUS
<1> HIDE DEF two, three
<1>6. FlattenSeq(<<none>>) = <<>>
  <2>1. FlattenSeq(Append(<<>>, none)) = FlattenSeq(<<>>) \o none
      BY <1>4, <1>5, FlattenAppend
  <2>2. FlattenSeq(<<>>) \o none = <<>>
      BY FlattenEmpty
  <2> QED
      BY <1>5, <2>1, <2>2, Zenon
<1>7. FlattenSeq(two) = <<>>
  <2>1. FlattenSeq(Append(<<none>>, none)) = FlattenSeq(<<none>>) \o none
      BY <1>4, FlattenAppend
  <2>2. FlattenSeq(<<none>>) \o none = <<>>
      BY <1>6
  <2> QED
      BY <1>5, <2>1, <2>2, Zenon
<1>8. FlattenSeq(three) = v
  <2>1. FlattenSeq(three) = <<>> \o v
      BY <1>4, <1>5, <1>7, FlattenAppend
  <2> QED
      BY <2>1
<1>9. FlattenSeq(Append(three, none)) = v
  <2>1. FlattenSeq(Append(three, none)) = v \o <<>>
      BY <1>4, <1>8, FlattenAppend
  <2> QED
      BY <2>1
<1> QED
    BY <1>2, <1>3, <1>5, <1>9 DEF g
----------------------------------------------------------------------------
(* One match is replaced.                                                  *)

\* A text of the client's can be cut out of a text with whole placeholders.
LEMMA MiddleOut ==
    ASSUME NEW S, NEW a \in Seq(S), NEW v \in Seq(S), NEW c \in Seq(S),
           v \in Seq(Clients), Len(v) # 0, Whole((a \o v) \o c)
    PROVE  Whole(a) /\ Whole(c)
<1> DEFINE w == v \o c
<1>1. Len(v) \in Nat /\ Len(v) \in 1 .. Len(v) /\ 1 \in 1 .. Len(v)
    BY LenProperties
<1>2. v[1].kind \notin MarkKinds /\ v[Len(v)].kind \notin MarkKinds
  <2>1. v[1] \in Clients /\ v[Len(v)] \in Clients
      BY <1>1, ElementOfSeq
  <2> QED
      BY <2>1, ClientFacts
<1>3. ASSUME NEW e \in Seq(S), Len(e) = 0 PROVE Whole(e)
  <2>1. 1 .. Len(e) = {}
      BY <1>3
  <2> QED
      BY <2>1, Zenon DEF Whole
<1>4. w \in Seq(S) /\ Len(w) = Len(v) + Len(c) /\ w[1] = v[1] /\ Len(c) \in Nat
    BY <1>1, ConcatProperties, LenProperties
<1>5. Whole(a \o w)
  <2>1. (a \o v) \o c = a \o w
      BY ConcatAssociative
  <2> HIDE DEF w
  <2> QED
      BY <2>1
<1> HIDE DEF w
<1>6. Whole(a) /\ Whole(w)
  <2>1. CASE Len(a) = 0
    <3>1. a = <<>>
        BY <2>1, EmptySeq
    <3>2. a \o w = w
        BY <1>4, <3>1, ConcatEmptySeq
    <3> QED
        BY <1>3, <1>5, <2>1, <3>2
  <2>2. CASE Len(a) # 0
    <3>1. Len(w) # 0
        BY <1>1, <1>4
    <3> QED
        BY <1>2, <1>4, <1>5, <2>2, <3>1, WholeStart
  <2> QED
      BY <2>1, <2>2
<1>7. Whole(c)
  <2>1. CASE Len(c) = 0
      BY <1>3, <2>1
  <2>2. CASE Len(c) # 0
      BY <1>2, <1>6, <2>2, WholeStart DEF w
  <2> QED
      BY <2>1, <2>2
<1> QED
    BY <1>6, <1>7

\* What a text is restored to does not depend on how it is divided.
LEMMA RestoredConcat ==
    ASSUME NEW M, BodiesFit(M), FlatIn(M), NEW x \in Seq(Elements(M)), NEW y \in Seq(Elements(M))
    PROVE  FlattenSeq(Parts(x \o y)) = FlattenSeq(Parts(x)) \o FlattenSeq(Parts(y))
<1>1. Parts(x) \in Seq(Seq(Clients)) /\ Parts(y) \in Seq(Seq(Clients))
    BY PartsType
<1>2. Parts(x \o y) = Parts(x) \o Parts(y)
    BY PartsConcat
<1> QED
    BY <1>1, <1>2, FlattenConcat

\* A part of a text may be replaced by what is restored to it.
LEMMA MiddleRestored ==
    ASSUME NEW M, BodiesFit(M), FlatIn(M), NEW a \in Seq(Elements(M)), NEW c \in Seq(Elements(M)),
           NEW v \in Seq(Elements(M)), NEW g \in Seq(Elements(M)),
           FlattenSeq(Parts(g)) = FlattenSeq(Parts(v))
    PROVE  FlattenSeq(Parts((a \o g) \o c)) = FlattenSeq(Parts((a \o v) \o c))
<1>1. a \o g \in Seq(Elements(M)) /\ a \o v \in Seq(Elements(M))
    BY ConcatProperties
<1>2. /\ FlattenSeq(Parts((a \o g) \o c)) = FlattenSeq(Parts(a \o g)) \o FlattenSeq(Parts(c))
      /\ FlattenSeq(Parts((a \o v) \o c)) = FlattenSeq(Parts(a \o v)) \o FlattenSeq(Parts(c))
    BY <1>1, RestoredConcat
<1>3. /\ FlattenSeq(Parts(a \o g)) = FlattenSeq(Parts(a)) \o FlattenSeq(Parts(g))
      /\ FlattenSeq(Parts(a \o v)) = FlattenSeq(Parts(a)) \o FlattenSeq(Parts(v))
    BY RestoredConcat
<1> QED
    BY <1>2, <1>3

\* The text is made of the client's lexemes and of placeholders that were passed to
\* addPlaceholder.
Fits(r) == BodiesFit(r.made) /\ r.text \in Seq(Elements(r.made))

\* It is restored to t, unless a placeholder was made of another.
Restores(r, t) == FlatIn(r.made) => Whole(r.text) /\ FlattenSeq(Parts(r.text)) = t

\* A new body, and a text with it, fit.
LEMMA NewBody ==
    ASSUME NEW M, BodiesFit(M), NEW v \in Seq(Elements(M)), NEW type
    PROVE  /\ BodiesFit(M \cup {Body(type, v)})
           /\ GeneratePlaceholder(type, v) \in Seq(Elements(M \cup {Body(type, v)}))
           /\ Seq(Elements(M)) \subseteq Seq(Elements(M \cup {Body(type, v)}))
           /\ FlatIn(M \cup {Body(type, v)}) => FlatIn(M) /\ v \in Seq(Clients)
<1> DEFINE b == Body(type, v)
           N == M \cup {b}
<1>1. b.kind = "body" /\ b.at = 0 /\ b.value = v
    BY DEF Body
<1>2. (\A i \in DOMAIN v : v[i].at > 0) => v \in Seq(Clients)
  <2>1. SUFFICES ASSUME \A i \in DOMAIN v : v[i].at > 0 PROVE v \in Seq(Clients)
      OBVIOUS
  <2>2. Len(v) \in Nat /\ DOMAIN v = 1 .. Len(v) /\ \A i \in 1 .. Len(v) : v[i] \in Elements(M)
      BY LenProperties, ElementOfSeq
  <2>3. \A i \in 1 .. Len(v) : v[i] \in Clients
      BY <2>1, <2>2, ElementFacts
  <2>4. v = [i \in 1 .. Len(v) |-> v[i]]
      BY <2>2
  <2> QED
      BY <2>2, <2>3, <2>4
<1> HIDE DEF b
<1>3. BodiesFit(N)
    BY <1>1, <1>2 DEF BodiesFit
<1>4. Elements(M) \subseteq Elements(N)
    BY DEF Elements
<1>5. GeneratePlaceholder(type, v) \in Seq(Elements(N))
  <2>1. GeneratePlaceholder(type, v) = <<Plain("$", 0), Plain("{", 0), b, Plain("}", 0)>>
      BY DEF GeneratePlaceholder, b
  <2>2. Plain("$", 0) \in Marks /\ Plain("{", 0) \in Marks /\ Plain("}", 0) \in Marks
      BY DEF Marks
  <2>3. Plain("$", 0) \in Elements(N) /\ Plain("{", 0) \in Elements(N) /\ Plain("}", 0) \in Elements(N)
      BY <2>2 DEF Elements
  <2>4. b \in Elements(N)
      BY DEF Elements
  <2>5. ASSUME NEW E, NEW x1 \in E, NEW x2 \in E, NEW x3 \in E, NEW x4 \in E
        PROVE  <<x1, x2, x3, x4>> \in Seq(E)
      OBVIOUS
  <2>6. <<Plain("$", 0), Plain("{", 0), b, Plain("}", 0)>> \in Seq(Elements(N))
      BY <2>3, <2>4, <2>5, Zenon
  <2> QED
      BY <2>1, <2>6, Zenon
<1>6. Seq(Elements(M)) \subseteq Seq(Elements(N))
    BY <1>4, SeqMonotonic
<1>7. FlatIn(N) => FlatIn(M) /\ v \in Seq(Clients)
    BY <1>1, <1>2 DEF FlatIn
<1> QED
    BY <1>3, <1>5, <1>6, <1>7 DEF b

LEMMA ReplacedFits ==
    ASSUME NEW p, NEW t, NEW r, NEW m, Fits(r), Restores(r, t),
           m.from \in 1 .. Len(r.text), m.to \in m.from .. Len(r.text)
    PROVE  /\ Fits(Replaced(p, r, m)) /\ Restores(Replaced(p, r, m), t)
           /\ Replaced(p, r, m).text # r.text => Len(Replaced(p, r, m).text) >= m.from - 1
<1>1. CASE Skips(p, r.text, m)
    BY <1>1 DEF Replaced
<1>2. CASE ~ Skips(p, r.text, m)
  <2> DEFINE u == r.text
             M == r.made
             a == SubSeq(u, 1, m.from - 1)
             v == SubSeq(u, m.from, m.to)
             c == SubSeq(u, m.to + 1, Len(u))
             g == GeneratePlaceholder(TypeOf(p), v)
             N == M \cup {Body(TypeOf(p), v)}
             q == Replaced(p, r, m)
  <2>1. q.text = (a \o g) \o c /\ q.made = N
    <3>1. q = [text |-> a \o g \o c, made |-> N]
        BY <1>2 DEF Replaced
    <3> HIDE DEF q
    <3> QED
        BY <3>1
  <2>2. u \in Seq(Elements(M)) /\ BodiesFit(M)
      BY DEF Fits
  <2>3. /\ Len(u) \in Nat /\ m.from \in 1 .. Len(u) /\ m.to \in m.from .. Len(u)
      BY <2>2, LenProperties
  <2>4. /\ a \in Seq(Elements(M)) /\ Len(a) = m.from - 1
        /\ v \in Seq(Elements(M)) /\ Len(v) = m.to - m.from + 1
        /\ c \in Seq(Elements(M))
    <3>1. /\ 1 \in 1 .. Len(u) + 1 /\ m.from - 1 \in (1 - 1) .. Len(u) /\ (m.from - 1) - 1 + 1 = m.from - 1
          /\ m.from \in 1 .. Len(u) + 1 /\ m.to \in (m.from - 1) .. Len(u)
          /\ m.to + 1 \in 1 .. Len(u) + 1 /\ Len(u) \in ((m.to + 1) - 1) .. Len(u)
        BY <2>3
    <3>2. a \in Seq(Elements(M)) /\ Len(a) = (m.from - 1) - 1 + 1
        BY <2>2, <3>1, Part
    <3>3. v \in Seq(Elements(M)) /\ Len(v) = m.to - m.from + 1
        BY <2>2, <3>1, Part
    <3>4. c \in Seq(Elements(M))
        BY <2>2, <3>1, Part
    <3> QED
        BY <3>1, <3>2, <3>3, <3>4
  <2>5. (a \o v) \o c = u
    <3>1. SubSeq(u, 1, m.to) = a \o v
      <4>1. /\ 1 \in 1 .. Len(u) + 1 /\ m.from - 1 \in (1 - 1) .. Len(u) /\ m.to \in (m.from - 1) .. Len(u)
            /\ (m.from - 1) + 1 = m.from
          BY <2>3
      <4> QED
          BY <2>2, <4>1, ConcatAdjacentSubSeq
    <3>2. SubSeq(u, 1, m.to) \o c = SubSeq(u, 1, Len(u))
      <4>1. 1 \in 1 .. Len(u) + 1 /\ m.to \in (1 - 1) .. Len(u) /\ Len(u) \in m.to .. Len(u)
          BY <2>3
      <4> QED
          BY <2>2, <4>1, ConcatAdjacentSubSeq
    <3>3. SubSeq(u, 1, Len(u)) = u
        BY <2>2, SubSeqFull
    <3> QED
        BY <3>1, <3>2, <3>3
  <2>6. Restores(r, t) <=> (FlatIn(M) => Whole(u) /\ FlattenSeq(Parts(u)) = t)
      BY DEF Restores
  <2> HIDE DEF u, M, a, v, c, q
  <2>7. /\ BodiesFit(N) /\ g \in Seq(Elements(N)) /\ Seq(Elements(M)) \subseteq Seq(Elements(N))
        /\ FlatIn(N) => FlatIn(M) /\ v \in Seq(Clients)
      BY <2>2, <2>4, NewBody
  <2>8. v \in Seq(Clients) => Whole(g) /\ FlattenSeq(Parts(g)) = v /\ FlattenSeq(Parts(v)) = v
      BY TokenText, ClientText
  <2> HIDE DEF g, N
  <2>9. a \in Seq(Elements(N)) /\ v \in Seq(Elements(N)) /\ c \in Seq(Elements(N))
      BY <2>4, <2>7
  <2>10. (a \o g) \o c \in Seq(Elements(N)) /\ Len((a \o g) \o c) >= m.from - 1
    <3>1. a \o g \in Seq(Elements(N)) /\ Len(a \o g) = Len(a) + Len(g)
        BY <2>7, <2>9, ConcatProperties
    <3>2. (a \o g) \o c \in Seq(Elements(N)) /\ Len((a \o g) \o c) = Len(a \o g) + Len(c)
        BY <2>9, <3>1, ConcatProperties
    <3>3. Len(g) \in Nat /\ Len(c) \in Nat
        BY <2>7, <2>9, LenProperties
    <3> QED
        BY <2>3, <2>4, <3>1, <3>2, <3>3
  <2>11. ASSUME FlatIn(N) PROVE Whole((a \o g) \o c) /\ FlattenSeq(Parts((a \o g) \o c)) = t
    <3>1. Whole(u) /\ FlattenSeq(Parts(u)) = t /\ v \in Seq(Clients)
        BY <2>6, <2>7, <2>11
    <3>2. Whole(g) /\ FlattenSeq(Parts(g)) = FlattenSeq(Parts(v))
        BY <2>8, <3>1
    <3>3. Len(v) # 0
        BY <2>3, <2>4
    <3>4. Whole(a) /\ Whole(c)
        BY <2>4, <2>5, <3>1, <3>3, MiddleOut
    <3>5. Whole(a \o g)
        BY <2>7, <2>9, <3>2, <3>4, WholeJoin
    <3>6. a \o g \in Seq(Elements(N))
        BY <2>7, <2>9, ConcatProperties
    <3>7. Whole((a \o g) \o c)
        BY <2>9, <3>4, <3>5, <3>6, WholeJoin
    <3>8. FlattenSeq(Parts((a \o g) \o c)) = FlattenSeq(Parts((a \o v) \o c))
        BY <2>7, <2>9, <2>11, <3>2, MiddleRestored
    <3> QED
        BY <2>5, <3>1, <3>7, <3>8
  <2>12. Fits(q)
      BY <2>1, <2>7, <2>10 DEF Fits
  <2>13. Restores(q, t)
      BY <2>1, <2>11 DEF Restores
  <2> QED
      BY <2>1, <2>10, <2>12, <2>13 DEF q
<1> QED
    BY <1>1, <1>2
----------------------------------------------------------------------------
(* All matches of a pattern are replaced, from back to front.              *)

\* What has become of the text when the matches that begin at i or behind it are
\* replaced: those in front of them still lie in it.
Good(r, i, t, matches, w) ==
    /\ Fits(r)
    /\ Restores(r, w)
    /\ \A c \in 1 .. Len(t) : (\A y \in matches : y.from >= i => c < y.from) => c <= Len(r.text)

LEMMA OneBack ==
    ASSUME NEW S, NEW t \in Seq(S), NEW matches, Separate(matches, t), NEW p, NEW w, NEW r,
           NEW i \in 1 .. Len(t), Good(r, i + 1, t, matches, w)
    PROVE  Good(ReplacedAt(p, r, matches, i), i, t, matches, w)
<1>1. Len(t) \in Nat /\ i \in Int
    BY LenProperties
<1>2. \A y \in matches : y.from \in 1 .. Len(t) /\ y.to \in y.from .. Len(t)
    BY DEF Separate
<1> DEFINE here == {x \in matches : x.from = i}
           x0 == CHOOSE x \in here : TRUE
           q == ReplacedAt(p, r, matches, i)
<1>3. \A c \in 1 .. Len(t) : (\A y \in matches : y.from >= i => c < y.from) => c <= Len(r.text)
  <2>1. SUFFICES ASSUME NEW c \in 1 .. Len(t), \A y \in matches : y.from >= i => c < y.from
                 PROVE  c <= Len(r.text)
      OBVIOUS
  <2>2. \A y \in matches : y.from >= i + 1 => c < y.from
      BY <1>1, <1>2, <2>1
  <2> QED
      BY <2>2 DEF Good
<1>4. CASE here = {}
  <2>1. q = r
      BY <1>4 DEF ReplacedAt
  <2> HIDE DEF q
  <2> QED
      BY <1>3, <2>1 DEF Good, q
<1>5. CASE here # {}
  <2>1. q = Replaced(p, r, x0)
      BY <1>5 DEF ReplacedAt
  <2>2. x0 \in matches /\ x0.from = i
    <3>1. x0 \in here
        BY <1>5
    <3> HIDE DEF x0
    <3> QED
        BY <3>1
  <2> HIDE DEF q, x0, here
  <2>3. x0.to \in i .. Len(t) /\ x0.to \in Int
      BY <1>1, <1>2, <2>2
  <2>4. x0.to <= Len(r.text)
    <3>1. \A y \in matches : y.from >= i + 1 => x0.to < y.from
      <4>1. SUFFICES ASSUME NEW y \in matches, y.from >= i + 1 PROVE x0.to < y.from
          OBVIOUS
      <4>2. x0.from < y.from
          BY <1>1, <1>2, <2>2, <4>1
      <4> QED
          BY <2>2, <4>2 DEF Separate
    <3>2. x0.to \in 1 .. Len(t)
        BY <1>1, <2>3
    <3> QED
        BY <3>1, <3>2 DEF Good
  <2>5. Fits(r) /\ Restores(r, w)
      BY DEF Good
  <2>6. Len(r.text) \in Nat
      BY <2>5, LenProperties DEF Fits
  <2>7. x0.from \in 1 .. Len(r.text) /\ x0.to \in x0.from .. Len(r.text)
      BY <1>1, <2>2, <2>3, <2>4, <2>6
  <2>8. Fits(q) /\ Restores(q, w) /\ (q.text # r.text => Len(q.text) >= x0.from - 1)
      BY <2>1, <2>5, <2>7, ReplacedFits
  <2>9. ASSUME NEW c \in 1 .. Len(t), \A y \in matches : y.from >= i => c < y.from
        PROVE  c <= Len(q.text)
    <3>1. c <= Len(r.text)
        BY <1>3, <2>9
    <3>2. c < i
        BY <1>1, <2>2, <2>9
    <3>3. Len(q.text) \in Nat
        BY <2>8, LenProperties DEF Fits
    <3>4. Len(q.text) >= i - 1 => c <= Len(q.text)
        BY <1>1, <3>2, <3>3
    <3> QED
        BY <2>2, <2>8, <3>1, <3>4
  <2> QED
      BY <2>8, <2>9 DEF Good, q
<1> QED
    BY <1>4, <1>5

\* The function that Masked computes, from the position first on.
Backward(p, t, m, from, g) ==
    g = [i \in from .. Len(t) + 1 |->
            IF i > Len(t) THEN [text |-> t, made |-> m]
            ELSE ReplacedAt(p, g[i + 1], FindAll(p, t), i)]

LEMMA BackwardExists ==
    ASSUME NEW S, NEW t \in Seq(S), NEW p, NEW m
    PROVE  \E g : Backward(p, t, m, 1, g)
<1> DEFINE n == Len(t)
           P == {k \in Nat : k <= n => \E g : Backward(p, t, m, n + 1 - k, g)}
<1>0. n \in Nat
    BY LenProperties
<1> HIDE DEF n
<1>1. 0 \in P
  <2> DEFINE h == [i \in n + 1 .. n + 1 |-> [text |-> t, made |-> m]]
  <2>1. h = [i \in n + 1 .. n + 1 |-> IF i > n THEN [text |-> t, made |-> m]
                                      ELSE ReplacedAt(p, h[i + 1], FindAll(p, t), i)]
    <3>1. \A i \in n + 1 .. n + 1 : i > n
        BY <1>0
    <3> QED
        BY <3>1
  <2> HIDE DEF h
  <2>2. Backward(p, t, m, n + 1, h)
      BY <2>1 DEF Backward, n
  <2>3. n + 1 - 0 = n + 1
      BY <1>0
  <2> QED
      BY <2>2, <2>3
<1>2. ASSUME NEW k \in Nat, k \in P PROVE k + 1 \in P
  <2>1. SUFFICES ASSUME k + 1 <= n PROVE \E g : Backward(p, t, m, n + 1 - (k + 1), g)
      OBVIOUS
  <2>2. k <= n
      BY <1>0, <2>1
  <2>3. PICK g : Backward(p, t, m, n + 1 - k, g)
      BY <1>2, <2>2
  <2> DEFINE f == n + 1 - (k + 1)
             h == [i \in f .. n + 1 |-> IF i = f THEN ReplacedAt(p, g[i + 1], FindAll(p, t), i) ELSE g[i]]
  <2>4. f \in 1 .. n /\ n + 1 - k = f + 1 /\ f + 1 \in Int
      BY <1>0, <2>1
  <2> HIDE DEF f
  <2>5. g = [i \in f + 1 .. n + 1 |-> IF i > n THEN [text |-> t, made |-> m]
                                      ELSE ReplacedAt(p, g[i + 1], FindAll(p, t), i)]
      BY <2>3, <2>4 DEF Backward, n
  <2>6. \A i \in f .. n + 1 : h[i] = IF i > n THEN [text |-> t, made |-> m]
                                     ELSE ReplacedAt(p, h[i + 1], FindAll(p, t), i)
    <3>1. TAKE i \in f .. n + 1
    <3>2. ~ (i > n) => h[i + 1] = g[i + 1]
      <4>1. ~ (i > n) => i + 1 \in f .. n + 1 /\ i + 1 # f
          BY <1>0, <2>4
      <4> QED
          BY <4>1
    <3>3. CASE i = f
      <4>1. h[i] = ReplacedAt(p, g[i + 1], FindAll(p, t), i) /\ ~ (i > n)
          BY <1>0, <2>4, <3>3
      <4> HIDE DEF h
      <4> QED
          BY <3>2, <4>1
    <3>4. CASE i # f
      <4>1. i \in f + 1 .. n + 1 /\ h[i] = g[i]
          BY <1>0, <2>4, <3>4
      <4> HIDE DEF h
      <4>2. g[i] = IF i > n THEN [text |-> t, made |-> m] ELSE ReplacedAt(p, g[i + 1], FindAll(p, t), i)
          BY <2>5, <4>1
      <4> QED
          BY <3>2, <4>1, <4>2
    <3> QED
        BY <3>3, <3>4
  <2>7. h = [i \in f .. n + 1 |-> h[i]]
      OBVIOUS
  <2> HIDE DEF h
  <2>8. Backward(p, t, m, f, h)
      BY <2>6, <2>7 DEF Backward, n
  <2> QED
      BY <2>8 DEF f
<1> HIDE DEF P
<1>3. n \in P
    BY <1>0, <1>1, <1>2, AllNumbers
<1>4. n <= n /\ n + 1 - n = 1
    BY <1>0
<1> QED
    BY <1>3, <1>4 DEF P

LEMMA MaskedBackward ==
    ASSUME NEW S, NEW t \in Seq(S), NEW p, NEW m
    PROVE  \E g : Backward(p, t, m, 1, g) /\ Masked(p, t, m) = g[1]
<1> DEFINE g == CHOOSE x : x = [i \in 1 .. Len(t) + 1 |->
                                   IF i > Len(t) THEN [text |-> t, made |-> m]
                                   ELSE ReplacedAt(p, x[i + 1], FindAll(p, t), i)]
<1>1. PICK h : Backward(p, t, m, 1, h)
    BY BackwardExists
<1>2. g = [i \in 1 .. Len(t) + 1 |-> IF i > Len(t) THEN [text |-> t, made |-> m]
                                     ELSE ReplacedAt(p, g[i + 1], FindAll(p, t), i)]
    BY <1>1, Zenon DEF Backward
<1>3. Masked(p, t, m) = g[1]
    BY DEF Masked
<1> HIDE DEF g
<1>4. Backward(p, t, m, 1, g)
    BY <1>2, Zenon DEF Backward
<1> QED
    BY <1>3, <1>4

\* What becomes of a text, match by match.
Steps(g, p, t, m, w) ==
    /\ g[Len(t) + 1] = [text |-> t, made |-> m]
    /\ \A i \in 1 .. Len(t) : g[i] = ReplacedAt(p, g[i + 1], FindAll(p, t), i)
    /\ \A i \in 1 .. Len(t) + 1 : Good(g[i], i, t, FindAll(p, t), w)

LEMMA MaskedSteps ==
    ASSUME NEW l \in DOMAIN Passes, NEW t, NEW m, NEW w,
           Fits([text |-> t, made |-> m]), Restores([text |-> t, made |-> m], w)
    PROVE  \E g : Steps(g, Passes[l], t, m, w) /\ Masked(Passes[l], t, m) = g[1]
<1> DEFINE n == Len(t)
           p == Passes[l]
           matches == FindAll(p, t)
           start == [text |-> t, made |-> m]
<1>1. t \in Seq(Elements(m)) /\ start.text = t
    BY DEF Fits
<1>2. n \in Nat /\ Separate(matches, t)
    BY <1>1, LenProperties, MatchesSeparate
<1> HIDE DEF p
<1>3. PICK g : Backward(p, t, m, 1, g) /\ Masked(p, t, m) = g[1]
    BY <1>1, MaskedBackward
<1>4. g = [i \in 1 .. n + 1 |-> IF i > n THEN start ELSE ReplacedAt(p, g[i + 1], matches, i)]
    BY <1>3 DEF Backward
<1>5. Fits(start) /\ Restores(start, w)
    OBVIOUS
<1> HIDE DEF matches, start, n
<1> DEFINE P == {k \in Nat : k <= n => Good(g[n + 1 - k], n + 1 - k, t, matches, w)}
<1>6. 0 \in P
  <2>1. n + 1 - 0 = n + 1 /\ n + 1 \in 1 .. n + 1 /\ n + 1 > n
      BY <1>2
  <2>2. g[n + 1] = start
      BY <1>4, <2>1
  <2>3. \A c \in 1 .. n : c <= Len(start.text)
      BY <1>1, <1>2 DEF n
  <2>4. Good(start, n + 1, t, matches, w)
      BY <1>5, <2>3 DEF Good, n
  <2> QED
      BY <2>1, <2>2, <2>4
<1>7. ASSUME NEW k \in Nat, k \in P PROVE k + 1 \in P
  <2>1. SUFFICES ASSUME k + 1 <= n PROVE Good(g[n + 1 - (k + 1)], n + 1 - (k + 1), t, matches, w)
      OBVIOUS
  <2>2. Good(g[n + 1 - k], n + 1 - k, t, matches, w)
      BY <1>2, <1>7, <2>1
  <2> DEFINE i == n + 1 - (k + 1)
  <2>3. i \in 1 .. n /\ n + 1 - k = i + 1 /\ i \in 1 .. n + 1 /\ ~ (i > n)
      BY <1>2, <2>1
  <2> HIDE DEF i
  <2>4. g[i] = ReplacedAt(p, g[i + 1], matches, i)
      BY <1>4, <2>3
  <2>5. Good(g[i + 1], i + 1, t, matches, w)
      BY <2>2, <2>3
  <2>6. Good(ReplacedAt(p, g[i + 1], matches, i), i, t, matches, w)
      BY <1>1, <1>2, <2>3, <2>5, OneBack DEF n
  <2> QED
      BY <2>4, <2>6 DEF i
<1> HIDE DEF P
<1>8. \A k \in Nat : k \in P
    BY <1>6, <1>7, AllNumbers
<1>9. ASSUME NEW i \in 1 .. n + 1 PROVE Good(g[i], i, t, matches, w)
  <2>1. n + 1 - i \in Nat /\ n + 1 - i <= n /\ n + 1 - (n + 1 - i) = i
      BY <1>2
  <2> QED
      BY <1>8, <2>1 DEF P
<1>10. n + 1 \in 1 .. n + 1 /\ n + 1 > n /\ \A i \in 1 .. n : i \in 1 .. n + 1 /\ ~ (i > n)
    BY <1>2
<1>11. g[n + 1] = start /\ \A i \in 1 .. n : g[i] = ReplacedAt(p, g[i + 1], matches, i)
    BY <1>4, <1>10
<1>12. Steps(g, p, t, m, w)
    BY <1>9, <1>11, Zenon DEF Steps, n, start, matches
<1> QED
    BY <1>3, <1>12 DEF p

\* A pass of a pattern makes a text of whole placeholders of one, that is restored to the
\* same.
LEMMA MaskedGood ==
    ASSUME NEW l \in DOMAIN Passes, NEW t, NEW m, NEW w,
           Fits([text |-> t, made |-> m]), Restores([text |-> t, made |-> m], w)
    PROVE  Fits(Masked(Passes[l], t, m)) /\ Restores(Masked(Passes[l], t, m), w)
<1> DEFINE p == Passes[l]
<1>1. PICK g : Steps(g, p, t, m, w) /\ Masked(p, t, m) = g[1]
    BY MaskedSteps
<1> HIDE DEF p
<1>2. Len(t) \in Nat
    BY LenProperties DEF Fits
<1>3. 1 \in 1 .. Len(t) + 1
    BY <1>2
<1>4. Good(g[1], 1, t, FindAll(p, t), w)
    BY <1>1, <1>3 DEF Steps
<1> QED
    BY <1>1, <1>4 DEF Good, p
----------------------------------------------------------------------------
(* The theorems.                                                           *)

MaskTypes ==
    /\ text \in Texts
    /\ local \in BOOLEAN
    /\ level \in {"strict", "balanced"}
    /\ pass \in 1 .. Len(Passes) + 1

\* The text at this point fits what was passed to addPlaceholder and is restored to the
\* client's.
MaskInv ==
    /\ MaskTypes
    /\ Fits([text |-> result, made |-> made])
    /\ Restores([text |-> result, made |-> made], Lexemes(text))

LEMMA ClientLexemes ==
    ASSUME NEW t \in Texts
    PROVE  Lexemes(t) \in Seq(Clients)
<1>1. t \in Seq(Kinds)
    BY TextAssumption
<1>2. Len(t) \in Nat /\ DOMAIN t = 1 .. Len(t) /\ \A i \in 1 .. Len(t) : t[i] \in Kinds
    BY <1>1, LenProperties, ElementOfSeq
<1>3. \A i \in 1 .. Len(t) : Plain(t[i], i) \in Clients
    BY <1>2 DEF Clients
<1> QED
    BY <1>2, <1>3 DEF Lexemes

LEMMA MaskInitInv == MaskInit => MaskInv
<1> SUFFICES ASSUME MaskInit PROVE MaskInv
    OBVIOUS
<1>1. text \in Texts /\ result = Lexemes(text) /\ made = {}
    BY DEF MaskInit
<1>2. result \in Seq(Clients)
    BY <1>1, ClientLexemes
<1>3. Whole(result) /\ FlattenSeq(Parts(result)) = Lexemes(text)
    BY <1>1, <1>2, ClientText
<1>4. Clients \subseteq Elements({})
    BY DEF Elements
<1>5. result \in Seq(Elements(made))
    BY <1>1, <1>2, <1>4, SeqMonotonic
<1>6. BodiesFit(made)
    BY <1>1 DEF BodiesFit
<1>7. MaskTypes
    BY DEF MaskInit, MaskTypes, Passes
<1> QED
    BY <1>3, <1>5, <1>6, <1>7 DEF MaskInv, Fits, Restores

LEMMA ApplyGood ==
    ASSUME MaskInv, pass \in DOMAIN Passes, Apply(Passes[pass]), text' = text
    PROVE  /\ Fits([text |-> result', made |-> made'])
           /\ Restores([text |-> result', made |-> made'], Lexemes(text'))
<1>1. CASE Enabled(Passes[pass], local, level)
  <2> DEFINE q == Masked(Passes[pass], result, made)
  <2>1. result' = q.text /\ made' = q.made
      BY <1>1 DEF Apply
  <2>2. Fits(q) /\ Restores(q, Lexemes(text))
      BY MaskedGood DEF MaskInv
  <2> HIDE DEF q
  <2> QED
      BY <2>1, <2>2 DEF Fits, Restores
<1>2. CASE ~ Enabled(Passes[pass], local, level)
    BY <1>2 DEF Apply, MaskInv
<1> QED
    BY <1>1, <1>2

LEMMA MaskNextInv == MaskInv /\ [MaskNext]_textVars => MaskInv'
<1> SUFFICES ASSUME MaskInv, [MaskNext]_textVars PROVE MaskInv'
    OBVIOUS
<1>1. DOMAIN Passes = 1 .. 7 /\ Len(Passes) = 7
    BY DEF Passes
<1>2. CASE Mask \/ DetectAndMask
  <2>1. /\ pass \in DOMAIN Passes /\ Apply(Passes[pass]) /\ pass' = pass + 1
        /\ text' = text /\ local' = local /\ level' = level
      BY <1>2 DEF Mask, DetectAndMask
  <2>2. MaskTypes'
      BY <1>1, <2>1 DEF MaskInv, MaskTypes
  <2> QED
      BY <2>1, <2>2, ApplyGood DEF MaskInv
<1>3. CASE MaskAgain
    BY <1>1, <1>3 DEF MaskAgain, MaskInv, MaskTypes
<1>4. CASE UNCHANGED textVars
    BY <1>4 DEF textVars, MaskInv, MaskTypes
<1> QED
    BY <1>2, <1>3, <1>4 DEF MaskNext

\* The inductive invariant holds in every reachable state.
THEOREM MaskInvariant == MaskSpec => []MaskInv
<1> QED
    BY MaskInitInv, MaskNextInv, PTL DEF MaskSpec

\* Whatever the detectors find in what the earlier ones left, the masked text consists of
\* lexemes of the client's and of marks and bodies, and each body in it was passed to
\* addPlaceholder by Mask or DetectAndMask: none gets into the text unsaved.
THEOREM MaskTypeCorrect == MaskSpec => []MaskTypeOK
<1>1. MaskInv => MaskTypeOK
  <2> SUFFICES ASSUME MaskInv PROVE MaskTypeOK
      OBVIOUS
  <2>1. result \in Seq(Elements(made)) /\ BodiesFit(made)
      BY DEF MaskInv, Fits
  <2>2. \A i \in DOMAIN result : result[i] \in Elements(made)
      BY <2>1, LenProperties, ElementOfSeq
  <2>3. \A i \in DOMAIN result : result[i].kind \in Kinds \cup MarkKinds
                                 /\ (result[i].kind = "body" => result[i] \in made)
      BY <2>1, <2>2, ElementFacts
  <2> QED
      BY <2>3 DEF MaskInv, MaskTypes, MaskTypeOK, MarkKinds
<1> QED
    BY <1>1, MaskInvariant, PTL

\* A model that repeats what it was sent gives the client its own text back, for texts of
\* any length, at every point of Mask, DetectAndMask and maskContent, as long as no
\* placeholder was made of a text with another one in it.
THEOREM FlatRestored == MaskSpec => []FlatIsRestored
<1>1. MaskInv => FlatIsRestored
  <2> SUFFICES ASSUME MaskInv, Flat PROVE RestoreAll(result) = Lexemes(text)
      BY DEF FlatIsRestored
  <2>1. FlatIn(made)
      BY DEF Flat, FlatIn
  <2>2. Whole(result) /\ FlattenSeq(Parts(result)) = Lexemes(text)
      BY <2>1 DEF MaskInv, Restores
  <2>3. result \in Seq(Elements(made))
      BY DEF MaskInv, Fits
  <2> QED
      BY <2>2, <2>3, RestoreParts
<1> QED
    BY <1>1, MaskInvariant, PTL
----------------------------------------------------------------------------
(* What of the client's text can still be seen.                            *)

\* The lexemes of a client's text: each knows its place.
OfClient(o) ==
    /\ Len(o) \in Nat
    /\ \A j \in 1 .. Len(o) : o[j].at = j /\ o[j].kind \in Kinds /\ o[j].kind \notin MarkKinds

\* A text that the detectors made of o: what is left of o is in its order, neighbours in
\* o are neighbours, and only those; where something is missing there is a mark.
InPlace(t, o) ==
    /\ Len(t) \in Nat
    /\ \A x \in 1 .. Len(t) : /\ t[x].at \in Nat
                              /\ t[x].at = 0 => t[x].kind \in MarkKinds
                              /\ t[x].at # 0 => t[x].at \in 1 .. Len(o) /\ t[x] = o[t[x].at]
    /\ \A x, y \in 1 .. Len(t) :
           x < y /\ t[x].at # 0 /\ t[y].at # 0 =>
               t[x].at < t[y].at /\ (y = x + 1 <=> t[y].at = t[x].at + 1)
    /\ \A x \in 1 .. Len(t) : t[x].at = 1 => x = 1
    /\ \A x \in 1 .. Len(t) : t[x].at # 0 /\ t[x].at < Len(o) => x < Len(t)

\* The first mark behind a lexeme of the client's begins a placeholder.
Starts(t) ==
    \A x \in 1 .. Len(t) :
        t[x].kind \in MarkKinds /\ (x # 1 => t[x - 1].kind \notin MarkKinds) => TokenAt(t, x)

\* The places of what can be seen.
Seen(t) == {t[x].at : x \in 1 .. Len(t)} \ {0}

\* The text u with a placeholder in the place of its elements from f to e.
WithToken(u, f, e, q) ==
    /\ Len(q) = Len(u) + 3 + f - e
    /\ \A x \in 1 .. f - 1 : q[x] = u[x]
    /\ q[f].kind = "$" /\ q[f + 1].kind = "{" /\ q[f + 2].kind = "body" /\ q[f + 3].kind = "}"
    /\ \A x \in f .. f + 3 : q[x].at = 0
    /\ \A x \in f + 4 .. Len(q) : q[x] = u[x + (e - f) - 3]

LEMMA TokenElements ==
    ASSUME NEW type, NEW v, NEW g, g = GeneratePlaceholder(type, v)
    PROVE  /\ Len(g) = 4 /\ \A x \in 1 .. 4 : g[x].at = 0
           /\ g[1].kind = "$" /\ g[2].kind = "{" /\ g[3].kind = "body" /\ g[4].kind = "}"
           /\ g \in Seq({g[1], g[2], g[3], g[4]})
<1> DEFINE a == Plain("$", 0)
           b == Plain("{", 0)
           c == Body(type, v)
           d == Plain("}", 0)
<1>1. a.at = 0 /\ b.at = 0 /\ c.at = 0 /\ d.at = 0
    BY DEF Plain, Body
<1>2. a.kind = "$" /\ b.kind = "{" /\ c.kind = "body" /\ d.kind = "}"
    BY DEF Plain, Body
<1>3. g = <<a, b, c, d>>
    BY DEF GeneratePlaceholder
<1> HIDE DEF a, b, c, d
<1>4. Len(g) = 4 /\ g[1] = a /\ g[2] = b /\ g[3] = c /\ g[4] = d
    BY <1>3
<1>5. g \in Seq({a, b, c, d})
    BY <1>3
<1>6. \A x \in 1 .. 4 : x = 1 \/ x = 2 \/ x = 3 \/ x = 4
    OBVIOUS
<1>7. \A x \in 1 .. 4 : g[x].at = 0
    BY <1>1, <1>4, <1>6
<1> QED
    BY <1>2, <1>4, <1>5, <1>7

LEMMA ReplacedElements ==
    ASSUME NEW S, NEW u \in Seq(S), NEW f \in 1 .. Len(u), NEW e \in f .. Len(u), NEW type, NEW v,
           NEW q, q = SubSeq(u, 1, f - 1) \o GeneratePlaceholder(type, v) \o SubSeq(u, e + 1, Len(u))
    PROVE  WithToken(u, f, e, q)
<1> DEFINE g == GeneratePlaceholder(type, v)
           a == SubSeq(u, 1, f - 1)
           c == SubSeq(u, e + 1, Len(u))
           T == S \cup {g[1], g[2], g[3], g[4]}
<1>1. Len(u) \in Nat /\ f \in Nat /\ e \in Nat /\ 1 <= f /\ f <= e /\ e <= Len(u)
    BY LenProperties
<1>2. /\ Len(g) = 4 /\ (\A x \in 1 .. 4 : g[x].at = 0)
      /\ g[1].kind = "$" /\ g[2].kind = "{" /\ g[3].kind = "body" /\ g[4].kind = "}"
      /\ g \in Seq({g[1], g[2], g[3], g[4]})
    BY TokenElements
<1>3. a \in Seq(S) /\ Len(a) = f - 1 /\ \A x \in 1 .. f - 1 : a[x] = u[x]
  <2>1. 1 \in 1 .. Len(u) + 1 /\ f - 1 \in (1 - 1) .. Len(u) /\ (f - 1) - 1 + 1 = f - 1
      BY <1>1
  <2>2. a \in Seq(S) /\ Len(a) = (f - 1) - 1 + 1 /\ \A x \in 1 .. ((f - 1) - 1 + 1) : a[x] = u[1 + x - 1]
      BY <2>1, Part
  <2>3. \A x \in 1 .. f - 1 : 1 + x - 1 = x
      BY <1>1
  <2> QED
      BY <2>1, <2>2, <2>3
<1>4. c \in Seq(S) /\ Len(c) = Len(u) - e /\ \A x \in 1 .. Len(u) - e : c[x] = u[e + x]
  <2>1. e + 1 \in 1 .. Len(u) + 1 /\ Len(u) \in ((e + 1) - 1) .. Len(u) /\ Len(u) - (e + 1) + 1 = Len(u) - e
      BY <1>1
  <2>2. c \in Seq(S) /\ Len(c) = Len(u) - (e + 1) + 1
        /\ \A x \in 1 .. (Len(u) - (e + 1) + 1) : c[x] = u[(e + 1) + x - 1]
      BY <2>1, Part
  <2>3. \A x \in 1 .. Len(u) - e : (e + 1) + x - 1 = e + x
      BY <1>1
  <2> QED
      BY <2>1, <2>2, <2>3
<1>5. a \in Seq(T) /\ g \in Seq(T) /\ c \in Seq(T)
  <2>1. S \subseteq T /\ {g[1], g[2], g[3], g[4]} \subseteq T
      OBVIOUS
  <2> HIDE DEF g, a, c, T
  <2> QED
      BY <1>2, <1>3, <1>4, <2>1, SeqMonotonic
<1> HIDE DEF g, a, c, T
<1>6. /\ a \o g \in Seq(T) /\ Len(a \o g) = f + 3
      /\ \A x \in 1 .. f + 3 : (a \o g)[x] = IF x <= f - 1 THEN a[x] ELSE g[x - (f - 1)]
  <2>1. /\ a \o g \in Seq(T) /\ Len(a \o g) = Len(a) + Len(g)
        /\ \A x \in 1 .. Len(a) + Len(g) : (a \o g)[x] = IF x <= Len(a) THEN a[x] ELSE g[x - Len(a)]
      BY <1>5, ConcatProperties
  <2>2. Len(a) = f - 1 /\ Len(g) = 4
      BY <1>2, <1>3
  <2>3. Len(a) + Len(g) = f + 3
      BY <1>1, <2>2
  <2> QED
      BY <2>1, <2>2, <2>3
<1> DEFINE h == a \o g
<1>7. /\ h \in Seq(T) /\ Len(h) = f + 3
      /\ \A x \in 1 .. f - 1 : h[x] = u[x]
      /\ \A x \in f .. f + 3 : h[x] = g[x - (f - 1)]
  <2>1. \A x \in 1 .. f - 1 : x \in 1 .. f + 3 /\ x <= f - 1
      BY <1>1
  <2>2. \A x \in f .. f + 3 : x \in 1 .. f + 3 /\ ~ (x <= f - 1)
      BY <1>1
  <2> QED
      BY <1>3, <1>6, <2>1, <2>2
<1> HIDE DEF h
<1>8. q = h \o c
    BY DEF h, g, a, c
<1>9. /\ Len(q) = Len(u) + 3 + f - e
      /\ \A x \in 1 .. f + 3 : q[x] = h[x]
      /\ \A x \in f + 4 .. Len(q) : q[x] = u[x + (e - f) - 3]
  <2>1. /\ Len(h \o c) = Len(h) + Len(c)
        /\ \A x \in 1 .. Len(h) + Len(c) : (h \o c)[x] = IF x <= Len(h) THEN h[x] ELSE c[x - Len(h)]
      BY <1>5, <1>7, ConcatProperties
  <2>2. Len(h) + Len(c) = Len(u) + 3 + f - e
      BY <1>1, <1>4, <1>7
  <2>3. \A x \in 1 .. f + 3 : x \in 1 .. Len(u) + 3 + f - e /\ x <= Len(h)
      BY <1>1, <1>7
  <2>4. \A x \in f + 4 .. (Len(u) + 3 + f - e) :
            /\ x \in 1 .. Len(u) + 3 + f - e /\ ~ (x <= Len(h))
            /\ x - Len(h) \in 1 .. Len(u) - e /\ e + (x - Len(h)) = x + (e - f) - 3
      BY <1>1, <1>7
  <2>5. \A x \in f + 4 .. (Len(u) + 3 + f - e) : q[x] = u[e + (x - Len(h))]
      BY <1>4, <1>8, <2>1, <2>2, <2>4
  <2> QED
      BY <1>8, <2>1, <2>2, <2>3, <2>4, <2>5
<1>10. /\ f \in f .. f + 3 /\ f - (f - 1) = 1
       /\ f + 1 \in f .. f + 3 /\ (f + 1) - (f - 1) = 2
       /\ f + 2 \in f .. f + 3 /\ (f + 2) - (f - 1) = 3
       /\ f + 3 \in f .. f + 3 /\ (f + 3) - (f - 1) = 4
       /\ \A x \in f .. f + 3 : x \in 1 .. f + 3 /\ x - (f - 1) \in 1 .. 4
       /\ \A x \in 1 .. f - 1 : x \in 1 .. f + 3
    BY <1>1
<1>11. \A x \in f .. f + 3 : q[x] = g[x - (f - 1)]
    BY <1>7, <1>9, <1>10
<1>12. q[f] = g[1] /\ q[f + 1] = g[2] /\ q[f + 2] = g[3] /\ q[f + 3] = g[4]
    BY <1>10, <1>11
<1>13. \A x \in f .. f + 3 : q[x].at = 0
    BY <1>2, <1>10, <1>11
<1>14. \A x \in 1 .. f - 1 : q[x] = u[x]
    BY <1>7, <1>9, <1>10
<1> QED
    BY <1>2, <1>9, <1>12, <1>13, <1>14 DEF WithToken
LEMMA TokenKinds ==
    ASSUME NEW t, Len(t) \in Nat, NEW i
    PROVE  TokenAt(t, i) <=> /\ i \in 1 .. Len(t) - 3
                             /\ t[i].kind = "$" /\ t[i + 1].kind = "{"
                             /\ t[i + 2].kind = "body" /\ t[i + 3].kind = "}"
<1> DEFINE h == [j \in 1 .. 4 |-> t[i + j - 1].kind]
<1>0. TokenAt(t, i) <=> i \in 1 .. Len(t) - 3 /\ h = <<"$", "{", "body", "}">>
    BY Zenon DEF TokenAt
<1>1. SUFFICES ASSUME i \in 1 .. Len(t) - 3
               PROVE  h = <<"$", "{", "body", "}">> <=> /\ t[i].kind = "$" /\ t[i + 1].kind = "{"
                                                        /\ t[i + 2].kind = "body" /\ t[i + 3].kind = "}"
  <2> HIDE DEF h
  <2> QED
      BY <1>0
<1>2. i + 1 - 1 = i /\ i + 2 - 1 = i + 1 /\ i + 3 - 1 = i + 2 /\ i + 4 - 1 = i + 3
    BY <1>1
<1> DEFINE a == t[i].kind
           b == t[i + 1].kind
           c == t[i + 2].kind
           d == t[i + 3].kind
<1>3. h[1] = a /\ h[2] = b /\ h[3] = c /\ h[4] = d
    BY <1>2
<1>4. h \in [1 .. 4 -> {a, b, c, d}]
  <2>1. \A j \in 1 .. 4 : j = 1 \/ j = 2 \/ j = 3 \/ j = 4
      OBVIOUS
  <2>2. \A j \in 1 .. 4 : h[j] \in {a, b, c, d}
      BY <1>3, <2>1
  <2>3. h = [j \in 1 .. 4 |-> h[j]]
      OBVIOUS
  <2> HIDE DEF h, a, b, c, d
  <2> QED
      BY <2>2, <2>3
<1> HIDE DEF h, a, b, c, d
<1>5. h = <<a, b, c, d>>
    BY <1>3, <1>4
<1>6. h = <<"$", "{", "body", "}">> <=> a = "$" /\ b = "{" /\ c = "body" /\ d = "}"
    BY <1>5
<1> QED
    BY <1>6 DEF a, b, c, d

\* What is the client's is what is no mark.
LEMMA ClientOrMark ==
    ASSUME NEW o, OfClient(o), NEW t, InPlace(t, o), NEW x \in 1 .. Len(t)
    PROVE  /\ t[x].at = 0 <=> t[x].kind \in MarkKinds
           /\ t[x].at # 0 => t[x].at \in 1 .. Len(o) /\ t[x] = o[t[x].at]
<1>1. \A j \in 1 .. Len(o) : o[j].kind \notin MarkKinds
    BY DEF OfClient
<1>2. /\ t[x].at = 0 => t[x].kind \in MarkKinds
      /\ t[x].at # 0 => t[x].at \in 1 .. Len(o) /\ t[x] = o[t[x].at]
    BY DEF InPlace
<1> QED
    BY <1>1, <1>2

\* A match begins with a lexeme of the client's or behind one.
Anchored(t, f) == t[f].kind \notin MarkKinds \/ (f > 1 /\ t[f - 1].kind \notin MarkKinds)

LEMMA TokenInPlace ==
    ASSUME NEW o, OfClient(o), NEW u, InPlace(u, o), NEW f \in 1 .. Len(u), NEW e \in f .. Len(u),
           NEW q, WithToken(u, f, e, q)
    PROVE  /\ InPlace(q, o)
           /\ Starts(u) /\ Anchored(u, f) => Starts(q)
           /\ Seen(q) \subseteq Seen(u)
           /\ \A c \in f .. e : u[c].at # 0 => u[c].at \notin Seen(q)
<1>1. Len(u) \in Nat /\ f \in Nat /\ e \in Nat /\ 1 <= f /\ f <= e /\ e <= Len(u)
    BY DEF InPlace
<1>0. Len(q) = Len(u) + 3 + f - e
    BY DEF WithToken
<1>2. Len(q) = Len(u) + 3 + f - e /\ Len(q) \in Nat /\ f + 3 <= Len(q)
    BY <1>0, <1>1
<1> DEFINE From(x) == IF x < f THEN x ELSE x + (e - f) - 3
<1>3. \A x \in f .. f + 3 : q[x].at = 0 /\ q[x].kind \in MarkKinds
  <2>1. \A x \in f .. f + 3 : x = f \/ x = f + 1 \/ x = f + 2 \/ x = f + 3
      BY <1>1
  <2>2. q[f].kind \in MarkKinds /\ q[f + 1].kind \in MarkKinds
        /\ q[f + 2].kind \in MarkKinds /\ q[f + 3].kind \in MarkKinds
      BY DEF WithToken, MarkKinds
  <2> QED
      BY <2>1, <2>2 DEF WithToken
<1>4. ASSUME NEW x \in 1 .. Len(q), x \notin f .. f + 3
      PROVE  /\ q[x] = u[From(x)] /\ From(x) \in 1 .. Len(u) /\ From(x) \notin f .. e
             /\ (x < f /\ From(x) = x) \/ (x >= f + 4 /\ From(x) = x + (e - f) - 3)
  <2>1. CASE x < f
    <3>1. x \in 1 .. f - 1 /\ From(x) = x /\ x \in 1 .. Len(u) /\ x \notin f .. e
        BY <1>1, <2>1
    <3> HIDE DEF From
    <3> QED
        BY <2>1, <3>1 DEF WithToken
  <2>2. CASE ~ (x < f)
    <3>1. /\ x \in f + 4 .. Len(q) /\ From(x) = x + (e - f) - 3 /\ x >= f + 4
          /\ x + (e - f) - 3 \in 1 .. Len(u) /\ x + (e - f) - 3 \notin f .. e
        BY <1>1, <1>2, <1>4, <2>2
    <3> HIDE DEF From
    <3> QED
        BY <3>1 DEF WithToken
  <2> QED
      BY <2>1, <2>2
<1> HIDE DEF From
<1>5. ASSUME NEW x \in 1 .. Len(q), q[x].at # 0
      PROVE  /\ q[x] = u[From(x)] /\ From(x) \in 1 .. Len(u) /\ From(x) \notin f .. e
             /\ (x < f /\ From(x) = x) \/ (x >= f + 4 /\ From(x) = x + (e - f) - 3)
    BY <1>3, <1>4, <1>5
<1>6. \A x, y \in 1 .. Len(u) :
           x < y /\ u[x].at # 0 /\ u[y].at # 0 =>
               u[x].at < u[y].at /\ (y = x + 1 <=> u[y].at = u[x].at + 1)
    BY DEF InPlace
<1>7. InPlace(q, o)
  <2>1. ASSUME NEW x \in 1 .. Len(q)
        PROVE  /\ q[x].at \in Nat
               /\ q[x].at = 0 => q[x].kind \in MarkKinds
               /\ q[x].at # 0 => q[x].at \in 1 .. Len(o) /\ q[x] = o[q[x].at]
    <3>1. CASE x \in f .. f + 3
        BY <1>3, <3>1
    <3>2. CASE x \notin f .. f + 3
        BY <1>4, <3>2 DEF InPlace
    <3> QED
        BY <3>1, <3>2
  <2>2. ASSUME NEW x \in 1 .. Len(q), NEW y \in 1 .. Len(q), x < y, q[x].at # 0, q[y].at # 0
        PROVE  q[x].at < q[y].at /\ (y = x + 1 <=> q[y].at = q[x].at + 1)
    <3>1. q[x] = u[From(x)] /\ q[y] = u[From(y)] /\ From(x) \in 1 .. Len(u) /\ From(y) \in 1 .. Len(u)
        BY <1>5, <2>2
    <3>2. From(x) < From(y) /\ (From(y) = From(x) + 1 <=> y = x + 1)
      <4>1. /\ From(x) \notin f .. e /\ From(y) \notin f .. e
            /\ (x < f /\ From(x) = x) \/ (x >= f + 4 /\ From(x) = x + (e - f) - 3)
            /\ (y < f /\ From(y) = y) \/ (y >= f + 4 /\ From(y) = y + (e - f) - 3)
          BY <1>5, <2>2
      <4> DEFINE a == From(x)
                 b == From(y)
      <4>2. a \in Int /\ b \in Int /\ x \in Int /\ y \in Int
          BY <1>1, <1>2, <3>1
      <4> HIDE DEF a, b
      <4>3. /\ a < f \/ a > e
            /\ b < f \/ b > e
            /\ (x < f /\ a = x) \/ (x >= f + 4 /\ a = x + (e - f) - 3)
            /\ (y < f /\ b = y) \/ (y >= f + 4 /\ b = y + (e - f) - 3)
          BY <1>1, <4>1, <4>2 DEF a, b
      <4>4. a < b /\ (b = a + 1 <=> y = x + 1)
          BY <1>1, <2>2, <4>2, <4>3
      <4> QED
          BY <4>4 DEF a, b
    <3> QED
        BY <1>6, <2>2, <3>1, <3>2, SMTT(30)
  <2>3. ASSUME NEW x \in 1 .. Len(q), q[x].at = 1 PROVE x = 1
    <3>1. /\ q[x] = u[From(x)] /\ From(x) \in 1 .. Len(u) /\ From(x) \notin f .. e
          /\ (x < f /\ From(x) = x) \/ (x >= f + 4 /\ From(x) = x + (e - f) - 3)
        BY <1>5, <2>3
    <3>2. From(x) = 1
        BY <2>3, <3>1 DEF InPlace
    <3> QED
        BY <1>1, <1>2, <3>1, <3>2
  <2>4. ASSUME NEW x \in 1 .. Len(q), q[x].at # 0, q[x].at < Len(o) PROVE x < Len(q)
    <3>1. /\ q[x] = u[From(x)] /\ From(x) \in 1 .. Len(u)
          /\ (x < f /\ From(x) = x) \/ (x >= f + 4 /\ From(x) = x + (e - f) - 3)
        BY <1>5, <2>4
    <3>2. From(x) < Len(u)
        BY <2>4, <3>1 DEF InPlace
    <3> QED
        BY <1>1, <1>2, <3>1, <3>2
  <2> QED
      BY <1>2, <2>1, <2>2, <2>3, <2>4 DEF InPlace
<1>8. ASSUME Starts(u), Anchored(u, f) PROVE Starts(q)
  <2>1. SUFFICES ASSUME NEW x \in 1 .. Len(q), q[x].kind \in MarkKinds,
                        x # 1 => q[x - 1].kind \notin MarkKinds
                 PROVE  TokenAt(q, x)
      BY DEF Starts
  <2>2. CASE x = f
    <3>1. x \in 1 .. Len(q) - 3
        BY <1>1, <1>2, <2>2
    <3> QED
        BY <1>2, <2>2, <3>1, TokenKinds DEF WithToken
  <2>3. CASE x \in f + 1 .. f + 4
    <3>1. x # 1 /\ x - 1 \in f .. f + 3
        BY <1>1, <2>3
    <3> QED
        BY <1>3, <2>1, <3>1
  <2>4. CASE x < f
    <3>1. x \notin f .. f + 3 /\ x \in 1 .. f - 1
        BY <1>1, <2>4
    <3>2. u[x].kind \in MarkKinds
        BY <2>1, <3>1 DEF WithToken
    <3>3. x # 1 => u[x - 1].kind \notin MarkKinds
      <4>1. x # 1 => x - 1 \in 1 .. f - 1
          BY <1>1, <3>1
      <4> QED
          BY <2>1, <4>1 DEF WithToken
    <3>4. x \in 1 .. Len(u)
        BY <1>1, <3>1
    <3>5. TokenAt(u, x)
        BY <1>8, <3>2, <3>3, <3>4 DEF Starts
    <3>6. /\ u[x].kind = "$" /\ u[x + 1].kind = "{" /\ u[x + 2].kind = "body" /\ u[x + 3].kind = "}"
          /\ x \in 1 .. Len(u) - 3
        BY <1>1, <3>5, TokenKinds
    <3>7. x + 3 < f
      <4>1. SUFFICES ASSUME ~ (x + 3 < f) PROVE FALSE
          OBVIOUS
      <4>2. f = x + 1 \/ f = x + 2 \/ f = x + 3
          BY <1>1, <3>1, <4>1
      <4>3. f - 1 = x \/ f - 1 = x + 1 \/ f - 1 = x + 2
          BY <1>1, <3>1, <4>2
      <4>4. u[f].kind \in MarkKinds
          BY <3>6, <4>2 DEF MarkKinds
      <4>5. u[f - 1].kind \in MarkKinds
          BY <3>6, <4>3 DEF MarkKinds
      <4> QED
          BY <1>8, <4>4, <4>5 DEF Anchored
    <3>8. /\ x \in 1 .. f - 1 /\ x + 1 \in 1 .. f - 1 /\ x + 2 \in 1 .. f - 1 /\ x + 3 \in 1 .. f - 1
          /\ x \in 1 .. Len(q) - 3
        BY <1>1, <1>2, <3>1, <3>7
    <3>9. q[x] = u[x] /\ q[x + 1] = u[x + 1] /\ q[x + 2] = u[x + 2] /\ q[x + 3] = u[x + 3]
        BY <3>8 DEF WithToken
    <3>10. q[x].kind = "$" /\ q[x + 1].kind = "{" /\ q[x + 2].kind = "body" /\ q[x + 3].kind = "}"
        BY <3>6, <3>9
    <3> QED
        BY <1>2, <3>8, <3>10, TokenKinds
  <2>5. CASE x > f + 4
    <3> DEFINE z == x + (e - f) - 3
    <3>1. /\ x \in f + 4 .. Len(q) /\ x - 1 \in f + 4 .. Len(q) /\ x # 1
          /\ z \in 1 .. Len(u) /\ z # 1 /\ (x - 1) + (e - f) - 3 = z - 1
        BY <1>1, <1>2, <2>5
    <3>2. q[x] = u[z] /\ q[x - 1] = u[z - 1]
        BY <3>1 DEF WithToken
    <3>3. TokenAt(u, z)
        BY <1>8, <2>1, <3>1, <3>2 DEF Starts
    <3>4. /\ u[z].kind = "$" /\ u[z + 1].kind = "{" /\ u[z + 2].kind = "body" /\ u[z + 3].kind = "}"
          /\ z \in 1 .. Len(u) - 3
        BY <1>1, <3>3, TokenKinds
    <3>11. z \in 1 .. Len(u) - 3
        BY <3>4
    <3>12. z = x + (e - f) - 3
        OBVIOUS
    <3> HIDE DEF z
    <3>5. /\ x + 1 \in f + 4 .. Len(q) /\ x + 2 \in f + 4 .. Len(q) /\ x + 3 \in f + 4 .. Len(q)
          /\ x \in 1 .. Len(q) - 3
          /\ (x + 1) + (e - f) - 3 = z + 1 /\ (x + 2) + (e - f) - 3 = z + 2
          /\ (x + 3) + (e - f) - 3 = z + 3
        BY <1>1, <1>2, <2>5, <3>11, <3>12
    <3>6. q[x + 1] = u[z + 1] /\ q[x + 2] = u[z + 2] /\ q[x + 3] = u[z + 3]
        BY <3>5 DEF WithToken
    <3>9. q[x].kind = "$" /\ q[x + 1].kind = "{" /\ q[x + 2].kind = "body" /\ q[x + 3].kind = "}"
        BY <3>2, <3>4, <3>6
    <3> QED
        BY <1>2, <3>5, <3>9, TokenKinds
  <2> QED
      BY <1>1, <1>2, <2>2, <2>3, <2>4, <2>5
<1>9. Seen(q) \subseteq Seen(u)
  <2>1. SUFFICES ASSUME NEW x \in 1 .. Len(q), q[x].at # 0 PROVE q[x].at \in Seen(u)
      BY DEF Seen
  <2>2. q[x] = u[From(x)] /\ From(x) \in 1 .. Len(u)
      BY <1>5, <2>1
  <2> QED
      BY <2>1, <2>2 DEF Seen
<1>10. ASSUME NEW c \in f .. e, u[c].at # 0, u[c].at \in Seen(q) PROVE FALSE
  <2>1. PICK x \in 1 .. Len(q) : q[x].at = u[c].at
      BY <1>10 DEF Seen
  <2>2. q[x] = u[From(x)] /\ From(x) \in 1 .. Len(u) /\ From(x) \notin f .. e
      BY <1>5, <1>10, <2>1
  <2>3. c \in 1 .. Len(u) /\ From(x) # c /\ (From(x) < c \/ c < From(x))
      BY <1>1, <2>2
  <2>4. u[c].at \in Nat /\ u[From(x)].at = u[c].at
      BY <2>1, <2>2, <2>3 DEF InPlace
  <2> QED
      BY <1>6, <1>10, <2>2, <2>3, <2>4
<1> QED
    BY <1>7, <1>8, <1>9, <1>10
LEMMA NoMarks ==
    \A k \in {"key", "pwd", "url", "akia", "phone", "mail", "quote"} : k \notin MarkKinds
<1> QED
    BY DEF MarkKinds

LEMMA MatchesAnchored ==
    ASSUME NEW S, NEW t \in Seq(S), NEW n \in DOMAIN Passes, NEW y \in FindAll(Passes[n], t)
    PROVE  Anchored(t, y.from)
<1>1. Len(t) \in Nat /\ DOMAIN t = 1 .. Len(t)
    BY LenProperties
<1>2. ASSUME NEW kind \in {"akia", "phone", "mail"}, y \in KindMatches(t, kind)
      PROVE  Anchored(t, y.from)
  <2>1. t[y.from].kind = kind
      BY <1>2 DEF KindMatches, Positions
  <2> QED
      BY <2>1, NoMarks DEF Anchored
<1>3. ASSUME NEW kind \in {"key", "pwd"}, y \in KeyMatches(t, kind) PROVE Anchored(t, y.from)
  <2> DEFINE begin == KeyBegin(t, kind)
             i == y.open
  <2>1. i \in DOMAIN begin /\ y.from = begin[i]
      BY <1>3, KeyRuns DEF RunsOf
  <2>2. /\ i \in 1 .. Len(t) /\ t[i].kind = kind
        /\ \/ begin[i] = i + 1
           \/ begin[i] = i + 2 /\ t[i + 1].kind = "quote"
      BY <1>1, <2>1, KeyBegins
  <2> HIDE DEF begin, i
  <2>3. y.from > 1 /\ (y.from - 1 = i \/ (y.from - 1 = i + 1 /\ t[i + 1].kind = "quote"))
      BY <1>1, <2>1, <2>2
  <2> QED
      BY <2>2, <2>3, NoMarks DEF Anchored
<1>4. ASSUME y \in URLMatches(t) PROVE Anchored(t, y.from)
  <2> DEFINE begin == [i \in Positions(t, "url") |-> i]
  <2>1. y.open \in DOMAIN begin /\ y.from = begin[y.open]
      BY <1>4, URLRuns DEF RunsOf
  <2>2. t[y.from].kind = "url"
      BY <2>1 DEF Positions
  <2> QED
      BY <2>2, NoMarks DEF Anchored
<1>5. ASSUME y \in PasswordMatches(t) PROVE Anchored(t, y.from)
  <2> DEFINE begin == [i \in Positions(t, "pwd") |-> i + 1]
             i == y.open
  <2>1. y.open \in DOMAIN begin /\ y.from = begin[y.open]
      BY <1>5, PasswordRuns DEF RunsOf
  <2>2. t[i].kind = "pwd" /\ i \in 1 .. Len(t) /\ y.from = i + 1
      BY <1>1, <2>1 DEF Positions
  <2> HIDE DEF i
  <2>3. y.from > 1 /\ y.from - 1 = i
      BY <1>1, <2>2
  <2> QED
      BY <2>2, <2>3, NoMarks DEF Anchored
<1>6. Passes[n] \in {"api_key", "password", "format", "PHONE", "EMAIL", "URL_ADDRESS", "PASSWORD"}
    BY DEF Passes
<1> QED
    BY <1>2, <1>3, <1>4, <1>5, <1>6 DEF FindAll

LEMMA TokenMarks ==
    ASSUME NEW t, Len(t) \in Nat, NEW i, TokenAt(t, i)
    PROVE  i \in 1 .. Len(t) - 3 /\ \A x \in i .. i + 3 : t[x].kind \in MarkKinds
<1>1. /\ i \in 1 .. Len(t) - 3
      /\ t[i].kind = "$" /\ t[i + 1].kind = "{" /\ t[i + 2].kind = "body" /\ t[i + 3].kind = "}"
    BY TokenKinds
<1>3. i \in 1 .. Len(t) - 3
    BY <1>1
<1>2. \A x \in i .. i + 3 : x = i \/ x = i + 1 \/ x = i + 2 \/ x = i + 3
    BY <1>3
<1> QED
    BY <1>1, <1>2 DEF MarkKinds

LEMMA PlaceholderMarks ==
    ASSUME NEW v, IsPlaceholder(v)
    PROVE  Len(v) = 4 /\ \A x \in 1 .. 4 : v[x].kind \in MarkKinds
<1>1. Len(v) = 4 /\ TokenAt(v, 1)
    BY DEF IsPlaceholder
<1>2. Len(v) \in Nat
    BY <1>1
<1>3. \A x \in 1 .. 1 + 3 : v[x].kind \in MarkKinds
    BY <1>1, <1>2, TokenMarks
<1>4. 1 + 3 = 4
    OBVIOUS
<1> QED
    BY <1>1, <1>3, <1>4

LEMMA WithinFour ==
    ASSUME NEW f \in Int, NEW e \in Int, NEW c \in Int, f <= c, c <= e, e - f + 1 = 4
    PROVE  c - f + 1 \in 1 .. 4 /\ c - f + 1 \in 1 .. e - f + 1 /\ f + (c - f + 1) - 1 = c
<1> QED
    OBVIOUS

\* A match that does not begin right behind a mark, or of a key name.
Reached(p, t, y) ==
    p \in {"api_key", "password"} \/ y.from = 1 \/ t[y.from - 1].kind \notin MarkKinds

\* ... is not left alone when something of the client's is in it.
LEMMA NotSkipped ==
    ASSUME NEW o, OfClient(o), NEW S, NEW u \in Seq(S), InPlace(u, o), NEW p, NEW y,
           y.from \in 1 .. Len(u), y.to \in y.from .. Len(u), Reached(p, u, y),
           NEW c \in y.from .. y.to, u[c].at # 0
    PROVE  ~ Skips(p, u, y)
<1> DEFINE f == y.from
           e == y.to
           v == SubSeq(u, f, e)
<1>1. Len(u) \in Nat /\ DOMAIN u = 1 .. Len(u)
    BY LenProperties
<1>0. f \in 1 .. Len(u) /\ e \in f .. Len(u) /\ c \in f .. e
    OBVIOUS
<1> HIDE DEF f, e, v
<1>2. /\ f \in Nat /\ e \in Nat /\ c \in Nat /\ 1 <= f /\ f <= c /\ c <= e /\ e <= Len(u)
      /\ f \in 1 .. Len(u) + 1 /\ e \in (f - 1) .. Len(u)
    BY <1>0, <1>1
<1>3. Len(v) = e - f + 1 /\ \A x \in 1 .. e - f + 1 : v[x] = u[f + x - 1]
    BY <1>2, Part DEF v
<1>4. ~ IsPlaceholder(v)
  <2>1. SUFFICES ASSUME IsPlaceholder(v) PROVE FALSE
      OBVIOUS
  <2>2. Len(v) = 4 /\ \A x \in 1 .. 4 : v[x].kind \in MarkKinds
      BY <2>1, PlaceholderMarks
  <2>9. e - f + 1 = 4
      BY <1>3, <2>2
  <2>6. c - f + 1 \in 1 .. 4 /\ c - f + 1 \in 1 .. e - f + 1 /\ f + (c - f + 1) - 1 = c
    <3>1. f \in Int /\ e \in Int /\ c \in Int /\ f <= c /\ c <= e
        BY <1>2
    <3> QED
        BY <2>9, <3>1, WithinFour
  <2>7. u[c].kind \in MarkKinds
      BY <1>3, <2>2, <2>6
  <2>10. c \in 1 .. Len(u)
      BY <1>2
  <2> QED
      BY <2>7, <2>10, ClientOrMark
<1>5. isInsidePlaceholder(u, f) => f # 1 /\ u[f - 1].kind \in MarkKinds
  <2>1. SUFFICES ASSUME isInsidePlaceholder(u, f) PROVE f # 1 /\ u[f - 1].kind \in MarkKinds
      OBVIOUS
  <2>2. PICK i \in 1 .. Len(u) : TokenAt(u, i) /\ f \in i + 2 .. i + 4
      BY <1>1, <2>1 DEF isInsidePlaceholder
  <2>3. u[i + 1].kind = "{" /\ u[i + 2].kind = "body" /\ u[i + 3].kind = "}"
      BY <1>1, <2>2, TokenKinds
  <2>4. f # 1 /\ (f - 1 = i + 1 \/ f - 1 = i + 2 \/ f - 1 = i + 3)
      BY <1>1, <2>2
  <2> QED
      BY <2>3, <2>4 DEF MarkKinds
<1>6. p \in {"api_key", "password"} \/ f = 1 \/ u[f - 1].kind \notin MarkKinds
    BY DEF Reached, f
<1>7. Skips(p, u, y) => IsPlaceholder(v) \/ (p \notin {"api_key", "password"} /\ isInsidePlaceholder(u, f))
    BY Zenon DEF Skips, v, f, e
<1> QED
    BY <1>4, <1>5, <1>6, <1>7
LEMMA MatchesAgree ==
    ASSUME NEW S, NEW t \in Seq(S), NEW n \in DOMAIN Passes, NEW x \in FindAll(Passes[n], t),
           NEW y \in FindAll(Passes[n], t), x.from = y.from
    PROVE  x.to = y.to
<1>1. ASSUME NEW kind, x \in KindMatches(t, kind), y \in KindMatches(t, kind) PROVE x.to = y.to
    BY <1>1 DEF KindMatches
<1>2. ASSUME NEW kind, x \in KeyMatches(t, kind), y \in KeyMatches(t, kind) PROVE x.to = y.to
    BY <1>2, KeyRuns DEF RunsOf
<1>3. ASSUME x \in URLMatches(t), y \in URLMatches(t) PROVE x.to = y.to
    BY <1>3, URLRuns DEF RunsOf
<1>4. ASSUME x \in PasswordMatches(t), y \in PasswordMatches(t) PROVE x.to = y.to
    BY <1>4, PasswordRuns DEF RunsOf
<1>5. Passes[n] \in {"api_key", "password", "format", "PHONE", "EMAIL", "URL_ADDRESS", "PASSWORD"}
    BY DEF Passes
<1> QED
    BY <1>1, <1>2, <1>3, <1>4, <1>5 DEF FindAll

\* What has become of the text when the matches that begin at i or behind it are
\* replaced: those in front of them are untouched, and nothing of the others is seen.
Kept(r, i, t, matches, p, o) ==
    /\ InPlace(r.text, o) /\ Starts(r.text) /\ Seen(r.text) \subseteq Seen(t)
    /\ \A c \in 1 .. Len(t) : (\A y \in matches : y.from >= i => c < y.from) =>
           c <= Len(r.text) /\ r.text[c] = t[c]
    /\ \A y \in matches : y.from >= i /\ Reached(p, t, y) =>
           \A c \in y.from .. y.to : t[c].at # 0 => t[c].at \notin Seen(r.text)

LEMMA OneKept ==
    ASSUME NEW o, OfClient(o), NEW n \in DOMAIN Passes, NEW S, NEW t \in Seq(S), NEW r,
           NEW R, r.text \in Seq(R), NEW i \in 1 .. Len(t),
           Kept(r, i + 1, t, FindAll(Passes[n], t), Passes[n], o)
    PROVE  Kept(ReplacedAt(Passes[n], r, FindAll(Passes[n], t), i), i, t, FindAll(Passes[n], t),
                Passes[n], o)
<1> DEFINE p == Passes[n]
           matches == FindAll(p, t)
           here == {x \in matches : x.from = i}
           x0 == CHOOSE x \in here : TRUE
           q == ReplacedAt(p, r, matches, i)
<1>1. Len(t) \in Nat /\ i \in Int /\ Len(r.text) \in Nat
    BY LenProperties
<1>2. /\ \A y \in matches : y.from \in 1 .. Len(t) /\ y.to \in y.from .. Len(t)
      /\ \A x, y \in matches : x.from < y.from => x.to < y.from
    BY MatchesSeparate DEF Separate
<1>3. \A y \in matches : Anchored(t, y.from)
    BY MatchesAnchored
<1>4. Kept(r, i + 1, t, matches, p, o)
    OBVIOUS
<1>5. CASE here = {}
  <2>1. q = r
      BY <1>5 DEF ReplacedAt
  <2>2. \A y \in matches : y.from # i
      BY <1>5
  <2> HIDE DEF p, matches, here, q
  <2>3. \A y \in matches : y.from >= i <=> y.from >= i + 1
      BY <1>1, <1>2, <2>2
  <2>4. Kept(r, i, t, matches, p, o)
      BY <1>4, <2>3 DEF Kept
  <2> QED
      BY <2>1, <2>4 DEF q, matches, p
<1>6. CASE here # {}
  <2>1. q = Replaced(p, r, x0)
      BY <1>6 DEF ReplacedAt
  <2>2. x0 \in matches /\ x0.from = i
    <3>1. x0 \in here
        BY <1>6
    <3> HIDE DEF x0
    <3> QED
        BY <3>1
  <2>11. \A y \in matches : y.from = i => y.to = x0.to
      BY <2>2, MatchesAgree
  <2> DEFINE u == r.text
             e == x0.to
             v == SubSeq(u, i, e)
  <2> HIDE DEF p, matches, here, q, x0
  <2>3. e \in i .. Len(t) /\ e \in Int
      BY <1>1, <1>2, <2>2
  <2>4. \A y \in matches : y.from >= i + 1 => e < y.from
    <3>1. \A y \in matches : y.from >= i + 1 => x0.from < y.from
        BY <1>1, <1>2, <2>2
    <3> QED
        BY <1>2, <2>2, <3>1
  <2>5. \A c \in 1 .. e : c <= Len(u) /\ u[c] = t[c]
    <3>1. SUFFICES ASSUME NEW c \in 1 .. e PROVE c <= Len(u) /\ u[c] = t[c]
        OBVIOUS
    <3>2. c \in 1 .. Len(t) /\ \A y \in matches : y.from >= i + 1 => c < y.from
        BY <1>1, <1>2, <2>3, <2>4
    <3> QED
        BY <1>4, <3>2 DEF Kept
  <2>6. InPlace(u, o) /\ Starts(u) /\ Seen(u) \subseteq Seen(t)
      BY <1>4 DEF Kept
  <2> HIDE DEF u, e, v
  <2>7. u \in Seq(R) /\ i \in 1 .. Len(u) /\ e \in i .. Len(u) /\ Len(u) \in Nat
    <3>1. e \in 1 .. e /\ i \in 1 .. e
        BY <1>1, <2>3
    <3>2. e <= Len(u) /\ i <= Len(u)
        BY <2>5, <3>1
    <3> QED
        BY <1>1, <2>3, <3>2 DEF u
  <2>8. Anchored(u, i)
    <3>1. Anchored(t, i)
        BY <1>3, <2>2
    <3>2. u[i] = t[i] /\ (i > 1 => u[i - 1] = t[i - 1])
      <4>1. i \in 1 .. e /\ (i > 1 => i - 1 \in 1 .. e)
          BY <1>1, <2>3
      <4> QED
          BY <2>5, <4>1
    <3> QED
        BY <3>1, <3>2 DEF Anchored
  <2>9. ASSUME Skips(p, u, x0) PROVE Kept(q, i, t, matches, p, o)
    <3>1. q = r
        BY <2>1, <2>9 DEF Replaced, u
    <3>2. ASSUME NEW y \in matches, y.from >= i, Reached(p, t, y), NEW c \in y.from .. y.to,
                 t[c].at # 0
          PROVE  t[c].at \notin Seen(r.text)
      <4>1. CASE y.from >= i + 1
          BY <1>4, <3>2, <4>1 DEF Kept
      <4>2. CASE ~ (y.from >= i + 1)
        <5>1. y.from = i
            BY <1>1, <1>2, <3>2, <4>2
        <5>3. Reached(p, u, x0)
          <6>1. i = 1 \/ (i # 1 /\ i - 1 \in 1 .. e)
              BY <1>1, <2>3
          <6> QED
              BY <2>2, <2>5, <3>2, <5>1, <6>1 DEF Reached
        <5>4. c \in i .. e
            BY <2>11, <3>2, <5>1 DEF e
        <5>5. c \in 1 .. e
            BY <1>1, <2>3, <5>4
        <5>6. u[c] = t[c] /\ x0.from = i /\ x0.to = e
            BY <2>2, <2>5, <5>5 DEF e
        <5> QED
            BY <2>6, <2>7, <2>9, <3>2, <5>3, <5>4, <5>6, NotSkipped
      <4> QED
          BY <4>1, <4>2
    <3>3. ASSUME NEW c \in 1 .. Len(t), \A y \in matches : y.from >= i => c < y.from
          PROVE  c <= Len(r.text) /\ r.text[c] = t[c]
      <4>1. \A y \in matches : y.from >= i + 1 => y.from >= i
          BY <1>1, <1>2
      <4> QED
          BY <1>4, <3>3, <4>1 DEF Kept
    <3> QED
        BY <1>4, <3>1, <3>2, <3>3 DEF Kept
  <2>10. ASSUME ~ Skips(p, u, x0) PROVE Kept(q, i, t, matches, p, o)
    <3> DEFINE g == SubSeq(u, 1, i - 1) \o GeneratePlaceholder(TypeOf(p), v) \o SubSeq(u, e + 1, Len(u))
    <3>1. q.text = g
        BY <2>1, <2>2, <2>10 DEF Replaced, u, v, e
    <3>2. WithToken(u, i, e, g)
        BY <2>7, ReplacedElements
    <3> HIDE DEF g
    <3>3. InPlace(g, o) /\ Starts(g) /\ Seen(g) \subseteq Seen(u)
          /\ \A c \in i .. e : u[c].at # 0 => u[c].at \notin Seen(g)
        BY <2>6, <2>7, <2>8, <3>2, TokenInPlace
    <3>4. ASSUME NEW c \in 1 .. Len(t), \A y \in matches : y.from >= i => c < y.from
          PROVE  c <= Len(g) /\ g[c] = t[c]
      <4>1. c < i /\ c \in 1 .. i - 1 /\ c \in 1 .. e
          BY <1>1, <2>2, <2>3, <3>4
      <4>2. g[c] = u[c] /\ Len(g) = Len(u) + 3 + i - e
          BY <3>2, <4>1 DEF WithToken
      <4>3. c <= Len(g)
          BY <1>1, <2>3, <2>7, <4>1, <4>2
      <4> QED
          BY <2>5, <4>1, <4>2, <4>3
    <3>5. ASSUME NEW y \in matches, y.from >= i, Reached(p, t, y), NEW c \in y.from .. y.to,
                 t[c].at # 0
          PROVE  t[c].at \notin Seen(g)
      <4>1. CASE y.from >= i + 1
        <5>1. t[c].at \notin Seen(r.text)
            BY <1>4, <3>5, <4>1 DEF Kept
        <5> QED
            BY <3>3, <5>1 DEF u
      <4>2. CASE ~ (y.from >= i + 1)
        <5>1. y.from = i
            BY <1>1, <1>2, <3>5, <4>2
        <5>2. c \in i .. e
            BY <2>11, <3>5, <5>1 DEF e
        <5>3. c \in 1 .. e
            BY <1>1, <2>3, <5>2
        <5>4. u[c] = t[c]
            BY <2>5, <5>3
        <5> QED
            BY <3>3, <3>5, <5>2, <5>4
      <4> QED
          BY <4>1, <4>2
    <3>6. Seen(g) \subseteq Seen(t)
        BY <2>6, <3>3
    <3> QED
        BY <3>1, <3>3, <3>4, <3>5, <3>6 DEF Kept
  <2> QED
      BY <2>9, <2>10 DEF q, matches, p
<1> QED
    BY <1>5, <1>6
\* A pass leaves the client's text in its place, and of the matches that are not right
\* behind a mark nothing is seen.
LEMMA MaskedKept ==
    ASSUME NEW o, OfClient(o), NEW l \in DOMAIN Passes, NEW t, NEW m, NEW w, InPlace(t, o), Starts(t),
           Fits([text |-> t, made |-> m]), Restores([text |-> t, made |-> m], w)
    PROVE  Kept(Masked(Passes[l], t, m), 1, t, FindAll(Passes[l], t), Passes[l], o)
<1> DEFINE n == Len(t)
           p == Passes[l]
           matches == FindAll(p, t)
           start == [text |-> t, made |-> m]
<1>1. t \in Seq(Elements(m)) /\ start.text = t
    BY DEF Fits
<1>2. n \in Nat /\ \A y \in matches : y.from \in 1 .. n
    BY <1>1, LenProperties, MatchesSeparate DEF Separate
<1>3. PICK g : Steps(g, p, t, m, w) /\ Masked(p, t, m) = g[1]
    BY MaskedSteps
<1>4. /\ g[n + 1] = start
      /\ \A i \in 1 .. n : g[i] = ReplacedAt(p, g[i + 1], matches, i)
      /\ \A i \in 1 .. n + 1 : Good(g[i], i, t, matches, w)
    BY <1>3 DEF Steps
<1>5. Kept(start, n + 1, t, matches, p, o)
  <2> HIDE DEF matches, p, start
  <2>1. \A y \in matches : ~ (y.from >= n + 1)
      BY <1>2
  <2>2. \A c \in 1 .. Len(t) : c <= Len(t)
      BY <1>2
  <2> QED
      BY <1>1, <2>1, <2>2 DEF Kept
<1>6. ASSUME NEW i \in 1 .. n, Kept(g[i + 1], i + 1, t, matches, p, o)
      PROVE  Kept(g[i], i, t, matches, p, o)
  <2> DEFINE r == g[i + 1]
  <2>1. i + 1 \in 1 .. n + 1
      BY <1>2
  <2>2. Good(r, i + 1, t, matches, w)
      BY <1>4, <2>1
  <2>3. g[i] = ReplacedAt(p, r, matches, i)
      BY <1>4
  <2> HIDE DEF r
  <2>4. r.text \in Seq(Elements(r.made))
      BY <2>2 DEF Good, Fits
  <2>5. Kept(r, i + 1, t, matches, p, o)
      BY <1>6 DEF r
  <2>6. Kept(ReplacedAt(p, r, matches, i), i, t, matches, p, o)
      BY <1>1, <2>4, <2>5, OneKept
  <2> QED
      BY <2>3, <2>6
<1> HIDE DEF matches, p, start, n
<1> DEFINE P == {k \in Nat : k <= n => Kept(g[n + 1 - k], n + 1 - k, t, matches, p, o)}
<1>7. 0 \in P
  <2>1. n + 1 - 0 = n + 1
      BY <1>2
  <2> QED
      BY <1>4, <1>5, <2>1
<1>8. ASSUME NEW k \in Nat, k \in P PROVE k + 1 \in P
  <2>1. SUFFICES ASSUME k + 1 <= n PROVE Kept(g[n + 1 - (k + 1)], n + 1 - (k + 1), t, matches, p, o)
      OBVIOUS
  <2>2. Kept(g[n + 1 - k], n + 1 - k, t, matches, p, o)
      BY <1>2, <1>8, <2>1
  <2> DEFINE i == n + 1 - (k + 1)
  <2>3. i \in 1 .. n /\ n + 1 - k = i + 1
      BY <1>2, <2>1
  <2> HIDE DEF i
  <2>4. Kept(g[i], i, t, matches, p, o)
      BY <1>6, <2>2, <2>3
  <2> QED
      BY <2>4 DEF i
<1> HIDE DEF P
<1>9. n \in P
    BY <1>2, <1>7, <1>8, AllNumbers
<1>10. n <= n /\ n + 1 - n = 1
    BY <1>2
<1>11. Kept(g[1], 1, t, matches, p, o)
    BY <1>9, <1>10 DEF P
<1> QED
    BY <1>3, <1>11 DEF matches, p

\* The client's lexemes from a to b stand in t from x on.
Stands(t, o, x, a, b) ==
    /\ x \in 1 .. Len(t) /\ x + (b - a) \in 1 .. Len(t)
    /\ \A k \in a .. b : /\ x + (k - a) \in 1 .. Len(t)
                         /\ t[x + (k - a)].at = k /\ t[x + (k - a)] = o[k]

\* What can all be seen stands together.
LEMMA SeenStands ==
    ASSUME NEW o, OfClient(o), NEW t, InPlace(t, o), NEW a \in Nat \ {0}, NEW b \in Nat, a <= b,
           \A j \in a .. b : j \in Seen(t)
    PROVE  \E x : Stands(t, o, x, a, b)
<1>1. Len(t) \in Nat
    BY DEF InPlace
<1> DEFINE P == {n \in Nat : a + n <= b => \E x : Stands(t, o, x, a, a + n)}
<1>2. 0 \in P
  <2>1. a \in a .. b
      OBVIOUS
  <2>2. PICK x \in 1 .. Len(t) : t[x].at = a /\ a # 0
      BY <2>1 DEF Seen
  <2>3. t[x] = o[a]
      BY <2>2, ClientOrMark
  <2>4. x + (a - a) = x /\ a + 0 = a /\ \A k \in a .. a : k = a
      BY <1>1
  <2>5. Stands(t, o, x, a, a)
      BY <2>2, <2>3, <2>4 DEF Stands
  <2> QED
      BY <2>4, <2>5
<1>3. ASSUME NEW n \in Nat, n \in P PROVE n + 1 \in P
  <2>1. SUFFICES ASSUME a + (n + 1) <= b PROVE \E x : Stands(t, o, x, a, a + (n + 1))
      OBVIOUS
  <2>2. PICK x : Stands(t, o, x, a, a + n)
      BY <1>3, <2>1
  <2> DEFINE y == x + ((a + n) - a)
             c == a + (n + 1)
  <2>3. c \in a .. b /\ a + n \in a .. a + n /\ c = (a + n) + 1 /\ c # 0 /\ a + n # 0
      BY <2>1
  <2>4. x \in 1 .. Len(t) /\ y \in 1 .. Len(t) /\ t[y].at = a + n
        /\ \A k \in a .. a + n : /\ x + (k - a) \in 1 .. Len(t)
                                 /\ t[x + (k - a)].at = k /\ t[x + (k - a)] = o[k]
      BY <2>2, <2>3 DEF Stands
  <2> HIDE DEF y, c
  <2>5. PICK z \in 1 .. Len(t) : t[z].at = c
      BY <2>3 DEF Seen
  <2>6. t[z] = o[c]
      BY <2>3, <2>5, ClientOrMark
  <2>7. z = y + 1
    <3>1. ~ (z < y)
      <4>1. z < y => t[z].at < t[y].at
          BY <2>3, <2>4, <2>5 DEF InPlace
      <4> QED
          BY <2>3, <2>4, <2>5, <4>1
    <3>2. z # y
        BY <2>3, <2>4, <2>5
    <3>3. y < z
        BY <1>1, <2>4, <3>1, <3>2
    <3>4. z = y + 1 <=> t[z].at = t[y].at + 1
        BY <2>3, <2>4, <2>5, <3>3 DEF InPlace
    <3> QED
        BY <2>3, <2>4, <2>5, <3>4
  <2>8. z = x + (c - a)
      BY <1>1, <2>3, <2>4, <2>7 DEF y
  <2>9. \A k \in a .. c : k \in a .. a + n \/ k = c
      BY <2>3
  <2>10. Stands(t, o, x, a, c)
      BY <2>4, <2>5, <2>6, <2>8, <2>9 DEF Stands
  <2> QED
      BY <2>10 DEF c
<1> HIDE DEF P
<1>4. b - a \in Nat /\ a + (b - a) = b /\ b <= b
    OBVIOUS
<1>5. b - a \in P
    BY <1>2, <1>3, <1>4, AllNumbers
<1> QED
    BY <1>4, <1>5 DEF P
\* A lexeme of the client's stands once.
LEMMA StandsOnce ==
    ASSUME NEW o, NEW t, InPlace(t, o), NEW x \in 1 .. Len(t), NEW y \in 1 .. Len(t),
           t[x].at # 0, t[x].at = t[y].at
    PROVE  x = y
<1>1. Len(t) \in Nat /\ t[x].at \in Nat
    BY DEF InPlace
<1>2. ~ (x < y) /\ ~ (y < x)
  <2>1. x < y => t[x].at < t[y].at
      BY DEF InPlace
  <2>2. y < x => t[y].at < t[x].at
      BY DEF InPlace
  <2> QED
      BY <1>1, <2>1, <2>2
<1> QED
    BY <1>1, <1>2

\* Behind a lexeme of the client's is the next one or a placeholder.
LEMMA NextLexeme ==
    ASSUME NEW o, OfClient(o), NEW t, InPlace(t, o), Starts(t), NEW x \in 1 .. Len(t),
           t[x].at # 0, t[x].at < Len(o)
    PROVE  /\ x + 1 \in 1 .. Len(t)
           /\ \/ t[x + 1] = o[t[x].at + 1] /\ t[x + 1].at = t[x].at + 1
              \/ TokenAt(t, x + 1)
<1>1. Len(t) \in Nat
    BY DEF InPlace
<1>2. x < Len(t)
    BY DEF InPlace
<1> DEFINE y == x + 1
<1>3. y \in 1 .. Len(t) /\ y = x + 1 /\ x < y /\ y - 1 = x /\ y # 1
    BY <1>1, <1>2
<1> HIDE DEF y
<1>4. CASE t[y].at # 0
  <2>1. t[y].at = t[x].at + 1
      BY <1>3, <1>4 DEF InPlace
  <2>2. t[y] = o[t[y].at]
      BY <1>3, <1>4, ClientOrMark
  <2> QED
      BY <1>3, <2>1, <2>2
<1>5. CASE t[y].at = 0
  <2>1. t[y].kind \in MarkKinds /\ t[x].kind \notin MarkKinds
      BY <1>3, <1>5, ClientOrMark
  <2>2. TokenAt(t, y)
      BY <1>3, <2>1 DEF Starts
  <2> QED
      BY <1>3, <2>2
<1> QED
    BY <1>4, <1>5

\* Where a run of the client's text began, there is still one that is as long, or holds a
\* body.
LEMMA RunKept ==
    ASSUME NEW o, OfClient(o), NEW S, NEW t \in Seq(S), NEW R, o \in Seq(R), InPlace(t, o), Starts(t),
           NEW a \in 1 .. Len(o), NEW b \in a .. Len(o), b = RunEnd(o, a, {"quote", "stop"}),
           NEW x \in 1 .. Len(t), t[x].at = a,
           Length(SubSeq(o, a, b)) >= 8
    PROVE  Length(SubSeq(t, x, RunEnd(t, x, {"quote", "stop"}))) >= 8
<1> DEFINE without == {"quote", "stop"}
           e == RunEnd(t, x, without)
<1>1. Len(t) \in Nat /\ Len(o) \in Nat
    BY LenProperties
<1>2. a \in Nat \ {0} /\ b \in Nat /\ a <= b /\ b <= Len(o) /\ a # 0 /\ x \in Int
    BY <1>1
<1>3. \A c \in a .. b : o[c].kind \notin without
  <2>1. a \in 1 .. Len(o) + 1
      BY <1>1
  <2> HIDE DEF without
  <2> QED
      BY <1>1, <2>1, RunEndFacts DEF without
<1>4. e \in (x - 1) .. Len(t)
      /\ \A j \in x .. Len(t) : (\A c \in x .. j : t[c].kind \notin without) => j <= e
  <2>1. x \in 1 .. Len(t) + 1
      BY <1>1
  <2> HIDE DEF without
  <2> QED
      BY <1>1, <2>1, RunEndFacts DEF e
<1>5. \A k \in MarkKinds : k \notin without
    BY DEF MarkKinds
<1> HIDE DEF without, e
<1>6. ASSUME NEW n \in a .. b, \A j \in a .. n : j \in Seen(t)
      PROVE  /\ Stands(t, o, x, a, n)
             /\ \A c \in x .. x + (n - a) : t[c].kind \notin without
  <2>1. n \in Nat /\ a <= n
      BY <1>2
  <2>2. PICK z : Stands(t, o, z, a, n)
      BY <1>2, <1>6, <2>1, SeenStands
  <2>3. z \in 1 .. Len(t) /\ \A k \in a .. n : t[z + (k - a)].at = k /\ t[z + (k - a)] = o[k]
      BY <2>2 DEF Stands
  <2>4. z + (a - a) = z /\ a \in a .. n
      BY <1>1, <1>2, <2>1, <2>3
  <2>5. t[z].at = a
      BY <2>3, <2>4
  <2>6. z = x
      BY <1>2, <2>3, <2>5, StandsOnce, SMTT(30)
  <2>7. ASSUME NEW c \in x .. x + (n - a) PROVE t[c].kind \notin without
    <3>1. a + (c - x) \in a .. n /\ a + (c - x) \in a .. b /\ x + ((a + (c - x)) - a) = c
        BY <1>2, <2>1, SMTT(30)
    <3>2. t[c] = o[a + (c - x)]
        BY <2>3, <2>6, <3>1
    <3> QED
        BY <1>3, <3>1, <3>2
  <2> QED
      BY <2>2, <2>6, <2>7
<1>7. \A u, v : u \in 1 .. Len(t) /\ v \in u - 1 .. Len(t) =>
         Len(SubSeq(t, u, v)) = v - u + 1 /\ \A k \in 1 .. v - u + 1 : SubSeq(t, u, v)[k] = t[u + k - 1]
  <2>1. SUFFICES ASSUME NEW u \in 1 .. Len(t), NEW v \in u - 1 .. Len(t)
        PROVE Len(SubSeq(t, u, v)) = v - u + 1 /\ \A k \in 1 .. v - u + 1 : SubSeq(t, u, v)[k] = t[u + k - 1]
      OBVIOUS
  <2>2. u \in 1 .. Len(t) + 1
      BY <1>1
  <2> QED
      BY <2>2, Part
<1> DEFINE run == SubSeq(t, x, e)
<1>8. Len(run) = e - x + 1 /\ \A k \in 1 .. e - x + 1 : run[k] = t[x + k - 1]
    BY <1>4, <1>7
<1> HIDE DEF run
<1>9. CASE \A j \in a .. b : j \in Seen(t)
  <2>1. b \in a .. b
      BY <1>2
  <2>2. Stands(t, o, x, a, b) /\ \A c \in x .. x + (b - a) : t[c].kind \notin without
      BY <1>6, <1>9, <2>1
  <2>3. x + (b - a) \in 1 .. Len(t) /\ \A k \in a .. b : t[x + (k - a)] = o[k]
      BY <2>2 DEF Stands
  <2>4. x + (b - a) \in x .. Len(t)
      BY <1>1, <1>2, <2>3
  <2>5. x + (b - a) <= e
      BY <1>4, <2>2, <2>4
  <2> DEFINE value == SubSeq(o, a, b)
  <2>6. Len(value) = b - a + 1 /\ \A k \in 1 .. b - a + 1 : value[k] = o[a + k - 1]
    <3>1. a \in 1 .. Len(o) + 1 /\ b \in a - 1 .. Len(o)
        BY <1>1, <1>2
    <3> QED
        BY <3>1, Part
  <2>7. Length(value) >= 8
      OBVIOUS
  <2> HIDE DEF value
  <2>8. e \in Int /\ Len(run) \in Nat /\ Len(value) \in Nat /\ Len(value) <= Len(run)
      BY <1>1, <1>2, <1>4, <1>8, <2>5, <2>6, SMTT(30)
  <2>9. \A k \in 1 .. Len(value) : value[k] = run[k]
    <3>1. SUFFICES ASSUME NEW k \in 1 .. Len(value) PROVE value[k] = run[k]
        OBVIOUS
    <3>2. /\ k \in 1 .. b - a + 1 /\ k \in 1 .. e - x + 1 /\ a + k - 1 \in a .. b
          /\ x + ((a + k - 1) - a) = x + k - 1
        BY <1>1, <1>2, <1>8, <2>6, <2>8, SMTT(30)
    <3>3. value[k] = o[a + k - 1] /\ run[k] = t[x + k - 1]
        BY <1>8, <2>6, <3>2
    <3>4. t[x + ((a + k - 1) - a)] = o[a + k - 1]
        BY <2>3, <3>2
    <3> QED
        BY <3>2, <3>3, <3>4
  <2>10. Length(value) <= Length(run)
      BY <2>8, <2>9, LengthOfStart
  <2>11. Length(value) \in Nat /\ Length(run) \in Nat
      BY <2>8, LengthOfParts
  <2>12. Length(run) >= 8
      BY <2>7, <2>10, <2>11
  <2> QED
      BY <2>12 DEF run, e, without
<1>10. CASE ~ \A j \in a .. b : j \in Seen(t)
  <2> DEFINE T == {j \in a .. b : j \notin Seen(t)}
  <2>1. T # {} /\ T \subseteq Nat
      BY <1>2, <1>10
  <2>2. PICK j \in T : \A k \in T : j <= k
    <3> HIDE DEF T
    <3> QED
        BY <2>1, LeastNumber
  <2>3. j \in a .. b /\ j \notin Seen(t) /\ \A k \in a .. b : k \notin Seen(t) => j <= k
      BY <2>2
  <2> HIDE DEF T
  <2>4. a \in Seen(t)
      BY <1>2 DEF Seen
  <2>5. j - 1 \in a .. b /\ j - 1 < Len(o) /\ j - 1 # 0 /\ (j - 1) + 1 = j
    <3>1. j # a
        BY <2>3, <2>4
    <3> QED
        BY <1>2, <2>3, <3>1
  <2>6. \A k \in a .. j - 1 : k \in Seen(t)
    <3>1. \A k \in a .. j - 1 : k \in a .. b /\ ~ (j <= k)
        BY <1>2, <2>3
    <3> QED
        BY <2>3, <3>1
  <2> DEFINE y == x + ((j - 1) - a)
  <2>7. Stands(t, o, x, a, j - 1) /\ \A c \in x .. y : t[c].kind \notin without
      BY <1>6, <2>5, <2>6
  <2>8. y \in 1 .. Len(t) /\ t[y].at = j - 1
    <3>1. j - 1 \in a .. j - 1
        BY <1>2, <2>5
    <3> QED
        BY <2>7, <3>1 DEF Stands
  <2>9. y >= x
      BY <1>2, <2>5
  <2> HIDE DEF y
  <2>10. y + 1 \in 1 .. Len(t)
         /\ (t[y + 1].at = j \/ TokenAt(t, y + 1))
      BY <2>5, <2>8, NextLexeme
  <2>11. t[y + 1].at # j
    <3>1. j # 0
        BY <1>2, <2>3
    <3> QED
        BY <2>3, <2>10, <3>1 DEF Seen
  <2> DEFINE z == y + 1
  <2>12. TokenAt(t, z) /\ z = y + 1
      BY <2>10, <2>11
  <2> HIDE DEF z
  <2>13. z \in 1 .. Len(t) - 3 /\ (\A c \in z .. z + 3 : t[c].kind \in MarkKinds)
         /\ t[z + 2].kind = "body"
      BY <1>1, <2>12, TokenMarks, TokenKinds
  <2>14. z + 3 <= e
    <3>1. \A c \in x .. z + 3 : c \in x .. y \/ c \in z .. z + 3
        BY <1>2, <2>8, <2>12, <2>13
    <3>2. \A c \in x .. z + 3 : t[c].kind \notin without
        BY <1>5, <2>7, <2>13, <3>1
    <3>3. z \in 1 .. Len(t) - 3
        BY <2>13
    <3>4. z + 3 \in x .. Len(t)
        BY <1>1, <1>2, <2>8, <2>9, <2>12, <3>3, SMTT(30)
    <3> QED
        BY <1>4, <3>2, <3>4
  <2>15. z \in Int /\ e \in Int /\ x <= z
      BY <1>1, <1>2, <1>4, <2>8, <2>9, <2>12
  <2>16. (z + 2) - x + 1 \in 1 .. e - x + 1 /\ x + ((z + 2) - x + 1) - 1 = z + 2 /\ Len(run) \in Nat
      BY <1>2, <1>8, <2>14, <2>15
  <2>17. run[(z + 2) - x + 1].kind = "body"
      BY <1>8, <2>13, <2>16
  <2>18. Size("body") <= Length(run) /\ Length(run) \in Nat
    <3>1. \A k \in 1 .. Len(run) : Size(run[k].kind) <= Length(run)
        BY <2>16, LengthOfParts
    <3>2. (z + 2) - x + 1 \in 1 .. Len(run)
        BY <1>8, <2>16
    <3>3. Length(run) \in Nat
        BY <2>16, LengthOfParts
    <3> QED
        BY <2>17, <3>1, <3>2, <3>3
  <2>19. Length(run) >= 8
      BY <2>18, SizeFacts
  <2> QED
      BY <2>19 DEF run, e, without
<1> QED
    BY <1>9, <1>10
\* Of a match m of the client's text all that NothingLeaks asks about is seen, up to i.
Shown(m, i, t) == \A j \in (m.open .. i) \cup {m.from - 1} : j > 0 => j \in Seen(t)

\* Then a match that is replaced holds a part of it.
Hit(p, t, matches, m, i) ==
    \E y \in matches : /\ Reached(p, t, y)
                       /\ \E c \in y.from .. y.to :
                              t[c].at # 0 /\ t[c].at \in (m.open .. i) \cup {m.from - 1}

LEMMA KeyHit ==
    ASSUME NEW o, OfClient(o), NEW S, NEW t \in Seq(S), NEW R, o \in Seq(R), InPlace(t, o), Starts(t),
           NEW p \in {"api_key", "password"}, NEW kind \in {"key", "pwd"},
           NEW m \in KeyMatches(o, kind), NEW i \in m.from .. m.to, Shown(m, i, t)
    PROVE  Hit(p, t, KeyMatches(t, kind), m, i)
<1> DEFINE a == m.open
           f == m.from
           without == {"quote", "stop"}
           matches == KeyMatches(t, kind)
<1>1. Len(t) \in Nat /\ Len(o) \in Nat /\ DOMAIN t = 1 .. Len(t) /\ DOMAIN o = 1 .. Len(o)
    BY LenProperties
<1>2. /\ a \in DOMAIN KeyBegin(o, kind) /\ f = KeyBegin(o, kind)[a]
      /\ m.to = RunEnd(o, f, without) /\ f \in a .. Len(o) + 1 /\ m.to \in f .. Len(o)
      /\ Length(SubSeq(o, f, m.to)) >= 8
    BY KeyRuns DEF RunsOf
<1>3. /\ a \in 1 .. Len(o) /\ o[a].kind = kind
      /\ \/ f = a + 1 /\ (a + 1 \in 1 .. Len(o) => o[a + 1].kind # "quote")
         \/ f = a + 2 /\ o[a + 1].kind = "quote"
  <2>1. a \in DOMAIN KeyBegin(o, kind) /\ f = KeyBegin(o, kind)[a]
      BY <1>2
  <2> HIDE DEF a, f
  <2>2. /\ a \in 1 .. Len(o) /\ o[a].kind = kind
        /\ \/ KeyBegin(o, kind)[a] = a + 1 /\ (a + 1 \in 1 .. Len(o) => o[a + 1].kind # "quote")
           \/ KeyBegin(o, kind)[a] = a + 2 /\ a + 1 \in 1 .. Len(o) /\ o[a + 1].kind = "quote"
      BY <1>1, <2>1, KeyBegins
  <2> QED
      BY <2>1, <2>2
<1>4. i \in f .. m.to
    OBVIOUS
<1>5. \A j \in a .. i : j > 0 => j \in Seen(t)
    BY DEF Shown
<1> HIDE DEF a, f
<1>6. /\ a \in Nat \ {0} /\ i \in Nat /\ a + 1 <= f /\ f <= i /\ a <= i /\ f \in Nat /\ m.to \in Nat
      /\ a + 1 \in 1 .. Len(o) /\ f \in 1 .. Len(o)
      /\ a \in a .. i /\ a + 1 \in a .. i /\ f \in a .. i
    BY <1>1, <1>2, <1>3, <1>4, SMTT(30)
<1>7. PICK x : Stands(t, o, x, a, i)
  <2>1. \A j \in a .. i : j \in Seen(t)
      BY <1>5, <1>6
  <2> QED
      BY <1>6, <2>1, SeenStands
<1> DEFINE g == x + (f - a)
<1>8. /\ x \in 1 .. Len(t) /\ t[x].at = a /\ t[x] = o[a]
      /\ x + 1 \in 1 .. Len(t) /\ t[x + 1] = o[a + 1]
      /\ g \in 1 .. Len(t) /\ t[g].at = f
  <2>1. /\ x \in 1 .. Len(t)
        /\ \A k \in a .. i : /\ x + (k - a) \in 1 .. Len(t)
                             /\ t[x + (k - a)].at = k /\ t[x + (k - a)] = o[k]
      BY <1>7 DEF Stands
  <2>2. x + (a - a) = x /\ x + ((a + 1) - a) = x + 1
      BY <1>1, <1>6, <2>1
  <2> QED
      BY <1>6, <2>1, <2>2, SMTT(30)
<1> HIDE DEF g
<1>9. x \in DOMAIN KeyBegin(t, kind) /\ KeyBegin(t, kind)[x] = g
  <2>1. x \in DOMAIN KeyBegin(t, kind)
      BY <1>1, <1>3, <1>8 DEF KeyBegin, Positions
  <2>2. \/ KeyBegin(t, kind)[x] = x + 1 /\ (x + 1 \in 1 .. Len(t) => t[x + 1].kind # "quote")
        \/ KeyBegin(t, kind)[x] = x + 2 /\ t[x + 1].kind = "quote"
      BY <1>1, <2>1, KeyBegins
  <2>3. \/ f = a + 1 /\ o[a + 1].kind # "quote"
        \/ f = a + 2 /\ o[a + 1].kind = "quote"
      BY <1>3, <1>6
  <2>4. \/ f = a + 1 /\ KeyBegin(t, kind)[x] = x + 1
        \/ f = a + 2 /\ KeyBegin(t, kind)[x] = x + 2
      BY <1>8, <2>2, <2>3
  <2>5. (f = a + 1 => g = x + 1) /\ (f = a + 2 => g = x + 2)
      BY <1>1, <1>6, <1>8 DEF g
  <2> QED
      BY <2>1, <2>4, <2>5
<1>10. Length(SubSeq(t, g, RunEnd(t, g, without))) >= 8
    BY <1>2, <1>6, <1>8, RunKept
<1>11. RunsOf(t, KeyBegin(t, kind), without, 8, matches)
    BY KeyRuns
<1> HIDE DEF without, matches
<1>12. PICK y \in matches : y.open = x \/ (y.open < x /\ y.to >= x)
    BY <1>9, <1>10, <1>11 DEF RunsOf
<1>13. /\ y.open \in DOMAIN KeyBegin(t, kind) /\ y.from = KeyBegin(t, kind)[y.open]
       /\ y.from \in y.open .. Len(t) + 1 /\ y.to \in y.from .. Len(t)
    BY <1>11 DEF RunsOf
<1>14. Reached(p, t, y)
    BY DEF Reached
<1>15. CASE y.open = x
  <2>1. y.from = g
      BY <1>9, <1>13, <1>15
  <2>2. g \in y.from .. y.to
      BY <1>1, <1>8, <1>13, <2>1
  <2>3. t[g].at # 0 /\ t[g].at \in a .. i
      BY <1>6, <1>8
  <2> QED
      BY <1>14, <2>2, <2>3 DEF Hit, a, f, matches
<1>16. CASE y.open < x /\ y.to >= x
  <2>1. /\ y.open \in 1 .. Len(t)
        /\ \/ y.from = y.open + 1
           \/ y.from = y.open + 2 /\ t[y.open + 1].kind = "quote"
      BY <1>1, <1>13, KeyBegins
  <2>2. t[x].kind # "quote"
      BY <1>3, <1>8
  <2>3. y.open + 1 = x => y.from = y.open + 1
      BY <2>1, <2>2
  <2>4. y.from = y.open + 1 \/ y.from = y.open + 2
      BY <2>1
  <2>5. y.from <= x
      BY <1>1, <1>8, <1>16, <2>1, <2>3, <2>4
  <2>6. x \in y.from .. y.to
      BY <1>1, <1>8, <1>13, <1>16, <2>5
  <2>7. t[x].at # 0 /\ t[x].at \in a .. i
      BY <1>6, <1>8
  <2> QED
      BY <1>14, <2>6, <2>7 DEF Hit, a, f, matches
<1> QED
    BY <1>12, <1>15, <1>16

\* A lexeme of the client's that is first or behind another one is so in t.
LEMMA SeenFree ==
    ASSUME NEW o, OfClient(o), NEW t, InPlace(t, o), NEW a \in Nat \ {0}, a \in Seen(t),
           a - 1 > 0 => a - 1 \in Seen(t)
    PROVE  \E x \in 1 .. Len(t) : /\ t[x].at = a /\ t[x] = o[a]
                                  /\ x = 1 \/ t[x - 1].kind \notin MarkKinds
<1>1. PICK x \in 1 .. Len(t) : t[x].at = a
    BY DEF Seen
<1>2. t[x] = o[a]
    BY <1>1, ClientOrMark
<1>3. Len(t) \in Nat
    BY DEF InPlace
<1>4. CASE a = 1
  <2>1. x = 1
      BY <1>1, <1>4 DEF InPlace
  <2> QED
      BY <1>1, <1>2, <2>1
<1>5. CASE a # 1
  <2>1. PICK z \in 1 .. Len(t) : t[z].at = a - 1
    <3>1. a - 1 > 0
        BY <1>5
    <3> QED
        BY <3>1 DEF Seen
  <2>2. t[z].at # 0 /\ t[x].at # 0 /\ t[z].at < t[x].at /\ t[x].at = t[z].at + 1
      BY <1>1, <1>5, <2>1
  <2>3. ~ (x < z) /\ x # z
    <3>1. x < z => t[x].at < t[z].at
        BY <2>2 DEF InPlace
    <3> QED
        BY <1>1, <2>1, <2>2, <3>1
  <2>4. z < x
      BY <1>3, <2>3
  <2>5. x = z + 1
      BY <2>2, <2>4 DEF InPlace
  <2>6. x - 1 = z
      BY <1>3, <2>5
  <2>7. t[z].kind \notin MarkKinds
      BY <2>2, ClientOrMark
  <2> QED
      BY <1>1, <1>2, <2>6, <2>7
<1> QED
    BY <1>4, <1>5

LEMMA KindHit ==
    ASSUME NEW o, OfClient(o), NEW t, InPlace(t, o), DOMAIN t = 1 .. Len(t), DOMAIN o = 1 .. Len(o),
           NEW p, NEW kind, NEW m \in KindMatches(o, kind), NEW i \in m.from .. m.to, Shown(m, i, t)
    PROVE  Hit(p, t, KindMatches(t, kind), m, i)
<1> DEFINE a == m.from
<1>1. a \in 1 .. Len(o) /\ o[a].kind = kind /\ m.open = a /\ m.to = a
    BY DEF KindMatches, Positions
<1>2. i = a /\ a \in m.open .. i
    BY <1>1
<1>3. \A j \in (m.open .. i) \cup {a - 1} : j > 0 => j \in Seen(t)
    BY DEF Shown
<1> HIDE DEF a
<1>4. a \in Nat \ {0} /\ a > 0
    BY <1>1
<1>5. PICK x \in 1 .. Len(t) : /\ t[x].at = a /\ t[x] = o[a]
                               /\ x = 1 \/ t[x - 1].kind \notin MarkKinds
    BY <1>2, <1>3, <1>4, SeenFree
<1> DEFINE y == [open |-> x, from |-> x, to |-> x]
<1>6. y \in KindMatches(t, kind)
    BY <1>1, <1>5 DEF KindMatches, Positions
<1>7. y.from = x /\ y.to = x
    OBVIOUS
<1> HIDE DEF y
<1>8. Reached(p, t, y)
    BY <1>5, <1>7 DEF Reached
<1>9. x \in y.from .. y.to
    BY <1>7
<1>10. t[x].at # 0 /\ t[x].at \in m.open .. i
    BY <1>2, <1>4, <1>5
<1> QED
    BY <1>6, <1>8, <1>9, <1>10 DEF Hit
LEMMA PasswordHit ==
    ASSUME NEW o, OfClient(o), NEW S, NEW t \in Seq(S), NEW R, o \in Seq(R), InPlace(t, o),
           NEW p, NEW m \in PasswordMatches(o), NEW i \in m.from .. m.to, Shown(m, i, t)
    PROVE  Hit(p, t, PasswordMatches(t), m, i)
<1> DEFINE begin(u) == [j \in Positions(u, "pwd") |-> j + 1]
           a == m.open
           without == {"stop"}
           matches == PasswordMatches(t)
<1>1. Len(t) \in Nat /\ Len(o) \in Nat /\ DOMAIN t = 1 .. Len(t) /\ DOMAIN o = 1 .. Len(o)
    BY LenProperties
<1>2. RunsOf(o, begin(o), without, 1, PasswordMatches(o)) /\ RunsOf(t, begin(t), without, 1, matches)
    BY PasswordRuns
<1>3. /\ DOMAIN begin(o) = Positions(o, "pwd") /\ DOMAIN begin(t) = Positions(t, "pwd")
      /\ \A j \in DOMAIN begin(o) : begin(o)[j] = j + 1
      /\ \A j \in DOMAIN begin(t) : begin(t)[j] = j + 1
    OBVIOUS
<1> HIDE DEF begin, without, matches
<1>4. /\ a \in DOMAIN begin(o) /\ m.from = begin(o)[a] /\ m.to = RunEnd(o, m.from, without)
      /\ m.to \in m.from .. Len(o)
    BY <1>2 DEF RunsOf
<1>5. a \in 1 .. Len(o) /\ o[a].kind = "pwd" /\ m.from = a + 1
    BY <1>1, <1>3, <1>4 DEF Positions
<1>6. \A j \in a .. i : j > 0 => j \in Seen(t)
    BY DEF Shown
<1>7. i \in m.from .. m.to
    OBVIOUS
<1> HIDE DEF a
<1>8. /\ a \in Nat \ {0} /\ i \in Nat /\ a <= i /\ a + 1 \in 1 .. Len(o) /\ a \in a .. i /\ a + 1 \in a .. i
      /\ m.to \in Nat /\ a + 1 <= m.to
    BY <1>1, <1>4, <1>5, <1>7
<1>9. PICK x : Stands(t, o, x, a, i)
  <2>1. \A j \in a .. i : j \in Seen(t)
      BY <1>6, <1>8
  <2> QED
      BY <1>8, <2>1, SeenStands
<1>10. /\ x \in 1 .. Len(t) /\ t[x].at = a /\ t[x] = o[a]
       /\ x + 1 \in 1 .. Len(t) /\ t[x + 1] = o[a + 1] /\ t[x + 1].at = a + 1
  <2>1. /\ x \in 1 .. Len(t)
        /\ \A k \in a .. i : /\ x + (k - a) \in 1 .. Len(t)
                             /\ t[x + (k - a)].at = k /\ t[x + (k - a)] = o[k]
      BY <1>9 DEF Stands
  <2>2. x + (a - a) = x /\ x + ((a + 1) - a) = x + 1
      BY <1>1, <1>8, <2>1
  <2> QED
      BY <1>8, <2>1, <2>2
<1>11. o[a + 1].kind \notin without
  <2>1. a + 1 \in 1 .. Len(o) + 1 /\ a + 1 \in a + 1 .. m.to
      BY <1>1, <1>8
  <2> QED
      BY <1>1, <1>4, <1>5, <2>1, RunEndFacts
<1> DEFINE e == RunEnd(t, x + 1, without)
<1>12. e \in x + 1 .. Len(t)
  <2>1. x + 1 \in 1 .. Len(t) + 1 /\ x + 1 \in x + 1 .. Len(t) /\ \A c \in x + 1 .. x + 1 : c = x + 1
      BY <1>1, <1>10
  <2>2. e \in ((x + 1) - 1) .. Len(t)
        /\ \A j \in x + 1 .. Len(t) : (\A c \in x + 1 .. j : t[c].kind \notin without) => j <= e
      BY <1>1, <2>1, RunEndFacts
  <2> HIDE DEF e
  <2>3. x + 1 <= e
      BY <1>10, <1>11, <2>1, <2>2
  <2> QED
      BY <1>1, <1>10, <2>2, <2>3
<1> HIDE DEF e
<1>13. Length(SubSeq(t, x + 1, e)) >= 1
  <2> DEFINE run == SubSeq(t, x + 1, e)
  <2>1. x + 1 \in 1 .. Len(t) + 1 /\ e \in ((x + 1) - 1) .. Len(t) /\ e - (x + 1) + 1 >= 1 /\ e - (x + 1) + 1 \in Nat
      BY <1>1, <1>10, <1>12
  <2>2. Len(run) = e - (x + 1) + 1
      BY <2>1, Part
  <2> HIDE DEF run
  <2>3. Len(run) \in Nat /\ 1 \in 1 .. Len(run)
      BY <2>1, <2>2
  <2>4. Size(run[1].kind) <= Length(run) /\ Length(run) \in Nat
      BY <2>3, LengthOfParts
  <2>5. Size(run[1].kind) \in Nat /\ Size(run[1].kind) >= 1
      BY SizeFacts
  <2>6. Length(run) >= 1
      BY <2>4, <2>5
  <2> QED
      BY <2>6 DEF run
<1>14. x \in DOMAIN begin(t) /\ begin(t)[x] = x + 1
  <2>1. x \in Positions(t, "pwd")
      BY <1>1, <1>5, <1>10 DEF Positions
  <2> QED
      BY <1>3, <2>1
<1>15. PICK y \in matches : y.open = x \/ (y.open < x /\ y.to >= x)
    BY <1>2, <1>13, <1>14 DEF RunsOf, e
<1>16. /\ y.open \in 1 .. Len(t) /\ t[y.open].kind = "pwd" /\ y.from = y.open + 1
       /\ y.to \in y.from .. Len(t)
  <2>1. y.open \in DOMAIN begin(t) /\ y.from = begin(t)[y.open] /\ y.to \in y.from .. Len(t)
      BY <1>2 DEF RunsOf
  <2> QED
      BY <1>1, <1>3, <2>1 DEF Positions
<1>17. Reached(p, t, y)
  <2>1. y.from - 1 = y.open
      BY <1>1, <1>16
  <2> QED
      BY <1>16, <2>1, NoMarks DEF Reached
<1>18. CASE y.open = x
  <2>1. x + 1 \in y.from .. y.to
      BY <1>1, <1>10, <1>16, <1>18
  <2>2. t[x + 1].at # 0 /\ t[x + 1].at \in a .. i
      BY <1>8, <1>10
  <2> QED
      BY <1>17, <2>1, <2>2 DEF Hit, a, matches
<1>19. CASE y.open < x /\ y.to >= x
  <2>1. x \in y.from .. y.to
      BY <1>1, <1>10, <1>16, <1>19
  <2>2. t[x].at # 0 /\ t[x].at \in a .. i
      BY <1>8, <1>10
  <2> QED
      BY <1>17, <2>1, <2>2 DEF Hit, a, matches
<1> QED
    BY <1>15, <1>18, <1>19

\* Two lexemes, of which the first is that of an address, are long enough for one.
LEMMA AddressIsLong ==
    ASSUME NEW S, NEW t \in Seq(S), NEW a \in 1 .. Len(t), t[a].kind = "url", NEW b \in a + 1 .. Len(t)
    PROVE  Length(SubSeq(t, a, b)) >= 9
<1> DEFINE run == SubSeq(t, a, b)
<1>1. Len(t) \in Nat
    BY LenProperties
<1>2. a \in 1 .. Len(t) + 1 /\ b \in a - 1 .. Len(t) /\ 1 \in 1 .. b - a + 1 /\ a + 1 - 1 = a
      /\ b - a + 1 >= 2 /\ b - a + 1 \in Nat
    BY <1>1
<1>3. Len(run) = b - a + 1 /\ run[1] = t[a]
    BY <1>2, Part
<1> HIDE DEF run
<1>4. Len(run) \in Nat /\ Len(run) >= 2
    BY <1>2, <1>3
<1>5. Size(run[1].kind) + 1 <= Length(run) /\ Length(run) \in Nat
    BY <1>4, LengthOfParts
<1>6. Size(run[1].kind) = 8
    BY <1>3, SizeFacts
<1>7. Length(run) >= 9
    BY <1>5, <1>6
<1> QED
    BY <1>7 DEF run
\* No placeholder begins or goes on between x and y.
NoBrace(t, x, y) == \A c \in x .. y : t[c].kind # "{"

\* Between two lexemes of a run without braces is no placeholder: the client's text stands
\* there as it was.
LEMMA RunInPlace ==
    ASSUME NEW o, OfClient(o), NEW t, InPlace(t, o), Starts(t),
           NEW z \in 1 .. Len(t), NEW x \in z .. Len(t), t[z].at # 0, t[x].at # 0,
           NoBrace(t, z, x)
    PROVE  t[x].at = t[z].at + (x - z) /\ \A c \in z .. x : t[c].at = t[z].at + (c - z) /\ t[c] = o[t[c].at]
<1>0. Len(t) \in Nat
    BY DEF InPlace
<1>1. Len(t) \in Nat /\ z \in Nat /\ x \in Nat /\ 1 <= z /\ z <= x /\ x <= Len(t)
    BY <1>0
<1>2. \A c \in z .. x : t[c].at # 0
  <2> DEFINE T == {c \in z .. x : t[c].at = 0}
  <2>1. SUFFICES ASSUME T # {} PROVE FALSE
      OBVIOUS
  <2>2. T \subseteq Nat
      BY <1>1
  <2>3. PICK c \in T : \A k \in T : c <= k
    <3> HIDE DEF T
    <3> QED
        BY <2>1, <2>2, LeastNumber
  <2>4. c \in z .. x /\ t[c].at = 0 /\ \A k \in z .. x : t[k].at = 0 => c <= k
      BY <2>3
  <2> HIDE DEF T
  <2>5. c # z /\ c # x
      BY <2>4
  <2>6. c - 1 \in z .. x /\ ~ (c <= c - 1) /\ c - 1 \in 1 .. Len(t) /\ c \in 1 .. Len(t) /\ c + 1 \in z .. x
      BY <1>1, <2>4, <2>5
  <2>7. t[c - 1].at # 0
      BY <2>4, <2>6
  <2>8. t[c - 1].kind \notin MarkKinds /\ t[c].kind \in MarkKinds
      BY <2>4, <2>6, <2>7, ClientOrMark
  <2>9. TokenAt(t, c)
      BY <2>6, <2>8 DEF Starts
  <2>10. t[c + 1].kind = "{"
      BY <1>1, <2>9, TokenKinds
  <2> QED
      BY <2>6, <2>10 DEF NoBrace
<1> DEFINE P == {n \in Nat : z + n <= x => t[z + n].at = t[z].at + n}
<1>3. t[z].at \in Nat
    BY DEF InPlace
<1>4. 0 \in P
  <2>1. z + 0 = z /\ t[z].at + 0 = t[z].at
      BY <1>1, <1>3
  <2> QED
      BY <2>1
<1>5. ASSUME NEW n \in Nat, n \in P PROVE n + 1 \in P
  <2>1. SUFFICES ASSUME z + (n + 1) <= x PROVE t[z + (n + 1)].at = t[z].at + (n + 1)
      OBVIOUS
  <2> DEFINE u == z + n
             v == z + (n + 1)
  <2>2. /\ u \in z .. x /\ v \in z .. x /\ v = u + 1 /\ u < v /\ u \in 1 .. Len(t) /\ v \in 1 .. Len(t)
        /\ z + n <= x
      BY <1>1, <2>1
  <2>3. t[u].at = t[z].at + n
      BY <1>5, <2>2
  <2> HIDE DEF u, v
  <2>4. t[v].at = t[u].at + 1
      BY <1>2, <2>2 DEF InPlace
  <2> DEFINE h == t[z].at
             k == t[u].at
             l == t[v].at
  <2>6. h \in Nat /\ k = h + n /\ l = k + 1
      BY <1>3, <2>3, <2>4
  <2> HIDE DEF h, k, l
  <2>7. l = h + (n + 1)
      BY <2>6
  <2>5. t[v].at = t[z].at + (n + 1)
      BY <2>7 DEF h, l
  <2> QED
      BY <2>5 DEF v
<1> HIDE DEF P
<1>6. ASSUME NEW c \in z .. x PROVE t[c].at = t[z].at + (c - z) /\ t[c] = o[t[c].at]
  <2>1. c - z \in Nat /\ z + (c - z) = c /\ c <= x /\ c \in 1 .. Len(t)
      BY <1>1
  <2>2. c - z \in P
      BY <1>4, <1>5, <2>1, AllNumbers
  <2>3. t[c].at = t[z].at + (c - z)
      BY <2>1, <2>2 DEF P
  <2> QED
      BY <1>2, <2>1, <2>3, ClientOrMark, SMTT(30)
<1>7. x \in z .. x
    BY <1>1
<1> QED
    BY <1>6, <1>7

LEMMA URLHit ==
    ASSUME NEW o, OfClient(o), NEW S, NEW t \in Seq(S), NEW R, o \in Seq(R), InPlace(t, o), Starts(t),
           NEW p, NEW m \in URLMatches(o), NEW i \in m.from .. m.to, Shown(m, i, t)
    PROVE  Hit(p, t, URLMatches(t), m, i)
<1> DEFINE begin(u) == [j \in Positions(u, "url") |-> j]
           a == m.open
           without == {"quote", "stop", "{", "}"}
           matches == URLMatches(t)
           found == URLMatches(o)
<1>1. Len(t) \in Nat /\ Len(o) \in Nat /\ DOMAIN t = 1 .. Len(t) /\ DOMAIN o = 1 .. Len(o)
    BY LenProperties
<1>2. RunsOf(o, begin(o), without, 9, found) /\ RunsOf(t, begin(t), without, 9, matches)
    BY URLRuns
<1>3. /\ DOMAIN begin(o) = Positions(o, "url") /\ DOMAIN begin(t) = Positions(t, "url")
      /\ \A j \in DOMAIN begin(o) : begin(o)[j] = j
      /\ \A j \in DOMAIN begin(t) : begin(t)[j] = j
    OBVIOUS
<1>0. "url" \notin without /\ "$" \notin without /\ "{" \in without
    OBVIOUS
<1>4. m \in found
    OBVIOUS
<1> HIDE DEF begin, without, matches, found
<1>5. ASSUME NEW y \in found
      PROVE  /\ y.open \in 1 .. Len(o) /\ o[y.open].kind = "url" /\ y.from = y.open
             /\ y.to \in y.open .. Len(o) /\ y.to = RunEnd(o, y.open, without)
             /\ Length(SubSeq(o, y.open, y.to)) >= 9
  <2>1. /\ y.open \in DOMAIN begin(o) /\ y.from = begin(o)[y.open] /\ y.to \in y.from .. Len(o)
        /\ y.to = RunEnd(o, y.from, without) /\ Length(SubSeq(o, y.from, y.to)) >= 9
      BY <1>2 DEF RunsOf
  <2> QED
      BY <1>1, <1>3, <2>1 DEF Positions
<1>6. ASSUME NEW y \in matches
      PROVE  /\ y.open \in 1 .. Len(t) /\ t[y.open].kind = "url" /\ y.from = y.open
             /\ y.to \in y.open .. Len(t) /\ y.to = RunEnd(t, y.open, without)
  <2>1. /\ y.open \in DOMAIN begin(t) /\ y.from = begin(t)[y.open] /\ y.to \in y.from .. Len(t)
        /\ y.to = RunEnd(t, y.from, without)
      BY <1>2 DEF RunsOf
  <2> QED
      BY <1>1, <1>3, <2>1 DEF Positions
<1>7. /\ a \in 1 .. Len(o) /\ o[a].kind = "url" /\ m.from = a
      /\ m.to \in a .. Len(o) /\ m.to = RunEnd(o, a, without)
      /\ Length(SubSeq(o, a, m.to)) >= 9
    BY <1>4, <1>5
<1>8. i \in a .. m.to /\ \A j \in (a .. i) \cup {a - 1} : j > 0 => j \in Seen(t)
    BY <1>7 DEF Shown
<1> HIDE DEF a
<1>9. a \in Nat \ {0} /\ a > 0 /\ a \in a .. i
    BY <1>1, <1>7, <1>8
\* The match is longer than its first lexeme.
<1>10. a + 1 \in a .. m.to /\ a + 1 \in 1 .. Len(o)
  <2>1. m.to # a
    <3> DEFINE run == SubSeq(o, a, a)
    <3>1. SUFFICES ASSUME m.to = a PROVE FALSE
        OBVIOUS
    <3>2. a \in 1 .. Len(o) + 1 /\ a \in a - 1 .. Len(o) /\ a - a + 1 = 1 /\ 1 \in 1 .. 1 /\ a + 1 - 1 = a
        BY <1>1, <1>7
    <3>3. Len(run) = 1 /\ run[1] = o[a]
        BY <3>2, Part
    <3>4. Length(run) >= 9
        BY <1>7, <3>1
    <3> HIDE DEF run
    <3>5. Len(run) \in Nat
        BY <3>3
    <3>6. Length(run) = Size(run[1].kind)
        BY <3>3, <3>5, LengthOfParts
    <3>7. Size(run[1].kind) = 8
        BY <1>7, <3>3, SizeFacts
    <3> QED
        BY <3>4, <3>6, <3>7
  <2> QED
      BY <1>1, <1>7, <2>1
<1>11. o[a + 1].kind \notin without
  <2>1. a \in 1 .. Len(o) + 1
      BY <1>1, <1>7
  <2> QED
      BY <1>1, <1>7, <1>10, <2>1, RunEndFacts
<1>12. PICK x \in 1 .. Len(t) : /\ t[x].at = a /\ t[x] = o[a]
                                /\ x = 1 \/ t[x - 1].kind \notin MarkKinds
  <2>1. a \in Seen(t) /\ (a - 1 > 0 => a - 1 \in Seen(t))
      BY <1>8, <1>9
  <2> QED
      BY <1>9, <2>1, SeenFree
<1>13. x + 1 \in 1 .. Len(t) /\ t[x + 1].kind \notin without
  <2>1. t[x].at # 0 /\ t[x].at < Len(o)
      BY <1>1, <1>9, <1>10, <1>12
  <2>2. /\ x + 1 \in 1 .. Len(t)
        /\ \/ t[x + 1] = o[t[x].at + 1]
           \/ TokenAt(t, x + 1)
      BY <2>1, NextLexeme
  <2> DEFINE z == x + 1
  <2>3. TokenAt(t, z) => t[z].kind = "$"
    <3> HIDE DEF z
    <3> QED
        BY <1>1, TokenKinds
  <2> QED
      BY <1>0, <1>11, <1>12, <2>2, <2>3
<1> DEFINE e == RunEnd(t, x, without)
<1>14. e \in x + 1 .. Len(t)
  <2>1. /\ x \in 1 .. Len(t) + 1 /\ x + 1 \in x .. Len(t)
        /\ \A c \in x .. x + 1 : c = x \/ c = x + 1
      BY <1>1, <1>13
  <2>2. e \in (x - 1) .. Len(t)
        /\ \A j \in x .. Len(t) : (\A c \in x .. j : t[c].kind \notin without) => j <= e
      BY <1>1, <2>1, RunEndFacts
  <2> HIDE DEF e
  <2>3. \A c \in x .. x + 1 : t[c].kind \notin without
      BY <1>0, <1>7, <1>12, <1>13, <2>1
  <2>4. x + 1 <= e
      BY <2>1, <2>2, <2>3
  <2> QED
      BY <1>1, <2>2, <2>4
<1> HIDE DEF e
<1>15. Length(SubSeq(t, x, e)) >= 9
    BY <1>7, <1>12, <1>14, AddressIsLong
<1>16. x \in DOMAIN begin(t) /\ begin(t)[x] = x
  <2>1. x \in Positions(t, "url")
      BY <1>1, <1>7, <1>12 DEF Positions
  <2> QED
      BY <1>3, <2>1
<1>17. PICK y \in matches : y.open = x \/ (y.open < x /\ y.to >= x)
    BY <1>2, <1>15, <1>16 DEF RunsOf, e
<1>18. CASE y.open = x
  <2>1. y.from = x /\ x \in y.from .. y.to
      BY <1>1, <1>6, <1>18
  <2>2. Reached(p, t, y)
      BY <1>12, <2>1 DEF Reached
  <2>3. t[x].at # 0 /\ t[x].at \in a .. i
      BY <1>9, <1>12
  <2> QED
      BY <2>1, <2>2, <2>3 DEF Hit, a, matches
\* Another address in front of it, that went on to here, would have done so in o.
<1>19. CASE y.open < x /\ y.to >= x
  <2> DEFINE z == y.open
             b == t[z].at
  <2>1. /\ z \in 1 .. Len(t) /\ t[z].kind = "url" /\ y.to \in z .. Len(t) /\ y.to = RunEnd(t, z, without)
        /\ z < x /\ x <= y.to
      BY <1>1, <1>6, <1>19
  <2> HIDE DEF z
  <2>2. \A c \in z .. x : t[c].kind \notin without
    <3>1. z \in 1 .. Len(t) + 1 /\ \A c \in z .. x : c \in z .. y.to
        BY <1>1, <2>1
    <3> QED
        BY <1>1, <2>1, <3>1, RunEndFacts
  <2>3. b # 0
      BY <2>1, NoMarks, ClientOrMark
  <2>4. a = b + (x - z) /\ \A c \in z .. x : t[c].at = b + (c - z) /\ t[c] = o[t[c].at]
    <3>1. x \in z .. Len(t) /\ t[x].at # 0
        BY <1>1, <1>9, <1>12, <2>1
    <3>3. NoBrace(t, z, x)
        BY <1>0, <2>2 DEF NoBrace
    <3>2. t[x].at = t[z].at + (x - z) /\ \A c \in z .. x : t[c].at = t[z].at + (c - z) /\ t[c] = o[t[c].at]
        BY <2>1, <2>3, <3>1, <3>3, RunInPlace DEF b
    <3> QED
        BY <1>12, <3>2
  <2>5. b \in 1 .. Len(o) /\ t[z] = o[b]
      BY <2>1, <2>3, ClientOrMark
  <2> HIDE DEF b
  <2>6. /\ z \in Int /\ x \in Int /\ b \in Nat /\ b < a /\ a \in b + 1 .. Len(o)
        /\ \A j \in b .. a : z + (j - b) \in z .. x /\ b + ((z + (j - b)) - z) = j
      BY <1>1, <1>7, <2>1, <2>4, <2>5
  <2>7. ASSUME NEW j \in b .. a PROVE o[j].kind \notin without
    <3> DEFINE c == z + (j - b)
    <3>1. c \in z .. x /\ b + (c - z) = j
        BY <2>6
    <3> HIDE DEF c
    <3>2. t[c] = o[j]
        BY <2>4, <3>1
    <3> QED
        BY <2>2, <3>1, <3>2
  <2> DEFINE d == RunEnd(o, b, without)
  <2>8. d \in a .. Len(o)
    <3>1. b \in 1 .. Len(o) + 1 /\ a \in b .. Len(o)
        BY <1>1, <2>5, <2>6
    <3>2. d \in (b - 1) .. Len(o) /\ a <= d
        BY <1>1, <2>7, <3>1, RunEndFacts
    <3> HIDE DEF d
    <3> QED
        BY <1>1, <1>7, <2>5, <3>2
  <2> HIDE DEF d
  <2>9. Length(SubSeq(o, b, d)) >= 9
    <3>1. d \in b + 1 .. Len(o)
        BY <1>1, <2>6, <2>8
    <3>2. o[b].kind = "url"
        BY <2>1, <2>5
    <3> QED
        BY <2>5, <3>1, <3>2, AddressIsLong
  <2>10. b \in DOMAIN begin(o) /\ begin(o)[b] = b
    <3>1. b \in Positions(o, "url")
        BY <1>1, <2>1, <2>5 DEF Positions
    <3> QED
        BY <1>3, <3>1
  <2>11. PICK w \in found : w.open = b \/ (w.open < b /\ w.to >= b)
      BY <1>2, <2>9, <2>10 DEF RunsOf, d
  <2>12. w.open \in 1 .. Len(o) /\ w.to \in w.open .. Len(o) /\ w.to = RunEnd(o, w.open, without)
      BY <1>5
  <2>13. w.open < a
      BY <1>1, <2>6, <2>11, <2>12
  <2>14. w.to < a
      BY <1>2, <1>4, <2>13 DEF RunsOf, a
  <2>15. a <= w.to
    <3>1. w.open \in 1 .. Len(o) + 1 /\ a \in w.open .. Len(o)
        BY <1>1, <1>7, <2>12, <2>13
    <3> DEFINE g == w.open
    <3>4. g \in 1 .. Len(o) + 1 /\ w.to = RunEnd(o, g, without)
        BY <2>12, <3>1
    <3> HIDE DEF g
    <3>5. /\ \A c \in g .. RunEnd(o, g, without) : o[c].kind \notin without
          /\ \A j \in g .. Len(o) : (\A c \in g .. j : o[c].kind \notin without) => j <= RunEnd(o, g, without)
        BY <1>1, <3>4, RunEndFacts
    <3>2. /\ \A c \in w.open .. w.to : o[c].kind \notin without
          /\ \A j \in w.open .. Len(o) : (\A c \in w.open .. j : o[c].kind \notin without) => j <= w.to
        BY <3>4, <3>5 DEF g
    <3>3. \A c \in w.open .. a : c \in w.open .. w.to \/ c \in b .. a
        BY <1>1, <2>6, <2>11, <2>12
    <3> QED
        BY <2>7, <3>1, <3>2, <3>3
  <2> QED
      BY <1>1, <1>7, <2>12, <2>14, <2>15
<1> QED
    BY <1>17, <1>18, <1>19
LEMMA PassHit ==
    ASSUME NEW o, OfClient(o), NEW S, NEW t \in Seq(S), NEW R, o \in Seq(R), InPlace(t, o), Starts(t),
           NEW n \in DOMAIN Passes, NEW m \in FindAll(Passes[n], o), NEW i \in m.from .. m.to,
           Shown(m, i, t)
    PROVE  Hit(Passes[n], t, FindAll(Passes[n], t), m, i)
<1>1. DOMAIN t = 1 .. Len(t) /\ DOMAIN o = 1 .. Len(o)
    BY LenProperties
<1>2. CASE Passes[n] = "api_key"
    BY <1>2, KeyHit DEF FindAll
<1>3. CASE Passes[n] = "password"
    BY <1>3, KeyHit DEF FindAll
<1>4. CASE Passes[n] = "format"
    BY <1>1, <1>4, KindHit DEF FindAll
<1>5. CASE Passes[n] = "PHONE"
    BY <1>1, <1>5, KindHit DEF FindAll
<1>6. CASE Passes[n] = "EMAIL"
    BY <1>1, <1>6, KindHit DEF FindAll
<1>7. CASE Passes[n] = "URL_ADDRESS"
    BY <1>7, URLHit DEF FindAll
<1>8. CASE Passes[n] = "PASSWORD"
    BY <1>8, PasswordHit DEF FindAll
<1> QED
    BY <1>2, <1>3, <1>4, <1>5, <1>6, <1>7, <1>8 DEF Passes

\* Where matches open.
LEMMA MatchesOpen ==
    ASSUME NEW S, NEW t \in Seq(S), NEW n \in DOMAIN Passes, NEW y \in FindAll(Passes[n], t)
    PROVE  y.open \in 1 .. Len(t)
<1>1. Len(t) \in Nat /\ DOMAIN t = 1 .. Len(t)
    BY LenProperties
<1>2. ASSUME NEW kind, y \in KindMatches(t, kind) PROVE y.open \in 1 .. Len(t)
    BY <1>1, <1>2 DEF KindMatches, Positions
<1>3. ASSUME NEW kind, y \in KeyMatches(t, kind) PROVE y.open \in 1 .. Len(t)
    BY <1>3, KeyRuns DEF RunsOf
<1>4. ASSUME y \in URLMatches(t) PROVE y.open \in 1 .. Len(t)
    BY <1>4, URLRuns DEF RunsOf
<1>5. ASSUME y \in PasswordMatches(t) PROVE y.open \in 1 .. Len(t)
    BY <1>5, PasswordRuns DEF RunsOf
<1>6. Passes[n] \in {"api_key", "password", "format", "PHONE", "EMAIL", "URL_ADDRESS", "PASSWORD"}
    BY DEF Passes
<1> QED
    BY <1>2, <1>3, <1>4, <1>5, <1>6 DEF FindAll

\* What a pattern finds in the client's text o is masked, or hidden behind something that
\* is, when the places in V are seen.
Shadowed(p, o, V) ==
    \A m \in FindAll(p, o) :
        \A i \in (m.from .. m.to) \cap V :
            \E j \in (m.open .. i - 1) \cup {m.from - 1} : j > 0 /\ j \notin V

\* A pass shadows what its pattern finds in the client's text, whatever the passes before
\* it have left of that, and shows nothing that was masked.
LEMMA PassShadows ==
    ASSUME NEW o, OfClient(o), NEW R, o \in Seq(R), NEW l \in DOMAIN Passes, NEW t, NEW m, NEW w,
           InPlace(t, o), Starts(t),
           Fits([text |-> t, made |-> m]), Restores([text |-> t, made |-> m], w)
    PROVE  LET u == Masked(Passes[l], t, m).text
           IN  InPlace(u, o) /\ Starts(u) /\ Seen(u) \subseteq Seen(t) /\ Shadowed(Passes[l], o, Seen(u))
<1> DEFINE p == Passes[l]
           r == Masked(p, t, m)
           u == r.text
           matches == FindAll(p, t)
           found == FindAll(p, o)
<1>1. t \in Seq(Elements(m))
    BY DEF Fits
<1>2. Kept(r, 1, t, matches, p, o)
    BY MaskedKept
<1>3. Len(t) \in Nat /\ Len(o) \in Nat
    BY <1>1, LenProperties
<1>4. \A y \in matches : y.from \in 1 .. Len(t) /\ y.to \in y.from .. Len(t)
    BY <1>1, MatchesSeparate DEF Separate
<1>5. \A y \in found : y.from \in 1 .. Len(o) /\ y.to \in y.from .. Len(o) /\ y.open \in 1 .. Len(o)
    BY MatchesSeparate, MatchesOpen DEF Separate
<1>6. \A y \in found : \A i \in y.from .. y.to : Shown(y, i, t) => Hit(p, t, matches, y, i)
    BY <1>1, PassHit
<1> HIDE DEF p, r, matches, found
<1>7. InPlace(u, o) /\ Starts(u) /\ Seen(u) \subseteq Seen(t)
    BY <1>2 DEF Kept
<1> HIDE DEF u
<1>8. ASSUME NEW y \in found, NEW i \in (y.from .. y.to) \cap Seen(u),
             \A j \in (y.open .. i - 1) \cup {y.from - 1} : j > 0 => j \in Seen(u)
      PROVE  FALSE
  <2>1. i \in Nat /\ y.from \in Nat /\ y.open \in Nat /\ i \in Seen(u) /\ i \in y.from .. y.to
      BY <1>3, <1>5
  <2>2. ASSUME NEW j \in (y.open .. i) \cup {y.from - 1}, j > 0 PROVE j \in Seen(u)
    <3>1. j = i \/ j \in (y.open .. i - 1) \cup {y.from - 1}
        BY <2>1
    <3> QED
        BY <1>8, <2>1, <2>2, <3>1
  <2>3. Shown(y, i, t)
      BY <1>7, <2>2 DEF Shown
  <2>4. Hit(p, t, matches, y, i)
      BY <1>6, <2>1, <2>3
  <2>5. PICK z \in matches :
            /\ Reached(p, t, z)
            /\ \E c \in z.from .. z.to : t[c].at # 0 /\ t[c].at \in (y.open .. i) \cup {y.from - 1}
      BY <2>4 DEF Hit
  <2>6. PICK c \in z.from .. z.to : t[c].at # 0 /\ t[c].at \in (y.open .. i) \cup {y.from - 1}
      BY <2>5
  <2>7. z.from >= 1
      BY <1>4
  <2>8. t[c].at \notin Seen(u)
      BY <1>2, <2>5, <2>6, <2>7 DEF Kept, u
  <2>9. t[c].at > 0
    <3>1. c \in 1 .. Len(t)
        BY <1>3, <1>4
    <3>2. t[c].at \in Nat
        BY <3>1 DEF InPlace
    <3> QED
        BY <2>6, <3>2
  <2> QED
      BY <2>2, <2>6, <2>8, <2>9
<1>9. Shadowed(p, o, Seen(u))
    BY <1>8, Zenon DEF Shadowed, found
<1> QED
    BY <1>7, <1>9 DEF u, r, p

\* The client's lexemes, before the first pass.
LEMMA LexemesInPlace ==
    ASSUME NEW t \in Texts, NEW o, o = Lexemes(t)
    PROVE  OfClient(o) /\ InPlace(o, o) /\ Starts(o)
<1>1. t \in Seq(Kinds)
    BY TextAssumption
<1>2. Len(t) \in Nat /\ DOMAIN t = 1 .. Len(t) /\ \A j \in 1 .. Len(t) : t[j] \in Kinds
    BY <1>1, LenProperties, ElementOfSeq
<1>3. o \in Seq(Clients) /\ o = [j \in 1 .. Len(t) |-> Plain(t[j], j)]
    BY <1>2, ClientLexemes DEF Lexemes
<1>4. Len(o) \in Nat /\ DOMAIN o = 1 .. Len(o)
    BY <1>3, LenProperties
<1>5. \A k \in Kinds : k \notin MarkKinds
    BY DEF Kinds, MarkKinds
<1>6. \A j \in 1 .. Len(o) : o[j].at = j /\ o[j].kind \in Kinds /\ o[j].kind \notin MarkKinds
  <2>1. SUFFICES ASSUME NEW j \in 1 .. Len(o)
                 PROVE  o[j].at = j /\ o[j].kind \in Kinds /\ o[j].kind \notin MarkKinds
      OBVIOUS
  <2>2. DOMAIN o = 1 .. Len(t)
      BY <1>3
  <2>3. j \in 1 .. Len(t) /\ o[j] = Plain(t[j], j)
      BY <1>3, <1>4, <2>2
  <2>5. \A k, n : Plain(k, n).at = n /\ Plain(k, n).kind = k
      BY DEF Plain
  <2>4. o[j].at = j /\ o[j].kind = t[j]
      BY <2>3, <2>5, ZenonT(30)
  <2> QED
      BY <1>2, <1>5, <2>3, <2>4
<1>7. OfClient(o)
    BY <1>4, <1>6 DEF OfClient
<1>8. InPlace(o, o)
  <2>1. \A x \in 1 .. Len(o) : x \in Nat /\ x # 0
      BY <1>4
  <2>2. \A x \in 1 .. Len(o) : /\ o[x].at \in Nat
                               /\ o[x].at = 0 => o[x].kind \in MarkKinds
                               /\ o[x].at # 0 => o[x].at \in 1 .. Len(o) /\ o[x] = o[o[x].at]
      BY <1>6, <2>1
  <2>3. \A x, y \in 1 .. Len(o) :
           x < y /\ o[x].at # 0 /\ o[y].at # 0 =>
               o[x].at < o[y].at /\ (y = x + 1 <=> o[y].at = o[x].at + 1)
      BY <1>6
  <2>4. \A x \in 1 .. Len(o) : o[x].at = 1 => x = 1
      BY <1>6
  <2>5. \A x \in 1 .. Len(o) : o[x].at # 0 /\ o[x].at < Len(o) => x < Len(o)
      BY <1>6
  <2> QED
      BY <1>4, <2>2, <2>3, <2>4, <2>5 DEF InPlace
<1>9. Starts(o)
    BY <1>6 DEF Starts
<1> QED
    BY <1>7, <1>8, <1>9

\* What a pass that is done and switched on finds in the client's text is shadowed.
LeakInv ==
    /\ InPlace(result, Lexemes(text))
    /\ Starts(result)
    /\ \A n \in DOMAIN Passes : (n < pass \/ first # <<>>) /\ Enabled(Passes[n], local, level) =>
                                    Shadowed(Passes[n], Lexemes(text), Seen(result))

LEMMA LeakInit == MaskInit => LeakInv
<1> SUFFICES ASSUME MaskInit PROVE LeakInv
    OBVIOUS
<1>1. text \in Texts /\ result = Lexemes(text) /\ pass = 1 /\ first = <<>>
    BY DEF MaskInit
<1>2. \A n \in DOMAIN Passes : ~ (n < 1)
    BY DEF Passes
<1>3. InPlace(result, Lexemes(text)) /\ Starts(result)
    BY <1>1, LexemesInPlace
<1> QED
    BY <1>1, <1>2, <1>3 DEF LeakInv

LEMMA LessSeen ==
    ASSUME NEW p, NEW o, NEW V, NEW W, W \subseteq V, Shadowed(p, o, V)
    PROVE  Shadowed(p, o, W)
<1> QED
    BY DEF Shadowed

LEMMA LeakApply ==
    ASSUME MaskInv, LeakInv, pass \in DOMAIN Passes, Apply(Passes[pass]), pass' = pass + 1,
           text' = text, local' = local, level' = level, first' = first
    PROVE  LeakInv'
<1> DEFINE o == Lexemes(text)
           q == Masked(Passes[pass], result, made).text
<1>1. text \in Texts /\ pass \in 1 .. Len(Passes) + 1
    BY DEF MaskInv, MaskTypes
<1>2. OfClient(o) /\ o \in Seq(Clients)
    BY <1>1, LexemesInPlace, ClientLexemes
<1>3. InPlace(result, o) /\ Starts(result)
      /\ \A n \in DOMAIN Passes : (n < pass \/ first # <<>>) /\ Enabled(Passes[n], local, level) =>
                                      Shadowed(Passes[n], o, Seen(result))
    BY DEF LeakInv
<1>4. InPlace(q, o) /\ Starts(q) /\ Seen(q) \subseteq Seen(result) /\ Shadowed(Passes[pass], o, Seen(q))
  <2> HIDE DEF o
  <2> QED
      BY <1>2, <1>3, PassShadows DEF MaskInv
<1>5. IF Enabled(Passes[pass], local, level) THEN result' = q ELSE result' = result
    BY DEF Apply
<1>6. Lexemes(text)' = o
    OBVIOUS
<1>7. DOMAIN Passes = 1 .. 7 /\ pass \in 1 .. 7
    BY DEF Passes
<1> HIDE DEF o, q
<1>8. InPlace(result', o) /\ Starts(result') /\ Seen(result') \subseteq Seen(result)
    BY <1>3, <1>4, <1>5
<1>9. ASSUME NEW n \in DOMAIN Passes, n < pass + 1 \/ first # <<>>, Enabled(Passes[n], local, level)
      PROVE  Shadowed(Passes[n], o, Seen(result'))
  <2>1. CASE n = pass
      BY <1>4, <1>5, <1>9, <2>1
  <2>2. CASE n # pass
    <3>1. n < pass \/ first # <<>>
        BY <1>7, <1>9, <2>2
    <3>2. Shadowed(Passes[n], o, Seen(result))
        BY <1>3, <1>9, <3>1
    <3> QED
        BY <1>8, <3>2, LessSeen
  <2> QED
      BY <2>1, <2>2
<1> QED
    BY <1>6, <1>8, <1>9, Zenon DEF LeakInv

LEMMA LeakNext == MaskInv /\ LeakInv /\ [MaskNext]_textVars => LeakInv'
<1> SUFFICES ASSUME MaskInv, LeakInv, [MaskNext]_textVars PROVE LeakInv'
    OBVIOUS
<1>1. CASE Mask
    BY <1>1, LeakApply DEF Mask
<1>2. CASE DetectAndMask
    BY <1>2, LeakApply DEF DetectAndMask
<1>3. CASE MaskAgain
  <2>1. /\ pass > Len(Passes) /\ text' = text /\ local' = local /\ level' = level /\ result' = result
      BY <1>3 DEF MaskAgain
  <2>2. Len(Passes) = 7 /\ DOMAIN Passes = 1 .. 7
      BY DEF Passes
  <2>3. pass \in 1 .. Len(Passes) + 1
      BY DEF MaskInv, MaskTypes
  <2>4. \A n \in DOMAIN Passes : n < pass
      BY <2>1, <2>2, <2>3
  <2>5. \A n \in DOMAIN Passes : Enabled(Passes[n], local, level) =>
                                     Shadowed(Passes[n], Lexemes(text), Seen(result))
      BY <2>4 DEF LeakInv
  <2>6. InPlace(result, Lexemes(text)) /\ Starts(result)
      BY DEF LeakInv
  <2> QED
      BY <2>1, <2>5, <2>6 DEF LeakInv
<1>4. CASE UNCHANGED textVars
    BY <1>4 DEF textVars, LeakInv
<1> QED
    BY <1>1, <1>2, <1>3, <1>4 DEF MaskNext

\* For texts of any length, any order in which their values stand and either level: once
\* LocalMasker.Mask and DetectAndMask are done, once or twice, whatever a detector that is
\* switched on finds in the client's text is masked, but for what stands directly behind
\* something else that was.
THEOREM DetectedIsMasked == MaskSpec => []NothingLeaks
<1>1. MaskInv /\ LeakInv => NothingLeaks
  <2> SUFFICES ASSUME MaskInv, LeakInv, Done,
                      NEW n \in {k \in DOMAIN Passes : Enabled(Passes[k], local, level)},
                      NEW m \in FindAll(Passes[n], Lexemes(text)),
                      NEW i \in (m.from .. m.to) \cap Visible
               PROVE  \E j \in (m.open .. i - 1) \cup {m.from - 1} : j > 0 /\ j \notin Visible
      BY DEF NothingLeaks
  <2>1. n \in DOMAIN Passes /\ Enabled(Passes[n], local, level)
      OBVIOUS
  <2>2. n < pass
    <3>1. Len(Passes) = 7 /\ DOMAIN Passes = 1 .. 7
        BY DEF Passes
    <3>2. pass > Len(Passes) /\ pass \in 1 .. Len(Passes) + 1
        BY DEF Done, MaskInv, MaskTypes
    <3> QED
        BY <2>1, <3>1, <3>2
  <2>3. Shadowed(Passes[n], Lexemes(text), Seen(result))
      BY <2>1, <2>2 DEF LeakInv
  <2>4. Visible = {result[x].at : x \in 1 .. Len(result)}
    <3>1. DOMAIN result = 1 .. Len(result)
        BY LenProperties DEF MaskInv, Fits
    <3> QED
        BY <3>1 DEF Visible
  <2>5. \A j : j # 0 => (j \in Visible <=> j \in Seen(result))
      BY <2>4 DEF Seen
  <2>6. i \in Seen(result) /\ i \in m.from .. m.to
    <3>1. text \in Texts /\ Len(Lexemes(text)) \in Nat
        BY LexemesInPlace DEF MaskInv, MaskTypes, OfClient
    <3>2. m.from \in 1 .. Len(Lexemes(text)) /\ m.to \in m.from .. Len(Lexemes(text))
        BY <2>1, <3>1, ClientLexemes, MatchesSeparate DEF Separate
    <3>3. i # 0
        BY <3>1, <3>2
    <3> QED
        BY <2>5, <3>3
  <2>7. PICK j \in (m.open .. i - 1) \cup {m.from - 1} : j > 0 /\ j \notin Seen(result)
      BY <2>3, <2>6 DEF Shadowed
  <2>8. j # 0
      BY <2>7
  <2> QED
      BY <2>5, <2>7, <2>8
<1> QED
    BY <1>1, MaskInvariant, LeakInit, LeakNext, PTL DEF MaskSpec

----------------------------------------------------------------------------
(* What was masked once is not masked again.                               *)

KeyNames == {"api_key", "password"}
Formats == {"format", "PHONE", "EMAIL"}

\* The lexeme that a match of a pattern opens with, the lexemes its value ends in front
\* of, and where the value begins when it opens at x.
Opener(p) ==
    CASE p = "api_key" -> "key"
      [] p \in {"password", "PASSWORD"} -> "pwd"
      [] p = "format" -> "akia"
      [] p = "PHONE" -> "phone"
      [] p = "EMAIL" -> "mail"
      [] p = "URL_ADDRESS" -> "url"

Ends(p) ==
    CASE p \in KeyNames -> {"quote", "stop"}
      [] p = "URL_ADDRESS" -> {"quote", "stop", "{", "}"}
      [] p = "PASSWORD" -> {"stop"}
      [] OTHER -> {}

ValueAt(p, t, x) ==
    CASE p \in KeyNames -> IF KindAt(t, x + 1) = "quote" THEN x + 2 ELSE x + 1
      [] p = "PASSWORD" -> x + 1
      [] OTHER -> x

\* Four lexemes of the kinds of a placeholder's.
MarksAt(t, i) ==
    /\ KindAt(t, i) = "$" /\ KindAt(t, i + 1) = "{"
    /\ KindAt(t, i + 2) = "body" /\ KindAt(t, i + 3) = "}"

\* A pattern leaves alone what opens at x: up to c there is nothing to mask, too little,
\* or a placeholder. Of a telephone number, an e-mail address or an AWS key nothing is
\* left alone.
Settled(p, t, x, c) ==
    LET b == ValueAt(p, t, x)
    IN  /\ p \notin Formats
        /\ KindAt(t, c) \in Ends(p) \cup {"end"}
        /\ \/ p # "URL_ADDRESS" /\ c = b
           \/ p \in KeyNames /\ c = b + 1 /\ KindAt(t, b) = "pin"
           \/ p = "URL_ADDRESS" /\ c = b + 1
           \/ p # "URL_ADDRESS" /\ c = b + 4 /\ MarksAt(t, b)

AllSettled(p, t) ==
    \A x \in 1 .. Len(t) : t[x].kind = Opener(p) => \E c \in Int : Settled(p, t, x, c)

\* The kinds of lexemes of which what is left alone consists.
Inert == {"quote", "stop", "pin", "end", "$", "{", "}", "body"}

\* What opens a match is none of the inert kinds.
LEMMA OpenerFacts ==
    ASSUME NEW n \in DOMAIN Passes
    PROVE  /\ Opener(Passes[n]) \notin Inert
           /\ Opener(Passes[n]) \notin MarkKinds
           /\ Opener(Passes[n]) # "quote"
<1>1. Passes[n] \in {"api_key", "password", "format", "PHONE", "EMAIL", "URL_ADDRESS", "PASSWORD"}
    BY DEF Passes
<1>2. Opener(Passes[n]) \in {"key", "pwd", "akia", "phone", "mail", "url"}
    BY <1>1 DEF Opener
<1> QED
    BY <1>2 DEF Inert, MarkKinds

\* Where the value of a key name or of a password begins.
LEMMA ValueFacts ==
    ASSUME NEW n \in DOMAIN Passes, NEW p, p = Passes[n], NEW t, NEW x \in Int
    PROVE  /\ p \in KeyNames \/ p = "PASSWORD" \/ p \in Formats \/ p = "URL_ADDRESS"
           /\ p \in KeyNames => /\ KindAt(t, x + 1) = "quote" => ValueAt(p, t, x) = x + 2
                                /\ KindAt(t, x + 1) # "quote" => ValueAt(p, t, x) = x + 1
           /\ p = "PASSWORD" => ValueAt(p, t, x) = x + 1
           /\ p \in Formats \cup {"URL_ADDRESS"} => ValueAt(p, t, x) = x
           /\ "PASSWORD" \notin KeyNames /\ "URL_ADDRESS" \notin KeyNames
           /\ \A f \in Formats : f \notin KeyNames /\ f # "PASSWORD" /\ f # "URL_ADDRESS"
<1>1. p \in {"api_key", "password", "format", "PHONE", "EMAIL", "URL_ADDRESS", "PASSWORD"}
    BY DEF Passes
<1>2. /\ "PASSWORD" \notin KeyNames /\ "URL_ADDRESS" \notin KeyNames
      /\ \A f \in Formats : f \notin KeyNames /\ f # "PASSWORD" /\ f # "URL_ADDRESS"
    BY DEF KeyNames, Formats
<1>3. p \in KeyNames \/ p = "PASSWORD" \/ p \in Formats \/ p = "URL_ADDRESS"
    BY <1>1 DEF KeyNames, Formats
<1>4. p \in KeyNames => /\ KindAt(t, x + 1) = "quote" => ValueAt(p, t, x) = x + 2
                        /\ KindAt(t, x + 1) # "quote" => ValueAt(p, t, x) = x + 1
  <2>1. p \in KeyNames => p # "PASSWORD"
      BY <1>2
  <2>2. p \in KeyNames => ValueAt(p, t, x) = IF KindAt(t, x + 1) = "quote" THEN x + 2 ELSE x + 1
      BY <2>1 DEF ValueAt
  <2> QED
      BY <2>2
<1>5. p = "PASSWORD" => ValueAt(p, t, x) = x + 1
    BY <1>2 DEF ValueAt
<1>6. p \in Formats \cup {"URL_ADDRESS"} => ValueAt(p, t, x) = x
    BY <1>2 DEF ValueAt
<1> QED
    BY <1>2, <1>3, <1>4, <1>5, <1>6

\* What is left alone is of inert kinds.
LEMMA SettledInert ==
    ASSUME NEW n \in DOMAIN Passes, NEW p, p = Passes[n], NEW t, NEW x \in Int, NEW c \in Int,
           Settled(p, t, x, c)
    PROVE  c > x /\ \A j \in x + 1 .. c : KindAt(t, j) \in Inert
<1> DEFINE b == ValueAt(p, t, x)
<1>1. Ends(p) \cup {"end"} \subseteq Inert
    BY DEF Ends, Inert
<1>2. /\ p \notin Formats
      /\ KindAt(t, c) \in Inert
      /\ \/ p # "URL_ADDRESS" /\ c = b
         \/ p # "URL_ADDRESS" /\ c = b + 1 /\ KindAt(t, b) = "pin"
         \/ p = "URL_ADDRESS" /\ c = b + 1
         \/ p # "URL_ADDRESS" /\ c = b + 4 /\ MarksAt(t, b)
  <2>1. p \in KeyNames => p # "URL_ADDRESS"
      BY DEF KeyNames
  <2> QED
      BY <1>1, <2>1 DEF Settled
<1>3. \/ b = x + 1 /\ p # "URL_ADDRESS"
      \/ b = x + 2 /\ p # "URL_ADDRESS" /\ KindAt(t, x + 1) = "quote"
      \/ b = x /\ p = "URL_ADDRESS"
  <2> HIDE DEF b
  <2> QED
      BY <1>2, ValueFacts DEF b
<1>4. MarksAt(t, b) => /\ KindAt(t, b) \in Inert /\ KindAt(t, b + 1) \in Inert
                       /\ KindAt(t, b + 2) \in Inert /\ KindAt(t, b + 3) \in Inert
    BY DEF MarksAt, Inert
<1>5. "quote" \in Inert /\ "pin" \in Inert
    BY DEF Inert
<1>6. /\ KindAt(t, c) \in Inert
      /\ b = x + 1 \/ (b = x + 2 /\ KindAt(t, x + 1) \in Inert) \/ (b = x /\ c = b + 1)
      /\ \/ c = b
         \/ c = b + 1 /\ KindAt(t, b) \in Inert
         \/ b = x /\ c = b + 1
         \/ /\ c = b + 4 /\ KindAt(t, b) \in Inert /\ KindAt(t, b + 1) \in Inert
            /\ KindAt(t, b + 2) \in Inert /\ KindAt(t, b + 3) \in Inert
    BY <1>2, <1>3, <1>4, <1>5
<1> DEFINE Quiet(j) == KindAt(t, j) \in Inert
<1>7. /\ Quiet(c)
      /\ b = x + 1 \/ (b = x + 2 /\ Quiet(x + 1)) \/ (b = x /\ c = b + 1)
      /\ \/ c = b
         \/ c = b + 1 /\ Quiet(b)
         \/ b = x /\ c = b + 1
         \/ c = b + 4 /\ Quiet(b) /\ Quiet(b + 1) /\ Quiet(b + 2) /\ Quiet(b + 3)
    BY <1>6
<1> HIDE DEF b, Quiet
<1>8. c > x /\ \A j \in x + 1 .. c : Quiet(j)
  <2>1. b \in Int /\ c > x
      BY <1>7
  <2>2. SUFFICES ASSUME NEW j \in x + 1 .. c PROVE Quiet(j)
      BY <2>1
  <2>3. j = c \/ (j = x + 1 /\ b = x + 2) \/ (j = b /\ c # b /\ b # x)
        \/ (c = b + 4 /\ (j = b + 1 \/ j = b + 2 \/ j = b + 3))
      BY <1>7, <2>1
  <2>4. b # x => c = b \/ Quiet(b)
      BY <1>7
  <2>5. c = b + 4 => Quiet(b + 1) /\ Quiet(b + 2) /\ Quiet(b + 3)
      BY <1>7, <2>1
  <2>6. b = x + 2 => Quiet(x + 1)
      BY <1>7
  <2> QED
      BY <1>7, <2>3, <2>4, <2>5, <2>6
<1> QED
    BY <1>8 DEF Quiet

\* The same kinds at another place are left alone too.
LEMMA SettledMoves ==
    ASSUME NEW n \in DOMAIN Passes, NEW p, p = Passes[n], NEW t, NEW u, NEW x \in Int, NEW z \in Int,
           NEW c \in Int, Settled(p, t, x, c),
           \A j \in x + 1 .. c : KindAt(u, j + (z - x)) = KindAt(t, j)
    PROVE  Settled(p, u, z, c + (z - x))
<1> DEFINE b == ValueAt(p, t, x)
           e == ValueAt(p, u, z)
           m == c + (z - x)
<1>1. c > x /\ \A j \in x + 1 .. c : KindAt(u, j + (z - x)) = KindAt(t, j)
    BY SettledInert
<1>2. x + 1 \in x + 1 .. c /\ c \in x + 1 .. c /\ (x + 1) + (z - x) = z + 1
    BY <1>1
<1>3. KindAt(u, z + 1) = KindAt(t, x + 1) /\ KindAt(u, m) = KindAt(t, c)
    BY <1>1, <1>2
<1>4. /\ e - z = b - x /\ e \in Int /\ b \in Int /\ b >= x
      /\ p \notin Formats /\ p # "URL_ADDRESS" => b >= x + 1
  <2>1. p \in KeyNames \/ p = "PASSWORD" \/ p \in Formats \/ p = "URL_ADDRESS"
      BY ValueFacts
  <2>2. CASE p \in KeyNames /\ KindAt(t, x + 1) = "quote"
    <3>1. b = x + 2 /\ e = z + 2
        BY <1>3, <2>2, ValueFacts
    <3> HIDE DEF b, e
    <3> QED
        BY <3>1
  <2>3. CASE p \in KeyNames /\ KindAt(t, x + 1) # "quote"
    <3>1. b = x + 1 /\ e = z + 1
        BY <1>3, <2>3, ValueFacts
    <3> HIDE DEF b, e
    <3> QED
        BY <3>1
  <2>4. CASE p = "PASSWORD"
    <3>1. ValueAt(p, t, x) = x + 1 /\ ValueAt(p, u, z) = z + 1
      <4>1. p = "PASSWORD" => ValueAt(p, t, x) = x + 1
          BY ValueFacts
      <4>2. p = "PASSWORD" => ValueAt(p, u, z) = z + 1
          BY ValueFacts
      <4> QED
          BY <2>4, <4>1, <4>2
    <3>2. b = x + 1 /\ e = z + 1
        BY <3>1
    <3> HIDE DEF b, e
    <3> QED
        BY <3>2
  <2>5. CASE p \in Formats \cup {"URL_ADDRESS"}
    <3>1. b = x /\ e = z
        BY <2>5, ValueFacts
    <3> HIDE DEF b, e
    <3> QED
        BY <2>5, <3>1
  <2> QED
      BY <2>1, <2>2, <2>3, <2>4, <2>5
<1>5. /\ p \notin Formats
      /\ KindAt(t, c) \in Ends(p) \cup {"end"}
      /\ \/ p # "URL_ADDRESS" /\ c = b
         \/ p \in KeyNames /\ c = b + 1 /\ KindAt(t, b) = "pin"
         \/ p = "URL_ADDRESS" /\ c = b + 1
         \/ p # "URL_ADDRESS" /\ c = b + 4 /\ MarksAt(t, b)
    BY DEF Settled
<1>6. "URL_ADDRESS" \notin KeyNames
    BY DEF KeyNames
<1> HIDE DEF b, e, m
<1>7. m = c + (z - x)
    BY DEF m
<1>8. c = b => m = e
    BY <1>4, <1>7
<1>9. c = b + 1 => m = e + 1
    BY <1>4, <1>7
<1>10. ASSUME p \in KeyNames, c = b + 1 PROVE KindAt(u, e) = KindAt(t, b)
  <2>1. b >= x + 1
      BY <1>4, <1>5, <1>6, <1>10
  <2>2. b \in x + 1 .. c /\ b + (z - x) = e
      BY <1>4, <1>10, <2>1
  <2> QED
      BY <1>1, <2>2
<1>11. ASSUME p # "URL_ADDRESS", c = b + 4, MarksAt(t, b) PROVE m = e + 4 /\ MarksAt(u, e)
  <2>1. b >= x + 1
      BY <1>4, <1>5, <1>11
  <2>2. /\ b \in x + 1 .. c /\ b + (z - x) = e
        /\ b + 1 \in x + 1 .. c /\ (b + 1) + (z - x) = e + 1
        /\ b + 2 \in x + 1 .. c /\ (b + 2) + (z - x) = e + 2
        /\ b + 3 \in x + 1 .. c /\ (b + 3) + (z - x) = e + 3
        /\ m = e + 4
      BY <1>4, <1>7, <1>11, <2>1
  <2>3. /\ KindAt(u, e) = KindAt(t, b) /\ KindAt(u, e + 1) = KindAt(t, b + 1)
        /\ KindAt(u, e + 2) = KindAt(t, b + 2) /\ KindAt(u, e + 3) = KindAt(t, b + 3)
      BY <1>1, <2>2
  <2> QED
      BY <1>11, <2>2, <2>3 DEF MarksAt
<1>12. /\ p \notin Formats
       /\ KindAt(u, m) \in Ends(p) \cup {"end"}
       /\ \/ p # "URL_ADDRESS" /\ m = e
          \/ p \in KeyNames /\ m = e + 1 /\ KindAt(u, e) = "pin"
          \/ p = "URL_ADDRESS" /\ m = e + 1
          \/ p # "URL_ADDRESS" /\ m = e + 4 /\ MarksAt(u, e)
    BY <1>3, <1>5, <1>8, <1>9, <1>10, <1>11 DEF m
<1>13. Settled(p, u, z, m)
    BY <1>12 DEF Settled, e
<1> QED
    BY <1>13 DEF m
\* Behind a run is what ends it, or nothing.
LEMMA RunEndStops ==
    ASSUME NEW t, Len(t) \in Nat, DOMAIN t = 1 .. Len(t), NEW from \in 1 .. Len(t) + 1, NEW without
    PROVE  KindAt(t, RunEnd(t, from, without) + 1) \in without \cup {"end"}
<1> DEFINE e == RunEnd(t, from, without)
<1>1. /\ e \in (from - 1) .. Len(t)
      /\ \A c \in from .. e : t[c].kind \notin without
      /\ \A j \in from .. Len(t) : (\A c \in from .. j : t[c].kind \notin without) => j <= e
    BY RunEndFacts
<1> HIDE DEF e
<1>2. CASE e = Len(t)
  <2>1. e + 1 \notin DOMAIN t
      BY <1>2
  <2> QED
      BY <2>1 DEF KindAt, e
<1>3. CASE e # Len(t)
  <2>0. e \in Int /\ e <= Len(t) /\ from <= e + 1
      BY <1>1
  <2>3. e + 1 <= Len(t) /\ 1 <= e + 1
    <3>1. \A a \in Int, b \in Int, c \in Int :
              a # b /\ a <= b /\ c <= a + 1 /\ 1 <= c => a + 1 <= b /\ 1 <= a + 1
        OBVIOUS
    <3>2. from \in Int /\ 1 <= from /\ Len(t) \in Int
        OBVIOUS
    <3> QED
        BY <1>3, <2>0, <3>1, <3>2
  <2>4. e + 1 \in from .. Len(t) /\ e + 1 \in 1 .. Len(t)
      BY <2>0, <2>3
  <2>1. e + 1 \in from .. Len(t) /\ e + 1 \in DOMAIN t
      BY <2>4
  <2>2. ASSUME t[e + 1].kind \notin without PROVE FALSE
    <3>1. \A c \in from .. e + 1 : c \in from .. e \/ c = e + 1
        BY <1>1
    <3>2. e + 1 <= e
        BY <1>1, <2>1, <2>2, <3>1
    <3> QED
        BY <1>1, <3>2
  <2> QED
      BY <2>1, <2>2 DEF KindAt, e
<1> QED
    BY <1>2, <1>3

\* How many characters a value has at least.
Least(p) == CASE p \in KeyNames -> 8 [] p = "URL_ADDRESS" -> 9 [] OTHER -> 1

\* What a match is: where it opens, where its value begins and ends.
Shape(p, t, y) ==
    /\ y.open \in 1 .. Len(t) /\ t[y.open].kind = Opener(p)
    /\ y.from = ValueAt(p, t, y.open)
    /\ y.from \in y.open .. Len(t) /\ y.to \in y.from .. Len(t)
    /\ p \in Formats => y.to = y.from
    /\ p \notin Formats => /\ KindAt(t, y.to + 1) \in Ends(p) \cup {"end"}
                           /\ \A c \in y.from .. y.to : t[c].kind \notin Ends(p)
                           /\ Length(SubSeq(t, y.from, y.to)) >= Least(p)

\* What runs from the opening lexeme at x is found, if it is long enough and nothing else
\* that was found covers x.
Covers(p, t, matches) ==
    p \notin Formats =>
        \A x \in 1 .. Len(t) :
            /\ t[x].kind = Opener(p)
            /\ Length(SubSeq(t, ValueAt(p, t, x), RunEnd(t, ValueAt(p, t, x), Ends(p)))) >= Least(p)
            => \E y \in matches : y.open = x \/ (y.open < x /\ y.to >= x)

\* The matches of a pattern of values are runs that begin behind its opening lexemes.
LEMMA RunShapes ==
    ASSUME NEW S, NEW t \in Seq(S), NEW p, p \notin Formats, NEW begin, NEW matches,
           RunsOf(t, begin, Ends(p), Least(p), matches),
           DOMAIN begin = Positions(t, Opener(p)),
           \A i \in DOMAIN begin : begin[i] = ValueAt(p, t, i)
    PROVE  /\ \A y \in matches : Shape(p, t, y)
           /\ Covers(p, t, matches)
<1>1. Len(t) \in Nat /\ DOMAIN t = 1 .. Len(t)
    BY LenProperties
<1>2. \A x : x \in DOMAIN begin <=> x \in 1 .. Len(t) /\ t[x].kind = Opener(p)
    BY <1>1 DEF Positions
<1>3. ASSUME NEW y \in matches PROVE Shape(p, t, y)
  <2>1. /\ y.open \in DOMAIN begin /\ y.from = begin[y.open]
        /\ y.to = RunEnd(t, y.from, Ends(p))
        /\ y.open \in 1 .. Len(t) /\ y.from \in y.open .. Len(t) + 1
        /\ y.to \in y.from .. Len(t)
        /\ Length(SubSeq(t, y.from, y.to)) >= Least(p)
      BY DEF RunsOf
  <2>2. y.from \in 1 .. Len(t) + 1 /\ y.from \in y.open .. Len(t)
      BY <1>1, <2>1
  <2>3. /\ KindAt(t, y.to + 1) \in Ends(p) \cup {"end"}
        /\ \A c \in y.from .. y.to : t[c].kind \notin Ends(p)
      BY <1>1, <2>1, <2>2, RunEndStops, RunEndFacts
  <2> QED
      BY <1>2, <2>1, <2>2, <2>3 DEF Shape
<1>4. Covers(p, t, matches)
  <2>1. \A i \in DOMAIN begin :
           Length(SubSeq(t, begin[i], RunEnd(t, begin[i], Ends(p)))) >= Least(p) =>
               \E x \in matches : x.open = i \/ (x.open < i /\ x.to >= i)
      BY DEF RunsOf
  <2> QED
      BY <1>2, <2>1 DEF Covers
<1> QED
    BY <1>3, <1>4

\* So are those of every pattern.
LEMMA MatchShapes ==
    ASSUME NEW S, NEW t \in Seq(S), NEW n \in DOMAIN Passes, NEW p, p = Passes[n]
    PROVE  /\ \A y \in FindAll(p, t) : Shape(p, t, y)
           /\ Covers(p, t, FindAll(p, t))
<1>1. Len(t) \in Nat /\ DOMAIN t = 1 .. Len(t)
    BY LenProperties
<1>2. p \in {"api_key", "password", "format", "PHONE", "EMAIL", "URL_ADDRESS", "PASSWORD"}
    BY DEF Passes
<1>3. ASSUME NEW kind, p \in KeyNames, Opener(p) = kind, FindAll(p, t) = KeyMatches(t, kind)
      PROVE  (\A y \in FindAll(p, t) : Shape(p, t, y)) /\ Covers(p, t, FindAll(p, t))
  <2>1. Ends(p) = {"quote", "stop"} /\ Least(p) = 8 /\ p \notin Formats
      BY <1>3 DEF Ends, Least, KeyNames, Formats
  <2>2. RunsOf(t, KeyBegin(t, kind), Ends(p), Least(p), FindAll(p, t))
      BY <1>3, <2>1, KeyRuns
  <2>3. p # "PASSWORD"
      BY <1>3 DEF KeyNames
  <2>4. DOMAIN KeyBegin(t, kind) = Positions(t, Opener(p))
      BY <1>3 DEF KeyBegin
  <2>5. \A i \in DOMAIN KeyBegin(t, kind) : KeyBegin(t, kind)[i] = ValueAt(p, t, i)
      BY <1>3, <2>3, Zenon DEF KeyBegin, ValueAt
  <2> QED
      BY <2>1, <2>2, <2>4, <2>5, RunShapes
<1>4. CASE p = "api_key"
  <2>1. p \in KeyNames /\ Opener(p) = "key" /\ FindAll(p, t) = KeyMatches(t, "key")
      BY <1>4 DEF KeyNames, Opener, FindAll
  <2> QED
      BY <1>3, <2>1
<1>5. CASE p = "password"
  <2>1. p \in KeyNames /\ Opener(p) = "pwd" /\ FindAll(p, t) = KeyMatches(t, "pwd")
      BY <1>5 DEF KeyNames, Opener, FindAll
  <2> QED
      BY <1>3, <2>1
<1>6. CASE p = "URL_ADDRESS"
  <2> DEFINE begin == [i \in Positions(t, "url") |-> i]
  <2>1. /\ p \notin Formats /\ Opener(p) = "url" /\ FindAll(p, t) = URLMatches(t) /\ Least(p) = 9
        /\ Ends(p) = {"quote", "stop", "{", "}"}
        /\ \A i : ValueAt(p, t, i) = i
      BY <1>6 DEF KeyNames, Formats, Opener, FindAll, Least, Ends, ValueAt
  <2>2. RunsOf(t, begin, Ends(p), Least(p), FindAll(p, t))
      BY <2>1, URLRuns
  <2>3. DOMAIN begin = Positions(t, Opener(p)) /\ \A i \in DOMAIN begin : begin[i] = ValueAt(p, t, i)
      BY <2>1
  <2>4. p \notin Formats
      BY <2>1
  <2> HIDE DEF begin
  <2> QED
      BY <2>2, <2>3, <2>4, RunShapes
<1>7. CASE p = "PASSWORD"
  <2> DEFINE begin == [i \in Positions(t, "pwd") |-> i + 1]
  <2>1. /\ p \notin Formats /\ Opener(p) = "pwd" /\ FindAll(p, t) = PasswordMatches(t) /\ Least(p) = 1
        /\ Ends(p) = {"stop"}
        /\ \A i : ValueAt(p, t, i) = i + 1
      BY <1>7 DEF KeyNames, Formats, Opener, FindAll, Least, Ends, ValueAt
  <2>2. RunsOf(t, begin, Ends(p), Least(p), FindAll(p, t))
      BY <2>1, PasswordRuns
  <2>3. DOMAIN begin = Positions(t, Opener(p)) /\ \A i \in DOMAIN begin : begin[i] = ValueAt(p, t, i)
      BY <2>1
  <2>4. p \notin Formats
      BY <2>1
  <2> HIDE DEF begin
  <2> QED
      BY <2>2, <2>3, <2>4, RunShapes
<1>8. CASE p \in {"format", "PHONE", "EMAIL"}
  <2>1. /\ p \in Formats /\ FindAll(p, t) = KindMatches(t, Opener(p))
        /\ \A i : ValueAt(p, t, i) = i
      BY <1>8 DEF KeyNames, Formats, Opener, FindAll, ValueAt
  <2>2. ASSUME NEW y \in KindMatches(t, Opener(p)) PROVE Shape(p, t, y)
    <3>1. y.open \in 1 .. Len(t) /\ t[y.open].kind = Opener(p) /\ y.from = y.open /\ y.to = y.open
        BY <1>1 DEF KindMatches, Positions
    <3>2. y.from \in y.open .. Len(t) /\ y.to \in y.from .. Len(t)
        BY <1>1, <3>1
    <3> QED
        BY <2>1, <3>1, <3>2 DEF Shape
  <2> QED
      BY <2>1, <2>2 DEF Covers
<1> QED
    BY <1>2, <1>4, <1>5, <1>6, <1>7, <1>8
\* Of the client's lexemes only quotes, stops and pins are shorter than a value.
LEMMA KindSizes ==
    /\ Size("pin") = 5
    /\ \A k \in Kinds : k \notin {"quote", "stop"} => Size(k) >= 5 /\ (k # "pin" => Size(k) >= 8)
<1> DEFINE size == [key |-> 9, pwd |-> 10, url |-> 8, akia |-> 20, phone |-> 11, mail |-> 15,
                    word |-> 13, pin |-> 5, quote |-> 1, stop |-> 3, body |-> 15]
<1>1. /\ "pin" \in DOMAIN size /\ size["pin"] = 5
      /\ \A k \in Kinds : k \in DOMAIN size
      /\ \A k \in Kinds : k \notin {"quote", "stop"} => size[k] >= 5 /\ (k # "pin" => size[k] >= 8)
    BY DEF Kinds
<1>2. \A kind : Size(kind) = IF kind \in DOMAIN size THEN size[kind] ELSE 1
    BY Zenon DEF Size
<1> HIDE DEF size
<1> QED
    BY <1>1, <1>2

\* A text is at least as long as its first two lexemes.
LEMMA LengthOfTwo ==
    ASSUME NEW t, Len(t) \in Nat, Len(t) >= 2
    PROVE  Size(t[1].kind) + Size(t[2].kind) <= Length(t)
<1> DEFINE n == Len(t)
<1>1. PICK g : Sums(t, n, g) /\ Length(t) = g[n]
    BY LengthSums
<1>2. n \in Nat /\ n >= 2
    OBVIOUS
<1> HIDE DEF n
<1>3. /\ 1 \in 1 .. n /\ 2 \in 1 .. n /\ 1 - 1 = 0 /\ 2 - 1 = 1
      /\ 2 \in 0 .. n /\ n \in 2 .. n
    BY <1>2
<1>4. g[0] = 0 /\ g[1] = g[0] + Size(t[1].kind) /\ g[2] = g[1] + Size(t[2].kind)
    BY <1>1, <1>3 DEF Sums
<1>5. g[2] <= g[n]
    BY <1>1, <1>2, <1>3, SumsGrow
<1>6. Size(t[1].kind) \in Nat /\ Size(t[2].kind) \in Nat
    BY SizeFacts
<1>7. g[2] = Size(t[1].kind) + Size(t[2].kind)
    BY <1>4, <1>6
<1> QED
    BY <1>1, <1>5, <1>7

\* The kinds of lexemes at four places make a placeholder of them.
LEMMA MarksToken ==
    ASSUME NEW t, Len(t) \in Nat, DOMAIN t = 1 .. Len(t), NEW i \in Int
    PROVE  MarksAt(t, i) <=> TokenAt(t, i)
<1>1. ASSUME MarksAt(t, i) PROVE TokenAt(t, i)
  <2>1. /\ KindAt(t, i) = "$" /\ KindAt(t, i + 1) = "{"
        /\ KindAt(t, i + 2) = "body" /\ KindAt(t, i + 3) = "}"
      BY <1>1 DEF MarksAt
  <2>2. \A j : KindAt(t, j) # "end" => j \in 1 .. Len(t) /\ KindAt(t, j) = t[j].kind
      BY DEF KindAt
  <2>3. /\ i \in 1 .. Len(t) /\ i + 3 \in 1 .. Len(t)
        /\ t[i].kind = "$" /\ t[i + 1].kind = "{" /\ t[i + 2].kind = "body" /\ t[i + 3].kind = "}"
      BY <2>1, <2>2
  <2>4. i \in 1 .. Len(t) - 3
    <3>1. i \in 1 .. Len(t) /\ i + 3 \in 1 .. Len(t)
        BY <2>3
    <3>2. \A a \in Int, b \in Nat : a \in 1 .. b /\ a + 3 \in 1 .. b => a \in 1 .. b - 3
        OBVIOUS
    <3> QED
        BY <3>1, <3>2
  <2> QED
      BY <2>3, <2>4, TokenKinds
<1>2. ASSUME TokenAt(t, i) PROVE MarksAt(t, i)
  <2>1. /\ i \in 1 .. Len(t) - 3
        /\ t[i].kind = "$" /\ t[i + 1].kind = "{"
        /\ t[i + 2].kind = "body" /\ t[i + 3].kind = "}"
      BY <1>2, TokenKinds
  <2>2. i \in 1 .. Len(t) /\ i + 1 \in 1 .. Len(t) /\ i + 2 \in 1 .. Len(t) /\ i + 3 \in 1 .. Len(t)
    <3>1. i \in 1 .. Len(t) - 3
        BY <2>1
    <3>2. \A a \in Int, b \in Nat :
              a \in 1 .. b - 3 => a \in 1 .. b /\ a + 1 \in 1 .. b /\ a + 2 \in 1 .. b /\ a + 3 \in 1 .. b
        OBVIOUS
    <3> QED
        BY <3>1, <3>2
  <2> QED
      BY <2>1, <2>2 DEF MarksAt, KindAt
<1> QED
    BY <1>1, <1>2

\* No lexeme is of the kind that stands for the end.
Real(t) == \A i \in 1 .. Len(t) : t[i].kind # "end"

\* The kinds in front of the end of a value do not end it.
LEMMA InValue ==
    ASSUME NEW S, NEW t \in Seq(S), Real(t), NEW p, p \notin Formats, NEW y, Shape(p, t, y),
           NEW j \in y.from .. y.to
    PROVE  KindAt(t, j) \notin Ends(p) \cup {"end"}
<1>1. Len(t) \in Nat /\ DOMAIN t = 1 .. Len(t)
    BY LenProperties
<1>2. /\ y.open \in 1 .. Len(t) /\ y.from \in y.open .. Len(t) /\ y.to \in y.from .. Len(t)
      /\ t[j].kind \notin Ends(p)
    BY DEF Shape
<1>3. j \in 1 .. Len(t)
    BY <1>1, <1>2
<1> QED
    BY <1>1, <1>2, <1>3 DEF KindAt, Real

\* A match whose value is one lexeme is as long as that.
LEMMA OneLong ==
    ASSUME NEW S, NEW t \in Seq(S), NEW b \in 1 .. Len(t)
    PROVE  Length(SubSeq(t, b, b)) = Size(t[b].kind)
<1> DEFINE v == SubSeq(t, b, b)
<1>1. Len(t) \in Nat
    BY LenProperties
<1>2. b \in 1 .. Len(t) + 1 /\ b \in (b - 1) .. Len(t) /\ b - b + 1 = 1 /\ 1 \in 1 .. 1 /\ b + 1 - 1 = b
    BY <1>1
<1>3. Len(v) = 1 /\ v[1] = t[b]
    BY <1>2, Part
<1> HIDE DEF v
<1>4. Len(v) \in Nat
    BY <1>3
<1>5. Length(v) = Size(v[1].kind)
    BY <1>3, <1>4, LengthOfParts
<1> QED
    BY <1>3, <1>5 DEF v

\* A part of a text of four lexemes with the marks of a placeholder is one.
LEMMA FourPlaceholder ==
    ASSUME NEW S, NEW t \in Seq(S), NEW b \in 1 .. Len(t), NEW e \in b .. Len(t)
    PROVE  IsPlaceholder(SubSeq(t, b, e)) <=> e = b + 3 /\ TokenAt(t, b)
<1> DEFINE v == SubSeq(t, b, e)
<1>1. Len(t) \in Nat /\ b \in Int /\ e \in Int /\ b <= e /\ e <= Len(t) /\ 1 <= b
    BY LenProperties
<1>2. b \in 1 .. Len(t) + 1 /\ e \in (b - 1) .. Len(t)
    BY <1>1
<1>3. Len(v) = e - b + 1 /\ \A k \in 1 .. e - b + 1 : v[k] = t[b + k - 1]
    BY <1>2, Part
<1> HIDE DEF v
<1>4. IsPlaceholder(v) <=> Len(v) = 4 /\ TokenAt(v, 1)
    BY DEF IsPlaceholder
<1>5. Len(v) = 4 <=> e = b + 3
    BY <1>1, <1>3
<1>6. ASSUME e = b + 3 PROVE TokenAt(v, 1) <=> TokenAt(t, b)
  <2>1. Len(v) \in Nat /\ 1 \in 1 .. Len(v) - 3 /\ b \in 1 .. Len(t) - 3
      BY <1>1, <1>3, <1>6
  <2>2. /\ 1 \in 1 .. e - b + 1 /\ 2 \in 1 .. e - b + 1 /\ 3 \in 1 .. e - b + 1 /\ 4 \in 1 .. e - b + 1
        /\ b + 1 - 1 = b /\ b + 2 - 1 = b + 1 /\ b + 3 - 1 = b + 2 /\ b + 4 - 1 = b + 3
      BY <1>1, <1>6
  <2>3. v[1] = t[b] /\ v[2] = t[b + 1] /\ v[3] = t[b + 2] /\ v[4] = t[b + 3]
      BY <1>3, <2>2
  <2>7. Len(v) \in Nat
      BY <2>1
  <2>4. \A i : TokenAt(v, i) <=> /\ i \in 1 .. Len(v) - 3
                                 /\ v[i].kind = "$" /\ v[i + 1].kind = "{"
                                 /\ v[i + 2].kind = "body" /\ v[i + 3].kind = "}"
      BY <2>7, TokenKinds
  <2>5. TokenAt(t, b) <=> /\ b \in 1 .. Len(t) - 3
                          /\ t[b].kind = "$" /\ t[b + 1].kind = "{"
                          /\ t[b + 2].kind = "body" /\ t[b + 3].kind = "}"
      BY <1>1, TokenKinds
  <2>6. 1 + 1 = 2 /\ 1 + 2 = 3 /\ 1 + 3 = 4
      OBVIOUS
  <2>8. TokenAt(v, 1) <=> /\ 1 \in 1 .. Len(v) - 3
                          /\ v[1].kind = "$" /\ v[2].kind = "{"
                          /\ v[3].kind = "body" /\ v[4].kind = "}"
    <3> DEFINE Says(i, j, k, l) ==
                   TokenAt(v, i) <=> /\ i \in 1 .. Len(v) - 3
                                     /\ v[i].kind = "$" /\ v[j].kind = "{"
                                     /\ v[k].kind = "body" /\ v[l].kind = "}"
    <3>1. \A i : Says(i, i + 1, i + 2, i + 3)
        BY <2>4
    <3> HIDE DEF Says
    <3>2. Says(1, 1 + 1, 1 + 2, 1 + 3)
        BY <3>1
    <3>3. Says(1, 2, 3, 4)
        BY <2>6, <3>2
    <3> QED
        BY <3>3 DEF Says
  <2> QED
      BY <2>1, <2>3, <2>5, <2>8
<1> QED
    BY <1>4, <1>5, <1>6 DEF v

\* When all that a pattern could match is settled, what it does match is left alone.
LEMMA SettledSkipped ==
    ASSUME NEW S, NEW t \in Seq(S), Real(t), NEW n \in DOMAIN Passes, NEW p, p = Passes[n],
           AllSettled(p, t), NEW y \in FindAll(p, t)
    PROVE  Skips(p, t, y)
<1> DEFINE x == y.open
           b == y.from
           e == y.to
<1>1. Len(t) \in Nat /\ DOMAIN t = 1 .. Len(t)
    BY LenProperties
<1>2. Shape(p, t, y)
    BY MatchShapes
<1>3. /\ x \in 1 .. Len(t) /\ t[x].kind = Opener(p) /\ b = ValueAt(p, t, x)
      /\ b \in x .. Len(t) /\ e \in b .. Len(t)
    BY <1>2 DEF Shape
<1>4. PICK c \in Int : Settled(p, t, x, c)
    BY <1>3 DEF AllSettled
<1>5. /\ p \notin Formats
      /\ KindAt(t, c) \in Ends(p) \cup {"end"}
      /\ \/ p # "URL_ADDRESS" /\ c = b
         \/ p \in KeyNames /\ c = b + 1 /\ KindAt(t, b) = "pin"
         \/ p = "URL_ADDRESS" /\ c = b + 1
         \/ p # "URL_ADDRESS" /\ c = b + 4 /\ MarksAt(t, b)
    BY <1>3, <1>4 DEF Settled
<1>6. /\ KindAt(t, e + 1) \in Ends(p) \cup {"end"}
      /\ Length(SubSeq(t, b, e)) >= Least(p)
    BY <1>2, <1>5 DEF Shape
<1>7. \A j \in b .. e : KindAt(t, j) \notin Ends(p) \cup {"end"}
    BY <1>2, <1>5, InValue
<1> HIDE DEF x, b, e
<1>8. b \in Int /\ e \in Int /\ b <= e /\ b \in 1 .. Len(t) /\ e <= Len(t)
    BY <1>1, <1>3
<1>9. ~ (b <= c /\ c <= e)
    BY <1>5, <1>7, <1>8
<1>10. c # b
    BY <1>8, <1>9
<1>11. ASSUME c = b + 1 PROVE e = b
    BY <1>8, <1>9, <1>11
<1>12. ~ (p \in KeyNames /\ c = b + 1 /\ KindAt(t, b) = "pin")
  <2>1. SUFFICES ASSUME p \in KeyNames, c = b + 1, KindAt(t, b) = "pin" PROVE FALSE
      OBVIOUS
  <2>2. t[b].kind = "pin" /\ b \in 1 .. Len(t)
      BY <1>1, <1>8, <2>1 DEF KindAt
  <2>3. Length(SubSeq(t, b, e)) = 5
      BY <1>11, <2>1, <2>2, OneLong, KindSizes
  <2>4. Least(p) = 8
      BY <2>1 DEF Least, KeyNames
  <2> QED
      BY <1>6, <2>3, <2>4
<1>13. ~ (p = "URL_ADDRESS" /\ c = b + 1)
  <2>1. SUFFICES ASSUME p = "URL_ADDRESS", c = b + 1 PROVE FALSE
      OBVIOUS
  <2>2. b = x
      BY <1>3, <2>1 DEF ValueAt, KeyNames
  <2>3. t[b].kind = "url"
      BY <1>3, <2>1, <2>2 DEF Opener
  <2>4. Length(SubSeq(t, b, e)) = 8
      BY <1>8, <1>11, <2>1, <2>3, OneLong, SizeFacts
  <2>5. Least(p) = 9
      BY <2>1 DEF Least, KeyNames
  <2> QED
      BY <1>6, <2>4, <2>5
<1>14. p # "URL_ADDRESS" /\ c = b + 4 /\ MarksAt(t, b)
    BY <1>5, <1>10, <1>12, <1>13
<1>15. \A k \in {"$", "{", "body", "}"} : k \notin Ends(p) \cup {"end"}
    BY <1>14 DEF Ends
<1>16. ~ (e + 1 = b + 1 \/ e + 1 = b + 2 \/ e + 1 = b + 3)
    BY <1>6, <1>14, <1>15 DEF MarksAt
<1>17. e = b + 3
    BY <1>8, <1>9, <1>14, <1>16
<1>18. IsPlaceholder(SubSeq(t, b, e))
    BY <1>1, <1>8, <1>14, <1>17, FourPlaceholder, MarksToken
<1> QED
    BY <1>18 DEF Skips, b, e
\* A pattern that leaves alone all it matches changes nothing.
LEMMA SkippedStays ==
    ASSUME NEW l \in DOMAIN Passes, NEW t, NEW m, NEW w,
           Fits([text |-> t, made |-> m]), Restores([text |-> t, made |-> m], w),
           \A y \in FindAll(Passes[l], t) : Skips(Passes[l], t, y)
    PROVE  Masked(Passes[l], t, m) = [text |-> t, made |-> m]
<1> DEFINE n == Len(t)
           p == Passes[l]
           matches == FindAll(p, t)
           start == [text |-> t, made |-> m]
<1>1. t \in Seq(Elements(m)) /\ start.text = t
    BY DEF Fits
<1>2. n \in Nat
    BY <1>1, LenProperties
<1>3. PICK g : Steps(g, p, t, m, w) /\ Masked(p, t, m) = g[1]
    BY MaskedSteps
<1>4. /\ g[n + 1] = start
      /\ \A i \in 1 .. n : g[i] = ReplacedAt(p, g[i + 1], matches, i)
    BY <1>3 DEF Steps
<1>5. ASSUME NEW i PROVE ReplacedAt(p, start, matches, i) = start
  <2> DEFINE here == {x \in matches : x.from = i}
             x0 == CHOOSE x \in here : TRUE
  <2>1. CASE here = {}
      BY <2>1 DEF ReplacedAt
  <2>2. CASE here # {}
    <3>1. x0 \in here
        BY <2>2
    <3>2. Skips(p, start.text, x0)
        BY <1>1, <3>1
    <3>3. ReplacedAt(p, start, matches, i) = Replaced(p, start, x0)
        BY <2>2 DEF ReplacedAt
    <3> HIDE DEF x0, start, p, matches
    <3>4. Replaced(p, start, x0) = start
        BY <3>2 DEF Replaced
    <3> QED
        BY <3>3, <3>4
  <2> QED
      BY <2>1, <2>2
<1> HIDE DEF matches, p, start, n
<1> DEFINE P == {k \in Nat : k <= n => g[n + 1 - k] = start}
<1>6. 0 \in P
    BY <1>2, <1>4
<1>7. ASSUME NEW k \in Nat, k \in P PROVE k + 1 \in P
  <2>1. SUFFICES ASSUME k + 1 <= n PROVE g[n + 1 - (k + 1)] = start
      OBVIOUS
  <2>2. g[n + 1 - k] = start
      BY <1>2, <1>7, <2>1
  <2> DEFINE i == n + 1 - (k + 1)
  <2>3. i \in 1 .. n /\ n + 1 - k = i + 1
      BY <1>2, <2>1
  <2> HIDE DEF i
  <2>4. g[i] = start
      BY <1>4, <1>5, <2>2, <2>3
  <2> QED
      BY <2>4 DEF i
<1> HIDE DEF P
<1>8. n \in P
    BY <1>2, <1>6, <1>7, AllNumbers
<1>9. n <= n /\ n + 1 - n = 1
    BY <1>2
<1>10. g[1] = start
    BY <1>8, <1>9 DEF P
<1> QED
    BY <1>3, <1>10 DEF p, start

\* A pattern that finds everything settled changes nothing.
LEMMA SettledStays ==
    ASSUME NEW l \in DOMAIN Passes, NEW t, NEW m, NEW w,
           Fits([text |-> t, made |-> m]), Restores([text |-> t, made |-> m], w),
           AllSettled(Passes[l], t)
    PROVE  Masked(Passes[l], t, m) = [text |-> t, made |-> m]
<1>1. t \in Seq(Elements(m)) /\ BodiesFit(m)
    BY DEF Fits
<1>2. Real(t)
  <2>1. \A k \in Kinds \cup MarkKinds : k # "end"
      BY DEF Kinds, MarkKinds
  <2>2. ASSUME NEW i \in 1 .. Len(t) PROVE t[i].kind # "end"
    <3>1. t[i] \in Elements(m)
        BY <1>1, ElementOfSeq
    <3> QED
        BY <1>1, <2>1, <3>1, ElementFacts
  <2> QED
      BY <2>2 DEF Real
<1>3. \A y \in FindAll(Passes[l], t) : Skips(Passes[l], t, y)
    BY <1>1, <1>2, SettledSkipped
<1> QED
    BY <1>3, SkippedStays
\* A run of a key name's value that reaches a placeholder holds its body.
LEMMA TokenInRun ==
    ASSUME NEW S, NEW t \in Seq(S), NEW b \in 1 .. Len(t), NEW j \in b .. Len(t), TokenAt(t, j),
           NEW e, e = RunEnd(t, b, {"quote", "stop"}), j <= e
    PROVE  Length(SubSeq(t, b, e)) >= 8
<1>1. Len(t) \in Nat /\ DOMAIN t = 1 .. Len(t) /\ b \in Int /\ j \in Int
    BY LenProperties
<1>2. b \in 1 .. Len(t) + 1
    BY <1>1
<1>3. /\ e \in (b - 1) .. Len(t)
      /\ \A c \in b .. e : t[c].kind \notin {"quote", "stop"}
      /\ \A i \in b .. Len(t) : (\A c \in b .. i : t[c].kind \notin {"quote", "stop"}) => i <= e
    BY <1>1, <1>2, RunEndFacts
<1>4. /\ j \in 1 .. Len(t) - 3 /\ t[j + 2].kind = "body"
      /\ t[j].kind \notin {"quote", "stop"} /\ t[j + 1].kind \notin {"quote", "stop"}
      /\ t[j + 2].kind \notin {"quote", "stop"}
    BY <1>1, TokenKinds
<1>5. j \in 1 .. Len(t) - 3 /\ b <= j /\ j <= e /\ e \in Int
    BY <1>1, <1>3, <1>4
<1>6. j + 2 \in b .. Len(t) /\ \A c \in b .. j + 2 : c \in b .. e \/ c = j + 1 \/ c = j + 2
    BY <1>1, <1>5
<1>7. \A c \in b .. j + 2 : t[c].kind \notin {"quote", "stop"}
    BY <1>3, <1>4, <1>6
<1>8. j + 2 <= e
    BY <1>3, <1>6, <1>7
<1> DEFINE v == SubSeq(t, b, e)
           k == j + 2 - b + 1
<1>9. Len(v) = e - b + 1 /\ \A i \in 1 .. e - b + 1 : v[i] = t[b + i - 1]
    BY <1>2, <1>3, Part
<1>10. k \in 1 .. e - b + 1 /\ b + k - 1 = j + 2
    BY <1>1, <1>5, <1>8
<1> HIDE DEF v, k
<1>11. v[k].kind = "body" /\ k \in 1 .. Len(v)
    BY <1>4, <1>9, <1>10
<1>12. Len(v) \in Nat
    BY <1>1, <1>5, <1>9
<1>13. Size(v[k].kind) <= Length(v) /\ Length(v) \in Nat
    BY <1>11, <1>12, LengthOfParts
<1>14. Size(v[k].kind) = 15
    BY <1>11, SizeFacts
<1>15. Length(v) >= 8
    BY <1>13, <1>14
<1> QED
    BY <1>15 DEF v

\* A run of two lexemes or more is at least as long as its first two.
LEMMA TwoLong ==
    ASSUME NEW S, NEW t \in Seq(S), NEW b \in 1 .. Len(t), NEW e \in b .. Len(t)
    PROVE  /\ Length(SubSeq(t, b, e)) \in Nat
           /\ Size(t[b].kind) <= Length(SubSeq(t, b, e))
           /\ e > b => Size(t[b].kind) + Size(t[b + 1].kind) <= Length(SubSeq(t, b, e))
<1>1. Len(t) \in Nat /\ b \in Int /\ e \in Int /\ b <= e /\ 1 <= b /\ e <= Len(t)
    BY LenProperties
<1>2. b \in 1 .. Len(t) + 1 /\ e \in (b - 1) .. Len(t)
    BY <1>1
<1> DEFINE v == SubSeq(t, b, e)
<1>3. Len(v) = e - b + 1 /\ \A i \in 1 .. e - b + 1 : v[i] = t[b + i - 1]
    BY <1>2, Part
<1> HIDE DEF v
<1>4. Len(v) \in Nat /\ 1 \in 1 .. e - b + 1 /\ b + 1 - 1 = b /\ 1 \in 1 .. Len(v)
    BY <1>1, <1>3
<1>5. v[1] = t[b]
    BY <1>3, <1>4
<1>6. Size(v[1].kind) <= Length(v) /\ Length(v) \in Nat
    BY <1>4, LengthOfParts
<1>7. ASSUME e > b PROVE Size(t[b].kind) + Size(t[b + 1].kind) <= Length(v)
  <2>1. 2 \in 1 .. e - b + 1 /\ b + 2 - 1 = b + 1 /\ Len(v) >= 2
      BY <1>1, <1>3, <1>7
  <2>2. v[2] = t[b + 1]
      BY <1>3, <2>1
  <2>3. Size(v[1].kind) + Size(v[2].kind) <= Length(v)
      BY <1>4, <2>1, LengthOfTwo
  <2> QED
      BY <1>5, <2>2, <2>3
<1> QED
    BY <1>5, <1>6, <1>7 DEF v

\* What opens at x and is not settled is followed by a run that is long enough.
LEMMA LongKey ==
    ASSUME NEW o, OfClient(o), NEW S, NEW t \in Seq(S), InPlace(t, o), Starts(t),
           NEW n \in DOMAIN Passes, NEW p, p = Passes[n], p \in KeyNames,
           NEW x \in 1 .. Len(t), t[x].kind = Opener(p), ~ \E c \in Int : Settled(p, t, x, c),
           NEW b, b = ValueAt(p, t, x), NEW e, e = RunEnd(t, b, {"quote", "stop"})
    PROVE  Length(SubSeq(t, b, e)) >= 8
<1>1. Len(t) \in Nat /\ DOMAIN t = 1 .. Len(t) /\ x \in Int
    BY LenProperties
<1>2. Ends(p) = {"quote", "stop"} /\ p \notin Formats /\ p # "URL_ADDRESS"
    BY DEF Ends, KeyNames, Formats
<1>3. \A j : KindAt(t, j) # "end" => j \in 1 .. Len(t) /\ KindAt(t, j) = t[j].kind
    BY <1>1 DEF KindAt
<1>4. /\ b \in Int /\ b > x /\ b - 1 \in 1 .. Len(t) /\ t[b - 1].kind \notin MarkKinds
      /\ b \in 1 .. Len(t) + 1
  <2>1. CASE KindAt(t, x + 1) = "quote"
    <3>1. b = x + 2
        BY <1>1, <2>1, ValueFacts
    <3>2. x + 1 \in 1 .. Len(t) /\ t[x + 1].kind = "quote"
        BY <1>3, <2>1
    <3>3. b \in Int /\ b > x /\ b - 1 = x + 1 /\ b \in 1 .. Len(t) + 1
        BY <1>1, <3>1, <3>2
    <3> QED
        BY <3>2, <3>3, NoMarks
  <2>2. CASE KindAt(t, x + 1) # "quote"
    <3>1. b = x + 1
        BY <1>1, <2>2, ValueFacts
    <3>2. b \in Int /\ b > x /\ b - 1 = x /\ b \in 1 .. Len(t) + 1
        BY <1>1, <3>1
    <3> QED
        BY <3>2, OpenerFacts
  <2> QED
      BY <2>1, <2>2
<1>5. /\ e \in (b - 1) .. Len(t)
      /\ \A c \in b .. e : t[c].kind \notin {"quote", "stop"}
      /\ KindAt(t, e + 1) \in {"quote", "stop", "end"}
  <2>1. KindAt(t, e + 1) \in {"quote", "stop"} \cup {"end"}
      BY <1>1, <1>4, RunEndStops
  <2> QED
      BY <1>1, <1>4, <2>1, RunEndFacts
<1>6. e \in Int /\ e <= Len(t) /\ b - 1 <= e
    BY <1>4, <1>5
<1>7. e >= b
  <2>1. SUFFICES ASSUME e = b - 1 PROVE FALSE
      BY <1>4, <1>6
  <2>2. e + 1 = b
      BY <1>4, <2>1
  <2>3. KindAt(t, b) \in Ends(p) \cup {"end"}
      BY <1>2, <1>5, <2>2
  <2>4. Settled(p, t, x, b)
      BY <1>2, <2>3 DEF Settled
  <2> QED
      BY <1>4, <2>4
<1>8. b \in 1 .. Len(t) /\ e \in b .. Len(t) /\ b \in b .. Len(t) /\ b \in b .. e
    BY <1>1, <1>4, <1>6, <1>7
<1>9. CASE t[b].kind \in MarkKinds
  <2>1. TokenAt(t, b)
      BY <1>4, <1>8, <1>9 DEF Starts
  <2> QED
      BY <1>7, <1>8, <2>1, TokenInRun
<1>10. CASE t[b].kind \notin MarkKinds
  <2>1. t[b].kind \in Kinds /\ t[b].kind \notin {"quote", "stop"}
    <3>1. t[b].at # 0 => t[b].at \in 1 .. Len(o) /\ t[b] = o[t[b].at]
        BY <1>8, ClientOrMark
    <3>2. t[b].at # 0
        BY <1>8, <1>10, ClientOrMark
    <3> QED
        BY <1>5, <1>8, <3>1, <3>2 DEF OfClient
  <2>2. CASE t[b].kind # "pin"
    <3>1. Size(t[b].kind) >= 8 /\ Size(t[b].kind) \in Nat
        BY <2>1, <2>2, KindSizes, SizeFacts
    <3>2. Size(t[b].kind) <= Length(SubSeq(t, b, e)) /\ Length(SubSeq(t, b, e)) \in Nat
        BY <1>8, TwoLong
    <3> QED
        BY <3>1, <3>2
  <2>3. CASE t[b].kind = "pin"
    <3>1. e > b
      <4>1. SUFFICES ASSUME e = b PROVE FALSE
          BY <1>4, <1>6, <1>7
      <4>2. KindAt(t, b + 1) \in Ends(p) \cup {"end"} /\ KindAt(t, b) = "pin"
          BY <1>1, <1>2, <1>5, <1>8, <2>3, <4>1 DEF KindAt
      <4>3. Settled(p, t, x, b + 1)
          BY <1>2, <4>2 DEF Settled
      <4>4. b + 1 \in Int
          BY <1>4
      <4> QED
          BY <4>3, <4>4
    <3>2. /\ b + 1 \in 1 .. Len(t) /\ b + 1 \in b .. Len(t) /\ b + 1 \in b .. e /\ b + 1 <= e
          /\ b + 1 # 1 /\ (b + 1) - 1 = b
        BY <1>4, <1>6, <1>8, <3>1
    <3>3. CASE t[b + 1].kind \in MarkKinds
      <4>1. TokenAt(t, b + 1)
          BY <1>10, <3>2, <3>3 DEF Starts
      <4> QED
          BY <1>8, <3>2, <4>1, TokenInRun
    <3>4. CASE t[b + 1].kind \notin MarkKinds
      <4>1. t[b + 1].kind \in Kinds /\ t[b + 1].kind \notin {"quote", "stop"}
        <5>1. t[b + 1].at # 0
            BY <3>2, <3>4, ClientOrMark
        <5>2. t[b + 1].at \in 1 .. Len(o) /\ t[b + 1] = o[t[b + 1].at]
            BY <3>2, <5>1, ClientOrMark
        <5> QED
            BY <1>5, <3>2, <5>2 DEF OfClient
      <4>2. Size(t[b + 1].kind) >= 5 /\ Size(t[b].kind) >= 5
          BY <2>1, <4>1, KindSizes
      <4>3. Size(t[b + 1].kind) \in Nat /\ Size(t[b].kind) \in Nat
          BY SizeFacts
      <4>4. Size(t[b].kind) + Size(t[b + 1].kind) <= Length(SubSeq(t, b, e)) /\ Length(SubSeq(t, b, e)) \in Nat
          BY <1>8, <3>1, TwoLong
      <4> QED
          BY <4>2, <4>3, <4>4
    <3> QED
        BY <3>3, <3>4
  <2> QED
      BY <2>2, <2>3
<1> QED
    BY <1>9, <1>10
\* ... whatever the pattern of values is.
LEMMA LongRun ==
    ASSUME NEW o, OfClient(o), NEW S, NEW t \in Seq(S), InPlace(t, o), Starts(t),
           NEW n \in DOMAIN Passes, NEW p, p = Passes[n], p \notin Formats,
           NEW x \in 1 .. Len(t), t[x].kind = Opener(p), ~ \E c \in Int : Settled(p, t, x, c),
           NEW b, b = ValueAt(p, t, x), NEW e, e = RunEnd(t, b, Ends(p))
    PROVE  Length(SubSeq(t, b, e)) >= Least(p)
<1>1. Len(t) \in Nat /\ DOMAIN t = 1 .. Len(t) /\ x \in Int
    BY LenProperties
<1>2. p \in KeyNames \/ p = "PASSWORD" \/ p = "URL_ADDRESS"
    BY ValueFacts
<1>3. CASE p \in KeyNames
  <2>1. Ends(p) = {"quote", "stop"} /\ Least(p) = 8
      BY <1>3 DEF Ends, Least, KeyNames
  <2>2. Length(SubSeq(t, b, e)) >= 8
      BY <1>3, <2>1, LongKey
  <2> QED
      BY <2>1, <2>2
<1>4. CASE p = "PASSWORD"
  <2>1. b = x + 1 /\ Least(p) = 1 /\ p # "URL_ADDRESS"
      BY <1>4 DEF ValueAt, Least, KeyNames
  <2>2. b \in Int /\ b \in 1 .. Len(t) + 1 /\ b = x + 1
      BY <1>1, <2>1
  <2>3. e \in (b - 1) .. Len(t) /\ KindAt(t, e + 1) \in Ends(p) \cup {"end"}
      BY <1>1, <2>2, RunEndFacts, RunEndStops
  <2>4. e # b - 1
    <3>1. SUFFICES ASSUME e = b - 1 PROVE FALSE
        OBVIOUS
    <3>2. e + 1 = b
        BY <2>2, <3>1
    <3>3. Settled(p, t, x, b)
        BY <2>1, <2>3, <3>2 DEF Settled
    <3> QED
        BY <2>2, <3>3
  <2>5. b \in 1 .. Len(t) /\ e \in b .. Len(t)
      BY <1>1, <2>2, <2>3, <2>4
  <2>6. Size(t[b].kind) <= Length(SubSeq(t, b, e)) /\ Length(SubSeq(t, b, e)) \in Nat
      BY <2>5, TwoLong
  <2>7. Size(t[b].kind) \in Nat /\ Size(t[b].kind) >= 1
      BY SizeFacts
  <2>8. Length(SubSeq(t, b, e)) >= 1
      BY <2>6, <2>7
  <2> QED
      BY <2>1, <2>8
<1>5. CASE p = "URL_ADDRESS"
  <2>1. b = x /\ Least(p) = 9 /\ Opener(p) = "url" /\ Opener(p) \notin Ends(p)
      BY <1>5 DEF ValueAt, Least, KeyNames, Opener, Ends
  <2>2. b \in Int /\ b \in 1 .. Len(t) + 1 /\ b \in 1 .. Len(t)
      BY <1>1, <2>1
  <2>3. /\ e \in (b - 1) .. Len(t)
        /\ KindAt(t, e + 1) \in Ends(p) \cup {"end"}
        /\ \A j \in b .. Len(t) : (\A c \in b .. j : t[c].kind \notin Ends(p)) => j <= e
      BY <1>1, <2>2, RunEndFacts, RunEndStops
  <2>4. b <= e
    <3>1. \A c \in b .. b : c = b
        BY <2>2
    <3>2. t[b].kind \notin Ends(p)
        BY <2>1
    <3>3. b \in b .. Len(t)
        BY <1>1, <2>2
    <3> QED
        BY <2>3, <3>1, <3>2, <3>3
  <2>5. e # b
    <3>1. SUFFICES ASSUME e = b PROVE FALSE
        OBVIOUS
    <3>2. Settled(p, t, x, b + 1)
        BY <1>5, <2>1, <2>3, <3>1 DEF Settled
    <3>3. b + 1 \in Int
        BY <2>2
    <3> QED
        BY <3>2, <3>3
  <2>6. e \in b + 1 .. Len(t)
      BY <2>2, <2>3, <2>4, <2>5
  <2>7. t[b].kind = "url"
      BY <2>1
  <2>8. Length(SubSeq(t, b, e)) >= 9
      BY <2>2, <2>6, <2>7, AddressIsLong
  <2> QED
      BY <2>1, <2>8
<1> QED
    BY <1>2, <1>3, <1>4, <1>5

\* Lexemes that would not be recognised behind what is masked stand somewhere else: an
\* address is found inside what could be the placeholder of a telephone number, and the
\* others would run into what stands in front of them.
Sparse(o) ==
    \A i \in 2 .. Len(o) :
        /\ o[i].kind \in {"akia", "mail", "url"} => o[i - 1].kind \notin {"akia", "phone", "mail"}
        /\ o[i].kind = "phone" => o[i - 1].kind # "akia"

\* What stands right behind a placeholder ended its value, or was behind a number, an
\* address or a key that one of the first passes masked.
Follows(t, o, n) ==
    \A x \in 2 .. Len(t) :
        t[x - 1].at = 0 /\ t[x].at # 0 =>
            \/ t[x].kind \in {"quote", "stop"}
            \/ \E k \in 1 .. n - 1 : Passes[k] \in Formats /\ o[t[x].at - 1].kind = Opener(Passes[k])

\* In the passes, what one of them masks does not stand in front of what a later one finds.
LEMMA SparsePasses ==
    ASSUME NEW n \in DOMAIN Passes, Passes[n] \in Formats \cup {"URL_ADDRESS"},
           NEW k \in 1 .. n - 1, Passes[k] \in Formats
    PROVE  \/ /\ Opener(Passes[n]) \in {"akia", "mail", "url"}
              /\ Opener(Passes[k]) \in {"akia", "phone", "mail"}
           \/ Opener(Passes[n]) = "phone" /\ Opener(Passes[k]) = "akia"
<1>1. DOMAIN Passes = 1 .. 7 /\ n \in 1 .. 7 /\ k \in 1 .. 6 /\ k < n
    BY DEF Passes
<1>2. /\ Passes[1] = "api_key" /\ Passes[2] = "password" /\ Passes[3] = "format" /\ Passes[4] = "PHONE"
      /\ Passes[5] = "EMAIL" /\ Passes[6] = "URL_ADDRESS" /\ Passes[7] = "PASSWORD"
    BY DEF Passes
<1>3. n = 3 \/ n = 4 \/ n = 5 \/ n = 6
  <2>1. n = 1 \/ n = 2 \/ n = 3 \/ n = 4 \/ n = 5 \/ n = 6 \/ n = 7
      BY <1>1
  <2> QED
      BY <1>2, <2>1 DEF Formats
<1>4. k = 3 \/ k = 4 \/ k = 5
  <2>1. k = 1 \/ k = 2 \/ k = 3 \/ k = 4 \/ k = 5 \/ k = 6
      BY <1>1
  <2> QED
      BY <1>2, <2>1 DEF Formats
<1>5. Opener(Passes[3]) = "akia" /\ Opener(Passes[4]) = "phone" /\ Opener(Passes[5]) = "mail"
      /\ Opener(Passes[6]) = "url"
    BY <1>2 DEF Opener
<1>6. n = 4 => k = 3
    BY <1>1, <1>4
<1>7. n # 3
    BY <1>1, <1>4
<1> QED
    BY <1>3, <1>4, <1>5, <1>6, <1>7

\* So nothing that such a pattern begins with stands right behind a placeholder.
LEMMA NotBehindMark ==
    ASSUME NEW o, OfClient(o), Sparse(o), NEW t, InPlace(t, o),
           NEW n \in DOMAIN Passes, Passes[n] \in Formats \cup {"URL_ADDRESS"}, Follows(t, o, n),
           NEW x \in 1 .. Len(t), t[x].kind = Opener(Passes[n])
    PROVE  x = 1 \/ t[x - 1].kind \notin MarkKinds
<1> SUFFICES ASSUME x # 1, t[x - 1].kind \in MarkKinds PROVE FALSE
    OBVIOUS
<1>1. x \in 2 .. Len(t) /\ x - 1 \in 1 .. Len(t)
    BY DEF InPlace
<1>2. t[x - 1].at = 0
    BY <1>1, ClientOrMark
<1>3. t[x].at # 0 /\ t[x].at \in 1 .. Len(o) /\ t[x] = o[t[x].at]
    BY OpenerFacts, ClientOrMark
<1>4. t[x].kind \notin {"quote", "stop"}
  <2>1. Opener(Passes[n]) \notin Inert
      BY OpenerFacts
  <2> QED
      BY <2>1 DEF Inert
<1>5. PICK k \in 1 .. n - 1 : Passes[k] \in Formats /\ o[t[x].at - 1].kind = Opener(Passes[k])
    BY <1>1, <1>2, <1>3, <1>4 DEF Follows
<1>6. t[x].at # 1
    BY DEF InPlace
<1>7. t[x].at \in 2 .. Len(o)
    BY <1>3, <1>6 DEF OfClient
<1>8. o[t[x].at].kind = Opener(Passes[n])
    BY <1>3
<1>9. \/ /\ Opener(Passes[n]) \in {"akia", "mail", "url"}
         /\ Opener(Passes[k]) \in {"akia", "phone", "mail"}
      \/ Opener(Passes[n]) = "phone" /\ Opener(Passes[k]) = "akia"
    BY <1>5, SparsePasses
<1> QED
    BY <1>5, <1>7, <1>8, <1>9 DEF Sparse

\* What is inside a placeholder, or right behind it, stands behind a part of it.
LEMMA InsideBehindMark ==
    ASSUME NEW S, NEW u \in Seq(S), NEW f, isInsidePlaceholder(u, f)
    PROVE  f # 1 /\ u[f - 1].kind \in MarkKinds
<1>1. Len(u) \in Nat /\ DOMAIN u = 1 .. Len(u)
    BY LenProperties
<1>2. PICK i \in 1 .. Len(u) : TokenAt(u, i) /\ f \in i + 2 .. i + 4
    BY <1>1 DEF isInsidePlaceholder
<1>3. u[i + 1].kind = "{" /\ u[i + 2].kind = "body" /\ u[i + 3].kind = "}"
    BY <1>1, <1>2, TokenKinds
<1>4. f # 1 /\ (f - 1 = i + 1 \/ f - 1 = i + 2 \/ f - 1 = i + 3)
    BY <1>1, <1>2
<1> QED
    BY <1>3, <1>4 DEF MarkKinds
\* Between the opening lexeme of a match and its value there is at most a quote.
LEMMA BetweenQuote ==
    ASSUME NEW S, NEW t \in Seq(S), NEW n \in DOMAIN Passes, NEW p, p = Passes[n], NEW y, Shape(p, t, y),
           NEW x \in 1 .. Len(t), y.open < x, x < y.from
    PROVE  t[x].kind = "quote"
<1>1. Len(t) \in Nat /\ DOMAIN t = 1 .. Len(t)
    BY LenProperties
<1> DEFINE z == y.open
           b == y.from
<1>2. z \in 1 .. Len(t) /\ b = ValueAt(p, t, z) /\ z < x /\ x < b
    BY DEF Shape
<1> HIDE DEF z, b
<1>3. z \in Int /\ x \in Int
    BY <1>1, <1>2
<1>4. b = z \/ b = z + 1 \/ (b = z + 2 /\ KindAt(t, z + 1) = "quote")
  <2>1. p \in KeyNames \/ p = "PASSWORD" \/ p \in Formats \/ p = "URL_ADDRESS"
      BY ValueFacts
  <2>2. p = "PASSWORD" => b = z + 1
      BY <1>2, <1>3, ValueFacts
  <2>3. p \in Formats \cup {"URL_ADDRESS"} => b = z
      BY <1>2, <1>3, ValueFacts
  <2>4. p \in KeyNames => b = z + 1 \/ (b = z + 2 /\ KindAt(t, z + 1) = "quote")
      BY <1>2, <1>3, ValueFacts
  <2> QED
      BY <2>1, <2>2, <2>3, <2>4
<1>5. x = z + 1 /\ KindAt(t, z + 1) = "quote"
  <2>1. ~ (b = z) /\ ~ (b = z + 1)
      BY <1>2, <1>3
  <2>2. b = z + 2 /\ KindAt(t, z + 1) = "quote"
      BY <1>4, <2>1
  <2>3. b = z + 2
      BY <2>2
  <2>4. x = z + 1
      BY <1>2, <1>3, <2>3
  <2> QED
      BY <2>2, <2>4
<1> QED
    BY <1>1, <1>5 DEF KindAt

\* What opens at x is settled, or it is in a match that is replaced.
LEMMA UnsettledFound ==
    ASSUME NEW o, OfClient(o), Sparse(o), NEW S, NEW t \in Seq(S), InPlace(t, o), Starts(t),
           NEW n \in DOMAIN Passes, NEW p, p = Passes[n], Follows(t, o, n),
           NEW x \in 1 .. Len(t), t[x].kind = Opener(p), ~ \E c \in Int : Settled(p, t, x, c)
    PROVE  \E y \in FindAll(p, t) : y.open <= x /\ x <= y.to /\ ~ Skips(p, t, y)
<1>1. Len(t) \in Nat /\ DOMAIN t = 1 .. Len(t) /\ x \in Int
    BY LenProperties
<1>2. \A y \in FindAll(p, t) : Shape(p, t, y)
    BY MatchShapes
<1>3. t[x].at # 0
  <2>1. Opener(p) \notin MarkKinds
      BY OpenerFacts
  <2> QED
      BY <2>1, ClientOrMark
<1>4. ASSUME NEW y \in FindAll(p, t), p \in Formats \cup {"URL_ADDRESS"} PROVE Reached(p, t, y)
  <2>1. y.from = y.open /\ y.open \in 1 .. Len(t) /\ t[y.open].kind = Opener(p)
    <3>1. y.open \in 1 .. Len(t) /\ y.from = ValueAt(p, t, y.open) /\ t[y.open].kind = Opener(p)
        BY <1>2 DEF Shape
    <3>2. y.open \in Int
        BY <1>1, <3>1
    <3> QED
        BY <1>4, <3>1, <3>2, ValueFacts
  <2>2. y.open = 1 \/ t[y.open - 1].kind \notin MarkKinds
      BY <1>4, <2>1, NotBehindMark
  <2> QED
      BY <2>1, <2>2 DEF Reached
<1>5. ASSUME NEW y \in FindAll(p, t) PROVE Reached(p, t, y)
  <2>1. p \in KeyNames \/ p = "PASSWORD" \/ p \in Formats \/ p = "URL_ADDRESS"
      BY ValueFacts
  <2>2. CASE p \in KeyNames
      BY <2>2 DEF Reached, KeyNames
  <2>3. CASE p = "PASSWORD"
    <3>1. y.open \in 1 .. Len(t) /\ y.from = ValueAt(p, t, y.open) /\ t[y.open].kind = Opener(p)
        BY <1>2 DEF Shape
    <3>2. y.open \in Int
        BY <1>1, <3>1
    <3>3. y.from = y.open + 1
      <4>1. ValueAt(p, t, y.open) = y.open + 1
          BY <2>3 DEF ValueAt, KeyNames
      <4> QED
          BY <3>1, <4>1
    <3>4. y.from - 1 = y.open
        BY <3>2, <3>3
    <3>5. t[y.from - 1].kind \notin MarkKinds
        BY <3>1, <3>4, OpenerFacts
    <3> QED
        BY <3>5 DEF Reached
  <2> QED
      BY <1>4, <2>1, <2>2, <2>3
<1>6. ASSUME NEW y \in FindAll(p, t), y.from <= x, x <= y.to PROVE ~ Skips(p, t, y)
  <2>1. y.open \in 1 .. Len(t) /\ y.from \in y.open .. Len(t) /\ y.to \in y.from .. Len(t)
      BY <1>2 DEF Shape
  <2>2. y.from \in 1 .. Len(t) /\ x \in y.from .. y.to
      BY <1>1, <1>6, <2>1
  <2> QED
      BY <1>3, <1>5, <2>1, <2>2, NotSkipped
<1>7. CASE p \in Formats
  <2> DEFINE y == [open |-> x, from |-> x, to |-> x]
  <2>1. FindAll(p, t) = KindMatches(t, Opener(p))
      BY <1>7 DEF Formats, FindAll, Opener
  <2>2. y \in FindAll(p, t)
      BY <1>1, <2>1 DEF KindMatches, Positions
  <2>3. y.open <= x /\ y.from <= x /\ x <= y.to
      BY <1>1
  <2> QED
      BY <1>6, <2>2, <2>3
<1>8. CASE p \notin Formats
  <2>1. Length(SubSeq(t, ValueAt(p, t, x), RunEnd(t, ValueAt(p, t, x), Ends(p)))) >= Least(p)
      BY <1>8, LongRun
  <2>2. Covers(p, t, FindAll(p, t))
      BY MatchShapes
  <2>3. PICK y \in FindAll(p, t) : y.open = x \/ (y.open < x /\ y.to >= x)
      BY <1>8, <2>1, <2>2 DEF Covers
  <2>4. /\ y.open \in 1 .. Len(t) /\ t[y.open].kind = Opener(p) /\ y.from = ValueAt(p, t, y.open)
        /\ y.from \in y.open .. Len(t) /\ y.to \in y.from .. Len(t)
        /\ KindAt(t, y.to + 1) \in Ends(p) \cup {"end"}
      BY <1>2, <1>8 DEF Shape
  <2> DEFINE z == y.open
             b == y.from
             e == y.to
  <2>5. z \in 1 .. Len(t) /\ b \in z .. Len(t) /\ e \in b .. Len(t)
      BY <2>4
  <2>6. CASE y.open = x
    <3> HIDE DEF z, b, e
    <3>1. z <= x /\ x <= e /\ b \in 1 .. Len(t) /\ b \in Int /\ z = x
        BY <1>1, <2>5, <2>6 DEF z
    <3>2. ASSUME Skips(p, t, y) PROVE FALSE
      <4>1. ~ (p \notin KeyNames /\ isInsidePlaceholder(t, b))
        <5>1. p \in KeyNames \/ b = 1 \/ t[b - 1].kind \notin MarkKinds
            BY <1>5 DEF Reached, KeyNames, b
        <5> QED
            BY <5>1, InsideBehindMark
      <4>2. Skips(p, t, y) => IsPlaceholder(SubSeq(t, b, e)) \/ (p \notin KeyNames /\ isInsidePlaceholder(t, b))
          BY Zenon DEF Skips, KeyNames, b, e
      <4>3. e = b + 3 /\ TokenAt(t, b)
          BY <2>5, <3>1, <3>2, <4>1, <4>2, FourPlaceholder
      <4>4. MarksAt(t, b)
          BY <1>1, <3>1, <4>3, MarksToken
      <4>5. p # "URL_ADDRESS"
        <5>1. SUFFICES ASSUME p = "URL_ADDRESS" PROVE FALSE
            OBVIOUS
        <5>2. b = x
          <6>1. ValueAt(p, t, x) = x
              BY <1>1, <5>1, ValueFacts
          <6>2. b = ValueAt(p, t, y.open)
              BY <2>4 DEF b
          <6> QED
              BY <2>6, <6>1, <6>2
        <5>3. t[b].kind = "$"
            BY <1>1, <4>3, TokenKinds
        <5>4. Opener(p) \notin MarkKinds
            BY OpenerFacts
        <5> QED
            BY <5>2, <5>3, <5>4 DEF MarkKinds
      <4>6. e + 1 = b + 4
          BY <3>1, <4>3
      <4>7. KindAt(t, b + 4) \in Ends(p) \cup {"end"} /\ b = ValueAt(p, t, x)
          BY <2>4, <2>6, <4>6 DEF b, e
      <4>8. Settled(p, t, x, b + 4)
          BY <1>8, <4>4, <4>5, <4>7 DEF Settled
      <4>9. b + 4 \in Int
          BY <3>1
      <4> QED
          BY <4>8, <4>9
    <3> QED
        BY <3>1, <3>2 DEF z, e
  <2>7. CASE y.open < x /\ y.to >= x
    <3> HIDE DEF z, b, e
    <3>1. z < x /\ x <= e
        BY <1>1, <2>5, <2>7 DEF z, e
    <3>2. b <= x
      <4>1. SUFFICES ASSUME x < b PROVE FALSE
          BY <1>1, <2>5
      <4>2. t[x].kind = "quote"
          BY <1>2, <2>7, <4>1, BetweenQuote DEF b
      <4> QED
          BY <4>2, OpenerFacts
    <3>3. z <= x
        BY <1>1, <2>5, <3>1
    <3> QED
        BY <1>6, <3>1, <3>2, <3>3 DEF z, b, e
  <2> QED
      BY <2>3, <2>6, <2>7
<1> QED
    BY <1>7, <1>8
(* What was settled stays so when a match is replaced.                      *)

\* Whether a pattern leaves a match alone depends on the text up to the end of it.
LEMMA SkipsSame ==
    ASSUME NEW S, NEW t \in Seq(S), NEW R, NEW u \in Seq(R), NEW p, NEW y,
           y.from \in 1 .. Len(t), y.to \in y.from .. Len(t), y.to <= Len(u),
           \A j \in 1 .. y.to : u[j] = t[j],
           Anchored(t, y.from)
    PROVE  Skips(p, u, y) <=> Skips(p, t, y)
<1> DEFINE f == y.from
           e == y.to
<1>1. Len(t) \in Nat /\ DOMAIN t = 1 .. Len(t) /\ Len(u) \in Nat /\ DOMAIN u = 1 .. Len(u)
    BY LenProperties
<1>2. f \in 1 .. Len(t) /\ e \in f .. Len(t) /\ e <= Len(u) /\ \A j \in 1 .. e : u[j] = t[j]
    OBVIOUS
<1>3. Anchored(t, f)
    OBVIOUS
<1> HIDE DEF f, e
<1>4. f \in Int /\ e \in Int /\ 1 <= f /\ f <= e /\ e <= Len(u) /\ e <= Len(t)
    BY <1>1, <1>2
<1>5. f \in 1 .. Len(u) /\ e \in f .. Len(u)
    BY <1>1, <1>4
<1>6. \A i \in 1 .. e - 3 : TokenAt(u, i) <=> TokenAt(t, i)
  <2>1. SUFFICES ASSUME NEW i \in 1 .. e - 3 PROVE TokenAt(u, i) <=> TokenAt(t, i)
      OBVIOUS
  <2>2. /\ i \in 1 .. e /\ i + 1 \in 1 .. e /\ i + 2 \in 1 .. e /\ i + 3 \in 1 .. e
        /\ i \in 1 .. Len(u) - 3 /\ i \in 1 .. Len(t) - 3
      BY <1>1, <1>4
  <2>3. u[i] = t[i] /\ u[i + 1] = t[i + 1] /\ u[i + 2] = t[i + 2] /\ u[i + 3] = t[i + 3]
      BY <1>2, <2>2
  <2>4. ASSUME NEW w, Len(w) \in Nat
        PROVE  TokenAt(w, i) <=> /\ i \in 1 .. Len(w) - 3
                                 /\ w[i].kind = "$" /\ w[i + 1].kind = "{"
                                 /\ w[i + 2].kind = "body" /\ w[i + 3].kind = "}"
      BY <2>4, TokenKinds
  <2> QED
      BY <1>1, <2>2, <2>3, <2>4
<1>7. IsPlaceholder(SubSeq(u, f, e)) <=> IsPlaceholder(SubSeq(t, f, e))
  <2>1. IsPlaceholder(SubSeq(u, f, e)) <=> e = f + 3 /\ TokenAt(u, f)
      BY <1>5, FourPlaceholder
  <2>2. IsPlaceholder(SubSeq(t, f, e)) <=> e = f + 3 /\ TokenAt(t, f)
      BY <1>2, FourPlaceholder
  <2>3. e = f + 3 => f \in 1 .. e - 3
      BY <1>4
  <2> QED
      BY <1>6, <2>1, <2>2, <2>3
<1>8. Anchored(u, f)
  <2>1. f \in 1 .. e /\ (f > 1 => f - 1 \in 1 .. e)
      BY <1>4
  <2> QED
      BY <1>2, <1>3, <2>1 DEF Anchored
<1>9. ASSUME NEW Q, NEW w \in Seq(Q), Anchored(w, f), NEW i \in 1 .. Len(w), TokenAt(w, i), f \in i + 2 .. i + 4
      PROVE  i = f - 4
  <2>1. Len(w) \in Nat /\ i \in 1 .. Len(w) - 3 /\ \A x \in i .. i + 3 : w[x].kind \in MarkKinds
      BY <1>9, LenProperties, TokenMarks
  <2>2. f # i + 4 => f \in i .. i + 3 /\ f - 1 \in i .. i + 3
      BY <1>4, <1>9, <2>1
  <2>3. f = i + 4
      BY <1>9, <2>1, <2>2 DEF Anchored
  <2> QED
      BY <1>4, <2>1, <2>3
<1>10. isInsidePlaceholder(u, f) => f - 4 \in 1 .. e - 3 /\ TokenAt(u, f - 4)
  <2>1. SUFFICES ASSUME NEW i \in 1 .. Len(u), TokenAt(u, i), f \in i + 2 .. i + 4
                 PROVE  f - 4 \in 1 .. e - 3 /\ TokenAt(u, f - 4)
      BY <1>1 DEF isInsidePlaceholder
  <2>2. i = f - 4
      BY <1>8, <1>9, <2>1
  <2>3. f - 4 \in 1 .. e - 3
      BY <1>1, <1>4, <2>2
  <2> QED
      BY <2>1, <2>2, <2>3
<1>11. isInsidePlaceholder(t, f) => f - 4 \in 1 .. e - 3 /\ TokenAt(t, f - 4)
  <2>1. SUFFICES ASSUME NEW i \in 1 .. Len(t), TokenAt(t, i), f \in i + 2 .. i + 4
                 PROVE  f - 4 \in 1 .. e - 3 /\ TokenAt(t, f - 4)
      BY <1>1 DEF isInsidePlaceholder
  <2>2. i = f - 4
      BY <1>3, <1>9, <2>1
  <2>3. f - 4 \in 1 .. e - 3
      BY <1>1, <1>4, <2>2
  <2> QED
      BY <2>1, <2>2, <2>3
<1>12. f - 4 \in 1 .. e - 3 =>
           f - 4 \in DOMAIN u /\ f - 4 \in DOMAIN t /\ f \in (f - 4) + 2 .. (f - 4) + 4
    BY <1>1, <1>4
<1>13. isInsidePlaceholder(u, f) <=> isInsidePlaceholder(t, f)
    BY <1>6, <1>10, <1>11, <1>12 DEF isInsidePlaceholder
<1> QED
    BY <1>7, <1>13, Zenon DEF Skips, f, e

\* What the step does that looks for a match at i: nothing, if the match is left alone; or
\* it puts a placeholder in its place, and up to its end the text was as the pass found it.
StepOf(u, q, t, p, matches, i) ==
    \/ q = u /\ \A y \in matches : y.from = i => Skips(p, t, y)
    \/ \E y \in matches :
           /\ y.from = i /\ ~ Skips(p, t, y)
           /\ y.to \in i .. Len(u) /\ \A j \in 1 .. y.to : u[j] = t[j]
           /\ \A z \in matches : z.from >= i + 1 => y.to < z.from
           /\ WithToken(u, i, y.to, q)

\* One step of a pass is one of these two.
LEMMA StepCases ==
    ASSUME NEW o, OfClient(o), NEW n \in DOMAIN Passes, NEW S, NEW t \in Seq(S), NEW r,
           NEW R, r.text \in Seq(R), NEW i \in 1 .. Len(t),
           Kept(r, i + 1, t, FindAll(Passes[n], t), Passes[n], o)
    PROVE  StepOf(r.text, ReplacedAt(Passes[n], r, FindAll(Passes[n], t), i).text, t, Passes[n],
                  FindAll(Passes[n], t), i)
<1> DEFINE p == Passes[n]
           matches == FindAll(p, t)
           here == {x \in matches : x.from = i}
           x0 == CHOOSE x \in here : TRUE
           q == ReplacedAt(p, r, matches, i)
           u == r.text
<1>1. Len(t) \in Nat /\ i \in Int /\ Len(r.text) \in Nat
    BY LenProperties
<1>2. /\ \A y \in matches : y.from \in 1 .. Len(t) /\ y.to \in y.from .. Len(t)
      /\ \A x, y \in matches : x.from < y.from => x.to < y.from
    BY MatchesSeparate DEF Separate
<1>3. \A y \in matches : Anchored(t, y.from)
    BY MatchesAnchored
<1>4. Kept(r, i + 1, t, matches, p, o)
    OBVIOUS
<1>5. CASE here = {}
  <2>1. q = r
      BY <1>5 DEF ReplacedAt
  <2>2. \A y \in matches : y.from # i
      BY <1>5
  <2> HIDE DEF p, matches, here, q
  <2>3. StepOf(u, q.text, t, p, matches, i)
      BY <2>1, <2>2 DEF StepOf
  <2> QED
      BY <2>3 DEF p, matches, q
<1>6. CASE here # {}
  <2>1. q = Replaced(p, r, x0)
      BY <1>6 DEF ReplacedAt
  <2>2. x0 \in matches /\ x0.from = i
    <3>1. x0 \in here
        BY <1>6
    <3> HIDE DEF x0
    <3> QED
        BY <3>1
  <2>3. \A y \in matches : y.from = i => y.to = x0.to
      BY <2>2, MatchesAgree
  <2> DEFINE e == x0.to
             v == SubSeq(u, i, e)
  <2> HIDE DEF p, matches, here, q, x0
  <2>4. e \in i .. Len(t) /\ e \in Int
      BY <1>1, <1>2, <2>2
  <2>5. \A y \in matches : y.from >= i + 1 => e < y.from
    <3>1. \A y \in matches : y.from >= i + 1 => x0.from < y.from
        BY <1>1, <1>2, <2>2
    <3> QED
        BY <1>2, <2>2, <3>1
  <2>6. \A c \in 1 .. e : c <= Len(u) /\ u[c] = t[c]
    <3>1. SUFFICES ASSUME NEW c \in 1 .. e PROVE c <= Len(u) /\ u[c] = t[c]
        OBVIOUS
    <3>2. c \in 1 .. Len(t) /\ \A y \in matches : y.from >= i + 1 => c < y.from
        BY <1>1, <1>2, <2>4, <2>5
    <3> QED
        BY <1>4, <3>2 DEF Kept
  <2> HIDE DEF u, e, v
  <2>7. u \in Seq(R) /\ i \in 1 .. Len(u) /\ e \in i .. Len(u) /\ Len(u) \in Nat
    <3>1. e \in 1 .. e /\ i \in 1 .. e
        BY <1>1, <2>4
    <3>2. e <= Len(u) /\ i <= Len(u)
        BY <2>6, <3>1
    <3> QED
        BY <1>1, <2>4, <3>2 DEF u
  <2>8. Skips(p, u, x0) <=> Skips(p, t, x0)
    <3>1. x0.from \in 1 .. Len(t) /\ x0.to \in x0.from .. Len(t) /\ Anchored(t, x0.from)
        BY <1>2, <1>3, <2>2
    <3>2. x0.to <= Len(u) /\ \A j \in 1 .. x0.to : u[j] = t[j]
        BY <2>6, <2>7 DEF e
    <3> QED
        BY <2>7, <3>1, <3>2, SkipsSame
  <2>9. CASE Skips(p, u, x0)
    <3>1. q = r
        BY <2>1, <2>9 DEF Replaced, u
    <3>2. ASSUME NEW y \in matches, y.from = i PROVE Skips(p, t, y)
      <4>1. y.to = x0.to /\ y.from = x0.from
          BY <2>2, <2>3, <3>2
      <4>2. Skips(p, t, x0)
          BY <2>8, <2>9
      <4> QED
          BY <4>1, <4>2, Zenon DEF Skips
    <3>3. StepOf(u, q.text, t, p, matches, i)
        BY <3>1, <3>2 DEF StepOf, u
    <3> QED
        BY <3>3 DEF p, matches, q, u
  <2>10. CASE ~ Skips(p, u, x0)
    <3> DEFINE g == SubSeq(u, 1, i - 1) \o GeneratePlaceholder(TypeOf(p), v) \o SubSeq(u, e + 1, Len(u))
    <3>1. q.text = g
        BY <2>1, <2>2, <2>10 DEF Replaced, u, v, e
    <3>2. WithToken(u, i, e, g)
        BY <2>7, ReplacedElements
    <3> HIDE DEF g
    <3>3. StepOf(u, q.text, t, p, matches, i)
        BY <2>2, <2>5, <2>6, <2>7, <2>8, <2>10, <3>1, <3>2 DEF StepOf, e
    <3> QED
        BY <3>3 DEF p, matches, q, u
  <2> QED
      BY <2>9, <2>10
<1> QED
    BY <1>5, <1>6
\* With a placeholder instead of a match, the kinds in front of it and behind it are the
\* same, behind it at other places.
LEMMA TokenMoves ==
    ASSUME NEW u, Len(u) \in Nat, DOMAIN u = 1 .. Len(u), NEW q, Len(q) \in Nat, DOMAIN q = 1 .. Len(q),
           NEW f \in 1 .. Len(u), NEW e \in f .. Len(u), WithToken(u, f, e, q)
    PROVE  /\ \A j \in Int : j < f => KindAt(q, j) = KindAt(u, j)
           /\ \A j \in Int : j > e => KindAt(q, j + (3 + f - e)) = KindAt(u, j)
           /\ MarksAt(q, f)
<1>1. /\ Len(q) = Len(u) + 3 + f - e
      /\ \A x \in 1 .. f - 1 : q[x] = u[x]
      /\ \A x \in f + 4 .. Len(q) : q[x] = u[x + (e - f) - 3]
    BY DEF WithToken
<1>2. q[f].kind = "$" /\ q[f + 1].kind = "{" /\ q[f + 2].kind = "body" /\ q[f + 3].kind = "}"
    BY DEF WithToken
<1>3. f \in Int /\ e \in Int /\ 1 <= f /\ f <= e /\ e <= Len(u)
    OBVIOUS
<1>4. ASSUME NEW j \in Int, j < f PROVE KindAt(q, j) = KindAt(u, j)
  <2>1. j \in DOMAIN q <=> j \in DOMAIN u
      BY <1>1, <1>3, <1>4
  <2>2. j \in DOMAIN u => j \in 1 .. f - 1
      BY <1>3, <1>4
  <2> QED
      BY <1>1, <2>1, <2>2, Zenon DEF KindAt
<1>5. ASSUME NEW j \in Int, j > e PROVE KindAt(q, j + (3 + f - e)) = KindAt(u, j)
  <2>1. j + (3 + f - e) \in DOMAIN q <=> j \in DOMAIN u
      BY <1>1, <1>3, <1>5
  <2>2. j \in DOMAIN u => j + (3 + f - e) \in f + 4 .. Len(q)
      BY <1>1, <1>3, <1>5
  <2>3. (j + (3 + f - e)) + (e - f) - 3 = j
      BY <1>3
  <2>4. j \in DOMAIN u => q[j + (3 + f - e)] = u[j]
      BY <1>1, <2>2, <2>3
  <2> HIDE DEF KindAt
  <2>5. CASE j \in DOMAIN u
      BY <2>1, <2>4, <2>5, Zenon DEF KindAt
  <2>6. CASE j \notin DOMAIN u
      BY <2>1, <2>6, Zenon DEF KindAt
  <2> QED
      BY <2>5, <2>6
<1>6. MarksAt(q, f)
  <2>1. f \in DOMAIN q /\ f + 1 \in DOMAIN q /\ f + 2 \in DOMAIN q /\ f + 3 \in DOMAIN q
      BY <1>1, <1>3
  <2> QED
      BY <1>2, <2>1, Zenon DEF MarksAt, KindAt
<1> QED
    BY <1>4, <1>5, <1>6

\* The lexemes of a text with a placeholder in the place of a match: those in front of it,
\* its marks, and those behind it.
LEMMA TokenPlaces ==
    ASSUME NEW u, Len(u) \in Nat, NEW q, Len(q) \in Nat,
           NEW f \in 1 .. Len(u), NEW e \in f .. Len(u), WithToken(u, f, e, q), NEW x \in 1 .. Len(q)
    PROVE  \/ x < f /\ x \in 1 .. Len(u) /\ q[x] = u[x]
           \/ x \in f .. f + 3 /\ q[x].kind \in MarkKinds /\ q[x].at = 0
           \/ \E z \in e + 1 .. Len(u) : x = z + (3 + f - e) /\ q[x] = u[z]
<1>1. /\ Len(q) = Len(u) + 3 + f - e
      /\ \A c \in 1 .. f - 1 : q[c] = u[c]
      /\ \A c \in f + 4 .. Len(q) : q[c] = u[c + (e - f) - 3]
      /\ \A c \in f .. f + 3 : q[c].at = 0
    BY DEF WithToken
<1>2. q[f].kind \in MarkKinds /\ q[f + 1].kind \in MarkKinds /\ q[f + 2].kind \in MarkKinds
      /\ q[f + 3].kind \in MarkKinds
    BY DEF WithToken, MarkKinds
<1>3. f \in Int /\ e \in Int /\ 1 <= f /\ f <= e /\ e <= Len(u) /\ x \in Int /\ 1 <= x /\ x <= Len(q)
    OBVIOUS
<1>4. CASE x < f
  <2>1. x \in 1 .. f - 1 /\ x \in 1 .. Len(u)
      BY <1>3, <1>4
  <2> QED
      BY <1>1, <1>4, <2>1
<1>5. CASE x \in f .. f + 3
  <2>1. x = f \/ x = f + 1 \/ x = f + 2 \/ x = f + 3
      BY <1>3, <1>5
  <2>2. q[x].kind \in MarkKinds
      BY <1>2, <2>1
  <2> QED
      BY <1>1, <1>5, <2>2
<1>6. CASE x > f + 3
  <2>1. PICK z \in Int : z = x + (e - f) - 3
      BY <1>3
  <2>2. x \in f + 4 .. Len(q) /\ z \in e + 1 .. Len(u) /\ x = z + (3 + f - e)
    <3>1. Len(q) = Len(u) + 3 + f - e
        BY <1>1
    <3> QED
        BY <1>3, <1>6, <2>1, <3>1
  <2>3. q[x] = u[z]
      BY <1>1, <2>1, <2>2
  <2> QED
      BY <2>2, <2>3
<1>7. x < f \/ x \in f .. f + 3 \/ x > f + 3
    BY <1>3
<1> QED
    BY <1>4, <1>5, <1>6, <1>7

\* What was settled in front of a match, up to it, or behind it, still is.
LEMMA SettledBeside ==
    ASSUME NEW u, Len(u) \in Nat, DOMAIN u = 1 .. Len(u), NEW q, Len(q) \in Nat, DOMAIN q = 1 .. Len(q),
           NEW f \in 1 .. Len(u), NEW e \in f .. Len(u), WithToken(u, f, e, q),
           NEW n \in DOMAIN Passes, NEW p, p = Passes[n], NEW x \in 1 .. Len(u), NEW c \in Int,
           Settled(p, u, x, c)
    PROVE  /\ c < f => Settled(p, q, x, c)
           /\ x > e => Settled(p, q, x + (3 + f - e), c + (3 + f - e))
<1>1. f \in Int /\ e \in Int /\ x \in Int
    OBVIOUS
<1>2. /\ \A j \in Int : j < f => KindAt(q, j) = KindAt(u, j)
      /\ \A j \in Int : j > e => KindAt(q, j + (3 + f - e)) = KindAt(u, j)
    BY TokenMoves
<1>3. ASSUME c < f PROVE Settled(p, q, x, c)
  <2>1. \A j \in x + 1 .. c : KindAt(q, j + (x - x)) = KindAt(u, j)
    <3>1. SUFFICES ASSUME NEW j \in x + 1 .. c PROVE KindAt(q, j + (x - x)) = KindAt(u, j)
        OBVIOUS
    <3>2. j \in Int /\ j < f /\ j + (x - x) = j
        BY <1>1, <1>3
    <3> QED
        BY <1>2, <3>2
  <2>2. Settled(p, q, x, c + (x - x))
      BY <1>1, <2>1, SettledMoves
  <2>3. c + (x - x) = c
      BY <1>1
  <2> QED
      BY <2>2, <2>3
<1>4. ASSUME x > e PROVE Settled(p, q, x + (3 + f - e), c + (3 + f - e))
  <2>1. PICK z \in Int : z = x + (3 + f - e)
      BY <1>1
  <2>2. z - x = 3 + f - e
      BY <1>1, <2>1
  <2>3. \A j \in x + 1 .. c : KindAt(q, j + (z - x)) = KindAt(u, j)
    <3>1. SUFFICES ASSUME NEW j \in x + 1 .. c PROVE KindAt(q, j + (3 + f - e)) = KindAt(u, j)
        BY <2>2
    <3>2. j \in Int /\ j > e
        BY <1>1, <1>4
    <3> QED
        BY <1>2, <3>2
  <2>4. Settled(p, q, z, c + (z - x))
      BY <1>1, <2>3, SettledMoves
  <2> QED
      BY <2>1, <2>2, <2>4
<1> QED
    BY <1>3, <1>4

\* What is settled across the place where a value begins opens with it.
LEMMA AcrossMatch ==
    ASSUME NEW S, NEW t \in Seq(S), NEW R, NEW u \in Seq(R), NEW n \in DOMAIN Passes, NEW y,
           Shape(Passes[n], t, y), y.to <= Len(u), \A j \in 1 .. y.to : u[j] = t[j],
           NEW k \in DOMAIN Passes, NEW x \in 1 .. Len(u), NEW c \in Int,
           Settled(Passes[k], u, x, c), u[x].kind = Opener(Passes[k]), x < y.from, y.from <= c
    PROVE  x = y.open
<1> DEFINE a == y.open
           f == y.from
           e == y.to
<1>1. Len(t) \in Nat /\ Len(u) \in Nat /\ DOMAIN u = 1 .. Len(u)
    BY LenProperties
<1>2. a \in 1 .. Len(t) /\ t[a].kind = Opener(Passes[n]) /\ f \in a .. Len(t) /\ e \in f .. Len(t)
    BY DEF Shape
<1>3. e <= Len(u) /\ (\A j \in 1 .. e : u[j] = t[j]) /\ x < f /\ f <= c
    OBVIOUS
<1>4. \A z \in 1 .. Len(t) : a < z /\ z < f => t[z].kind = "quote"
    BY BetweenQuote
<1> HIDE DEF a, f, e
<1>5. a \in Int /\ f \in Int /\ e \in Int /\ x \in Int /\ 1 <= a /\ a <= f /\ f <= e /\ e <= Len(t) /\ 1 <= x
    BY <1>1, <1>2
<1>6. \A j \in x + 1 .. c : KindAt(u, j) \in Inert
    BY <1>5, SettledInert
<1>7. a \notin x + 1 .. c
  <2>1. a \in 1 .. e /\ a \in DOMAIN u
      BY <1>1, <1>3, <1>5
  <2>2. KindAt(u, a) = Opener(Passes[n])
      BY <1>2, <1>3, <2>1 DEF KindAt
  <2>3. Opener(Passes[n]) \notin Inert
      BY OpenerFacts
  <2> QED
      BY <1>6, <2>2, <2>3
<1>8. a <= x
    BY <1>3, <1>5, <1>7
<1>9. ~ a < x
  <2>1. SUFFICES ASSUME a < x PROVE FALSE
      OBVIOUS
  <2>2. x \in 1 .. Len(t) /\ x \in 1 .. e
      BY <1>3, <1>5
  <2>3. u[x].kind = "quote"
      BY <1>3, <1>4, <2>1, <2>2
  <2>4. Opener(Passes[k]) # "quote"
      BY OpenerFacts
  <2> QED
      BY <2>3, <2>4
<1>10. x = a
    BY <1>5, <1>8, <1>9
<1> QED
    BY <1>10 DEF a
\* What another pattern would find stays settled when a match is replaced.
LEMMA OtherSettled ==
    ASSUME NEW S, NEW t \in Seq(S), NEW R, NEW u \in Seq(R), NEW n \in DOMAIN Passes, NEW y,
           Shape(Passes[n], t, y), y.to <= Len(u), \A j \in 1 .. y.to : u[j] = t[j],
           NEW q, Len(q) \in Nat, DOMAIN q = 1 .. Len(q), WithToken(u, y.from, y.to, q),
           NEW k \in DOMAIN Passes, Opener(Passes[k]) # Opener(Passes[n]), AllSettled(Passes[k], u)
    PROVE  AllSettled(Passes[k], q)
<1> DEFINE f == y.from
           e == y.to
           p == Passes[k]
<1>1. Len(t) \in Nat /\ Len(u) \in Nat /\ DOMAIN u = 1 .. Len(u)
    BY LenProperties
<1>2. /\ y.open \in 1 .. Len(t) /\ t[y.open].kind = Opener(Passes[n])
      /\ f \in y.open .. Len(t) /\ e \in f .. Len(t)
    BY DEF Shape
<1>3. \A z \in 1 .. Len(u) : \A c \in Int :
          Settled(p, u, z, c) /\ u[z].kind = Opener(p) /\ z < f => c < f
  <2>1. SUFFICES ASSUME NEW z \in 1 .. Len(u), NEW c \in Int, Settled(p, u, z, c),
                        u[z].kind = Opener(p), z < f, ~ c < f
                 PROVE  FALSE
      OBVIOUS
  <2>2. f \in Int /\ f <= c
      BY <1>1, <1>2, <2>1
  <2>3. z = y.open
      BY <2>1, <2>2, AcrossMatch
  <2>4. z \in 1 .. e
      BY <1>1, <1>2, <2>3
  <2>5. u[z] = t[z]
      BY <2>4
  <2> QED
      BY <1>2, <2>1, <2>3, <2>5
<1>4. f \in 1 .. Len(u) /\ e \in f .. Len(u)
    BY <1>1, <1>2
<1>5. WithToken(u, f, e, q) /\ Len(q) \in Nat /\ DOMAIN q = 1 .. Len(q)
    OBVIOUS
<1>6. \A z \in 1 .. Len(u) : u[z].kind = Opener(p) => \E c \in Int : Settled(p, u, z, c)
    BY DEF AllSettled
<1>7. Opener(p) \notin MarkKinds
    BY OpenerFacts
<1>8. p = Passes[k]
    OBVIOUS
<1> HIDE DEF f, e, p
<1>9. SUFFICES ASSUME NEW x \in 1 .. Len(q), q[x].kind = Opener(p)
               PROVE  \E c \in Int : Settled(p, q, x, c)
    BY DEF AllSettled, p
<1>10. CASE x < f /\ x \in 1 .. Len(u) /\ q[x] = u[x]
  <2>1. PICK c \in Int : Settled(p, u, x, c)
      BY <1>6, <1>9, <1>10
  <2>2. c < f
      BY <1>3, <1>9, <1>10, <2>1
  <2>3. Settled(p, q, x, c)
      BY <1>1, <1>4, <1>5, <1>8, <1>10, <2>1, <2>2, SettledBeside
  <2> QED
      BY <2>3
<1>11. CASE q[x].kind \in MarkKinds
    BY <1>7, <1>9, <1>11
<1>12. ASSUME NEW z \in e + 1 .. Len(u), x = z + (3 + f - e), q[x] = u[z]
       PROVE  \E c \in Int : Settled(p, q, x, c)
  <2>1. z \in 1 .. Len(u) /\ z > e
      BY <1>1, <1>4
  <2>2. PICK c \in Int : Settled(p, u, z, c)
      BY <1>6, <1>9, <1>12, <2>1
  <2>3. Settled(p, q, z + (3 + f - e), c + (3 + f - e))
      BY <1>1, <1>4, <1>5, <1>8, <2>1, <2>2, SettledBeside
  <2>4. c + (3 + f - e) \in Int
      BY <1>1, <1>4
  <2> QED
      BY <1>12, <2>3, <2>4
<1> QED
  <2>1. \/ x < f /\ x \in 1 .. Len(u) /\ q[x] = u[x]
        \/ x \in f .. f + 3 /\ q[x].kind \in MarkKinds /\ q[x].at = 0
        \/ \E z \in e + 1 .. Len(u) : x = z + (3 + f - e) /\ q[x] = u[z]
      BY <1>1, <1>4, <1>5, TokenPlaces
  <2> QED
      BY <1>10, <1>11, <1>12, <2>1

\* What opens right in front of the new placeholder, with at most a quote between, is
\* settled with it, as the placeholder goes up to what ended the value.
LEMMA NewSettled ==
    ASSUME NEW n \in DOMAIN Passes, NEW p, p = Passes[n], NEW t, NEW q, NEW x \in Int, NEW f \in Int,
           f = ValueAt(p, t, x), x < f, \A j \in Int : j < f => KindAt(q, j) = KindAt(t, j),
           MarksAt(q, f), KindAt(q, f + 4) \in Ends(p) \cup {"end"}
    PROVE  Settled(p, q, x, f + 4)
<1>1. /\ p \in KeyNames \/ p = "PASSWORD" \/ p \in Formats \/ p = "URL_ADDRESS"
      /\ p \in KeyNames => /\ KindAt(t, x + 1) = "quote" => ValueAt(p, t, x) = x + 2
                           /\ KindAt(t, x + 1) # "quote" => ValueAt(p, t, x) = x + 1
      /\ p = "PASSWORD" => ValueAt(p, t, x) = x + 1
      /\ p \in Formats \cup {"URL_ADDRESS"} => ValueAt(p, t, x) = x
      /\ "PASSWORD" \notin KeyNames /\ "URL_ADDRESS" \notin KeyNames
      /\ \A g \in Formats : g \notin KeyNames /\ g # "PASSWORD" /\ g # "URL_ADDRESS"
    BY ValueFacts
<1>2. /\ p \in KeyNames => /\ KindAt(q, x + 1) = "quote" => ValueAt(p, q, x) = x + 2
                           /\ KindAt(q, x + 1) # "quote" => ValueAt(p, q, x) = x + 1
      /\ p = "PASSWORD" => ValueAt(p, q, x) = x + 1
    BY ValueFacts
<1>3. p \notin Formats /\ p # "URL_ADDRESS"
  <2>1. f # x
      OBVIOUS
  <2> QED
      BY <1>1, <2>1
<1>4. KindAt(q, f) = "$" /\ "$" # "quote"
    BY DEF MarksAt
<1>5. p \in KeyNames /\ f = x + 2 => ValueAt(p, q, x) = f
  <2>1. SUFFICES ASSUME p \in KeyNames, f = x + 2 PROVE ValueAt(p, q, x) = f
      OBVIOUS
  <2>2. x + 1 \in Int /\ x + 1 < f /\ x + 1 # x + 2
      BY <2>1
  <2>3. KindAt(q, x + 1) = KindAt(t, x + 1)
      BY <2>2
  <2>4. KindAt(t, x + 1) = "quote"
      BY <1>1, <2>1, <2>2
  <2> QED
      BY <1>2, <2>1, <2>3, <2>4
<1>6. p \in KeyNames /\ f = x + 1 => ValueAt(p, q, x) = f
    BY <1>2, <1>4
<1>7. ValueAt(p, q, x) = f
    BY <1>1, <1>2, <1>3, <1>5, <1>6
<1> QED
    BY <1>3, <1>7, Zenon DEF Settled

----------------------------------------------------------------------------
(* A pass settles what it finds.                                           *)

\* What opens in what has become of the text is settled, or in a match that is still to be
\* replaced.
Pending(u, i, t, p, matches) ==
    \A x \in 1 .. Len(u) :
        u[x].kind = Opener(p) =>
            \/ \E c \in Int : Settled(p, u, x, c)
            \/ \E y \in matches : y.from < i /\ y.open <= x /\ x <= y.to /\ ~ Skips(p, t, y)

\* In front of the matches that were replaced the kinds are those of t.
Agrees(u, i, t, matches) ==
    \A c \in 1 .. Len(t) + 1 : (\A y \in matches : y.from >= i => c < y.from) => KindAt(u, c) = KindAt(t, c)
\* What ends the value of a match is still behind it.
LEMMA EndBehind ==
    ASSUME NEW S, NEW t \in Seq(S), Real(t), NEW n \in DOMAIN Passes, NEW p, p = Passes[n], p \notin Formats,
           NEW u, NEW m \in FindAll(p, t), NEW i \in 1 .. Len(t), m.from = i,
           \A z \in FindAll(p, t) : z.from >= i + 1 => m.to < z.from,
           Agrees(u, i + 1, t, FindAll(p, t))
    PROVE  KindAt(u, m.to + 1) \in Ends(p) \cup {"end"}
<1> DEFINE matches == FindAll(p, t)
           e == m.to
<1>1. Len(t) \in Nat
    BY LenProperties
<1>2. \A y \in matches : Shape(p, t, y)
    BY MatchShapes
<1>3. /\ m \in matches /\ m.from = i /\ (\A z \in matches : z.from >= i + 1 => e < z.from)
      /\ Agrees(u, i + 1, t, matches)
    OBVIOUS
<1> HIDE DEF matches
<1>4. e \in i .. Len(t) /\ KindAt(t, e + 1) \in Ends(p) \cup {"end"}
    BY <1>2, <1>3 DEF Shape
<1>5. \A y \in matches : y.from >= i + 1 => e + 1 < y.from
  <2>1. SUFFICES ASSUME NEW y \in matches, y.from >= i + 1, ~ e + 1 < y.from PROVE FALSE
      OBVIOUS
  <2>2. Shape(p, t, y)
      BY <1>2
  <2>3. y.from \in 1 .. Len(t) /\ y.to \in y.from .. Len(t) /\ y.from \in y.from .. y.to
      BY <1>1, <2>2 DEF Shape
  <2>4. KindAt(t, y.from) \notin Ends(p) \cup {"end"}
      BY <2>2, <2>3, InValue
  <2>5. e < y.from
      BY <1>3, <2>1
  <2>6. y.from = e + 1
      BY <1>1, <1>4, <2>1, <2>3, <2>5
  <2> QED
      BY <1>4, <2>4, <2>6
<1>6. e + 1 \in 1 .. Len(t) + 1
    BY <1>1, <1>4
<1>7. KindAt(u, e + 1) = KindAt(t, e + 1)
    BY <1>3, <1>5, <1>6 DEF Agrees
<1> QED
    BY <1>4, <1>7

\* A match is replaced: all that opens is still settled or in a match that is still to be.
LEMMA PendingStep ==
    ASSUME NEW S, NEW t \in Seq(S), Real(t), NEW n \in DOMAIN Passes, NEW p, p = Passes[n],
           NEW matches, matches = FindAll(p, t), NEW i \in 1 .. Len(t),
           NEW R, NEW u \in Seq(R), NEW q, Len(q) \in Nat, DOMAIN q = 1 .. Len(q),
           Agrees(u, i + 1, t, matches), Pending(u, i + 1, t, p, matches),
           NEW m \in matches, m.from = i, m.to \in i .. Len(u), \A j \in 1 .. m.to : u[j] = t[j],
           \A z \in matches : z.from >= i + 1 => m.to < z.from,
           WithToken(u, i, m.to, q)
    PROVE  Pending(q, i, t, p, matches)
<1> DEFINE e == m.to
<1>1. Len(t) \in Nat /\ Len(u) \in Nat /\ DOMAIN u = 1 .. Len(u) /\ DOMAIN t = 1 .. Len(t)
    BY LenProperties
<1>2. /\ \A y \in matches : Shape(p, t, y)
      /\ \A y \in matches : y.open \in 1 .. Len(t) /\ t[y.open].kind = Opener(p)
                            /\ y.from = ValueAt(p, t, y.open)
                            /\ y.from \in y.open .. Len(t) /\ y.to \in y.from .. Len(t)
  <2>1. \A y \in matches : Shape(p, t, y)
      BY MatchShapes
  <2> QED
      BY <2>1 DEF Shape
<1>3. \A y, z \in matches : y.from < z.from => y.to < z.from
    BY MatchesSeparate DEF Separate
<1>4. \A y \in matches : y.from = i => y.to = e
    BY MatchesAgree
<1>5. /\ Len(q) \in Nat /\ DOMAIN q = 1 .. Len(q) /\ WithToken(u, i, e, q)
      /\ e \in i .. Len(u) /\ (\A j \in 1 .. e : u[j] = t[j]) /\ m.from = i
    OBVIOUS
<1>6. p \notin Formats => KindAt(u, e + 1) \in Ends(p) \cup {"end"}
    BY EndBehind
<1>7. Opener(p) \notin MarkKinds /\ Opener(p) # "quote"
    BY OpenerFacts
<1>8. m \in matches /\ Shape(p, t, m) /\ Pending(u, i + 1, t, p, matches)
    BY <1>2
<1>9. e \in i .. Len(t)
    BY <1>2, <1>5, <1>8
<1> HIDE DEF e
<1>10. i \in Int /\ e \in Int /\ 1 <= i /\ i <= e /\ e <= Len(u) /\ e <= Len(t) /\ i \in 1 .. Len(u)
    BY <1>1, <1>5, <1>9
<1>11. SUFFICES ASSUME NEW x \in 1 .. Len(q), q[x].kind = Opener(p)
                PROVE  \/ \E c \in Int : Settled(p, q, x, c)
                       \/ \E y \in matches : y.from < i /\ y.open <= x /\ x <= y.to /\ ~ Skips(p, t, y)
    BY DEF Pending
<1>12. \A z \in 1 .. Len(u) : u[z].kind = Opener(p) =>
           \/ \E c \in Int : Settled(p, u, z, c)
           \/ \E y \in matches : y.from < i + 1 /\ y.open <= z /\ z <= y.to /\ ~ Skips(p, t, y)
    BY <1>8 DEF Pending
<1>13. /\ \A j \in Int : j < i => KindAt(q, j) = KindAt(u, j)
       /\ \A j \in Int : j > e => KindAt(q, j + (3 + i - e)) = KindAt(u, j)
       /\ MarksAt(q, i)
    BY <1>1, <1>5, <1>10, TokenMoves
<1>14. CASE x < i /\ x \in 1 .. Len(u) /\ q[x] = u[x]
  <2>1. ASSUME NEW y \in matches, y.from = i, x = y.open
        PROVE  Settled(p, q, x, i + 4)
    <3>1. i = ValueAt(p, t, x) /\ x \in Int
        BY <1>2, <1>10, <2>1
    <3>2. p \notin Formats
      <4>1. y.from # y.open
          BY <1>14, <2>1, <1>10
      <4>2. y.from = ValueAt(p, t, y.open) /\ y.open \in Int
          BY <1>2
      <4> QED
          BY <4>1, <4>2, ValueFacts
    <3>3. \A j \in Int : j < i => KindAt(q, j) = KindAt(t, j)
      <4>1. SUFFICES ASSUME NEW j \in Int, j < i PROVE KindAt(u, j) = KindAt(t, j)
          BY <1>13
      <4>2. j \in DOMAIN u <=> j \in DOMAIN t
          BY <1>1, <1>10, <4>1
      <4>3. j \in DOMAIN u => u[j] = t[j]
        <5>1. j \in DOMAIN u => j \in 1 .. e
            BY <1>1, <1>10, <4>1
        <5> QED
            BY <1>5, <5>1
      <4> QED
          BY <4>2, <4>3, Zenon DEF KindAt
    <3>4. KindAt(q, i + 4) \in Ends(p) \cup {"end"}
      <4>1. e + 1 > e /\ e + 1 \in Int /\ (e + 1) + (3 + i - e) = i + 4
          BY <1>10
      <4>2. KindAt(q, (e + 1) + (3 + i - e)) = KindAt(u, e + 1)
          BY <1>13, <4>1
      <4> QED
          BY <1>6, <3>2, <4>1, <4>2
    <3> QED
        BY <1>10, <1>13, <1>14, <3>1, <3>3, <3>4, NewSettled
  <2>2. i + 4 \in Int
      BY <1>10
  <2>3. ASSUME NEW c \in Int, Settled(p, u, x, c)
        PROVE  \E d \in Int : Settled(p, q, x, d)
    <3>1. CASE c < i
      <4>1. Settled(p, q, x, c)
          BY <1>1, <1>5, <1>10, <1>14, <2>3, <3>1, SettledBeside
      <4> QED
          BY <4>1
    <3>2. CASE ~ c < i
      <4>1. x < m.from /\ m.from <= c /\ u[x].kind = Opener(p)
          BY <1>5, <1>10, <1>11, <1>14, <3>2
      <4>2. m.to <= Len(u) /\ \A j \in 1 .. m.to : u[j] = t[j]
          BY <1>5, <1>10 DEF e
      <4>3. x = m.open
        <5>1. Shape(Passes[n], t, m) /\ Settled(Passes[n], u, x, c) /\ u[x].kind = Opener(Passes[n])
            BY <1>8, <2>3, <4>1
        <5>2. x \in 1 .. Len(u)
            BY <1>14
        <5> QED
            BY <4>1, <4>2, <5>1, <5>2, AcrossMatch
      <4> QED
          BY <1>5, <1>8, <2>1, <2>2, <4>3
    <3> QED
        BY <3>1, <3>2
  <2>4. ASSUME NEW y \in matches, y.from < i + 1, y.open <= x, x <= y.to, ~ Skips(p, t, y)
        PROVE  \/ \E d \in Int : Settled(p, q, x, d)
               \/ \E z \in matches : z.from < i /\ z.open <= x /\ x <= z.to /\ ~ Skips(p, t, z)
    <3>1. CASE y.from = i
      <4>1. ~ y.open < x
        <5>1. SUFFICES ASSUME y.open < x PROVE FALSE
            OBVIOUS
        <5>2. x \in 1 .. Len(t) /\ x < y.from /\ x \in 1 .. e
            BY <1>10, <1>14, <3>1
        <5>3. t[x].kind = "quote"
            BY <1>2, <5>1, <5>2, BetweenQuote
        <5>4. u[x].kind = Opener(p) /\ u[x] = t[x]
            BY <1>5, <1>11, <1>14, <5>2
        <5> QED
            BY <1>7, <5>3, <5>4
      <4>2. x = y.open
        <5>1. y.open \in Int
            BY <1>2
        <5> QED
            BY <2>4, <4>1, <5>1
      <4> QED
          BY <2>1, <2>2, <3>1, <4>2
    <3>2. CASE y.from # i
      <4>1. y.from \in Int
          BY <1>1, <1>2
      <4>2. y.from < i
          BY <1>10, <2>4, <3>2, <4>1
      <4> QED
          BY <2>4, <4>2
    <3> QED
        BY <3>1, <3>2
  <2>5. u[x].kind = Opener(p) /\ x \in 1 .. Len(u)
      BY <1>11, <1>14
  <2> QED
      BY <1>12, <2>3, <2>4, <2>5
<1>15. CASE q[x].kind \in MarkKinds
    BY <1>7, <1>11, <1>15
<1>16. ASSUME NEW z \in e + 1 .. Len(u), x = z + (3 + i - e), q[x] = u[z]
       PROVE  \E c \in Int : Settled(p, q, x, c)
  <2>1. z \in 1 .. Len(u) /\ z > e /\ z \in Int
      BY <1>1, <1>10
  <2>2. ASSUME NEW y \in matches, y.from < i + 1, z <= y.to PROVE FALSE
    <3>1. y.from \in Int /\ y.to \in Int
        BY <1>1, <1>2
    <3>2. y.from = i => y.to = e
        BY <1>4
    <3>3. y.from < i => y.to < i
        BY <1>3, <1>5, <1>8
    <3> QED
        BY <1>10, <2>1, <2>2, <3>1, <3>2, <3>3
  <2>3. PICK c \in Int : Settled(p, u, z, c)
      BY <1>11, <1>12, <1>16, <2>1, <2>2
  <2>4. Settled(p, q, z + (3 + i - e), c + (3 + i - e))
      BY <1>1, <1>5, <1>10, <2>1, <2>3, SettledBeside
  <2>5. c + (3 + i - e) \in Int
      BY <1>10
  <2> QED
      BY <1>16, <2>4, <2>5
<1> QED
  <2>1. \/ x < i /\ x \in 1 .. Len(u) /\ q[x] = u[x]
        \/ x \in i .. i + 3 /\ q[x].kind \in MarkKinds /\ q[x].at = 0
        \/ \E z \in e + 1 .. Len(u) : x = z + (3 + i - e) /\ q[x] = u[z]
      BY <1>1, <1>5, <1>10, TokenPlaces
  <2> QED
      BY <1>14, <1>15, <1>16, <2>1
\* A match is replaced: what stands right behind the placeholder ended the value, or was
\* behind what the format found.
LEMMA FollowsStep ==
    ASSUME NEW o, OfClient(o), NEW S, NEW t \in Seq(S), InPlace(t, o), Real(t),
           NEW n \in DOMAIN Passes, NEW p, p = Passes[n],
           NEW matches, matches = FindAll(p, t), NEW i \in 1 .. Len(t),
           NEW R, NEW u \in Seq(R), InPlace(u, o), NEW q, Len(q) \in Nat, DOMAIN q = 1 .. Len(q),
           Agrees(u, i + 1, t, matches), Follows(u, o, n + 1),
           NEW m \in matches, m.from = i, m.to \in i .. Len(u), \A j \in 1 .. m.to : u[j] = t[j],
           \A z \in matches : z.from >= i + 1 => m.to < z.from,
           WithToken(u, i, m.to, q)
    PROVE  Follows(q, o, n + 1)
<1> DEFINE e == m.to
           Right(x, k) == \/ k.kind \in {"quote", "stop"}
                          \/ \E j \in 1 .. (n + 1) - 1 :
                                 Passes[j] \in Formats /\ o[k.at - 1].kind = Opener(Passes[j])
<1>1. Len(t) \in Nat /\ Len(u) \in Nat /\ DOMAIN u = 1 .. Len(u) /\ DOMAIN t = 1 .. Len(t)
    BY LenProperties
<1>2. Shape(p, t, m)
    BY MatchShapes
<1>3. /\ Len(q) \in Nat /\ DOMAIN q = 1 .. Len(q) /\ WithToken(u, i, e, q)
      /\ e \in i .. Len(u) /\ (\A j \in 1 .. e : u[j] = t[j]) /\ m.from = i
    OBVIOUS
<1>4. p \notin Formats => KindAt(u, e + 1) \in Ends(p) \cup {"end"}
    BY EndBehind
<1> HIDE DEF e
<1>5. i \in Int /\ e \in Int /\ 1 <= i /\ i <= e /\ e <= Len(u) /\ i \in 1 .. Len(u)
    BY <1>1, <1>3
<1>6. \A x \in 2 .. Len(u) : u[x - 1].at = 0 /\ u[x].at # 0 => Right(x, u[x])
    BY DEF Follows
<1>7. ASSUME e + 1 \in 1 .. Len(u), u[e + 1].at # 0
      PROVE  Right(e + 1, u[e + 1])
  <2>1. CASE p \in Formats
    <3>1. m.open \in Int /\ m.from = ValueAt(p, t, m.open) /\ t[m.open].kind = Opener(p) /\ m.to = m.from
        BY <1>2, <2>1 DEF Shape
    <3>2. ValueAt(p, t, m.open) = m.open
        BY <2>1, <3>1, ValueFacts
    <3>3. e = i /\ t[i].kind = Opener(p)
        BY <1>3, <3>1, <3>2 DEF e
    <3>4. u[i] = t[i] /\ i \in 1 .. e
        BY <1>3, <1>5
    <3>5. u[i].kind = Opener(p) /\ u[i].kind \notin MarkKinds
        BY <3>3, <3>4, OpenerFacts
    <3>6. u[i].at # 0 /\ u[i] = o[u[i].at] /\ u[i].at \in 1 .. Len(o)
        BY <1>5, <3>5, ClientOrMark
    <3>7. u[i + 1].at = u[i].at + 1
      <4>1. i + 1 \in 1 .. Len(u) /\ i < i + 1 /\ u[i + 1].at # 0
          BY <1>5, <1>7, <3>3
      <4> QED
          BY <1>5, <3>6, <4>1 DEF InPlace
    <3>8. u[i + 1].at - 1 = u[i].at
      <4>1. u[i].at \in Int
          BY <3>6
      <4> QED
          BY <3>7, <4>1
    <3>9. o[u[e + 1].at - 1].kind = Opener(Passes[n])
        BY <3>3, <3>5, <3>6, <3>8
    <3>10. n \in 1 .. (n + 1) - 1
        BY DEF Passes
    <3> QED
        BY <2>1, <3>9, <3>10
  <2>2. CASE p \notin Formats
    <3>1. u[e + 1].kind \in Ends(p) \cup {"end"}
        BY <1>1, <1>4, <1>7, <2>2 DEF KindAt
    <3>2. u[e + 1].at \in 1 .. Len(o) /\ u[e + 1] = o[u[e + 1].at] /\ u[e + 1].kind \notin MarkKinds
        BY <1>7, ClientOrMark
    <3>3. u[e + 1].kind \in Kinds
        BY <3>2 DEF OfClient
    <3>4. u[e + 1].kind # "end"
        BY <3>3 DEF Kinds
    <3>5. Ends(p) \subseteq {"quote", "stop"} \cup MarkKinds
        BY DEF Ends, MarkKinds, KeyNames
    <3> QED
        BY <3>1, <3>2, <3>4, <3>5
  <2> QED
      BY <2>1, <2>2
<1> HIDE DEF Right
<1>8. SUFFICES ASSUME NEW x \in 2 .. Len(q), q[x - 1].at = 0, q[x].at # 0
               PROVE  Right(x, q[x])
    BY Zenon DEF Follows, Right
<1>9. x \in 1 .. Len(q) /\ x - 1 \in 1 .. Len(q) /\ x \in Int
    BY <1>3
<1>10. /\ Len(q) = Len(u) + 3 + i - e
       /\ \A c \in 1 .. i - 1 : q[c] = u[c]
       /\ \A c \in i .. i + 3 : q[c].at = 0
       /\ \A c \in i + 4 .. Len(q) : q[c] = u[c + (e - i) - 3]
    BY <1>3 DEF WithToken
<1>11. \A z : \A k : Right(z, k) <=> Right(x, k)
    BY DEF Right
<1>12. CASE x < i
  <2>1. x \in 1 .. i - 1 /\ x - 1 \in 1 .. i - 1 /\ x \in 2 .. Len(u)
      BY <1>5, <1>8, <1>12
  <2>2. q[x] = u[x] /\ q[x - 1] = u[x - 1]
      BY <1>10, <2>1
  <2> QED
      BY <1>6, <1>8, <2>1, <2>2
<1>13. CASE x \in i .. i + 3
    BY <1>8, <1>10, <1>13
<1>14. CASE x = i + 4
  <2>1. x \in i + 4 .. Len(q) /\ x + (e - i) - 3 = e + 1
      BY <1>5, <1>9, <1>14
  <2>2. q[x] = u[e + 1]
      BY <1>10, <2>1
  <2>3. e + 1 \in 1 .. Len(u)
      BY <1>5, <1>9, <1>10, <1>14
  <2> QED
      BY <1>7, <1>8, <1>11, <2>2, <2>3
<1>15. CASE x > i + 4
  <2>1. PICK z \in Int : z = x + (e - i) - 3
      BY <1>5, <1>9
  <2>2. x \in i + 4 .. Len(q) /\ x - 1 \in i + 4 .. Len(q) /\ z \in 2 .. Len(u)
        /\ (x - 1) + (e - i) - 3 = z - 1
    <3>1. Len(q) = Len(u) + 3 + i - e /\ Len(u) \in Int
        BY <1>1, <1>10
    <3> QED
        BY <1>5, <1>9, <1>15, <2>1, <3>1
  <2>3. q[x] = u[z] /\ q[x - 1] = u[z - 1]
      BY <1>10, <2>1, <2>2
  <2> QED
      BY <1>6, <1>8, <1>11, <2>2, <2>3
<1> QED
    BY <1>5, <1>9, <1>12, <1>13, <1>14, <1>15

\* A text that the detectors made of the client's has no end before its end.
LEMMA ClientReal ==
    ASSUME NEW o, OfClient(o), NEW t, InPlace(t, o)
    PROVE  Real(t)
<1>1. SUFFICES ASSUME NEW x \in 1 .. Len(t) PROVE t[x].kind # "end"
    BY DEF Real
<1>2. t[x].at = 0 => t[x].kind \in MarkKinds
    BY ClientOrMark
<1>3. t[x].at # 0 => t[x].kind \in Kinds
    BY ClientOrMark DEF OfClient
<1> QED
    BY <1>2, <1>3 DEF MarkKinds, Kinds

\* What has become of the text t of a pass when the matches that begin at i or behind it
\* are replaced: all that opens is settled or will be, and so is what the other patterns
\* have settled.
Stage(u, i, t, n, o) ==
    /\ Agrees(u, i, t, FindAll(Passes[n], t))
    /\ Pending(u, i, t, Passes[n], FindAll(Passes[n], t))
    /\ Follows(u, o, n + 1)
    /\ \A k \in DOMAIN Passes :
           Opener(Passes[k]) # Opener(Passes[n]) /\ AllSettled(Passes[k], t) => AllSettled(Passes[k], u)
\* At the beginning of a pass.
LEMMA StageFirst ==
    ASSUME NEW o, OfClient(o), Sparse(o), NEW S, NEW t \in Seq(S), InPlace(t, o), Starts(t),
           NEW n \in DOMAIN Passes, Follows(t, o, n)
    PROVE  Stage(t, Len(t) + 1, t, n, o)
<1> DEFINE p == Passes[n]
           matches == FindAll(p, t)
           i == Len(t) + 1
<1>1. Agrees(t, i, t, matches)
    BY Zenon DEF Agrees
<1>2. Pending(t, i, t, p, matches)
  <2>1. SUFFICES ASSUME NEW x \in 1 .. Len(t), t[x].kind = Opener(p), ~ \E c \in Int : Settled(p, t, x, c)
                 PROVE  \E y \in matches : y.from < i /\ y.open <= x /\ x <= y.to /\ ~ Skips(p, t, y)
      BY Zenon DEF Pending
  <2>2. PICK y \in matches : y.open <= x /\ x <= y.to /\ ~ Skips(p, t, y)
      BY <2>1, UnsettledFound
  <2>3. y.from \in 1 .. Len(t)
      BY MatchesSeparate DEF Separate
  <2>4. y.from < i
    <3>1. Len(t) \in Nat
        BY LenProperties
    <3> QED
        BY <2>3, <3>1
  <2> QED
      BY <2>2, <2>4
<1>3. Follows(t, o, n + 1)
  <2>1. 1 .. n - 1 \subseteq 1 .. (n + 1) - 1
      BY DEF Passes
  <2> QED
      BY <2>1, Zenon DEF Follows
<1> QED
    BY <1>1, <1>2, <1>3, Zenon DEF Stage

\* From one match to the next in front of it.
LEMMA StageStep ==
    ASSUME NEW o, OfClient(o), NEW S, NEW t \in Seq(S), InPlace(t, o),
           NEW n \in DOMAIN Passes, NEW r, NEW R, r.text \in Seq(R), NEW i \in 1 .. Len(t),
           Kept(r, i + 1, t, FindAll(Passes[n], t), Passes[n], o),
           Stage(r.text, i + 1, t, n, o),
           NEW q, q = ReplacedAt(Passes[n], r, FindAll(Passes[n], t), i).text, NEW Q, q \in Seq(Q)
    PROVE  Stage(q, i, t, n, o)
<1> DEFINE p == Passes[n]
           matches == FindAll(p, t)
           u == r.text
<1>1. u \in Seq(R) /\ InPlace(u, o)
    BY DEF Kept
<1>2. Len(q) \in Nat /\ DOMAIN q = 1 .. Len(q) /\ Len(t) \in Nat /\ i \in Int
    BY LenProperties
<1>3. StepOf(u, q, t, p, matches, i)
    BY StepCases
<1>4. \A y \in matches : y.from \in Int
    BY MatchesSeparate DEF Separate
<1>5. p = Passes[n] /\ matches = FindAll(p, t)
    OBVIOUS
<1>6. /\ Agrees(u, i + 1, t, matches) /\ Pending(u, i + 1, t, p, matches) /\ Follows(u, o, n + 1)
      /\ \A k \in DOMAIN Passes : Opener(Passes[k]) # Opener(p) /\ AllSettled(Passes[k], t) =>
                                      AllSettled(Passes[k], u)
    BY Zenon DEF Stage
<1>7. SUFFICES /\ Agrees(q, i, t, matches) /\ Pending(q, i, t, p, matches) /\ Follows(q, o, n + 1)
               /\ \A k \in DOMAIN Passes : Opener(Passes[k]) # Opener(p) /\ AllSettled(Passes[k], t) =>
                                               AllSettled(Passes[k], q)
    BY Zenon DEF Stage
<1> HIDE DEF p, matches, u
<1>8. \A c : (\A y \in matches : y.from >= i => c < y.from) => \A y \in matches : y.from >= i + 1 => c < y.from
    BY <1>2, <1>4
<1>9. CASE q = u /\ \A y \in matches : y.from = i => Skips(p, t, y)
  <2>1. Agrees(q, i, t, matches)
      BY <1>6, <1>8, <1>9 DEF Agrees
  <2>2. Pending(q, i, t, p, matches)
    <3>1. \A y \in matches : y.from < i + 1 /\ ~ Skips(p, t, y) => y.from < i
        BY <1>2, <1>4, <1>9
    <3> QED
        BY <1>6, <1>9, <3>1 DEF Pending
  <2> QED
      BY <1>6, <1>9, <2>1, <2>2
<1>10. ASSUME NEW m \in matches, m.from = i, m.to \in i .. Len(u), \A j \in 1 .. m.to : u[j] = t[j],
              \A z \in matches : z.from >= i + 1 => m.to < z.from,
              WithToken(u, i, m.to, q)
       PROVE  /\ Agrees(q, i, t, matches) /\ Pending(q, i, t, p, matches) /\ Follows(q, o, n + 1)
              /\ \A k \in DOMAIN Passes : Opener(Passes[k]) # Opener(p) /\ AllSettled(Passes[k], t) =>
                                              AllSettled(Passes[k], q)
  <2>1. Real(t)
      BY ClientReal
  <2>2. Len(u) \in Nat /\ DOMAIN u = 1 .. Len(u)
      BY <1>1, LenProperties
  <2>3. i \in 1 .. Len(u)
      BY <1>2, <1>10, <2>2
  <2>4. \A j \in Int : j < i => KindAt(q, j) = KindAt(u, j)
      BY <1>2, <1>10, <2>2, <2>3, TokenMoves
  <2>5. Agrees(q, i, t, matches)
    <3>1. SUFFICES ASSUME NEW c \in 1 .. Len(t) + 1, \A y \in matches : y.from >= i => c < y.from
                   PROVE  KindAt(q, c) = KindAt(t, c)
        BY Zenon DEF Agrees
    <3>2. c < i /\ c \in Int
        BY <1>2, <1>10, <3>1
    <3>3. KindAt(u, c) = KindAt(t, c)
        BY <1>6, <1>8, <3>1 DEF Agrees
    <3> QED
        BY <2>4, <3>2, <3>3
  <2>6. Pending(q, i, t, p, matches)
      BY <1>1, <1>2, <1>5, <1>6, <1>10, <2>1, PendingStep
  <2>7. Follows(q, o, n + 1)
      BY <1>1, <1>2, <1>5, <1>6, <1>10, <2>1, FollowsStep
  <2>8. ASSUME NEW k \in DOMAIN Passes, Opener(Passes[k]) # Opener(p), AllSettled(Passes[k], t)
        PROVE  AllSettled(Passes[k], q)
    <3>1. AllSettled(Passes[k], u)
        BY <1>6, <2>8
    <3>2. Shape(Passes[n], t, m)
        BY <1>5, MatchShapes
    <3>3. m.to <= Len(u) /\ WithToken(u, m.from, m.to, q)
        BY <1>2, <1>10, <2>2
    <3> QED
      <4>1. Opener(Passes[k]) # Opener(Passes[n])
          BY <1>5, <2>8
      <4>2. \A j \in 1 .. m.to : u[j] = t[j]
          BY <1>10
      <4> QED
          BY <1>1, <1>2, <3>1, <3>2, <3>3, <4>1, <4>2, OtherSettled
  <2> QED
      BY <2>5, <2>6, <2>7, <2>8
<1> QED
    BY <1>3, <1>9, <1>10 DEF StepOf
\* At the end of it.
LEMMA MaskedStage ==
    ASSUME NEW o, OfClient(o), Sparse(o), NEW l \in DOMAIN Passes, NEW t, NEW m, NEW w,
           InPlace(t, o), Starts(t), Follows(t, o, l),
           Fits([text |-> t, made |-> m]), Restores([text |-> t, made |-> m], w)
    PROVE  Stage(Masked(Passes[l], t, m).text, 1, t, l, o)
<1> DEFINE n == Len(t)
           p == Passes[l]
           matches == FindAll(p, t)
           start == [text |-> t, made |-> m]
           Both(r, i) == Kept(r, i, t, matches, p, o) /\ Stage(r.text, i, t, l, o)
<1>1. t \in Seq(Elements(m)) /\ start.text = t
    BY DEF Fits
<1>2. n \in Nat /\ \A y \in matches : y.from \in 1 .. n
    BY <1>1, LenProperties, MatchesSeparate DEF Separate
<1>3. PICK g : Steps(g, p, t, m, w) /\ Masked(p, t, m) = g[1]
    BY MaskedSteps
<1>4. /\ g[n + 1] = start
      /\ \A i \in 1 .. n : g[i] = ReplacedAt(p, g[i + 1], matches, i)
      /\ \A i \in 1 .. n + 1 : Good(g[i], i, t, matches, w)
    BY <1>3 DEF Steps
<1>5. Both(start, n + 1)
  <2>1. Kept(start, n + 1, t, matches, p, o)
    <3> HIDE DEF matches, p, start
    <3>1. \A y \in matches : ~ (y.from >= n + 1)
        BY <1>2
    <3>2. \A c \in 1 .. Len(t) : c <= Len(t)
        BY <1>2
    <3> QED
        BY <1>1, <3>1, <3>2 DEF Kept
  <2>2. Stage(t, n + 1, t, l, o)
      BY <1>1, StageFirst
  <2> QED
      BY <1>1, <2>1, <2>2
<1>6. ASSUME NEW i \in 1 .. n, Both(g[i + 1], i + 1)
      PROVE  Both(g[i], i)
  <2> DEFINE r == g[i + 1]
             q == g[i].text
  <2>1. i + 1 \in 1 .. n + 1 /\ i \in 1 .. n + 1
      BY <1>2
  <2>2. Good(r, i + 1, t, matches, w) /\ Good(g[i], i, t, matches, w)
      BY <1>4, <2>1
  <2>3. g[i] = ReplacedAt(p, r, matches, i)
      BY <1>4
  <2> HIDE DEF r
  <2>4. r.text \in Seq(Elements(r.made)) /\ q \in Seq(Elements(g[i].made))
      BY <2>2 DEF Good, Fits
  <2>5. Kept(r, i + 1, t, matches, p, o) /\ Stage(r.text, i + 1, t, l, o)
      BY <1>6 DEF r
  <2>6. Kept(ReplacedAt(p, r, matches, i), i, t, matches, p, o)
      BY <1>1, <2>4, <2>5, OneKept
  <2>7. q = ReplacedAt(p, r, matches, i).text
      BY <2>3
  <2> HIDE DEF q
  <2>8. Stage(q, i, t, l, o)
      BY <1>1, <2>4, <2>5, <2>7, StageStep
  <2> QED
      BY <2>3, <2>6, <2>8 DEF q
<1> HIDE DEF matches, p, start, n, Both
<1> DEFINE P == {k \in Nat : k <= n => Both(g[n + 1 - k], n + 1 - k)}
<1>7. 0 \in P
  <2>1. n + 1 - 0 = n + 1
      BY <1>2
  <2> QED
      BY <1>4, <1>5, <2>1
<1>8. ASSUME NEW k \in Nat, k \in P PROVE k + 1 \in P
  <2>1. SUFFICES ASSUME k + 1 <= n PROVE Both(g[n + 1 - (k + 1)], n + 1 - (k + 1))
      OBVIOUS
  <2>2. Both(g[n + 1 - k], n + 1 - k)
      BY <1>2, <1>8, <2>1
  <2> DEFINE i == n + 1 - (k + 1)
  <2>3. i \in 1 .. n /\ n + 1 - k = i + 1
      BY <1>2, <2>1
  <2> HIDE DEF i
  <2>4. Both(g[i], i)
      BY <1>6, <2>2, <2>3
  <2> QED
      BY <2>4 DEF i
<1> HIDE DEF P
<1>9. n \in P
    BY <1>2, <1>7, <1>8, AllNumbers
<1>10. n <= n /\ n + 1 - n = 1
    BY <1>2
<1>11. Both(g[1], 1)
    BY <1>9, <1>10 DEF P
<1> QED
    BY <1>3, <1>11 DEF Both, p

\* Only the password labels open two patterns; what the later one settles is settled for
\* the other.
LEMMA SameOpener ==
    ASSUME NEW k \in DOMAIN Passes, NEW l \in DOMAIN Passes, k < l, Opener(Passes[k]) = Opener(Passes[l])
    PROVE  Passes[k] = "password" /\ Passes[l] = "PASSWORD"
<1>1. DOMAIN Passes = 1 .. 7
    BY DEF Passes
<1>2. /\ Opener(Passes[1]) = "key" /\ Opener(Passes[2]) = "pwd" /\ Opener(Passes[3]) = "akia"
      /\ Opener(Passes[4]) = "phone" /\ Opener(Passes[5]) = "mail" /\ Opener(Passes[6]) = "url"
      /\ Opener(Passes[7]) = "pwd" /\ Passes[2] = "password" /\ Passes[7] = "PASSWORD"
    BY DEF Passes, Opener
<1>3. k \in 1 .. 7 /\ l \in 1 .. 7 /\ k < l /\ Opener(Passes[k]) = Opener(Passes[l])
    BY <1>1
<1>4. k = 2 /\ l = 7
  <2>1. k = 1 \/ k = 2 \/ k = 3 \/ k = 4 \/ k = 5 \/ k = 6
      BY <1>3
  <2>2. l = 2 \/ l = 3 \/ l = 4 \/ l = 5 \/ l = 6 \/ l = 7
      BY <1>3
  <2> QED
      BY <1>2, <1>3, <2>1, <2>2
<1> QED
    BY <1>2, <1>4

\* Behind a password label nothing is left for the pattern of the key name either.
LEMMA LabelSettled ==
    ASSUME NEW t, AllSettled("PASSWORD", t)
    PROVE  AllSettled("password", t)
<1>1. Opener("password") = "pwd" /\ Opener("PASSWORD") = "pwd"
    BY DEF Opener
<1>2. /\ Ends("PASSWORD") = {"stop"} /\ Ends("password") = {"quote", "stop"}
      /\ "password" \in KeyNames /\ "PASSWORD" \notin KeyNames
      /\ "password" \notin Formats /\ "password" # "URL_ADDRESS" /\ "PASSWORD" # "URL_ADDRESS"
    BY DEF Ends, KeyNames, Formats
<1>3. SUFFICES ASSUME NEW x \in 1 .. Len(t), NEW c \in Int, Settled("PASSWORD", t, x, c)
               PROVE  Settled("password", t, x, c)
    BY <1>1, Zenon DEF AllSettled
<1>4. ValueAt("PASSWORD", t, x) = x + 1
    BY DEF ValueAt, KeyNames
<1>5. ValueAt("password", t, x) = IF KindAt(t, x + 1) = "quote" THEN x + 2 ELSE x + 1
    BY DEF ValueAt, KeyNames
<1>6. /\ KindAt(t, c) \in {"stop", "end"}
      /\ c = x + 1 \/ (c = (x + 1) + 4 /\ MarksAt(t, x + 1))
    BY <1>2, <1>3, <1>4 DEF Settled
<1>7. KindAt(t, x + 1) # "quote"
  <2>1. c = x + 1 => KindAt(t, x + 1) # "quote"
      BY <1>6
  <2>2. MarksAt(t, x + 1) => KindAt(t, x + 1) # "quote"
      BY DEF MarksAt
  <2> QED
      BY <1>6, <2>1, <2>2
<1>8. ValueAt("password", t, x) = x + 1
    BY <1>5, <1>7
<1>9. KindAt(t, c) \in Ends("password") \cup {"end"}
    BY <1>2, <1>6
<1> QED
    BY <1>2, <1>6, <1>8, <1>9, Zenon DEF Settled

\* A pass settles what its pattern finds, and leaves settled what the ones before it have
\* settled.
LEMMA PassSettles ==
    ASSUME NEW o, OfClient(o), Sparse(o), NEW l \in DOMAIN Passes, NEW t, NEW m, NEW w,
           InPlace(t, o), Starts(t), Follows(t, o, l),
           Fits([text |-> t, made |-> m]), Restores([text |-> t, made |-> m], w),
           NEW u, u = Masked(Passes[l], t, m).text
    PROVE  /\ AllSettled(Passes[l], u)
           /\ Follows(u, o, l + 1)
           /\ \A k \in DOMAIN Passes : k < l /\ AllSettled(Passes[k], t) => AllSettled(Passes[k], u)
<1>1. Stage(u, 1, t, l, o)
    BY MaskedStage
<1>2. AllSettled(Passes[l], u)
  <2>1. t \in Seq(Elements(m))
      BY DEF Fits
  <2>2. \A y \in FindAll(Passes[l], t) : ~ y.from < 1
      BY <2>1, MatchesSeparate DEF Separate
  <2>3. Pending(u, 1, t, Passes[l], FindAll(Passes[l], t))
      BY <1>1 DEF Stage
  <2> QED
      BY <2>2, <2>3, Zenon DEF Pending, AllSettled
<1>3. Follows(u, o, l + 1)
    BY <1>1 DEF Stage
<1>4. ASSUME NEW k \in DOMAIN Passes, k < l, AllSettled(Passes[k], t) PROVE AllSettled(Passes[k], u)
  <2>1. CASE Opener(Passes[k]) # Opener(Passes[l])
      BY <1>1, <1>4, <2>1 DEF Stage
  <2>2. CASE Opener(Passes[k]) = Opener(Passes[l])
    <3>1. Passes[k] = "password" /\ Passes[l] = "PASSWORD"
        BY <1>4, <2>2, SameOpener
    <3> QED
        BY <1>2, <3>1, LabelSettled
  <2> QED
      BY <2>1, <2>2
<1> QED
    BY <1>2, <1>3, <1>4
----------------------------------------------------------------------------
(* The second masking.                                                     *)

\* The patterns that are done and switched on have settled what they find; while the text
\* is masked for the first time, what stands behind a placeholder is known, and the second
\* time it changes no more.
OnceInv ==
    Sparse(Lexemes(text)) =>
        /\ \A n \in DOMAIN Passes : (n < pass \/ first # <<>>) /\ Enabled(Passes[n], local, level) =>
                                        AllSettled(Passes[n], result)
        /\ first = <<>> => Follows(result, Lexemes(text), pass)
        /\ first # <<>> => result = first

\* It holds before the first pass,
LEMMA OnceInit == MaskInit => OnceInv
<1> SUFFICES ASSUME MaskInit PROVE OnceInv
    OBVIOUS
<1>1. text \in Texts /\ result = Lexemes(text) /\ pass = 1 /\ first = <<>>
    BY DEF MaskInit
<1>2. \A n \in DOMAIN Passes : ~ (n < 1)
    BY DEF Passes
<1>3. OfClient(Lexemes(text))
    BY <1>1, LexemesInPlace
<1>4. Follows(result, Lexemes(text), 1)
  <2> DEFINE o == Lexemes(text)
  <2>1. OfClient(o) /\ result = o
      BY <1>1, <1>3
  <2> HIDE DEF o
  <2>2. ASSUME NEW x \in 2 .. Len(result) PROVE result[x - 1].at # 0
    <3>1. x - 1 \in 1 .. Len(o) /\ x - 1 # 0
        BY <2>1, <2>2 DEF OfClient
    <3> QED
        BY <2>1, <3>1 DEF OfClient
  <2>3. Follows(result, o, 1)
      BY <2>2, Zenon DEF Follows
  <2> QED
      BY <2>3 DEF o
<1> QED
    BY <1>1, <1>2, <1>4 DEF OnceInv

\* ... after each pass of the first and of the second masking,
LEMMA OnceApply ==
    ASSUME MaskInv, LeakInv, OnceInv, pass \in DOMAIN Passes, Apply(Passes[pass]), pass' = pass + 1,
           text' = text, local' = local, level' = level, first' = first
    PROVE  OnceInv'
<1> DEFINE o == Lexemes(text)
           u == Masked(Passes[pass], result, made).text
<1>1. text \in Texts /\ DOMAIN Passes = 1 .. 7 /\ pass \in 1 .. 7
    BY DEF MaskInv, MaskTypes, Passes
<1>2. OfClient(o) /\ InPlace(result, o) /\ Starts(result)
    BY <1>1, LexemesInPlace DEF LeakInv
<1>3. Fits([text |-> result, made |-> made]) /\ Restores([text |-> result, made |-> made], o)
    BY DEF MaskInv
<1>4. IF Enabled(Passes[pass], local, level) THEN result' = u ELSE result' = result
    BY DEF Apply
<1>5. Lexemes(text)' = o
    OBVIOUS
<1>6. Sparse(o) =>
          /\ \A n \in DOMAIN Passes : (n < pass \/ first # <<>>) /\ Enabled(Passes[n], local, level) =>
                                          AllSettled(Passes[n], result)
          /\ first = <<>> => Follows(result, o, pass)
          /\ first # <<>> => result = first
    BY DEF OnceInv
<1> HIDE DEF o
<1>7. SUFFICES ASSUME Sparse(o)
               PROVE  /\ \A n \in DOMAIN Passes :
                             (n < pass + 1 \/ first # <<>>) /\ Enabled(Passes[n], local, level) =>
                                 AllSettled(Passes[n], result')
                      /\ first = <<>> => Follows(result', o, pass + 1)
                      /\ first # <<>> => result' = first
    BY <1>5, Zenon DEF OnceInv
<1>8. \A n \in DOMAIN Passes : n < pass + 1 => n < pass \/ n = pass
    BY <1>1
<1>9. CASE result' = result /\ (Enabled(Passes[pass], local, level) => AllSettled(Passes[pass], result))
  <2>1. first = <<>> => Follows(result', o, pass + 1)
    <3>1. 1 .. pass - 1 \subseteq 1 .. (pass + 1) - 1
        BY <1>1
    <3>2. Follows(result, o, pass) => Follows(result, o, pass + 1)
        BY <3>1, Zenon DEF Follows
    <3> QED
        BY <1>6, <1>7, <1>9, <3>2
  <2> QED
      BY <1>6, <1>7, <1>8, <1>9, <2>1
<1>10. CASE Enabled(Passes[pass], local, level) /\ first = <<>>
  <2>1. result' = u /\ u = Masked(Passes[pass], result, made).text
      BY <1>4, <1>10
  <2> HIDE DEF u
  <2>2. Follows(result, o, pass)
      BY <1>6, <1>7, <1>10
  <2>3. /\ AllSettled(Passes[pass], u) /\ Follows(u, o, pass + 1)
        /\ \A k \in DOMAIN Passes : k < pass /\ AllSettled(Passes[k], result) => AllSettled(Passes[k], u)
      BY <1>2, <1>3, <1>7, <2>1, <2>2, PassSettles
  <2> QED
      BY <1>6, <1>7, <1>8, <1>10, <2>1, <2>3
<1>11. CASE Enabled(Passes[pass], local, level) /\ first # <<>>
  <2>1. AllSettled(Passes[pass], result)
      BY <1>6, <1>7, <1>11
  <2>2. Masked(Passes[pass], result, made) = [text |-> result, made |-> made]
      BY <1>3, <2>1, SettledStays
  <2>3. result' = result
      BY <1>4, <1>11, <2>2
  <2> QED
      BY <1>9, <2>1, <2>3
<1>12. CASE ~ Enabled(Passes[pass], local, level)
    BY <1>4, <1>9, <1>12
<1> QED
    BY <1>10, <1>11, <1>12

\* ... and when the second masking begins.
LEMMA OnceNext == MaskInv /\ LeakInv /\ OnceInv /\ [MaskNext]_textVars => OnceInv'
<1> SUFFICES ASSUME MaskInv, LeakInv, OnceInv, [MaskNext]_textVars PROVE OnceInv'
    OBVIOUS
<1>1. CASE Mask
    BY <1>1, OnceApply DEF Mask
<1>2. CASE DetectAndMask
    BY <1>2, OnceApply DEF DetectAndMask
<1>3. CASE MaskAgain
  <2>1. /\ pass > Len(Passes) /\ text' = text /\ local' = local /\ level' = level /\ result' = result
        /\ first' = result
      BY <1>3 DEF MaskAgain
  <2>2. \A n \in DOMAIN Passes : n < pass
    <3>1. Len(Passes) = 7 /\ DOMAIN Passes = 1 .. 7
        BY DEF Passes
    <3>2. pass \in 1 .. Len(Passes) + 1
        BY DEF MaskInv, MaskTypes
    <3> QED
        BY <2>1, <3>1, <3>2
  <2>3. result = <<>> => Follows(result, Lexemes(text), pass')
    <3>1. SUFFICES ASSUME result = <<>> PROVE 2 .. Len(result) = {}
        BY Zenon DEF Follows
    <3> QED
        BY <3>1
  <2>4. Sparse(Lexemes(text)) => \A n \in DOMAIN Passes : Enabled(Passes[n], local, level) =>
                                                              AllSettled(Passes[n], result)
      BY <2>2 DEF OnceInv
  <2>5. Lexemes(text)' = Lexemes(text)
      BY <2>1
  <2> QED
      BY <2>1, <2>3, <2>4, <2>5 DEF OnceInv
<1>4. CASE UNCHANGED textVars
    BY <1>4 DEF textVars, OnceInv
<1> QED
    BY <1>1, <1>2, <1>3, <1>4 DEF MaskNext

\* What MaskedOnce asks of a text makes its lexemes sparse.
LEMMA TextSparse ==
    ASSUME NEW t \in Texts,
           \A i \in 1 .. Len(t) - 1 : t[i] = "phone" => t[i + 1] \notin {"mail", "url"}
    PROVE  Sparse(Lexemes(t))
<1> DEFINE o == Lexemes(t)
<1>1. t \in Seq(Kinds) /\ Len(t) \in Nat /\ DOMAIN t = 1 .. Len(t)
    BY TextAssumption, LenProperties
<1>2. Len(o) = Len(t) /\ \A i \in 1 .. Len(t) : o[i].kind = t[i]
  <2>1. o = [i \in 1 .. Len(t) |-> Plain(t[i], i)]
      BY <1>1 DEF Lexemes
  <2> HIDE DEF o
  <2>2. ASSUME NEW i \in 1 .. Len(t) PROVE o[i].kind = t[i]
    <3>1. o[i] = Plain(t[i], i)
        BY <2>1
    <3>2. Plain(t[i], i).kind = t[i]
        BY DEF Plain
    <3> QED
        BY <3>1, <3>2
  <2>3. Len(o) = Len(t)
      BY <1>1, <2>1
  <2> QED
      BY <2>2, <2>3
<1>3. Apart(t)
    BY ApartAssumption
<1> HIDE DEF o
<1>4. SUFFICES ASSUME NEW i \in 2 .. Len(o)
               PROVE  /\ o[i].kind \in {"akia", "mail", "url"} => o[i - 1].kind \notin {"akia", "phone", "mail"}
                      /\ o[i].kind = "phone" => o[i - 1].kind # "akia"
    BY DEF Sparse, o
<1>5. PICK j \in 1 .. Len(t) - 1 : j = i - 1 /\ j + 1 = i
    BY <1>1, <1>2, <1>4
<1>6. i \in 1 .. Len(t) /\ j \in 1 .. Len(t)
    BY <1>1, <1>2, <1>4, <1>5
<1>7. o[i].kind = t[j + 1] /\ o[i - 1].kind = t[j]
    BY <1>2, <1>5, <1>6
<1>8. /\ t[j] = "phone" => t[j + 1] \notin {"mail", "url"}
      /\ t[j] = "mail" => t[j + 1] \notin {"mail", "url"}
      /\ t[j] = "akia" => t[j + 1] \notin {"mail", "url", "phone"}
      /\ t[j] \in {"mail", "phone", "akia"} => t[j + 1] # "akia"
    BY <1>3, <1>5 DEF Apart
<1> QED
    BY <1>7, <1>8

\* For texts of any length: when the result of a tool, which LocalMasker.Mask and
\* DetectAndMask have masked like any message, goes through maskContent, they leave it as
\* it is, unless a telephone number stands right in front of an address.
THEOREM OnceIsMaskedOnce == MaskSpec => []MaskedOnce
<1>1. MaskInv /\ OnceInv => MaskedOnce
  <2> SUFFICES ASSUME MaskInv, OnceInv, first # <<>>,
                      \A i \in 1 .. Len(text) - 1 : text[i] = "phone" => text[i + 1] \notin {"mail", "url"}
               PROVE  result = first
      BY DEF MaskedOnce
  <2>1. text \in Texts
      BY DEF MaskInv, MaskTypes
  <2>2. Sparse(Lexemes(text))
      BY <2>1, TextSparse
  <2> QED
      BY <2>2 DEF OnceInv
<1> QED
    BY <1>1, MaskInvariant, LeakInit, LeakNext, OnceInit, OnceNext, PTL DEF MaskSpec
=============================================================================
