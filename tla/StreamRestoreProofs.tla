------------------------ MODULE StreamRestoreProofs ------------------------
(***************************************************************************)
(* Proofs about StreamRestore.                                             *)
(***************************************************************************)
EXTENDS StreamRestore, SequenceLemmas

----------------------------------------------------------------------------
(* Parts of texts.                                                         *)

\* The beginning and the end of a text, position by position.
StartIs(u, t, p) ==
    /\ Len(u) = p /\ u = SubSeq(t, 1, p)
    /\ \A k \in 1 .. p : u[k] = t[k]

LEMMA StartOf ==
    ASSUME NEW S, NEW t \in Seq(S), NEW p \in 0 .. Len(t)
    PROVE  \E u \in Seq(S) : StartIs(u, t, p)
<1>1. Len(t) \in Nat /\ p \in Int
    BY LenProperties
<1>2. 1 \in 1 .. Len(t) + 1 /\ p \in (1 - 1) .. Len(t) /\ p - 1 + 1 = p
    BY <1>1
<1> DEFINE u == SubSeq(t, 1, p)
<1>3. u \in Seq(S) /\ Len(u) = p - 1 + 1 /\ \A k \in 1 .. p - 1 + 1 : u[k] = t[1 + k - 1]
    BY <1>2, Part
<1>4. u = SubSeq(t, 1, p)
    OBVIOUS
<1> HIDE DEF u
<1>5. u \in Seq(S) /\ StartIs(u, t, p)
    BY <1>1, <1>2, <1>3, <1>4 DEF StartIs
<1> QED
    BY <1>5

\* The part of a text between two places, position by position.
PartIs(u, a, p, q) ==
    /\ Len(u) = q - p /\ u = SubSeq(a, p + 1, q)
    /\ \A k \in 1 .. q - p : u[k] = a[p + k]

LEMMA Between ==
    ASSUME NEW S, NEW a \in Seq(S), NEW q \in 0 .. Len(a), NEW p \in 0 .. q
    PROVE  \E u \in Seq(S) : PartIs(u, a, p, q)
<1>1. Len(a) \in Nat /\ p \in Int /\ q \in Int
    BY LenProperties
<1>2. p + 1 \in 1 .. Len(a) + 1 /\ q \in ((p + 1) - 1) .. Len(a) /\ q - (p + 1) + 1 = q - p
    BY <1>1
<1> DEFINE u == SubSeq(a, p + 1, q)
<1>3. u \in Seq(S) /\ Len(u) = q - (p + 1) + 1 /\ \A k \in 1 .. (q - (p + 1) + 1) : u[k] = a[(p + 1) + k - 1]
    BY <1>2, Part
<1>4. u = SubSeq(a, p + 1, q)
    OBVIOUS
<1> HIDE DEF u
<1>5. ASSUME NEW k \in 1 .. q - p PROVE u[k] = a[p + k]
  <2>1. k \in 1 .. (q - (p + 1) + 1) /\ (p + 1) + k - 1 = p + k
      BY <1>1
  <2>2. u[k] = a[(p + 1) + k - 1]
      BY <1>3, <2>1
  <2> QED
      BY <2>1, <2>2
<1>6. u \in Seq(S) /\ Len(u) = q - p
    BY <1>2, <1>3
<1>7. u \in Seq(S) /\ PartIs(u, a, p, q)
    BY <1>4, <1>5, <1>6 DEF PartIs
<1> QED
    BY <1>7


\* A part of a text at one, two and all five of its positions.
LEMMA AtOne ==
    ASSUME NEW S, NEW t \in Seq(S), NEW i \in Int, NEW x
    PROVE  At(t, i, <<x>>) <=> i \in 1 .. Len(t) /\ t[i] = x
<1>1. Len(t) \in Nat /\ Len(<<x>>) = 1
    BY LenProperties
<1> DEFINE p == SubSeq(t, i, i)
<1>2. ASSUME i \in 1 .. Len(t) PROVE p = <<x>> <=> t[i] = x
  <2>1. p \in Seq(S) /\ Len(p) = 1 /\ p[1] = t[i]
    <3>1. i \in 1 .. Len(t) + 1 /\ i \in (i - 1) .. Len(t)
        BY <1>1, <1>2
    <3> QED
        BY <3>1, Part
  <2> HIDE DEF p
  <2>2. p = <<t[i]>>
      BY <2>1
  <2> QED
      BY <2>2
<1>3. i + 1 - 1 = i /\ Len(t) - 1 + 1 = Len(t)
    BY <1>1
<1> QED
    BY <1>1, <1>2, <1>3 DEF At

LEMMA AtTwo ==
    ASSUME NEW S, NEW t \in Seq(S), NEW i \in Int, NEW x, NEW y
    PROVE  At(t, i, <<x, y>>) <=> i \in 1 .. Len(t) - 1 /\ t[i] = x /\ t[i + 1] = y
<1>1. Len(t) \in Nat /\ Len(<<x, y>>) = 2
    BY LenProperties
<1> DEFINE p == SubSeq(t, i, i + 1)
<1>2. ASSUME i \in 1 .. Len(t) - 1 PROVE p = <<x, y>> <=> t[i] = x /\ t[i + 1] = y
  <2>1. p \in Seq(S) /\ Len(p) = 2 /\ p[1] = t[i] /\ p[2] = t[i + 1]
    <3>1. i \in 1 .. Len(t) + 1 /\ i + 1 \in (i - 1) .. Len(t)
        BY <1>1, <1>2
    <3>2. \A k \in 1 .. (i + 1) - i + 1 : p[k] = t[i + k - 1]
        BY <3>1, Part
    <3>3. p \in Seq(S) /\ Len(p) = (i + 1) - i + 1
        BY <3>1, Part
    <3> HIDE DEF p
    <3> QED
        BY <3>2, <3>3
  <2> HIDE DEF p
  <2>2. p = <<t[i], t[i + 1]>>
      BY <2>1
  <2> QED
      BY <2>2
<1>3. i + 2 - 1 = i + 1 /\ Len(t) - 2 + 1 = Len(t) - 1
    BY <1>1
<1> QED
    BY <1>1, <1>2, <1>3 DEF At

LEMMA AtPlaceholder ==
    ASSUME NEW S, NEW t \in Seq(S), NEW i \in Int
    PROVE  At(t, i, Placeholder) <=>
               /\ i \in 1 .. Len(t) - 4
               /\ t[i] = "$" /\ t[i + 1] = "{" /\ t[i + 2] = "B" /\ t[i + 3] = "H" /\ t[i + 4] = "}"
<1>1. Len(t) \in Nat /\ Len(Placeholder) = 5
    BY LenProperties DEF Placeholder
<1> DEFINE p == SubSeq(t, i, i + 4)
<1>2. ASSUME i \in 1 .. Len(t) - 4
      PROVE  p = Placeholder <=>
                 t[i] = "$" /\ t[i + 1] = "{" /\ t[i + 2] = "B" /\ t[i + 3] = "H" /\ t[i + 4] = "}"
  <2>1. i \in 1 .. Len(t) + 1 /\ i + 4 \in (i - 1) .. Len(t) /\ (i + 4) - i + 1 = 5
      BY <1>1, <1>2
  <2>2. p \in Seq(S) /\ Len(p) = 5 /\ \A k \in 1 .. 5 : p[k] = t[i + k - 1]
    <3>1. /\ p \in Seq(S) /\ Len(p) = (i + 4) - i + 1
          /\ \A k \in 1 .. (i + 4) - i + 1 : p[k] = t[i + k - 1]
        BY <2>1, Part
    <3> HIDE DEF p
    <3> QED
        BY <2>1, <3>1
  <2> HIDE DEF p
  <2>3. p[1] = t[i] /\ p[2] = t[i + 1] /\ p[3] = t[i + 2] /\ p[4] = t[i + 3] /\ p[5] = t[i + 4]
      BY <2>2
  <2>4. p = <<t[i], t[i + 1], t[i + 2], t[i + 3], t[i + 4]>>
      BY <2>2, <2>3
  <2> QED
      BY <2>4 DEF Placeholder
<1>3. i + 5 - 1 = i + 4 /\ Len(t) - 5 + 1 = Len(t) - 4
    BY <1>1
<1> QED
    BY <1>1, <1>2, <1>3 DEF At

\* Where the bodies are.
LEMMA BodyAt ==
    ASSUME NEW S, NEW t \in Seq(S), NEW b \in Int
    PROVE  b \in Bodies(t) <=>
               b \in 2 .. Len(t) - 1 /\ t[b - 1] = "{" /\ t[b] = "B" /\ t[b + 1] = "H"
<1>1. Len(t) \in Nat /\ DOMAIN t = 1 .. Len(t)
    BY LenProperties
<1>2. At(t, b, <<"B", "H">>) <=> b \in 1 .. Len(t) - 1 /\ t[b] = "B" /\ t[b + 1] = "H"
    BY AtTwo
<1>3. At(t, b - 1, <<"{">>) <=> b - 1 \in 1 .. Len(t) /\ t[b - 1] = "{"
  <2>1. b - 1 \in Int
      OBVIOUS
  <2> QED
      BY <2>1, AtOne
<1>4. b \in Bodies(t) <=> b \in 1 .. Len(t) /\ At(t, b, <<"B", "H">>) /\ At(t, b - 1, <<"{">>)
    BY <1>1, Zenon DEF Bodies
<1>5. b \in 1 .. Len(t) /\ b \in 1 .. Len(t) - 1 /\ b - 1 \in 1 .. Len(t) <=> b \in 2 .. Len(t) - 1
    BY <1>1
<1> QED
    BY <1>2, <1>3, <1>4, <1>5, Zenon
----------------------------------------------------------------------------
(* RestoreAll.                                                             *)

Out == Lexemes \cup {Original}

\* What becomes of each lexeme.
Pieces(t) == [i \in DOMAIN t |-> Restored(t, i)]

\* The marks around the bodies of a text, which vanish with them.
Mark(t, i) ==
    \/ i - 1 \in Bodies(t)
    \/ i + 1 \in Bodies(t)
    \/ i + 2 \in Bodies(t) /\ t[i] = "$"
    \/ i - 2 \in Bodies(t) /\ t[i] = "}"

\* A cut of a text behind the lexeme at i separates a body from its marks.
Cuts(t, i) ==
    \E b \in Bodies(t) :
        \/ i = b - 2 /\ i # 0 /\ t[i] = "$"
        \/ i \in {b - 1, b}
        \/ i = b + 1 /\ At(t, i + 1, <<"}">>)

LEMMA RestoredCases ==
    ASSUME NEW t \in Seq(Lexemes), NEW i \in DOMAIN t
    PROVE  /\ i \in Bodies(t) => Restored(t, i) = <<Original>>
           /\ i \notin Bodies(t) /\ Mark(t, i) => Restored(t, i) = <<>>
           /\ i \notin Bodies(t) /\ ~Mark(t, i) => Restored(t, i) = <<t[i]>>
<1>1. DOMAIN t = 1 .. Len(t) /\ Len(t) \in Nat /\ i \in Int
    BY LenProperties
<1>2. ~ (i \in Bodies(t) /\ Mark(t, i))
  <2>1. \A b \in Bodies(t) : t[b - 1] = "{" /\ t[b] = "B" /\ t[b + 1] = "H" /\ b \in Int
    <3>1. TAKE b \in Bodies(t)
    <3>2. b \in Int
      <4>1. b \in DOMAIN t
          BY Zenon DEF Bodies
      <4> QED
          BY <1>1, <4>1
    <3> QED
        BY <3>2, BodyAt
  <2> SUFFICES ASSUME i \in Bodies(t), Mark(t, i) PROVE FALSE
      OBVIOUS
  <2>2. t[i] = "B"
      BY <2>1
  <2>3. CASE i - 1 \in Bodies(t)
    <3>1. t[(i - 1) + 1] = "H" /\ (i - 1) + 1 = i
        BY <1>1, <2>1, <2>3
    <3> QED
        BY <2>2, <3>1
  <2>4. CASE i + 1 \in Bodies(t)
    <3>1. t[(i + 1) - 1] = "{" /\ (i + 1) - 1 = i
        BY <1>1, <2>1, <2>4
    <3> QED
        BY <2>2, <3>1
  <2> QED
      BY <2>2, <2>3, <2>4 DEF Mark
<1>3. Restored(t, i) = CASE i \in Bodies(t) -> <<Original>> [] Mark(t, i) -> <<>> [] OTHER -> <<t[i]>>
    BY DEF Restored, Mark
<1> QED
    BY <1>2, <1>3

\* A lexeme is restored to text, of the same kind or the original.
LEMMA PiecesType ==
    ASSUME NEW t \in Seq(Lexemes)
    PROVE  Pieces(t) \in Seq(Seq(Out)) /\ Len(Pieces(t)) = Len(t)
<1>1. DOMAIN t = 1 .. Len(t) /\ Len(t) \in Nat /\ \A i \in 1 .. Len(t) : t[i] \in Lexemes
    BY LenProperties, ElementOfSeq
<1>2. ASSUME NEW i \in DOMAIN t PROVE Restored(t, i) \in Seq(Out)
  <2>1. <<Original>> \in Seq(Out) /\ <<>> \in Seq(Out) /\ <<t[i]>> \in Seq(Out)
      BY <1>1 DEF Out
  <2> QED
      BY <2>1, RestoredCases
<1> QED
    BY <1>1, <1>2 DEF Pieces

LEMMA SamePiece ==
    ASSUME NEW t \in Seq(Lexemes), NEW u \in Seq(Lexemes), NEW i \in DOMAIN t, NEW j \in DOMAIN u,
           i \in Bodies(t) <=> j \in Bodies(u), Mark(t, i) <=> Mark(u, j), t[i] = u[j]
    PROVE  Restored(t, i) = Restored(u, j)
<1> QED
    BY RestoredCases

\* The bodies of the beginning of a text, and of its end.
LEMMA BodiesOfParts ==
    ASSUME NEW t \in Seq(Lexemes), NEW p \in 0 .. Len(t), NEW b \in Int
    PROVE  /\ b \in Bodies(SubSeq(t, 1, p)) <=> b \in Bodies(t) /\ b + 1 <= p
           /\ b \in Bodies(SubSeq(t, p + 1, Len(t))) <=> b + p \in Bodies(t) /\ b >= 2
<1>1. Len(t) \in Nat /\ DOMAIN t = 1 .. Len(t) /\ p \in Int
    BY LenProperties
<1>2. PICK u : /\ u \in Seq(Lexemes) /\ Len(u) = p /\ u = SubSeq(t, 1, p)
               /\ \A k \in 1 .. p : u[k] = t[k]
  <2>1. PICK u \in Seq(Lexemes) : StartIs(u, t, p)
      BY StartOf, Zenon
  <2>2. /\ u \in Seq(Lexemes) /\ Len(u) = p /\ u = SubSeq(t, 1, p)
        /\ \A k \in 1 .. p : u[k] = t[k]
      BY <2>1, Zenon DEF StartIs
  <2> QED
      BY <2>2, Zenon
<1>3. PICK v : /\ v \in Seq(Lexemes) /\ Len(v) = Len(t) - p /\ v = SubSeq(t, p + 1, Len(t))
               /\ \A k \in 1 .. Len(t) - p : v[k] = t[p + k]
  <2>0. Len(t) \in 0 .. Len(t)
      BY <1>1
  <2>1. PICK v \in Seq(Lexemes) : PartIs(v, t, p, Len(t))
      BY <2>0, Between, Zenon
  <2>2. /\ v \in Seq(Lexemes) /\ Len(v) = Len(t) - p /\ v = SubSeq(t, p + 1, Len(t))
        /\ \A k \in 1 .. Len(t) - p : v[k] = t[p + k]
      BY <2>1, Zenon DEF PartIs
  <2> QED
      BY <2>2, Zenon
<1>4. b \in Bodies(t) <=> b \in 2 .. Len(t) - 1 /\ t[b - 1] = "{" /\ t[b] = "B" /\ t[b + 1] = "H"
    BY BodyAt
<1>5. b + p \in Bodies(t) <=>
          b + p \in 2 .. Len(t) - 1 /\ t[(b + p) - 1] = "{" /\ t[b + p] = "B" /\ t[(b + p) + 1] = "H"
  <2>1. b + p \in Int
      BY <1>1
  <2> QED
      BY <2>1, BodyAt
<1>6. b \in Bodies(u) <=> b \in 2 .. p - 1 /\ u[b - 1] = "{" /\ u[b] = "B" /\ u[b + 1] = "H"
    BY <1>2, BodyAt
<1>7. b \in Bodies(v) <=> b \in 2 .. (Len(t) - p) - 1 /\ v[b - 1] = "{" /\ v[b] = "B" /\ v[b + 1] = "H"
    BY <1>3, BodyAt, ZenonT(30)
<1>8. b \in Bodies(u) <=> b \in Bodies(t) /\ b + 1 <= p
  <2>1. CASE b \in 2 .. p - 1
    <3>1. u[b - 1] = t[b - 1] /\ u[b] = t[b] /\ u[b + 1] = t[b + 1] /\ b \in 2 .. Len(t) - 1 /\ b + 1 <= p
        BY <1>1, <1>2, <2>1
    <3> QED
        BY <1>4, <1>6, <2>1, <3>1
  <2>2. CASE b \notin 2 .. p - 1
    <3>1. ~ (b \in 2 .. Len(t) - 1 /\ b + 1 <= p)
        BY <1>1, <2>2
    <3> QED
        BY <1>4, <1>6, <2>2, <3>1
  <2> QED
      BY <2>1, <2>2
<1>9. b \in Bodies(v) <=> b + p \in Bodies(t) /\ b >= 2
  <2>1. CASE b \in 2 .. (Len(t) - p) - 1
    <3>1. /\ v[b - 1] = t[(b + p) - 1] /\ v[b] = t[b + p] /\ v[b + 1] = t[(b + p) + 1]
          /\ b + p \in 2 .. Len(t) - 1 /\ b >= 2
      <4>1. /\ b - 1 \in 1 .. Len(t) - p /\ b \in 1 .. Len(t) - p /\ b + 1 \in 1 .. Len(t) - p
            /\ p + (b - 1) = (b + p) - 1 /\ p + b = b + p /\ p + (b + 1) = (b + p) + 1
          BY <1>1, <2>1
      <4>2. v[b - 1] = t[p + (b - 1)] /\ v[b] = t[p + b] /\ v[b + 1] = t[p + (b + 1)]
          BY <1>3, <4>1
      <4>3. v[b - 1] = t[(b + p) - 1] /\ v[b] = t[b + p] /\ v[b + 1] = t[(b + p) + 1]
          BY <4>1, <4>2
      <4>4. b + p \in 2 .. Len(t) - 1 /\ b >= 2
          BY <1>1, <2>1
      <4> QED
          BY <4>3, <4>4
    <3> QED
        BY <1>5, <1>7, <2>1, <3>1
  <2>2. CASE b \notin 2 .. (Len(t) - p) - 1
    <3>1. ~ (b + p \in 2 .. Len(t) - 1 /\ b >= 2)
        BY <1>1, <2>2
    <3> QED
        BY <1>5, <1>7, <2>2, <3>1
  <2> QED
      BY <2>1, <2>2
<1> QED
    BY <1>2, <1>3, <1>8, <1>9
\* Where no body is cut, the parts of a text are restored as the whole text is.
LEMMA SplitPieces ==
    ASSUME NEW t \in Seq(Lexemes), NEW p \in 0 .. Len(t), ~ Cuts(t, p)
    PROVE  Pieces(t) = Pieces(SubSeq(t, 1, p)) \o Pieces(SubSeq(t, p + 1, Len(t)))
<1>1. Len(t) \in Nat /\ DOMAIN t = 1 .. Len(t) /\ p \in Int
    BY LenProperties
<1>2. PICK u : /\ u \in Seq(Lexemes) /\ Len(u) = p /\ u = SubSeq(t, 1, p)
               /\ \A k \in 1 .. p : u[k] = t[k]
  <2>1. PICK u \in Seq(Lexemes) : StartIs(u, t, p)
      BY StartOf, Zenon
  <2>2. /\ u \in Seq(Lexemes) /\ Len(u) = p /\ u = SubSeq(t, 1, p)
        /\ \A k \in 1 .. p : u[k] = t[k]
      BY <2>1, Zenon DEF StartIs
  <2> QED
      BY <2>2, Zenon
<1>3. PICK v : /\ v \in Seq(Lexemes) /\ Len(v) = Len(t) - p /\ v = SubSeq(t, p + 1, Len(t))
               /\ \A k \in 1 .. Len(t) - p : v[k] = t[p + k]
  <2>0. Len(t) \in 0 .. Len(t)
      BY <1>1
  <2>1. PICK v \in Seq(Lexemes) : PartIs(v, t, p, Len(t))
      BY <2>0, Between, Zenon
  <2>2. /\ v \in Seq(Lexemes) /\ Len(v) = Len(t) - p /\ v = SubSeq(t, p + 1, Len(t))
        /\ \A k \in 1 .. Len(t) - p : v[k] = t[p + k]
      BY <2>1, Zenon DEF PartIs
  <2> QED
      BY <2>2, Zenon
<1>4. \A b \in Int : b \in Bodies(u) <=> b \in Bodies(t) /\ b + 1 <= p
    BY <1>2, BodiesOfParts
<1>5. \A b \in Int : b \in Bodies(v) <=> b + p \in Bodies(t) /\ b >= 2
    BY <1>3, BodiesOfParts
<1>6. \A b \in Int : b \in Bodies(t) => b >= 2 /\ b + 1 <= Len(t) /\ t[b - 1] = "{" /\ t[b] = "B" /\ t[b + 1] = "H"
  <2>1. TAKE b \in Int
  <2>2. b \in Bodies(t) <=> b \in 2 .. Len(t) - 1 /\ t[b - 1] = "{" /\ t[b] = "B" /\ t[b + 1] = "H"
      BY BodyAt
  <2>3. b \in 2 .. Len(t) - 1 => b >= 2 /\ b + 1 <= Len(t)
      BY <1>1
  <2> QED
      BY <2>2, <2>3, Zenon
\* What a cut at p that separates no body rules out.
<1>7. \A b \in Int : b \in Bodies(t) =>
          ~ (p = b - 2 /\ p # 0 /\ t[p] = "$") /\ p # b - 1 /\ p # b /\ ~ (p = b + 1 /\ b + 2 <= Len(t) /\ t[b + 2] = "}")
  <2>1. SUFFICES ASSUME NEW b \in Int, b \in Bodies(t)
                 PROVE  /\ ~ (p = b - 2 /\ p # 0 /\ t[p] = "$") /\ p # b - 1 /\ p # b
                        /\ ~ (p = b + 1 /\ b + 2 <= Len(t) /\ t[b + 2] = "}")
      OBVIOUS
  <2>2. ~ (p = b - 2 /\ p # 0 /\ t[p] = "$") /\ p \notin {b - 1, b} /\ ~ (p = b + 1 /\ At(t, p + 1, <<"}">>))
      BY <2>1, Zenon DEF Cuts
  <2>3. At(t, p + 1, <<"}">>) <=> p + 1 \in 1 .. Len(t) /\ t[p + 1] = "}"
    <3>1. p + 1 \in Int
        BY <1>1
    <3> QED
        BY <3>1, AtOne
  <2>4. p = b + 1 => p + 1 = b + 2 /\ (b + 2 <= Len(t) => p + 1 \in 1 .. Len(t))
      BY <1>1
  <2> QED
      BY <2>2, <2>3, <2>4
<1>8. ASSUME NEW i \in 1 .. p PROVE Restored(t, i) = Restored(u, i)
  <2>1. i \in DOMAIN t /\ i \in DOMAIN u /\ t[i] = u[i] /\ i \in Int
    <3>1. DOMAIN u = 1 .. Len(u)
        BY <1>2, LenProperties
    <3> QED
        BY <1>1, <1>2, <3>1
  <2>2. i \in Bodies(t) <=> i \in Bodies(u)
    <3>1. i \in Int /\ (p # i => i + 1 <= p)
        BY <1>1
    <3> QED
        BY <1>4, <1>7, <3>1
  <2>3. i - 1 \in Bodies(t) <=> i - 1 \in Bodies(u)
    <3>1. i - 1 \in Int /\ (i - 1) + 1 <= p
        BY <1>1
    <3> QED
        BY <1>4, <3>1
  <2>4. i + 1 \in Bodies(t) <=> i + 1 \in Bodies(u)
    <3>1. i + 1 \in Int /\ (p # (i + 1) - 1 /\ p # i + 1 => (i + 1) + 1 <= p)
        BY <1>1
    <3> QED
        BY <1>4, <1>7, <3>1
  <2>5. i + 2 \in Bodies(t) /\ t[i] = "$" <=> i + 2 \in Bodies(u) /\ u[i] = "$"
    <3>1. /\ i # 0 /\ i + 2 \in Int /\ (p = (i + 2) - 2 <=> p = i)
          /\ (p # i /\ p # (i + 2) - 1 /\ p # i + 2 => (i + 2) + 1 <= p)
        BY <1>1
    <3> QED
        BY <1>4, <1>7, <2>1, <3>1
  <2>6. i - 2 \in Bodies(t) /\ t[i] = "}" <=> i - 2 \in Bodies(u) /\ u[i] = "}"
    <3>1. i - 2 \in Int /\ (i - 2) + 1 <= p
        BY <1>1
    <3> QED
        BY <1>4, <2>1, <3>1
  <2>7. Mark(t, i) <=> Mark(u, i)
      BY <2>3, <2>4, <2>5, <2>6 DEF Mark
  <2> QED
      BY <1>2, <2>1, <2>2, <2>7, SamePiece
<1>9. ASSUME NEW i \in 1 .. Len(t) - p PROVE Restored(t, p + i) = Restored(v, i)
  <2>1. p + i \in DOMAIN t /\ i \in DOMAIN v /\ t[p + i] = v[i] /\ i \in Int
    <3>1. DOMAIN v = 1 .. Len(v)
        BY <1>3, LenProperties
    <3> QED
      <4>1. i \in Int /\ p + i \in 1 .. Len(t)
          BY <1>1
      <4> QED
          BY <1>1, <1>3, <3>1, <4>1
  <2>2. p + i \in Bodies(t) <=> i \in Bodies(v)
    <3>1. i + p = p + i /\ (i >= 2 \/ p = (p + i) - 1)
        BY <1>1
    <3>2. i \in Bodies(v) <=> i + p \in Bodies(t) /\ i >= 2
        BY <1>5
    <3>3. p + i \in Bodies(t) => p # (p + i) - 1
      <4>1. p + i \in Int
          BY <1>1
      <4> QED
          BY <1>7, <4>1
    <3> QED
        BY <3>1, <3>2, <3>3
  <2>3. (p + i) - 1 \in Bodies(t) <=> i - 1 \in Bodies(v)
    <3>1. /\ i - 1 \in Int /\ (p + i) - 1 \in Int /\ (i - 1) + p = (p + i) - 1
          /\ (i - 1 >= 2 \/ p = (p + i) - 1 \/ p = ((p + i) - 1) - 1)
        BY <1>1
    <3>2. i - 1 \in Bodies(v) <=> (i - 1) + p \in Bodies(t) /\ i - 1 >= 2
        BY <1>5, <3>1
    <3>3. (p + i) - 1 \in Bodies(t) => p # (p + i) - 1 /\ p # ((p + i) - 1) - 1
        BY <1>7, <3>1
    <3> QED
        BY <3>1, <3>2, <3>3
  <2>4. (p + i) + 1 \in Bodies(t) <=> i + 1 \in Bodies(v)
    <3>1. i + 1 \in Int /\ (i + 1) + p = (p + i) + 1 /\ i + 1 >= 2
        BY <1>1
    <3>2. i + 1 \in Bodies(v) <=> (i + 1) + p \in Bodies(t) /\ i + 1 >= 2
        BY <1>5, <3>1
    <3> QED
        BY <3>1, <3>2
  <2>5. (p + i) + 2 \in Bodies(t) <=> i + 2 \in Bodies(v)
    <3>1. i + 2 \in Int /\ (i + 2) + p = (p + i) + 2 /\ i + 2 >= 2
        BY <1>1
    <3>2. i + 2 \in Bodies(v) <=> (i + 2) + p \in Bodies(t) /\ i + 2 >= 2
        BY <1>5, <3>1
    <3> QED
        BY <3>1, <3>2
  <2>6. (p + i) - 2 \in Bodies(t) /\ t[p + i] = "}" <=> i - 2 \in Bodies(v) /\ v[i] = "}"
    <3> DEFINE b == (p + i) - 2
    <3>1. /\ i - 2 \in Int /\ b \in Int /\ (i - 2) + p = b /\ b + 2 = p + i /\ b + 2 <= Len(t)
          /\ (i - 2 >= 2 \/ p = b + 1 \/ p = b \/ p = b - 1)
        BY <1>1
    <3> HIDE DEF b
    <3>2. i - 2 \in Bodies(v) <=> (i - 2) + p \in Bodies(t) /\ i - 2 >= 2
        BY <1>5, <3>1
    <3>3. b \in Bodies(t) => p # b - 1 /\ p # b /\ ~ (p = b + 1 /\ b + 2 <= Len(t) /\ t[b + 2] = "}")
        BY <1>7, <3>1
    <3>4. b \in Bodies(t) /\ t[p + i] = "}" <=> i - 2 \in Bodies(v) /\ v[i] = "}"
        BY <2>1, <3>1, <3>2, <3>3
    <3> QED
        BY <3>4 DEF b
  <2>7. Mark(t, p + i) <=> Mark(v, i)
      BY <2>1, <2>3, <2>4, <2>5, <2>6 DEF Mark
  <2> QED
    <3>1. PICK j \in DOMAIN t : j = p + i
        BY <2>1
    <3>2. v \in Seq(Lexemes) /\ i \in DOMAIN v
        BY <1>3, <2>1
    <3>3. (j \in Bodies(t) <=> i \in Bodies(v)) /\ (Mark(t, j) <=> Mark(v, i)) /\ t[j] = v[i]
        BY <2>1, <2>2, <2>7, <3>1
    <3>4. Restored(t, j) = Restored(v, i)
        BY <3>2, <3>3, SamePiece
    <3> QED
        BY <3>1, <3>4
<1> DEFINE a == Pieces(t)
           c == Pieces(u)
           d == Pieces(v)
<1>10. /\ a \in Seq(Seq(Out)) /\ Len(a) = Len(t) /\ c \in Seq(Seq(Out)) /\ Len(c) = p
       /\ d \in Seq(Seq(Out)) /\ Len(d) = Len(t) - p
    BY <1>2, <1>3, PiecesType
<1>11. \A i \in 1 .. p : a[i] = c[i]
  <2>1. TAKE i \in 1 .. p
  <2>2. DOMAIN u = 1 .. p /\ i \in DOMAIN t
      BY <1>1, <1>2, LenProperties
  <2>3. a[i] = Restored(t, i) /\ c[i] = Restored(u, i)
      BY <2>2 DEF Pieces
  <2> QED
      BY <1>8, <2>3
<1>12. \A i \in 1 .. Len(t) - p : a[p + i] = d[i]
  <2>1. TAKE i \in 1 .. Len(t) - p
  <2>2. DOMAIN v = 1 .. Len(t) - p /\ p + i \in DOMAIN t
    <3>1. DOMAIN v = 1 .. Len(v)
        BY <1>3, LenProperties
    <3>2. p + i \in 1 .. Len(t)
        BY <1>1
    <3> QED
        BY <1>1, <1>3, <3>1, <3>2
  <2>3. a[p + i] = Restored(t, p + i) /\ d[i] = Restored(v, i)
      BY <2>2 DEF Pieces
  <2> QED
      BY <1>9, <2>3
<1> HIDE DEF a, c, d
<1>13. a = c \o d
  <2>1. /\ c \o d \in Seq(Seq(Out)) /\ Len(c \o d) = Len(t)
        /\ \A i \in 1 .. Len(t) : (c \o d)[i] = IF i <= p THEN c[i] ELSE d[i - p]
    <3>1. /\ c \o d \in Seq(Seq(Out)) /\ Len(c \o d) = Len(c) + Len(d)
          /\ \A i \in 1 .. Len(c) + Len(d) : (c \o d)[i] = IF i <= Len(c) THEN c[i] ELSE d[i - Len(c)]
        BY <1>10, ConcatProperties, SMTT(30)
    <3>2. Len(c) + Len(d) = Len(t) /\ Len(c) = p
        BY <1>1, <1>10
    <3> QED
        BY <3>1, <3>2
  <2>2. ASSUME NEW i \in 1 .. Len(t) PROVE a[i] = (c \o d)[i]
    <3>1. CASE i <= p
      <4>1. i \in 1 .. p
          BY <1>1, <3>1
      <4> QED
          BY <1>11, <2>1, <3>1, <4>1
    <3>2. CASE ~ i <= p
      <4>1. i - p \in 1 .. Len(t) - p /\ p + (i - p) = i
          BY <1>1, <3>2
      <4>2. a[p + (i - p)] = d[i - p]
          BY <1>12, <4>1
      <4> QED
          BY <2>1, <3>2, <4>1, <4>2
    <3> QED
        BY <3>1, <3>2
  <2> QED
      BY <1>10, <2>1, <2>2, SeqEqual
<1> QED
    BY <1>2, <1>3, <1>13 DEF a, c, d
\* Every body has its "$", or the type alone has RestoreAll look for it.
Recognised(t) == IsCred \/ \A b \in Bodies(t) : At(t, b - 2, <<"$">>)

\* A text that is not normalised has no body.
LEMMA RestoreAllIs ==
    ASSUME NEW t \in Seq(Lexemes), Recognised(t)
    PROVE  RestoreAll(t) = FlattenSeq(Pieces(t))
<1>1. DOMAIN t = 1 .. Len(t) /\ Len(t) \in Nat
    BY LenProperties
<1>2. CASE Normalizes(t)
    BY <1>2 DEF RestoreAll, Pieces
<1>3. CASE ~ Normalizes(t)
  <2>1. ASSUME NEW b \in Bodies(t) PROVE FALSE
    <3>1. b \in DOMAIN t
        BY Zenon DEF Bodies
    <3>2. b \in Int /\ b - 2 \in Int
        BY <1>1, <3>1
    <3>3. t[b - 1] = "{" /\ t[b] = "B"
        BY <3>2, BodyAt
    <3>6. b \in 2 .. Len(t) - 1
        BY <3>2, BodyAt
    <3>7. b <= Len(t) - 1
        BY <1>1, <3>6
    <3>4. CASE IsCred
      <4>1. At(t, b, <<"B">>)
          BY <1>1, <3>1, <3>2, <3>3, AtOne
      <4> QED
          BY <1>3, <3>1, <3>4, <4>1 DEF Normalizes, Has
    <3>5. CASE ~ IsCred
      <4>1. At(t, b - 2, <<"$">>)
          BY <3>5 DEF Recognised
      <4>2. b - 2 \in 1 .. Len(t) /\ t[b - 2] = "$"
          BY <3>2, <4>1, AtOne
      <4>3. b - 2 \in 1 .. Len(t) - 1 /\ (b - 2) + 1 = b - 1
        <5>1. b - 2 >= 1
            BY <3>2, <4>2
        <5> QED
            BY <1>1, <3>2, <3>7, <5>1
      <4>4. At(t, b - 2, <<"$", "{">>)
        <5>1. t[(b - 2) + 1] = "{"
            BY <3>3, <4>3
        <5> QED
            BY <3>2, <4>2, <4>3, <5>1, AtTwo, ZenonT(30)
      <4> QED
          BY <1>1, <1>3, <4>2, <4>4 DEF Normalizes, Has
    <3> QED
        BY <3>4, <3>5
  <2>2. ASSUME NEW i \in DOMAIN t PROVE Restored(t, i) = <<t[i]>>
    <3>1. i \notin Bodies(t) /\ ~ Mark(t, i)
        BY <2>1 DEF Mark
    <3> QED
        BY <3>1, RestoredCases
  <2>3. Pieces(t) = [i \in DOMAIN t |-> <<t[i]>>]
      BY <2>2 DEF Pieces
  <2>4. FlattenSeq(Pieces(t)) = t
      BY <2>3, FlattenSingles
  <2> QED
      BY <1>3, <2>4 DEF RestoreAll
<1> QED
    BY <1>2, <1>3

\* Text is restored to text.
LEMMA RestoreAllType ==
    ASSUME NEW t \in Seq(Lexemes)
    PROVE  RestoreAll(t) \in Seq(Out)
<1>1. FlattenSeq(Pieces(t)) \in Seq(Out)
    BY PiecesType, FlattenType
<1>2. t \in Seq(Out)
  <2>1. Lexemes \subseteq Out
      BY DEF Out
  <2> QED
      BY <2>1, SeqMonotonic
<1> QED
    BY <1>1, <1>2 DEF RestoreAll, Pieces

LEMMA SplitRestore ==
    ASSUME NEW t \in Seq(Lexemes), NEW p \in 0 .. Len(t), ~ Cuts(t, p), Recognised(t)
    PROVE  RestoreAll(t) = RestoreAll(SubSeq(t, 1, p)) \o RestoreAll(SubSeq(t, p + 1, Len(t)))
<1>1. Len(t) \in Nat /\ DOMAIN t = 1 .. Len(t) /\ p \in Int
    BY LenProperties
<1>2. PICK u : /\ u \in Seq(Lexemes) /\ Len(u) = p /\ u = SubSeq(t, 1, p)
               /\ \A k \in 1 .. p : u[k] = t[k]
  <2>1. PICK u \in Seq(Lexemes) : StartIs(u, t, p)
      BY StartOf, Zenon
  <2>2. /\ u \in Seq(Lexemes) /\ Len(u) = p /\ u = SubSeq(t, 1, p)
        /\ \A k \in 1 .. p : u[k] = t[k]
      BY <2>1, Zenon DEF StartIs
  <2> QED
      BY <2>2, Zenon
<1>3. PICK v : /\ v \in Seq(Lexemes) /\ Len(v) = Len(t) - p /\ v = SubSeq(t, p + 1, Len(t))
               /\ \A k \in 1 .. Len(t) - p : v[k] = t[p + k]
  <2>0. Len(t) \in 0 .. Len(t)
      BY <1>1
  <2>1. PICK v \in Seq(Lexemes) : PartIs(v, t, p, Len(t))
      BY <2>0, Between, Zenon
  <2>2. /\ v \in Seq(Lexemes) /\ Len(v) = Len(t) - p /\ v = SubSeq(t, p + 1, Len(t))
        /\ \A k \in 1 .. Len(t) - p : v[k] = t[p + k]
      BY <2>1, Zenon DEF PartIs
  <2> QED
      BY <2>2, Zenon
<1>4. \A b \in Int : b \in Bodies(u) <=> b \in Bodies(t) /\ b + 1 <= p
    BY <1>2, BodiesOfParts
<1>5. \A b \in Int : b \in Bodies(v) <=> b + p \in Bodies(t) /\ b >= 2
    BY <1>3, BodiesOfParts
<1>6. Recognised(u)
  <2>1. SUFFICES ASSUME ~ IsCred, NEW b \in Bodies(u) PROVE At(u, b - 2, <<"$">>)
      BY DEF Recognised
  <2>2. b \in Int
    <3>1. b \in DOMAIN u /\ DOMAIN u = 1 .. Len(u)
        BY <1>2, LenProperties, Zenon DEF Bodies
    <3> QED
        BY <1>2, <3>1
  <2>3. b \in Bodies(t) /\ b + 1 <= p
      BY <1>4, <2>1, <2>2
  <2>4. At(t, b - 2, <<"$">>)
      BY <2>1, <2>3 DEF Recognised
  <2>5. b - 2 \in Int /\ b - 2 \in 1 .. Len(t) /\ t[b - 2] = "$"
    <3>1. b - 2 \in Int
        BY <2>2
    <3> QED
        BY <2>4, <3>1, AtOne
  <2>6. b - 2 \in 1 .. p
      BY <1>1, <2>2, <2>3, <2>5
  <2>7. b - 2 \in 1 .. Len(u) /\ u[b - 2] = "$"
      BY <1>2, <2>5, <2>6
  <2> QED
      BY <1>2, <2>5, <2>7, AtOne
<1>7. Recognised(v)
  <2>1. SUFFICES ASSUME ~ IsCred, NEW b \in Bodies(v) PROVE At(v, b - 2, <<"$">>)
      BY DEF Recognised
  <2>2. b \in Int
    <3>1. b \in DOMAIN v /\ DOMAIN v = 1 .. Len(v)
        BY <1>3, LenProperties, Zenon DEF Bodies
    <3> QED
        BY <3>1
  <2>3. b + p \in Bodies(t) /\ b >= 2
      BY <1>5, <2>1, <2>2
  <2>4. At(t, (b + p) - 2, <<"$">>)
      BY <2>1, <2>3 DEF Recognised
  <2>5. (b + p) - 2 \in 1 .. Len(t) /\ t[(b + p) - 2] = "$"
    <3>1. (b + p) - 2 \in Int
        BY <1>1, <2>2
    <3> QED
        BY <2>4, <3>1, AtOne
  <2>6. b # 2
    <3>1. SUFFICES ASSUME b = 2 PROVE FALSE
        OBVIOUS
    <3>2. p = (b + p) - 2
        BY <1>1, <3>1
    <3>3. t[p] = "$" /\ p # 0
        BY <1>1, <2>5, <3>2
    <3> QED
        BY <2>3, <3>2, <3>3 DEF Cuts
  <2>7. b - 2 \in 1 .. Len(t) - p /\ p + (b - 2) = (b + p) - 2
      BY <1>1, <2>2, <2>3, <2>5, <2>6
  <2>8. b - 2 \in Int /\ b - 2 \in 1 .. Len(v) /\ v[b - 2] = "$"
    <3>1. b - 2 \in Int
        BY <2>2
    <3>2. v[b - 2] = t[p + (b - 2)]
        BY <1>3, <2>7
    <3>3. v[b - 2] = "$"
        BY <2>5, <2>7, <3>2
    <3> QED
        BY <1>3, <2>7, <3>1, <3>3
  <2> QED
      BY <1>3, <2>8, AtOne
<1>8. Pieces(t) = Pieces(u) \o Pieces(v)
    BY <1>2, <1>3, SplitPieces
<1>9. RestoreAll(u) = FlattenSeq(Pieces(u)) /\ RestoreAll(v) = FlattenSeq(Pieces(v))
    BY <1>2, <1>3, <1>6, <1>7, RestoreAllIs
<1>10. FlattenSeq(Pieces(u) \o Pieces(v)) = FlattenSeq(Pieces(u)) \o FlattenSeq(Pieces(v))
  <2>1. Pieces(u) \in Seq(Seq(Out)) /\ Pieces(v) \in Seq(Seq(Out))
      BY <1>2, <1>3, PiecesType
  <2> QED
      BY <2>1, FlattenConcat
<1>11. RestoreAll(t) = RestoreAll(u) \o RestoreAll(v)
    BY <1>8, <1>9, <1>10, RestoreAllIs
<1> QED
    BY <1>2, <1>3, <1>11
\* A cut that separates a body from its marks in the beginning of a text does so in the text.
LEMMA CutsOfStart ==
    ASSUME NEW t \in Seq(Lexemes), NEW q \in 0 .. Len(t), NEW p \in 0 .. q, ~ Cuts(t, p)
    PROVE  ~ Cuts(SubSeq(t, 1, q), p)
<1>1. Len(t) \in Nat /\ p \in Int /\ q \in Int
    BY LenProperties
<1>2. PICK u : /\ u \in Seq(Lexemes) /\ Len(u) = q /\ u = SubSeq(t, 1, q)
               /\ \A k \in 1 .. q : u[k] = t[k]
  <2>1. PICK u \in Seq(Lexemes) : StartIs(u, t, q)
      BY StartOf, Zenon
  <2>2. /\ u \in Seq(Lexemes) /\ Len(u) = q /\ u = SubSeq(t, 1, q)
        /\ \A k \in 1 .. q : u[k] = t[k]
      BY <2>1, Zenon DEF StartIs
  <2> QED
      BY <2>2, Zenon
<1>3. SUFFICES ASSUME Cuts(u, p) PROVE FALSE
    BY <1>2, Zenon
<1>4. PICK b \in Bodies(u) :
          \/ p = b - 2 /\ p # 0 /\ u[p] = "$"
          \/ p \in {b - 1, b}
          \/ p = b + 1 /\ At(u, p + 1, <<"}">>)
    BY <1>3, Zenon DEF Cuts
<1>5. b \in Int /\ b \in 2 .. q - 1
  <2>1. b \in DOMAIN u /\ DOMAIN u = 1 .. Len(u)
      BY <1>2, LenProperties, Zenon DEF Bodies
  <2>2. b \in Int
      BY <1>2, <2>1
  <2> QED
      BY <1>2, <2>2, BodyAt
<1>6. b \in Bodies(t)
    BY <1>2, <1>5, BodiesOfParts
<1>7. CASE p = b - 2 /\ p # 0 /\ u[p] = "$"
  <2>1. p \in 1 .. q
    <3>1. p # 0
        BY <1>7, Zenon
    <3> QED
        BY <1>1, <3>1
  <2>2. t[p] = "$"
      BY <1>2, <1>7, <2>1
  <2> QED
      BY <1>6, <1>7, <2>2 DEF Cuts
<1>8. CASE p \in {b - 1, b}
    BY <1>6, <1>8 DEF Cuts
<1>9. CASE p = b + 1 /\ At(u, p + 1, <<"}">>)
  <2>1. p + 1 \in Int
      BY <1>1
  <2>2. p + 1 \in 1 .. Len(u) /\ u[p + 1] = "}"
      BY <1>2, <1>9, <2>1, AtOne
  <2>3. p + 1 \in 1 .. Len(t) /\ t[p + 1] = "}"
    <3>1. p + 1 \in 1 .. q /\ p + 1 \in 1 .. Len(t)
      <4>1. p + 1 \in 1 .. q
          BY <1>2, <2>2, Zenon
      <4> QED
          BY <1>1, <4>1
    <3>2. u[p + 1] = t[p + 1]
        BY <1>2, <3>1
    <3> QED
        BY <2>2, <3>1, <3>2
  <2>4. At(t, p + 1, <<"}">>)
      BY <2>1, <2>3, AtOne
  <2> QED
      BY <1>6, <1>9, <2>4 DEF Cuts
<1> QED
    BY <1>4, <1>7, <1>8, <1>9
\* What RestoreAll looks for in a text it finds in its beginning as well.
LEMMA RecognisedStart ==
    ASSUME NEW t \in Seq(Lexemes), NEW q \in 0 .. Len(t), Recognised(t)
    PROVE  Recognised(SubSeq(t, 1, q))
<1>1. Len(t) \in Nat /\ q \in Int
    BY LenProperties
<1>2. PICK u \in Seq(Lexemes) : StartIs(u, t, q)
    BY StartOf, Zenon
<1>3. Len(u) = q /\ u = SubSeq(t, 1, q) /\ \A k \in 1 .. q : u[k] = t[k]
    BY <1>2, Zenon DEF StartIs
<1>4. SUFFICES ASSUME ~ IsCred, NEW b \in Bodies(u) PROVE At(u, b - 2, <<"$">>)
    BY <1>3, Zenon DEF Recognised
<1>5. b \in Int
  <2>1. b \in DOMAIN u /\ DOMAIN u = 1 .. Len(u)
      BY LenProperties, Zenon DEF Bodies
  <2> QED
      BY <1>3, <2>1
<1>6. b \in Bodies(t) /\ b + 1 <= q
    BY <1>3, <1>5, BodiesOfParts
<1>7. At(t, b - 2, <<"$">>)
    BY <1>4, <1>6 DEF Recognised
<1>8. b - 2 \in Int
    BY <1>5
<1>9. b - 2 \in 1 .. Len(t) /\ t[b - 2] = "$"
    BY <1>7, <1>8, AtOne
<1>10. b - 2 \in 1 .. q
  <2>1. b - 2 >= 1
      BY <1>8, <1>9
  <2> QED
      BY <1>1, <1>5, <1>6, <2>1
<1>11. b - 2 \in 1 .. Len(u) /\ u[b - 2] = "$"
    BY <1>3, <1>9, <1>10
<1> QED
    BY <1>8, <1>11, AtOne

\* A text may be restored up to one place and from there to another, where no body is cut.
LEMMA RestoreStep ==
    ASSUME NEW t \in Seq(Lexemes), Recognised(t), NEW q \in 0 .. Len(t), NEW p \in 0 .. q, ~ Cuts(t, p)
    PROVE  RestoreAll(SubSeq(t, 1, p)) \o RestoreAll(SubSeq(t, p + 1, q)) = RestoreAll(SubSeq(t, 1, q))
<1>1. Len(t) \in Nat /\ q \in Int /\ p \in Int
    BY LenProperties
<1>2. PICK u \in Seq(Lexemes) : StartIs(u, t, q)
    BY StartOf, Zenon
<1>3. Len(u) = q /\ u = SubSeq(t, 1, q)
    BY <1>2, Zenon DEF StartIs
<1>4. p \in 0 .. Len(u) /\ Recognised(u) /\ ~ Cuts(u, p)
  <2>1. Recognised(u)
      BY <1>3, RecognisedStart
  <2>2. ~ Cuts(u, p)
      BY <1>3, CutsOfStart
  <2> QED
      BY <1>3, <2>1, <2>2
<1>5. RestoreAll(u) = RestoreAll(SubSeq(u, 1, p)) \o RestoreAll(SubSeq(u, p + 1, Len(u)))
    BY <1>4, SplitRestore
<1>6. SubSeq(u, 1, p) = SubSeq(t, 1, p)
  <2>1. 1 \in 1 .. Len(t) + 1 /\ q \in (1 - 1) .. Len(t) /\ 1 \in 1 .. (q - 1 + 2)
        /\ p \in (1 - 1) .. (q - 1 + 1) /\ 1 = 1 + 1 - 1 /\ p = 1 + p - 1
      BY <1>1
  <2> QED
      BY <1>3, <2>1, PartOfPart
<1>7. SubSeq(u, p + 1, q) = SubSeq(t, p + 1, q)
  <2>1. 1 \in 1 .. Len(t) + 1 /\ q \in (1 - 1) .. Len(t) /\ p + 1 \in 1 .. (q - 1 + 2)
        /\ q \in ((p + 1) - 1) .. (q - 1 + 1) /\ p + 1 = 1 + (p + 1) - 1 /\ q = 1 + q - 1
      BY <1>1
  <2> DEFINE m == p + 1
  <2>2. m \in 1 .. (q - 1 + 2) /\ q \in (m - 1) .. (q - 1 + 1) /\ m = 1 + m - 1
      BY <2>1
  <2> HIDE DEF m
  <2>3. SubSeq(SubSeq(t, 1, q), m, q) = SubSeq(t, m, q)
      BY <2>1, <2>2, PartOfPart
  <2> QED
      BY <1>3, <2>3 DEF m
<1> QED
    BY <1>3, <1>5, <1>6, <1>7

----------------------------------------------------------------------------
(* The end that is held back.                                              *)

\* The last "$" of a text that has one.
LEMMA LastDollarAt ==
    ASSUME NEW t \in Seq(Lexemes), NEW i \in 1 .. Len(t), t[i] = "$", \A j \in i + 1 .. Len(t) : t[j] # "$"
    PROVE  LastDollar(t) = i
<1>1. Len(t) \in Nat /\ DOMAIN t = 1 .. Len(t)
    BY LenProperties
<1>2. ASSUME NEW k \in DOMAIN t, t[k] = "$", \A j \in k + 1 .. Len(t) : t[j] # "$" PROVE k = i
  <2>1. k \in Int /\ i \in Int /\ k <= Len(t) /\ i <= Len(t)
      BY <1>1
  <2>2. ~ (k < i)
    <3>1. SUFFICES ASSUME k < i PROVE FALSE
        OBVIOUS
    <3>2. i \in k + 1 .. Len(t)
        BY <1>1, <2>1, <3>1
    <3> QED
        BY <1>2, <3>2
  <2>3. ~ (i < k)
    <3>1. SUFFICES ASSUME i < k PROVE FALSE
        OBVIOUS
    <3>2. k \in i + 1 .. Len(t)
        BY <1>1, <2>1, <3>1
    <3> QED
        BY <1>2, <3>2
  <2> QED
      BY <2>1, <2>2, <2>3
<1>3. i \in DOMAIN t
    BY <1>1
<1> DEFINE P(k) == t[k] = "$" /\ \A j \in (k + 1) .. Len(t) : t[j] # "$"
<1>4. P(i) /\ \A k \in DOMAIN t : P(k) => k = i
    BY <1>2
<1>5. LastDollar(t) = CHOOSE k \in DOMAIN t : P(k)
    BY DEF LastDollar
<1> HIDE DEF P
<1> QED
    BY <1>3, <1>4, <1>5

\* A text with a "$" has a last one.
LEMMA HasLastDollar ==
    ASSUME NEW t \in Seq(Lexemes), Has(t, <<"$">>)
    PROVE  \E i \in 1 .. Len(t) : t[i] = "$" /\ \A j \in i + 1 .. Len(t) : t[j] # "$"
<1>1. Len(t) \in Nat /\ DOMAIN t = 1 .. Len(t)
    BY LenProperties
<1>2. PICK k \in 1 .. Len(t) : t[k] = "$"
  <2>1. PICK k \in DOMAIN t : At(t, k, <<"$">>)
      BY Zenon DEF Has
  <2>2. k \in Int
      BY <1>1, <2>1
  <2> QED
      BY <2>1, <2>2, AtOne
<1> DEFINE T == {n \in 0 .. Len(t) - 1 : t[Len(t) - n] = "$"}
<1>3. T \subseteq Nat
    BY <1>1
<1>4. T # {}
  <2>1. Len(t) - k \in 0 .. Len(t) - 1 /\ Len(t) - (Len(t) - k) = k
      BY <1>1
  <2>2. Len(t) - k \in T
      BY <1>2, <2>1
  <2> QED
      BY <2>2
<1>5. PICK n \in T : \A m \in T : n <= m
  <2> HIDE DEF T
  <2> QED
      BY <1>3, <1>4, LeastNumber
<1>6. n \in 0 .. Len(t) - 1 /\ t[Len(t) - n] = "$"
    BY <1>5
<1>7. Len(t) - n \in 1 .. Len(t)
    BY <1>1, <1>6
<1>8. ASSUME NEW j \in (Len(t) - n) + 1 .. Len(t), t[j] = "$" PROVE FALSE
  <2>1. Len(t) - j \in 0 .. Len(t) - 1 /\ Len(t) - (Len(t) - j) = j /\ Len(t) - j < n
      BY <1>1, <1>6
  <2>2. Len(t) - j \in T
      BY <1>8, <2>1
  <2>3. n <= Len(t) - j
      BY <1>5, <2>2
  <2> QED
      BY <1>1, <1>6, <2>1, <2>3
<1> QED
    BY <1>6, <1>7, <1>8
\* The last "$" of a text is at i and opens a placeholder.
Opens(t, i) == t[i] = "$" /\ t[i + 1] = "{" /\ \A j \in i + 1 .. Len(t) : t[j] # "$"

\* An incomplete placeholder at the end of a text is where it is cut.
LEMMA CutHolds ==
    ASSUME NEW t \in Seq(Lexemes), NEW i \in 1 .. Len(t) - 1, Opens(t, i), Len(t) <= i + 3
    PROVE  CutIdx(t) = i - 1
<1>0. Len(t) \in Nat /\ DOMAIN t = 1 .. Len(t)
    BY LenProperties
<1>1. i \in Int /\ i \in 1 .. Len(t)
    BY <1>0
<1>2. LastDollar(t) = i
  <2>1. t[i] = "$" /\ \A j \in i + 1 .. Len(t) : t[j] # "$"
      BY Zenon DEF Opens
  <2> QED
      BY <1>1, <2>1, LastDollarAt, Zenon
<1>3. Has(t, <<"$">>)
  <2>1. At(t, i, <<"$">>)
    <3>1. t[i] = "$"
        BY Zenon DEF Opens
    <3> QED
        BY <1>1, <3>1, AtOne
  <2> QED
      BY <1>0, <1>1, <2>1, Zenon DEF Has
<1> DEFINE u == SubSeq(t, i, Len(t))
<1>4. u \in Seq(Lexemes) /\ Len(u) = Len(t) - i + 1 /\ \A k \in 1 .. (Len(t) - i + 1) : u[k] = t[i + k - 1]
  <2>1. i \in 1 .. Len(t) + 1 /\ Len(t) \in (i - 1) .. Len(t)
      BY <1>0, <1>1
  <2> QED
      BY <2>1, Part
<1> HIDE DEF u
<1>5. At(u, 1, <<"$", "{">>)
  <2>1. /\ 1 \in 1 .. (Len(t) - i + 1) /\ 2 \in 1 .. (Len(t) - i + 1)
        /\ i + 1 - 1 = i /\ i + 2 - 1 = i + 1 /\ 1 + 1 = 2
      BY <1>0, <1>1
  <2>2. u[1] = t[i + 1 - 1] /\ u[2] = t[i + 2 - 1]
      BY <1>4, <2>1
  <2>3. t[i] = "$" /\ t[i + 1] = "{"
      BY Zenon DEF Opens
  <2>4. u[1] = "$" /\ u[1 + 1] = "{"
      BY <2>1, <2>2, <2>3
  <2>5. 1 \in Int /\ 1 \in 1 .. Len(u) - 1
    <3>1. Len(u) = Len(t) - i + 1
        BY <1>4
    <3> QED
        BY <1>0, <1>1, <3>1
  <2>6. u \in Seq(Lexemes)
      BY <1>4
  <2> QED
      BY <2>4, <2>5, <2>6, AtTwo, Zenon
<1>6. ~ At(u, 1, Placeholder)
  <2>1. u \in Seq(Lexemes) /\ Len(u) = Len(t) - i + 1
      BY <1>4
  <2>2. 1 \in Int /\ 1 \notin 1 .. Len(u) - 4
      BY <1>0, <1>1, <2>1
  <2> QED
      BY <2>1, <2>2, AtPlaceholder, Zenon
<1>7. isPartialPlaceholder(u)
    BY <1>5, <1>6 DEF isPartialPlaceholder
<1> QED
    BY <1>2, <1>3, <1>7 DEF CutIdx, u

\* All of a text can be sent, or its end begins with its only "$", opens a placeholder
\* and holds no whole one.
LEMMA CutIdxIs ==
    ASSUME NEW t \in Seq(Lexemes)
    PROVE  \/ CutIdx(t) = Len(t)
           \/ \E i \in 1 .. Len(t) - 1 :
                 /\ CutIdx(t) = i - 1 /\ Opens(t, i)
                 /\ ~ Has(SubSeq(t, i, Len(t)), Placeholder)
<1>1. Len(t) \in Nat
    BY LenProperties
<1>2. CASE Has(t, <<"$">>)
  <2>1. PICK i \in 1 .. Len(t) : t[i] = "$" /\ \A j \in i + 1 .. Len(t) : t[j] # "$"
      BY <1>2, HasLastDollar
  <2>2. LastDollar(t) = i
      BY <2>1, LastDollarAt
  <2> DEFINE u == SubSeq(t, i, Len(t))
  <2>3. u \in Seq(Lexemes) /\ Len(u) = Len(t) - i + 1 /\ \A k \in 1 .. (Len(t) - i + 1) : u[k] = t[i + k - 1]
    <3>1. i \in 1 .. Len(t) + 1 /\ Len(t) \in (i - 1) .. Len(t)
        BY <1>1
    <3> QED
        BY <3>1, Part
  <2> HIDE DEF u
  <2>4. CutIdx(t) = IF isPartialPlaceholder(u) THEN i - 1 ELSE Len(t)
      BY <1>2, <2>2 DEF CutIdx, u
  <2>5. CASE ~ isPartialPlaceholder(u)
      BY <2>4, <2>5
  <2>6. CASE isPartialPlaceholder(u)
    <3>1. CutIdx(t) = i - 1
        BY <2>4, <2>6
    <3>2. At(u, 1, <<"$", "{">>) /\ ~ At(u, 1, Placeholder)
        BY <2>6 DEF isPartialPlaceholder
    <3>3. 1 \in 1 .. Len(u) - 1 /\ u[1 + 1] = "{"
      <4>1. 1 \in Int /\ u \in Seq(Lexemes)
          BY <2>3
      <4> QED
          BY <3>2, <4>1, AtTwo, Zenon
    <3>6. 1 \in 1 .. Len(u) - 1
        BY <3>3
    <3>4. i \in 1 .. Len(t) - 1 /\ t[i + 1] = "{"
      <4>1. 2 <= Len(t) - i + 1
        <5>1. Len(u) = Len(t) - i + 1
            BY <2>3
        <5> QED
            BY <1>1, <3>6, <5>1
      <4>2. i \in 1 .. Len(t) - 1 /\ 2 \in 1 .. (Len(t) - i + 1) /\ i + 2 - 1 = i + 1 /\ 1 + 1 = 2
          BY <1>1, <4>1
      <4>3. u[2] = t[i + 2 - 1]
          BY <2>3, <4>2
      <4> QED
          BY <3>3, <4>2, <4>3
    <3>5. ~ Has(u, Placeholder)
      <4>1. SUFFICES ASSUME NEW k \in DOMAIN u, At(u, k, Placeholder) PROVE FALSE
          BY Zenon DEF Has
      <4>2. DOMAIN u = 1 .. Len(u)
          BY <2>3, LenProperties
      <4>3. k \in Int /\ k \in 1 .. (Len(t) - i + 1)
          BY <2>3, <4>1, <4>2
      <4>4. u[k] = "$"
          BY <2>3, <4>1, <4>3, AtPlaceholder
      <4>5. t[i + k - 1] = "$"
          BY <2>3, <4>3, <4>4
      <4>6. k = 1 \/ i + k - 1 \in i + 1 .. Len(t)
          BY <1>1, <4>3
      <4>7. k = 1
          BY <2>1, <4>5, <4>6
      <4> QED
          BY <3>2, <4>1, <4>7
    <3>7. Opens(t, i)
        BY <2>1, <3>4, Zenon DEF Opens
    <3> QED
        BY <3>1, <3>4, <3>5, <3>7, Zenon DEF u
  <2> QED
      BY <2>5, <2>6
<1>3. CASE ~ Has(t, <<"$">>)
    BY <1>3 DEF CutIdx
<1> QED
    BY <1>2, <1>3
----------------------------------------------------------------------------
(* What is held back is an end of what was received.                       *)

\* How much of the answer was restored and sent.
SentLength == read - Len(pendingSuffix)

StreamTypes ==
    /\ field \in {"content", "arguments"}
    /\ cutInside \in BOOLEAN
    /\ answer \in Answers
    /\ read \in 0 .. Len(answer)
    /\ sent \in Seq(Out)
    /\ phase \in {"open", "done", "closed"}
    /\ SentLength \in 0 .. read
    /\ pendingSuffix = SubSeq(answer, SentLength + 1, read)
    /\ phase = "done" \/ field = "arguments" => SentLength = read

LEMMA AnswerType ==
    ASSUME StreamTypes
    PROVE  answer \in Seq(Lexemes) /\ Len(answer) \in Nat /\ read \in Nat /\ SentLength \in Nat
<1>1. answer \in Seq(Lexemes)
    BY StreamAssumption DEF StreamTypes
<1>2. Len(answer) \in Nat
    BY <1>1, LenProperties
<1> QED
    BY <1>1, <1>2 DEF StreamTypes

\* How much was sent follows from what is held back.
LEMMA HeldLength ==
    ASSUME NEW a \in Seq(Lexemes), NEW r \in 0 .. Len(a), NEW q \in 0 .. r
    PROVE  /\ SubSeq(a, q + 1, r) \in Seq(Lexemes)
           /\ r - Len(SubSeq(a, q + 1, r)) = q
           /\ q = r => SubSeq(a, q + 1, r) = <<>>
<1>1. Len(a) \in Nat /\ r \in Int /\ q \in Int
    BY LenProperties
<1>2. PICK u \in Seq(Lexemes) : PartIs(u, a, q, r)
    BY Between, Zenon
<1>3. Len(u) = r - q /\ u = SubSeq(a, q + 1, r)
    BY <1>2, Zenon DEF PartIs
<1>4. r - Len(u) = q
    BY <1>1, <1>3
<1>5. q = r => u = <<>>
  <2>1. SUFFICES ASSUME q = r PROVE u = <<>>
      OBVIOUS
  <2>2. Len(u) = 0
      BY <1>1, <1>3, <2>1
  <2> QED
      BY <2>2, EmptySeq
<1> QED
    BY <1>3, <1>4, <1>5

\* A chunk moves the place up to which the answer was sent.
Moves(q, t) ==
    /\ q \in SentLength .. read'
    /\ PartIs(t, answer, SentLength, read')
    /\ CutIdx(t) = q - SentLength
    /\ sent' = sent \o RestoreAll(SubSeq(answer, SentLength + 1, q))
    /\ pendingSuffix' = SubSeq(answer, q + 1, read')
    /\ SentLength' = q

LEMMA ChunkMoves ==
    ASSUME StreamTypes, NEW k \in 1 .. Len(answer), Chunk(k)
    PROVE  /\ read' = read + k /\ read' \in 0 .. Len(answer)
           /\ \E q \in Int : \E t \in Seq(Lexemes) : Moves(q, t)
<1>1. answer \in Seq(Lexemes) /\ Len(answer) \in Nat /\ read \in Nat /\ SentLength \in Nat
    BY AnswerType
<1>2. read' = read + k /\ read + k <= Len(answer)
    BY DEF Chunk
<1> DEFINE r == read + k
           p == SentLength
<1>3. r \in 0 .. Len(answer) /\ p \in 0 .. r /\ read \in p .. r
  <2>1. SentLength \in 0 .. read
      BY DEF StreamTypes
  <2> QED
      BY <1>1, <1>2, <2>1
<1>4. SubSeq(answer, p + 1, read) \o SubSeq(answer, read + 1, r) = SubSeq(answer, p + 1, r)
  <2> DEFINE m == p + 1
  <2>1. m \in 1 .. Len(answer) + 1 /\ read \in m - 1 .. Len(answer) /\ r \in read .. Len(answer)
      BY <1>1, <1>3
  <2> HIDE DEF m, r
  <2>2. SubSeq(answer, m, read) \o SubSeq(answer, read + 1, r) = SubSeq(answer, m, r)
      BY <1>1, <2>1, ConcatAdjacentSubSeq
  <2> QED
      BY <2>2 DEF m
<1> HIDE DEF r, p
<1>5. PICK t \in Seq(Lexemes) : PartIs(t, answer, p, r)
    BY <1>1, <1>3, Between, Zenon
<1>6. Len(t) = r - p /\ t = SubSeq(answer, p + 1, r)
    BY <1>5, Zenon DEF PartIs
<1> DEFINE c == CutIdx(t)
           q == p + c
<1>7. r \in Int /\ p \in Int /\ c \in 0 .. Len(t) /\ q \in p .. r /\ q - p = c
  <2>1. r \in Int /\ p \in Int /\ Len(t) \in Nat
      BY <1>1, <1>3, LenProperties
  <2>2. c \in 0 .. Len(t)
    <3>1. CASE CutIdx(t) = Len(t)
        BY <2>1, <3>1
    <3>2. CASE CutIdx(t) # Len(t)
      <4>1. PICK i \in 1 .. Len(t) - 1 : CutIdx(t) = i - 1
          BY <3>2, CutIdxIs, Zenon
      <4> QED
          BY <2>1, <4>1
    <3> QED
        BY <3>1, <3>2
  <2> QED
      BY <1>6, <2>1, <2>2
<1>8. pendingSuffix \o SubSeq(answer, read + 1, read + k) = t
  <2>1. pendingSuffix = SubSeq(answer, p + 1, read)
      BY DEF StreamTypes, p
  <2> QED
      BY <1>4, <1>6, <2>1 DEF r
<1>9. sent' = sent \o RestoreAll(SubSeq(t, 1, c)) /\ pendingSuffix' = SubSeq(t, c + 1, Len(t))
    BY <1>8, Zenon DEF Chunk
<1> HIDE DEF c
<1>10. SubSeq(t, 1, c) = SubSeq(answer, p + 1, q)
  <2> DEFINE i == p + 1
  <2>1. /\ i \in 1 .. Len(answer) + 1 /\ r \in (i - 1) .. Len(answer) /\ 1 \in 1 .. (r - i + 2)
        /\ c \in (1 - 1) .. (r - i + 1) /\ i = i + 1 - 1 /\ q = i + c - 1
      BY <1>1, <1>3, <1>6, <1>7
  <2> HIDE DEF i, q
  <2>2. SubSeq(SubSeq(answer, i, r), 1, c) = SubSeq(answer, i, q)
      BY <1>1, <2>1, PartOfPart
  <2> QED
      BY <1>6, <2>2 DEF i
<1>11. SubSeq(t, c + 1, Len(t)) = SubSeq(answer, q + 1, r)
  <2> DEFINE i == p + 1
             m == c + 1
             n == Len(t)
             x == q + 1
  <2>1. /\ i \in 1 .. Len(answer) + 1 /\ r \in (i - 1) .. Len(answer) /\ m \in 1 .. (r - i + 2)
        /\ n \in (m - 1) .. (r - i + 1) /\ x = i + m - 1 /\ r = i + n - 1
      BY <1>1, <1>3, <1>6, <1>7
  <2>2. t = SubSeq(answer, i, r)
      BY <1>6
  <2> HIDE DEF i, m, n, x
  <2>3. SubSeq(SubSeq(answer, i, r), m, n) = SubSeq(answer, x, r)
      BY <1>1, <2>1, PartOfPart
  <2> QED
      BY <2>2, <2>3 DEF m, n, x
<1> HIDE DEF q
<1>12. read' = r /\ r \in 0 .. Len(answer) /\ q \in 0 .. r /\ q \in Int
    BY <1>1, <1>2, <1>3, <1>7 DEF r
<1>13. SentLength' = q
  <2>1. SentLength' = read' - Len(pendingSuffix')
      BY DEF SentLength
  <2>2. r - Len(SubSeq(answer, q + 1, r)) = q
      BY <1>1, <1>12, HeldLength
  <2> QED
      BY <1>9, <1>11, <1>12, <2>1, <2>2
<1>14. Moves(q, t)
  <2>1. CutIdx(t) = q - p
      BY <1>7 DEF c
  <2> QED
      BY <1>5, <1>7, <1>9, <1>10, <1>11, <1>12, <1>13, <2>1 DEF Moves, p
<1> QED
    BY <1>2, <1>12, <1>14 DEF r
LEMMA StreamTypesInit == StreamInit => StreamTypes
<1> SUFFICES ASSUME StreamInit PROVE StreamTypes
    OBVIOUS
<1>1. /\ field \in {"content", "arguments"} /\ cutInside = FALSE /\ answer \in Answers /\ read = 0
      /\ sent = <<>> /\ pendingSuffix = <<>> /\ phase = "open"
    BY DEF StreamInit
<1>2. answer \in Seq(Lexemes)
    BY <1>1, StreamAssumption
<1>3. Len(answer) \in Nat
    BY <1>2, LenProperties
<1>4. 0 \in 0 .. Len(answer) /\ 0 \in 0 .. 0
    BY <1>3
<1>5. SubSeq(answer, 0 + 1, 0) = <<>>
    BY <1>2, <1>4, HeldLength
<1>6. SentLength = 0
  <2>1. Len(pendingSuffix) = 0
      BY <1>1, EmptySeq
  <2>2. read - 0 = 0
      BY <1>1
  <2> QED
      BY <2>1, <2>2 DEF SentLength
<1>7. sent \in Seq(Out)
    BY <1>1, EmptySeq
<1>8. read \in 0 .. Len(answer) /\ SentLength \in 0 .. read /\ SentLength = read
    BY <1>1, <1>4, <1>6
<1>9. pendingSuffix = SubSeq(answer, SentLength + 1, read)
    BY <1>1, <1>5, <1>6
<1> QED
    BY <1>1, <1>7, <1>8, <1>9 DEF StreamTypes

\* A delta of the arguments is restored by itself.
LEMMA DeltaTakes ==
    ASSUME StreamTypes, NEW k \in 1 .. Len(answer), ToolCallChunk(k)
    PROVE  /\ read' = read + k /\ read' \in 0 .. Len(answer) /\ read \in 0 .. read'
           /\ sent' = sent \o RestoreAll(SubSeq(answer, read + 1, read'))
<1>1. Len(answer) \in Nat /\ read \in Nat
    BY AnswerType
<1>2. /\ read' = read + k /\ read + k <= Len(answer)
      /\ sent' = sent \o RestoreAll(SubSeq(answer, read + 1, read + k))
    BY DEF ToolCallChunk
<1> QED
    BY <1>1, <1>2

LEMMA StreamTypesNext == StreamTypes /\ [StreamNext]_streamVars => StreamTypes'
<1> SUFFICES ASSUME StreamTypes, [StreamNext]_streamVars PROVE StreamTypes'
    OBVIOUS
<1>1. answer \in Seq(Lexemes) /\ Len(answer) \in Nat /\ read \in Nat /\ SentLength \in Nat
    BY AnswerType
<1>2. ASSUME NEW k \in 1 .. Len(answer), Chunk(k) PROVE StreamTypes'
  <2>1. PICK q \in Int : \E t \in Seq(Lexemes) : Moves(q, t)
      BY <1>2, ChunkMoves, Zenon
  <2>2. read' \in 0 .. Len(answer)
      BY <1>2, ChunkMoves, Zenon
  <2>3. /\ q \in SentLength .. read' /\ sent' = sent \o RestoreAll(SubSeq(answer, SentLength + 1, q))
        /\ pendingSuffix' = SubSeq(answer, q + 1, read') /\ SentLength' = q
      BY <2>1, Zenon DEF Moves
  <2>4. q \in 0 .. Len(answer) /\ SentLength \in 0 .. q /\ q \in 0 .. read'
      BY <1>1, <2>2, <2>3
  <2>5. sent' \in Seq(Out)
    <3>1. SubSeq(answer, SentLength + 1, q) \in Seq(Lexemes)
        BY <1>1, <2>4, HeldLength
    <3>2. RestoreAll(SubSeq(answer, SentLength + 1, q)) \in Seq(Out)
        BY <3>1, RestoreAllType
    <3>3. sent \in Seq(Out)
        BY DEF StreamTypes
    <3> QED
        BY <2>3, <3>2, <3>3, ConcatProperties
  <2>6. field = "content" /\ phase = "open" /\ UNCHANGED <<field, answer, phase, cutInside>>
      BY <1>2 DEF Chunk
  <2>7. /\ field' \in {"content", "arguments"} /\ cutInside' \in BOOLEAN /\ answer' \in Answers
        /\ phase' \in {"open", "done", "closed"} /\ ~ (phase' = "done" \/ field' = "arguments")
      BY <2>6 DEF StreamTypes
  <2>8. answer' = answer
      BY <2>6
  <2> QED
      BY <2>2, <2>3, <2>4, <2>5, <2>7, <2>8 DEF StreamTypes
<1>3. ASSUME NEW k \in 1 .. Len(answer), ToolCallChunk(k) PROVE StreamTypes'
  <2>1. /\ read' = read + k /\ read' \in 0 .. Len(answer) /\ read \in 0 .. read'
        /\ sent' = sent \o RestoreAll(SubSeq(answer, read + 1, read'))
      BY <1>3, DeltaTakes
  <2>2. field = "arguments" /\ UNCHANGED <<field, answer, pendingSuffix, phase>>
      BY <1>3 DEF ToolCallChunk
  <2>3. SentLength = read /\ pendingSuffix = SubSeq(answer, SentLength + 1, read)
      BY <2>2 DEF StreamTypes
  <2>4. pendingSuffix = <<>>
    <3>1. read \in 0 .. Len(answer) /\ read \in 0 .. read
        BY <1>1 DEF StreamTypes
    <3> QED
        BY <1>1, <2>3, <3>1, HeldLength
  <2>5. SentLength' = read'
    <3>1. SentLength' = read' - Len(pendingSuffix')
        BY DEF SentLength
    <3>2. pendingSuffix' = <<>>
        BY <2>2, <2>4
    <3>3. Len(pendingSuffix') = 0
        BY <3>2, EmptySeq
    <3>4. read' - 0 = read'
        BY <1>1, <2>1
    <3> QED
        BY <3>1, <3>3, <3>4
  <2>6. read' \in 0 .. read' /\ SubSeq(answer, read' + 1, read') = <<>>
    <3>1. read' \in 0 .. read'
        BY <1>1, <2>1
    <3> QED
        BY <1>1, <2>1, <3>1, HeldLength
  <2>7. sent' \in Seq(Out)
    <3>1. SubSeq(answer, read + 1, read') \in Seq(Lexemes)
        BY <1>1, <2>1, HeldLength
    <3>2. RestoreAll(SubSeq(answer, read + 1, read')) \in Seq(Out)
        BY <3>1, RestoreAllType
    <3>3. sent \in Seq(Out)
        BY DEF StreamTypes
    <3> QED
        BY <2>1, <3>2, <3>3, ConcatProperties
  <2>8. cutInside' \in BOOLEAN
      BY <1>3 DEF ToolCallChunk, StreamTypes, CutsBody
  <2>9. field' \in {"content", "arguments"} /\ answer' \in Answers /\ phase' \in {"open", "done", "closed"}
      BY <2>2 DEF StreamTypes
  <2>10. pendingSuffix' = SubSeq(answer', SentLength' + 1, read')
      BY <2>2, <2>4, <2>5, <2>6
  <2>11. read' \in 0 .. Len(answer') /\ SentLength' \in 0 .. read'
      BY <2>1, <2>2, <2>5, <2>6
  <2> QED
      BY <2>5, <2>7, <2>8, <2>9, <2>10, <2>11 DEF StreamTypes
<1>4. CASE Done
  <2>1. /\ sent' = sent \o RestoreAll(pendingSuffix) /\ pendingSuffix' = <<>> /\ phase' = "done"
        /\ UNCHANGED <<field, answer, read, cutInside>>
      BY <1>4 DEF Done
  <2>2. read \in 0 .. Len(answer) /\ SentLength \in 0 .. read
      BY DEF StreamTypes
  <2>3. SentLength' = read
    <3>1. SentLength' = read' - Len(pendingSuffix')
        BY DEF SentLength
    <3>2. pendingSuffix' = <<>> /\ Len(<<>>) = 0 /\ read' = read
        BY <2>1, EmptySeq
    <3> QED
        BY <1>1, <3>1, <3>2
  <2>4. read \in 0 .. read /\ SubSeq(answer, read + 1, read) = <<>>
    <3>1. read \in 0 .. read
        BY <1>1
    <3> QED
        BY <1>1, <2>2, <3>1, HeldLength
  <2>5. sent' \in Seq(Out)
    <3>1. pendingSuffix \in Seq(Lexemes)
        BY <1>1, <2>2, HeldLength DEF StreamTypes
    <3>2. RestoreAll(pendingSuffix) \in Seq(Out)
        BY <3>1, RestoreAllType
    <3>3. sent \in Seq(Out)
        BY DEF StreamTypes
    <3> QED
        BY <2>1, <3>2, <3>3, ConcatProperties
  <2>6. /\ field' \in {"content", "arguments"} /\ answer' \in Answers /\ cutInside' \in BOOLEAN
        /\ phase' \in {"open", "done", "closed"}
      BY <2>1 DEF StreamTypes
  <2>7. /\ pendingSuffix' = SubSeq(answer', SentLength' + 1, read') /\ SentLength' = read'
        /\ read' \in 0 .. Len(answer') /\ SentLength' \in 0 .. read'
      BY <2>1, <2>2, <2>3, <2>4
  <2> QED
      BY <2>5, <2>6, <2>7 DEF StreamTypes
<1>5. CASE Close
  <2>1. phase' = "closed" /\ UNCHANGED <<field, answer, read, pendingSuffix, sent, cutInside>>
      BY <1>5 DEF Close
  <2>2. SentLength' = SentLength
      BY <2>1 DEF SentLength
  <2> QED
      BY <2>1, <2>2 DEF StreamTypes
<1>6. CASE UNCHANGED streamVars
    BY <1>6 DEF streamVars, StreamTypes, SentLength
<1> QED
    BY <1>2, <1>3, <1>4, <1>5, <1>6 DEF StreamNext

LEMMA StreamTypesImply == StreamTypes => StreamTypeOK
<1> SUFFICES ASSUME StreamTypes PROVE StreamTypeOK
    OBVIOUS
<1>1. answer \in Seq(Lexemes) /\ Len(answer) \in Nat /\ read \in Nat /\ SentLength \in Nat
    BY AnswerType
<1>2. read \in 0 .. Len(answer) /\ SentLength \in 0 .. read /\ read \in 0 .. read
    BY <1>1 DEF StreamTypes
<1>3. PICK u \in Seq(Lexemes) : StartIs(u, answer, read)
    BY <1>1, <1>2, StartOf, Zenon
<1>4. Len(u) = read /\ u = SubSeq(answer, 1, read)
    BY <1>3, Zenon DEF StartIs
<1>5. IsSuffix(pendingSuffix, Received)
  <2> DEFINE m == SentLength + 1
  <2>1. m \in 1 .. Len(u) + 1
      BY <1>1, <1>2, <1>4
  <2>2. /\ 1 \in 1 .. Len(answer) + 1 /\ read \in (1 - 1) .. Len(answer) /\ m \in 1 .. (read - 1 + 2)
        /\ read \in (m - 1) .. (read - 1 + 1) /\ m = 1 + m - 1 /\ read = 1 + read - 1
      BY <1>1, <1>2
  <2>3. pendingSuffix = SubSeq(answer, m, read)
      BY DEF StreamTypes
  <2> HIDE DEF m
  <2>4. SubSeq(SubSeq(answer, 1, read), m, read) = SubSeq(answer, m, read)
      BY <1>1, <2>2, PartOfPart
  <2>5. IsSuffix(SubSeq(u, m, Len(u)), u)
      BY <2>1, EndIsSuffix
  <2> QED
      BY <1>4, <2>3, <2>4, <2>5 DEF Received
<1>6. phase = "done" => pendingSuffix = <<>>
  <2>1. SUFFICES ASSUME phase = "done" PROVE pendingSuffix = <<>>
      OBVIOUS
  <2>2. SentLength = read
      BY <2>1 DEF StreamTypes
  <2> QED
      BY <1>1, <1>2, <2>2, HeldLength DEF StreamTypes
<1> QED
    BY <1>5, <1>6 DEF StreamTypes, StreamTypeOK, Out

LEMMA StreamTypesAlways == StreamSpec => []StreamTypes
<1> QED
    BY StreamTypesInit, StreamTypesNext, PTL DEF StreamSpec

\* Whatever the model answers, the text held back in handleStreamingRequest is an end of
\* what arrived, and [DONE] leaves nothing of it.
THEOREM StreamTypeCorrect == StreamSpec => []StreamTypeOK
<1> QED
    BY StreamTypesAlways, StreamTypesImply, PTL
----------------------------------------------------------------------------
(* The answer comes out as it would in one piece.                          *)

\* A cut at the beginning of a text separates nothing, nor does one at its end.
LEMMA CutsAtEnds ==
    ASSUME NEW t \in Seq(Lexemes)
    PROVE  ~ Cuts(t, 0) /\ ~ Cuts(t, Len(t))
<1>1. Len(t) \in Nat
    BY LenProperties
<1>2. ASSUME NEW b \in Bodies(t) PROVE b \in Int /\ b >= 2 /\ b <= Len(t) - 1
  <2>1. b \in Int
    <3>1. b \in DOMAIN t /\ DOMAIN t = 1 .. Len(t)
        BY LenProperties, Zenon DEF Bodies
    <3> QED
        BY <3>1
  <2>2. b \in 2 .. Len(t) - 1
      BY <2>1, BodyAt
  <2> QED
      BY <1>1, <2>1, <2>2
<1>3. ~ Cuts(t, 0)
  <2>1. SUFFICES ASSUME NEW b \in Bodies(t)
                 PROVE  ~ (0 = b - 2 /\ 0 # 0 /\ t[0] = "$") /\ 0 \notin {b - 1, b} /\ 0 # b + 1
      BY Zenon DEF Cuts
  <2> QED
      BY <1>2
<1>4. ~ Cuts(t, Len(t))
  <2>1. SUFFICES ASSUME NEW b \in Bodies(t)
                 PROVE  /\ Len(t) # b - 2 /\ Len(t) \notin {b - 1, b}
                        /\ ~ (Len(t) = b + 1 /\ At(t, Len(t) + 1, <<"}">>))
      BY Zenon DEF Cuts
  <2>2. b \in Int /\ b >= 2 /\ b <= Len(t) - 1
      BY <1>2
  <2>3. ~ At(t, Len(t) + 1, <<"}">>)
    <3>1. Len(t) + 1 \in Int /\ Len(t) + 1 \notin 1 .. Len(t)
        BY <1>1
    <3> QED
        BY <3>1, AtOne
  <2>4. Len(t) # b - 2 /\ Len(t) \notin {b - 1, b}
      BY <1>1, <2>2
  <2> QED
      BY <2>3, <2>4, Zenon
<1> QED
    BY <1>3, <1>4

\* RestoreAll of nothing.
LEMMA RestoreNothing == RestoreAll(<<>>) = <<>>
<1>1. DOMAIN <<>> = {}
    OBVIOUS
<1>2. ~ Normalizes(<<>>)
    BY <1>1, Zenon DEF Normalizes, Has
<1> QED
    BY <1>2 DEF RestoreAll

\* No placeholder was cut by what was sent of the content, and all of that was restored.
WholeSoFar ==
    field = "content" =>
        ~ Cuts(answer, SentLength) /\ sent = RestoreAll(SubSeq(answer, 1, SentLength))

\* The same of arguments whose deltas end outside placeholders.
DeltasSoFar ==
    field = "arguments" /\ ~cutInside => ~ Cuts(answer, read) /\ sent = RestoreAll(Received)

\* Nothing was sent at the start.
LEMMA NothingYet ==
    ASSUME StreamInit
    PROVE  /\ answer \in Seq(Lexemes) /\ SentLength = 0 /\ read = 0 /\ ~ Cuts(answer, 0)
           /\ SubSeq(answer, 1, 0) = <<>> /\ sent = RestoreAll(<<>>) /\ pendingSuffix = <<>>
<1>1. answer \in Answers /\ read = 0 /\ sent = <<>> /\ pendingSuffix = <<>>
    BY DEF StreamInit
<1>2. answer \in Seq(Lexemes)
    BY <1>1, StreamAssumption
<1>3. SentLength = 0
  <2>1. Len(pendingSuffix) = 0
      BY <1>1, EmptySeq
  <2>2. read - 0 = 0
      BY <1>1
  <2> QED
      BY <2>1, <2>2 DEF SentLength
<1>4. SubSeq(answer, 1, 0) = <<>>
  <2>1. 1 \in Int /\ 0 \in Int /\ 0 < 1
      OBVIOUS
  <2> QED
      BY <2>1, SubSeqEmpty
<1> QED
    BY <1>1, <1>2, <1>3, <1>4, CutsAtEnds, RestoreNothing

LEMMA DeltasInit == StreamInit => DeltasSoFar
<1> SUFFICES ASSUME StreamInit PROVE DeltasSoFar
    OBVIOUS
<1> QED
    BY NothingYet DEF DeltasSoFar, Received

LEMMA DeltasNext ==
    ASSUME \A a \in Answers : Recognised(a)
    PROVE  StreamTypes /\ DeltasSoFar /\ [StreamNext]_streamVars => DeltasSoFar'
<1> SUFFICES ASSUME StreamTypes, DeltasSoFar, [StreamNext]_streamVars PROVE DeltasSoFar'
    OBVIOUS
<1>1. answer \in Seq(Lexemes) /\ Len(answer) \in Nat /\ read \in Nat /\ SentLength \in Nat
    BY AnswerType
<1>2. Recognised(answer)
    BY DEF StreamTypes
<1>3. ASSUME NEW k \in 1 .. Len(answer), Chunk(k) PROVE DeltasSoFar'
    BY <1>3 DEF Chunk, DeltasSoFar
<1>4. ASSUME NEW k \in 1 .. Len(answer), ToolCallChunk(k) PROVE DeltasSoFar'
  <2>1. SUFFICES ASSUME ~cutInside' PROVE ~ Cuts(answer', read') /\ sent' = RestoreAll(Received')
      BY DEF DeltasSoFar
  <2>2. /\ read' = read + k /\ read' \in 0 .. Len(answer) /\ read \in 0 .. read'
        /\ sent' = sent \o RestoreAll(SubSeq(answer, read + 1, read'))
      BY <1>4, DeltaTakes
  <2>3. field = "arguments" /\ cutInside' = (cutInside \/ CutsBody(read + k)) /\ answer' = answer
      BY <1>4 DEF ToolCallChunk
  <2>4. ~cutInside /\ ~ CutsBody(read')
      BY <2>1, <2>2, <2>3
  <2>5. ~ Cuts(answer, read')
      BY <2>4, Zenon DEF Cuts, CutsBody
  <2>6. ~ Cuts(answer, read) /\ sent = RestoreAll(SubSeq(answer, 1, read))
      BY <2>3, <2>4 DEF DeltasSoFar, Received
  <2>7. RestoreAll(SubSeq(answer, 1, read)) \o RestoreAll(SubSeq(answer, read + 1, read'))
            = RestoreAll(SubSeq(answer, 1, read'))
      BY <1>1, <1>2, <2>2, <2>6, RestoreStep
  <2> QED
      BY <2>2, <2>3, <2>5, <2>6, <2>7 DEF Received
<1>5. CASE Done
  <2>1. SUFFICES ASSUME field' = "arguments", ~cutInside'
                 PROVE  ~ Cuts(answer', read') /\ sent' = RestoreAll(Received')
      BY DEF DeltasSoFar
  <2>2. sent' = sent \o RestoreAll(pendingSuffix) /\ UNCHANGED <<field, answer, read, cutInside>>
      BY <1>5 DEF Done
  <2>3. pendingSuffix = <<>>
    <3>1. SentLength = read /\ read \in 0 .. Len(answer) /\ SentLength \in 0 .. read
        BY <2>1, <2>2 DEF StreamTypes
    <3> QED
        BY <1>1, <3>1, HeldLength DEF StreamTypes
  <2>4. sent' = sent
    <3>1. sent \in Seq(Out)
        BY DEF StreamTypes
    <3> QED
        BY <2>2, <2>3, <3>1, RestoreNothing, ConcatEmptySeq
  <2> QED
      BY <2>1, <2>2, <2>4 DEF DeltasSoFar, Received
<1>6. CASE Close
    BY <1>6 DEF Close, DeltasSoFar, Received
<1>7. CASE UNCHANGED streamVars
    BY <1>7 DEF streamVars, DeltasSoFar, Received
<1> QED
    BY <1>3, <1>4, <1>5, <1>6, <1>7 DEF StreamNext

\* Provided that RestoreAll recognises every placeholder of the answers: the arguments of a
\* tool call come out as they would in one piece, unless a delta ends within a placeholder,
\* although handleStreamingRequest restores every delta by itself.
THEOREM ArgumentsCorrect ==
    ASSUME \A a \in Answers : Recognised(a)
    PROVE  StreamSpec => []ArgumentsLikeWhole
<1>1. DeltasSoFar => ArgumentsLikeWhole
    BY DEF DeltasSoFar, ArgumentsLikeWhole
<1>2. StreamTypes /\ DeltasSoFar /\ [StreamNext]_streamVars => DeltasSoFar'
    BY DeltasNext
<1> QED
    BY <1>1, <1>2, DeltasInit, StreamTypesInit, StreamTypesNext, PTL DEF StreamSpec
\* Every placeholder of the answers has its "$".
DollarsKept == \A a \in Answers : \A b \in Bodies(a) : At(a, b - 2, <<"$">>)

\* A chunk sends the content up to a place where no placeholder is cut.
LEMMA MovesOutside ==
    ASSUME ~CutsAnywhere, DollarsKept, StreamTypes, WholeSoFar, NEW k \in 1 .. Len(answer), Chunk(k),
           NEW q \in Int, NEW t \in Seq(Lexemes), Moves(q, t)
    PROVE  ~ Cuts(answer, q)
<1>1. answer \in Seq(Lexemes) /\ Len(answer) \in Nat /\ read \in Nat /\ SentLength \in Nat
    BY AnswerType
<1>2. read' = read + k /\ read' \in 0 .. Len(answer)
    BY ChunkMoves, Zenon
<1> DEFINE r == read'
           p == SentLength
<1>3. ~ At(answer, r, <<"$", "{">>) /\ ~ Cuts(answer, p)
    BY <1>2 DEF Chunk, WholeSoFar
<1>4. q \in p .. r /\ PartIs(t, answer, p, r) /\ CutIdx(t) = q - p
    BY Zenon DEF Moves
<1>5. Len(t) = r - p /\ \A j \in 1 .. r - p : t[j] = answer[p + j]
    BY <1>4, Zenon DEF PartIs
<1>6. p \in Int /\ r \in Int /\ p >= 0 /\ r >= 0 /\ r <= Len(answer) /\ q >= p /\ q <= r
    BY <1>1, <1>2, <1>4
<1> HIDE DEF p, r
<1>7. SUFFICES ASSUME NEW b \in Bodies(answer),
                      \/ q = b - 2 /\ q # 0 /\ answer[q] = "$"
                      \/ q \in {b - 1, b}
                      \/ q = b + 1 /\ At(answer, q + 1, <<"}">>)
               PROVE  FALSE
    BY Zenon DEF Cuts
<1>8. b \in Int
  <2>1. b \in DOMAIN answer /\ DOMAIN answer = 1 .. Len(answer)
      BY <1>1, LenProperties, Zenon DEF Bodies
  <2> QED
      BY <2>1
<1>9. answer[b - 1] = "{" /\ answer[b] = "B" /\ answer[b + 1] = "H"
    BY <1>1, <1>8, BodyAt
<1>10. b \in 2 .. Len(answer) - 1
    BY <1>1, <1>8, BodyAt
<1>11. b - 2 \in 1 .. Len(answer) /\ answer[b - 2] = "$"
  <2>1. b - 2 \in Int
      BY <1>8
  <2>2. At(answer, b - 2, <<"$">>)
      BY DEF DollarsKept, StreamTypes
  <2> QED
      BY <1>1, <2>1, <2>2, AtOne
<1>12. b - 2 >= 1 /\ b + 1 <= Len(answer)
    BY <1>1, <1>8, <1>10, <1>11
<1>13. q >= b - 2 /\ q <= b + 1
  <2>1. q = b - 2 \/ q \in {b - 1, b} \/ q = b + 1
      BY <1>7, Zenon
  <2> QED
      BY <1>8, <2>1
\* What follows a cut at b + 1 is a closing brace.
<1>14. q = b + 1 => q + 1 <= Len(answer) /\ answer[q + 1] = "}"
  <2>1. SUFFICES ASSUME q = b + 1 PROVE q + 1 <= Len(answer) /\ answer[q + 1] = "}"
      OBVIOUS
  <2>2. q # b - 2 /\ q \notin {b - 1, b}
      BY <1>8, <2>1
  <2>3. At(answer, q + 1, <<"}">>)
      BY <1>7, <2>2, Zenon
  <2>4. q + 1 \in Int
      OBVIOUS
  <2>5. q + 1 \in 1 .. Len(answer) /\ answer[q + 1] = "}"
      BY <1>1, <2>3, <2>4, AtOne
  <2>6. q + 1 \in 1 .. Len(answer)
      BY <2>5
  <2>7. q + 1 <= Len(answer)
      BY <1>1, <2>6
  <2> QED
      BY <2>5, <2>7, Zenon
\* The lexeme behind the cut is no "$".
<1>15. ASSUME q < r PROVE answer[q + 1] # "$"
  <2>1. q + 1 = b - 1 \/ q + 1 = b \/ q + 1 = b + 1 \/ q = b + 1
      BY <1>8, <1>13
  <2> QED
      BY <1>9, <1>14, <2>1
<1>16. CASE CutIdx(t) # Len(t)
  <2>1. PICK i \in 1 .. Len(t) - 1 : CutIdx(t) = i - 1 /\ Opens(t, i)
      BY <1>16, CutIdxIs, Zenon
  <2>2. i \in 1 .. r - p /\ p + i = q + 1 /\ q < r
    <3>1. CutIdx(t) = i - 1
        BY <2>1
    <3> QED
        BY <1>4, <1>5, <1>6, <3>1
  <2>3. t[i] = "$" /\ t[i] = answer[p + i]
      BY <1>5, <2>1, <2>2, Zenon DEF Opens
  <2> QED
      BY <1>15, <2>2, <2>3
<1>17. CASE CutIdx(t) = Len(t)
  <2>1. q = r
      BY <1>4, <1>5, <1>6, <1>17
  <2>2. q # b - 2
    <3>1. SUFFICES ASSUME q = b - 2 PROVE FALSE
        OBVIOUS
    <3>2. r \in 1 .. Len(answer) - 1 /\ r + 1 = b - 1
        BY <1>1, <1>8, <1>12, <2>1, <3>1
    <3>3. answer[r] = "$" /\ answer[r + 1] = "{"
        BY <1>9, <1>11, <2>1, <3>1, <3>2
    <3> QED
        BY <1>1, <1>3, <1>6, <3>2, <3>3, AtTwo
  \* The whole beginning of the placeholder is in the text that is looked at.
  <2>3. p < b - 2
    <3>1. SUFFICES ASSUME p >= b - 2 PROVE FALSE
        BY <1>6, <1>8
    <3>2. p = b - 2 \/ p = b - 1 \/ p = b \/ p = b + 1
        BY <1>6, <1>8, <1>13, <3>1
    <3>3. p = b - 2 => p # 0 /\ answer[p] = "$"
        BY <1>8, <1>11, <1>12
    <3>4. p = b + 1 => At(answer, p + 1, <<"}">>)
      <4>1. SUFFICES ASSUME p = b + 1 PROVE At(answer, p + 1, <<"}">>)
          OBVIOUS
      <4>2. q = p
          BY <1>6, <1>8, <1>13, <4>1
      <4>3. p + 1 \in Int /\ p + 1 \in 1 .. Len(answer)
        <5>1. q + 1 <= Len(answer)
            BY <1>14, <4>1, <4>2
        <5> QED
            BY <1>1, <1>6, <4>2, <5>1
      <4>4. answer[p + 1] = "}"
          BY <1>14, <4>1, <4>2
      <4> QED
          BY <1>1, <4>3, <4>4, AtOne
    <3> QED
        BY <1>3, <3>2, <3>3, <3>4, Zenon DEF Cuts
  <2>4. PICK i \in 1 .. Len(t) - 1 : p + i = b - 2
    <3>1. (b - 2) - p \in 1 .. Len(t) - 1 /\ p + ((b - 2) - p) = b - 2
        BY <1>5, <1>6, <1>8, <1>13, <2>1, <2>2, <2>3
    <3> QED
        BY <3>1
  <2>5. i \in Int /\ i >= 1 /\ i + 1 <= r - p /\ r - p <= i + 3 /\ Len(t) <= i + 3
      BY <1>5, <1>6, <1>8, <1>13, <2>1, <2>4
  <2>6. Opens(t, i)
    <3>1. t[i] = "$" /\ t[i + 1] = "{"
      <4>1. i \in 1 .. r - p /\ i + 1 \in 1 .. r - p /\ p + i = b - 2 /\ p + (i + 1) = b - 1
          BY <1>6, <1>8, <2>4, <2>5
      <4>2. t[i] = answer[p + i] /\ t[i + 1] = answer[p + (i + 1)]
          BY <1>5, <4>1
      <4> QED
          BY <1>9, <1>11, <4>1, <4>2
    <3>2. ASSUME NEW j \in i + 1 .. Len(t) PROVE t[j] # "$"
      <4>1. j \in 1 .. r - p /\ (p + j = b - 1 \/ p + j = b \/ p + j = b + 1)
          BY <1>5, <1>6, <1>8, <2>4, <2>5
      <4>2. t[j] = answer[p + j]
          BY <1>5, <4>1
      <4> QED
          BY <1>9, <4>1, <4>2
    <3> QED
        BY <3>1, <3>2 DEF Opens
  <2>7. CutIdx(t) = i - 1
      BY <2>5, <2>6, CutHolds
  <2> QED
      BY <1>5, <1>6, <1>17, <2>5, <2>7
<1> QED
    BY <1>16, <1>17
LEMMA WholeInit == StreamInit => WholeSoFar
<1> SUFFICES ASSUME StreamInit PROVE WholeSoFar
    OBVIOUS
<1> QED
    BY NothingYet DEF WholeSoFar

LEMMA WholeNext ==
    ASSUME ~CutsAnywhere, DollarsKept
    PROVE  StreamTypes /\ WholeSoFar /\ [StreamNext]_streamVars => WholeSoFar'
<1> SUFFICES ASSUME StreamTypes, WholeSoFar, [StreamNext]_streamVars PROVE WholeSoFar'
    OBVIOUS
<1>1. answer \in Seq(Lexemes) /\ Len(answer) \in Nat /\ read \in Nat /\ SentLength \in Nat
    BY AnswerType
<1>2. Recognised(answer)
    BY DEF StreamTypes, DollarsKept, Recognised
<1>3. read \in 0 .. Len(answer) /\ SentLength \in 0 .. read
    BY DEF StreamTypes
<1>4. ASSUME NEW k \in 1 .. Len(answer), Chunk(k) PROVE WholeSoFar'
  <2>1. read' \in 0 .. Len(answer) /\ \E q \in Int : \E t \in Seq(Lexemes) : Moves(q, t)
      BY <1>4, ChunkMoves, Zenon
  <2>2. PICK q \in Int, t \in Seq(Lexemes) : Moves(q, t)
      BY <2>1, Zenon
  <2>3. /\ q \in SentLength .. read' /\ SentLength' = q
        /\ sent' = sent \o RestoreAll(SubSeq(answer, SentLength + 1, q))
      BY <2>2, Zenon DEF Moves
  <2>4. ~ Cuts(answer, q)
      BY <1>4, <2>2, MovesOutside, Zenon
  <2>5. ~ Cuts(answer, SentLength) /\ sent = RestoreAll(SubSeq(answer, 1, SentLength)) /\ answer' = answer
      BY <1>4 DEF Chunk, WholeSoFar
  <2>6. q \in 0 .. Len(answer) /\ SentLength \in 0 .. q
      BY <1>1, <2>1, <2>3
  <2>7. RestoreAll(SubSeq(answer, 1, SentLength)) \o RestoreAll(SubSeq(answer, SentLength + 1, q))
            = RestoreAll(SubSeq(answer, 1, q))
      BY <1>1, <1>2, <2>5, <2>6, RestoreStep
  <2> QED
      BY <2>3, <2>4, <2>5, <2>7 DEF WholeSoFar
<1>5. ASSUME NEW k \in 1 .. Len(answer), ToolCallChunk(k) PROVE WholeSoFar'
    BY <1>5 DEF ToolCallChunk, WholeSoFar
<1>6. CASE Done
  <2>1. SUFFICES ASSUME field = "content"
                 PROVE  ~ Cuts(answer', SentLength') /\ sent' = RestoreAll(SubSeq(answer', 1, SentLength'))
      BY <1>6 DEF Done, WholeSoFar
  <2>2. /\ sent' = sent \o RestoreAll(pendingSuffix) /\ pendingSuffix' = <<>> /\ read = Len(answer)
        /\ answer' = answer /\ read' = read
      BY <1>6 DEF Done
  <2>3. SentLength' = read
    <3>1. SentLength' = read' - Len(pendingSuffix')
        BY DEF SentLength
    <3>2. Len(pendingSuffix') = 0
        BY <2>2, EmptySeq
    <3> QED
        BY <1>1, <2>2, <3>1, <3>2
  <2>4. sent = RestoreAll(SubSeq(answer, 1, SentLength)) /\ ~ Cuts(answer, SentLength)
      BY <2>1 DEF WholeSoFar
  <2>5. pendingSuffix = SubSeq(answer, SentLength + 1, read)
      BY DEF StreamTypes
  <2>6. sent' = RestoreAll(SubSeq(answer, 1, read))
      BY <1>1, <1>2, <1>3, <2>2, <2>4, <2>5, RestoreStep
  <2>7. ~ Cuts(answer, read)
      BY <1>1, <2>2, CutsAtEnds
  <2> QED
      BY <2>2, <2>3, <2>6, <2>7
<1>7. CASE Close
    BY <1>7 DEF Close, WholeSoFar, SentLength
<1>8. CASE UNCHANGED streamVars
    BY <1>8 DEF streamVars, WholeSoFar, SentLength
<1> QED
    BY <1>4, <1>5, <1>6, <1>7, <1>8 DEF StreamNext

LEMMA WholeImplies ==
    ASSUME DollarsKept
    PROVE  StreamTypes /\ WholeSoFar => StreamsLikeWhole
<1> SUFFICES ASSUME StreamTypes, WholeSoFar, field = "content"
             PROVE  sent \o RestoreAll(pendingSuffix) = RestoreAll(Received)
    BY DEF StreamsLikeWhole
<1>1. answer \in Seq(Lexemes) /\ Len(answer) \in Nat /\ read \in Nat /\ SentLength \in Nat
    BY AnswerType
<1>2. Recognised(answer)
    BY DEF StreamTypes, DollarsKept, Recognised
<1>3. read \in 0 .. Len(answer) /\ SentLength \in 0 .. read
    BY DEF StreamTypes
<1>4. sent = RestoreAll(SubSeq(answer, 1, SentLength)) /\ ~ Cuts(answer, SentLength)
    BY DEF WholeSoFar
<1>5. pendingSuffix = SubSeq(answer, SentLength + 1, read)
    BY DEF StreamTypes
<1> QED
    BY <1>1, <1>2, <1>3, <1>4, <1>5, RestoreStep DEF Received

\* Provided that the answer is not cut between "$" and "{" and that the model leaves out no
\* "$": what handleStreamingRequest sent of the content, with what it would flush, is what
\* the non-streaming handler makes of the same text, however the text is cut otherwise.
THEOREM StreamsCorrect ==
    ASSUME ~CutsAnywhere, DollarsKept
    PROVE  StreamSpec => []StreamsLikeWhole
<1>1. StreamTypes /\ WholeSoFar /\ [StreamNext]_streamVars => WholeSoFar'
    BY WholeNext
<1>2. StreamTypes /\ WholeSoFar => StreamsLikeWhole
    BY WholeImplies
<1> QED
    BY <1>1, <1>2, WholeInit, StreamTypesInit, StreamTypesNext, PTL DEF StreamSpec

----------------------------------------------------------------------------
(* What is held back is the part of a placeholder that waits for the rest. *)

HeldSoFar ==
    /\ phase = "open" /\ field = "content" =>
          \A i \in 1 .. read : At(answer, i, Placeholder) /\ read < i + 4 => SentLength = i - 1
    /\ ~ Has(pendingSuffix, Placeholder)

LEMMA NothingHeld == ~ Has(<<>>, Placeholder)
<1>1. DOMAIN <<>> = {}
    OBVIOUS
<1> QED
    BY <1>1, Zenon DEF Has

LEMMA HeldInit == StreamInit => HeldSoFar
<1> SUFFICES ASSUME StreamInit PROVE HeldSoFar
    OBVIOUS
<1>1. read = 0 /\ pendingSuffix = <<>>
    BY NothingYet
<1>2. 1 .. read = {}
    BY <1>1
<1> QED
    BY <1>1, <1>2, NothingHeld DEF HeldSoFar

LEMMA HeldNext ==
    ASSUME ~CutsAnywhere
    PROVE  StreamTypes /\ HeldSoFar /\ [StreamNext]_streamVars => HeldSoFar'
<1> SUFFICES ASSUME StreamTypes, HeldSoFar, [StreamNext]_streamVars PROVE HeldSoFar'
    OBVIOUS
<1>1. answer \in Seq(Lexemes) /\ Len(answer) \in Nat /\ read \in Nat /\ SentLength \in Nat
    BY AnswerType
<1>2. ASSUME NEW k \in 1 .. Len(answer), Chunk(k) PROVE HeldSoFar'
  <2>1. /\ read' = read + k /\ read' \in 0 .. Len(answer)
        /\ \E q \in Int : \E t \in Seq(Lexemes) : Moves(q, t)
      BY <1>2, ChunkMoves, Zenon
  <2>2. PICK q \in Int, t \in Seq(Lexemes) : Moves(q, t)
      BY <2>1, Zenon
  <2> DEFINE r == read'
             p == SentLength
  <2>3. /\ q \in p .. r /\ PartIs(t, answer, p, r) /\ CutIdx(t) = q - p
        /\ SentLength' = q /\ pendingSuffix' = SubSeq(answer, q + 1, r)
      BY <2>2, Zenon DEF Moves
  <2>4. /\ Len(t) = r - p /\ t = SubSeq(answer, p + 1, r)
        /\ \A j \in 1 .. r - p : t[j] = answer[p + j]
      BY <2>3, Zenon DEF PartIs
  <2>5. answer' = answer /\ ~ At(answer, r, <<"$", "{">>) /\ phase = "open" /\ field = "content"
      BY <1>2, <2>1 DEF Chunk
  <2>6. p \in Int /\ r \in Int /\ p >= 0 /\ p <= read /\ r = read + k /\ k >= 1 /\ r <= Len(answer)
    <3>1. SentLength \in 0 .. read
        BY DEF StreamTypes
    <3> QED
        BY <1>1, <2>1, <3>1
  <2>7. \A i \in 1 .. read : At(answer, i, Placeholder) /\ read < i + 4 => p = i - 1
      BY <2>5 DEF HeldSoFar
  <2> HIDE DEF p, r
  <2>8. ASSUME NEW i \in 1 .. r, At(answer, i, Placeholder), r < i + 4 PROVE q = i - 1
    <3>1. i \in Int /\ i >= 1 /\ i <= r
        BY <2>6
    <3>2. /\ answer[i] = "$" /\ answer[i + 1] = "{" /\ answer[i + 2] = "B" /\ answer[i + 3] = "H"
          /\ answer[i + 4] = "}"
        BY <1>1, <2>8, <3>1, AtPlaceholder
    <3>3. i \in 1 .. Len(answer) - 4
        BY <1>1, <2>8, <3>1, AtPlaceholder
    <3>4. i # r
      <4>1. SUFFICES ASSUME i = r PROVE FALSE
          OBVIOUS
      <4>2. r \in 1 .. Len(answer) - 1
          BY <1>1, <3>1, <3>3, <4>1
      <4>3. answer[r] = "$" /\ answer[r + 1] = "{"
          BY <3>2, <4>1
      <4> QED
          BY <1>1, <2>5, <2>6, <4>2, <4>3, AtTwo
    \* The text that is looked at goes back to the beginning of the placeholder.
    <3>5. p < i
      <4>1. CASE i <= read
        <5>1. i \in 1 .. read /\ read < i + 4
            BY <1>1, <2>6, <2>8, <3>1, <4>1
        <5>2. p = i - 1
            BY <2>7, <2>8, <5>1
        <5> QED
            BY <3>1, <5>2
      <4>2. CASE ~ i <= read
          BY <1>1, <2>6, <3>1, <4>2
      <4> QED
          BY <4>1, <4>2
    <3>6. PICK j \in 1 .. Len(t) - 1 : p + j = i
      <4>1. i - p \in 1 .. Len(t) - 1 /\ p + (i - p) = i
          BY <2>4, <2>6, <3>1, <3>4, <3>5
      <4> QED
          BY <4>1
    <3>7. j \in Int /\ j >= 1 /\ j + 1 <= r - p /\ Len(t) <= j + 3 /\ r - p <= j + 3
        BY <2>4, <2>6, <2>8, <3>1, <3>4, <3>6, SMTT(30)
    <3>8. Opens(t, j)
      <4>1. t[j] = "$" /\ t[j + 1] = "{"
        <5>1. j \in 1 .. r - p /\ j + 1 \in 1 .. r - p /\ p + j = i /\ p + (j + 1) = i + 1
            BY <2>6, <3>1, <3>6, <3>7
        <5>2. t[j] = answer[p + j] /\ t[j + 1] = answer[p + (j + 1)]
            BY <2>4, <5>1
        <5> QED
            BY <3>2, <5>1, <5>2
      <4>2. ASSUME NEW m \in j + 1 .. Len(t) PROVE t[m] # "$"
        <5>3. Len(t) = r - p /\ p + j = i
            BY <2>4, <3>6
        <5>4. m \in Int /\ j + 1 <= m /\ m <= r - p /\ m <= j + 3
            BY <2>6, <3>7, <5>3
        <5>1. m \in 1 .. r - p /\ (p + m = i + 1 \/ p + m = i + 2 \/ p + m = i + 3)
            BY <2>6, <3>1, <3>7, <5>3, <5>4, SMTT(30)
        <5>2. t[m] = answer[p + m]
            BY <2>4, <5>1
        <5> QED
            BY <3>2, <5>1, <5>2
      <4> QED
          BY <4>1, <4>2 DEF Opens
    <3>9. CutIdx(t) = j - 1
        BY <3>7, <3>8, CutHolds
    <3> QED
        BY <2>3, <2>6, <3>1, <3>6, <3>7, <3>9, SMTT(30)
  <2>9. ~ Has(pendingSuffix', Placeholder)
    <3>1. CASE CutIdx(t) = Len(t)
      <4>1. q = r /\ r \in 0 .. Len(answer) /\ q \in 0 .. r
        <5>1. q - p = r - p
            BY <2>3, <2>4, <3>1, Zenon
        <5>2. q = r
            BY <2>6, <5>1
        <5> QED
            BY <1>1, <2>6, <5>2
      <4>2. pendingSuffix' = <<>>
          BY <1>1, <2>3, <4>1, HeldLength
      <4> QED
          BY <4>2, NothingHeld
    <3>2. CASE CutIdx(t) # Len(t)
      <4>1. PICK j \in 1 .. Len(t) - 1 : CutIdx(t) = j - 1 /\ ~ Has(SubSeq(t, j, Len(t)), Placeholder)
          BY <3>2, CutIdxIs, Zenon
      <4>2. SubSeq(t, j, Len(t)) = SubSeq(answer, q + 1, r)
        <5> DEFINE i == p + 1
                   n == Len(t)
                   x == q + 1
        <5>1. CutIdx(t) = j - 1
            BY <4>1
        <5>2. /\ i \in 1 .. Len(answer) + 1 /\ r \in (i - 1) .. Len(answer) /\ j \in 1 .. (r - i + 2)
              /\ n \in (j - 1) .. (r - i + 1) /\ x = i + j - 1 /\ r = i + n - 1
            BY <1>1, <2>3, <2>4, <2>6, <5>1
        <5>3. t = SubSeq(answer, i, r)
            BY <2>4
        <5> HIDE DEF i, n, x
        <5>4. SubSeq(SubSeq(answer, i, r), j, n) = SubSeq(answer, x, r)
            BY <1>1, <5>2, PartOfPart
        <5> QED
            BY <5>3, <5>4 DEF n, x
      <4> QED
          BY <2>3, <4>1, <4>2
    <3> QED
        BY <3>1, <3>2
  <2> QED
      BY <2>3, <2>5, <2>8, <2>9 DEF HeldSoFar, r
<1>3. ASSUME NEW k \in 1 .. Len(answer), ToolCallChunk(k) PROVE HeldSoFar'
    BY <1>3 DEF ToolCallChunk, HeldSoFar
<1>4. CASE Done
    BY <1>4, NothingHeld DEF Done, HeldSoFar
<1>5. CASE Close
    BY <1>5 DEF Close, HeldSoFar
<1>6. CASE UNCHANGED streamVars
    BY <1>6 DEF streamVars, HeldSoFar, SentLength
<1> QED
    BY <1>2, <1>3, <1>4, <1>5, <1>6 DEF StreamNext

LEMMA HeldImplies == StreamTypes /\ HeldSoFar => HeldBackRightly
<1> SUFFICES ASSUME StreamTypes, HeldSoFar PROVE HeldBackRightly
    OBVIOUS
<1>1. answer \in Seq(Lexemes) /\ Len(answer) \in Nat /\ read \in Nat /\ SentLength \in Nat
    BY AnswerType
<1>2. Len(Placeholder) = 5
    BY DEF Placeholder
<1>3. ASSUME phase = "open", field = "content", NEW i \in 1 .. read,
             At(answer, i, Placeholder), i + Len(Placeholder) - 1 > read
      PROVE  pendingSuffix = SubSeq(answer, i, read)
  <2>1. read < i + 4
      BY <1>1, <1>2, <1>3
  <2>2. SentLength = i - 1
      BY <1>3, <2>1 DEF HeldSoFar
  <2>3. SentLength + 1 = i
      BY <1>1, <2>2
  <2> QED
      BY <2>3 DEF StreamTypes
<1> QED
    BY <1>3 DEF HeldBackRightly, HeldSoFar

\* Provided that the answer is not cut between "$" and "{": whenever a placeholder has
\* arrived in part, that part is all that handleStreamingRequest holds back, and it never
\* holds back a whole one.
THEOREM HeldBackCorrect ==
    ASSUME ~CutsAnywhere
    PROVE  StreamSpec => []HeldBackRightly
<1>1. StreamTypes /\ HeldSoFar /\ [StreamNext]_streamVars => HeldSoFar'
    BY HeldNext
<1> QED
    BY <1>1, HeldInit, HeldImplies, StreamTypesInit, StreamTypesNext, PTL DEF StreamSpec
=============================================================================
