---------------------------- MODULE EndgameProofs ----------------------------
(***************************************************************************)
(* What the proofs about a request need of the positions, tile counts, draws, *)
(* values and game trees the end-game is solved with: lemmas about the     *)
(* operators of Ordering, TileGame and HiddenEndgame, for every board, rack, *)
(* bag and score.                                                          *)
(***************************************************************************)
EXTENDS EngineRequest, SequencesExt, Induction, SequenceTheorems

-----------------------------------------------------------------------------
(* Sequences                                                               *)

\* No two members of a sequence are the same.
Distinct(seq) == \A i, j \in DOMAIN seq : seq[i] = seq[j] => i = j

\* The first n of a sequence, less what is not in S.
FilteredSoFar(s, seq, S, n) ==
    /\ s \in Seq(S) /\ Len(s) <= n
    /\ \A x : x \in Range(s) <=> x \in S /\ \E i \in 1 .. n : seq[i] = x
    /\ Distinct(seq) => Distinct(s)

\* One more member of the sequence, kept or not.
LEMMA FilteredStep ==
    ASSUME NEW Q, NEW seq \in Seq(Q), NEW S, NEW n \in Nat, n < Len(seq),
           NEW s, FilteredSoFar(s, seq, S, n)
    PROVE  FilteredSoFar(IF seq[n + 1] \in S THEN Append(s, seq[n + 1]) ELSE s, seq, S, n + 1)
<1>1. /\ Len(s) \in Nat /\ DOMAIN s = 1 .. Len(s) /\ s \in Seq(S) /\ Len(s) <= n
      /\ \A x : x \in Range(s) <=> x \in S /\ \E i \in 1 .. n : seq[i] = x
      /\ Distinct(seq) => Distinct(s)
      /\ DOMAIN seq = 1 .. Len(seq) /\ Len(seq) \in Nat
  BY DEF FilteredSoFar
<1>2. CASE seq[n + 1] \notin S
  <2>1. \A x : x \in S => ((\E i \in 1 .. n : seq[i] = x) <=> \E i \in 1 .. n + 1 : seq[i] = x)
    BY <1>2
  <2> QED
    BY <1>1, <1>2, <2>1 DEF FilteredSoFar
<1>3. CASE seq[n + 1] \in S
  <2> DEFINE e == seq[n + 1]
             t == Append(s, e)
  <2>1. e \in S /\ e = seq[n + 1]
    BY <1>3
  <2> HIDE DEF e
  <2>2. /\ t \in Seq(S) /\ Len(t) = Len(s) + 1 /\ DOMAIN t = 1 .. Len(s) + 1
        /\ t[Len(s) + 1] = e /\ \A i \in 1 .. Len(s) : t[i] = s[i]
    BY <1>1, <2>1
  <2> HIDE DEF t
  <2>3. \A x : x \in Range(t) <=> x \in Range(s) \/ x = e
    BY <1>1, <2>2 DEF Range
  <2>4. \A x : (\E i \in 1 .. n + 1 : seq[i] = x) <=> (\E i \in 1 .. n : seq[i] = x) \/ x = e
    BY <2>1
  <2>5. Distinct(seq) => Distinct(t)
    <3> SUFFICES ASSUME Distinct(seq), NEW i \in DOMAIN t, NEW j \in DOMAIN t, t[i] = t[j]
                 PROVE  i = j
      BY DEF Distinct
    <3>1. \A h \in 1 .. Len(s) : s[h] # e
      <4> SUFFICES ASSUME NEW h \in 1 .. Len(s), s[h] = e PROVE FALSE
        OBVIOUS
      <4>1. s[h] \in Range(s)
        BY <1>1 DEF Range
      <4>2. PICK k \in 1 .. n : seq[k] = e
        BY <1>1, <4>1
      <4>3. k \in DOMAIN seq /\ n + 1 \in DOMAIN seq /\ k # n + 1
        BY <1>1
      <4> QED
        BY <2>1, <4>2, <4>3 DEF Distinct
    <3>2. Distinct(s)
      BY <1>1
    <3> QED
      BY <1>1, <2>2, <3>1, <3>2 DEF Distinct
  <2>6. FilteredSoFar(t, seq, S, n + 1)
    BY <1>1, <2>1, <2>2, <2>3, <2>4, <2>5 DEF FilteredSoFar
  <2> QED
    BY <1>3, <2>6 DEF t, e
<1> QED
  BY <1>2, <1>3

\* What the recursive function of Filtered is.
Filters(g, seq, S) ==
    g = [i \in 0 .. Len(seq) |-> IF i = 0 THEN <<>>
                                 ELSE IF seq[i] \in S THEN Append(g[i - 1], seq[i]) ELSE g[i - 1]]

\* A filtered sequence holds what it is filtered for, each as often as before.
LEMMA FilteredShape ==
    ASSUME NEW Q, NEW seq \in Seq(Q), NEW S
    PROVE  /\ Filtered(seq, S) \in Seq(S) /\ Filtered(seq, S) \in Seq(Q)
           /\ Len(Filtered(seq, S)) <= Len(seq)
           /\ Range(Filtered(seq, S)) = Range(seq) \cap S
           /\ Distinct(seq) => Distinct(Filtered(seq, S))
<1> DEFINE kept == CHOOSE g : Filters(g, seq, S)
           step == [i \in 1 .. Len(seq) |->
                      [s \in Seq(S) |-> IF seq[i] \in S THEN Append(s, seq[i]) ELSE s]]
<1>1. Filtered(seq, S) = kept[Len(seq)]
  BY DEF Filtered, Filters
<1>2. Len(seq) \in Nat /\ DOMAIN seq = 1 .. Len(seq)
  OBVIOUS
<1>3. \E g : Filters(g, seq, S)
  <2>1. \A i \in 1 .. Len(seq) : \A s \in Seq(S) :
          step[i][s] = (IF seq[i] \in S THEN Append(s, seq[i]) ELSE s) /\ step[i][s] \in Seq(S)
    OBVIOUS
  <2>2. <<>> \in Seq(S)
    OBVIOUS
  <2> HIDE DEF step
  <2>3. PICK f : Stepwise(f, Len(seq), Seq(S), <<>>, step)
    BY <1>2, <2>1, <2>2, BoundedRecursion
  <2>4. f \in [0 .. Len(seq) -> Seq(S)] /\ f[0] = <<>>
    BY <2>3 DEF Stepwise
  <2>5. \A i \in 1 .. Len(seq) : f[i] = step[i][f[i - 1]]
    BY <2>3 DEF Stepwise
  <2>6. \A i \in 1 .. Len(seq) : f[i - 1] \in Seq(S)
    BY <1>2, <2>4
  <2>7. \A i \in 0 .. Len(seq) : f[i] = IF i = 0 THEN <<>>
                                        ELSE IF seq[i] \in S THEN Append(f[i - 1], seq[i]) ELSE f[i - 1]
    <3>1. \A i \in 1 .. Len(seq) : f[i] = IF seq[i] \in S THEN Append(f[i - 1], seq[i]) ELSE f[i - 1]
      BY <2>1, <2>5, <2>6, Zenon
    <3>2. \A i \in 0 .. Len(seq) : i = 0 \/ i \in 1 .. Len(seq)
      BY <1>2
    <3> QED
      BY <2>4, <3>1, <3>2, Zenon
  <2>8. f = [i \in 0 .. Len(seq) |-> f[i]]
    BY <2>4
  <2>9. Filters(f, seq, S)
    BY <2>7, <2>8, Zenon DEF Filters
  <2> QED
    BY <2>9
<1>4. Filters(kept, seq, S)
  BY <1>3, Zenon
<1> HIDE DEF kept
<1> DEFINE Right == {n \in Nat : n <= Len(seq) => FilteredSoFar(kept[n], seq, S, n)}
<1>5. 0 \in Right
  <2>1. kept[0] = <<>>
    BY <1>2, <1>4 DEF Filters
  <2>2. FilteredSoFar(<<>>, seq, S, 0)
    BY DEF FilteredSoFar, Range, Distinct
  <2> QED
    BY <2>1, <2>2
<1>6. ASSUME NEW n \in Right PROVE n + 1 \in Right
  <2> SUFFICES ASSUME n + 1 <= Len(seq) PROVE FilteredSoFar(kept[n + 1], seq, S, n + 1)
    OBVIOUS
  <2>1. n \in Nat /\ n < Len(seq) /\ FilteredSoFar(kept[n], seq, S, n)
    BY <1>2
  <2>2. kept[n + 1] = IF seq[n + 1] \in S THEN Append(kept[n], seq[n + 1]) ELSE kept[n]
    <3>1. n + 1 \in 0 .. Len(seq) /\ n + 1 # 0 /\ (n + 1) - 1 = n
      BY <1>2, <2>1
    <3> QED
      BY <1>4, <3>1 DEF Filters
  <2> QED
    BY <2>1, <2>2, FilteredStep
<1>7. Right = Nat
  <2>1. Right \in SUBSET Nat
    OBVIOUS
  <2> HIDE DEF Right
  <2> QED
    BY <1>5, <1>6, <2>1, NatClosed
<1>8. FilteredSoFar(kept[Len(seq)], seq, S, Len(seq))
  BY <1>2, <1>7
<1> DEFINE r == kept[Len(seq)]
<1>9. /\ r \in Seq(S) /\ Len(r) <= Len(seq) /\ Len(r) \in Nat /\ DOMAIN r = 1 .. Len(r)
      /\ Distinct(seq) => Distinct(r)
      /\ \A x : x \in Range(r) <=> x \in S /\ \E i \in 1 .. Len(seq) : seq[i] = x
  BY <1>8 DEF FilteredSoFar
<1>10. r = Filtered(seq, S)
  BY <1>1
<1> HIDE DEF r
<1>11. Range(r) = Range(seq) \cap S
  BY <1>2, <1>9 DEF Range
<1>12. \A i \in 1 .. Len(r) : r[i] \in Q
  <2> SUFFICES ASSUME NEW i \in 1 .. Len(r) PROVE r[i] \in Q
    OBVIOUS
  <2>1. r[i] \in Range(r)
    BY <1>9 DEF Range
  <2>2. PICK j \in 1 .. Len(seq) : seq[j] = r[i]
    BY <1>9, <2>1
  <2> QED
    BY <1>2, <2>2
<1>13. r \in Seq(Q)
  BY <1>9, <1>12, SeqDef
<1> QED
  BY <1>9, <1>10, <1>11, <1>13

\* A finite set as a sequence.
LEMMA SetToSeqShape ==
    ASSUME NEW S, IsFiniteSet(S)
    PROVE  /\ SetToSeq(S) \in Seq(S) /\ Len(SetToSeq(S)) = Cardinality(S) /\ Len(SetToSeq(S)) \in Nat
           /\ Range(SetToSeq(S)) = S
           /\ Distinct(SetToSeq(S))
<1> DEFINE n == Cardinality(S)
           f == SetToSeq(S)
<1>1. n \in Nat /\ ExistsBijection(1 .. n, S)
  BY FS_CardinalityType
<1>2. \E g \in [1 .. n -> S] : IsInjective(g)
  BY <1>1 DEF ExistsBijection, Bijection, Injection
<1>3. f \in [1 .. n -> S] /\ IsInjective(f)
  BY <1>2 DEF SetToSeq
<1> HIDE DEF f
<1>4. f \in Injection(1 .. n, S)
  BY <1>3 DEF Injection
<1>5. IsFiniteSet(1 .. n) /\ Cardinality(1 .. n) = Cardinality(S)
  BY <1>1, FS_Interval
<1>6. f \in Surjection(1 .. n, S)
  BY <1>4, <1>5, FS_Injection
<1>7. Range(f) = S
  BY <1>3, <1>6 DEF Range, Surjection
<1>8. f \in Seq(S) /\ Len(f) = n
  BY <1>1, <1>3, SeqDef
<1> QED
  BY <1>1, <1>3, <1>7, <1>8 DEF f, Distinct, IsInjective

-----------------------------------------------------------------------------
(* Sorting                                                                 *)

\* Before, as a set of pairs.
Below(x, S, R) == {y \in S : <<y, x>> \in R}
\* Each member of S with the number of members up to it in the order R.
Places(S, R) == {<<1 + Cardinality(Below(x, S, R)), x>> : x \in S}
\* S as a sequence in the order R.
OrderedBy(S, R) == [i \in 1 .. Cardinality(S) |-> (CHOOSE p \in Places(S, R) : p[1] = i)[2]]

\* R orders S strictly, and any two members of it.
StrictTotalOrder(S, R) ==
    /\ \A x \in S : <<x, x>> \notin R
    /\ \A x, y, z \in S : <<x, y>> \in R /\ <<y, z>> \in R => <<x, z>> \in R
    /\ \A x, y \in S : x = y \/ <<x, y>> \in R \/ <<y, x>> \in R

\* Sorting a finite set under a strict total order lists its members, each
\* once, in that order.
LEMMA OrderedByShape ==
    ASSUME NEW S, IsFiniteSet(S), NEW R, StrictTotalOrder(S, R)
    PROVE  /\ OrderedBy(S, R) \in Seq(S) /\ Len(OrderedBy(S, R)) = Cardinality(S)
           /\ Range(OrderedBy(S, R)) = S
           /\ \A i, j \in DOMAIN OrderedBy(S, R) :
                i < j => <<OrderedBy(S, R)[i], OrderedBy(S, R)[j]>> \in R
<1> DEFINE B(x) == Below(x, S, R)
           n == Cardinality(S)
           rank == [x \in S |-> 1 + Cardinality(B(x))]
<1>1. n \in Nat
  BY FS_CardinalityType
<1>2. \A x \in S : /\ IsFiniteSet(B(x)) /\ Cardinality(B(x)) \in Nat
                   /\ Cardinality(B(x)) < n
  <2> SUFFICES ASSUME NEW x \in S
               PROVE  /\ IsFiniteSet(B(x)) /\ Cardinality(B(x)) \in Nat
                      /\ Cardinality(B(x)) < n
    OBVIOUS
  <2>1. B(x) \in SUBSET (S \ {x})
    BY DEF Below, StrictTotalOrder
  <2>2. IsFiniteSet(S \ {x}) /\ Cardinality(S \ {x}) = n - 1
    BY FS_RemoveElement
  <2> HIDE DEF B
  <2>3. IsFiniteSet(B(x)) /\ Cardinality(B(x)) <= n - 1
    BY <2>1, <2>2, FS_Subset
  <2> QED
    BY <1>1, <2>3, FS_CardinalityType
<1>3. ASSUME NEW x \in S, NEW y \in S, <<x, y>> \in R PROVE rank[x] < rank[y]
  <2>1. B(x) \in SUBSET B(y) /\ x \in B(y) /\ x \notin B(x)
    BY <1>3 DEF Below, StrictTotalOrder
  <2> HIDE DEF B
  <2>2. Cardinality(B(x)) <= Cardinality(B(y)) /\ (Cardinality(B(x)) = Cardinality(B(y)) => B(x) = B(y))
    BY <1>2, <2>1, FS_Subset
  <2>3. Cardinality(B(x)) < Cardinality(B(y))
    BY <1>2, <2>1, <2>2
  <2> QED
    BY <1>2, <2>3
<1>4. rank \in Injection(S, 1 .. n)
  <2>1. rank \in [S -> 1 .. n]
    <3> HIDE DEF B, n
    <3> QED
      BY <1>1, <1>2
  <2>2. ASSUME NEW x \in S, NEW y \in S, rank[x] = rank[y] PROVE x = y
    <3>1. rank[x] \in Int /\ rank[y] \in Int
      BY <2>1
    <3>2. x = y \/ <<x, y>> \in R \/ <<y, x>> \in R
      BY DEF StrictTotalOrder
    <3>3. ~ (<<x, y>> \in R) /\ ~ (<<y, x>> \in R)
      <4> HIDE DEF rank
      <4> QED
        BY <1>3, <2>2, <3>1
    <3> QED
      BY <3>2, <3>3
  <2> HIDE DEF rank
  <2> QED
    BY <2>1, <2>2 DEF Injection, IsInjective
<1>5. IsFiniteSet(1 .. n) /\ Cardinality(1 .. n) = n
  BY <1>1, FS_Interval
<1>6. rank \in Surjection(S, 1 .. n)
  <2> HIDE DEF rank
  <2> QED
    BY <1>4, <1>5, FS_Injection
<1>7. Places(S, R) = {<<rank[x], x>> : x \in S}
  BY DEF Places
<1> HIDE DEF rank
<1>8. ASSUME NEW i \in 1 .. n
      PROVE  OrderedBy(S, R)[i] \in S /\ rank[OrderedBy(S, R)[i]] = i
  <2>1. PICK x \in S : rank[x] = i
    BY <1>6 DEF Surjection
  <2>2. \E p \in Places(S, R) : p[1] = i
    <3>1. <<rank[x], x>> \in Places(S, R) /\ <<rank[x], x>>[1] = i
      BY <1>7, <2>1
    <3> QED
      BY <3>1
  <2> DEFINE p == CHOOSE p \in Places(S, R) : p[1] = i
  <2>3. p \in Places(S, R) /\ p[1] = i
    BY <2>2
  <2>4. OrderedBy(S, R)[i] = p[2]
    BY DEF OrderedBy
  <2> HIDE DEF p
  <2>5. PICK y \in S : p = <<rank[y], y>>
    BY <1>7, <2>3
  <2> QED
    BY <2>3, <2>4, <2>5
<1> DEFINE o == OrderedBy(S, R)
<1>9. o \in [1 .. n -> S]
  <2>1. o = [i \in 1 .. n |-> o[i]]
    BY DEF OrderedBy
  <2>2. \A i \in 1 .. n : o[i] \in S
    BY <1>8
  <2> HIDE DEF o, n
  <2> QED
    BY <2>1, <2>2
<1>10. \A i \in 1 .. n : o[i] \in S /\ rank[o[i]] = i
  BY <1>8
<1>11. o \in Seq(S) /\ Len(o) = n /\ DOMAIN o = 1 .. n
  <2> HIDE DEF o, n
  <2> QED
    BY <1>1, <1>9, SeqDef
<1> HIDE DEF o, n
<1>12. ASSUME NEW x \in S PROVE \E i \in 1 .. n : o[i] = x
  <2>1. rank[x] \in 1 .. n
    BY <1>4 DEF Injection
  <2>2. o[rank[x]] \in S /\ rank[o[rank[x]]] = rank[x]
    BY <1>10, <2>1
  <2>3. o[rank[x]] = x
    BY <1>4, <2>2 DEF Injection, IsInjective
  <2> QED
    BY <2>1, <2>3
<1>13. Range(o) = S
  BY <1>10, <1>11, <1>12 DEF Range
<1>14. ASSUME NEW i \in 1 .. n, NEW j \in 1 .. n, i < j PROVE <<o[i], o[j]>> \in R
  <2>1. o[i] \in S /\ o[j] \in S /\ rank[o[i]] = i /\ rank[o[j]] = j
    BY <1>10
  <2>2. o[i] = o[j] \/ <<o[i], o[j]>> \in R \/ <<o[j], o[i]>> \in R
    BY <2>1 DEF StrictTotalOrder
  <2>3. o[i] # o[j] /\ ~ (<<o[j], o[i]>> \in R)
    BY <1>3, <1>14, <2>1
  <2> QED
    BY <2>2, <2>3
<1> QED
  BY <1>11, <1>13, <1>14 DEF o, n

-----------------------------------------------------------------------------
(* Tiles                                                                   *)

\* The tiles of c, each by its weight.
Weighed(c, w) == SumFunctionOnSet([k \in Kinds |-> c[k] * w[k]], Kinds)
\* The weight that counts the tiles.
Ones == [k \in Kinds |-> 1]
\* The weight of a kind: what one tile of it can move the difference of the scores by.
StakeOf == [k \in Kinds |-> MostScore + 2 * PointsOf[k]]
\* A single tile of kind k.
One(k) == [j \in Kinds |-> IF j = k THEN 1 ELSE 0]

\* What Z3 is told of products, which it leaves alone otherwise.
LEMMA ProductTypes ==
    /\ \A a, b \in Int : a * b \in Int
    /\ \A a, b \in Nat : a * b \in Nat
    /\ \A a, b \in Int : a * 1 = a /\ 0 * b = 0
    /\ \A a, b, c \in Int : (a + b) * c = a * c + b * c /\ (a - b) * c = a * c - b * c
OBVIOUS

\* A product of naturals grows with its first factor.
LEMMA ProductGrows == \A a, b, w \in Nat : a <= b => a * w <= b * w
<1> SUFFICES ASSUME NEW a \in Nat, NEW b \in Nat, NEW w \in Nat, a <= b PROVE a * w <= b * w
  OBVIOUS
<1> DEFINE d == b - a
<1>1. d \in Nat /\ b = a + d
  OBVIOUS
<1> HIDE DEF d
<1>2. (a + d) * w = a * w + d * w /\ a * w \in Nat /\ d * w \in Nat
  BY <1>1, ProductTypes
<1> QED
  BY <1>1, <1>2

\* Counts weigh a whole number, and tiles a natural one.
LEMMA WeighedType ==
    ASSUME NEW c \in [Kinds -> Int], NEW w \in [Kinds -> Nat]
    PROVE  /\ Weighed(c, w) \in Int
           /\ c \in Tiles => Weighed(c, w) \in Nat
<1> DEFINE f == [k \in Kinds |-> c[k] * w[k]]
<1>1. \A k \in Kinds : f[k] \in Int /\ (c \in Tiles => f[k] \in Nat)
  BY ProductTypes DEF Tiles
<1>2. IsFiniteSet(Kinds) /\ Kinds \in SUBSET Kinds
  BY TileGameAssumption
<1> HIDE DEF f
<1>3. SumFunctionOnSet(f, Kinds) \in Int
  BY <1>1, <1>2, SumByChosen
<1>4. c \in Tiles => SumFunctionOnSet(f, Kinds) \in Nat
  BY <1>1, <1>2, SumSubset
<1> QED
  BY <1>3, <1>4 DEF f, Weighed

\* Weights add up.
LEMMA WeighedPlus ==
    ASSUME NEW c \in [Kinds -> Int], NEW d \in [Kinds -> Int], NEW w \in [Kinds -> Nat]
    PROVE  Weighed(Plus(c, d), w) = Weighed(c, w) + Weighed(d, w)
<1> DEFINE f == [k \in Kinds |-> c[k] * w[k]]
           g == [k \in Kinds |-> d[k] * w[k]]
           h == [k \in Kinds |-> Plus(c, d)[k] * w[k]]
<1>1. ASSUME NEW k \in Kinds PROVE f[k] \in Int /\ g[k] \in Int /\ h[k] = f[k] + g[k]
  <2>1. c[k] \in Int /\ d[k] \in Int /\ w[k] \in Int /\ Plus(c, d)[k] = c[k] + d[k]
    BY DEF Plus
  <2>2. (c[k] + d[k]) * w[k] = c[k] * w[k] + d[k] * w[k] /\ c[k] * w[k] \in Int /\ d[k] * w[k] \in Int
    BY <2>1, ProductTypes
  <2> QED
    BY <2>1, <2>2
<1>2. IsFiniteSet(Kinds)
  BY TileGameAssumption
<1> HIDE DEF f, g, h
<1>3. SumFunctionOnSet(h, Kinds) = SumFunctionOnSet(f, Kinds) + SumFunctionOnSet(g, Kinds)
  BY <1>1, <1>2, SumAdd
<1> QED
  BY <1>3 DEF f, g, h, Weighed

\* Weights subtract.
LEMMA WeighedMinus ==
    ASSUME NEW c \in [Kinds -> Int], NEW d \in [Kinds -> Int], NEW w \in [Kinds -> Nat]
    PROVE  Weighed(Minus(c, d), w) = Weighed(c, w) - Weighed(d, w)
<1>1. Minus(c, d) \in [Kinds -> Int] /\ Plus(Minus(c, d), d) = c
  BY DEF Minus, Plus
<1>2. Weighed(c, w) = Weighed(Minus(c, d), w) + Weighed(d, w)
  BY <1>1, WeighedPlus
<1>3. Weighed(Minus(c, d), w) \in Int /\ Weighed(d, w) \in Int
  BY <1>1, WeighedType
<1> QED
  BY <1>2, <1>3

\* Fewer tiles of each kind weigh no more.
LEMMA WeighedWithin ==
    ASSUME NEW c \in Tiles, NEW d \in Tiles, NEW w \in [Kinds -> Nat], Within(c, d)
    PROVE  Weighed(c, w) <= Weighed(d, w)
<1>1. c \in [Kinds -> Int] /\ d \in [Kinds -> Int] /\ Minus(d, c) \in Tiles /\ Minus(d, c) \in [Kinds -> Int]
  BY DEF Tiles, Within, Minus
<1>2. Weighed(Minus(d, c), w) = Weighed(d, w) - Weighed(c, w) /\ Weighed(Minus(d, c), w) \in Nat
  BY <1>1, WeighedMinus, WeighedType
<1>3. Weighed(d, w) \in Int /\ Weighed(c, w) \in Int
  BY <1>1, WeighedType
<1> QED
  BY <1>2, <1>3

\* One tile weighs at most what all weigh.
LEMMA WeighedMember ==
    ASSUME NEW c \in Tiles, NEW w \in [Kinds -> Nat], NEW k \in Kinds
    PROVE  /\ c[k] * w[k] <= Weighed(c, w) /\ c[k] * w[k] \in Nat
           /\ c[k] > 0 => w[k] <= Weighed(c, w)
<1> DEFINE f == [j \in Kinds |-> c[j] * w[j]]
<1>1. \A j \in Kinds : f[j] \in Nat
  BY ProductTypes DEF Tiles
<1>2. f[k] <= SumFunctionOnSet(f, Kinds)
  <2> HIDE DEF f
  <2> QED
    BY <1>1, TileGameAssumption, SumMember
<1>3. c[k] > 0 => w[k] <= c[k] * w[k]
  <2> SUFFICES ASSUME c[k] > 0 PROVE w[k] <= c[k] * w[k]
    OBVIOUS
  <2>1. 1 \in Nat /\ c[k] \in Nat /\ w[k] \in Nat /\ 1 <= c[k] /\ 1 * w[k] = w[k]
    BY DEF Tiles
  <2>2. 1 * w[k] <= c[k] * w[k]
    BY <2>1, ProductGrows
  <2> QED
    BY <2>1, <2>2
<1>4. Weighed(c, w) \in Nat /\ w[k] \in Nat
  <2>1. c \in [Kinds -> Int]
    BY DEF Tiles
  <2> QED
    BY <2>1, WeighedType
<1> QED
  BY <1>1, <1>2, <1>3, <1>4 DEF Weighed

\* Totals, points and stakes are weights.
LEMMA Weights ==
    /\ Ones \in [Kinds -> Nat] /\ PointsOf \in [Kinds -> Nat] /\ StakeOf \in [Kinds -> Nat]
    /\ \A c \in [Kinds -> Int] : /\ Total(c) = Weighed(c, Ones) /\ Points(c) = Weighed(c, PointsOf)
                                 /\ Stake(c) = Weighed(c, StakeOf)
<1>1. PointsOf \in [Kinds -> Nat] /\ MostScore \in Nat /\ IsFiniteSet(Kinds)
  BY TileGameAssumption, RequestAssumption
<1>2. Ones \in [Kinds -> Nat] /\ StakeOf \in [Kinds -> Nat]
  BY <1>1 DEF Ones, StakeOf
<1> SUFFICES ASSUME NEW c \in [Kinds -> Int]
             PROVE  /\ Total(c) = Weighed(c, Ones) /\ Points(c) = Weighed(c, PointsOf)
                    /\ Stake(c) = Weighed(c, StakeOf)
  BY <1>1, <1>2
<1>3. Total(c) = Weighed(c, Ones)
  <2> DEFINE f == [k \in Kinds |-> c[k] * Ones[k]]
  <2>1. \A k \in Kinds : c[k] \in Int /\ f[k] = c[k]
    BY DEF Ones
  <2> HIDE DEF f
  <2>2. SumFunctionOnSet(f, Kinds) = SumFunctionOnSet(c, Kinds)
    BY <1>1, <2>1, SumEqual
  <2> QED
    BY <2>2 DEF f, Weighed, Total
<1>4. [k \in Kinds |-> c[k] * (MostScore + 2 * PointsOf[k])] = [k \in Kinds |-> c[k] * StakeOf[k]]
  BY DEF StakeOf
<1> QED
  BY <1>3, <1>4 DEF Points, Stake, Weighed

\* What totals, points and stakes are, what they are of sums and differences,
\* and that they grow.
LEMMA TileCounts ==
    /\ \A c \in Tiles : Total(c) \in Nat /\ Points(c) \in Nat /\ Stake(c) \in Nat
    /\ \A c, d \in Tiles : /\ Plus(c, d) \in Tiles
                           /\ Total(Plus(c, d)) = Total(c) + Total(d)
                           /\ Points(Plus(c, d)) = Points(c) + Points(d)
                           /\ Stake(Plus(c, d)) = Stake(c) + Stake(d)
    /\ \A c, d \in Tiles : Within(d, c) =>
                           /\ Minus(c, d) \in Tiles
                           /\ Total(Minus(c, d)) = Total(c) - Total(d)
                           /\ Points(Minus(c, d)) = Points(c) - Points(d)
                           /\ Stake(Minus(c, d)) = Stake(c) - Stake(d)
                           /\ Total(d) <= Total(c) /\ Points(d) <= Points(c) /\ Stake(d) <= Stake(c)
<1>1. Tiles \subseteq [Kinds -> Int]
  BY DEF Tiles
<1>2. ASSUME NEW c \in Tiles PROVE Total(c) \in Nat /\ Points(c) \in Nat /\ Stake(c) \in Nat
  <2>1. c \in [Kinds -> Int]
    BY <1>1
  <2> QED
    BY <2>1, Weights, WeighedType
<1>3. ASSUME NEW c \in Tiles, NEW d \in Tiles
      PROVE  /\ Plus(c, d) \in Tiles
             /\ Total(Plus(c, d)) = Total(c) + Total(d)
             /\ Points(Plus(c, d)) = Points(c) + Points(d)
             /\ Stake(Plus(c, d)) = Stake(c) + Stake(d)
  <2>1. Plus(c, d) \in Tiles
    BY DEF Plus, Tiles
  <2>2. c \in [Kinds -> Int] /\ d \in [Kinds -> Int] /\ Plus(c, d) \in [Kinds -> Int]
    BY <1>1, <2>1
  <2> QED
    BY <2>1, <2>2, Weights, WeighedPlus
<1>4. ASSUME NEW c \in Tiles, NEW d \in Tiles, Within(d, c)
      PROVE  /\ Minus(c, d) \in Tiles
             /\ Total(Minus(c, d)) = Total(c) - Total(d)
             /\ Points(Minus(c, d)) = Points(c) - Points(d)
             /\ Stake(Minus(c, d)) = Stake(c) - Stake(d)
             /\ Total(d) <= Total(c) /\ Points(d) <= Points(c) /\ Stake(d) <= Stake(c)
  <2>1. Minus(c, d) \in Tiles
    BY <1>4 DEF Minus, Tiles, Within
  <2>2. c \in [Kinds -> Int] /\ d \in [Kinds -> Int] /\ Minus(c, d) \in [Kinds -> Int]
    BY <1>1, <2>1
  <2>3. Total(d) <= Total(c) /\ Points(d) <= Points(c) /\ Stake(d) <= Stake(c)
    BY <1>4, <2>2, Weights, WeighedWithin
  <2> QED
    BY <2>1, <2>2, <2>3, Weights, WeighedMinus
<1> QED
  BY <1>2, <1>3, <1>4

\* No tile at all: no points, no stake.
LEMMA NothingCounts ==
    /\ NoTiles \in Tiles /\ Total(NoTiles) = 0 /\ Points(NoTiles) = 0 /\ Stake(NoTiles) = 0
    /\ \A c \in Tiles : Total(c) = 0 => c = NoTiles
    /\ \A c \in Tiles : Total(c) > 0 => \E k \in Kinds : c[k] > 0
<1>1. NoTiles \in Tiles
  BY DEF NoTiles, Tiles
<1>2. Minus(NoTiles, NoTiles) = NoTiles /\ Within(NoTiles, NoTiles)
  BY DEF NoTiles, Minus, Within
<1>3. Total(NoTiles) = 0 /\ Points(NoTiles) = 0 /\ Stake(NoTiles) = 0
  BY <1>1, <1>2, TileCounts
<1>4. ASSUME NEW c \in Tiles, NEW k \in Kinds PROVE c[k] \in Nat /\ c[k] <= Total(c)
  <2>1. c \in [Kinds -> Int] /\ c[k] \in Nat /\ Ones[k] = 1 /\ c[k] * 1 = c[k]
    BY DEF Tiles, Ones
  <2>2. c[k] * Ones[k] <= Weighed(c, Ones)
    BY Weights, WeighedMember
  <2> QED
    BY <2>1, <2>2, Weights
<1>5. ASSUME NEW c \in Tiles, Total(c) = 0 PROVE c = NoTiles
  <2>1. \A k \in Kinds : c[k] = 0
    BY <1>4, <1>5
  <2> QED
    BY <2>1 DEF NoTiles, Tiles
<1>6. ASSUME NEW c \in Tiles, Total(c) > 0 PROVE \E k \in Kinds : c[k] > 0
  <2> SUFFICES ASSUME \A k \in Kinds : ~ (c[k] > 0) PROVE FALSE
    OBVIOUS
  <2>1. \A k \in Kinds : c[k] = 0
    BY <1>4
  <2>2. c = NoTiles
    BY <2>1 DEF NoTiles, Tiles
  <2> QED
    BY <1>3, <1>6, <2>2
<1> QED
  BY <1>1, <1>3, <1>5, <1>6

\* One tile.
LEMMA OneTile ==
    ASSUME NEW k \in Kinds
    PROVE  /\ One(k) \in Tiles /\ Total(One(k)) = 1
           /\ \A c \in Tiles : With(c, k) = Plus(c, One(k))
           /\ \A c \in Tiles : c[k] > 0 => Without(c, k) = Minus(c, One(k)) /\ Within(One(k), c)
<1>1. One(k) \in Tiles /\ IsFiniteSet(Kinds)
  BY TileGameAssumption DEF One, Tiles
<1>2. Total(One(k)) = 1
  <2>1. \A x \in Kinds : One(k)[x] \in Int
    BY DEF One
  <2>2. Total(One(k)) = One(k)[k] + SumFunctionOnSet(One(k), Kinds \ {k})
    BY <1>1, <2>1, SumRemove DEF Total
  <2>3. \A x \in Kinds \ {k} : NoTiles[x] \in Int /\ One(k)[x] = NoTiles[x]
    BY DEF One, NoTiles
  <2>4. IsFiniteSet(Kinds \ {k})
    BY <1>1, FS_RemoveElement
  <2>5. SumFunctionOnSet(One(k), Kinds \ {k}) = SumFunctionOnSet(NoTiles, Kinds \ {k})
    BY <2>3, <2>4, SumEqual
  <2>6. SumFunctionOnSet(NoTiles, Kinds) = NoTiles[k] + SumFunctionOnSet(NoTiles, Kinds \ {k})
        /\ SumFunctionOnSet(NoTiles, Kinds \ {k}) \in Int
    <3>1. \A x \in Kinds : NoTiles[x] \in Int
      BY DEF NoTiles
    <3> QED
      BY <1>1, <3>1, SumRemove
  <2>7. SumFunctionOnSet(NoTiles, Kinds) = 0 /\ NoTiles[k] = 0 /\ One(k)[k] = 1
    BY NothingCounts DEF Total, NoTiles, One
  <2> QED
    BY <2>2, <2>5, <2>6, <2>7
<1>3. ASSUME NEW c \in Tiles PROVE With(c, k) = Plus(c, One(k))
  <2>1. c \in [Kinds -> Nat]
    BY DEF Tiles
  <2>2. \A j \in Kinds : With(c, k)[j] = Plus(c, One(k))[j]
    BY <2>1 DEF With, Plus, One
  <2>3. With(c, k) \in [Kinds -> Nat] /\ Plus(c, One(k)) \in [Kinds -> Nat]
    BY <2>1 DEF With, Plus, One
  <2> QED
    BY <2>2, <2>3
<1>4. ASSUME NEW c \in Tiles, c[k] > 0 PROVE Without(c, k) = Minus(c, One(k)) /\ Within(One(k), c)
  <2>1. c \in [Kinds -> Nat]
    BY DEF Tiles
  <2>2. \A j \in Kinds : Without(c, k)[j] = Minus(c, One(k))[j]
    BY <2>1 DEF Without, Minus, One
  <2>3. Without(c, k) \in [Kinds -> Int] /\ Minus(c, One(k)) \in [Kinds -> Int]
    BY <2>1 DEF Without, Minus, One
  <2>4. Within(One(k), c)
    BY <1>4, <2>1 DEF Within, One
  <2> QED
    BY <2>2, <2>3, <2>4
<1> QED
  BY <1>1, <1>2, <1>3, <1>4

\* Tiles score once, alone, and count twice: that much is at stake.
LEMMA StakeCovers ==
    ASSUME NEW c \in Tiles
    PROVE  /\ 2 * Points(c) <= Stake(c)
           /\ Total(c) > 0 => MostScore <= Stake(c)
<1>1. c \in [Kinds -> Int] /\ IsFiniteSet(Kinds) /\ PointsOf \in [Kinds -> Nat] /\ MostScore \in Nat
  BY TileGameAssumption, RequestAssumption DEF Tiles
<1>2. 2 * Points(c) <= Stake(c)
  <2> DEFINE f == [k \in Kinds |-> c[k] * PointsOf[k]]
             g == [k \in Kinds |-> f[k] + f[k]]
             h == [k \in Kinds |-> c[k] * StakeOf[k]]
  <2>1. \A k \in Kinds : f[k] \in Int /\ g[k] = f[k] + f[k] /\ g[k] \in Int
    BY <1>1, ProductTypes
  <2>2. ASSUME NEW k \in Kinds PROVE h[k] \in Int /\ g[k] <= h[k]
    <3>1. c[k] \in Nat /\ PointsOf[k] \in Nat /\ StakeOf[k] = MostScore + 2 * PointsOf[k]
      BY <1>1 DEF StakeOf, Tiles
    <3>2. c[k] * StakeOf[k] = c[k] * MostScore + (c[k] * PointsOf[k] + c[k] * PointsOf[k])
      <4> DEFINE a == c[k]
                 p == PointsOf[k]
      <4>1. a \in Nat /\ p \in Nat /\ MostScore \in Nat /\ StakeOf[k] = MostScore + 2 * p
        BY <1>1, <3>1
      <4> HIDE DEF a, p
      <4>2. a * (MostScore + 2 * p) = a * MostScore + (a * p + a * p)
        BY <4>1
      <4> QED
        BY <4>1, <4>2 DEF a, p
    <3>3. c[k] * MostScore \in Nat /\ c[k] * PointsOf[k] \in Nat
      BY <1>1, <3>1, ProductTypes
    <3> QED
      BY <3>2, <3>3
  <2> HIDE DEF f, g, h
  <2>3. SumFunctionOnSet(g, Kinds) = SumFunctionOnSet(f, Kinds) + SumFunctionOnSet(f, Kinds)
    BY <1>1, <2>1, SumAdd
  <2>4. SumFunctionOnSet(g, Kinds) <= SumFunctionOnSet(h, Kinds)
    BY <1>1, <2>1, <2>2, SumGrows
  <2>5. Points(c) = SumFunctionOnSet(f, Kinds) /\ Stake(c) = SumFunctionOnSet(h, Kinds)
    <3>1. Stake(c) = Weighed(c, StakeOf)
      BY <1>1, Weights
    <3> QED
      BY <3>1 DEF f, h, Points, Weighed
  <2>6. Points(c) \in Nat
    BY TileCounts
  <2> QED
    BY <2>3, <2>4, <2>5, <2>6
<1>3. ASSUME Total(c) > 0 PROVE MostScore <= Stake(c)
  <2>1. PICK k \in Kinds : c[k] > 0
    BY <1>3, NothingCounts
  <2>2. StakeOf[k] <= Weighed(c, StakeOf)
    BY <2>1, Weights, WeighedMember
  <2>3. StakeOf[k] = MostScore + 2 * PointsOf[k] /\ PointsOf[k] \in Nat
    BY <1>1 DEF StakeOf
  <2>4. Weighed(c, StakeOf) = Stake(c) /\ Stake(c) \in Nat
    BY <1>1, Weights, TileCounts
  <2> QED
    BY <1>1, <2>2, <2>3, <2>4
<1> QED
  BY <1>2, <1>3

-----------------------------------------------------------------------------
(* Least and largest                                                       *)

\* The least and the largest of two.
LEMMA MinMaxTwo ==
    ASSUME NEW a \in Int, NEW b \in Int
    PROVE  /\ Min({a, b}) = IF a <= b THEN a ELSE b
           /\ Max({a, b}) = IF a <= b THEN b ELSE a
<1>1. \E x \in {a, b} : \A y \in {a, b} : x <= y
  OBVIOUS
<1>2. \E x \in {a, b} : \A y \in {a, b} : x >= y
  OBVIOUS
<1>3. Min({a, b}) \in {a, b} /\ \A y \in {a, b} : Min({a, b}) <= y
  BY <1>1 DEF Min
<1>4. Max({a, b}) \in {a, b} /\ \A y \in {a, b} : Max({a, b}) >= y
  BY <1>2 DEF Max
<1> QED
  BY <1>3, <1>4

\* A set of integers between two bounds has a least and a largest member.
LEMMA MinMaxBetween ==
    ASSUME NEW lo \in Int, NEW hi \in Int, NEW S, S # {}, \A x \in S : x \in Int /\ lo <= x /\ x <= hi
    PROVE  /\ Min(S) \in S /\ \A x \in S : Min(S) <= x
           /\ Max(S) \in S /\ \A x \in S : x <= Max(S)
<1>1. S \in SUBSET (lo .. hi) /\ IsFiniteSet(lo .. hi)
  BY FS_Interval
<1>2. IsFiniteSet(S)
  BY <1>1, FS_Subset
<1>3. /\ \E m \in S : \A x \in S : x <= m
      /\ \E m \in S : \A x \in S : m <= x
  BY <1>2, FiniteExtremes
<1>4. \E m \in S : \A x \in S : m >= x
  BY <1>3
<1>5. Max(S) \in S /\ \A x \in S : Max(S) >= x
  BY <1>4 DEF Max
<1>6. Min(S) \in S /\ \A x \in S : Min(S) <= x
  BY <1>3 DEF Min
<1> QED
  BY <1>5, <1>6

-----------------------------------------------------------------------------
(* Draws                                                                   *)

\* The draws of n tiles out of a pool, without its recursion over kinds.
LEMMA SubmultisetsAre ==
    ASSUME NEW pool, NEW n \in Int, NEW c
    PROVE  c \in Submultisets(pool, n) <=> c \in Tiles /\ Within(c, pool) /\ Total(c) = n
<1>1. ASSUME c \in Submultisets(pool, n) PROVE c \in Tiles /\ Within(c, pool) /\ Total(c) = n
  BY <1>1 DEF Submultisets, Tiles
<1>2. ASSUME c \in Tiles, Within(c, pool), Total(c) = n PROVE c \in Submultisets(pool, n)
  <2>1. ASSUME NEW k \in Kinds PROVE c[k] \in 0 .. n
    <3>1. c[k] \in Nat /\ Ones[k] = 1 /\ c[k] * 1 = c[k] /\ c \in [Kinds -> Int]
      BY <1>2 DEF Tiles, Ones
    <3>2. c[k] * Ones[k] <= Weighed(c, Ones)
      BY <1>2, Weights, WeighedMember
    <3> QED
      BY <1>2, <3>1, <3>2, Weights
  <2>2. c \in [Kinds -> 0 .. n]
    BY <1>2, <2>1 DEF Tiles
  <2> QED
    BY <1>2, <2>2 DEF Submultisets
<1> QED
  BY <1>1, <1>2

\* Nothing is drawn, or a tile that is there and then the rest.
LEMMA DrawNothing == ASSUME NEW pool \in Tiles PROVE Submultisets(pool, 0) = {NoTiles}
<1>1. ASSUME NEW c \in Submultisets(pool, 0) PROVE c = NoTiles
  BY SubmultisetsAre, NothingCounts
<1>2. NoTiles \in Submultisets(pool, 0)
  <2>1. Within(NoTiles, pool)
    BY DEF Within, NoTiles, Tiles
  <2> QED
    BY <2>1, SubmultisetsAre, NothingCounts
<1> QED
  BY <1>1, <1>2

\* A tile out of the pool and a draw of the rest make a draw of one more.
LEMMA DrawOneMore ==
    ASSUME NEW pool \in Tiles, NEW n \in Nat, NEW k \in Kinds, pool[k] > 0
    PROVE  /\ Without(pool, k) \in Tiles /\ Total(Without(pool, k)) = Total(pool) - 1
           /\ Stake(Without(pool, k)) = Stake(pool) - Stake(One(k))
           /\ \A d \in Submultisets(Without(pool, k), n) :
                /\ Plus(d, One(k)) \in Submultisets(pool, n + 1)
                /\ Minus(pool, Plus(d, One(k))) = Minus(Without(pool, k), d)
<1>1. One(k) \in Tiles /\ Total(One(k)) = 1 /\ Without(pool, k) = Minus(pool, One(k)) /\ Within(One(k), pool)
  BY OneTile
<1>2. /\ Without(pool, k) \in Tiles /\ Total(Without(pool, k)) = Total(pool) - 1
      /\ Stake(Without(pool, k)) = Stake(pool) - Stake(One(k))
  BY <1>1, TileCounts
<1>3. ASSUME NEW d \in Submultisets(Without(pool, k), n)
      PROVE  /\ Plus(d, One(k)) \in Submultisets(pool, n + 1)
             /\ Minus(pool, Plus(d, One(k))) = Minus(Without(pool, k), d)
  <2>1. d \in Tiles /\ Within(d, Minus(pool, One(k))) /\ Total(d) = n
    BY <1>1, SubmultisetsAre
  <2>2. Plus(d, One(k)) \in Tiles /\ Total(Plus(d, One(k))) = n + 1
    BY <1>1, <2>1, TileCounts
  <2>3. Within(Plus(d, One(k)), pool)
    BY <1>1, <2>1 DEF Within, Plus, Minus, Tiles
  <2>4. Minus(pool, Plus(d, One(k))) = Minus(Minus(pool, One(k)), d)
    BY <1>1, <2>1 DEF Plus, Minus, Tiles
  <2> QED
    BY <1>1, <2>2, <2>3, <2>4, SubmultisetsAre
<1> QED
  BY <1>2, <1>3

\* Every draw of one more tile is such a tile and a draw of the rest.
LEMMA DrawSplits ==
    ASSUME NEW pool \in Tiles, NEW n \in Nat, NEW d \in Submultisets(pool, n + 1)
    PROVE  \E k \in Kinds : /\ pool[k] > 0 /\ d[k] > 0
                            /\ Minus(d, One(k)) \in Submultisets(Without(pool, k), n)
                            /\ Plus(Minus(d, One(k)), One(k)) = d
<1>1. d \in Tiles /\ Within(d, pool) /\ Total(d) = n + 1
  BY SubmultisetsAre
<1>2. PICK k \in Kinds : d[k] > 0
  BY <1>1, NothingCounts
<1>3. pool[k] > 0
  BY <1>1, <1>2 DEF Within, Tiles
<1>4. /\ One(k) \in Tiles /\ Total(One(k)) = 1 /\ Without(pool, k) = Minus(pool, One(k))
      /\ Without(d, k) = Minus(d, One(k)) /\ Within(One(k), d)
  BY <1>1, <1>2, <1>3, OneTile
<1>5. Minus(d, One(k)) \in Tiles /\ Total(Minus(d, One(k))) = n
  BY <1>1, <1>4, TileCounts
<1>6. Within(Minus(d, One(k)), Minus(pool, One(k)))
  BY <1>1, <1>4 DEF Within, Minus, Tiles
<1>7. Plus(Minus(d, One(k)), One(k)) = d
  BY <1>1, <1>4 DEF Plus, Minus, Tiles
<1> QED
  BY <1>2, <1>3, <1>4, <1>5, <1>6, <1>7, SubmultisetsAre

\* There is something to draw, and there are finitely many draws.
LEMMA DrawsExist ==
    ASSUME NEW n \in Nat
    PROVE  \A pool \in Tiles : n <= Total(pool) => Submultisets(pool, n) # {}
<1> DEFINE Right == {i \in Nat : \A pool \in Tiles : i <= Total(pool) => Submultisets(pool, i) # {}}
<1>1. 0 \in Right
  BY DrawNothing
<1>2. ASSUME NEW i \in Right PROVE i + 1 \in Right
  <2> SUFFICES ASSUME NEW pool \in Tiles, i + 1 <= Total(pool) PROVE Submultisets(pool, i + 1) # {}
    OBVIOUS
  <2>1. Total(pool) \in Nat /\ i \in Nat
    BY TileCounts
  <2>2. PICK k \in Kinds : pool[k] > 0
    BY <2>1, NothingCounts
  <2>3. Without(pool, k) \in Tiles /\ Total(Without(pool, k)) = Total(pool) - 1
    BY <2>1, <2>2, DrawOneMore
  <2>4. PICK d \in Submultisets(Without(pool, k), i) : TRUE
    BY <2>1, <2>3
  <2> QED
    BY <2>1, <2>2, <2>4, DrawOneMore
<1>3. Right = Nat
  <2>1. Right \in SUBSET Nat
    OBVIOUS
  <2> HIDE DEF Right
  <2> QED
    BY <1>1, <1>2, <2>1, NatClosed
<1> QED
  BY <1>3

\* There are finitely many draws, so the worst one exists.
LEMMA DrawsFinite ==
    ASSUME NEW n \in Nat
    PROVE  \A pool \in Tiles : IsFiniteSet(Submultisets(pool, n))
<1> DEFINE Right == {i \in Nat : \A pool \in Tiles : IsFiniteSet(Submultisets(pool, i))}
<1>1. 0 \in Right
  BY DrawNothing, FS_Singleton
<1>2. ASSUME NEW i \in Right PROVE i + 1 \in Right
  <2> SUFFICES ASSUME NEW pool \in Tiles PROVE IsFiniteSet(Submultisets(pool, i + 1))
    OBVIOUS
  <2> DEFINE P == Submultisets(pool, i) \X Kinds
             f == [x \in P |-> Plus(x[1], One(x[2]))]
             T == {f[x] : x \in P}
  <2>1. IsFiniteSet(P)
    BY TileGameAssumption, FS_Product
  <2>2. f \in Surjection(P, T)
    <3> HIDE DEF P
    <3> QED
      BY DEF Surjection
  <2>3. IsFiniteSet(T)
    <3> HIDE DEF P, f, T
    <3> QED
      BY <2>1, <2>2, FS_Surjection
  <2>4. Submultisets(pool, i + 1) \subseteq T
    <3> SUFFICES ASSUME NEW d \in Submultisets(pool, i + 1) PROVE d \in T
      OBVIOUS
    <3>1. i \in Nat
      OBVIOUS
    <3>2. PICK k \in Kinds : /\ pool[k] > 0
                             /\ Minus(d, One(k)) \in Submultisets(Without(pool, k), i)
                             /\ Plus(Minus(d, One(k)), One(k)) = d
      BY <3>1, DrawSplits
    <3>3. Minus(d, One(k)) \in Submultisets(pool, i)
      <4>1. Minus(d, One(k)) \in Tiles /\ Within(Minus(d, One(k)), Without(pool, k))
            /\ Total(Minus(d, One(k))) = i
        BY <3>1, <3>2, SubmultisetsAre
      <4>2. One(k) \in Tiles /\ Without(pool, k) = Minus(pool, One(k))
        BY <3>2, OneTile
      <4>3. Within(Minus(d, One(k)), pool)
        <5> DEFINE e == Minus(d, One(k))
        <5>1. e \in Tiles /\ Within(e, Minus(pool, One(k)))
          BY <4>1, <4>2
        <5> HIDE DEF e
        <5>2. Within(e, pool)
          BY <4>2, <5>1 DEF Within, Minus, Tiles
        <5> QED
          BY <5>2 DEF e
      <4> QED
        BY <3>1, <4>1, <4>3, SubmultisetsAre
    <3> DEFINE x == <<Minus(d, One(k)), k>>
    <3>4. x \in P /\ f[x] = d
      BY <3>2, <3>3
    <3> HIDE DEF x
    <3> QED
      BY <3>4
  <2> HIDE DEF T
  <2> QED
    BY <2>3, <2>4, FS_Subset
<1>3. Right = Nat
  <2>1. Right \in SUBSET Nat
    OBVIOUS
  <2> HIDE DEF Right
  <2> QED
    BY <1>1, <1>2, <2>1, NatClosed
<1> QED
  BY <1>3

-----------------------------------------------------------------------------
(* Positions                                                               *)

\* The tiles of a position and what can still be won or lost with them.
TilesAt(p) == Total(p.racks[0]) + Total(p.racks[1]) + Total(p.bag)
\* What can still be gained from p: the weight of all the tiles in it.
StakeAt(p) == Stake(p.racks[0]) + Stake(p.racks[1]) + Stake(p.bag)

\* The fields of a position and its counts.
LEMMA PositionParts ==
    ASSUME NEW p \in Positions
    PROVE  /\ p.board \in SUBSET Plays /\ p.bag \in Tiles /\ p.side \in 0 .. 1 /\ p.streak \in Nat
           /\ p.racks \in [0 .. 1 -> Tiles] /\ Mover(p) \in Tiles /\ Other(p) \in Tiles
           /\ TilesAt(p) = Total(Mover(p)) + Total(Other(p)) + Total(p.bag) /\ TilesAt(p) \in Nat
           /\ StakeAt(p) = Stake(Mover(p)) + Stake(Other(p)) + Stake(p.bag) /\ StakeAt(p) \in Nat
<1>1. /\ p.board \in SUBSET Plays /\ p.bag \in Tiles /\ p.side \in 0 .. 1 /\ p.streak \in Nat
      /\ p.racks \in [0 .. 1 -> Tiles]
  BY DEF Positions
<1>2. p.racks[0] \in Tiles /\ p.racks[1] \in Tiles
  BY <1>1
<1>3. \/ p.side = 0 /\ Mover(p) = p.racks[0] /\ Other(p) = p.racks[1]
      \/ p.side = 1 /\ Mover(p) = p.racks[1] /\ Other(p) = p.racks[0]
  BY <1>1 DEF Mover, Other
<1>4. /\ Total(p.racks[0]) \in Nat /\ Total(p.racks[1]) \in Nat /\ Total(p.bag) \in Nat
      /\ Stake(p.racks[0]) \in Nat /\ Stake(p.racks[1]) \in Nat /\ Stake(p.bag) \in Nat
  BY <1>1, <1>2, TileCounts
<1> QED
  BY <1>1, <1>2, <1>3, <1>4 DEF TilesAt, StakeAt

\* A position whose parts are known.
LEMMA PositionFrom ==
    ASSUME NEW q, q \in [board : SUBSET Plays, racks : [0 .. 1 -> Tiles], bag : Tiles,
                         side : 0 .. 1, streak : Nat]
    PROVE  q \in Positions
BY DEF Positions

\* A placement uses a tile at least, and its stake covers its score.
LEMMA UsesCount ==
    ASSUME NEW m \in Plays
    PROVE  /\ Uses[m] \in Tiles /\ Total(Uses[m]) >= 1 /\ Total(Uses[m]) \in Nat
           /\ MostScore <= Stake(Uses[m]) /\ Stake(Uses[m]) \in Nat
<1>1. Uses[m] \in Tiles /\ \E k \in Kinds : Uses[m][k] > 0
  BY TileGameAssumption
<1>2. Total(Uses[m]) \in Nat /\ Stake(Uses[m]) \in Nat /\ Total(Uses[m]) # 0
  <2>1. Total(Uses[m]) = 0 => Uses[m] = NoTiles
    BY <1>1, NothingCounts
  <2>2. Uses[m] # NoTiles
    BY <1>1 DEF NoTiles
  <2> QED
    BY <1>1, <2>1, <2>2, TileCounts
<1> QED
  BY <1>1, <1>2, StakeCovers

\* A placement takes its tiles from the mover.
LEMMA PlacedEffect ==
    ASSUME NEW p \in Positions, NEW m \in Playable(p)
    PROVE  LET q == Placed(p, m) IN
           /\ q \in Positions
           /\ q.board = p.board \cup {m} /\ q.bag = p.bag /\ q.side = p.side /\ q.streak = p.streak
           /\ Mover(q) = Minus(Mover(p), Uses[m]) /\ Other(q) = Other(p)
           /\ Total(Mover(q)) = Total(Mover(p)) - Total(Uses[m])
           /\ TilesAt(q) = TilesAt(p) - Total(Uses[m])
           /\ StakeAt(q) = StakeAt(p) - Stake(Uses[m])
<1> DEFINE q == Placed(p, m)
<1>1. /\ p.board \in SUBSET Plays /\ p.bag \in Tiles /\ p.side \in 0 .. 1 /\ p.streak \in Nat
      /\ p.racks \in [0 .. 1 -> Tiles] /\ Mover(p) \in Tiles /\ Other(p) \in Tiles
      /\ TilesAt(p) = Total(Mover(p)) + Total(Other(p)) + Total(p.bag)
      /\ StakeAt(p) = Stake(Mover(p)) + Stake(Other(p)) + Stake(p.bag)
  BY PositionParts
<1>2. m \in Plays /\ Within(Uses[m], Mover(p)) /\ Uses[m] \in Tiles
  BY UsesCount DEF Playable
<1>3. /\ Minus(Mover(p), Uses[m]) \in Tiles
      /\ Total(Minus(Mover(p), Uses[m])) = Total(Mover(p)) - Total(Uses[m])
      /\ Stake(Minus(Mover(p), Uses[m])) = Stake(Mover(p)) - Stake(Uses[m])
  BY <1>1, <1>2, TileCounts
<1> DEFINE r == [p.racks EXCEPT ![p.side] = Minus(Mover(p), Uses[m])]
           b == p.board \cup {m}
<1>4. q = [p EXCEPT !.board = b, !.racks = r]
  BY DEF Placed, Mover
<1>5. r \in [0 .. 1 -> Tiles] /\ b \in SUBSET Plays
  BY <1>1, <1>2, <1>3
<1>6. /\ q.board = p.board \cup {m} /\ q.bag = p.bag /\ q.side = p.side /\ q.streak = p.streak
      /\ q.racks = [p.racks EXCEPT ![p.side] = Minus(Mover(p), Uses[m])]
      /\ q \in Positions
  <2> HIDE DEF q, r, b
  <2>1. q.board = b /\ q.bag = p.bag /\ q.side = p.side /\ q.streak = p.streak /\ q.racks = r
    BY <1>4 DEF Positions
  <2>2. q \in Positions
    BY <1>1, <1>4, <1>5 DEF Positions
  <2> QED
    BY <2>1, <2>2 DEF r, b
<1> HIDE DEF q
<1>7. Mover(q) = Minus(Mover(p), Uses[m]) /\ Other(q) = Other(p)
  BY <1>1, <1>6 DEF Mover, Other
<1>8. /\ TilesAt(q) = Total(Mover(q)) + Total(Other(q)) + Total(q.bag)
      /\ StakeAt(q) = Stake(Mover(q)) + Stake(Other(q)) + Stake(q.bag)
  BY <1>6, PositionParts
<1>9. /\ Total(Mover(p)) \in Nat /\ Total(Other(p)) \in Nat /\ Total(p.bag) \in Nat /\ Total(Uses[m]) \in Nat
      /\ Stake(Mover(p)) \in Nat /\ Stake(Other(p)) \in Nat /\ Stake(p.bag) \in Nat /\ Stake(Uses[m]) \in Nat
  BY <1>1, <1>2, TileCounts
<1>10. TilesAt(q) = TilesAt(p) - Total(Uses[m]) /\ StakeAt(q) = StakeAt(p) - Stake(Uses[m])
  BY <1>1, <1>3, <1>6, <1>7, <1>8, <1>9
<1> QED
  BY <1>3, <1>6, <1>7, <1>10 DEF q

\* Drawing moves tiles from the bag to the mover.
LEMMA RefilledEffect ==
    ASSUME NEW p \in Positions, NEW d \in Tiles, Within(d, p.bag)
    PROVE  LET q == Refilled(p, d) IN
           /\ q \in Positions
           /\ q.board = p.board /\ q.bag = Minus(p.bag, d) /\ q.side = p.side /\ q.streak = p.streak
           /\ Mover(q) = Plus(Mover(p), d) /\ Other(q) = Other(p)
           /\ Total(Mover(q)) = Total(Mover(p)) + Total(d) /\ Total(q.bag) = Total(p.bag) - Total(d)
           /\ TilesAt(q) = TilesAt(p) /\ StakeAt(q) = StakeAt(p)
<1> DEFINE q == Refilled(p, d)
<1>1. /\ p.board \in SUBSET Plays /\ p.bag \in Tiles /\ p.side \in 0 .. 1 /\ p.streak \in Nat
      /\ p.racks \in [0 .. 1 -> Tiles] /\ Mover(p) \in Tiles /\ Other(p) \in Tiles
      /\ TilesAt(p) = Total(Mover(p)) + Total(Other(p)) + Total(p.bag)
      /\ StakeAt(p) = Stake(Mover(p)) + Stake(Other(p)) + Stake(p.bag)
  BY PositionParts
<1>2. /\ Plus(Mover(p), d) \in Tiles /\ Minus(p.bag, d) \in Tiles
      /\ Total(Plus(Mover(p), d)) = Total(Mover(p)) + Total(d)
      /\ Stake(Plus(Mover(p), d)) = Stake(Mover(p)) + Stake(d)
      /\ Total(Minus(p.bag, d)) = Total(p.bag) - Total(d)
      /\ Stake(Minus(p.bag, d)) = Stake(p.bag) - Stake(d)
  BY <1>1, TileCounts
<1>3. q = [p EXCEPT !.racks = [p.racks EXCEPT ![p.side] = Plus(Mover(p), d)], !.bag = Minus(p.bag, d)]
  BY DEF Refilled, Mover
<1>4. [p.racks EXCEPT ![p.side] = Plus(Mover(p), d)] \in [0 .. 1 -> Tiles]
  BY <1>1, <1>2
<1>5. /\ q.board = p.board /\ q.bag = Minus(p.bag, d) /\ q.side = p.side /\ q.streak = p.streak
      /\ q.racks = [p.racks EXCEPT ![p.side] = Plus(Mover(p), d)]
      /\ q \in Positions
  BY <1>1, <1>2, <1>3, <1>4 DEF Positions
<1> HIDE DEF q
<1>6. Mover(q) = Plus(Mover(p), d) /\ Other(q) = Other(p)
  BY <1>1, <1>5 DEF Mover, Other
<1>7. /\ TilesAt(q) = Total(Mover(q)) + Total(Other(q)) + Total(q.bag)
      /\ StakeAt(q) = Stake(Mover(q)) + Stake(Other(q)) + Stake(q.bag)
  BY <1>5, PositionParts
<1>8. /\ Total(Mover(p)) \in Nat /\ Total(Other(p)) \in Nat /\ Total(p.bag) \in Nat /\ Total(d) \in Nat
      /\ Stake(Mover(p)) \in Nat /\ Stake(Other(p)) \in Nat /\ Stake(p.bag) \in Nat /\ Stake(d) \in Nat
  BY <1>1, TileCounts
<1>9. TilesAt(q) = TilesAt(p) /\ StakeAt(q) = StakeAt(p)
  BY <1>1, <1>2, <1>5, <1>6, <1>7, <1>8
<1> QED
  BY <1>2, <1>5, <1>6, <1>9 DEF q

\* The turn passes to the other side.
LEMMA TurnEffect ==
    ASSUME NEW p \in Positions
    PROVE  /\ \A q \in {AfterScore(p), AfterPass(p)} :
                /\ q \in Positions
                /\ q.board = p.board /\ q.racks = p.racks /\ q.bag = p.bag /\ q.side = 1 - p.side
                /\ Mover(q) = Other(p) /\ Other(q) = Mover(p)
                /\ TilesAt(q) = TilesAt(p) /\ StakeAt(q) = StakeAt(p)
           /\ AfterScore(p).streak = 0 /\ AfterPass(p).streak = p.streak + 1
<1>1. /\ p.board \in SUBSET Plays /\ p.bag \in Tiles /\ p.side \in 0 .. 1 /\ p.streak \in Nat
      /\ p.racks \in [0 .. 1 -> Tiles]
  BY PositionParts
<1>2. /\ AfterScore(p) \in Positions /\ AfterPass(p) \in Positions
      /\ AfterScore(p).streak = 0 /\ AfterPass(p).streak = p.streak + 1
      /\ \A q \in {AfterScore(p), AfterPass(p)} :
           q.board = p.board /\ q.racks = p.racks /\ q.bag = p.bag /\ q.side = 1 - p.side
  <2>1. 1 - p.side \in 0 .. 1 /\ p.streak + 1 \in Nat
    BY <1>1
  <2>2. AfterScore(p) = [p EXCEPT !.side = 1 - p.side, !.streak = 0]
    BY DEF AfterScore
  <2>3. AfterPass(p) = [p EXCEPT !.side = 1 - p.side, !.streak = p.streak + 1]
    BY DEF AfterPass
  <2>4. /\ AfterScore(p) \in Positions /\ AfterScore(p).streak = 0
        /\ AfterScore(p).board = p.board /\ AfterScore(p).racks = p.racks
        /\ AfterScore(p).bag = p.bag /\ AfterScore(p).side = 1 - p.side
    <3> DEFINE other == 1 - p.side
               none == 0
    <3>1. other \in 0 .. 1 /\ none \in Nat /\ AfterScore(p) = [p EXCEPT !.side = other, !.streak = none]
      BY <2>1, <2>2
    <3> HIDE DEF other, none
    <3>2. /\ AfterScore(p) \in Positions /\ AfterScore(p).streak = none
          /\ AfterScore(p).board = p.board /\ AfterScore(p).racks = p.racks
          /\ AfterScore(p).bag = p.bag /\ AfterScore(p).side = other
      BY <1>1, <3>1 DEF Positions
    <3> QED
      BY <3>2 DEF other, none
  <2>5. /\ AfterPass(p) \in Positions /\ AfterPass(p).streak = p.streak + 1
        /\ AfterPass(p).board = p.board /\ AfterPass(p).racks = p.racks
        /\ AfterPass(p).bag = p.bag /\ AfterPass(p).side = 1 - p.side
    BY <1>1, <2>1, <2>3 DEF Positions
  <2> QED
    BY <2>4, <2>5
<1>3. ASSUME NEW q \in {AfterScore(p), AfterPass(p)}
      PROVE  Mover(q) = Other(p) /\ Other(q) = Mover(p)
  <2>1. q.racks = p.racks /\ q.side = 1 - p.side
    BY <1>2
  <2> QED
    BY <1>1, <2>1 DEF Mover, Other
<1>4. ASSUME NEW q \in {AfterScore(p), AfterPass(p)}
      PROVE  TilesAt(q) = TilesAt(p) /\ StakeAt(q) = StakeAt(p)
  BY <1>2 DEF TilesAt, StakeAt
<1> QED
  BY <1>2, <1>3, <1>4

\* One tile after the other is as good as all at once.
LEMMA DrawnEffect ==
    ASSUME NEW p \in Positions, NEW k \in Kinds, p.bag[k] > 0
    PROVE  /\ One(k) \in Tiles /\ Within(One(k), p.bag)
           /\ Drawn(p, k) = Refilled(p, One(k)) /\ Drawn(p, k).bag = Without(p.bag, k)
           /\ Drawn(p, k) \in Positions
           /\ \A d \in Tiles : Within(d, Without(p.bag, k)) =>
                Refilled(Drawn(p, k), d) = Refilled(p, Plus(d, One(k)))
<1>1. /\ p.bag \in Tiles /\ p.side \in 0 .. 1 /\ p.racks \in [0 .. 1 -> Tiles] /\ Mover(p) \in Tiles
  BY PositionParts
<1>2. /\ One(k) \in Tiles /\ Within(One(k), p.bag) /\ Without(p.bag, k) = Minus(p.bag, One(k))
      /\ \A c \in Tiles : With(c, k) = Plus(c, One(k))
  BY <1>1, OneTile
<1>3. p.racks[p.side] \in Tiles
  BY <1>1
<1>4. Drawn(p, k) = Refilled(p, One(k))
  BY <1>2, <1>3 DEF Drawn, Refilled
<1>5. Drawn(p, k) \in Positions /\ Drawn(p, k).bag = Without(p.bag, k)
  BY <1>2, <1>4, RefilledEffect
<1>6. ASSUME NEW d \in Tiles, Within(d, Without(p.bag, k))
      PROVE  Refilled(Drawn(p, k), d) = Refilled(p, Plus(d, One(k)))
  <2> DEFINE e == Plus(d, One(k))
             q == Drawn(p, k)
             x == Refilled(q, d)
             y == Refilled(p, e)
  <2>1. Within(d, Minus(p.bag, One(k)))
    BY <1>2, <1>6
  <2>2. e \in Tiles /\ Within(e, p.bag) /\ Minus(p.bag, e) = Minus(Minus(p.bag, One(k)), d)
    <3>1. e \in Tiles
      BY <1>2, TileCounts
    <3>2. Within(e, p.bag)
      BY <1>1, <1>2, <2>1 DEF Within, Plus, Minus, Tiles
    <3>3. Minus(p.bag, e) = Minus(Minus(p.bag, One(k)), d)
      BY <1>1, <1>2 DEF Plus, Minus, Tiles
    <3> QED
      BY <3>1, <3>2, <3>3
  <2>3. Plus(Plus(Mover(p), One(k)), d) = Plus(Mover(p), e)
    BY <1>1, <1>2 DEF Plus, Tiles
  <2>4. /\ q \in Positions /\ q.bag = Minus(p.bag, One(k)) /\ q.side = p.side /\ q.board = p.board
        /\ q.streak = p.streak
        /\ Mover(q) = Plus(Mover(p), One(k)) /\ Other(q) = Other(p)
    BY <1>2, <1>4, RefilledEffect
  <2> HIDE DEF e, q
  <2>5. /\ x \in Positions /\ x.bag = Minus(q.bag, d) /\ x.side = q.side /\ x.board = q.board
        /\ x.streak = q.streak /\ Mover(x) = Plus(Mover(q), d) /\ Other(x) = Other(q)
    BY <2>1, <2>4, RefilledEffect
  <2>6. /\ y \in Positions /\ y.bag = Minus(p.bag, e) /\ y.side = p.side /\ y.board = p.board
        /\ y.streak = p.streak /\ Mover(y) = Plus(Mover(p), e) /\ Other(y) = Other(p)
    BY <2>2, RefilledEffect
  <2> HIDE DEF x, y
  <2>7. Mover(x) = Mover(y) /\ Other(x) = Other(y) /\ x.bag = y.bag /\ x.side = y.side
        /\ x.board = y.board /\ x.streak = y.streak
    BY <2>2, <2>3, <2>4, <2>5, <2>6
  <2>8. x.racks = y.racks
    <3>1. x.racks \in [0 .. 1 -> Tiles] /\ y.racks \in [0 .. 1 -> Tiles] /\ x.side \in 0 .. 1
      BY <2>5, <2>6, PositionParts
    <3>2. \A i \in 0 .. 1 : x.racks[i] = y.racks[i]
      BY <2>7, <3>1 DEF Mover, Other
    <3> QED
      BY <3>1, <3>2
  <2>9. x = y
    BY <2>5, <2>6, <2>7, <2>8 DEF Positions
  <2> QED
    BY <2>9 DEF x, y, q, e
<1> QED
  BY <1>2, <1>4, <1>5, <1>6

-----------------------------------------------------------------------------
(* The value of a position                                                 *)

\* A game ends: with every placement tiles go, and passes are counted.
MovesLeft(p) ==
    TilesAt(p) * (NoScoreStreakLength + 1)
    + IF p.streak < NoScoreStreakLength THEN NoScoreStreakLength - p.streak ELSE 0

\* How many moves can be left is a natural number, which the proofs descend on.
LEMMA MovesLeftType == ASSUME NEW p \in Positions PROVE MovesLeft(p) \in Nat
<1>1. TilesAt(p) \in Nat /\ p.streak \in Nat /\ NoScoreStreakLength \in Nat
  BY PositionParts, TileGameAssumption
<1>2. TilesAt(p) * (NoScoreStreakLength + 1) \in Nat
  BY <1>1, ProductTypes
<1> QED
  BY <1>1, <1>2 DEF MovesLeft

\* What follows a placement, once the mover has drawn.
After(p, m, d) == AfterScore(Refilled(Placed(p, m), d))

\* How many tiles the mover draws: up to a full rack, while the bag lasts.
LEMMA DrawsOfType ==
    ASSUME NEW p \in Positions
    PROVE  /\ DrawsOf(p) \in Nat /\ DrawsOf(p) \in Int /\ DrawsOf(p) <= Total(p.bag)
           /\ Total(Mover(p)) \in Nat /\ Total(p.bag) \in Nat
           /\ Total(Mover(p)) <= RackSize =>
                DrawsOf(p) = IF RackSize - Total(Mover(p)) <= Total(p.bag)
                             THEN RackSize - Total(Mover(p)) ELSE Total(p.bag)
<1>1. RackSize \in Nat /\ Total(Mover(p)) \in Nat /\ Total(p.bag) \in Nat
  BY PositionParts, TileGameAssumption, TileCounts
<1> DEFINE least == Min({RackSize - Total(Mover(p)), Total(p.bag)})
<1>2. least = IF RackSize - Total(Mover(p)) <= Total(p.bag)
              THEN RackSize - Total(Mover(p)) ELSE Total(p.bag)
  BY <1>1, MinMaxTwo
<1>3. least \in Int /\ DrawsOf(p) = Max({0, least})
  BY <1>1, <1>2 DEF DrawsOf
<1> HIDE DEF least
<1>4. DrawsOf(p) = IF 0 <= least THEN least ELSE 0
  BY <1>3, MinMaxTwo
<1> QED
  BY <1>1, <1>2, <1>3, <1>4

\* A placement leads to a position with fewer moves left, its stake less what was placed.
LEMMA AfterEffect ==
    ASSUME NEW p \in Positions, NEW m \in Playable(p), NEW n \in Int,
           NEW d \in Submultisets(Placed(p, m).bag, n)
    PROVE  /\ After(p, m, d) \in Positions /\ MovesLeft(After(p, m, d)) < MovesLeft(p)
           /\ StakeAt(After(p, m, d)) = StakeAt(p) - Stake(Uses[m])
           /\ After(p, m, d).board = p.board \cup {m} /\ After(p, m, d).side = 1 - p.side
           /\ Mover(After(p, m, d)) = Other(p)
           /\ Total(Other(After(p, m, d))) = Total(Mover(p)) - Total(Uses[m]) + n
           /\ Total(After(p, m, d).bag) = Total(p.bag) - n
<1> DEFINE q == Placed(p, m)
           y == Refilled(q, d)
           x == AfterScore(y)
<1>1. /\ q \in Positions /\ q.bag = p.bag /\ q.side = p.side /\ q.board = p.board \cup {m}
      /\ Other(q) = Other(p) /\ Total(Mover(q)) = Total(Mover(p)) - Total(Uses[m])
      /\ TilesAt(q) = TilesAt(p) - Total(Uses[m])
      /\ StakeAt(q) = StakeAt(p) - Stake(Uses[m])
  BY PlacedEffect
<1>2. d \in Tiles /\ Within(d, q.bag) /\ Total(d) = n
  BY SubmultisetsAre
<1> HIDE DEF q
<1>3. /\ y \in Positions /\ TilesAt(y) = TilesAt(q) /\ StakeAt(y) = StakeAt(q)
      /\ y.side = q.side /\ y.board = q.board /\ Other(y) = Other(q)
      /\ Total(Mover(y)) = Total(Mover(q)) + Total(d) /\ Total(y.bag) = Total(q.bag) - Total(d)
  BY <1>1, <1>2, RefilledEffect
<1> HIDE DEF y
<1>4. /\ x \in Positions /\ TilesAt(x) = TilesAt(y) /\ StakeAt(x) = StakeAt(y) /\ x.streak = 0
      /\ x.side = 1 - y.side /\ x.board = y.board /\ x.bag = y.bag
      /\ Mover(x) = Other(y) /\ Other(x) = Mover(y)
  BY <1>3, TurnEffect
<1> HIDE DEF x
<1>5. m \in Plays /\ Total(Uses[m]) >= 1 /\ Total(Uses[m]) \in Nat /\ TilesAt(p) \in Nat /\ TilesAt(x) \in Nat
      /\ p.streak \in Nat
  BY <1>4, UsesCount, PositionParts DEF Playable
<1>6. TilesAt(x) + 1 <= TilesAt(p)
  BY <1>1, <1>3, <1>4, <1>5
<1>7. MovesLeft(x) < MovesLeft(p)
  <2> DEFINE N == NoScoreStreakLength
             a == TilesAt(x)
             b == TilesAt(p)
             u == IF p.streak < N THEN N - p.streak ELSE 0
  <2>1. N \in Nat /\ N > 0 /\ a \in Nat /\ b \in Nat /\ a + 1 <= b
    BY <1>5, <1>6, TileGameAssumption
  <2>2. MovesLeft(x) = a * (N + 1) + N /\ MovesLeft(p) = b * (N + 1) + u
    BY <1>4, <2>1 DEF MovesLeft
  <2>3. u \in Nat
    BY <1>5, <2>1
  <2> HIDE DEF N, a, b, u
  <2>4. (a + 1) * (N + 1) <= b * (N + 1)
    BY <2>1, ProductGrows
  <2>5. (a + 1) * (N + 1) = a * (N + 1) + (N + 1) /\ a * (N + 1) \in Nat /\ b * (N + 1) \in Nat
    BY <2>1
  <2> QED
    BY <2>1, <2>2, <2>3, <2>4, <2>5
<1>8. x = After(p, m, d)
  BY DEF After, x, y, q
<1> QED
  BY <1>1, <1>2, <1>3, <1>4, <1>7, <1>8

\* A pass that does not end the game leaves fewer moves too.
LEMMA AfterPassEffect ==
    ASSUME NEW p \in Positions, ~ PassEnds(p)
    PROVE  AfterPass(p) \in Positions /\ MovesLeft(AfterPass(p)) < MovesLeft(p)
<1> DEFINE x == AfterPass(p)
<1>1. x \in Positions /\ TilesAt(x) = TilesAt(p) /\ x.streak = p.streak + 1
  BY TurnEffect
<1> HIDE DEF x
<1>2. /\ p.streak \in Nat /\ NoScoreStreakLength \in Nat
      /\ p.streak + 1 < NoScoreStreakLength
  BY PositionParts, TileGameAssumption DEF PassEnds
<1>3. TilesAt(p) * (NoScoreStreakLength + 1) \in Nat
  BY <1>2, PositionParts, ProductTypes
<1>4. MovesLeft(x) < MovesLeft(p)
  BY <1>1, <1>2, <1>3 DEF MovesLeft
<1> QED
  BY <1>1, <1>4 DEF x

\* What the options of a position are worth, and the equation of its value.
Worths(value, p, scoreOf) ==
    {WorthOfPlay(value, p, m, scoreOf) : m \in Playable(p)} \cup {WorthOfPass(value, p)}
\* value is the game value of every position, by the rules.
IsValue(value, scoreOf, optimistic) ==
    value = [p \in Positions |-> BestForMover(p, optimistic, Worths(value, p, scoreOf))]

\* The options of a position are worth what the positions they lead to are.
LEMMA WorthsLocal ==
    ASSUME NEW p \in Positions, NEW scoreOf, NEW f, NEW g,
           \A y \in Positions : MovesLeft(y) < MovesLeft(p) => f[y] = g[y]
    PROVE  Worths(f, p, scoreOf) = Worths(g, p, scoreOf)
<1>1. ASSUME NEW m \in Playable(p) PROVE WorthOfPlay(f, p, m, scoreOf) = WorthOfPlay(g, p, m, scoreOf)
  <2> DEFINE q == Placed(p, m)
  <2>1. q \in Positions
    BY PlacedEffect
  <2>2. DrawsOf(q) \in Int
    BY <2>1, DrawsOfType
  <2>3. ASSUME NEW d \in Submultisets(q.bag, DrawsOf(q))
        PROVE  f[AfterScore(Refilled(q, d))] = g[AfterScore(Refilled(q, d))]
    <3>1. After(p, m, d) \in Positions /\ MovesLeft(After(p, m, d)) < MovesLeft(p)
      BY <2>2, AfterEffect
    <3> QED
      BY <3>1 DEF After
  <2>4. {f[AfterScore(Refilled(q, d))] : d \in Submultisets(q.bag, DrawsOf(q))}
          = {g[AfterScore(Refilled(q, d))] : d \in Submultisets(q.bag, DrawsOf(q))}
    <3> HIDE DEF q
    <3> QED
      BY <2>3
  <2> QED
    BY <2>4, Zenon DEF WorthOfPlay
<1>2. WorthOfPass(f, p) = WorthOfPass(g, p)
  BY AfterPassEffect DEF WorthOfPass
<1> QED
  BY <1>1, <1>2 DEF Worths

\* The positions within n moves of the end, and a solution of the equation there.
Near(n) == {p \in Positions : MovesLeft(p) < n}
\* f is the game value where fewer than n moves are left.
ValueNear(f, n, scoreOf, optimistic) ==
    f = [p \in Near(n) |-> BestForMover(p, optimistic, Worths(f, p, scoreOf))]

\* Such a function exists for every n, by induction over n.
LEMMA ValueNearExists ==
    ASSUME NEW scoreOf, NEW optimistic, NEW n \in Nat
    PROVE  \E f : ValueNear(f, n, scoreOf, optimistic)
<1> DEFINE Solved == {i \in Nat : \E f : ValueNear(f, i, scoreOf, optimistic)}
<1>1. 0 \in Solved
  <2> DEFINE f == [p \in Near(0) |-> 0]
  <2>1. \A p \in Near(0) : FALSE
    BY MovesLeftType DEF Near
  <2>2. ValueNear(f, 0, scoreOf, optimistic)
    BY <2>1 DEF ValueNear
  <2> QED
    BY <2>2
<1>2. ASSUME NEW i \in Solved PROVE i + 1 \in Solved
  <2>1. PICK f : ValueNear(f, i, scoreOf, optimistic)
    OBVIOUS
  <2> DEFINE V(g, p) == BestForMover(p, optimistic, Worths(g, p, scoreOf))
             h == [p \in Near(i + 1) |-> V(f, p)]
  <2>2. \A p \in Near(i) : p \in Near(i + 1) /\ p \in Positions /\ f[p] = V(f, p)
    <3>1. \A p \in Near(i) : f[p] = V(f, p)
      BY <2>1, Zenon DEF ValueNear
    <3>2. \A p \in Near(i) : p \in Near(i + 1) /\ p \in Positions
      BY MovesLeftType DEF Near
    <3> QED
      BY <3>1, <3>2
  <2>3. \A p \in Near(i) : h[p] = f[p]
    <3> HIDE DEF V
    <3> QED
      BY <2>2
  <2>4. ASSUME NEW p \in Near(i + 1) PROVE V(f, p) = V(h, p)
    <3>1. p \in Positions /\ MovesLeft(p) \in Nat /\ MovesLeft(p) < i + 1 /\ i \in Nat
      BY MovesLeftType DEF Near
    <3> HIDE DEF h
    <3>2. \A y \in Positions : MovesLeft(y) < MovesLeft(p) => f[y] = h[y]
      BY <2>3, <3>1, MovesLeftType DEF Near
    <3>3. Worths(f, p, scoreOf) = Worths(h, p, scoreOf)
      BY <3>1, <3>2, WorthsLocal
    <3> QED
      BY <3>3
  <2>5. h = [p \in Near(i + 1) |-> V(h, p)]
    <3> HIDE DEF V
    <3> QED
      BY <2>4
  <2> HIDE DEF h
  <2>6. ValueNear(h, i + 1, scoreOf, optimistic)
    BY <2>5 DEF ValueNear
  <2> QED
    BY <2>6
<1>3. Solved = Nat
  <2>1. Solved \in SUBSET Nat
    OBVIOUS
  <2> HIDE DEF Solved
  <2> QED
    BY <1>1, <1>2, <2>1, NatClosed
<1> QED
  BY <1>3

\* Two of them agree where both are values.
LEMMA ValueNearUnique ==
    ASSUME NEW scoreOf, NEW optimistic, NEW a \in Nat, NEW b \in Nat,
           NEW f, ValueNear(f, a, scoreOf, optimistic),
           NEW g, ValueNear(g, b, scoreOf, optimistic)
    PROVE  \A p \in Positions : MovesLeft(p) < a /\ MovesLeft(p) < b => f[p] = g[p]
<1> DEFINE V(h, p) == BestForMover(p, optimistic, Worths(h, p, scoreOf))
           Same == {i \in Nat : \A p \in Positions :
                      MovesLeft(p) < i /\ MovesLeft(p) < a /\ MovesLeft(p) < b => f[p] = g[p]}
<1>1. 0 \in Same
  BY MovesLeftType
<1>2. ASSUME NEW i \in Same PROVE i + 1 \in Same
  <2> SUFFICES ASSUME NEW p \in Positions, MovesLeft(p) < i + 1, MovesLeft(p) < a, MovesLeft(p) < b
               PROVE  f[p] = g[p]
    OBVIOUS
  <2>1. p \in Near(a) /\ p \in Near(b) /\ MovesLeft(p) \in Nat /\ i \in Nat
    BY MovesLeftType DEF Near
  <2>2. f[p] = V(f, p)
    BY <2>1, Zenon DEF ValueNear
  <2>3. g[p] = V(g, p)
    BY <2>1, Zenon DEF ValueNear
  <2>4. \A y \in Positions : MovesLeft(y) < MovesLeft(p) => f[y] = g[y]
    <3> SUFFICES ASSUME NEW y \in Positions, MovesLeft(y) < MovesLeft(p) PROVE f[y] = g[y]
      OBVIOUS
    <3>1. MovesLeft(y) \in Nat
      BY MovesLeftType
    <3>2. MovesLeft(y) < i /\ MovesLeft(y) < a /\ MovesLeft(y) < b
      BY <2>1, <3>1
    <3> QED
      BY <3>2
  <2>5. Worths(f, p, scoreOf) = Worths(g, p, scoreOf)
    BY <2>4, WorthsLocal
  <2> QED
    BY <2>2, <2>3, <2>5
<1>3. Same = Nat
  <2>1. Same \in SUBSET Nat
    OBVIOUS
  <2> HIDE DEF Same
  <2> QED
    BY <1>1, <1>2, <2>1, NatClosed
<1> SUFFICES ASSUME NEW p \in Positions, MovesLeft(p) < a, MovesLeft(p) < b PROVE f[p] = g[p]
  OBVIOUS
<1>4. MovesLeft(p) + 1 \in Same /\ MovesLeft(p) \in Nat
  BY <1>3, MovesLeftType
<1> QED
  BY <1>4

\* ValueOf solves its equation.
LEMMA ValueEquation ==
    ASSUME NEW scoreOf, NEW optimistic
    PROVE  IsValue(ValueOf(scoreOf, optimistic), scoreOf, optimistic)
<1> DEFINE G(n) == CHOOSE f : ValueNear(f, n, scoreOf, optimistic)
           V(g, p) == BestForMover(p, optimistic, Worths(g, p, scoreOf))
<1>1. \A n \in Nat : ValueNear(G(n), n, scoreOf, optimistic)
  BY ValueNearExists, Zenon
<1> HIDE DEF G
<1> DEFINE f == [p \in Positions |-> G(MovesLeft(p) + 1)[p]]
<1>2. ASSUME NEW p \in Positions PROVE f[p] = V(f, p)
  <2> DEFINE n == MovesLeft(p) + 1
             g == G(n)
  <2>1. n \in Nat /\ MovesLeft(p) \in Nat /\ p \in Near(n)
    BY MovesLeftType DEF Near
  <2>2. ValueNear(g, n, scoreOf, optimistic)
    <3> HIDE DEF n
    <3> QED
      BY <1>1, <2>1
  <2>3. f[p] = g[p]
    OBVIOUS
  <2> HIDE DEF g
  <2>4. g[p] = V(g, p)
    BY <2>1, <2>2, Zenon DEF ValueNear
  <2>5. ASSUME NEW y \in Positions, MovesLeft(y) < MovesLeft(p) PROVE f[y] = g[y]
    <3>1. MovesLeft(y) \in Nat /\ MovesLeft(y) + 1 \in Nat /\ MovesLeft(y) < n
      BY <2>1, <2>5, MovesLeftType
    <3>2. ValueNear(G(MovesLeft(y) + 1), MovesLeft(y) + 1, scoreOf, optimistic)
      BY <1>1, <3>1
    <3> HIDE DEF n
    <3> DEFINE k == MovesLeft(y) + 1
    <3>3. k \in Nat /\ MovesLeft(y) < k /\ ValueNear(G(k), k, scoreOf, optimistic) /\ f[y] = G(k)[y]
      BY <3>1, <3>2
    <3> HIDE DEF k, f
    <3>4. G(k)[y] = g[y]
      BY <2>1, <2>2, <3>1, <3>3, ValueNearUnique
    <3> QED
      BY <3>3, <3>4
  <2> HIDE DEF f, n
  <2>6. Worths(f, p, scoreOf) = Worths(g, p, scoreOf)
    BY <2>5, WorthsLocal
  <2> QED
    BY <2>3, <2>4, <2>6
<1>3. f = [p \in Positions |-> V(f, p)]
  <2> HIDE DEF V
  <2>1. f = [p \in Positions |-> f[p]]
    OBVIOUS
  <2> HIDE DEF f
  <2> QED
    BY <1>2, <2>1
<1> HIDE DEF f
<1>4. IsValue(f, scoreOf, optimistic)
  BY <1>3 DEF IsValue
<1>5. ValueOf(scoreOf, optimistic) = CHOOSE v : IsValue(v, scoreOf, optimistic)
  BY DEF ValueOf, IsValue, Worths
<1> QED
  BY <1>4, <1>5, Zenon

-----------------------------------------------------------------------------
(* The positions of a request                                              *)

\* The request is well formed, and the generator of its board finds every move.
RequestReady == req \in RequestShape /\ FindsAll(req)

\* The fields of a request.
LEMMA RequestParts ==
    ASSUME RequestReady
    PROVE  /\ req.board \in SUBSET Plays /\ req.rack \in Tiles /\ req.unseen \in Tiles
           /\ req.oppRackCount \in Nat /\ req.bagCount \in Nat /\ req.streak \in Nat
           /\ req.myScore \in Int /\ req.oppScore \in Int
           /\ req.nodeBudget \in Nat /\ req.genLimit \in Nat /\ req.maxScenarios \in Nat
           /\ req.order \in Seq(Plays) /\ Distinct(req.order)
           /\ Range(req.order) \in SUBSET Plays
           /\ req.scoreOf \in [Plays -> -MostScore .. MostScore]
           /\ \A m \in Plays \ Range(req.order) :
                ~ (Needs[m] \subseteq Occupied(req.board \cup Range(req.order)))
<1>1. /\ req.board \in SUBSET Plays /\ req.rack \in Tiles /\ req.unseen \in Tiles
      /\ req.oppRackCount \in Nat /\ req.bagCount \in Nat /\ req.streak \in Nat
      /\ req.myScore \in Int /\ req.oppScore \in Int
      /\ req.nodeBudget \in Nat /\ req.genLimit \in Nat /\ req.maxScenarios \in Nat
      /\ req.order \in Seq(Plays)
      /\ req.scoreOf \in [Plays -> -MostScore .. MostScore]
  BY DEF RequestReady, RequestShape
<1>2. /\ Distinct(req.order)
      /\ \A m \in Plays \ Range(req.order) :
           ~ (Needs[m] \subseteq Occupied(req.board \cup Range(req.order)))
  BY DEF RequestReady, FindsAll, Distinct
<1>3. Range(req.order) \in SUBSET Plays
  BY <1>1 DEF Range
<1> QED
  BY <1>1, <1>2, <1>3

\* A position the searches of a request meet.
Good(p) ==
    /\ p \in Positions
    /\ p.board \subseteq req.board \cup Range(req.order)
    /\ Total(Mover(p)) <= RackSize /\ Total(Other(p)) <= RackSize
    /\ Total(p.bag) > 0 => Total(Mover(p)) = RackSize /\ Total(Other(p)) = RackSize

\* What can be played was found.
LEMMA PlayableFound ==
    ASSUME RequestReady, NEW p, Good(p), NEW m \in Playable(p)
    PROVE  m \in Plays /\ m \in Range(req.order)
<1>1. m \in Plays /\ Needs[m] \subseteq Occupied(p.board)
  BY DEF Playable
<1>2. Occupied(p.board) \subseteq Occupied(req.board \cup Range(req.order))
  BY DEF Good, Occupied
<1> QED
  BY <1>1, <1>2, RequestParts

\* The positions after a placement are good ones again.
LEMMA GoodAfter ==
    ASSUME RequestReady, NEW p, Good(p), NEW m \in Playable(p),
           NEW d \in Submultisets(Placed(p, m).bag, DrawsOf(Placed(p, m)))
    PROVE  Good(After(p, m, d))
<1> DEFINE q == Placed(p, m)
           n == DrawsOf(q)
           y == After(p, m, d)
<1>1. p \in Positions /\ m \in Plays /\ m \in Range(req.order)
  BY PlayableFound DEF Good
<1>2. /\ q \in Positions /\ q.bag = p.bag
      /\ Mover(q) = Minus(Mover(p), Uses[m]) /\ Total(Mover(q)) = Total(Mover(p)) - Total(Uses[m])
  BY <1>1, PlacedEffect
<1>3. n \in Int
  BY <1>2, DrawsOfType
<1>4. /\ y \in Positions /\ y.board = p.board \cup {m} /\ Mover(y) = Other(p)
      /\ Total(Other(y)) = Total(Mover(p)) - Total(Uses[m]) + n
      /\ Total(y.bag) = Total(p.bag) - n
  BY <1>1, <1>3, AfterEffect
<1>5. /\ Total(Mover(p)) \in Nat /\ Total(Other(p)) \in Nat /\ Total(p.bag) \in Nat /\ Total(Uses[m]) \in Nat
      /\ RackSize \in Nat /\ Total(Mover(q)) \in Nat
  BY <1>1, <1>2, PositionParts, UsesCount, TileCounts, TileGameAssumption
<1>6. Total(Mover(q)) <= RackSize
  BY <1>2, <1>5 DEF Good
<1>7. n = IF RackSize - Total(Mover(q)) <= Total(p.bag) THEN RackSize - Total(Mover(q)) ELSE Total(p.bag)
  BY <1>2, <1>6, DrawsOfType
<1> HIDE DEF q, n, y
<1>8. /\ Total(Mover(y)) <= RackSize /\ Total(Other(y)) <= RackSize
      /\ Total(y.bag) > 0 => Total(Mover(y)) = RackSize /\ Total(Other(y)) = RackSize
  BY <1>2, <1>3, <1>4, <1>5, <1>6, <1>7 DEF Good
<1>9. y.board \subseteq req.board \cup Range(req.order)
  BY <1>1, <1>4 DEF Good
<1> QED
  BY <1>4, <1>8, <1>9 DEF Good, y

\* So is the position after a pass, with the same stake.
LEMMA GoodPass ==
    ASSUME NEW p, Good(p)
    PROVE  Good(AfterPass(p)) /\ StakeAt(AfterPass(p)) = StakeAt(p)
<1> DEFINE y == AfterPass(p)
<1>1. /\ p \in Positions /\ y \in Positions /\ y.board = p.board /\ y.bag = p.bag
      /\ Mover(y) = Other(p) /\ Other(y) = Mover(p) /\ StakeAt(y) = StakeAt(p)
  BY TurnEffect DEF Good
<1> HIDE DEF y
<1>2. Good(y)
  BY <1>1 DEF Good
<1> QED
  BY <1>1, <1>2 DEF y

\* Where a placement leaves the mover with nothing, the search ends the game
\* exactly when the rules do.
LEMMA OutsAgree ==
    ASSUME NEW p, Good(p), NEW m \in Playable(p)
    PROVE  /\ RackedOut(Placed(p, m)) <=> GoesOut(Placed(p, m))
           /\ GoesOut(Placed(p, m)) =>
                RackOutGain(Placed(p, m))
                  = Signed(p, 2 * (Points(Other(Placed(p, m))) + Points(Placed(p, m).bag)))
<1> DEFINE q == Placed(p, m)
<1>1. /\ p \in Positions /\ m \in Plays
      /\ q \in Positions /\ q.bag = p.bag /\ q.side = p.side /\ Other(q) = Other(p)
  BY PlacedEffect DEF Good, Playable
<1>2. /\ Total(Other(p)) \in Nat /\ Total(p.bag) \in Nat /\ RackSize \in Nat /\ p.bag \in Tiles
      /\ q.side \in 0 .. 1
  BY <1>1, PositionParts, TileCounts, TileGameAssumption
<1> HIDE DEF q
<1>3. RackedOut(q) <=> GoesOut(q)
  BY <1>1, <1>2 DEF RackedOut, GoesOut, Good
<1>4. ASSUME GoesOut(q)
      PROVE  RackOutGain(q) = Signed(p, 2 * (Points(Other(q)) + Points(q.bag)))
  <2>1. Total(q.bag) = 0
    BY <1>3, <1>4 DEF RackedOut
  <2>2. Points(q.bag) = 0
    BY <1>1, <1>2, <2>1, NothingCounts
  <2>3. Points(Other(q)) \in Nat
    BY <1>1, PositionParts, TileCounts
  <2>4. Points(Other(q)) + Points(q.bag) = Points(Other(q))
    BY <2>2, <2>3
  <2>5. CASE q.side = 0
    <3>1. Other(q) = q.racks[1] /\ p.side = 0
      BY <1>1, <2>5 DEF Other
    <3> QED
      BY <1>1, <2>4, <2>5, <3>1 DEF RackOutGain, Signed
  <2>6. CASE q.side = 1
    <3>1. Other(q) = q.racks[0] /\ p.side = 1
      BY <1>1, <2>6 DEF Other
    <3>2. RackOutGain(q) = -2 * Points(q.racks[0])
      BY <2>6 DEF RackOutGain
    <3>3. Signed(p, 2 * Points(Other(q))) = - (2 * Points(Other(q)))
      BY <3>1 DEF Signed
    <3> QED
      BY <2>3, <2>4, <3>1, <3>2, <3>3
  <2> QED
    BY <1>2, <2>5, <2>6
<1> QED
  BY <1>3, <1>4 DEF q

-----------------------------------------------------------------------------
(* What a position is worth is within what is at stake                     *)

\* v is no further from 0 than s.
Bounded(v, s) == v \in Int /\ -s <= v /\ v <= s

\* What a placement scores is covered by its tiles.
LEMMA GainBounds ==
    ASSUME RequestReady, NEW p \in Positions, NEW m \in Plays
    PROVE  /\ Signed(p, req.scoreOf[m]) \in Int /\ Bounded(req.scoreOf[m], Stake(Uses[m]))
           /\ Bounded(Signed(p, req.scoreOf[m]), Stake(Uses[m]))
<1>1. req.scoreOf[m] \in -MostScore .. MostScore
  BY RequestParts
<1>2. MostScore \in Nat /\ MostScore <= Stake(Uses[m]) /\ Stake(Uses[m]) \in Nat
  BY UsesCount, RequestAssumption
<1>3. p.side \in 0 .. 1
  BY PositionParts
<1> QED
  BY <1>1, <1>2, <1>3 DEF Signed, Bounded

\* What a placement is worth is bounded by the stake of its position.
LEMMA PlayWorthBounds ==
    ASSUME RequestReady, NEW p, Good(p), NEW m \in Playable(p), NEW f,
           \A d \in Submultisets(Placed(p, m).bag, DrawsOf(Placed(p, m))) :
             Bounded(f[After(p, m, d)], StakeAt(After(p, m, d)))
    PROVE  Bounded(WorthOfPlay(f, p, m, req.scoreOf), StakeAt(p))
<1> DEFINE q == Placed(p, m)
           n == DrawsOf(q)
           gain == Signed(p, req.scoreOf[m])
           next == {f[AfterScore(Refilled(q, d))] : d \in Submultisets(q.bag, n)}
           rest == IF GoesOut(q) THEN Signed(p, 2 * (Points(Other(q)) + Points(q.bag))) ELSE Min(next)
<1>1. /\ p \in Positions /\ m \in Plays /\ q \in Positions /\ q.bag = p.bag /\ q.side = p.side
      /\ Other(q) = Other(p) /\ StakeAt(q) = StakeAt(p) - Stake(Uses[m])
  BY PlacedEffect DEF Good, Playable
<1>2. gain \in Int /\ Bounded(gain, Stake(Uses[m])) /\ Stake(Uses[m]) \in Nat
  BY <1>1, GainBounds, UsesCount
<1>3. StakeAt(q) \in Nat /\ StakeAt(p) \in Nat /\ p.side \in 0 .. 1 /\ q.bag \in Tiles
      /\ StakeAt(q) = Stake(Mover(q)) + Stake(Other(q)) + Stake(q.bag)
      /\ Mover(q) \in Tiles /\ Other(q) \in Tiles
  BY <1>1, PositionParts
<1>4. n \in Nat /\ n \in Int /\ n <= Total(q.bag)
  BY <1>1, DrawsOfType
<1>5. ASSUME NEW x \in next PROVE Bounded(x, StakeAt(q))
  <2>1. PICK d \in Submultisets(q.bag, n) : x = f[After(p, m, d)]
    BY DEF After
  <2>2. StakeAt(After(p, m, d)) = StakeAt(q)
    BY <1>1, <1>4, AfterEffect
  <2> QED
    BY <2>1, <2>2
<1>6. next # {}
  BY <1>3, <1>4, DrawsExist
<1>7. Bounded(rest, StakeAt(q))
  <2>1. CASE GoesOut(q)
    <3>1. Stake(Mover(q)) \in Nat /\ Stake(Other(q)) \in Nat /\ Stake(q.bag) \in Nat
      BY <1>3, TileCounts
    <3>2. /\ Points(Other(q)) \in Nat /\ Points(q.bag) \in Nat
          /\ 2 * Points(Other(q)) <= Stake(Other(q)) /\ 2 * Points(q.bag) <= Stake(q.bag)
      BY <1>3, TileCounts, StakeCovers
    <3>3. rest = Signed(p, 2 * (Points(Other(q)) + Points(q.bag)))
      BY <2>1
    <3> HIDE DEF rest, q
    <3>4. Bounded(Signed(p, 2 * (Points(Other(q)) + Points(q.bag))), StakeAt(q))
      BY <1>3, <3>1, <3>2 DEF Signed, Bounded
    <3> QED
      BY <3>3, <3>4
  <2>2. CASE ~ GoesOut(q)
    <3>1. rest = Min(next)
      BY <2>2
    <3> HIDE DEF next, q, rest
    <3> DEFINE lo == - StakeAt(q)
               hi == StakeAt(q)
    <3>2. lo \in Int /\ hi \in Int /\ \A x \in next : x \in Int /\ lo <= x /\ x <= hi
      BY <1>3, <1>5 DEF Bounded
    <3>3. Min(next) \in next
      <4> HIDE DEF lo, hi
      <4> QED
        BY <1>6, <3>2, MinMaxBetween
    <3> QED
      BY <1>5, <3>1, <3>3
  <2> QED
    BY <2>1, <2>2
<1>8. WorthOfPlay(f, p, m, req.scoreOf) = gain + rest
  BY DEF WorthOfPlay
<1> HIDE DEF gain, rest, q, n
<1> QED
  BY <1>1, <1>2, <1>3, <1>7, <1>8 DEF Bounded

\* So is what the end by passing is worth,
LEMMA StreakBounds ==
    ASSUME NEW p \in Positions
    PROVE  Bounded(StreakGain(p), StakeAt(p))
<1> DEFINE a == p.racks[0]
           b == p.racks[1]
<1>1. a \in Tiles /\ b \in Tiles /\ p.bag \in Tiles
  BY PositionParts
<1>2. StakeAt(p) = Stake(a) + Stake(b) + Stake(p.bag) /\ StreakGain(p) = Points(b) - Points(a)
  BY DEF StakeAt, StreakGain
<1> HIDE DEF a, b
<1>3. /\ Stake(a) \in Nat /\ Stake(b) \in Nat /\ Stake(p.bag) \in Nat /\ Points(a) \in Nat /\ Points(b) \in Nat
      /\ 2 * Points(a) <= Stake(a) /\ 2 * Points(b) <= Stake(b)
  BY <1>1, TileCounts, StakeCovers
<1> QED
  BY <1>2, <1>3 DEF Bounded

\* what a pass is worth,
LEMMA PassWorthBounds ==
    ASSUME NEW p, Good(p), NEW f,
           ~ PassEnds(p) => Bounded(f[AfterPass(p)], StakeAt(AfterPass(p)))
    PROVE  Bounded(WorthOfPass(f, p), StakeAt(p))
<1>1. p \in Positions /\ StakeAt(AfterPass(p)) = StakeAt(p)
  BY GoodPass DEF Good
<1> QED
  BY <1>1, StreakBounds DEF WorthOfPass

\* The best of a bounded set of worths for the one to choose.
LEMMA BestIsOne ==
    ASSUME NEW p, NEW o, NEW lo \in Int, NEW hi \in Int, NEW S, S # {},
           \A x \in S : x \in Int /\ lo <= x /\ x <= hi
    PROVE  /\ BestForMover(p, o, S) \in S
           /\ (p.side = 0 \/ o) => \A x \in S : x <= BestForMover(p, o, S)
           /\ ~ (p.side = 0 \/ o) => \A x \in S : BestForMover(p, o, S) <= x
<1>1. /\ Min(S) \in S /\ \A x \in S : Min(S) <= x
      /\ Max(S) \in S /\ \A x \in S : x <= Max(S)
  BY MinMaxBetween
<1> QED
  BY <1>1 DEF BestForMover

\* and what any option is worth.
LEMMA WorthsBounds ==
    ASSUME RequestReady, NEW p, Good(p), NEW f,
           \A y : Good(y) /\ MovesLeft(y) < MovesLeft(p) => Bounded(f[y], StakeAt(y))
    PROVE  \A w \in Worths(f, p, req.scoreOf) : Bounded(w, StakeAt(p))
<1>1. p \in Positions
  BY DEF Good
<1>2. ASSUME NEW m \in Playable(p) PROVE Bounded(WorthOfPlay(f, p, m, req.scoreOf), StakeAt(p))
  <2>1. ASSUME NEW d \in Submultisets(Placed(p, m).bag, DrawsOf(Placed(p, m)))
        PROVE  Bounded(f[After(p, m, d)], StakeAt(After(p, m, d)))
    <3>1. DrawsOf(Placed(p, m)) \in Int
      BY <1>1, PlacedEffect, DrawsOfType
    <3>2. MovesLeft(After(p, m, d)) < MovesLeft(p)
      BY <1>1, <3>1, AfterEffect
    <3> QED
      BY <3>2, GoodAfter
  <2> QED
    BY <2>1, PlayWorthBounds
<1>3. Bounded(WorthOfPass(f, p), StakeAt(p))
  BY <1>1, AfterPassEffect, GoodPass, PassWorthBounds
<1> QED
  BY <1>2, <1>3 DEF Worths

\* The game value of the request, the pessimistic one or the optimistic one.
V(o) == ValueOf(req.scoreOf, o)

\* It is the best, for the mover, of what the options are worth.
LEMMA ValueAt ==
    ASSUME NEW p \in Positions, NEW o
    PROVE  V(o)[p] = BestForMover(p, o, Worths(V(o), p, req.scoreOf))
<1> DEFINE v == V(o)
           B(q) == BestForMover(q, o, Worths(v, q, req.scoreOf))
<1>1. v = [q \in Positions |-> B(q)]
  BY ValueEquation DEF V, IsValue
<1> HIDE DEF v, B
<1>2. v[p] = B(p)
  BY <1>1
<1> QED
  BY <1>2 DEF v, B

\* Within the stake, by induction over the moves left.
LEMMA ValueBounds ==
    ASSUME RequestReady, NEW o
    PROVE  \A p : Good(p) => /\ Bounded(V(o)[p], StakeAt(p))
                             /\ \A w \in Worths(V(o), p, req.scoreOf) : Bounded(w, StakeAt(p))
<1> DEFINE Right == {i \in Nat : \A p : Good(p) /\ MovesLeft(p) < i => Bounded(V(o)[p], StakeAt(p))}
<1>1. ASSUME NEW p, Good(p), \A w \in Worths(V(o), p, req.scoreOf) : Bounded(w, StakeAt(p))
      PROVE  Bounded(V(o)[p], StakeAt(p))
  <2> DEFINE S == Worths(V(o), p, req.scoreOf)
             lo == - StakeAt(p)
             hi == StakeAt(p)
  <2>1. p \in Positions /\ StakeAt(p) \in Nat
    BY <1>1, PositionParts DEF Good
  <2>2. S # {}
    BY DEF Worths
  <2>3. lo \in Int /\ hi \in Int /\ \A x \in S : x \in Int /\ lo <= x /\ x <= hi
    BY <1>1, <2>1 DEF Bounded
  <2> HIDE DEF S, lo, hi
  <2>4. BestForMover(p, o, S) \in S
    BY <2>2, <2>3, BestIsOne
  <2> QED
    BY <1>1, <2>1, <2>4, ValueAt DEF S
<1>2. 0 \in Right
  BY MovesLeftType DEF Good
<1>3. ASSUME NEW i \in Right PROVE i + 1 \in Right
  <2> SUFFICES ASSUME NEW p, Good(p), MovesLeft(p) < i + 1 PROVE Bounded(V(o)[p], StakeAt(p))
    OBVIOUS
  <2>1. ASSUME NEW y, Good(y), MovesLeft(y) < MovesLeft(p) PROVE Bounded(V(o)[y], StakeAt(y))
    <3>1. MovesLeft(y) \in Nat /\ MovesLeft(p) \in Nat /\ i \in Nat
      BY <2>1, MovesLeftType DEF Good
    <3>2. MovesLeft(y) < i
      BY <2>1, <3>1
    <3> QED
      BY <2>1, <3>2
  <2>2. \A w \in Worths(V(o), p, req.scoreOf) : Bounded(w, StakeAt(p))
    BY <2>1, WorthsBounds
  <2> QED
    BY <1>1, <2>2
<1>4. Right = Nat
  <2>1. Right \in SUBSET Nat
    OBVIOUS
  <2> HIDE DEF Right
  <2> QED
    BY <1>2, <1>3, <2>1, NatClosed
<1>5. ASSUME NEW p, Good(p) PROVE Bounded(V(o)[p], StakeAt(p))
  <2>1. MovesLeft(p) + 1 \in Nat /\ MovesLeft(p) < MovesLeft(p) + 1
    BY <1>5, MovesLeftType DEF Good
  <2> QED
    BY <1>4, <1>5, <2>1
<1>6. ASSUME NEW p, Good(p) PROVE \A w \in Worths(V(o), p, req.scoreOf) : Bounded(w, StakeAt(p))
  BY <1>5, <1>6, WorthsBounds
<1> QED
  BY <1>5, <1>6

-----------------------------------------------------------------------------
(* Calls and answers of a search                                           *)

\* What a search returns: a value and the solver after it.
Answers == [value : Int, solver : SolverStates]

\* The fields of an answer.
LEMMA AnswerParts ==
    /\ \A v \in Int, s \in SolverStates :
         Answer(v, s) \in Answers /\ Answer(v, s).value = v /\ Answer(v, s).solver = s
    /\ \A a \in Answers : a.value \in Int /\ a.solver \in SolverStates
BY DEF Answers, Answer

\* The fields of the solver.
LEMMA SolverParts ==
    \A s \in SolverStates : /\ s.nodes \in Nat /\ s.aborted \in BOOLEAN /\ s.optimistic \in BOOLEAN
                            /\ s.table \in [0 .. TableSize - 1 -> Slots]
BY DEF SolverStates

\* The fields of a call.
LEMMA CallParts ==
    ASSUME NEW c \in Calls
    PROVE  c.pos \in Positions /\ c.alpha \in Int /\ c.beta \in Int /\ c.solver \in SolverStates
BY DEF Calls

\* A call that is made, or made from another by changing some of its parts.
LEMMA CallMade ==
    ASSUME NEW p \in Positions, NEW a \in Int, NEW b \in Int, NEW s \in SolverStates
    PROVE  LET d == [pos |-> p, alpha |-> a, beta |-> b, solver |-> s] IN
           d \in Calls /\ d.pos = p /\ d.alpha = a /\ d.beta = b /\ d.solver = s
BY DEF Calls

\* The same call at another position.
LEMMA CallElsewhere ==
    ASSUME NEW c \in Calls, NEW p \in Positions
    PROVE  LET d == [c EXCEPT !.pos = p] IN
           d \in Calls /\ d.pos = p /\ d.alpha = c.alpha /\ d.beta = c.beta /\ d.solver = c.solver
BY DEF Calls

\* The call c at another position with another window.
Shifted(c, p, a, b) == [c EXCEPT !.pos = p, !.alpha = a, !.beta = b]
\* Its fields.
LEMMA CallShifted ==
    ASSUME NEW c \in Calls, NEW p \in Positions, NEW a \in Int, NEW b \in Int
    PROVE  LET d == Shifted(c, p, a, b) IN
           d \in Calls /\ d.pos = p /\ d.alpha = a /\ d.beta = b /\ d.solver = c.solver
BY DEF Calls, Shifted

\* The call c with another window and solver.
Narrowed(c, a, b, s) == [c EXCEPT !.alpha = a, !.beta = b, !.solver = s]
\* Its fields.
LEMMA CallNarrowed ==
    ASSUME NEW c \in Calls, NEW a \in Int, NEW b \in Int, NEW s \in SolverStates
    PROVE  LET d == Narrowed(c, a, b, s) IN
           d \in Calls /\ d.pos = c.pos /\ d.alpha = a /\ d.beta = b /\ d.solver = s
BY DEF Calls, Narrowed

\* The call c with another solver.
Counted(c, s) == [c EXCEPT !.solver = s]
\* Its fields.
LEMMA CallCounted ==
    ASSUME NEW c \in Calls, NEW s \in SolverStates
    PROVE  LET d == Counted(c, s) IN
           d \in Calls /\ d.pos = c.pos /\ d.alpha = c.alpha /\ d.beta = c.beta /\ d.solver = s
BY DEF Calls, Counted

\* Every position has a slot of the table.
LEMMA SlotOfType == ASSUME NEW p \in Positions PROVE SlotOf(p) \in 0 .. TableSize - 1
<1>1. p.board \in SUBSET Plays /\ p.side \in 0 .. 1 /\ p.racks[0] \in Tiles
  BY PositionParts
<1>2. IsFiniteSet(p.board)
  BY <1>1, TileGameAssumption, FS_Subset
<1>3. Cardinality(p.board) \in Nat /\ Total(p.racks[0]) \in Nat
  BY <1>1, <1>2, FS_CardinalityType, TileCounts
<1>4. TableSize \in Nat \ {0}
  BY RequestAssumption
<1> DEFINE n == Cardinality(p.board) + p.side + Total(p.racks[0])
<1>5. n \in Nat
  BY <1>1, <1>3
<1> HIDE DEF n
<1>6. n % TableSize \in 0 .. TableSize - 1
  BY <1>4, <1>5
<1> QED
  BY <1>6 DEF SlotOf, n

\* Counting a node keeps the table, and an aborted solver stays as it is.
LEMMA VisitKeeps ==
    ASSUME NEW s \in SolverStates
    PROVE  /\ Visit(s) \in SolverStates /\ Visit(s).table = s.table
           /\ Visit(s).optimistic = s.optimistic
           /\ s.aborted => Visit(s) = s
<1>1. CASE s.aborted
  BY <1>1 DEF Visit
<1>2. CASE ~ s.aborted
  <2> DEFINE n == s.nodes + 1
             b == s.nodes + 1 > req.nodeBudget
  <2>1. n \in Nat /\ b \in BOOLEAN /\ Visit(s) = [s EXCEPT !.nodes = n, !.aborted = b]
    BY <1>2, SolverParts DEF Visit
  <2> HIDE DEF n, b
  <2> QED
    BY <1>2, <2>1 DEF SolverStates
<1> QED
  BY <1>1, <1>2

\* An entry is about the value of its position.
EntrySound(e) ==
    e.key # None =>
      LET p == e.key.pos
          v == V(e.key.optimistic)[p]
      IN  /\ v \in Int /\ Bounded(e.value, StakeAt(p))
          /\ e.flag # 2 => e.value <= v
          /\ e.flag # 1 => v <= e.value

\* What the table holds bounds the game values of the positions it is keyed by.
SolverSound(s, o) ==
    /\ s \in SolverStates /\ s.optimistic = o
    /\ \A i \in 0 .. TableSize - 1 : EntrySound(s.table[i])

\* What an answer within a window says of a value.
Tells(r, v, lo, hi, S) ==
    /\ Bounded(r, S)
    /\ r < hi => v <= r
    /\ r > lo => r <= v

\* The answer a to a call with the window lo to hi: aborted, or the solver is sound and the
\* value tells v within the window.
AnswerSound(a, v, lo, hi, S, o) ==
    /\ a \in Answers /\ SolverSound(a.solver, o)
    /\ a.solver.aborted \/ Tells(a.value, v, lo, hi, S)

\* A window and a stake a search is asked within.
WindowOk(lo, hi, S) == lo \in Int /\ hi \in Int /\ S \in Nat /\ lo < hi /\ lo + S < Infinity /\ 2 * S < Infinity

\* The search `deeper` is sound at every good position.
Searches(deeper, o) ==
    /\ deeper \in [Calls -> Answers]
    /\ \A c \in Calls : Good(c.pos) /\ WindowOk(c.alpha, c.beta, StakeAt(c.pos)) /\ SolverSound(c.solver, o) =>
         AnswerSound(deeper[c], V(o)[c.pos], c.alpha, c.beta, StakeAt(c.pos), o)

\* An abort says nothing.
LEMMA AbortSound ==
    ASSUME NEW s, NEW o, SolverSound(s, o), s.aborted, NEW v, NEW lo, NEW hi, NEW S
    PROVE  AnswerSound(Answer(0, s), v, lo, hi, S, o)
<1>1. s \in SolverStates /\ 0 \in Int
  BY DEF SolverSound
<1>2. Answer(0, s) \in Answers /\ Answer(0, s).solver = s
  BY <1>1, AnswerParts
<1> QED
  BY <1>2 DEF AnswerSound

-----------------------------------------------------------------------------
(* Drawing what suits the engine least                                     *)

\* over is the fold of WorstOver, as a function of the kinds drawn so far.
WorstSteps(over, drawMore, kinds, c) ==
    over = [i \in 0 .. Len(kinds) |->
              IF i = 0 THEN Answer(Infinity, c.solver)
              ELSE LET worst == over[i - 1]
                       beta == Min({c.beta, worst.value})
                   IN  IF worst.solver.aborted \/ c.alpha >= beta THEN worst
                       ELSE Worse(worst, drawMore[[pos |-> Drawn(c.pos, kinds[i]), alpha |-> c.alpha,
                                                   beta |-> beta, solver |-> worst.solver]])]

\* One kind more.
WorstNext(worst, drawMore, k, c) ==
    LET beta == Min({c.beta, worst.value})
    IN  IF worst.solver.aborted \/ c.alpha >= beta THEN worst
        ELSE Worse(worst, drawMore[[pos |-> Drawn(c.pos, k), alpha |-> c.alpha,
                                    beta |-> beta, solver |-> worst.solver]])

\* One kind more gives an answer again.
LEMMA WorstNextType ==
    ASSUME NEW drawMore \in [Calls -> Answers], NEW c \in Calls, NEW k \in Kinds, c.pos.bag[k] > 0,
           NEW worst \in Answers
    PROVE  WorstNext(worst, drawMore, k, c) \in Answers
<1> DEFINE beta == Min({c.beta, worst.value})
           q == Drawn(c.pos, k)
           d == [pos |-> q, alpha |-> c.alpha, beta |-> beta, solver |-> worst.solver]
           a == drawMore[d]
<1>1. /\ c.pos \in Positions /\ c.alpha \in Int /\ c.beta \in Int /\ worst.value \in Int
      /\ worst.solver \in SolverStates
  BY CallParts, AnswerParts
<1>2. q \in Positions /\ beta \in Int
  BY <1>1, DrawnEffect, MinMaxTwo
<1> HIDE DEF q, beta
<1>3. d \in Calls
  BY <1>1, <1>2, CallMade
<1>4. a \in Answers
  <2> HIDE DEF d
  <2> QED
    BY <1>3
<1>5. WorstNext(worst, drawMore, k, c) \in {worst, Worse(worst, a)}
  BY DEF WorstNext, beta, q
<1> HIDE DEF a
<1>6. Worse(worst, a) \in Answers
  <2>1. a.value \in Int /\ a.solver \in SolverStates
    BY <1>4, AnswerParts
  <2>2. Min({worst.value, a.value}) \in Int /\ 0 \in Int
    BY <1>1, <2>1, MinMaxTwo
  <2> QED
    BY <2>1, <2>2, AnswerParts DEF Worse
<1> QED
  BY <1>5, <1>6

\* The fold exists and is what WorstOver returns.
LEMMA WorstOverSteps ==
    ASSUME NEW drawMore \in [Calls -> Answers], NEW c \in Calls, NEW kinds \in Seq(Kinds),
           \A i \in 1 .. Len(kinds) : c.pos.bag[kinds[i]] > 0
    PROVE  \E over \in [0 .. Len(kinds) -> Answers] :
             /\ WorstOver(drawMore, kinds, c) = over[Len(kinds)]
             /\ over[0] = Answer(Infinity, c.solver)
             /\ \A i \in 1 .. Len(kinds) : over[i] = WorstNext(over[i - 1], drawMore, kinds[i], c)
<1> DEFINE n == Len(kinds)
           chosen == CHOOSE over : WorstSteps(over, drawMore, kinds, c)
           step == [i \in 1 .. n |-> [w \in Answers |-> WorstNext(w, drawMore, kinds[i], c)]]
           base == Answer(Infinity, c.solver)
<1>1. n \in Nat /\ \A i \in 1 .. n : kinds[i] \in Kinds
  OBVIOUS
<1>2. base \in Answers
  BY CallParts, AnswerParts, RequestAssumption
<1>3. \A i \in 1 .. n : \A w \in Answers :
        step[i][w] = WorstNext(w, drawMore, kinds[i], c) /\ step[i][w] \in Answers
  BY <1>1, WorstNextType
<1>4. WorstOver(drawMore, kinds, c) = chosen[n]
  BY DEF WorstOver, WorstSteps
<1> HIDE DEF step, base
<1>5. PICK f : Stepwise(f, n, Answers, base, step)
  BY <1>1, <1>2, <1>3, BoundedRecursion
<1>6. f \in [0 .. n -> Answers] /\ f[0] = base
  BY <1>5 DEF Stepwise
<1>7. \A i \in 1 .. n : f[i] = step[i][f[i - 1]]
  BY <1>5 DEF Stepwise
<1>8. \A i \in 1 .. n : f[i - 1] \in Answers
  BY <1>1, <1>6
<1>9. \A i \in 1 .. n : f[i] = WorstNext(f[i - 1], drawMore, kinds[i], c)
  BY <1>3, <1>7, <1>8, Zenon
<1> HIDE DEF n
<1>10. \A i \in 0 .. n : f[i] = IF i = 0 THEN base ELSE WorstNext(f[i - 1], drawMore, kinds[i], c)
  <2>1. \A i \in 0 .. n : i = 0 \/ i \in 1 .. n
    BY <1>1
  <2> QED
    BY <1>1, <1>6, <1>9, <2>1
<1>11. f = [i \in 0 .. n |-> f[i]]
  BY <1>6
<1>12. f = [i \in 0 .. n |-> IF i = 0 THEN base ELSE WorstNext(f[i - 1], drawMore, kinds[i], c)]
  BY <1>10, <1>11, Zenon
<1>13. WorstSteps(f, drawMore, kinds, c)
  BY <1>12, Zenon DEF WorstSteps, WorstNext, base, n
<1>14. WorstSteps(chosen, drawMore, kinds, c)
  BY <1>13, Zenon
<1> HIDE DEF chosen
<1>15. chosen = [i \in 0 .. n |-> IF i = 0 THEN base ELSE WorstNext(chosen[i - 1], drawMore, kinds[i], c)]
  BY <1>14, Zenon DEF WorstSteps, WorstNext, base, n
<1>16. chosen[0] = base /\ \A i \in 1 .. n : chosen[i] = WorstNext(chosen[i - 1], drawMore, kinds[i], c)
  <2>1. /\ 0 \in 0 .. n
        /\ \A i \in 1 .. n : i \in 0 .. n /\ i # 0
    BY <1>1
  <2>2. \A i \in 0 .. n : chosen[i] = IF i = 0 THEN base ELSE WorstNext(chosen[i - 1], drawMore, kinds[i], c)
    BY <1>15, Zenon
  <2> QED
    BY <2>1, <2>2, Zenon
<1>17. \A i \in 0 .. n : chosen[i] \in Answers
  <2> DEFINE Typed == {i \in Nat : i <= n => chosen[i] \in Answers}
  <2>1. 0 \in Typed
    BY <1>2, <1>16
  <2>2. ASSUME NEW i \in Typed PROVE i + 1 \in Typed
    <3> SUFFICES ASSUME i + 1 <= n PROVE chosen[i + 1] \in Answers
      OBVIOUS
    <3>1. i + 1 \in 1 .. n /\ chosen[i] \in Answers /\ (i + 1) - 1 = i
      BY <1>1
    <3>2. chosen[i + 1] = WorstNext(chosen[i], drawMore, kinds[i + 1], c)
      BY <1>16, <3>1
    <3> QED
      BY <1>1, <3>1, <3>2, WorstNextType DEF n
  <2>3. Typed = Nat
    <3>1. Typed \in SUBSET Nat
      OBVIOUS
    <3> HIDE DEF Typed
    <3> QED
      BY <2>1, <2>2, <3>1, NatClosed
  <2> QED
    BY <1>1, <2>3
<1>18. chosen \in [0 .. n -> Answers]
  <2>1. chosen = [i \in 0 .. n |-> chosen[i]]
    BY <1>15, Zenon
  <2> QED
    BY <1>17, <2>1
<1> QED
  BY <1>4, <1>16, <1>18 DEF n, base

\* The least of two is at most each, and one of them.
LEMMA MinTwoIs ==
    ASSUME NEW a \in Int, NEW b \in Int
    PROVE  /\ Min({a, b}) \in Int /\ Min({a, b}) <= a /\ Min({a, b}) <= b
           /\ Min({a, b}) = a \/ Min({a, b}) = b
           /\ Max({a, b}) \in Int /\ Max({a, b}) >= a /\ Max({a, b}) >= b
           /\ Max({a, b}) = a \/ Max({a, b}) = b
BY MinMaxTwo

\* What is known of the worst over the first i kinds.
WorstSoFar(worst, i, kinds, W, c, S, o) ==
    /\ worst \in Answers /\ SolverSound(worst.solver, o)
    /\ \/ worst.solver.aborted
       \/ i = 0 /\ worst.value = Infinity
       \/ /\ i >= 1 /\ Bounded(worst.value, S)
          /\ worst.value < c.beta => \E j \in 1 .. i : W[kinds[j]] <= worst.value
          /\ worst.value > c.alpha => \A j \in 1 .. i : worst.value <= W[kinds[j]]

\* One kind more: the worst so far tells the least of the values so far.
LEMMA WorstNextSound ==
    ASSUME NEW drawMore \in [Calls -> Answers], NEW c \in Calls, NEW kinds \in Seq(Kinds),
           NEW S, NEW o, WindowOk(c.alpha, c.beta, S),
           NEW W, \A k \in Range(kinds) : W[k] \in Int,
           NEW i \in Nat, i < Len(kinds), c.pos.bag[kinds[i + 1]] > 0,
           NEW worst, WorstSoFar(worst, i, kinds, W, c, S, o),
           \A beta \in Int : \A s : WindowOk(c.alpha, beta, S) /\ SolverSound(s, o) =>
             AnswerSound(drawMore[[pos |-> Drawn(c.pos, kinds[i + 1]), alpha |-> c.alpha, beta |-> beta, solver |-> s]],
                         W[kinds[i + 1]], c.alpha, beta, S, o)
    PROVE  WorstSoFar(WorstNext(worst, drawMore, kinds[i + 1], c), i + 1, kinds, W, c, S, o)
<1> DEFINE k == kinds[i + 1]
           beta == Min({c.beta, worst.value})
           a == drawMore[[pos |-> Drawn(c.pos, k), alpha |-> c.alpha, beta |-> beta, solver |-> worst.solver]]
           next == WorstNext(worst, drawMore, k, c)
           w(j) == W[kinds[j]]
<1>1. /\ c.alpha \in Int /\ c.beta \in Int /\ c.alpha < c.beta /\ S \in Nat /\ Infinity \in Nat
      /\ c.alpha + S < Infinity /\ 2 * S < Infinity
  BY RequestAssumption DEF WindowOk
<1>2. worst \in Answers /\ SolverSound(worst.solver, o) /\ worst.value \in Int /\ worst.solver.aborted \in BOOLEAN
  BY AnswerParts, SolverParts DEF WorstSoFar
<1>3. k \in Kinds /\ \A j \in 1 .. i + 1 : w(j) \in Int
  <2>1. \A j \in 1 .. i + 1 : kinds[j] \in Range(kinds)
    BY DEF Range
  <2> QED
    BY <2>1
<1>4. next \in Answers
  BY <1>2, <1>3, WorstNextType
<1>5. beta \in Int /\ beta <= c.beta /\ beta <= worst.value /\ (beta = c.beta \/ beta = worst.value)
  BY <1>1, <1>2, MinTwoIs
<1>6. next = IF worst.solver.aborted \/ c.alpha >= beta THEN worst ELSE Worse(worst, a)
  BY DEF WorstNext
<1>7. CASE worst.solver.aborted
  BY <1>2, <1>6, <1>7 DEF WorstSoFar
<1>8. CASE ~ worst.solver.aborted /\ c.alpha >= beta
  <2>1. next = worst
    BY <1>6, <1>8
  <2>2. worst.value <= c.alpha
    BY <1>1, <1>2, <1>5, <1>8
  <2> HIDE DEF next, beta
  <2>3. /\ i >= 1 /\ Bounded(worst.value, S)
        /\ worst.value < c.beta => \E j \in 1 .. i : W[kinds[j]] <= worst.value
    BY <1>1, <1>8, <2>2 DEF WorstSoFar
  <2>4. /\ i + 1 >= 1 /\ Bounded(worst.value, S)
        /\ worst.value < c.beta => \E j \in 1 .. i + 1 : W[kinds[j]] <= worst.value
        /\ worst.value > c.alpha => \A j \in 1 .. i + 1 : worst.value <= W[kinds[j]]
    <3>1. \A j \in 1 .. i : j \in 1 .. i + 1
      OBVIOUS
    <3>2. ~ (worst.value > c.alpha)
      BY <1>1, <1>2, <2>2
    <3>3. worst.value < c.beta => \E j \in 1 .. i + 1 : W[kinds[j]] <= worst.value
      BY <2>3, <3>1, Zenon
    <3> QED
      BY <2>3, <3>2, <3>3
  <2>5. WorstSoFar(worst, i + 1, kinds, W, c, S, o)
    BY <1>2, <2>4 DEF WorstSoFar
  <2> QED
    BY <2>1, <2>5 DEF next
<1>9. CASE ~ worst.solver.aborted /\ ~ (c.alpha >= beta)
  <2>1. next = Worse(worst, a)
    BY <1>6, <1>9
  <2>2. WindowOk(c.alpha, beta, S)
    BY <1>1, <1>5, <1>9 DEF WindowOk
  <2>3. AnswerSound(a, w(i + 1), c.alpha, beta, S, o)
    BY <1>2, <1>5, <2>2
  <2>4. a \in Answers /\ a.value \in Int /\ a.solver \in SolverStates /\ SolverSound(a.solver, o)
    BY <2>3, AnswerParts DEF AnswerSound
  <2> HIDE DEF a, beta, next
  <2>5. CASE a.solver.aborted
    <3>1. next = Answer(0, a.solver)
      BY <2>1, <2>5 DEF Worse
    <3>2. next.solver = a.solver
      <4>1. 0 \in Int
        OBVIOUS
      <4> QED
        BY <2>4, <3>1, <4>1, AnswerParts
    <3>3. WorstSoFar(next, i + 1, kinds, W, c, S, o)
      BY <1>4, <2>4, <2>5, <3>2 DEF WorstSoFar
    <3> QED
      BY <3>3 DEF next
  <2>6. CASE ~ a.solver.aborted
    <3> DEFINE v == Min({worst.value, a.value})
    <3>1. v \in Int /\ v <= worst.value /\ v <= a.value /\ (v = worst.value \/ v = a.value)
      BY <1>2, <2>4, MinTwoIs
    <3>2. next = Answer(v, a.solver)
      BY <2>1, <2>6 DEF Worse
    <3> HIDE DEF v
    <3>3. next.value = v /\ next.solver = a.solver
      BY <2>4, <3>1, <3>2, AnswerParts
    <3>4. /\ Bounded(a.value, S) /\ (a.value < beta => w(i + 1) <= a.value)
          /\ (a.value > c.alpha => a.value <= w(i + 1))
      BY <2>3, <2>6 DEF AnswerSound, Tells
    <3>5. \/ i = 0 /\ worst.value = Infinity
          \/ /\ i >= 1 /\ Bounded(worst.value, S)
             /\ worst.value < c.beta => \E j \in 1 .. i : w(j) <= worst.value
             /\ worst.value > c.alpha => \A j \in 1 .. i : worst.value <= w(j)
      BY <1>9 DEF WorstSoFar
    <3> HIDE DEF w
    <3>6. Bounded(v, S)
      BY <1>1, <3>1, <3>4, <3>5 DEF Bounded
    <3>7. ASSUME v < c.beta PROVE \E j \in 1 .. i + 1 : w(j) <= v
      <4>1. CASE i >= 1 /\ v = worst.value
        BY <3>5, <3>7, <4>1, <1>1
      <4>2. CASE ~ (i >= 1 /\ v = worst.value)
        <5>1. v = a.value /\ v < worst.value
          BY <1>1, <1>2, <2>4, <3>1, <3>4, <3>5, <4>2 DEF Bounded
        <5>2. w(i + 1) <= v
          BY <1>5, <3>1, <3>4, <3>7, <5>1
        <5>3. i + 1 \in 1 .. i + 1
          OBVIOUS
        <5> QED
          BY <5>2, <5>3
      <4> QED
        BY <4>1, <4>2
    <3>8. ASSUME v > c.alpha, NEW j \in 1 .. i + 1 PROVE v <= w(j)
      <4>1. CASE j = i + 1
        BY <1>1, <1>3, <2>4, <3>1, <3>4, <3>8, <4>1 DEF w
      <4>2. CASE j # i + 1
        <5>1. j \in 1 .. i /\ i >= 1
          BY <4>2
        <5>2. worst.value <= w(j)
          BY <1>1, <1>2, <3>1, <3>5, <3>8, <5>1
        <5> QED
          BY <1>2, <1>3, <3>1, <5>2 DEF w
      <4> QED
        BY <4>1, <4>2
    <3>9. /\ next.value < c.beta => \E j \in 1 .. i + 1 : W[kinds[j]] <= next.value
          /\ next.value > c.alpha => \A j \in 1 .. i + 1 : next.value <= W[kinds[j]]
      BY <3>3, <3>7, <3>8 DEF w
    <3>10. WorstSoFar(next, i + 1, kinds, W, c, S, o)
      BY <1>4, <2>4, <3>3, <3>6, <3>9 DEF WorstSoFar
    <3> QED
      BY <3>10 DEF next
  <2> QED
    BY <2>4, <2>5, <2>6 DEF next
<1> QED
  BY <1>7, <1>8, <1>9

\* So the worst over all the kinds tells the least of their values.
LEMMA WorstOverSound ==
    ASSUME NEW drawMore \in [Calls -> Answers], NEW c \in Calls, NEW kinds \in Seq(Kinds), kinds # <<>>,
           \A i \in 1 .. Len(kinds) : c.pos.bag[kinds[i]] > 0,
           NEW S, NEW o, WindowOk(c.alpha, c.beta, S), SolverSound(c.solver, o),
           NEW W, \A k \in Range(kinds) : W[k] \in Int,
           \A k \in Range(kinds) : \A beta \in Int : \A s : WindowOk(c.alpha, beta, S) /\ SolverSound(s, o) =>
             AnswerSound(drawMore[[pos |-> Drawn(c.pos, k), alpha |-> c.alpha, beta |-> beta, solver |-> s]],
                         W[k], c.alpha, beta, S, o),
           NEW v \in Int, \A k \in Range(kinds) : v <= W[k], \E k \in Range(kinds) : W[k] <= v
    PROVE  AnswerSound(WorstOver(drawMore, kinds, c), v, c.alpha, c.beta, S, o)
<1> DEFINE n == Len(kinds)
<1>1. n \in Nat /\ n >= 1 /\ \A i \in 1 .. n : kinds[i] \in Range(kinds) /\ kinds[i] \in Kinds
  BY DEF Range
<1>2. PICK over \in [0 .. n -> Answers] :
        /\ WorstOver(drawMore, kinds, c) = over[n]
        /\ over[0] = Answer(Infinity, c.solver)
        /\ \A i \in 1 .. n : over[i] = WorstNext(over[i - 1], drawMore, kinds[i], c)
  BY WorstOverSteps
<1> DEFINE Right == {i \in Nat : i <= n => WorstSoFar(over[i], i, kinds, W, c, S, o)}
<1>3. 0 \in Right
  <2>1. c.solver \in SolverStates /\ Infinity \in Int
    BY CallParts, RequestAssumption
  <2>2. over[0] \in Answers /\ over[0].value = Infinity /\ over[0].solver = c.solver
    BY <1>2, <2>1, AnswerParts
  <2>3. WorstSoFar(over[0], 0, kinds, W, c, S, o)
    BY <2>2 DEF WorstSoFar
  <2> QED
    BY <2>3
<1>4. ASSUME NEW i \in Right PROVE i + 1 \in Right
  <2> SUFFICES ASSUME i + 1 <= n PROVE WorstSoFar(over[i + 1], i + 1, kinds, W, c, S, o)
    OBVIOUS
  <2>1. i \in Nat /\ i < Len(kinds) /\ i + 1 \in 1 .. n /\ (i + 1) - 1 = i
    BY <1>1
  <2>2. WorstSoFar(over[i], i, kinds, W, c, S, o)
    BY <2>1
  <2>3. over[i + 1] = WorstNext(over[i], drawMore, kinds[i + 1], c)
    BY <1>2, <2>1
  <2>4. kinds[i + 1] \in Range(kinds) /\ c.pos.bag[kinds[i + 1]] > 0
    BY <1>1, <2>1
  <2>5. \A beta \in Int : \A s : WindowOk(c.alpha, beta, S) /\ SolverSound(s, o) =>
             AnswerSound(drawMore[[pos |-> Drawn(c.pos, kinds[i + 1]), alpha |-> c.alpha, beta |-> beta, solver |-> s]],
                         W[kinds[i + 1]], c.alpha, beta, S, o)
    BY <2>4
  <2> HIDE DEF Right, n
  <2>6. WorstSoFar(WorstNext(over[i], drawMore, kinds[i + 1], c), i + 1, kinds, W, c, S, o)
    BY <2>1, <2>2, <2>4, <2>5, WorstNextSound
  <2> QED
    BY <2>3, <2>6
<1>5. Right = Nat
  <2>1. Right \in SUBSET Nat
    OBVIOUS
  <2> HIDE DEF Right
  <2> QED
    BY <1>3, <1>4, <2>1, NatClosed
<1>6. WorstSoFar(over[n], n, kinds, W, c, S, o)
  BY <1>1, <1>5
<1> DEFINE a == over[n]
           r == a.value
<1>7. a \in Answers /\ SolverSound(a.solver, o) /\ r \in Int
  BY <1>6, AnswerParts DEF WorstSoFar
<1>8. ASSUME ~ a.solver.aborted PROVE Tells(r, v, c.alpha, c.beta, S)
  <2>1. /\ Bounded(r, S)
        /\ r < c.beta => \E j \in 1 .. n : W[kinds[j]] <= r
        /\ r > c.alpha => \A j \in 1 .. n : r <= W[kinds[j]]
    BY <1>1, <1>6, <1>8 DEF WorstSoFar
  <2>2. \A k \in Range(kinds) : \E j \in 1 .. n : k = kinds[j]
    BY DEF Range
  <2> HIDE DEF n, a, r
  <2>3. ASSUME r < c.beta PROVE v <= r
    <3>1. PICK j \in 1 .. n : W[kinds[j]] <= r
      BY <2>1, <2>3
    <3> QED
      BY <1>1, <1>7, <3>1
  <2>4. ASSUME r > c.alpha PROVE r <= v
    <3>1. PICK k \in Range(kinds) : W[k] <= v
      OBVIOUS
    <3>2. r <= W[k]
      BY <2>1, <2>2, <2>4
    <3> QED
      BY <1>7, <3>1, <3>2
  <2> QED
    BY <2>1, <2>3, <2>4 DEF Tells
<1> QED
  BY <1>2, <1>7, <1>8 DEF AnswerSound

\* The kinds of the bag, in the order they are drawn.
KindsIn(c) == SetToSeq({k \in Kinds : c.pos.bag[k] > 0})

\* They are the kinds with a tile left.
LEMMA KindsInAre ==
    ASSUME NEW c \in Calls
    PROVE  /\ KindsIn(c) \in Seq(Kinds) /\ Range(KindsIn(c)) = {k \in Kinds : c.pos.bag[k] > 0}
           /\ \A i \in 1 .. Len(KindsIn(c)) : c.pos.bag[KindsIn(c)[i]] > 0
<1> DEFINE S == {k \in Kinds : c.pos.bag[k] > 0}
           s == SetToSeq(S)
<1>1. S \subseteq Kinds /\ IsFiniteSet(S)
  BY TileGameAssumption, FS_Subset
<1> HIDE DEF S
<1>2. s \in Seq(S) /\ Range(s) = S
  BY <1>1, SetToSeqShape
<1> HIDE DEF s
<1>3. s \in Seq(Kinds) /\ \A i \in 1 .. Len(s) : s[i] \in S
  BY <1>1, <1>2
<1> QED
  BY <1>2, <1>3 DEF s, S, KindsIn

\* draw is the search with n tiles still to draw, as a function of n.
DrawSteps(draw, deeper) ==
    draw = [n \in Nat |->
              [c \in Calls |->
                 IF c.solver.aborted THEN Answer(0, c.solver)
                 ELSE IF n = 0 THEN deeper[[c EXCEPT !.pos = AfterScore(@)]]
                 ELSE WorstOver(draw[n - 1], SetToSeq({k \in Kinds : c.pos.bag[k] > 0}), c)]]

\* With none, the search after the score.
DrawBase(deeper) ==
    [c \in Calls |-> IF c.solver.aborted THEN Answer(0, c.solver)
                     ELSE deeper[[c EXCEPT !.pos = AfterScore(@)]]]
\* With one more, the worst over the kinds.
DrawNext(prev) ==
    [c \in Calls |-> IF c.solver.aborted THEN Answer(0, c.solver) ELSE WorstOver(prev, KindsIn(c), c)]

\* Both answer every call.
LEMMA DrawTypes ==
    ASSUME NEW deeper \in [Calls -> Answers]
    PROVE  /\ DrawBase(deeper) \in [Calls -> Answers]
           /\ DrawNext(deeper) \in [Calls -> Answers]
<1>1. ASSUME NEW c \in Calls
      PROVE  /\ Answer(0, c.solver) \in Answers
             /\ deeper[[c EXCEPT !.pos = AfterScore(@)]] \in Answers
             /\ WorstOver(deeper, KindsIn(c), c) \in Answers
  <2>1. c.pos \in Positions /\ c.solver \in SolverStates /\ c.alpha \in Int /\ 0 \in Int
    BY CallParts
  <2>2. Answer(0, c.solver) \in Answers
    BY <2>1, AnswerParts
  <2>3. AfterScore(c.pos) \in Positions
    BY <2>1, TurnEffect
  <2>4. [c EXCEPT !.pos = AfterScore(c.pos)] \in Calls
    BY <2>3, CallElsewhere
  <2>5. deeper[[c EXCEPT !.pos = AfterScore(@)]] \in Answers
    BY <2>4
  <2>6. WorstOver(deeper, KindsIn(c), c) \in Answers
    <3> DEFINE ks == KindsIn(c)
    <3>1. ks \in Seq(Kinds) /\ \A i \in 1 .. Len(ks) : c.pos.bag[ks[i]] > 0
      BY KindsInAre
    <3> HIDE DEF ks
    <3>2. PICK over \in [0 .. Len(ks) -> Answers] : WorstOver(deeper, ks, c) = over[Len(ks)]
      BY <3>1, WorstOverSteps
    <3>3. Len(ks) \in 0 .. Len(ks)
      BY <3>1
    <3> QED
      BY <3>2, <3>3 DEF ks
  <2> QED
    BY <2>2, <2>5, <2>6
<1> QED
  BY <1>1 DEF DrawBase, DrawNext

\* What drawing n tiles one after the other answers.
LEMMA DrawWorstSteps ==
    ASSUME NEW deeper \in [Calls -> Answers]
    PROVE  /\ \A n \in Nat : DrawWorst(deeper)[n] \in [Calls -> Answers]
           /\ DrawWorst(deeper)[0] = DrawBase(deeper)
           /\ \A n \in Nat : DrawWorst(deeper)[n + 1] = DrawNext(DrawWorst(deeper)[n])
<1> DEFINE T == [Calls -> Answers]
           chosen == CHOOSE draw : DrawSteps(draw, deeper)
           step == [n \in Nat |-> [x \in T |-> DrawNext(x)]]
           base == DrawBase(deeper)
           B(g, n) == IF n = 0 THEN base ELSE DrawNext(g[n - 1])
<1>1. DrawWorst(deeper) = chosen
  BY DEF DrawWorst, DrawSteps
<1>2. \A n \in Nat : \A x \in T : step[n][x] = DrawNext(x) /\ step[n][x] \in T
  <2> SUFFICES ASSUME NEW n \in Nat, NEW x \in T PROVE step[n][x] = DrawNext(x) /\ step[n][x] \in T
    OBVIOUS
  <2>1. DrawNext(x) \in T
    BY DrawTypes
  <2> QED
    BY <2>1
<1>3. base \in T
  BY DrawTypes
<1>4. \A g : DrawSteps(g, deeper) <=> g = [n \in Nat |-> B(g, n)]
  <2> SUFFICES ASSUME NEW g PROVE DrawSteps(g, deeper) <=> g = [n \in Nat |-> B(g, n)]
    OBVIOUS
  <2> DEFINE A(n) == [c \in Calls |->
                 IF c.solver.aborted THEN Answer(0, c.solver)
                 ELSE IF n = 0 THEN deeper[[c EXCEPT !.pos = AfterScore(@)]]
                 ELSE WorstOver(g[n - 1], SetToSeq({k \in Kinds : c.pos.bag[k] > 0}), c)]
  <2>1. \A n : A(n) = B(g, n)
    BY DEF DrawBase, DrawNext, KindsIn
  <2>2. DrawSteps(g, deeper) <=> g = [n \in Nat |-> A(n)]
    BY DEF DrawSteps
  <2> HIDE DEF A, B
  <2>3. [n \in Nat |-> A(n)] = [n \in Nat |-> B(g, n)]
    BY <2>1
  <2> QED
    BY <2>2, <2>3
<1> HIDE DEF T, step, base
<1>5. PICK f : StepwiseForever(f, T, base, step)
  BY <1>2, <1>3, NatRecursion
<1>6. f \in [Nat -> T] /\ f[0] = base
  BY <1>5 DEF StepwiseForever
<1>7. \A n \in Nat : n # 0 => f[n] = step[n][f[n - 1]]
  BY <1>5 DEF StepwiseForever
<1>8. \A n \in Nat : f[n] = B(f, n)
  <2>1. \A n \in Nat : n # 0 => f[n - 1] \in T
    BY <1>6
  <2> QED
    BY <1>2, <1>6, <1>7, <2>1, Zenon
<1>9. f = [n \in Nat |-> f[n]]
  BY <1>6
<1>10. f = [n \in Nat |-> B(f, n)]
  <2> HIDE DEF B
  <2> QED
    BY <1>8, <1>9
<1>11. DrawSteps(f, deeper)
  BY <1>4, <1>10
<1>12. DrawSteps(chosen, deeper)
  BY <1>11, Zenon
<1> HIDE DEF chosen
<1>13. chosen = [n \in Nat |-> B(chosen, n)]
  BY <1>4, <1>12
<1>14. \A n \in Nat : chosen[n] = B(chosen, n)
  <2> HIDE DEF B
  <2>1. \A g, h : g = [n \in Nat |-> B(h, n)] => \A n \in Nat : g[n] = B(h, n)
    OBVIOUS
  <2> QED
    BY <1>13, <2>1
<1>15. chosen[0] = base
  BY <1>14
<1>16. \A n \in Nat : chosen[n + 1] = DrawNext(chosen[n])
  <2> SUFFICES ASSUME NEW n \in Nat PROVE chosen[n + 1] = DrawNext(chosen[n])
    OBVIOUS
  <2>1. n + 1 \in Nat /\ n + 1 # 0 /\ (n + 1) - 1 = n
    OBVIOUS
  <2>2. chosen[n + 1] = B(chosen, n + 1)
    BY <1>14, <2>1
  <2> QED
    BY <2>1, <2>2
<1>17. \A n \in Nat : chosen[n] \in T
  <2> DEFINE Typed == {n \in Nat : chosen[n] \in T}
  <2>1. 0 \in Typed
    BY <1>3, <1>15
  <2>2. ASSUME NEW n \in Typed PROVE n + 1 \in Typed
    <3>1. DrawNext(chosen[n]) \in T
      BY DrawTypes DEF T
    <3> QED
      BY <1>16, <3>1
  <2>3. Typed = Nat
    <3>1. Typed \in SUBSET Nat
      OBVIOUS
    <3> HIDE DEF Typed
    <3> QED
      BY <2>1, <2>2, <3>1, NatClosed
  <2> QED
    BY <2>3
<1> QED
  BY <1>1, <1>15, <1>16, <1>17 DEF T, base

-----------------------------------------------------------------------------
(* One tile after the other is as bad as all at once                       *)

\* The values after the draws of n tiles, at x before them.
DrawValues(o, x, n) == {V(o)[AfterScore(Refilled(x, d))] : d \in Submultisets(x.bag, n)}
\* The worst of them.
DrawValue(o, x, n) == Min(DrawValues(o, x, n))

\* Any n tiles can be drawn.
DrawGood(x, n) ==
    /\ x \in Positions /\ n <= Total(x.bag)
    /\ \A d \in Submultisets(x.bag, n) : Good(AfterScore(Refilled(x, d)))

\* There is a worst one, within the stake.
LEMMA DrawValueIs ==
    ASSUME RequestReady, NEW o, NEW n \in Nat, NEW x, DrawGood(x, n)
    PROVE  /\ DrawValue(o, x, n) \in DrawValues(o, x, n)
           /\ \A w \in DrawValues(o, x, n) : Bounded(w, StakeAt(x)) /\ DrawValue(o, x, n) <= w
<1> DEFINE S == DrawValues(o, x, n)
           lo == - StakeAt(x)
           hi == StakeAt(x)
<1>1. x \in Positions /\ x.bag \in Tiles /\ StakeAt(x) \in Nat
  BY PositionParts DEF DrawGood
<1>2. S # {}
  BY <1>1, DrawsExist DEF DrawGood, DrawValues
<1>3. ASSUME NEW w \in S PROVE Bounded(w, StakeAt(x))
  <2>1. PICK d \in Submultisets(x.bag, n) : w = V(o)[AfterScore(Refilled(x, d))]
    BY DEF DrawValues
  <2>2. d \in Tiles /\ Within(d, x.bag)
    BY SubmultisetsAre
  <2>3. Refilled(x, d) \in Positions /\ StakeAt(Refilled(x, d)) = StakeAt(x)
    BY <1>1, <2>2, RefilledEffect
  <2>4. StakeAt(AfterScore(Refilled(x, d))) = StakeAt(x)
    BY <2>3, TurnEffect
  <2>5. Good(AfterScore(Refilled(x, d)))
    BY DEF DrawGood
  <2>6. Bounded(V(o)[AfterScore(Refilled(x, d))], StakeAt(AfterScore(Refilled(x, d))))
    BY <2>5, ValueBounds
  <2> QED
    BY <2>1, <2>4, <2>6
<1>4. lo \in Int /\ hi \in Int /\ \A w \in S : w \in Int /\ lo <= w /\ w <= hi
  BY <1>1, <1>3 DEF Bounded
<1>5. Min(S) \in S /\ \A w \in S : Min(S) <= w
  <2> HIDE DEF S, lo, hi
  <2> QED
    BY <1>2, <1>4, MinMaxBetween
<1> QED
  BY <1>3, <1>5 DEF DrawValue

\* With nothing to draw the only value is that of the position itself.
LEMMA DrawNone ==
    ASSUME NEW o, NEW x \in Positions
    PROVE  DrawValues(o, x, 0) = {V(o)[AfterScore(x)]} /\ Refilled(x, NoTiles) = x
           /\ NoTiles \in Submultisets(x.bag, 0)
<1>1. x.bag \in Tiles /\ x.racks \in [0 .. 1 -> Tiles] /\ x.side \in 0 .. 1
  BY PositionParts
<1>2. Submultisets(x.bag, 0) = {NoTiles}
  BY <1>1, DrawNothing
<1>3. \A c \in Tiles : Plus(c, NoTiles) = c /\ Minus(c, NoTiles) = c
  BY DEF Tiles, Plus, Minus, NoTiles
<1>4. x.racks[x.side] \in Tiles
  BY <1>1
<1> DEFINE r == [x.racks EXCEPT ![x.side] = Plus(x.racks[x.side], NoTiles)]
           b == Minus(x.bag, NoTiles)
<1>5. r = x.racks /\ b = x.bag
  BY <1>1, <1>3, <1>4
<1>6. Refilled(x, NoTiles) = [x EXCEPT !.racks = r, !.bag = b]
  BY DEF Refilled
<1> HIDE DEF r, b
<1>7. Refilled(x, NoTiles) = x
  BY <1>5, <1>6 DEF Positions
<1> QED
  BY <1>2, <1>7 DEF DrawValues

\* The worst over n + 1 tiles is the worst over the first of them.
LEMMA DrawValueSplits ==
    ASSUME RequestReady, NEW o, NEW n \in Nat, NEW x, DrawGood(x, n + 1)
    PROVE  /\ \A k \in Kinds : x.bag[k] > 0 =>
                /\ DrawGood(Drawn(x, k), n) /\ StakeAt(Drawn(x, k)) = StakeAt(x)
                /\ DrawValue(o, x, n + 1) <= DrawValue(o, Drawn(x, k), n)
           /\ \E k \in Kinds : x.bag[k] > 0 /\ DrawValue(o, Drawn(x, k), n) <= DrawValue(o, x, n + 1)
<1>1. x \in Positions /\ x.bag \in Tiles /\ Total(x.bag) \in Nat /\ n + 1 <= Total(x.bag) /\ n + 1 \in Nat
  BY PositionParts, TileCounts DEF DrawGood
<1>2. ASSUME NEW k \in Kinds, x.bag[k] > 0
      PROVE  /\ DrawGood(Drawn(x, k), n) /\ StakeAt(Drawn(x, k)) = StakeAt(x)
             /\ DrawValues(o, Drawn(x, k), n) \subseteq DrawValues(o, x, n + 1)
  <2> DEFINE y == Drawn(x, k)
  <2>1. /\ One(k) \in Tiles /\ Within(One(k), x.bag) /\ y = Refilled(x, One(k)) /\ y.bag = Without(x.bag, k)
        /\ y \in Positions
        /\ \A d \in Tiles : Within(d, Without(x.bag, k)) => Refilled(y, d) = Refilled(x, Plus(d, One(k)))
    BY <1>1, <1>2, DrawnEffect
  <2>2. StakeAt(y) = StakeAt(x)
    BY <1>1, <2>1, RefilledEffect
  <2>3. /\ Total(Without(x.bag, k)) = Total(x.bag) - 1
        /\ \A d \in Submultisets(Without(x.bag, k), n) : Plus(d, One(k)) \in Submultisets(x.bag, n + 1)
    BY <1>1, <1>2, DrawOneMore
  <2> HIDE DEF y
  <2>4. ASSUME NEW d \in Submultisets(y.bag, n)
        PROVE  /\ Plus(d, One(k)) \in Submultisets(x.bag, n + 1)
               /\ Refilled(y, d) = Refilled(x, Plus(d, One(k)))
    <3>1. d \in Tiles /\ Within(d, Without(x.bag, k))
      BY <2>1, SubmultisetsAre
    <3> QED
      BY <2>1, <2>3, <3>1
  <2>5. DrawGood(y, n)
    <3>1. n <= Total(y.bag)
      BY <1>1, <2>1, <2>3
    <3>2. ASSUME NEW d \in Submultisets(y.bag, n) PROVE Good(AfterScore(Refilled(y, d)))
      BY <2>4 DEF DrawGood
    <3> QED
      BY <2>1, <3>1, <3>2 DEF DrawGood
  <2>6. DrawValues(o, y, n) \subseteq DrawValues(o, x, n + 1)
    <3> SUFFICES ASSUME NEW d \in Submultisets(y.bag, n)
                 PROVE  V(o)[AfterScore(Refilled(y, d))] \in DrawValues(o, x, n + 1)
      BY DEF DrawValues
    <3> QED
      BY <2>4 DEF DrawValues
  <2> QED
    BY <2>2, <2>5, <2>6 DEF y
<1>3. ASSUME NEW k \in Kinds, x.bag[k] > 0
      PROVE  DrawValue(o, x, n + 1) <= DrawValue(o, Drawn(x, k), n)
  <2>1. DrawValue(o, Drawn(x, k), n) \in DrawValues(o, Drawn(x, k), n)
    BY <1>2, <1>3, DrawValueIs
  <2>2. DrawValue(o, Drawn(x, k), n) \in DrawValues(o, x, n + 1)
    BY <1>2, <1>3, <2>1
  <2> QED
    BY <1>1, <2>2, DrawValueIs
<1>4. \E k \in Kinds : x.bag[k] > 0 /\ DrawValue(o, Drawn(x, k), n) <= DrawValue(o, x, n + 1)
  <2>1. DrawValue(o, x, n + 1) \in DrawValues(o, x, n + 1)
    BY <1>1, DrawValueIs
  <2>2. PICK d \in Submultisets(x.bag, n + 1) : DrawValue(o, x, n + 1) = V(o)[AfterScore(Refilled(x, d))]
    BY <2>1 DEF DrawValues
  <2>3. PICK k \in Kinds : /\ x.bag[k] > 0 /\ Minus(d, One(k)) \in Submultisets(Without(x.bag, k), n)
                           /\ Plus(Minus(d, One(k)), One(k)) = d
    BY <1>1, DrawSplits
  <2> DEFINE e == Minus(d, One(k))
             y == Drawn(x, k)
  <2>4. e \in Submultisets(Without(x.bag, k), n) /\ Plus(e, One(k)) = d
    BY <2>3
  <2> HIDE DEF e
  <2>5. e \in Tiles /\ Within(e, Without(x.bag, k))
    BY <2>4, SubmultisetsAre
  <2>6. y.bag = Without(x.bag, k) /\ Refilled(y, e) = Refilled(x, d)
    BY <1>1, <2>3, <2>4, <2>5, DrawnEffect
  <2>7. V(o)[AfterScore(Refilled(y, e))] \in DrawValues(o, y, n)
    BY <2>4, <2>6 DEF DrawValues
  <2>8. DrawValue(o, y, n) <= V(o)[AfterScore(Refilled(y, e))]
    BY <1>2, <2>3, <2>7, DrawValueIs
  <2> QED
    BY <2>2, <2>3, <2>6, <2>8
<1> QED
  BY <1>2, <1>3, <1>4

\* The search over what is drawn, tile by tile, answers for the worst draw.
LEMMA DrawWorstSound ==
    ASSUME RequestReady, NEW o, NEW deeper, Searches(deeper, o)
    PROVE  \A n \in Nat : \A c \in Calls :
             DrawGood(c.pos, n) /\ WindowOk(c.alpha, c.beta, StakeAt(c.pos)) /\ SolverSound(c.solver, o) =>
               AnswerSound(DrawWorst(deeper)[n][c], DrawValue(o, c.pos, n), c.alpha, c.beta, StakeAt(c.pos), o)
<1> DEFINE Ok(c, n) == DrawGood(c.pos, n) /\ WindowOk(c.alpha, c.beta, StakeAt(c.pos)) /\ SolverSound(c.solver, o)
           Sound(c, n) == AnswerSound(DrawWorst(deeper)[n][c], DrawValue(o, c.pos, n), c.alpha, c.beta, StakeAt(c.pos), o)
           Right == {n \in Nat : \A c \in Calls : Ok(c, n) => Sound(c, n)}
<1>1. deeper \in [Calls -> Answers]
  BY DEF Searches
<1>2. /\ \A n \in Nat : DrawWorst(deeper)[n] \in [Calls -> Answers]
      /\ DrawWorst(deeper)[0] = DrawBase(deeper)
      /\ \A n \in Nat : DrawWorst(deeper)[n + 1] = DrawNext(DrawWorst(deeper)[n])
  BY <1>1, DrawWorstSteps
<1>3. 0 \in Right
  <2> SUFFICES ASSUME NEW c \in Calls, Ok(c, 0) PROVE Sound(c, 0)
    OBVIOUS
  <2> DEFINE p == AfterScore(c.pos)
             d == [c EXCEPT !.pos = p]
             v == V(o)[p]
  <2>1. c.pos \in Positions /\ SolverSound(c.solver, o) /\ c.alpha \in Int
    BY CallParts
  <2>2. p \in Positions /\ StakeAt(p) = StakeAt(c.pos)
    BY <2>1, TurnEffect
  <2>3. Good(p)
    BY <2>1, DrawNone DEF DrawGood
  <2>4. DrawValue(o, c.pos, 0) = v
    <3>1. 0 \in Nat
      OBVIOUS
    <3>2. DrawValue(o, c.pos, 0) \in DrawValues(o, c.pos, 0)
      BY <3>1, DrawValueIs
    <3> QED
      BY <2>1, <3>2, DrawNone
  <2>5. /\ d \in Calls /\ d.pos = p /\ d.alpha = c.alpha /\ d.beta = c.beta /\ d.solver = c.solver
    <3> HIDE DEF p
    <3> QED
      BY <2>2, CallElsewhere
  <2>6. AnswerSound(deeper[d], V(o)[d.pos], d.alpha, d.beta, StakeAt(d.pos), o)
    <3> HIDE DEF d
    <3>1. Good(d.pos) /\ WindowOk(d.alpha, d.beta, StakeAt(d.pos)) /\ SolverSound(d.solver, o)
      BY <2>2, <2>3, <2>5
    <3> QED
      BY <2>5, <3>1 DEF Searches
  <2>7. DrawWorst(deeper)[0][c] = IF c.solver.aborted THEN Answer(0, c.solver) ELSE deeper[d]
    BY <1>2 DEF DrawBase
  <2>8. CASE c.solver.aborted
    BY <2>1, <2>7, <2>8, AbortSound
  <2>9. CASE ~ c.solver.aborted
    <3>1. DrawWorst(deeper)[0][c] = deeper[d]
      BY <2>7, <2>9
    <3> HIDE DEF d, v, p
    <3>2. AnswerSound(deeper[d], v, c.alpha, c.beta, StakeAt(c.pos), o)
      BY <2>2, <2>5, <2>6 DEF v
    <3> QED
      BY <2>4, <3>1, <3>2
  <2> QED
    BY <2>8, <2>9
<1>4. ASSUME NEW n \in Right PROVE n + 1 \in Right
  <2> SUFFICES ASSUME NEW c \in Calls, Ok(c, n + 1) PROVE Sound(c, n + 1)
    OBVIOUS
  <2> DEFINE x == c.pos
             S == StakeAt(x)
             draw == DrawWorst(deeper)[n]
             ks == KindsIn(c)
             W == [k \in Kinds |-> DrawValue(o, Drawn(x, k), n)]
             v == DrawValue(o, x, n + 1)
  <2>1. n \in Nat /\ n + 1 \in Nat /\ x \in Positions /\ c.alpha \in Int /\ SolverSound(c.solver, o)
        /\ WindowOk(c.alpha, c.beta, S) /\ DrawGood(x, n + 1)
    BY CallParts
  <2>2. /\ draw \in [Calls -> Answers]
        /\ DrawWorst(deeper)[n + 1][c] = IF c.solver.aborted THEN Answer(0, c.solver) ELSE WorstOver(draw, ks, c)
    BY <1>2, <2>1 DEF DrawNext
  <2>3. /\ \A k \in Kinds : x.bag[k] > 0 =>
                /\ DrawGood(Drawn(x, k), n) /\ StakeAt(Drawn(x, k)) = S
                /\ v <= DrawValue(o, Drawn(x, k), n)
        /\ \E k \in Kinds : x.bag[k] > 0 /\ DrawValue(o, Drawn(x, k), n) <= v
    BY <2>1, DrawValueSplits
  <2>4. /\ ks \in Seq(Kinds) /\ Range(ks) = {k \in Kinds : x.bag[k] > 0}
        /\ \A i \in 1 .. Len(ks) : x.bag[ks[i]] > 0
    BY KindsInAre
  <2>5. v \in Int
    BY <2>1, DrawValueIs DEF Bounded
  <2>6. \A k \in Range(ks) : W[k] \in Int /\ v <= W[k]
    <3> SUFFICES ASSUME NEW k \in Range(ks) PROVE W[k] \in Int /\ v <= W[k]
      OBVIOUS
    <3>1. k \in Kinds /\ x.bag[k] > 0
      BY <2>4
    <3>2. DrawGood(Drawn(x, k), n) /\ v <= DrawValue(o, Drawn(x, k), n)
      BY <2>3, <3>1
    <3>3. DrawValue(o, Drawn(x, k), n) \in Int
      BY <2>1, <3>2, DrawValueIs DEF Bounded
    <3> QED
      BY <3>1, <3>2, <3>3
  <2>7. \E k \in Range(ks) : W[k] <= v
    BY <2>3, <2>4
  <2>8. ks # <<>>
    <3>1. PICK k : k \in Range(ks)
      BY <2>7
    <3> QED
      BY <3>1 DEF Range
  <2>9. ASSUME NEW k \in Range(ks), NEW beta \in Int, NEW s, WindowOk(c.alpha, beta, S), SolverSound(s, o)
        PROVE  AnswerSound(draw[[pos |-> Drawn(x, k), alpha |-> c.alpha, beta |-> beta, solver |-> s]],
                           W[k], c.alpha, beta, S, o)
    <3> DEFINE q == Drawn(x, k)
               d == [pos |-> q, alpha |-> c.alpha, beta |-> beta, solver |-> s]
    <3>1. k \in Kinds /\ x.bag[k] > 0
      BY <2>4
    <3>2. DrawGood(q, n) /\ StakeAt(q) = S /\ W[k] = DrawValue(o, q, n)
      BY <2>3, <3>1
    <3>3. q \in Positions /\ s \in SolverStates
      BY <2>9, <3>2 DEF DrawGood, SolverSound
    <3>4. d \in Calls /\ d.pos = q /\ d.alpha = c.alpha /\ d.beta = beta /\ d.solver = s
      BY <2>1, <3>3, CallMade
    <3> HIDE DEF d, q, W, S, x
    <3>5. Ok(d, n)
      BY <2>9, <3>2, <3>4
    <3>6. Sound(d, n)
      BY <3>4, <3>5
    <3>7. AnswerSound(draw[d], W[k], c.alpha, beta, S, o)
      BY <3>2, <3>4, <3>6
    <3> QED
      BY <3>7 DEF d, q, x
  <2>10. CASE c.solver.aborted
    BY <2>1, <2>2, <2>10, AbortSound
  <2>11. CASE ~ c.solver.aborted
    <3>1. DrawWorst(deeper)[n + 1][c] = WorstOver(draw, ks, c)
      BY <2>2, <2>11
    <3> HIDE DEF W, S, v, ks, draw
    <3>2. AnswerSound(WorstOver(draw, ks, c), v, c.alpha, c.beta, S, o)
      BY <2>1, <2>2, <2>4, <2>5, <2>6, <2>7, <2>8, <2>9, WorstOverSound
    <3> QED
      BY <3>1, <3>2 DEF v, S
  <2> QED
    BY <2>10, <2>11
<1>5. Right = Nat
  <2>1. Right \in SUBSET Nat
    OBVIOUS
  <2> HIDE DEF Right
  <2> QED
    BY <1>3, <1>4, <2>1, NatClosed
<1> QED
  BY <1>5

-----------------------------------------------------------------------------
(* The options of a node                                                   *)

\* What the mover may do.
OptionsOf(p) == Playable(p) \cup {Pass}
\* What it is worth to the side the request is of.
OptionWorth(o, p, m) == IF m = Pass THEN WorthOfPass(V(o), p) ELSE WorthOfPlay(V(o), p, m, req.scoreOf)

\* The values the rules choose from are the worths of the options.
LEMMA OptionsAreWorths ==
    ASSUME NEW o, NEW p
    PROVE  Worths(V(o), p, req.scoreOf) = {OptionWorth(o, p, m) : m \in OptionsOf(p)}
<1>1. Pass \notin Plays /\ Playable(p) \subseteq Plays
  BY TileGameAssumption DEF Playable
<1>2. \A m \in Playable(p) : OptionWorth(o, p, m) = WorthOfPlay(V(o), p, m, req.scoreOf)
  BY <1>1 DEF OptionWorth
<1>3. OptionWorth(o, p, Pass) = WorthOfPass(V(o), p)
  BY DEF OptionWorth
<1> QED
  BY <1>2, <1>3, Zenon DEF Worths, OptionsOf

\* They are within the stake.
LEMMA OptionBounds ==
    ASSUME RequestReady, NEW o, NEW p, Good(p), NEW m \in OptionsOf(p)
    PROVE  Bounded(OptionWorth(o, p, m), StakeAt(p))
<1>1. OptionWorth(o, p, m) \in Worths(V(o), p, req.scoreOf)
  BY OptionsAreWorths
<1> QED
  BY <1>1, ValueBounds

\* An answer that is exactly so.
LEMMA ExactSound ==
    ASSUME NEW s, NEW o, SolverSound(s, o), NEW S, NEW v, Bounded(v, S), NEW lo, NEW hi
    PROVE  AnswerSound(Answer(v, s), v, lo, hi, S, o)
<1>1. v \in Int /\ s \in SolverStates
  BY DEF Bounded, SolverSound
<1>2. Answer(v, s) \in Answers /\ Answer(v, s).value = v /\ Answer(v, s).solver = s
  BY <1>1, AnswerParts
<1>3. Tells(v, v, lo, hi, S)
  BY <1>1 DEF Tells
<1> QED
  BY <1>2, <1>3 DEF AnswerSound

\* What the end of the game gains is a whole number.
LEMMA EndGainTypes ==
    ASSUME NEW q \in Positions
    PROVE  RackOutGain(q) \in Int /\ StreakGain(q) \in Int
<1> DEFINE a == Points(q.racks[0])
           b == Points(q.racks[1])
<1>1. q.racks[0] \in Tiles /\ q.racks[1] \in Tiles
  BY PositionParts
<1>2. a \in Nat /\ b \in Nat
  BY <1>1, TileCounts
<1>3. RackOutGain(q) = (IF q.side = 0 THEN 2 * b ELSE -2 * a) /\ StreakGain(q) = b - a
  BY DEF RackOutGain, StreakGain
<1> HIDE DEF a, b
<1> QED
  BY <1>2, <1>3

\* The value of an option is an answer.
LEMMA OptionValueType ==
    ASSUME RequestReady, NEW deeper \in [Calls -> Answers], NEW c \in Calls, NEW m \in OptionsOf(c.pos)
    PROVE  OptionValue(deeper, m, c) \in Answers
<1> DEFINE p == c.pos
           q == Placed(p, m)
           gain == Signed(p, req.scoreOf[m])
           n == DrawsOf(q)
           lo == c.alpha - gain
           hi == c.beta - gain
           d == [c EXCEPT !.pos = q, !.alpha = lo, !.beta = hi]
           a == DrawWorst(deeper)[n][d]
<1>1. p \in Positions /\ c.alpha \in Int /\ c.beta \in Int /\ c.solver \in SolverStates
  BY CallParts
<1>2. CASE m = Pass
  <2>1. StreakGain(p) \in Int /\ Answer(StreakGain(p), c.solver) \in Answers
    BY <1>1, EndGainTypes, AnswerParts
  <2>2. AfterPass(p) \in Positions
    BY <1>1, TurnEffect
  <2>3. [c EXCEPT !.pos = AfterPass(p)] \in Calls
    BY <2>2, CallElsewhere
  <2> QED
    BY <1>2, <2>1, <2>3 DEF OptionValue
<1>3. CASE m # Pass
  <2>1. m \in Playable(p) /\ m \in Plays
    BY <1>3 DEF OptionsOf, Playable
  <2>2. q \in Positions /\ gain \in Int
    BY <1>1, <2>1, PlacedEffect, GainBounds
  <2>3. n \in Nat
    BY <2>2, DrawsOfType
  <2>4. OptionValue(deeper, m, c) = IF RackedOut(q) THEN Answer(gain + RackOutGain(q), c.solver)
                                    ELSE AfterGain(gain, a)
    BY <1>3 DEF OptionValue, PlayValue
  <2>5. lo \in Int /\ hi \in Int
    BY <1>1, <2>2
  <2> HIDE DEF q, gain, n, p, lo, hi
  <2>6. d \in Calls
    BY <1>1, <2>2, <2>5, CallShifted DEF Shifted
  <2>7. DrawWorst(deeper)[n] \in [Calls -> Answers]
    BY <2>3, DrawWorstSteps
  <2>8. a \in Answers
    <3> HIDE DEF d
    <3> QED
      BY <2>6, <2>7
  <2> HIDE DEF a
  <2>9. gain + RackOutGain(q) \in Int /\ gain + a.value \in Int /\ a.solver \in SolverStates
    BY <2>2, <2>8, EndGainTypes, AnswerParts
  <2>10. AfterGain(gain, a) \in Answers
    BY <2>8, <2>9, AnswerParts DEF AfterGain
  <2> QED
    BY <1>1, <2>4, <2>9, <2>10, AnswerParts
<1> QED
  BY <1>2, <1>3

\* The search of a placement tells what it is worth,
LEMMA PlayValueSound ==
    ASSUME RequestReady, NEW o, NEW deeper, Searches(deeper, o),
           NEW c \in Calls, Good(c.pos), NEW m \in Playable(c.pos),
           WindowOk(c.alpha, c.beta, StakeAt(c.pos)), SolverSound(c.solver, o)
    PROVE  AnswerSound(PlayValue(deeper, m, c), WorthOfPlay(V(o), c.pos, m, req.scoreOf),
                       c.alpha, c.beta, StakeAt(c.pos), o)
<1> DEFINE p == c.pos
           S == StakeAt(p)
           q == Placed(p, m)
           gain == Signed(p, req.scoreOf[m])
           n == DrawsOf(q)
           lo == c.alpha - gain
           hi == c.beta - gain
           d == [c EXCEPT !.pos = q, !.alpha = lo, !.beta = hi]
           a == DrawWorst(deeper)[n][d]
           worth == WorthOfPlay(V(o), p, m, req.scoreOf)
<1>1. /\ p \in Positions /\ c.alpha \in Int /\ c.beta \in Int /\ c.solver \in SolverStates
      /\ m \in Plays /\ deeper \in [Calls -> Answers]
  BY CallParts DEF Playable, Searches
<1>2. Bounded(worth, S)
  <2>1. m \in OptionsOf(p) /\ OptionWorth(o, p, m) = worth
    BY <1>1, TileGameAssumption DEF OptionsOf, OptionWorth
  <2> QED
    BY <2>1, OptionBounds
<1>3. /\ q \in Positions /\ StakeAt(q) = S - Stake(Uses[m])
  BY <1>1, PlacedEffect
<1>4. /\ Stake(Uses[m]) \in Nat /\ StakeAt(q) \in Nat /\ S \in Nat /\ gain \in Int
      /\ Bounded(gain, Stake(Uses[m]))
  BY <1>1, <1>3, UsesCount, PositionParts, GainBounds
<1>5. PlayValue(deeper, m, c) = IF RackedOut(q) THEN Answer(gain + RackOutGain(q), c.solver)
                                ELSE AfterGain(gain, a)
  BY DEF PlayValue
<1>6. CASE RackedOut(q)
  <2>1. worth = gain + RackOutGain(q)
    BY <1>6, OutsAgree DEF WorthOfPlay
  <2>2. PlayValue(deeper, m, c) = Answer(worth, c.solver)
    BY <1>5, <1>6, <2>1
  <2> HIDE DEF worth, S
  <2>3. AnswerSound(Answer(worth, c.solver), worth, c.alpha, c.beta, S, o)
    BY <1>2, ExactSound
  <2> QED
    BY <2>2, <2>3 DEF worth, S
<1>7. CASE ~ RackedOut(q)
  <2> DEFINE v == DrawValue(o, q, n)
  <2>1. n \in Nat /\ n <= Total(q.bag)
    BY <1>3, DrawsOfType
  <2>2. DrawGood(q, n)
    <3>1. ASSUME NEW e \in Submultisets(q.bag, n) PROVE Good(AfterScore(Refilled(q, e)))
      <4>1. Good(After(p, m, e))
        BY GoodAfter
      <4> QED
        BY <4>1 DEF After
    <3> HIDE DEF q, n
    <3> QED
      BY <1>3, <2>1, <3>1 DEF DrawGood
  <2>3. worth = gain + v
    <3>1. ~ GoesOut(q)
      BY <1>7, OutsAgree
    <3> QED
      BY <3>1 DEF WorthOfPlay, DrawValue, DrawValues
  <2>4. PlayValue(deeper, m, c) = AfterGain(gain, a)
    BY <1>5, <1>7
  <2>5. WindowOk(lo, hi, StakeAt(q)) /\ lo \in Int /\ hi \in Int
    <3>1. c.alpha < c.beta /\ c.alpha + S < Infinity /\ 2 * S < Infinity /\ Infinity \in Nat
      BY RequestAssumption DEF WindowOk
    <3> HIDE DEF S, gain, q
    <3> QED
      BY <1>1, <1>3, <1>4, <3>1 DEF WindowOk, Bounded
  <2>6. v \in Int
    BY <2>1, <2>2, DrawValueIs DEF Bounded
  <2> HIDE DEF q, gain, n, v, worth, lo, hi
  <2>7. d \in Calls /\ d.pos = q /\ d.alpha = lo /\ d.beta = hi /\ d.solver = c.solver
    <3>1. q \in Positions /\ lo \in Int /\ hi \in Int
      BY <1>3, <2>5
    <3>2. d = Shifted(c, q, lo, hi)
      BY DEF Shifted
    <3> HIDE DEF p, S, d
    <3> QED
      BY <3>1, <3>2, CallShifted
  <2>8. AnswerSound(a, v, lo, hi, StakeAt(q), o)
    <3> HIDE DEF d
    <3>1. AnswerSound(DrawWorst(deeper)[n][d], DrawValue(o, d.pos, n), d.alpha, d.beta, StakeAt(d.pos), o)
      BY <2>1, <2>2, <2>5, <2>7, DrawWorstSound
    <3> QED
      BY <2>7, <3>1 DEF v
  <2> HIDE DEF a
  <2>9. a \in Answers /\ a.value \in Int /\ a.solver \in SolverStates /\ SolverSound(a.solver, o)
    BY <2>8, AnswerParts DEF AnswerSound
  <2>10. CASE a.solver.aborted
    <3>1. AfterGain(gain, a) = a
      BY <2>10 DEF AfterGain
    <3> QED
      BY <2>4, <2>9, <2>10, <3>1 DEF AnswerSound, worth
  <2>11. CASE ~ a.solver.aborted
    <3> DEFINE r == gain + a.value
               b == Answer(r, a.solver)
    <3>1. AfterGain(gain, a) = b
      BY <2>11 DEF AfterGain
    <3>2. r \in Int
      BY <1>4, <2>9
    <3>3. b \in Answers /\ b.value = r /\ b.solver = a.solver
      BY <2>9, <3>2, AnswerParts
    <3>4. Tells(a.value, v, lo, hi, StakeAt(q))
      BY <2>8, <2>11 DEF AnswerSound
    <3>5. lo = c.alpha - gain /\ hi = c.beta - gain
      BY DEF lo, hi
    <3>6. Tells(r, worth, c.alpha, c.beta, S)
      <4> HIDE DEF S
      <4> QED
        BY <1>1, <1>3, <1>4, <2>3, <2>6, <2>9, <3>4, <3>5 DEF Tells, Bounded
    <3> HIDE DEF b, r
    <3> QED
      BY <2>4, <2>9, <3>1, <3>3, <3>6 DEF AnswerSound, worth
  <2> QED
    BY <2>10, <2>11
<1> QED
  BY <1>6, <1>7

\* and so does that of any option.
LEMMA OptionValueSound ==
    ASSUME RequestReady, NEW o, NEW deeper, Searches(deeper, o),
           NEW c \in Calls, Good(c.pos), NEW m \in OptionsOf(c.pos),
           WindowOk(c.alpha, c.beta, StakeAt(c.pos)), SolverSound(c.solver, o)
    PROVE  AnswerSound(OptionValue(deeper, m, c), OptionWorth(o, c.pos, m),
                       c.alpha, c.beta, StakeAt(c.pos), o)
<1> DEFINE p == c.pos
           S == StakeAt(p)
<1>1. p \in Positions /\ SolverSound(c.solver, o)
  BY CallParts
<1>2. CASE m # Pass
  <2>1. m \in Playable(p)
    BY <1>2 DEF OptionsOf
  <2> QED
    BY <1>2, <2>1, PlayValueSound DEF OptionValue, OptionWorth
<1>3. CASE m = Pass
  <2> DEFINE worth == WorthOfPass(V(o), p)
  <2>1. OptionWorth(o, p, m) = worth /\ Bounded(worth, S)
    <3>1. OptionWorth(o, p, m) = worth
      BY <1>3 DEF OptionWorth
    <3> QED
      BY <3>1, OptionBounds
  <2>2. CASE PassEnds(p)
    <3>1. worth = StreakGain(p) /\ OptionValue(deeper, m, c) = Answer(StreakGain(p), c.solver)
      BY <1>3, <2>2 DEF WorthOfPass, OptionValue
    <3> HIDE DEF worth, S
    <3>2. AnswerSound(Answer(worth, c.solver), worth, c.alpha, c.beta, S, o)
      BY <2>1, ExactSound
    <3> QED
      BY <2>1, <3>1, <3>2 DEF S
  <2>3. CASE ~ PassEnds(p)
    <3> DEFINE y == AfterPass(p)
               d == [c EXCEPT !.pos = y]
    <3>1. worth = V(o)[y] /\ OptionValue(deeper, m, c) = deeper[d]
      BY <1>3, <2>3 DEF WorthOfPass, OptionValue
    <3>2. Good(y) /\ StakeAt(y) = S /\ y \in Positions
      BY <1>1, GoodPass, TurnEffect
    <3> HIDE DEF y, S, worth
    <3>3. d \in Calls /\ d.pos = y /\ d.alpha = c.alpha /\ d.beta = c.beta /\ d.solver = c.solver
      BY <3>2, CallElsewhere
    <3>4. AnswerSound(deeper[d], V(o)[d.pos], d.alpha, d.beta, StakeAt(d.pos), o)
      <4> HIDE DEF d
      <4>1. Good(d.pos) /\ WindowOk(d.alpha, d.beta, StakeAt(d.pos)) /\ SolverSound(d.solver, o)
        BY <3>2, <3>3 DEF S
      <4> QED
        BY <3>3, <4>1 DEF Searches
    <3> HIDE DEF d
    <3> QED
      BY <2>1, <3>1, <3>2, <3>3, <3>4 DEF S
  <2> QED
    BY <2>2, <2>3
<1> QED
  BY <1>2, <1>3

-----------------------------------------------------------------------------
(* The node of a search                                                    *)

\* The state of the loop over the options of a position.
Nodes == [max : BOOLEAN, best : Int, move : Plays \cup {Pass}, alpha : Int, beta : Int,
          cut : BOOLEAN, solver : SolverStates]

\* Its fields.
LEMMA NodeParts ==
    ASSUME NEW x \in Nodes
    PROVE  /\ x.max \in BOOLEAN /\ x.best \in Int /\ x.move \in Plays \cup {Pass} /\ x.alpha \in Int
           /\ x.beta \in Int /\ x.cut \in BOOLEAN /\ x.solver \in SolverStates
BY DEF Nodes

\* A node that goes on with another state of the solver.
Given(node, s) == [node EXCEPT !.solver = s]
\* A node with another solver.
LEMMA GivenParts ==
    ASSUME NEW node \in Nodes, NEW s \in SolverStates
    PROVE  LET x == Given(node, s) IN
           /\ x \in Nodes /\ x.max = node.max /\ x.best = node.best /\ x.move = node.move
           /\ x.alpha = node.alpha /\ x.beta = node.beta /\ x.cut = node.cut /\ x.solver = s
BY DEF Nodes, Given

\* A node after a choice.
Chose(node, best, alpha, beta, move) ==
    [node EXCEPT !.best = best, !.alpha = alpha, !.beta = beta, !.move = move, !.cut = alpha >= beta]
\* Its fields.
LEMMA ChoseParts ==
    ASSUME NEW node \in Nodes, NEW best \in Int, NEW alpha \in Int, NEW beta \in Int,
           NEW move \in Plays \cup {Pass}
    PROVE  LET x == Chose(node, best, alpha, beta, move) IN
           /\ x \in Nodes /\ x.max = node.max /\ x.best = best /\ x.move = move
           /\ x.alpha = alpha /\ x.beta = beta /\ x.cut = (alpha >= beta) /\ x.solver = node.solver
<1> DEFINE cut == alpha >= beta
           x == [node EXCEPT !.best = best, !.alpha = alpha, !.beta = beta, !.move = move, !.cut = cut]
<1>1. x = Chose(node, best, alpha, beta, move)
  BY DEF Chose
<1>2. cut \in BOOLEAN
  OBVIOUS
<1> HIDE DEF cut
<1>3. /\ x.max = node.max /\ x.best = best /\ x.move = move
      /\ x.alpha = alpha /\ x.beta = beta /\ x.solver = node.solver
  BY DEF Nodes
<1>4. x.cut = cut
  BY Zenon DEF Nodes
<1>5. x \in Nodes
  BY <1>2 DEF Nodes
<1> HIDE DEF x
<1> QED
  BY <1>1, <1>3, <1>4, <1>5 DEF cut

\* What considering an option does to the best value and the window.
LEMMA ConsiderParts ==
    ASSUME NEW node \in Nodes, NEW m \in Plays \cup {Pass}, NEW v \in Int
    PROVE  LET x == Consider(node, m, v) IN
           /\ x \in Nodes /\ x.max = node.max /\ x.solver = node.solver
           /\ x.cut = (x.alpha >= x.beta)
           /\ node.max => /\ x.best = IF v > node.best THEN v ELSE node.best
                          /\ x.alpha = Max({node.alpha, x.best}) /\ x.beta = node.beta
           /\ ~ node.max => /\ x.best = IF v < node.best THEN v ELSE node.best
                            /\ x.alpha = node.alpha /\ x.beta = Min({node.beta, x.best})
<1> DEFINE better == IF node.max THEN v > node.best ELSE v < node.best
           best == IF better THEN v ELSE node.best
           alpha == IF node.max THEN Max({node.alpha, best}) ELSE node.alpha
           beta == IF node.max THEN node.beta ELSE Min({node.beta, best})
           move == IF better THEN m ELSE node.move
           x == Consider(node, m, v)
<1>1. /\ node.best \in Int /\ node.alpha \in Int /\ node.beta \in Int /\ node.move \in Plays \cup {Pass}
      /\ node.max \in BOOLEAN
  BY NodeParts
<1>2. best \in Int /\ move \in Plays \cup {Pass}
  BY <1>1
<1>3. alpha \in Int /\ beta \in Int
  <2> HIDE DEF best
  <2> QED
    BY <1>1, <1>2, MinTwoIs
<1>5. x = Chose(node, best, alpha, beta, move)
  BY DEF Consider, Chose
<1> HIDE DEF x, best, alpha, beta, move, better
<1>6. /\ x \in Nodes /\ x.max = node.max /\ x.solver = node.solver
      /\ x.best = best /\ x.alpha = alpha /\ x.beta = beta /\ x.cut = (alpha >= beta)
  <2> DEFINE y == Chose(node, best, alpha, beta, move)
  <2>1. /\ y \in Nodes /\ y.max = node.max /\ y.best = best /\ y.move = move
        /\ y.alpha = alpha /\ y.beta = beta /\ y.cut = (alpha >= beta) /\ y.solver = node.solver
    BY <1>2, <1>3, ChoseParts
  <2> QED
    BY <1>5, <2>1
<1>7. x.cut = (x.alpha >= x.beta)
  BY <1>6
<1>8. ASSUME node.max
      PROVE  /\ x.best = IF v > node.best THEN v ELSE node.best
             /\ x.alpha = Max({node.alpha, x.best}) /\ x.beta = node.beta
  BY <1>6, <1>8 DEF best, better, alpha, beta
<1>9. ASSUME ~ node.max
      PROVE  /\ x.best = IF v < node.best THEN v ELSE node.best
             /\ x.alpha = node.alpha /\ x.beta = Min({node.beta, x.best})
  BY <1>6, <1>9 DEF best, better, alpha, beta
<1> QED
  BY <1>6, <1>7, <1>8, <1>9 DEF x

\* The node the loop begins with.
LEMMA NewNodeParts ==
    ASSUME NEW c \in Calls
    PROVE  LET x == NewNode(c) IN
           /\ x \in Nodes /\ x.max = Maximizing(c.pos, c.solver) /\ x.alpha = c.alpha /\ x.beta = c.beta
           /\ x.cut = FALSE /\ x.solver = c.solver
           /\ x.best = IF Maximizing(c.pos, c.solver) THEN -Infinity ELSE Infinity
<1> DEFINE max == Maximizing(c.pos, c.solver)
           best == IF max THEN -Infinity ELSE Infinity
<1>1. max \in BOOLEAN /\ best \in Int
  <2>1. c.solver.optimistic \in BOOLEAN
    BY CallParts, SolverParts
  <2> QED
    BY <2>1, RequestAssumption DEF Maximizing
<1>2. c.alpha \in Int /\ c.beta \in Int /\ c.solver \in SolverStates
  BY CallParts
<1>3. NewNode(c) = [max |-> max, best |-> best, move |-> Pass, alpha |-> c.alpha, beta |-> c.beta,
                    cut |-> FALSE, solver |-> c.solver]
  BY DEF NewNode
<1> HIDE DEF max, best
<1>4. LET x == NewNode(c) IN
           /\ x \in Nodes /\ x.max = max /\ x.alpha = c.alpha /\ x.beta = c.beta
           /\ x.cut = FALSE /\ x.solver = c.solver /\ x.best = best
  BY <1>1, <1>2, <1>3 DEF Nodes
<1> QED
  BY <1>4 DEF max, best

\* upto is the fold of Explore, as a function of the options so far.
ExploreSteps(upto, deeper, options, c) ==
    upto = [i \in 0 .. Len(options) |->
              IF i = 0 THEN NewNode(c)
              ELSE LET node == upto[i - 1]
                   IN  IF node.cut \/ node.solver.aborted THEN node
                       ELSE Explored(node, options[i],
                                     OptionValue(deeper, options[i],
                                                 [c EXCEPT !.alpha = node.alpha, !.beta = node.beta,
                                                           !.solver = node.solver]))]

\* One option more.
ExploreNext(node, deeper, m, c) ==
    IF node.cut \/ node.solver.aborted THEN node
    ELSE Explored(node, m, OptionValue(deeper, m, Narrowed(c, node.alpha, node.beta, node.solver)))

\* An explored option gives a node again.
LEMMA ExploredType ==
    ASSUME NEW node \in Nodes, NEW m \in Plays \cup {Pass}, NEW a \in Answers
    PROVE  Explored(node, m, a) \in Nodes
<1>1. a.value \in Int /\ a.solver \in SolverStates
  BY AnswerParts
<1>2. Given(node, a.solver) \in Nodes
  BY <1>1, GivenParts
<1>3. Consider(Given(node, a.solver), m, a.value) \in Nodes
  BY <1>1, <1>2, ConsiderParts
<1> QED
  BY <1>2, <1>3 DEF Explored, Given

\* Every option is a placement or the pass.
LEMMA OptionsInside == \A p : OptionsOf(p) \subseteq Plays \cup {Pass}
BY DEF OptionsOf, Playable

\* So one step of the loop gives a node.
LEMMA ExploreNextType ==
    ASSUME RequestReady, NEW deeper \in [Calls -> Answers], NEW c \in Calls, NEW m \in OptionsOf(c.pos),
           NEW node \in Nodes
    PROVE  ExploreNext(node, deeper, m, c) \in Nodes
<1> DEFINE d == Narrowed(c, node.alpha, node.beta, node.solver)
<1>1. node.alpha \in Int /\ node.beta \in Int /\ node.solver \in SolverStates
  BY NodeParts
<1>2. d \in Calls /\ d.pos = c.pos
  BY <1>1, CallNarrowed
<1> HIDE DEF d
<1>3. OptionValue(deeper, m, d) \in Answers
  BY <1>2, OptionValueType
<1>4. m \in Plays \cup {Pass}
  BY OptionsInside
<1>5. Explored(node, m, OptionValue(deeper, m, d)) \in Nodes
  BY <1>3, <1>4, ExploredType
<1> QED
  BY <1>5 DEF ExploreNext, d

\* The fold exists and is what Explore returns.
LEMMA ExploreIsSteps ==
    ASSUME RequestReady, NEW deeper \in [Calls -> Answers], NEW c \in Calls,
           NEW options \in Seq(OptionsOf(c.pos))
    PROVE  \E upto \in [0 .. Len(options) -> Nodes] :
             /\ Explore(deeper, options, c) = upto[Len(options)]
             /\ upto[0] = NewNode(c)
             /\ \A i \in 1 .. Len(options) : upto[i] = ExploreNext(upto[i - 1], deeper, options[i], c)
<1> DEFINE n == Len(options)
           chosen == CHOOSE upto : ExploreSteps(upto, deeper, options, c)
           step == [i \in 1 .. n |-> [x \in Nodes |-> ExploreNext(x, deeper, options[i], c)]]
           base == NewNode(c)
<1>1. n \in Nat /\ \A i \in 1 .. n : options[i] \in OptionsOf(c.pos)
  OBVIOUS
<1>2. base \in Nodes
  BY NewNodeParts
<1>3. \A i \in 1 .. n : \A x \in Nodes :
        step[i][x] = ExploreNext(x, deeper, options[i], c) /\ step[i][x] \in Nodes
  BY <1>1, ExploreNextType
<1>4. Explore(deeper, options, c) = chosen[n]
  BY DEF Explore, ExploreSteps
<1> HIDE DEF step, base
<1>5. PICK f : Stepwise(f, n, Nodes, base, step)
  BY <1>1, <1>2, <1>3, BoundedRecursion
<1>6. f \in [0 .. n -> Nodes] /\ f[0] = base
  BY <1>5 DEF Stepwise
<1>7. \A i \in 1 .. n : f[i] = step[i][f[i - 1]]
  BY <1>5 DEF Stepwise
<1>8. \A i \in 1 .. n : f[i - 1] \in Nodes
  BY <1>1, <1>6
<1>9. \A i \in 1 .. n : f[i] = ExploreNext(f[i - 1], deeper, options[i], c)
  BY <1>3, <1>7, <1>8, Zenon
<1> HIDE DEF n
<1>10. \A i \in 0 .. n : f[i] = IF i = 0 THEN base ELSE ExploreNext(f[i - 1], deeper, options[i], c)
  <2>1. \A i \in 0 .. n : i = 0 \/ i \in 1 .. n
    BY <1>1
  <2> QED
    BY <1>1, <1>6, <1>9, <2>1
<1>11. f = [i \in 0 .. n |-> f[i]]
  BY <1>6
<1>12. f = [i \in 0 .. n |-> IF i = 0 THEN base ELSE ExploreNext(f[i - 1], deeper, options[i], c)]
  BY <1>10, <1>11, Zenon
<1>13. ExploreSteps(f, deeper, options, c)
  BY <1>12, Zenon DEF ExploreSteps, ExploreNext, Narrowed, base, n
<1>14. ExploreSteps(chosen, deeper, options, c)
  BY <1>13, Zenon
<1> HIDE DEF chosen
<1>15. chosen = [i \in 0 .. n |-> IF i = 0 THEN base ELSE ExploreNext(chosen[i - 1], deeper, options[i], c)]
  BY <1>14, Zenon DEF ExploreSteps, ExploreNext, Narrowed, base, n
<1>16. chosen[0] = base /\ \A i \in 1 .. n : chosen[i] = ExploreNext(chosen[i - 1], deeper, options[i], c)
  <2>1. /\ 0 \in 0 .. n
        /\ \A i \in 1 .. n : i \in 0 .. n /\ i # 0
    BY <1>1
  <2>2. \A i \in 0 .. n : chosen[i] = IF i = 0 THEN base ELSE ExploreNext(chosen[i - 1], deeper, options[i], c)
    BY <1>15, Zenon
  <2> QED
    BY <2>1, <2>2, Zenon
<1>17. \A i \in 0 .. n : chosen[i] \in Nodes
  <2> DEFINE Typed == {i \in Nat : i <= n => chosen[i] \in Nodes}
  <2>1. 0 \in Typed
    BY <1>2, <1>16
  <2>2. ASSUME NEW i \in Typed PROVE i + 1 \in Typed
    <3> SUFFICES ASSUME i + 1 <= n PROVE chosen[i + 1] \in Nodes
      OBVIOUS
    <3>1. i + 1 \in 1 .. n /\ chosen[i] \in Nodes /\ (i + 1) - 1 = i
      BY <1>1
    <3>2. chosen[i + 1] = ExploreNext(chosen[i], deeper, options[i + 1], c)
      BY <1>16, <3>1
    <3> QED
      BY <1>1, <3>1, <3>2, ExploreNextType
  <2>3. Typed = Nat
    <3>1. Typed \in SUBSET Nat
      OBVIOUS
    <3> HIDE DEF Typed
    <3> QED
      BY <2>1, <2>2, <3>1, NatClosed
  <2> QED
    BY <1>1, <2>3
<1>18. chosen \in [0 .. n -> Nodes]
  <2>1. chosen = [i \in 0 .. n |-> chosen[i]]
    BY <1>15, Zenon
  <2> QED
    BY <1>17, <2>1
<1> QED
  BY <1>4, <1>16, <1>18 DEF n, base

\* What is known of a node after its first i options: before the first, and for
\* the one who maximises and the one who minimises.
Untouched(node, c) ==
    /\ node.cut = FALSE /\ node.alpha = c.alpha /\ node.beta = c.beta
    /\ node.best = IF node.max THEN -Infinity ELSE Infinity

\* The largest value so far is told, to the side that wants it large.
HighSoFar(node, i, options, W, c) ==
    /\ node.alpha >= c.alpha /\ node.alpha >= node.best /\ (node.alpha = c.alpha \/ node.alpha = node.best)
    /\ node.beta = c.beta
    /\ node.best < c.beta => \A j \in 1 .. i : W[options[j]] <= node.best
    /\ node.best > c.alpha => \E j \in 1 .. i : node.best <= W[options[j]]

\* The least value so far is told, to the side that wants it low.
LowSoFar(node, i, options, W, c) ==
    /\ node.beta <= c.beta /\ node.beta <= node.best /\ (node.beta = c.beta \/ node.beta = node.best)
    /\ node.alpha = c.alpha
    /\ node.best > c.alpha => \A j \in 1 .. i : node.best <= W[options[j]]
    /\ node.best < c.beta => \E j \in 1 .. i : W[options[j]] <= node.best

\* What holds of the node after i options.
NodeSoFar(node, i, options, W, c, S, o) ==
    /\ node \in Nodes /\ SolverSound(node.solver, o) /\ node.max = Maximizing(c.pos, c.solver)
    /\ \/ node.solver.aborted
       \/ i = 0 /\ Untouched(node, c)
       \/ /\ i >= 1 /\ Bounded(node.best, S) /\ node.cut = (node.alpha >= node.beta)
          /\ IF node.max THEN HighSoFar(node, i, options, W, c) ELSE LowSoFar(node, i, options, W, c)

\* One more of what is known of the first i.
LEMMA OneMoreIndex ==
    ASSUME NEW i \in Nat
    PROVE  /\ i + 1 \in 1 .. i + 1
           /\ \A j \in 1 .. i : j \in 1 .. i + 1
           /\ \A j \in 1 .. i + 1 : j = i + 1 \/ j \in 1 .. i
OBVIOUS

\* One option more for the side that wants it large.
LEMMA HighNext ==
    ASSUME NEW c \in Calls, NEW S, WindowOk(c.alpha, c.beta, S),
           NEW i \in Nat, NEW options, NEW W, \A j \in 1 .. i + 1 : W[options[j]] \in Int,
           NEW node \in Nodes, node.max,
           \/ i = 0 /\ Untouched(node, c)
           \/ i >= 1 /\ Bounded(node.best, S) /\ HighSoFar(node, i, options, W, c),
           NEW v, Tells(v, W[options[i + 1]], node.alpha, node.beta, S),
           NEW x \in Nodes, x.best = IF v > node.best THEN v ELSE node.best,
           x.alpha = Max({node.alpha, x.best}), x.beta = node.beta
    PROVE  Bounded(x.best, S) /\ HighSoFar(x, i + 1, options, W, c)
<1> DEFINE w(j) == W[options[j]]
<1>1. /\ c.alpha \in Int /\ c.beta \in Int /\ c.alpha < c.beta /\ S \in Nat /\ Infinity \in Nat
      /\ c.alpha + S < Infinity /\ 2 * S < Infinity
  BY RequestAssumption DEF WindowOk
<1>2. /\ node.best \in Int /\ node.alpha \in Int /\ node.beta \in Int
      /\ x.best \in Int /\ x.alpha \in Int /\ x.beta \in Int
  BY NodeParts
<1>3. /\ Bounded(v, S) /\ v \in Int
      /\ v < node.beta => w(i + 1) <= v
      /\ v > node.alpha => v <= w(i + 1)
  BY DEF Tells, Bounded
<1>4. \A j \in 1 .. i + 1 : w(j) \in Int
  OBVIOUS
<1>5. /\ x.alpha >= node.alpha /\ x.alpha >= x.best /\ (x.alpha = node.alpha \/ x.alpha = x.best)
      /\ x.beta = node.beta
  <2> DEFINE top == Max({node.alpha, x.best})
  <2>1. top >= node.alpha /\ top >= x.best /\ (top = node.alpha \/ top = x.best)
    BY <1>2, MinTwoIs
  <2>2. x.alpha = top /\ x.beta = node.beta
    OBVIOUS
  <2> HIDE DEF top
  <2> QED
    BY <2>1, <2>2
<1> HIDE DEF w
<1>6. CASE i = 0 /\ Untouched(node, c)
  <2>1. node.alpha = c.alpha /\ node.beta = c.beta /\ node.best = -Infinity
    BY <1>6 DEF Untouched
  <2>2. x.best = v
    BY <1>1, <1>3, <2>1 DEF Bounded
  <2>3. \A j \in 1 .. i + 1 : j = i + 1
    BY <1>6
  <2>4. x.best < c.beta => \A j \in 1 .. i + 1 : w(j) <= x.best
    BY <1>3, <2>1, <2>2, <2>3
  <2>5. x.best > c.alpha => \E j \in 1 .. i + 1 : x.best <= w(j)
    BY <1>3, <2>1, <2>2, OneMoreIndex
  <2>6. x.alpha >= c.alpha /\ x.alpha >= x.best /\ (x.alpha = c.alpha \/ x.alpha = x.best) /\ x.beta = c.beta
    BY <1>5, <2>1
  <2> QED
    BY <1>3, <2>2, <2>4, <2>5, <2>6 DEF HighSoFar, w
<1>7. CASE i >= 1 /\ Bounded(node.best, S) /\ HighSoFar(node, i, options, W, c)
  <2>1. /\ node.alpha >= c.alpha /\ node.alpha >= node.best /\ (node.alpha = c.alpha \/ node.alpha = node.best)
        /\ node.beta = c.beta
        /\ node.best < c.beta => \A j \in 1 .. i : w(j) <= node.best
        /\ node.best > c.alpha => \E j \in 1 .. i : node.best <= w(j)
    BY <1>7 DEF HighSoFar, w
  <2>2. Bounded(x.best, S)
    BY <1>3, <1>7
  <2>3. x.best >= v /\ x.best >= node.best /\ (x.best = node.best \/ (x.best = v /\ v > node.best))
    BY <1>2, <1>3
  <2>4. x.alpha >= c.alpha /\ x.alpha >= x.best /\ (x.alpha = c.alpha \/ x.alpha = x.best) /\ x.beta = c.beta
    BY <1>1, <1>2, <1>5, <2>1, <2>3
  <2>5. ASSUME x.best < c.beta, NEW j \in 1 .. i + 1 PROVE w(j) <= x.best
    <3>1. CASE j = i + 1
      BY <1>1, <1>2, <1>3, <1>4, <2>1, <2>3, <2>5, <3>1
    <3>2. CASE j \in 1 .. i
      <4>1. w(j) <= node.best
        BY <1>1, <1>2, <2>1, <2>3, <2>5, <3>2
      <4> QED
        BY <1>2, <1>4, <2>3, <4>1
    <3> QED
      BY <3>1, <3>2, OneMoreIndex
  <2>6. ASSUME x.best > c.alpha PROVE \E j \in 1 .. i + 1 : x.best <= w(j)
    <3>1. CASE x.best = node.best
      <4>1. PICK j \in 1 .. i : node.best <= w(j)
        BY <2>1, <2>6, <3>1
      <4> QED
        BY <3>1, <4>1, OneMoreIndex
    <3>2. CASE x.best = v /\ v > node.best
      <4>1. v > node.alpha
        BY <1>1, <1>2, <1>3, <2>1, <2>6, <3>2
      <4>2. x.best <= w(i + 1)
        BY <1>3, <3>2, <4>1
      <4> QED
        BY <4>2, OneMoreIndex
    <3> QED
      BY <2>3, <3>1, <3>2
  <2> QED
    BY <2>2, <2>4, <2>5, <2>6 DEF HighSoFar, w
<1> QED
  BY <1>6, <1>7

\* One option more for the other side.
LEMMA LowNext ==
    ASSUME NEW c \in Calls, NEW S, WindowOk(c.alpha, c.beta, S),
           NEW i \in Nat, NEW options, NEW W, \A j \in 1 .. i + 1 : W[options[j]] \in Int,
           NEW node \in Nodes, ~ node.max,
           \/ i = 0 /\ Untouched(node, c)
           \/ i >= 1 /\ Bounded(node.best, S) /\ LowSoFar(node, i, options, W, c),
           NEW v, Tells(v, W[options[i + 1]], node.alpha, node.beta, S),
           NEW x \in Nodes, x.best = IF v < node.best THEN v ELSE node.best,
           x.beta = Min({node.beta, x.best}), x.alpha = node.alpha
    PROVE  Bounded(x.best, S) /\ LowSoFar(x, i + 1, options, W, c)
<1> DEFINE w(j) == W[options[j]]
<1>1. /\ c.alpha \in Int /\ c.beta \in Int /\ c.alpha < c.beta /\ S \in Nat /\ Infinity \in Nat
      /\ c.alpha + S < Infinity /\ 2 * S < Infinity
  BY RequestAssumption DEF WindowOk
<1>2. /\ node.best \in Int /\ node.alpha \in Int /\ node.beta \in Int
      /\ x.best \in Int /\ x.alpha \in Int /\ x.beta \in Int
  BY NodeParts
<1>3. /\ Bounded(v, S) /\ v \in Int
      /\ v < node.beta => w(i + 1) <= v
      /\ v > node.alpha => v <= w(i + 1)
  BY DEF Tells, Bounded
<1>4. \A j \in 1 .. i + 1 : w(j) \in Int
  OBVIOUS
<1>5. /\ x.beta <= node.beta /\ x.beta <= x.best /\ (x.beta = node.beta \/ x.beta = x.best)
      /\ x.alpha = node.alpha
  <2> DEFINE low == Min({node.beta, x.best})
  <2>1. low <= node.beta /\ low <= x.best /\ (low = node.beta \/ low = x.best)
    BY <1>2, MinTwoIs
  <2>2. x.beta = low /\ x.alpha = node.alpha
    OBVIOUS
  <2> HIDE DEF low
  <2> QED
    BY <2>1, <2>2
<1> HIDE DEF w
<1>6. CASE i = 0 /\ Untouched(node, c)
  <2>1. node.alpha = c.alpha /\ node.beta = c.beta /\ node.best = Infinity
    BY <1>6 DEF Untouched
  <2>2. x.best = v
    BY <1>1, <1>3, <2>1 DEF Bounded
  <2>3. \A j \in 1 .. i + 1 : j = i + 1
    BY <1>6
  <2>4. x.best > c.alpha => \A j \in 1 .. i + 1 : x.best <= w(j)
    BY <1>3, <2>1, <2>2, <2>3
  <2>5. x.best < c.beta => \E j \in 1 .. i + 1 : w(j) <= x.best
    BY <1>3, <2>1, <2>2, OneMoreIndex
  <2>6. x.beta <= c.beta /\ x.beta <= x.best /\ (x.beta = c.beta \/ x.beta = x.best) /\ x.alpha = c.alpha
    BY <1>5, <2>1
  <2> QED
    BY <1>3, <2>2, <2>4, <2>5, <2>6 DEF LowSoFar, w
<1>7. CASE i >= 1 /\ Bounded(node.best, S) /\ LowSoFar(node, i, options, W, c)
  <2>1. /\ node.beta <= c.beta /\ node.beta <= node.best /\ (node.beta = c.beta \/ node.beta = node.best)
        /\ node.alpha = c.alpha
        /\ node.best > c.alpha => \A j \in 1 .. i : node.best <= w(j)
        /\ node.best < c.beta => \E j \in 1 .. i : w(j) <= node.best
    BY <1>7 DEF LowSoFar, w
  <2>2. Bounded(x.best, S)
    BY <1>3, <1>7
  <2>3. x.best <= v /\ x.best <= node.best /\ (x.best = node.best \/ (x.best = v /\ v < node.best))
    BY <1>2, <1>3
  <2>4. x.beta <= c.beta /\ x.beta <= x.best /\ (x.beta = c.beta \/ x.beta = x.best) /\ x.alpha = c.alpha
    BY <1>1, <1>2, <1>5, <2>1, <2>3
  <2>5. ASSUME x.best > c.alpha, NEW j \in 1 .. i + 1 PROVE x.best <= w(j)
    <3>1. CASE j = i + 1
      BY <1>1, <1>2, <1>3, <1>4, <2>1, <2>3, <2>5, <3>1
    <3>2. CASE j \in 1 .. i
      <4>1. node.best <= w(j)
        BY <1>1, <1>2, <2>1, <2>3, <2>5, <3>2
      <4> QED
        BY <1>2, <1>4, <2>3, <4>1
    <3> QED
      BY <3>1, <3>2, OneMoreIndex
  <2>6. ASSUME x.best < c.beta PROVE \E j \in 1 .. i + 1 : w(j) <= x.best
    <3>1. CASE x.best = node.best
      <4>1. PICK j \in 1 .. i : w(j) <= node.best
        BY <2>1, <2>6, <3>1
      <4> QED
        BY <3>1, <4>1, OneMoreIndex
    <3>2. CASE x.best = v /\ v < node.best
      <4>1. v < node.beta
        BY <1>1, <1>2, <1>3, <2>1, <2>6, <3>2
      <4>2. w(i + 1) <= x.best
        BY <1>3, <3>2, <4>1
      <4> QED
        BY <4>2, OneMoreIndex
    <3> QED
      BY <2>3, <3>1, <3>2
  <2> QED
    BY <2>2, <2>4, <2>5, <2>6 DEF LowSoFar, w
<1> QED
  BY <1>6, <1>7

\* A node that is cut has seen enough.
LEMMA CutKeeps ==
    ASSUME NEW c \in Calls, c.alpha < c.beta, NEW i \in Nat, NEW options, NEW W,
           NEW node \in Nodes, node.alpha >= node.beta,
           IF node.max THEN HighSoFar(node, i, options, W, c) ELSE LowSoFar(node, i, options, W, c)
    PROVE  IF node.max THEN HighSoFar(node, i + 1, options, W, c) ELSE LowSoFar(node, i + 1, options, W, c)
<1>1. /\ c.alpha \in Int /\ c.beta \in Int /\ node.best \in Int /\ node.alpha \in Int /\ node.beta \in Int
      /\ node.max \in BOOLEAN
  BY NodeParts, CallParts
<1>2. CASE node.max
  <2>1. HighSoFar(node, i, options, W, c)
    BY <1>2
  <2>2. ~ (node.best < c.beta)
    BY <1>1, <2>1 DEF HighSoFar
  <2>3. HighSoFar(node, i + 1, options, W, c)
    BY <2>1, <2>2, OneMoreIndex DEF HighSoFar
  <2> QED
    BY <1>2, <2>3
<1>3. CASE ~ node.max
  <2>1. LowSoFar(node, i, options, W, c)
    BY <1>3
  <2>2. ~ (node.best > c.alpha)
    BY <1>1, <2>1 DEF LowSoFar
  <2>3. LowSoFar(node, i + 1, options, W, c)
    BY <2>1, <2>2, OneMoreIndex DEF LowSoFar
  <2> QED
    BY <1>3, <2>3
<1> QED
  BY <1>2, <1>3

\* The window a node passes on to its next option.
LEMMA NodeWindow ==
    ASSUME NEW c \in Calls, NEW S, WindowOk(c.alpha, c.beta, S), NEW i, NEW options, NEW W,
           NEW node \in Nodes, ~ (node.alpha >= node.beta),
           \/ Untouched(node, c)
           \/ /\ Bounded(node.best, S)
              /\ IF node.max THEN HighSoFar(node, i, options, W, c) ELSE LowSoFar(node, i, options, W, c)
    PROVE  WindowOk(node.alpha, node.beta, S)
<1>1. /\ c.alpha \in Int /\ c.beta \in Int /\ node.best \in Int /\ node.alpha \in Int /\ node.beta \in Int
      /\ node.max \in BOOLEAN /\ S \in Nat /\ Infinity \in Nat
      /\ c.alpha + S < Infinity /\ 2 * S < Infinity
  BY NodeParts, CallParts, RequestAssumption DEF WindowOk
<1>2. node.alpha + S < Infinity
  <2>1. node.alpha = c.alpha \/ (node.alpha = node.best /\ Bounded(node.best, S))
    BY DEF Untouched, HighSoFar, LowSoFar
  <2> QED
    BY <1>1, <2>1 DEF Bounded
<1> QED
  BY <1>1, <1>2 DEF WindowOk

\* One option more keeps what holds of the node.
LEMMA ExploreNextSound ==
    ASSUME RequestReady, NEW o, NEW deeper \in [Calls -> Answers], NEW c \in Calls,
           NEW options \in Seq(OptionsOf(c.pos)),
           NEW S, WindowOk(c.alpha, c.beta, S), NEW W, \A m \in OptionsOf(c.pos) : W[m] \in Int,
           \A m \in OptionsOf(c.pos) : \A alpha, beta, s : WindowOk(alpha, beta, S) /\ SolverSound(s, o) =>
             AnswerSound(OptionValue(deeper, m, Narrowed(c, alpha, beta, s)), W[m], alpha, beta, S, o),
           NEW i \in Nat, i < Len(options),
           NEW node, NodeSoFar(node, i, options, W, c, S, o)
    PROVE  NodeSoFar(ExploreNext(node, deeper, options[i + 1], c), i + 1, options, W, c, S, o)
<1> DEFINE m == options[i + 1]
           a == OptionValue(deeper, m, Narrowed(c, node.alpha, node.beta, node.solver))
           given == Given(node, a.solver)
           next == ExploreNext(node, deeper, m, c)
<1>1. /\ node \in Nodes /\ SolverSound(node.solver, o) /\ node.max = Maximizing(c.pos, c.solver)
      /\ node.max \in BOOLEAN /\ node.alpha \in Int /\ node.beta \in Int /\ c.alpha < c.beta
  BY NodeParts DEF NodeSoFar, WindowOk
<1>2. /\ m \in OptionsOf(c.pos) /\ m \in Plays \cup {Pass}
      /\ \A j \in 1 .. i + 1 : W[options[j]] \in Int
  <2>1. \A j \in 1 .. i + 1 : j \in 1 .. Len(options)
    OBVIOUS
  <2>2. \A j \in 1 .. Len(options) : options[j] \in OptionsOf(c.pos)
    OBVIOUS
  <2> QED
    BY <2>1, <2>2, OneMoreIndex, OptionsInside
<1>3. next = IF node.cut \/ node.solver.aborted THEN node ELSE Explored(node, m, a)
  BY DEF ExploreNext
<1>4. i + 1 >= 1 /\ i + 1 # 0
  OBVIOUS
<1>5. CASE node.solver.aborted
  <2>1. next = node
    BY <1>3, <1>5
  <2> HIDE DEF next
  <2>2. NodeSoFar(next, i + 1, options, W, c, S, o)
    BY <1>1, <1>5, <2>1 DEF NodeSoFar
  <2> QED
    BY <2>2 DEF next
<1>6. CASE ~ node.solver.aborted /\ node.cut
  <2>1. next = node
    BY <1>3, <1>6
  <2>2. /\ i >= 1 /\ Bounded(node.best, S) /\ node.cut = (node.alpha >= node.beta)
        /\ IF node.max THEN HighSoFar(node, i, options, W, c) ELSE LowSoFar(node, i, options, W, c)
    BY <1>6 DEF NodeSoFar, Untouched
  <2>3. IF node.max THEN HighSoFar(node, i + 1, options, W, c) ELSE LowSoFar(node, i + 1, options, W, c)
    BY <1>1, <1>6, <2>2, CutKeeps
  <2> HIDE DEF next
  <2>4. NodeSoFar(next, i + 1, options, W, c, S, o)
    BY <1>1, <1>4, <2>1, <2>2, <2>3 DEF NodeSoFar
  <2> QED
    BY <2>4 DEF next
<1>7. CASE ~ node.solver.aborted /\ ~ node.cut
  <2>1. next = Explored(node, m, a)
    BY <1>3, <1>7
  <2>2. \/ i = 0 /\ Untouched(node, c)
        \/ /\ i >= 1 /\ Bounded(node.best, S) /\ node.cut = (node.alpha >= node.beta)
           /\ IF node.max THEN HighSoFar(node, i, options, W, c) ELSE LowSoFar(node, i, options, W, c)
    BY <1>7 DEF NodeSoFar
  <2>3. ~ (node.alpha >= node.beta)
    <3>1. CASE i = 0 /\ Untouched(node, c)
      BY <1>1, <3>1 DEF Untouched
    <3>2. CASE node.cut = (node.alpha >= node.beta)
      BY <1>7, <3>2
    <3> QED
      BY <2>2, <3>1, <3>2
  <2>4. WindowOk(node.alpha, node.beta, S)
    BY <1>1, <2>2, <2>3, NodeWindow
  <2>5. AnswerSound(a, W[m], node.alpha, node.beta, S, o)
    BY <1>1, <1>2, <2>4
  <2> HIDE DEF a, m
  <2>6. a \in Answers /\ SolverSound(a.solver, o) /\ a.solver \in SolverStates /\ a.value \in Int
    BY <2>5, AnswerParts DEF AnswerSound
  <2>7. /\ given \in Nodes /\ given.max = node.max /\ given.best = node.best /\ given.move = node.move
        /\ given.alpha = node.alpha /\ given.beta = node.beta /\ given.cut = node.cut /\ given.solver = a.solver
    BY <1>1, <2>6, GivenParts
  <2>8. next = IF a.solver.aborted THEN given ELSE Consider(given, m, a.value)
    BY <2>1 DEF Explored, Given
  <2> HIDE DEF given, next
  <2>9. CASE a.solver.aborted
    <3>1. NodeSoFar(next, i + 1, options, W, c, S, o)
      BY <1>1, <2>6, <2>7, <2>8, <2>9 DEF NodeSoFar
    <3> QED
      BY <3>1 DEF next, m
  <2>10. CASE ~ a.solver.aborted
    <3>1. next = Consider(given, m, a.value)
      BY <2>8, <2>10
    <3>2. Tells(a.value, W[m], node.alpha, node.beta, S)
      BY <2>5, <2>10 DEF AnswerSound
    <3>3. /\ next \in Nodes /\ next.max = given.max /\ next.solver = given.solver
          /\ next.cut = (next.alpha >= next.beta)
          /\ given.max => /\ next.best = IF a.value > given.best THEN a.value ELSE given.best
                          /\ next.alpha = Max({given.alpha, next.best}) /\ next.beta = given.beta
          /\ ~ given.max => /\ next.best = IF a.value < given.best THEN a.value ELSE given.best
                            /\ next.alpha = given.alpha /\ next.beta = Min({given.beta, next.best})
      BY <1>2, <2>6, <2>7, <3>1, ConsiderParts
    <3>4. CASE node.max
      <4>1. /\ next.best = IF a.value > node.best THEN a.value ELSE node.best
            /\ next.alpha = Max({node.alpha, next.best}) /\ next.beta = node.beta
        BY <2>7, <3>3, <3>4
      <4>2. \/ i = 0 /\ Untouched(node, c)
            \/ i >= 1 /\ Bounded(node.best, S) /\ HighSoFar(node, i, options, W, c)
        BY <2>2, <3>4
      <4>3. Tells(a.value, W[options[i + 1]], node.alpha, node.beta, S)
        BY <3>2 DEF m
      <4> DEFINE v == a.value
      <4> HIDE DEF v
      <4>4. Bounded(next.best, S) /\ HighSoFar(next, i + 1, options, W, c)
        <5>1. Tells(v, W[options[i + 1]], node.alpha, node.beta, S)
          BY <4>3 DEF v
        <5>2. next.best = IF v > node.best THEN v ELSE node.best
          BY <4>1 DEF v
        <5> QED
          BY <1>1, <1>2, <3>3, <3>4, <4>1, <4>2, <5>1, <5>2, HighNext
      <4>5. NodeSoFar(next, i + 1, options, W, c, S, o)
        BY <1>1, <1>4, <2>6, <2>7, <3>3, <3>4, <4>4 DEF NodeSoFar
      <4> QED
        BY <4>5 DEF next, m
    <3>5. CASE ~ node.max
      <4>1. /\ next.best = IF a.value < node.best THEN a.value ELSE node.best
            /\ next.beta = Min({node.beta, next.best}) /\ next.alpha = node.alpha
        BY <2>7, <3>3, <3>5
      <4>2. \/ i = 0 /\ Untouched(node, c)
            \/ i >= 1 /\ Bounded(node.best, S) /\ LowSoFar(node, i, options, W, c)
        BY <2>2, <3>5
      <4>3. Tells(a.value, W[options[i + 1]], node.alpha, node.beta, S)
        BY <3>2 DEF m
      <4> DEFINE v == a.value
      <4> HIDE DEF v
      <4>4. Bounded(next.best, S) /\ LowSoFar(next, i + 1, options, W, c)
        <5>1. Tells(v, W[options[i + 1]], node.alpha, node.beta, S)
          BY <4>3 DEF v
        <5>2. next.best = IF v < node.best THEN v ELSE node.best
          BY <4>1 DEF v
        <5> QED
          BY <1>1, <1>2, <3>3, <3>5, <4>1, <4>2, <5>1, <5>2, LowNext
      <4>5. NodeSoFar(next, i + 1, options, W, c, S, o)
        BY <1>1, <1>4, <2>6, <2>7, <3>3, <3>5, <4>4 DEF NodeSoFar
      <4> QED
        BY <4>5 DEF next, m
    <3> QED
      BY <1>1, <3>4, <3>5
  <2> QED
    BY <2>9, <2>10
<1> QED
  BY <1>5, <1>6, <1>7

\* What a node says of its position once all of its options have been tried.
Settled(node, c, o, S) ==
    /\ node \in Nodes /\ SolverSound(node.solver, o) /\ node.max = Maximizing(c.pos, c.solver)
    /\ ~ node.solver.aborted =>
         /\ Tells(node.best, V(o)[c.pos], c.alpha, c.beta, S)
         /\ node.cut => IF node.max THEN node.best >= c.beta ELSE node.best <= c.alpha

\* After all of them the node tells the value of the position.
LEMMA ExploreSound ==
    ASSUME RequestReady, NEW o \in BOOLEAN, NEW deeper, Searches(deeper, o),
           NEW c \in Calls, Good(c.pos), WindowOk(c.alpha, c.beta, StakeAt(c.pos)), SolverSound(c.solver, o),
           NEW options \in Seq(OptionsOf(c.pos)), Range(options) = OptionsOf(c.pos)
    PROVE  Settled(Explore(deeper, options, c), c, o, StakeAt(c.pos))
<1> DEFINE n == Len(options)
           S == StakeAt(c.pos)
           P == OptionsOf(c.pos)
           W == [m \in P |-> OptionWorth(o, c.pos, m)]
           v == V(o)[c.pos]
<1>1. /\ n \in Nat /\ n >= 1
      /\ \A i \in 1 .. n : options[i] \in P
      /\ \A m \in P : \E i \in 1 .. n : options[i] = m
  <2>1. Pass \in Range(options)
    BY DEF OptionsOf
  <2>2. \A m \in P : \E i \in 1 .. n : options[i] = m
    BY DEF Range
  <2> QED
    BY <2>1, <2>2
<1>2. /\ c.pos \in Positions /\ c.solver \in SolverStates /\ c.alpha \in Int /\ c.beta \in Int /\ c.alpha < c.beta
      /\ deeper \in [Calls -> Answers] /\ S \in Nat
  BY CallParts DEF Searches, WindowOk
<1>3. /\ \A m \in P : W[m] = OptionWorth(o, c.pos, m)
      /\ \A m \in P : Bounded(W[m], S) /\ W[m] \in Int
  BY OptionBounds DEF Bounded
<1>4. Worths(V(o), c.pos, req.scoreOf) = {W[m] : m \in P}
  BY <1>3, OptionsAreWorths
<1> HIDE DEF W
<1>5. ASSUME NEW m \in P, NEW alpha, NEW beta, NEW s, WindowOk(alpha, beta, S), SolverSound(s, o)
      PROVE  AnswerSound(OptionValue(deeper, m, Narrowed(c, alpha, beta, s)), W[m], alpha, beta, S, o)
  <2> DEFINE d == Narrowed(c, alpha, beta, s)
  <2>1. alpha \in Int /\ beta \in Int /\ s \in SolverStates
    BY <1>5 DEF WindowOk, SolverSound
  <2>2. d \in Calls /\ d.pos = c.pos /\ d.alpha = alpha /\ d.beta = beta /\ d.solver = s
    BY <2>1, CallNarrowed
  <2> HIDE DEF d
  <2>3. AnswerSound(OptionValue(deeper, m, d), OptionWorth(o, d.pos, m), d.alpha, d.beta, StakeAt(d.pos), o)
    <3>1. m \in OptionsOf(d.pos) /\ Good(d.pos) /\ WindowOk(d.alpha, d.beta, StakeAt(d.pos)) /\ SolverSound(d.solver, o)
      BY <1>5, <2>2
    <3> QED
      BY <2>2, <3>1, OptionValueSound
  <2> QED
    BY <1>3, <2>2, <2>3 DEF d
<1>6. PICK upto \in [0 .. n -> Nodes] :
        /\ Explore(deeper, options, c) = upto[n]
        /\ upto[0] = NewNode(c)
        /\ \A i \in 1 .. n : upto[i] = ExploreNext(upto[i - 1], deeper, options[i], c)
  BY <1>2, ExploreIsSteps
<1> DEFINE Right == {i \in Nat : i <= n => NodeSoFar(upto[i], i, options, W, c, S, o)}
<1>7. 0 \in Right
  <2>1. NodeSoFar(NewNode(c), 0, options, W, c, S, o)
    <3> DEFINE x == NewNode(c)
    <3>1. /\ x \in Nodes /\ x.max = Maximizing(c.pos, c.solver) /\ x.alpha = c.alpha /\ x.beta = c.beta
          /\ x.cut = FALSE /\ x.solver = c.solver
          /\ x.best = IF x.max THEN -Infinity ELSE Infinity
      BY NewNodeParts
    <3> HIDE DEF x
    <3>2. NodeSoFar(x, 0, options, W, c, S, o)
      BY <3>1 DEF NodeSoFar, Untouched
    <3> QED
      BY <3>2 DEF x
  <2> QED
    BY <1>6, <2>1
<1>8. ASSUME NEW i \in Right PROVE i + 1 \in Right
  <2> SUFFICES ASSUME i + 1 <= n PROVE NodeSoFar(upto[i + 1], i + 1, options, W, c, S, o)
    OBVIOUS
  <2>1. i \in Nat /\ i < Len(options) /\ i + 1 \in 1 .. n /\ (i + 1) - 1 = i
    BY <1>1
  <2>2. NodeSoFar(upto[i], i, options, W, c, S, o)
    BY <2>1
  <2>3. upto[i + 1] = ExploreNext(upto[i], deeper, options[i + 1], c)
    BY <1>6, <2>1
  <2> HIDE DEF Right, n, S, P
  <2>4. WindowOk(c.alpha, c.beta, S)
    BY DEF S
  <2>5. \A m \in OptionsOf(c.pos) : W[m] \in Int
    BY <1>3 DEF P
  <2>6. \A m \in OptionsOf(c.pos) : \A alpha, beta, s : WindowOk(alpha, beta, S) /\ SolverSound(s, o) =>
             AnswerSound(OptionValue(deeper, m, Narrowed(c, alpha, beta, s)), W[m], alpha, beta, S, o)
    BY <1>5, Zenon DEF P
  <2>7. NodeSoFar(ExploreNext(upto[i], deeper, options[i + 1], c), i + 1, options, W, c, S, o)
    BY <1>2, <2>1, <2>2, <2>4, <2>5, <2>6, ExploreNextSound
  <2> QED
    BY <2>3, <2>7
<1>9. Right = Nat
  <2>1. Right \in SUBSET Nat
    OBVIOUS
  <2> HIDE DEF Right
  <2> QED
    BY <1>7, <1>8, <2>1, NatClosed
<1> DEFINE node == upto[n]
<1>10. NodeSoFar(node, n, options, W, c, S, o)
  <2>1. n \in Right
    BY <1>1, <1>9
  <2> QED
    BY <1>1, <2>1
<1> HIDE DEF node, Right
<1>11. /\ node \in Nodes /\ SolverSound(node.solver, o) /\ node.max = Maximizing(c.pos, c.solver)
       /\ node.max \in BOOLEAN /\ node.best \in Int /\ node.alpha \in Int /\ node.beta \in Int
  BY <1>10, NodeParts DEF NodeSoFar
<1>12. ASSUME ~ node.solver.aborted
       PROVE  /\ Tells(node.best, v, c.alpha, c.beta, S)
              /\ node.cut => IF node.max THEN node.best >= c.beta ELSE node.best <= c.alpha
  <2> DEFINE worths == {W[m] : m \in P}
  <2>1. /\ Bounded(node.best, S) /\ node.cut = (node.alpha >= node.beta)
        /\ IF node.max THEN HighSoFar(node, n, options, W, c) ELSE LowSoFar(node, n, options, W, c)
    <3>1. n # 0
      BY <1>1
    <3> HIDE DEF n
    <3> QED
      BY <1>10, <1>12, <3>1 DEF NodeSoFar
  <2>2. v = BestForMover(c.pos, o, worths)
    BY <1>2, <1>4, ValueAt
  <2>3. \A w \in worths : w \in Int /\ -S <= w /\ w <= S
    BY <1>3 DEF Bounded
  <2>4. worths # {}
    <3>1. Pass \in P
      BY DEF OptionsOf
    <3>2. W[Pass] \in worths
      BY <3>1
    <3> QED
      BY <3>2
  <2>5. node.max <=> (c.pos.side = 0 \/ o)
    BY <1>11 DEF Maximizing, SolverSound
  <2> HIDE DEF worths
  <2>6. /\ v \in worths
        /\ (c.pos.side = 0 \/ o) => \A x \in worths : x <= v
        /\ ~ (c.pos.side = 0 \/ o) => \A x \in worths : v <= x
    <3>1. -S \in Int /\ S \in Int
      BY <1>2
    <3> QED
      BY <2>2, <2>3, <2>4, <3>1, BestIsOne
  <2>7. v \in Int
    BY <2>3, <2>6
  <2>8. /\ \A j \in 1 .. n : W[options[j]] \in worths
        /\ \E j \in 1 .. n : v = W[options[j]]
    <3>1. \A j \in 1 .. n : W[options[j]] \in worths
      BY <1>1 DEF worths
    <3>2. PICK m \in P : v = W[m]
      BY <2>6 DEF worths
    <3> QED
      BY <1>1, <3>1, <3>2
  <2> HIDE DEF v, n, S, P
  <2>9. CASE node.max
    <3>1. /\ node.best < c.beta => \A j \in 1 .. n : W[options[j]] <= node.best
          /\ node.best > c.alpha => \E j \in 1 .. n : node.best <= W[options[j]]
          /\ node.beta = c.beta /\ (node.alpha = c.alpha \/ node.alpha = node.best)
      BY <2>1, <2>9 DEF HighSoFar
    <3>2. node.best < c.beta => v <= node.best
      BY <2>8, <3>1
    <3>3. ASSUME node.best > c.alpha PROVE node.best <= v
      <4>1. PICK j \in 1 .. n : node.best <= W[options[j]]
        BY <3>1, <3>3
      <4>2. W[options[j]] <= v /\ W[options[j]] \in Int
        BY <2>3, <2>5, <2>6, <2>8, <2>9
      <4> QED
        BY <1>11, <2>7, <4>1, <4>2
    <3>4. ASSUME node.cut PROVE node.best >= c.beta
      <4>1. node.alpha >= node.beta
        BY <2>1, <3>4
      <4> QED
        BY <1>2, <1>11, <3>1, <4>1
    <3> QED
      BY <2>1, <2>9, <3>2, <3>3, <3>4 DEF Tells
  <2>10. CASE ~ node.max
    <3>1. /\ node.best > c.alpha => \A j \in 1 .. n : node.best <= W[options[j]]
          /\ node.best < c.beta => \E j \in 1 .. n : W[options[j]] <= node.best
          /\ node.alpha = c.alpha /\ (node.beta = c.beta \/ node.beta = node.best)
      BY <2>1, <2>10 DEF LowSoFar
    <3>2. node.best > c.alpha => node.best <= v
      BY <2>8, <3>1
    <3>3. ASSUME node.best < c.beta PROVE v <= node.best
      <4>1. PICK j \in 1 .. n : W[options[j]] <= node.best
        BY <3>1, <3>3
      <4>2. v <= W[options[j]] /\ W[options[j]] \in Int
        BY <2>3, <2>5, <2>6, <2>8, <2>10
      <4> QED
        BY <1>11, <2>7, <4>1, <4>2
    <3>4. ASSUME node.cut PROVE node.best <= c.alpha
      <4>1. node.alpha >= node.beta
        BY <2>1, <3>4
      <4> QED
        BY <1>2, <1>11, <3>1, <4>1
    <3> QED
      BY <2>1, <2>10, <3>2, <3>3, <3>4 DEF Tells
  <2> QED
    BY <1>11, <2>9, <2>10
<1>13. Settled(node, c, o, S)
  BY <1>11, <1>12 DEF Settled
<1> QED
  BY <1>6, <1>13 DEF node

-----------------------------------------------------------------------------
(* A node from its first look at the table to what it leaves there         *)

\* The options of a node are the moves of its position and the pass.
LEMMA OptionsAtType ==
    ASSUME RequestReady, NEW p \in Positions, NEW s
    PROVE  OptionsAt(p, s) \in Seq(OptionsOf(p))
<1> DEFINE hint == IF Known(p, s) THEN s.table[SlotOf(p)].move ELSE Pass
           P == Playable(p)
<1>1. req.order \in Seq(Plays)
  BY RequestParts
<1>2. Filtered(req.order, P) \in Seq(P) /\ Filtered(req.order, P \ {hint}) \in Seq(P \ {hint})
  BY <1>1, FilteredShape
<1>3. Seq(P \ {hint}) \subseteq Seq(OptionsOf(p)) /\ Seq(P) \subseteq Seq(OptionsOf(p)) /\ Pass \in OptionsOf(p)
  BY DEF OptionsOf
<1>4. hint \in P => <<hint>> \in Seq(OptionsOf(p))
  BY DEF OptionsOf
<1>5. OptionsAt(p, s) = Append(Ordered(p, hint), Pass)
  BY DEF OptionsAt
<1> HIDE DEF hint
<1>6. Ordered(p, hint) \in Seq(OptionsOf(p))
  <2>1. CASE hint \in P
    <3>1. Ordered(p, hint) = <<hint>> \o Filtered(req.order, P \ {hint})
      BY <2>1 DEF Ordered
    <3> QED
      BY <1>2, <1>3, <1>4, <2>1, <3>1
  <2>2. CASE hint \notin P
    <3>1. Ordered(p, hint) = Filtered(req.order, P)
      BY <2>2 DEF Ordered
    <3> QED
      BY <1>2, <1>3, <3>1
  <2> QED
    BY <2>1, <2>2
<1> QED
  BY <1>3, <1>5, <1>6

\* What follows in a sequence and what a sequence is put after.
LEMMA RangeAppend ==
    ASSUME NEW T, NEW s \in Seq(T), NEW x \in T
    PROVE  Range(Append(s, x)) = Range(s) \cup {x}
<1> DEFINE t == Append(s, x)
<1>1. /\ t \in Seq(T) /\ Len(t) = Len(s) + 1 /\ Len(s) \in Nat
      /\ \A i \in 1 .. Len(s) : t[i] = s[i]
      /\ t[Len(s) + 1] = x
  OBVIOUS
<1>2. DOMAIN t = 1 .. Len(s) + 1 /\ DOMAIN s = 1 .. Len(s)
  BY <1>1
<1> HIDE DEF t
<1>3. \A y : y \in Range(t) <=> y \in Range(s) \/ y = x
  <2>1. \A i \in 1 .. Len(s) + 1 : i \in 1 .. Len(s) \/ i = Len(s) + 1
    BY <1>1
  <2>2. /\ \A i \in 1 .. Len(s) : i \in 1 .. Len(s) + 1
        /\ Len(s) + 1 \in 1 .. Len(s) + 1
    BY <1>1
  <2> QED
    BY <1>1, <1>2, <2>1, <2>2 DEF Range
<1> QED
  BY <1>3 DEF t

\* A member put first joins the range.
LEMMA RangeAfterFirst ==
    ASSUME NEW T, NEW s \in Seq(T), NEW x \in T
    PROVE  Range(<<x>> \o s) = Range(s) \cup {x}
<1> DEFINE t == <<x>> \o s
<1>1. /\ t \in Seq(T) /\ Len(t) = Len(s) + 1 /\ Len(s) \in Nat
      /\ t[1] = x
      /\ \A i \in 1 .. Len(s) : t[i + 1] = s[i]
  OBVIOUS
<1>2. DOMAIN t = 1 .. Len(s) + 1 /\ DOMAIN s = 1 .. Len(s)
  BY <1>1
<1> HIDE DEF t
<1>3. \A y : y \in Range(t) <=> y \in Range(s) \/ y = x
  <2>1. \A i \in 1 .. Len(s) + 1 : i = 1 \/ (i - 1 \in 1 .. Len(s) /\ (i - 1) + 1 = i)
    BY <1>1
  <2>2. /\ \A i \in 1 .. Len(s) : i + 1 \in 1 .. Len(s) + 1
        /\ 1 \in 1 .. Len(s) + 1
    BY <1>1
  <2>3. ASSUME NEW y \in Range(t) PROVE y \in Range(s) \/ y = x
    <3>1. PICK i \in 1 .. Len(s) + 1 : y = t[i]
      BY <1>2 DEF Range
    <3>2. CASE i = 1
      BY <1>1, <3>1, <3>2
    <3>3. CASE i - 1 \in 1 .. Len(s) /\ (i - 1) + 1 = i
      <4>1. y = s[i - 1]
        BY <1>1, <3>1, <3>3
      <4> QED
        BY <1>2, <3>3, <4>1 DEF Range
    <3> QED
      BY <2>1, <3>2, <3>3
  <2>4. \A y : y \in Range(s) \/ y = x => y \in Range(t)
    BY <1>1, <1>2, <2>2 DEF Range
  <2> QED
    BY <2>3, <2>4
<1> QED
  BY <1>3 DEF t

\* The order of the options, the remembered one first, misses none of them.
LEMMA OptionsAtAre ==
    ASSUME RequestReady, NEW p, Good(p), NEW s
    PROVE  OptionsAt(p, s) \in Seq(OptionsOf(p)) /\ Range(OptionsAt(p, s)) = OptionsOf(p)
<1> DEFINE hint == IF Known(p, s) THEN s.table[SlotOf(p)].move ELSE Pass
           P == Playable(p)
<1>1. req.order \in Seq(Plays) /\ p \in Positions
  BY RequestParts DEF Good
<1>2. P \subseteq Range(req.order) /\ P \subseteq Plays
  BY PlayableFound
<1>3. /\ Filtered(req.order, P) \in Seq(P) /\ Filtered(req.order, P \ {hint}) \in Seq(P \ {hint})
      /\ Range(Filtered(req.order, P)) = Range(req.order) \cap P
      /\ Range(Filtered(req.order, P \ {hint})) = Range(req.order) \cap (P \ {hint})
  BY <1>1, FilteredShape
<1>4. OptionsAt(p, s) = Append(Ordered(p, hint), Pass)
  BY DEF OptionsAt
<1>5. OptionsOf(p) = P \cup {Pass}
  BY DEF OptionsOf
<1> HIDE DEF hint, P
<1>6. Ordered(p, hint) \in Seq(P) /\ Range(Ordered(p, hint)) = P
  <2>1. CASE hint \in P
    <3> DEFINE rest == Filtered(req.order, P \ {hint})
    <3>1. Ordered(p, hint) = <<hint>> \o rest
      BY <2>1 DEF Ordered, P
    <3>2. rest \in Seq(P \ {hint}) /\ Range(rest) = Range(req.order) \cap (P \ {hint})
      BY <1>3
    <3> HIDE DEF rest
    <3>3. rest \in Seq(P)
      BY <3>2
    <3>4. Range(rest) = P \ {hint}
      BY <1>2, <3>2
    <3>5. Range(<<hint>> \o rest) = Range(rest) \cup {hint}
      BY <2>1, <3>3, RangeAfterFirst
    <3>6. <<hint>> \o rest \in Seq(P)
      BY <2>1, <3>3
    <3> QED
      BY <2>1, <3>1, <3>4, <3>5, <3>6
  <2>2. CASE hint \notin P
    <3>1. Ordered(p, hint) = Filtered(req.order, P)
      BY <2>2 DEF Ordered, P
    <3> QED
      BY <1>2, <1>3, <3>1
  <2> QED
    BY <2>1, <2>2
<1>7. Ordered(p, hint) \in Seq(OptionsOf(p)) /\ Pass \in OptionsOf(p)
  BY <1>5, <1>6
<1>8. Range(Append(Ordered(p, hint), Pass)) = P \cup {Pass}
  BY <1>6, <1>7, RangeAppend
<1> QED
  BY <1>4, <1>5, <1>7, <1>8

\* An entry put in a solver's table.
Kept(s, i, e) == [s EXCEPT !.table[i] = e]

\* Writing a slot of the table changes no other.
LEMMA KeptParts ==
    ASSUME NEW s \in SolverStates, NEW i \in 0 .. TableSize - 1, NEW e \in Slots
    PROVE  /\ Kept(s, i, e) \in SolverStates
           /\ Kept(s, i, e).aborted = s.aborted /\ Kept(s, i, e).optimistic = s.optimistic
           /\ Kept(s, i, e).table[i] = e
           /\ \A j \in 0 .. TableSize - 1 : j # i => Kept(s, i, e).table[j] = s.table[j]
<1>1. s.table \in [0 .. TableSize - 1 -> Slots]
  BY SolverParts
<1>2. [s.table EXCEPT ![i] = e] \in [0 .. TableSize - 1 -> Slots]
  BY <1>1
<1> HIDE DEF Slots
<1> QED
  BY <1>1, <1>2 DEF Kept, SolverStates

\* The entry that is written is one of the table's.
LEMMA StoredType ==
    ASSUME NEW c \in Calls, NEW node \in Nodes
    PROVE  /\ Stored(c, node) \in Slots /\ Stored(c, node).key \in Keys
           /\ Stored(c, node).key.pos = c.pos /\ Stored(c, node).key.optimistic = node.solver.optimistic
           /\ Stored(c, node).value = node.best
<1>1. /\ node.best \in Int /\ node.move \in Plays \cup {Pass}
      /\ node.solver.optimistic \in BOOLEAN /\ c.pos \in Positions
  BY NodeParts, CallParts, SolverParts
<1>2. KeyOf(c.pos, node.solver) \in Keys
  BY <1>1 DEF KeyOf, Keys
<1>3. (IF node.cut THEN IF node.max THEN 1 ELSE 2 ELSE FlagAtEnd(node.best, c.alpha, c.beta)) \in 0 .. 2
  BY DEF FlagAtEnd
<1> HIDE DEF Keys
<1>4. Stored(c, node) \in Slots /\ Stored(c, node).key = KeyOf(c.pos, node.solver) /\ Stored(c, node).value = node.best
  BY <1>1, <1>2, <1>3 DEF Stored, Slots
<1> QED
  BY <1>2, <1>4 DEF KeyOf

\* What is stored of a node is so.
LEMMA StoredSound ==
    ASSUME RequestReady, NEW o \in BOOLEAN, NEW c \in Calls, Good(c.pos),
           WindowOk(c.alpha, c.beta, StakeAt(c.pos)),
           NEW node, Settled(node, c, o, StakeAt(c.pos)), ~ node.solver.aborted
    PROVE  EntrySound(Stored(c, node))
<1> DEFINE e == Stored(c, node)
           v == V(o)[c.pos]
           S == StakeAt(c.pos)
<1>1. /\ node \in Nodes /\ node.best \in Int /\ node.max \in BOOLEAN /\ node.cut \in BOOLEAN
      /\ node.solver.optimistic = o /\ c.alpha \in Int /\ c.beta \in Int /\ c.alpha < c.beta
  BY NodeParts, CallParts DEF Settled, SolverSound, WindowOk
<1>2. v \in Int
  BY ValueBounds DEF Bounded
<1>3. /\ e.value = node.best /\ e.key.pos = c.pos /\ e.key.optimistic = o
  BY <1>1, StoredType
<1>4. e.flag = IF node.cut THEN IF node.max THEN 1 ELSE 2 ELSE FlagAtEnd(node.best, c.alpha, c.beta)
  BY DEF Stored
<1>5. Tells(node.best, v, c.alpha, c.beta, S)
  BY DEF Settled
<1>6. node.cut => IF node.max THEN node.best >= c.beta ELSE node.best <= c.alpha
  BY DEF Settled
<1> HIDE DEF e, v, S
<1>7. /\ Bounded(node.best, S)
      /\ node.best < c.beta => v <= node.best
      /\ node.best > c.alpha => node.best <= v
  BY <1>5 DEF Tells
<1>8. e.flag # 2 => node.best <= v
  BY <1>1, <1>2, <1>4, <1>6, <1>7 DEF FlagAtEnd
<1>9. e.flag # 1 => v <= node.best
  BY <1>1, <1>2, <1>4, <1>6, <1>7 DEF FlagAtEnd
<1>10. EntrySound(e)
  BY <1>2, <1>3, <1>7, <1>8, <1>9 DEF EntrySound, v, S
<1> QED
  BY <1>10 DEF e

\* The end of the search of a position is an answer.
LEMMA FinishedType ==
    ASSUME NEW c \in Calls, NEW node \in Nodes
    PROVE  Finished(c, node) \in Answers
<1>1. node.solver \in SolverStates /\ node.best \in Int /\ 0 \in Int /\ SlotOf(c.pos) \in 0 .. TableSize - 1
  BY NodeParts, CallParts, SlotOfType
<1>2. Kept(node.solver, SlotOf(c.pos), Stored(c, node)) \in SolverStates
  BY <1>1, StoredType, KeptParts
<1>3. Finished(c, node) = IF node.solver.aborted THEN Answer(0, node.solver)
                          ELSE IF UseTable(c.pos)
                          THEN Answer(node.best, Kept(node.solver, SlotOf(c.pos), Stored(c, node)))
                          ELSE Answer(node.best, node.solver)
  BY DEF Finished, Kept
<1> QED
  BY <1>1, <1>2, <1>3, AnswerParts

\* It tells the value, and the entry it writes is sound.
LEMMA FinishedSound ==
    ASSUME RequestReady, NEW o \in BOOLEAN, NEW c \in Calls, Good(c.pos),
           WindowOk(c.alpha, c.beta, StakeAt(c.pos)), NEW node, Settled(node, c, o, StakeAt(c.pos))
    PROVE  AnswerSound(Finished(c, node), V(o)[c.pos], c.alpha, c.beta, StakeAt(c.pos), o)
<1> DEFINE slot == SlotOf(c.pos)
           e == Stored(c, node)
           s == node.solver
           t == Kept(s, slot, e)
           S == StakeAt(c.pos)
           v == V(o)[c.pos]
<1>1. /\ node \in Nodes /\ s \in SolverStates /\ node.best \in Int /\ slot \in 0 .. TableSize - 1
      /\ SolverSound(s, o)
  BY NodeParts, CallParts, SlotOfType DEF Settled
<1>2. Finished(c, node) = IF s.aborted THEN Answer(0, s)
                          ELSE IF UseTable(c.pos) THEN Answer(node.best, t) ELSE Answer(node.best, s)
  BY DEF Finished, Kept
<1>3. CASE s.aborted
  BY <1>1, <1>2, <1>3, AbortSound
<1>4. CASE ~ s.aborted
  <2>1. Tells(node.best, v, c.alpha, c.beta, S)
    BY <1>4 DEF Settled
  <2>2. EntrySound(e) /\ e \in Slots
    BY <1>1, <1>4, StoredSound, StoredType
  <2> HIDE DEF e, slot, s, S, v
  <2>3. /\ t \in SolverStates /\ t.aborted = s.aborted /\ t.optimistic = s.optimistic
        /\ t.table[slot] = e
        /\ \A j \in 0 .. TableSize - 1 : j # slot => t.table[j] = s.table[j]
    BY <1>1, <2>2, KeptParts
  <2> HIDE DEF t
  <2>4. SolverSound(t, o)
    BY <1>1, <2>2, <2>3 DEF SolverSound
  <2>5. \A r \in {s, t} : AnswerSound(Answer(node.best, r), v, c.alpha, c.beta, S, o)
    <3> SUFFICES ASSUME NEW r \in {s, t} PROVE AnswerSound(Answer(node.best, r), v, c.alpha, c.beta, S, o)
      OBVIOUS
    <3>1. r \in SolverStates /\ SolverSound(r, o)
      BY <1>1, <2>3, <2>4
    <3>2. Answer(node.best, r) \in Answers /\ Answer(node.best, r).value = node.best /\ Answer(node.best, r).solver = r
      BY <1>1, <3>1, AnswerParts
    <3> QED
      BY <2>1, <3>1, <3>2 DEF AnswerSound
  <2>6. AnswerSound(Finished(c, node), v, c.alpha, c.beta, S, o)
    BY <1>2, <1>4, <2>5
  <2> QED
    BY <2>6 DEF v, S
<1> QED
  BY <1>3, <1>4

\* The search of a counted node is an answer.
LEMMA SearchCountedType ==
    ASSUME RequestReady, NEW deeper \in [Calls -> Answers], NEW c \in Calls
    PROVE  SearchCounted(deeper, c) \in Answers
<1> DEFINE s == c.solver
           e == s.table[SlotOf(c.pos)]
           stopped == [s EXCEPT !.aborted = TRUE]
           options == OptionsAt(c.pos, s)
<1>1. /\ s \in SolverStates /\ c.pos \in Positions /\ SlotOf(c.pos) \in 0 .. TableSize - 1 /\ 0 \in Int
      /\ s.table \in [0 .. TableSize - 1 -> Slots]
  BY CallParts, SlotOfType, SolverParts
<1>2. e.value \in Int
  <2>1. e \in Slots
    BY <1>1
  <2> HIDE DEF e
  <2> QED
    BY <2>1 DEF Slots
<1>3. stopped \in SolverStates
  <2>1. TRUE \in BOOLEAN
    OBVIOUS
  <2> QED
    BY <1>1, <2>1 DEF SolverStates
<1>4. Finished(c, Explore(deeper, options, c)) \in Answers
  <2>1. options \in Seq(OptionsOf(c.pos))
    BY <1>1, OptionsAtType
  <2> HIDE DEF options
  <2>2. PICK upto \in [0 .. Len(options) -> Nodes] : Explore(deeper, options, c) = upto[Len(options)]
    BY <2>1, ExploreIsSteps
  <2>3. Len(options) \in 0 .. Len(options)
    BY <2>1
  <2>4. Explore(deeper, options, c) \in Nodes
    BY <2>2, <2>3
  <2> QED
    BY <2>4, FinishedType
<1>5. SearchCounted(deeper, c) =
        IF s.aborted THEN Answer(0, s)
        ELSE IF Known(c.pos, s) /\ Cuts(e, c.alpha, c.beta) THEN Answer(e.value, s)
        ELSE IF Cardinality(Playable(c.pos)) > req.genLimit THEN Answer(0, stopped)
        ELSE Finished(c, Explore(deeper, options, c))
  BY DEF SearchCounted
<1> HIDE DEF s, e, stopped, options
<1> QED
  BY <1>1, <1>2, <1>3, <1>4, <1>5, AnswerParts

\* An entry that cuts is an answer.
LEMMA KnownSound ==
    ASSUME NEW o \in BOOLEAN, NEW c \in Calls, WindowOk(c.alpha, c.beta, StakeAt(c.pos)), SolverSound(c.solver, o),
           Known(c.pos, c.solver), Cuts(c.solver.table[SlotOf(c.pos)], c.alpha, c.beta)
    PROVE  AnswerSound(Answer(c.solver.table[SlotOf(c.pos)].value, c.solver),
                       V(o)[c.pos], c.alpha, c.beta, StakeAt(c.pos), o)
<1> DEFINE e == c.solver.table[SlotOf(c.pos)]
           v == V(o)[c.pos]
           S == StakeAt(c.pos)
<1>1. /\ c.pos \in Positions /\ c.solver \in SolverStates /\ SlotOf(c.pos) \in 0 .. TableSize - 1
      /\ c.alpha \in Int /\ c.beta \in Int
  BY CallParts, SlotOfType
<1>2. e.key = KeyOf(c.pos, c.solver) /\ KeyOf(c.pos, c.solver) \in Keys /\ None \notin Keys
  BY <1>1, SolverParts, RequestAssumption DEF Known, KeyOf, Keys
<1>3. e.key.pos = c.pos /\ e.key.optimistic = o /\ e.key # None
  BY <1>2 DEF KeyOf, SolverSound
<1>4. EntrySound(e)
  BY <1>1 DEF SolverSound
<1>5. Cuts(e, c.alpha, c.beta)
  OBVIOUS
<1> HIDE DEF e
<1>6. /\ v \in Int /\ Bounded(e.value, S)
      /\ e.flag # 2 => e.value <= v
      /\ e.flag # 1 => v <= e.value
  BY <1>3, <1>4 DEF EntrySound
<1>7. e.value \in Int
  BY <1>6 DEF Bounded
<1> HIDE DEF v, S
<1>8. Tells(e.value, v, c.alpha, c.beta, S)
  BY <1>1, <1>5, <1>6, <1>7 DEF Tells, Cuts
<1>9. /\ Answer(e.value, c.solver) \in Answers /\ Answer(e.value, c.solver).value = e.value
      /\ Answer(e.value, c.solver).solver = c.solver
  BY <1>1, <1>7, AnswerParts
<1>10. AnswerSound(Answer(e.value, c.solver), v, c.alpha, c.beta, S, o)
  BY <1>8, <1>9 DEF AnswerSound
<1> QED
  BY <1>10 DEF e, v, S

\* It tells the value, whether it was found in the table or searched.
LEMMA SearchCountedSound ==
    ASSUME RequestReady, NEW o \in BOOLEAN, NEW deeper, Searches(deeper, o),
           NEW c \in Calls, Good(c.pos), WindowOk(c.alpha, c.beta, StakeAt(c.pos)), SolverSound(c.solver, o)
    PROVE  AnswerSound(SearchCounted(deeper, c), V(o)[c.pos], c.alpha, c.beta, StakeAt(c.pos), o)
<1> DEFINE s == c.solver
           e == s.table[SlotOf(c.pos)]
           stopped == [s EXCEPT !.aborted = TRUE]
           options == OptionsAt(c.pos, s)
           v == V(o)[c.pos]
           S == StakeAt(c.pos)
<1>1. SearchCounted(deeper, c) =
        IF s.aborted THEN Answer(0, s)
        ELSE IF Known(c.pos, s) /\ Cuts(e, c.alpha, c.beta) THEN Answer(e.value, s)
        ELSE IF Cardinality(Playable(c.pos)) > req.genLimit THEN Answer(0, stopped)
        ELSE Finished(c, Explore(deeper, options, c))
  BY DEF SearchCounted
<1>2. s \in SolverStates /\ SolverSound(s, o)
  BY CallParts
<1>3. SolverSound(stopped, o) /\ stopped.aborted
  <2>1. TRUE \in BOOLEAN
    OBVIOUS
  <2>2. stopped \in SolverStates /\ stopped.table = s.table /\ stopped.optimistic = s.optimistic /\ stopped.aborted
    BY <1>2, <2>1 DEF SolverStates
  <2> HIDE DEF stopped, s
  <2> QED
    BY <1>2, <2>2 DEF SolverSound
<1>4. Known(c.pos, s) /\ Cuts(e, c.alpha, c.beta) => AnswerSound(Answer(e.value, s), v, c.alpha, c.beta, S, o)
  BY KnownSound
<1>5. s.aborted => AnswerSound(Answer(0, s), v, c.alpha, c.beta, S, o)
  BY <1>2, AbortSound
<1>6. AnswerSound(Answer(0, stopped), v, c.alpha, c.beta, S, o)
  <2> HIDE DEF stopped, v, S
  <2> QED
    BY <1>3, AbortSound
<1>7. AnswerSound(Finished(c, Explore(deeper, options, c)), v, c.alpha, c.beta, S, o)
  <2>1. options \in Seq(OptionsOf(c.pos)) /\ Range(options) = OptionsOf(c.pos)
    BY <1>2, OptionsAtAre
  <2> HIDE DEF options
  <2>2. Settled(Explore(deeper, options, c), c, o, StakeAt(c.pos))
    BY <2>1, ExploreSound
  <2> QED
    BY <2>2, FinishedSound
<1> HIDE DEF s, e, stopped, options, v, S
<1>8. AnswerSound(SearchCounted(deeper, c), v, c.alpha, c.beta, S, o)
  BY <1>1, <1>4, <1>5, <1>6, <1>7
<1> QED
  BY <1>8 DEF v, S

\* The search by its depth.
SearchSteps(search) ==
    search = [depth \in Nat |->
                [c \in Calls |->
                   IF depth = 0 THEN Answer(0, [c.solver EXCEPT !.aborted = TRUE])
                   ELSE SearchCounted(search[depth - 1], [c EXCEPT !.solver = Visit(@)])]]
\* The search with no depth left gives up.
SearchBase == [c \in Calls |-> Answer(0, [c.solver EXCEPT !.aborted = TRUE])]
\* One level more.
SearchNext(deeper) == [c \in Calls |-> SearchCounted(deeper, Counted(c, Visit(c.solver)))]

\* Each level answers every call.
LEMMA SearchTypes ==
    ASSUME RequestReady
    PROVE  SearchBase \in [Calls -> Answers]
           /\ \A deeper \in [Calls -> Answers] : SearchNext(deeper) \in [Calls -> Answers]
<1>1. ASSUME NEW c \in Calls PROVE Answer(0, [c.solver EXCEPT !.aborted = TRUE]) \in Answers
  <2>1. c.solver \in SolverStates /\ TRUE \in BOOLEAN /\ 0 \in Int
    BY CallParts
  <2>2. [c.solver EXCEPT !.aborted = TRUE] \in SolverStates
    BY <2>1 DEF SolverStates
  <2> QED
    BY <2>1, <2>2, AnswerParts
<1>2. SearchBase \in [Calls -> Answers]
  <2> HIDE DEF Answers, Calls
  <2> QED
    BY <1>1 DEF SearchBase
<1>3. ASSUME NEW deeper \in [Calls -> Answers] PROVE SearchNext(deeper) \in [Calls -> Answers]
  <2>1. ASSUME NEW c \in Calls PROVE SearchCounted(deeper, Counted(c, Visit(c.solver))) \in Answers
    <3>1. Visit(c.solver) \in SolverStates
      BY CallParts, VisitKeeps
    <3>2. Counted(c, Visit(c.solver)) \in Calls
      BY <3>1, CallCounted
    <3> QED
      BY <3>2, SearchCountedType
  <2> QED
    BY <2>1 DEF SearchNext
<1> QED
  BY <1>2, <1>3

\* Search is the levels one over the other.
LEMMA SearchIsSteps ==
    ASSUME RequestReady
    PROVE  /\ \A n \in Nat : Search[n] \in [Calls -> Answers]
           /\ Search[0] = SearchBase
           /\ \A n \in Nat : Search[n + 1] = SearchNext(Search[n])
<1> DEFINE T == [Calls -> Answers]
           chosen == CHOOSE search : SearchSteps(search)
           step == [n \in Nat |-> [x \in T |-> SearchNext(x)]]
           base == SearchBase
           B(g, n) == IF n = 0 THEN base ELSE SearchNext(g[n - 1])
<1>1. Search = chosen
  BY DEF Search, SearchSteps
<1>2. \A n \in Nat : \A x \in T : step[n][x] = SearchNext(x) /\ step[n][x] \in T
  <2> SUFFICES ASSUME NEW n \in Nat, NEW x \in T PROVE step[n][x] = SearchNext(x) /\ step[n][x] \in T
    OBVIOUS
  <2>1. SearchNext(x) \in T
    BY SearchTypes
  <2> QED
    BY <2>1
<1>3. base \in T
  BY SearchTypes
<1>4. \A g : SearchSteps(g) <=> g = [n \in Nat |-> B(g, n)]
  <2> SUFFICES ASSUME NEW g PROVE SearchSteps(g) <=> g = [n \in Nat |-> B(g, n)]
    OBVIOUS
  <2> DEFINE A(n) == [c \in Calls |->
                 IF n = 0 THEN Answer(0, [c.solver EXCEPT !.aborted = TRUE])
                 ELSE SearchCounted(g[n - 1], [c EXCEPT !.solver = Visit(@)])]
  <2>1. \A n : A(n) = B(g, n)
    BY DEF SearchBase, SearchNext, Counted
  <2>2. SearchSteps(g) <=> g = [n \in Nat |-> A(n)]
    BY DEF SearchSteps
  <2> HIDE DEF A, B
  <2>3. [n \in Nat |-> A(n)] = [n \in Nat |-> B(g, n)]
    BY <2>1
  <2> QED
    BY <2>2, <2>3
<1> HIDE DEF T, step, base
<1>5. PICK f : StepwiseForever(f, T, base, step)
  BY <1>2, <1>3, NatRecursion
<1>6. f \in [Nat -> T] /\ f[0] = base
  BY <1>5 DEF StepwiseForever
<1>7. \A n \in Nat : n # 0 => f[n] = step[n][f[n - 1]]
  BY <1>5 DEF StepwiseForever
<1>8. \A n \in Nat : f[n] = B(f, n)
  <2>1. \A n \in Nat : n # 0 => f[n - 1] \in T
    BY <1>6
  <2> QED
    BY <1>2, <1>6, <1>7, <2>1, Zenon
<1>9. f = [n \in Nat |-> f[n]]
  BY <1>6
<1>10. f = [n \in Nat |-> B(f, n)]
  <2> HIDE DEF B
  <2> QED
    BY <1>8, <1>9
<1>11. SearchSteps(f)
  BY <1>4, <1>10
<1>12. SearchSteps(chosen)
  BY <1>11, Zenon
<1> HIDE DEF chosen
<1>13. chosen = [n \in Nat |-> B(chosen, n)]
  BY <1>4, <1>12
<1>14. \A n \in Nat : chosen[n] = B(chosen, n)
  <2> HIDE DEF B
  <2>1. \A g, h : g = [n \in Nat |-> B(h, n)] => \A n \in Nat : g[n] = B(h, n)
    OBVIOUS
  <2> QED
    BY <1>13, <2>1
<1>15. chosen[0] = base
  BY <1>14
<1>16. \A n \in Nat : chosen[n + 1] = SearchNext(chosen[n])
  <2> SUFFICES ASSUME NEW n \in Nat PROVE chosen[n + 1] = SearchNext(chosen[n])
    OBVIOUS
  <2>1. n + 1 \in Nat /\ n + 1 # 0 /\ (n + 1) - 1 = n
    OBVIOUS
  <2>2. chosen[n + 1] = B(chosen, n + 1)
    BY <1>14, <2>1
  <2> QED
    BY <2>1, <2>2
<1>17. \A n \in Nat : chosen[n] \in T
  <2> DEFINE Typed == {n \in Nat : chosen[n] \in T}
  <2>1. 0 \in Typed
    BY <1>3, <1>15
  <2>2. ASSUME NEW n \in Typed PROVE n + 1 \in Typed
    <3>1. SearchNext(chosen[n]) \in T
      BY SearchTypes DEF T
    <3> QED
      BY <1>16, <3>1
  <2>3. Typed = Nat
    <3>1. Typed \in SUBSET Nat
      OBVIOUS
    <3> HIDE DEF Typed
    <3> QED
      BY <2>1, <2>2, <3>1, NatClosed
  <2> QED
    BY <2>3
<1> QED
  BY <1>1, <1>15, <1>16, <1>17 DEF T, base

\* What a search answers is so, whatever it reached before it ran out.
LEMMA SearchSound ==
    ASSUME RequestReady, NEW o \in BOOLEAN
    PROVE  \A n \in Nat : Searches(Search[n], o)
<1> DEFINE Right == {n \in Nat : Searches(Search[n], o)}
<1>1. 0 \in Right
  <2>1. Search[0] \in [Calls -> Answers] /\ \A c \in Calls : Search[0][c] = Answer(0, [c.solver EXCEPT !.aborted = TRUE])
    BY SearchIsSteps DEF SearchBase
  <2>2. ASSUME NEW c \in Calls, SolverSound(c.solver, o)
        PROVE  AnswerSound(Search[0][c], V(o)[c.pos], c.alpha, c.beta, StakeAt(c.pos), o)
    <3> DEFINE s == c.solver
               stopped == [s EXCEPT !.aborted = TRUE]
    <3>1. s \in SolverStates /\ TRUE \in BOOLEAN
      BY CallParts
    <3>2. stopped \in SolverStates /\ stopped.table = s.table /\ stopped.optimistic = s.optimistic /\ stopped.aborted
      BY <3>1 DEF SolverStates
    <3>3. SolverSound(s, o)
      BY <2>2
    <3>4. Search[0][c] = Answer(0, stopped)
      BY <2>1
    <3> HIDE DEF stopped, s
    <3>5. SolverSound(stopped, o)
      BY <3>2, <3>3 DEF SolverSound
    <3> QED
      BY <3>2, <3>4, <3>5, AbortSound
  <2>3. Searches(Search[0], o)
    BY <2>1, <2>2 DEF Searches
  <2> QED
    BY <2>3
<1>2. ASSUME NEW n \in Right PROVE n + 1 \in Right
  <2>1. n \in Nat /\ Searches(Search[n], o)
    OBVIOUS
  <2>2. /\ Search[n + 1] \in [Calls -> Answers]
        /\ \A c \in Calls : Search[n + 1][c] = SearchCounted(Search[n], Counted(c, Visit(c.solver)))
    <3>1. n + 1 \in Nat
      BY <2>1
    <3>2. Search[n + 1] \in [Calls -> Answers]
      BY <3>1, SearchIsSteps
    <3>3. Search[n + 1] = SearchNext(Search[n])
      BY <2>1, SearchIsSteps
    <3>4. \A c \in Calls : SearchNext(Search[n])[c] = SearchCounted(Search[n], Counted(c, Visit(c.solver)))
      BY DEF SearchNext
    <3> QED
      BY <3>2, <3>3, <3>4
  <2>3. ASSUME NEW c \in Calls, Good(c.pos), WindowOk(c.alpha, c.beta, StakeAt(c.pos)), SolverSound(c.solver, o)
        PROVE  AnswerSound(Search[n + 1][c], V(o)[c.pos], c.alpha, c.beta, StakeAt(c.pos), o)
    <3> DEFINE d == Counted(c, Visit(c.solver))
    <3>1. /\ Visit(c.solver) \in SolverStates /\ Visit(c.solver).table = c.solver.table
          /\ Visit(c.solver).optimistic = c.solver.optimistic
      BY CallParts, VisitKeeps
    <3>2. SolverSound(Visit(c.solver), o)
      BY <2>3, <3>1 DEF SolverSound
    <3>3. d \in Calls /\ d.pos = c.pos /\ d.alpha = c.alpha /\ d.beta = c.beta /\ d.solver = Visit(c.solver)
      BY <3>1, CallCounted
    <3>4. Search[n + 1][c] = SearchCounted(Search[n], d)
      BY <2>2
    <3> HIDE DEF d
    <3>5. AnswerSound(SearchCounted(Search[n], d), V(o)[d.pos], d.alpha, d.beta, StakeAt(d.pos), o)
      BY <2>1, <2>3, <3>2, <3>3, SearchCountedSound
    <3> QED
      BY <3>3, <3>4, <3>5
  <2>4. Searches(Search[n + 1], o)
    BY <2>2, <2>3 DEF Searches
  <2> QED
    BY <2>1, <2>4
<1>3. Right = Nat
  <2>1. Right \in SUBSET Nat
    OBVIOUS
  <2> HIDE DEF Right
  <2> QED
    BY <1>1, <1>2, <2>1, NatClosed
<1> QED
  BY <1>3

==============================================================================
