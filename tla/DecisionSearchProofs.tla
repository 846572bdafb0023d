------------------------ MODULE DecisionSearchProofs ------------------------
(***************************************************************************)
(* Proofs about the decision search, for every policy and whatever the     *)
(* search computes about a position: how large its trees and indexes are   *)
(* and what its endpoints are worth.                                       *)
(***************************************************************************)
EXTENDS DecisionSearch, Induction

-----------------------------------------------------------------------------
(* Sums of sequences                                                       *)

LEMMA TotalType ==
    ASSUME NEW s, Len(s) \in Nat, \A i \in 1 .. Len(s) : s[i] \in Int
    PROVE  Total(s) \in Int
<1> DEFINE Sums(g, n) == g = [i \in 0 .. n |-> IF i = 0 THEN 0 ELSE g[i - 1] + s[i]]
           Solved == {n \in Nat : n <= Len(s) => \E g : Sums(g, n)}
           upTo == CHOOSE g : Sums(g, Len(s))
<1>1. Total(s) = upTo[Len(s)]
  BY DEF Total
<1>2. \E g : Sums(g, Len(s))
  <2>1. 0 \in Solved
    <3> DEFINE g == [i \in 0 .. 0 |-> 0]
    <3>1. Sums(g, 0)
      OBVIOUS
    <3> QED
      BY <3>1
  <2>2. ASSUME NEW n \in Solved PROVE n + 1 \in Solved
    <3> SUFFICES ASSUME n + 1 <= Len(s) PROVE \E g : Sums(g, n + 1)
      OBVIOUS
    <3>1. PICK g : Sums(g, n)
      OBVIOUS
    <3> DEFINE h == [i \in 0 .. n + 1 |-> IF i = 0 THEN 0 ELSE g[i - 1] + s[i]]
    <3>2. \A i \in 0 .. n : h[i] = g[i]
      BY <3>1
    <3>3. \A i \in 1 .. n + 1 : h[i - 1] = g[i - 1]
      <4> HIDE DEF h
      <4> QED
        BY <3>2
    <3>4. h = [i \in 0 .. n + 1 |-> IF i = 0 THEN 0 ELSE h[i - 1] + s[i]]
      <4>1. \A i \in 0 .. n + 1 : (IF i = 0 THEN 0 ELSE g[i - 1] + s[i])
                                   = (IF i = 0 THEN 0 ELSE h[i - 1] + s[i])
        <5> HIDE DEF h
        <5> QED
          BY <3>3
      <4> QED
        BY <4>1, Zenon
    <3> HIDE DEF h
    <3> QED
      BY <3>4
  <2>3. Solved = Nat
    <3> HIDE DEF Solved
    <3>1. Solved \in SUBSET Nat
      BY DEF Solved
    <3> QED
      BY <2>1, <2>2, <3>1, NatClosed
  <2> QED
    BY <2>3
<1>3. Sums(upTo, Len(s))
  BY <1>2
<1> HIDE DEF upTo
<1>4. {n \in Nat : n <= Len(s) => upTo[n] \in Int} = Nat
  <2> DEFINE Typed == {n \in Nat : n <= Len(s) => upTo[n] \in Int}
  <2>1. 0 \in Typed
    BY <1>3
  <2>2. ASSUME NEW n \in Typed PROVE n + 1 \in Typed
    BY <1>3
  <2>3. Typed \in SUBSET Nat
    OBVIOUS
  <2> HIDE DEF Typed
  <2>4. Typed = Nat
    BY <2>1, <2>2, <2>3, NatClosed
  <2> QED
    BY <2>4 DEF Typed
<1> QED
  BY <1>1, <1>4

-----------------------------------------------------------------------------
(* The race                                                                *)

Measurements == Seq(Observation(Int))

MeasuredValues == UNION {[D -> Measurements] : D \in SUBSET Nat}

Races == [active : SUBSET Nat, values : MeasuredValues,
          batches : Nat, rounds : Nat, minimum : Nat, allowance : Nat,
          invariantFailure : BOOLEAN]

\* The measurements of any two candidates come from the same worlds.
Paired(r) ==
    \A c, d \in DOMAIN r.values : \A i \in 1 .. Pairs(r, c, d) :
        r.values[c][i].world = r.values[d][i].world

\* Whoever is still in the race was measured in every batch.
RaceOK(r) ==
    /\ r \in Races
    /\ IsFiniteSet(r.active) /\ r.active \subseteq DOMAIN r.values
    /\ \A c \in DOMAIN r.values : Len(r.values[c]) <= r.batches
    /\ \A c \in r.active : Len(r.values[c]) = r.batches
    /\ ~ r.invariantFailure
    /\ Paired(r)

LEMMA RaceParts ==
    ASSUME NEW r, RaceOK(r)
    PROVE  /\ DOMAIN r.values \in SUBSET Nat /\ r.active \in SUBSET Nat
           /\ r.batches \in Nat /\ r.minimum \in Nat /\ r.allowance \in Nat
           /\ r.values \in [DOMAIN r.values -> Measurements]
           /\ \A c \in DOMAIN r.values : /\ r.values[c] \in Measurements
                                         /\ Len(r.values[c]) \in Nat
                                         /\ \A i \in 1 .. Len(r.values[c]) :
                                              /\ r.values[c][i].value \in Int
                                              /\ r.values[c][i].world \in Nat
<1>1. r \in Races
  BY DEF RaceOK
<1>2. PICK D \in SUBSET Nat : r.values \in [D -> Measurements]
  BY <1>1 DEF Races, MeasuredValues
<1>3. DOMAIN r.values = D
  BY <1>2
<1>4. \A m \in Measurements : /\ Len(m) \in Nat
                              /\ \A i \in 1 .. Len(m) : m[i].value \in Int /\ m[i].world \in Nat
  <2> SUFFICES ASSUME NEW m \in Measurements
               PROVE  /\ Len(m) \in Nat
                      /\ \A i \in 1 .. Len(m) : m[i].value \in Int /\ m[i].world \in Nat
    OBVIOUS
  <2>1. Len(m) \in Nat /\ \A i \in 1 .. Len(m) : m[i] \in Observation(Int)
    BY DEF Measurements
  <2>2. \A o \in Observation(Int) : o.value \in Int /\ o.world \in Nat
    BY DEF Observation
  <2> QED
    BY <2>1, <2>2
<1> QED
  BY <1>1, <1>2, <1>3, <1>4 DEF Races

LEMMA MeanType ==
    ASSUME NEW r, RaceOK(r), NEW c \in DOMAIN r.values
    PROVE  Mean(r, c) \in Int
<1> DEFINE measured == r.values[c]
           sums == [i \in DOMAIN measured |-> measured[i].value]
<1>1. /\ measured \in Measurements /\ Len(measured) \in Nat
      /\ \A i \in 1 .. Len(measured) : measured[i].value \in Int
  BY RaceParts
<1>2. DOMAIN measured = 1 .. Len(measured)
  BY <1>1 DEF Measurements
<1> HIDE DEF measured
<1>3. Len(sums) = Len(measured) /\ \A i \in 1 .. Len(sums) : sums[i] \in Int
  BY <1>1, <1>2
<1>4. Total(sums) \in Int
  <2> HIDE DEF sums
  <2> QED
    BY <1>1, <1>3, TotalType
<1>5. measured # <<>> => Quotient(Total(sums), Len(measured)) \in Int
  <2> SUFFICES ASSUME measured # <<>> PROVE Quotient(Total(sums), Len(measured)) \in Int
    OBVIOUS
  <2>1. Len(measured) \in Nat \ {0}
    BY <1>1 DEF Measurements
  <2> HIDE DEF sums
  <2>2. \A m \in Int, n \in Nat \ {0} : Quotient(m, n) \in Int
    BY DEF Quotient
  <2> QED
    BY <1>4, <2>1, <2>2
<1> QED
  BY <1>5 DEF Mean, measured

\* c is measured at least as well as d, and named before it where they tie.
Beats(r, c, d) ==
    \/ Mean(r, c) > Mean(r, d)
    \/ Mean(r, c) = Mean(r, d) /\ c <= d

\* The leader of a race that somebody is left in beats everybody in it.
LEMMA LeaderBeatsAll ==
    ASSUME NEW r, RaceOK(r), r.active # {}
    PROVE  Leader(r) \in r.active /\ \A d \in r.active : Beats(r, Leader(r), d)
<1> DEFINE Above(c) == {d \in r.active \ {c} : Beats(r, d, c)}
           Sets == {Above(c) : c \in r.active}
<1>1. \A c \in r.active : c \in Nat /\ Mean(r, c) \in Int
  BY RaceParts, MeanType DEF RaceOK
<1>2. PICK T \in Sets : \A U \in Sets : U \subseteq T => U = T
  <2>1. Sets \in SUBSET (SUBSET r.active) /\ Sets # {} /\ IsFiniteSet(r.active)
    BY DEF RaceOK
  <2> HIDE DEF Sets
  <2> QED
    BY <2>1, MinimalSubset
<1>3. PICK c \in r.active : T = Above(c)
  OBVIOUS
<1>4. Above(c) = {}
  <2> SUFFICES ASSUME NEW d \in Above(c) PROVE FALSE
    OBVIOUS
  <2>1. Above(d) \subseteq Above(c)
    BY <1>1 DEF Beats
  <2>2. d \notin Above(d)
    OBVIOUS
  <2>3. Above(d) \in Sets
    OBVIOUS
  <2> QED
    BY <1>2, <1>3, <2>1, <2>2, <2>3
<1>5. \A d \in r.active : Beats(r, c, d)
  BY <1>1, <1>4 DEF Beats
<1> QED
  BY <1>5 DEF Leader, Beats

\* Nobody else beats everybody.
LEMMA LeaderUnique ==
    ASSUME NEW r, RaceOK(r), NEW b \in r.active, \A d \in r.active : Beats(r, b, d)
    PROVE  Leader(r) = b
<1>1. Leader(r) \in r.active /\ Beats(r, Leader(r), b) /\ Beats(r, b, Leader(r))
  BY LeaderBeatsAll
<1>2. \A c \in r.active : c \in Nat /\ Mean(r, c) \in Int
  BY RaceParts, MeanType DEF RaceOK
<1> QED
  BY <1>1, <1>2 DEF Beats

-----------------------------------------------------------------------------
(* A batch                                                                 *)

Reading == [candidate : Nat, world : Nat, value : Int]
Rows == Seq(Reading)

LEMMA MeasuredIsRace ==
    ASSUME NEW r, RaceOK(r), NEW batch \in Rows, ValidBatch(r, batch),
           NEW w \in Nat, \A i \in DOMAIN batch : batch[i].world = w
    PROVE  RaceOK(Measured(r, batch))
<1> DEFINE m == Measured(r, batch)
           chosen(c) == CHOOSE i \in DOMAIN batch : batch[i].candidate = c
           new(c) == [world |-> batch[chosen(c)].world, value |-> batch[chosen(c)].value]
<1>1. /\ DOMAIN r.values \in SUBSET Nat /\ r.active \subseteq DOMAIN r.values
      /\ r.batches \in Nat /\ r \in Races /\ Paired(r)
      /\ \A c \in DOMAIN r.values : /\ r.values[c] \in Measurements
                                    /\ Len(r.values[c]) \in Nat
                                    /\ Len(r.values[c]) <= r.batches
      /\ \A c \in r.active : Len(r.values[c]) = r.batches
  BY RaceParts DEF RaceOK
<1>2. \A c \in r.active : new(c) \in Observation(Int) /\ new(c).world = w
  <2> SUFFICES ASSUME NEW c \in r.active PROVE new(c) \in Observation(Int) /\ new(c).world = w
    OBVIOUS
  <2>1. \E i \in DOMAIN batch : batch[i].candidate = c
    BY DEF ValidBatch
  <2>2. chosen(c) \in DOMAIN batch
    BY <2>1
  <2> HIDE DEF chosen
  <2>3. batch[chosen(c)] \in Reading
    BY <2>2 DEF Rows
  <2> QED
    BY <2>2, <2>3 DEF Observation, Reading
<1> HIDE DEF new
<1>3. /\ m.active = r.active /\ m.batches = r.batches + 1 /\ m.rounds = r.rounds
      /\ m.minimum = r.minimum /\ m.allowance = r.allowance
      /\ m.invariantFailure = r.invariantFailure
      /\ m.values = [c \in DOMAIN r.values |-> IF c \in r.active THEN Append(r.values[c], new(c))
                                                                 ELSE r.values[c]]
  BY <1>1 DEF Measured, Races, new
<1>4. \A c \in r.active : /\ m.values[c] \in Measurements
                          /\ Len(m.values[c]) = r.batches + 1
                          /\ m.values[c][r.batches + 1] = new(c)
                          /\ \A i \in 1 .. r.batches : m.values[c][i] = r.values[c][i]
  BY <1>1, <1>2, <1>3 DEF Measurements
<1>5. \A c \in DOMAIN r.values \ r.active : m.values[c] = r.values[c]
  BY <1>3
<1>6. m \in Races
  <2>1. m.values \in [DOMAIN r.values -> Measurements]
    BY <1>1, <1>3, <1>4, <1>5
  <2>2. m.values \in MeasuredValues
    BY <1>1, <2>1 DEF MeasuredValues
  <2>3. \A values \in MeasuredValues, n \in Nat :
           [r EXCEPT !.values = values, !.batches = n] \in Races
    BY <1>1 DEF Races
  <2>4. m = [r EXCEPT !.values = m.values, !.batches = m.batches]
    BY <1>1, <1>3 DEF Measured, Races
  <2> DEFINE values == m.values
  <2> HIDE DEF m, values
  <2>5. values \in MeasuredValues /\ m.batches \in Nat
    BY <1>1, <1>3, <2>2 DEF values
  <2> QED
    BY <2>3, <2>4, <2>5 DEF values
<1>7. Paired(m)
  <2> SUFFICES ASSUME NEW c \in DOMAIN r.values, NEW d \in DOMAIN r.values,
                      NEW i \in 1 .. Pairs(m, c, d)
               PROVE  m.values[c][i].world = m.values[d][i].world
    BY <1>3 DEF Paired
  <2>1. /\ Len(m.values[c]) \in Nat /\ Len(m.values[d]) \in Nat
        /\ i \in Nat /\ i >= 1 /\ i <= Len(m.values[c]) /\ i <= Len(m.values[d])
    BY <1>1, <1>4, <1>5 DEF Pairs, Least
  <2>2. CASE i = r.batches + 1
    <3>1. c \in r.active /\ d \in r.active
      BY <1>1, <1>5, <2>1, <2>2
    <3> QED
      BY <1>2, <1>4, <2>2, <3>1
  <2>3. CASE i # r.batches + 1
    <3>1. i <= r.batches
      BY <1>1, <1>4, <1>5, <2>1, <2>3
    <3>2. m.values[c][i] = r.values[c][i] /\ m.values[d][i] = r.values[d][i]
      BY <1>4, <1>5, <2>1, <3>1, <1>1
    <3>3. i <= Len(r.values[c]) /\ i <= Len(r.values[d])
      BY <1>1, <1>5, <2>1, <3>1
    <3>4. i \in 1 .. Pairs(r, c, d)
      BY <1>1, <2>1, <3>3 DEF Pairs, Least
    <3> QED
      BY <1>1, <3>2, <3>4 DEF Paired
  <2> QED
    BY <2>2, <2>3
<1>8. /\ IsFiniteSet(m.active) /\ ~ m.invariantFailure /\ DOMAIN m.values = DOMAIN r.values
      /\ \A c \in DOMAIN m.values : Len(m.values[c]) <= m.batches
      /\ \A c \in m.active : Len(m.values[c]) = m.batches
  BY <1>1, <1>3, <1>4, <1>5 DEF RaceOK
<1> QED
  BY <1>1, <1>3, <1>6, <1>7, <1>8 DEF RaceOK

\* Whoever is in r and no longer in next was measured often enough, and is
\* behind the leader by more than the allowance.
FairlyDropped(r, next) ==
    \A c \in r.active \ next.active :
        /\ Len(next.values[c]) >= r.minimum
        /\ Total(Differences(next, c, Leader(next))) < - r.allowance * Len(next.values[c])

\* A batch keeps the leader in the race and in the lead, and whoever it drops
\* is behind him.
LEMMA BatchEffect ==
    ASSUME NEW r, RaceOK(r), r.active # {}, NEW batch \in Rows, ValidBatch(r, batch),
           NEW w \in Nat, \A i \in DOMAIN batch : batch[i].world = w,
           NEW next, next = CommitBatch(r, batch)
    PROVE  /\ RaceOK(next)
           /\ next.active \subseteq r.active /\ next.active # {}
           /\ next.batches = r.batches + 1
           /\ next.minimum = r.minimum /\ next.allowance = r.allowance
           /\ FairlyDropped(r, next)
<1> DEFINE m == Measured(r, batch)
           b == Leader(m)
           left == Survivors(m)
<1>1. RaceOK(m)
  BY MeasuredIsRace
<1>2. /\ m.active = r.active /\ m.batches = r.batches + 1 /\ m.minimum = r.minimum
      /\ m.allowance = r.allowance /\ DOMAIN m.values = DOMAIN r.values
  BY DEF Measured, RaceOK, Races
<1>3. /\ r.minimum \in Nat /\ r.allowance \in Nat /\ r.batches \in Nat /\ m \in Races
      /\ m.active \subseteq DOMAIN m.values
  BY <1>1, RaceParts DEF RaceOK
<1>4. b \in r.active /\ \A d \in r.active : Beats(m, b, d)
  BY <1>1, <1>2, LeaderBeatsAll
<1>5. left \subseteq r.active /\ b \in left
  BY <1>2, <1>4 DEF Survivors
<1>6. next = [m EXCEPT !.active = left,
                       !.rounds = IF left # r.active THEN @ + 1 ELSE @]
  BY DEF CommitBatch, RaceOK
<1> DEFINE rounds == IF left # r.active THEN m.rounds + 1 ELSE m.rounds
<1> HIDE DEF m, left
<1>7. next = [m EXCEPT !.active = left, !.rounds = rounds] /\ rounds \in Nat
  BY <1>3, <1>6 DEF Races
<1> HIDE DEF rounds
<1>8. /\ next.active = left /\ next.values = m.values /\ next.batches = m.batches
      /\ next.minimum = m.minimum /\ next.allowance = m.allowance
      /\ next.invariantFailure = m.invariantFailure /\ next \in Races
  BY <1>2, <1>3, <1>5, <1>7, RaceParts DEF Races
<1>9. RaceOK(next)
  <2>1. IsFiniteSet(next.active)
    BY <1>1, <1>2, <1>5, <1>8, FS_Subset DEF RaceOK
  <2>2. Paired(next)
    BY <1>1, <1>8 DEF RaceOK, Paired, Pairs
  <2> QED
    BY <1>1, <1>2, <1>5, <1>8, <2>1, <2>2 DEF RaceOK
<1>10. Leader(next) = b
  <2>1. \A d \in next.active : Beats(next, b, d)
    BY <1>4, <1>5, <1>8 DEF Beats, Mean
  <2> QED
    BY <1>5, <1>8, <1>9, <2>1, LeaderUnique
<1>11. ASSUME NEW c \in r.active \ next.active
       PROVE  /\ Len(next.values[c]) >= r.minimum
              /\ Total(Differences(next, c, Leader(next))) < - r.allowance * Len(next.values[c])
  <2> DEFINE n == r.batches + 1
             d == Differences(m, c, b)
  <2>1. Len(m.values[c]) = n /\ Len(m.values[b]) = n /\ n \in Nat
    BY <1>1, <1>2, <1>3, <1>4 DEF RaceOK
  <2>2. Pairs(m, c, b) = n
    BY <2>1 DEF Pairs, Least
  <2>3. n >= r.minimum /\ GapBelow(d, - r.allowance)
    BY <1>2, <1>8, <2>2 DEF left, Survivors, Separated
  <2>4. Len(d) = n /\ \A i \in 1 .. n : d[i] \in Int
    <3>1. \A i \in 1 .. n : m.values[c][i].value \in Int /\ m.values[b][i].value \in Int
      BY <1>1, <1>2, <1>3, <1>4, <2>1, RaceParts
    <3> QED
      BY <2>1, <2>2, <3>1 DEF Differences
  <2>5. Differences(next, c, Leader(next)) = d
    BY <1>8, <1>10 DEF Differences, Pairs
  <2> HIDE DEF d
  <2>6. Total(d) \in Int
    BY <2>1, <2>4, TotalType
  <2>7. n * (- r.allowance) - Total(d) > 0
    BY <2>3, <2>4 DEF GapBelow
  <2> HIDE DEF n
  <2>8. Total(d) < - r.allowance * n
    BY <1>3, <2>1, <2>6, <2>7
  <2> QED
    BY <1>8, <2>1, <2>3, <2>5, <2>8
<1>12. FairlyDropped(r, next)
  BY <1>11, Zenon DEF FairlyDropped
<1> QED
  BY <1>2, <1>5, <1>8, <1>9, <1>12

-----------------------------------------------------------------------------
(* The ledger                                                              *)

\* Between two generations: no permit is out and no ceiling was exceeded.
LedgerOK(l) ==
    /\ l \in Ledger
    /\ ~ l.permitOut /\ ~ l.invariantFailure
    /\ l.fullCalls <= l.envelope.fullCalls
    /\ l.deltaCalls <= l.envelope.deltaCalls
    /\ l.nodes <= l.envelope.nodes
    /\ l.completed <= l.envelope.worlds

SameWorldsOf(l, k) ==
    /\ k.envelope = l.envelope /\ k.worldReserved = l.worldReserved
    /\ k.completed = l.completed /\ k.discarded = l.discarded

\* A generation spends at most one call, and of its own kind.
GenerationOK(l, delta, g) ==
    /\ g.done \in BOOLEAN /\ LedgerOK(g.ledger) /\ SameWorldsOf(l, g.ledger)
    /\ g.ledger.fullCalls <= l.fullCalls + 1 /\ g.ledger.deltaCalls <= l.deltaCalls + 1
    /\ delta => g.ledger.fullCalls = l.fullCalls
    /\ ~ delta => g.ledger.deltaCalls = l.deltaCalls

LEMMA GenerationEffect ==
    ASSUME NEW l, LedgerOK(l), NEW delta \in BOOLEAN, NEW requested \in Nat, NEW tree \in Nat
    PROVE  GenerationOK(l, delta, Generation(l, delta, requested, tree))
<1> DEFINE g == Generation(l, delta, requested, tree)
<1> SUFFICES GenerationOK(l, delta, g)
  OBVIOUS
<1> HIDE DEF g
<1>1. g = Generation(l, delta, requested, tree)
  BY DEF g
<1>2. /\ l \in Ledger /\ ~ l.permitOut /\ ~ l.invariantFailure
      /\ l.nodes \in Nat /\ l.fullCalls \in Nat /\ l.deltaCalls \in Nat /\ l.deltaNodes \in Nat
      /\ l.envelope.nodes \in Nat /\ l.envelope.fullCalls \in Nat
      /\ l.envelope.deltaCalls \in Nat
  BY DEF LedgerOK, Ledger, Envelope
<1>3. CASE ~ Permitted(l, delta)
  <2> DEFINE k == [l EXCEPT !.exhausted = TRUE]
  <2>1. g = [done |-> FALSE, ledger |-> k]
    BY <1>1, <1>2, <1>3 DEF Generation, ReserveGeneration
  <2>2. k \in Ledger
    BY <1>2 DEF Ledger
  <2>3. /\ k.permitOut = l.permitOut /\ k.invariantFailure = l.invariantFailure
        /\ k.envelope = l.envelope /\ k.nodes = l.nodes /\ k.completed = l.completed
        /\ k.fullCalls = l.fullCalls /\ k.deltaCalls = l.deltaCalls
        /\ k.discarded = l.discarded /\ k.worldReserved = l.worldReserved
    BY <1>2 DEF Ledger
  <2>4. g.ledger = k /\ g.done = FALSE
    BY <2>1
  <2> HIDE DEF k
  <2>5. LedgerOK(k)
    BY <1>2, <2>2, <2>3 DEF LedgerOK
  <2>6. SameWorldsOf(l, k)
    BY <2>3 DEF SameWorldsOf
  <2>7. k.fullCalls <= l.fullCalls + 1 /\ k.deltaCalls <= l.deltaCalls + 1
    BY <1>2, <2>3
  <2> QED
    BY <2>3, <2>4, <2>5, <2>6, <2>7 DEF GenerationOK
<1>4. CASE Permitted(l, delta)
  <2> DEFINE limit == NodeLimit(l, requested)
             visited == Least(tree, limit)
             reserved == ReserveGeneration(l, delta)
             after == Commit(reserved, delta, limit, visited)
  <2>1. limit \in Nat /\ limit <= l.envelope.nodes - l.nodes
    BY <1>2, <1>4 DEF Permitted, Remaining, NodeLimit
  <2> HIDE DEF limit
  <2>2. visited \in Nat /\ visited <= limit
    BY <2>1 DEF Least
  <2> HIDE DEF visited
  <2> DEFINE full == IF delta THEN l.fullCalls ELSE l.fullCalls + 1
             deltas == IF delta THEN l.deltaCalls + 1 ELSE l.deltaCalls
  <2>3. /\ full \in Nat /\ deltas \in Nat
        /\ full <= l.fullCalls + 1 /\ deltas <= l.deltaCalls + 1
        /\ delta => full = l.fullCalls
        /\ ~ delta => deltas = l.deltaCalls
        /\ full <= l.envelope.fullCalls /\ deltas <= l.envelope.deltaCalls
    BY <1>2, <1>4 DEF LedgerOK, Permitted, CallsLeft
  <2>4. reserved = [l EXCEPT !.permitOut = TRUE, !.deltaCalls = deltas, !.fullCalls = full]
    BY <1>2, <1>4 DEF ReserveGeneration, Ledger
  <2> HIDE DEF full, deltas, reserved
  <2>5. /\ reserved \in Ledger /\ reserved.permitOut
        /\ reserved.invariantFailure = l.invariantFailure
        /\ reserved.nodes = l.nodes /\ reserved.envelope = l.envelope
        /\ reserved.fullCalls = full /\ reserved.deltaCalls = deltas
        /\ reserved.completed = l.completed /\ reserved.discarded = l.discarded
        /\ reserved.worldReserved = l.worldReserved /\ reserved.deltaNodes = l.deltaNodes
    BY <1>2, <2>3, <2>4 DEF Ledger
  <2> DEFINE total == reserved.nodes + visited
  <2>6. total \in Nat /\ total <= l.envelope.nodes /\ ~ (visited > limit)
    BY <1>2, <2>1, <2>2, <2>5
  <2> DEFINE spent == IF delta THEN reserved.deltaNodes + visited ELSE reserved.deltaNodes
             spending == reserved.exhausted \/ total = l.envelope.nodes
  <2>7. spent \in Nat /\ spending \in BOOLEAN
    BY <1>2, <2>2, <2>5 DEF Ledger
  <2>8. after = [reserved EXCEPT !.permitOut = FALSE, !.nodes = total,
                                 !.deltaNodes = spent, !.exhausted = spending]
    <3>1. reserved.invariantFailure = FALSE
      BY <1>2, <2>5 DEF Ledger
    <3>2. (visited > limit \/ total > reserved.envelope.nodes) = FALSE
      BY <1>2, <2>5, <2>6
    <3>3. after = [reserved EXCEPT !.permitOut = FALSE, !.nodes = total,
                                   !.deltaNodes = spent, !.invariantFailure = FALSE,
                                   !.exhausted = spending]
      BY <2>5, <3>1, <3>2 DEF Commit, Ledger
    <3> HIDE DEF after, total, spent, spending
    <3> QED
      BY <2>5, <3>1, <3>3 DEF Ledger
  <2> HIDE DEF total, spent, spending, after
  <2>9. /\ after \in Ledger /\ after.permitOut = FALSE
        /\ after.invariantFailure = reserved.invariantFailure
        /\ after.nodes = total /\ after.fullCalls = reserved.fullCalls
        /\ after.deltaCalls = reserved.deltaCalls /\ after.envelope = reserved.envelope
        /\ after.completed = reserved.completed /\ after.discarded = reserved.discarded
        /\ after.worldReserved = reserved.worldReserved
    BY <2>5, <2>6, <2>7, <2>8 DEF Ledger
  <2>10. g.ledger = after /\ g.done \in BOOLEAN
    BY <1>1, <1>4 DEF Generation, limit, visited, reserved, after
  <2> QED
    BY <1>2, <2>3, <2>5, <2>6, <2>9, <2>10 DEF LedgerOK, SameWorldsOf, GenerationOK
<1> QED
  BY <1>3, <1>4

LEMMA FullGeneration ==
    ASSUME NEW l, LedgerOK(l), NEW requested \in Nat, NEW tree \in Nat
    PROVE  GenerationOK(l, FALSE, Generation(l, FALSE, requested, tree))
BY FALSE \in BOOLEAN, GenerationEffect, Zenon

LEMMA DeltaGeneration ==
    ASSUME NEW l, LedgerOK(l), NEW requested \in Nat, NEW tree \in Nat
    PROVE  GenerationOK(l, TRUE, Generation(l, TRUE, requested, tree))
BY TRUE \in BOOLEAN, GenerationEffect, Zenon

LEMMA OneMoreRow == \A m, n \in Nat : (m + 1) * n = m * n + n /\ m * n \in Nat
OBVIOUS

LEMMA SameWorldsTransitive ==
    \A k, l, m : SameWorldsOf(k, l) /\ SameWorldsOf(l, m) => SameWorldsOf(k, m)
BY Zenon DEF SameWorldsOf

LEMMA CostType == ASSUME NEW l, LedgerOK(l) PROVE Cost(l) \in Nat
<1>1. l.nodes \in Nat /\ l.revalidations \in Nat
  BY DEF LedgerOK, Ledger
<1>2. RevalidationWeight \in Nat
  BY InputsAssumption
<1> QED
  BY <1>1, <1>2 DEF Cost

LEMMA PolicyType ==
    ASSUME NEW p \in Policies
    PROVE  /\ p.adaptive \in BOOLEAN /\ p.referenceReplies \in BOOLEAN /\ p.eliminate \in BOOLEAN
           /\ p.worlds \in Nat /\ p.minimumWorlds \in Nat /\ p.maxWorlds \in Nat
           /\ p.candidateCap \in Nat \ {0} /\ p.allowance \in Nat
           /\ p.rootNodeLimit \in Nat /\ p.opponentNodeLimit \in Nat
           /\ Planned(p) \in Nat /\ SizeEnvelope(p) \in Envelope
           /\ SizeEnvelope(p).worlds = Planned(p)
           /\ p.worlds > 0 => Planned(p) > 0
<1>1. p \in Policy
  BY InputsAssumption
<1>2. /\ p.adaptive \in BOOLEAN /\ p.referenceReplies \in BOOLEAN /\ p.eliminate \in BOOLEAN
      /\ p.worlds \in Nat /\ p.minimumWorlds \in Nat /\ p.maxWorlds \in Nat
      /\ p.candidateCap \in Nat \ {0} /\ p.allowance \in Nat
      /\ p.rootNodeLimit \in Nat /\ p.opponentNodeLimit \in Nat
      /\ p.maxMovegenNodes \in Nat /\ p.credits \in Nat
  BY <1>1 DEF Policy
<1>3. Planned(p) \in Nat /\ (p.worlds > 0 => Planned(p) > 0)
  BY <1>2, PoliciesAssumption DEF Planned
<1>4. 1 + Planned(p) * p.candidateCap \in Nat /\ Planned(p) * p.candidateCap \in Nat
  BY <1>2, <1>3
<1>5. SizeEnvelope(p) \in Envelope /\ SizeEnvelope(p).worlds = Planned(p)
  BY <1>2, <1>3, <1>4, InputsAssumption DEF SizeEnvelope, Envelope
<1> QED
  BY <1>2, <1>3, <1>5

\* Reserving a world, and giving it back or keeping it.
LEMMA WorldEffect ==
    ASSUME NEW l, LedgerOK(l)
    PROVE  /\ WorldsLeft(l) =>
                /\ LedgerOK(ReserveWorld(l)) /\ ReserveWorld(l).worldReserved
                /\ ReserveWorld(l) = [l EXCEPT !.worldReserved = TRUE]
                /\ ReserveWorld(l).completed = l.completed
                /\ ReserveWorld(l).discarded = l.discarded
           /\ l.worldReserved =>
                /\ LedgerOK(DiscardWorld(l)) /\ ~ DiscardWorld(l).worldReserved
                /\ DiscardWorld(l).completed = l.completed
                /\ DiscardWorld(l).discarded = l.discarded + 1
           /\ l.worldReserved /\ l.completed < l.envelope.worlds =>
                /\ LedgerOK(CommitWorld(l)) /\ ~ CommitWorld(l).worldReserved
                /\ CommitWorld(l).completed = l.completed + 1
                /\ CommitWorld(l).discarded = l.discarded
           /\ \A k \in {ReserveWorld(l), DiscardWorld(l), CommitWorld(l)} :
                /\ k.envelope = l.envelope
                /\ k.fullCalls = l.fullCalls /\ k.deltaCalls = l.deltaCalls
<1>1. /\ l \in Ledger /\ l.permitOut = FALSE /\ l.invariantFailure = FALSE
      /\ l.exhausted \in BOOLEAN
      /\ l.completed \in Nat /\ l.discarded \in Nat /\ l.envelope.worlds \in Nat
  BY DEF LedgerOK, Ledger, Envelope
<1>2. ASSUME WorldsLeft(l)
      PROVE  /\ LedgerOK(ReserveWorld(l)) /\ ReserveWorld(l).worldReserved
             /\ ReserveWorld(l) = [l EXCEPT !.worldReserved = TRUE]
             /\ ReserveWorld(l).completed = l.completed
             /\ ReserveWorld(l).discarded = l.discarded
  <2> DEFINE k == [l EXCEPT !.worldReserved = TRUE]
  <2>1. ReserveWorld(l) = k
    BY <1>2 DEF ReserveWorld, WorldsLeft
  <2>2. /\ k \in Ledger /\ k.worldReserved = TRUE
        /\ k.permitOut = l.permitOut /\ k.invariantFailure = l.invariantFailure
        /\ k.envelope = l.envelope /\ k.nodes = l.nodes /\ k.completed = l.completed
        /\ k.fullCalls = l.fullCalls /\ k.deltaCalls = l.deltaCalls
        /\ k.discarded = l.discarded
    BY <1>1 DEF Ledger
  <2> HIDE DEF k
  <2>3. LedgerOK(k)
    BY <1>1, <2>2 DEF LedgerOK
  <2> QED
    BY <2>1, <2>2, <2>3 DEF k
<1>3. ASSUME l.worldReserved
      PROVE  /\ LedgerOK(DiscardWorld(l)) /\ ~ DiscardWorld(l).worldReserved
             /\ DiscardWorld(l).completed = l.completed
             /\ DiscardWorld(l).discarded = l.discarded + 1
  <2> DEFINE n == l.discarded + 1
             k == [l EXCEPT !.worldReserved = FALSE, !.discarded = n]
  <2>1. DiscardWorld(l) = k /\ n \in Nat /\ n = l.discarded + 1
    BY <1>1, <1>3 DEF DiscardWorld, Ledger
  <2> HIDE DEF n
  <2>2. /\ k \in Ledger /\ k.worldReserved = FALSE
        /\ k.permitOut = l.permitOut /\ k.invariantFailure = l.invariantFailure
        /\ k.envelope = l.envelope /\ k.nodes = l.nodes /\ k.completed = l.completed
        /\ k.fullCalls = l.fullCalls /\ k.deltaCalls = l.deltaCalls
        /\ k.discarded = l.discarded + 1
    BY <1>1, <2>1 DEF Ledger
  <2> HIDE DEF k
  <2>3. LedgerOK(k)
    BY <1>1, <2>2 DEF LedgerOK
  <2> QED
    BY <2>1, <2>2, <2>3
<1>4. ASSUME l.worldReserved, l.completed < l.envelope.worlds
      PROVE  /\ LedgerOK(CommitWorld(l)) /\ ~ CommitWorld(l).worldReserved
             /\ CommitWorld(l).completed = l.completed + 1
             /\ CommitWorld(l).discarded = l.discarded
  <2> DEFINE last == l.exhausted \/ l.completed + 1 = l.envelope.worlds
             n == l.completed + 1
             k == [l EXCEPT !.worldReserved = FALSE, !.completed = n, !.exhausted = last]
  <2>1. CommitWorld(l) = k /\ last \in BOOLEAN /\ n \in Nat /\ n = l.completed + 1
    BY <1>1, <1>4 DEF CommitWorld, Ledger
  <2> HIDE DEF last, n
  <2>2. /\ k \in Ledger /\ k.worldReserved = FALSE
        /\ k.permitOut = l.permitOut /\ k.invariantFailure = l.invariantFailure
        /\ k.envelope = l.envelope /\ k.nodes = l.nodes /\ k.completed = l.completed + 1
        /\ k.fullCalls = l.fullCalls /\ k.deltaCalls = l.deltaCalls
        /\ k.discarded = l.discarded
    BY <1>1, <2>1 DEF Ledger
  <2> HIDE DEF k
  <2>3. LedgerOK(k)
    BY <1>1, <1>4, <2>2 DEF LedgerOK
  <2> QED
    BY <2>1, <2>2, <2>3
<1>5. ASSUME NEW k \in {ReserveWorld(l), DiscardWorld(l), CommitWorld(l)}
      PROVE  /\ k.envelope = l.envelope
             /\ k.fullCalls = l.fullCalls /\ k.deltaCalls = l.deltaCalls
  BY <1>1 DEF ReserveWorld, DiscardWorld, CommitWorld, Ledger, WorldsLeft
<1> QED
  BY <1>2, <1>3, <1>4, <1>5

-----------------------------------------------------------------------------
(* The invariant of the search                                             *)

Reasons == {"none", "ScheduleComplete", "SingleCandidate", "Indifferent",
            "CreditsExhausted", "DeckExhausted", "IncompleteWorld"}

Charge == [base : Int, observing : Int, delta : Int, rows : Nat, index : Nat]

Typed ==
    /\ policy \in Policies
    /\ pc \in {"root", "world", "observe", "done"}
    /\ complete \in BOOLEAN
    /\ world \in 0 .. Planned(policy)
    /\ index \in [complete : BOOLEAN, size : IndexSizes \cup {0}]
    /\ start \in [atStart : Nat, afterBase : Nat, delta : Nat]
    /\ log \in Seq(Charge) /\ Len(log) = race.batches
    /\ stop \in Reasons
    /\ verdict \in {"none", "Complete", "RootLimited", "WorkLimited"}

Books ==
    /\ ledger.completed = race.batches
    /\ ledger.worldReserved <=> pc = "observe"
    /\ pc # "done" => ledger.completed + ledger.discarded = world
    /\ pc = "done" => ledger.completed + ledger.discarded \in {world, world + 1}

Placed == {row[i].candidate : i \in DOMAIN row}

\* The row of a world holds one observation of each candidate it measured.
RowOK ==
    /\ row \in Rows
    /\ \A i \in DOMAIN row : row[i].world = world
    /\ Placed \subseteq race.active
    /\ Cardinality(Placed) = Len(row)
    /\ pc # "observe" => row = <<>>

\* Once the root is enumerated, the envelope is the policy's and somebody is
\* in the race.
Started ==
    IF pc = "root"
      THEN world = 0 /\ log = <<>> /\ index = NoIndex
      ELSE /\ ledger.envelope = SizeEnvelope(policy)
           /\ race.active # {} /\ Cardinality(race.active) <= policy.candidateCap

\* The calls of the kind that is counted by the candidate: one per observation
\* of this world, and a full row of them for each world before.
CallsPaced ==
    pc \in {"world", "observe"} =>
        IF policy.referenceReplies
          THEN /\ ~ index.complete
               /\ ledger.fullCalls <= 1 + world * policy.candidateCap + Len(row)
          ELSE ledger.deltaCalls <= world * policy.candidateCap + Len(row)

Underway ==
    pc \in {"world", "observe"} =>
        /\ policy.worlds > 0
        /\ pc = "observe" => world < Planned(policy)
        /\ ~ policy.adaptive =>
              /\ ledger.discarded = 0
              /\ policy.eliminate /\ race.batches > 0 => Cardinality(race.active) # 1

Undecided == pc # "done" => verdict = "none" /\ stop = "none"

SearchInv ==
    /\ Typed
    /\ LedgerOK(ledger)
    /\ RaceOK(race)
    /\ Books
    /\ RowOK
    /\ Started
    /\ CallsPaced
    /\ Underway
    /\ Undecided
    /\ CompleteIsSettled

LEMMA SearchParts ==
    ASSUME SearchInv
    PROVE  /\ Typed /\ LedgerOK(ledger) /\ RaceOK(race)
           /\ ledger \in Ledger /\ ledger.completed \in Nat /\ ledger.discarded \in Nat
           /\ ledger.fullCalls \in Nat /\ ledger.deltaCalls \in Nat
           /\ Cost(ledger) \in Nat /\ ledger.deltaNodes \in Nat
           /\ race.batches \in Nat /\ world \in Nat /\ world <= Planned(policy)
           /\ index.complete \in BOOLEAN /\ index.size \in Nat
           /\ Cardinality(race.active) \in Nat /\ IsFiniteSet(race.active)
           /\ Len(row) \in Nat
<1>1. Typed /\ LedgerOK(ledger) /\ RaceOK(race) /\ RowOK
  BY DEF SearchInv
<1>2. /\ ledger \in Ledger /\ ledger.completed \in Nat /\ ledger.discarded \in Nat
      /\ ledger.fullCalls \in Nat /\ ledger.deltaCalls \in Nat
      /\ ledger.nodes \in Nat /\ ledger.revalidations \in Nat /\ ledger.deltaNodes \in Nat
  BY <1>1 DEF LedgerOK, Ledger
<1>3. Cost(ledger) \in Nat
  BY <1>2, InputsAssumption DEF Cost
<1>4. race.batches \in Nat /\ IsFiniteSet(race.active) /\ Cardinality(race.active) \in Nat
  BY <1>1, RaceParts, FS_CardinalityType DEF RaceOK
<1>5. world \in Nat /\ world <= Planned(policy)
  BY <1>1, PolicyType DEF Typed
<1>6. index.complete \in BOOLEAN /\ index.size \in Nat
  <2>1. IndexSizes \subseteq Nat
    BY InputsAssumption
  <2>2. index \in [complete : BOOLEAN, size : IndexSizes \cup {0}]
    BY <1>1 DEF Typed
  <2>3. index.complete \in BOOLEAN /\ index.size \in IndexSizes \cup {0}
    BY <2>2
  <2>4. \A size \in IndexSizes \cup {0} : size \in Nat
    BY <2>1
  <2> QED
    BY <2>3, <2>4, Zenon
<1>7. Len(row) \in Nat
  BY <1>1 DEF RowOK, Rows
<1> QED
  BY <1>1, <1>2, <1>3, <1>4, <1>5, <1>6, <1>7

\* What is still to be measured is what the row has not got.
LEMMA RowCount ==
    ASSUME SearchInv
    PROVE  /\ Cardinality(Unmeasured) = Cardinality(race.active) - Len(row)
           /\ Len(row) <= Cardinality(race.active)
           /\ Unmeasured # {} => Len(row) < Cardinality(race.active)
           /\ IsFiniteSet(Placed)
<1>1. /\ IsFiniteSet(race.active) /\ Cardinality(race.active) \in Nat /\ Len(row) \in Nat
      /\ Placed \subseteq race.active /\ Cardinality(Placed) = Len(row)
  BY SearchParts DEF SearchInv, RowOK
<1>2. Unmeasured = race.active \ Placed
  BY DEF Unmeasured, Placed
<1> HIDE DEF Placed
<1>3. Placed \in SUBSET race.active /\ race.active \cap Placed = Placed
  BY <1>1
<1>4. /\ IsFiniteSet(Placed)
      /\ IsFiniteSet(race.active \ Placed)
      /\ Cardinality(race.active \ Placed)
           = Cardinality(race.active) - Cardinality(race.active \cap Placed)
  BY <1>1, <1>3, FS_Subset, FS_Difference
<1>5. IsFiniteSet(Unmeasured)
      /\ Cardinality(Unmeasured) = Cardinality(race.active) - Cardinality(Placed)
  BY <1>2, <1>3, <1>4
<1>6. Cardinality(Unmeasured) \in Nat
  BY <1>5, FS_CardinalityType
<1>7. Unmeasured # {} => Cardinality(Unmeasured) # 0
  BY <1>5, FS_EmptySet
<1> QED
  BY <1>1, <1>4, <1>5, <1>6, <1>7

LEMMA StopEffect ==
    ASSUME NEW reason \in Reasons, Stops(reason)
    PROVE  /\ pc' = "done" /\ stop' \in Reasons
           /\ verdict' \in {"none", "Complete", "RootLimited", "WorkLimited"}
           /\ verdict' = "Complete" =>
                 complete' /\ ledger'.completed > 0 /\ Resolved(reason)
<1>1. pc' = "done" /\ stop' = reason /\ verdict' = Completion(reason)
  BY DEF Stops
<1>2. CASE ~ complete'
  BY <1>1, <1>2 DEF Completion
<1>3. CASE complete' /\ ledger'.completed > 0 /\ Resolved(reason)
  BY <1>1, <1>3 DEF Completion
<1>4. CASE complete' /\ ~ (ledger'.completed > 0 /\ Resolved(reason))
  BY <1>1, <1>4 DEF Completion
<1> QED
  BY <1>2, <1>3, <1>4

-----------------------------------------------------------------------------
(* The steps that leave the loop                                           *)

LEMMA StopReason ==
    /\ ReasonToStop \in Reasons
    /\ ReasonToStop # "none" => policy.adaptive
    /\ ReasonToStop = "SingleCandidate" => Cardinality(race.active) <= 1
    /\ ReasonToStop = "Indifferent" => Indifferent(race, policy.margin)
<1> DEFINE dear == Cost(ledger) + ProjectedWorldCost > policy.credits
<1>1. ReasonToStop =
    IF ~ policy.adaptive \/ world = 0 THEN "none"
    ELSE IF world < policy.minimumWorlds
      THEN IF Cost(ledger) >= policy.credits THEN "CreditsExhausted" ELSE "none"
    ELSE IF Cardinality(race.active) <= 1 THEN "SingleCandidate"
    ELSE IF Indifferent(race, policy.margin) THEN "Indifferent"
    ELSE IF dear THEN "CreditsExhausted"
    ELSE "none"
  BY DEF ReasonToStop
<1> HIDE DEF dear
<1> QED
  BY <1>1 DEF Reasons

\* Where the loop is left between two worlds, what matters is the verdict.
LEMMA LeftBetween ==
    ASSUME SearchInv, pc = "world", NEW reason \in Reasons, Stops(reason),
           UNCHANGED <<policy, ledger, race, complete, world, worldVars, log>>,
           policy.worlds > 0 /\ complete /\ ledger.completed > 0 /\ Resolved(reason) =>
             IF policy.adaptive
               THEN Cardinality(race.active) = 1 \/ Indifferent(race, policy.margin)
               ELSE race.batches = policy.worlds \/ Cardinality(race.active) = 1
    PROVE  SearchInv'
<1>1. /\ pc' = "done" /\ stop' \in Reasons
      /\ verdict' \in {"none", "Complete", "RootLimited", "WorkLimited"}
      /\ verdict' = "Complete" => complete' /\ ledger'.completed > 0 /\ Resolved(reason)
  BY StopEffect
<1>2. Typed' /\ LedgerOK(ledger)' /\ RaceOK(race)'
  BY <1>1 DEF SearchInv, Typed, worldVars
<1>3. Books'
  BY <1>1 DEF SearchInv, Books, worldVars
<1>4. RowOK' /\ Started'
  BY <1>1 DEF SearchInv, RowOK, Placed, Started, worldVars
<1>5. CallsPaced' /\ Underway' /\ Undecided'
  BY <1>1 DEF CallsPaced, Underway, Undecided
<1>6. CompleteIsSettled'
  <2> SUFFICES ASSUME verdict' = "Complete", policy.worlds > 0
               PROVE  /\ complete /\ race.batches > 0
                      /\ IF policy.adaptive
                           THEN Cardinality(race.active) = 1 \/ Indifferent(race, policy.margin)
                           ELSE /\ ledger.discarded = 0
                                /\ race.batches = policy.worlds
                                     \/ Cardinality(race.active) = 1
    BY DEF CompleteIsSettled
  <2>1. complete /\ ledger.completed > 0 /\ Resolved(reason)
    BY <1>1
  <2>2. ledger.completed = race.batches /\ (~ policy.adaptive => ledger.discarded = 0)
    BY DEF SearchInv, Books, Underway
  <2> QED
    BY <2>1, <2>2
<1> QED
  BY <1>2, <1>3, <1>4, <1>5, <1>6 DEF SearchInv

LEMMA StopBeforeWorldKeeps == ASSUME SearchInv, StopBeforeWorld PROVE SearchInv'
<1>1. /\ pc = "world" /\ Stops(ReasonToStop) /\ policy.adaptive /\ ReasonToStop \in Reasons
      /\ UNCHANGED <<policy, ledger, race, complete, world, worldVars, log>>
  BY StopReason DEF StopBeforeWorld
<1>2. Resolved(ReasonToStop) =>
        Cardinality(race.active) = 1 \/ Indifferent(race, policy.margin)
  <2>1. Cardinality(race.active) \in Nat /\ Cardinality(race.active) # 0
    BY <1>1, SearchParts, FS_EmptySet DEF SearchInv, Started
  <2>2. Resolved(ReasonToStop) => ReasonToStop \in {"SingleCandidate", "Indifferent"}
    BY <1>1 DEF Resolved
  <2> QED
    BY <2>1, <2>2, StopReason
<1> QED
  BY <1>1, <1>2, LeftBetween

LEMMA EndOfDeckKeeps == ASSUME SearchInv, EndOfDeck PROVE SearchInv'
<1> DEFINE reason == IF policy.adaptive THEN "DeckExhausted" ELSE "ScheduleComplete"
<1>1. /\ pc = "world" /\ Stops(reason) /\ reason \in Reasons
      /\ UNCHANGED <<policy, ledger, race, complete, world, worldVars, log>>
  BY DEF EndOfDeck, Reasons
<1>2. Resolved(reason) => /\ ~ policy.adaptive
                          /\ race.batches = policy.worlds \/ Cardinality(race.active) = 1
  BY <1>1 DEF Resolved, SearchInv, Books
<1> HIDE DEF reason
<1> QED
  BY <1>1, <1>2, LeftBetween

-----------------------------------------------------------------------------
(* The root                                                                *)

LEMMA NewRaceOK ==
    ASSUME NEW n \in Nat, NEW minimum \in Nat, NEW allowance \in Nat,
           NEW r, r = NewRace(n, minimum, allowance)
    PROVE  /\ RaceOK(r) /\ r.batches = 0 /\ Cardinality(r.active) = n
           /\ n > 0 => r.active # {}
<1> DEFINE all == 0 .. n - 1
           values == [c \in all |-> <<>>]
<1>1. all \in SUBSET Nat /\ IsFiniteSet(all) /\ Cardinality(all) = n /\ (n > 0 => all # {})
  <2>1. IsFiniteSet(all) /\ Cardinality(all) = IF 0 > n - 1 THEN 0 ELSE n - 1 - 0 + 1
    BY FS_Interval
  <2>2. n > 0 => 0 \in all
    OBVIOUS
  <2>3. Cardinality(all) = n
    <3> HIDE DEF all
    <3> QED
      BY <2>1
  <2>4. all \in SUBSET Nat
    OBVIOUS
  <2> HIDE DEF all
  <2> QED
    BY <2>1, <2>2, <2>3, <2>4
<1>2. /\ r = [active |-> all, values |-> values, batches |-> 0, rounds |-> 0,
              minimum |-> minimum, allowance |-> allowance, invariantFailure |-> FALSE]
      /\ DOMAIN values = all /\ \A c \in all : values[c] = <<>>
  BY DEF NewRace
<1>3. values \in MeasuredValues
  <2>1. <<>> \in Measurements
    BY DEF Measurements
  <2>2. values \in [all -> Measurements]
    BY <2>1
  <2> QED
    BY <1>1, <2>2 DEF MeasuredValues
<1> HIDE DEF all, values
<1>4. r \in Races
  BY <1>1, <1>2, <1>3 DEF Races
<1>5. \A c \in DOMAIN r.values : Len(r.values[c]) = 0
  BY <1>2
<1>6. Paired(r)
  <2> SUFFICES ASSUME NEW c \in DOMAIN r.values, NEW d \in DOMAIN r.values
               PROVE  1 .. Pairs(r, c, d) = {}
    BY DEF Paired
  <2>1. Pairs(r, c, d) = 0
    BY <1>5 DEF Pairs, Least
  <2> QED
    BY <2>1
<1> QED
  BY <1>1, <1>2, <1>4, <1>5, <1>6 DEF RaceOK

LEMMA NewLedgerOK ==
    ASSUME NEW e \in Envelope, NEW l, l = NewLedger(e)
    PROVE  /\ LedgerOK(l) /\ l.envelope = e /\ l.worldReserved = FALSE
           /\ l.completed = 0 /\ l.discarded = 0 /\ l.fullCalls = 0 /\ l.deltaCalls = 0
<1>1. l \in Ledger
  BY DEF NewLedger, Ledger
<1>2. /\ e.fullCalls \in Nat /\ e.deltaCalls \in Nat /\ e.nodes \in Nat /\ e.worlds \in Nat
  BY DEF Envelope
<1> QED
  BY <1>1, <1>2 DEF NewLedger, LedgerOK

LEMMA InitHolds == ASSUME Init PROVE SearchInv
<1> DEFINE none == [fullCalls |-> 0, deltaCalls |-> 0, nodes |-> 0, worlds |-> 0]
<1>1. none \in Envelope /\ ledger = NewLedger(none)
  BY DEF Init, Envelope
<1> HIDE DEF none
<1>2. LedgerOK(ledger) /\ ledger.completed = 0 /\ ledger.discarded = 0
      /\ ledger.worldReserved = FALSE
  BY <1>1, NewLedgerOK
<1>3. RaceOK(race) /\ race.batches = 0
  BY NewRaceOK DEF Init
<1>4. Typed
  <2>1. policy \in Policies /\ Planned(policy) \in Nat
    BY PolicyType DEF Init
  <2>2. log \in Seq(Charge) /\ Len(log) = race.batches
    BY <1>3 DEF Init
  <2>3. index \in [complete : BOOLEAN, size : IndexSizes \cup {0}]
    BY DEF Init, NoIndex
  <2>4. start \in [atStart : Nat, afterBase : Nat, delta : Nat]
    BY DEF Init, NoCost
  <2>5. /\ pc = "root" /\ complete = FALSE /\ world = 0 /\ stop = "none" /\ verdict = "none"
    BY DEF Init
  <2>6. world \in 0 .. Planned(policy)
    BY <2>1, <2>5
  <2>7. stop \in Reasons
    BY <2>5 DEF Reasons
  <2> QED
    BY <2>1, <2>2, <2>3, <2>4, <2>5, <2>6, <2>7, Zenon DEF Typed
<1>5. Books
  BY <1>2, <1>3 DEF Init, Books
<1>6. RowOK
  <2>1. row = <<>> /\ Placed = {} /\ pc = "root"
    BY DEF Init, Placed
  <2>2. row \in Rows /\ Len(row) = 0 /\ DOMAIN row = {}
    BY <2>1 DEF Rows
  <2> HIDE DEF Placed
  <2> QED
    BY <2>1, <2>2, FS_EmptySet DEF RowOK
<1>7. Started /\ CallsPaced /\ Underway /\ Undecided /\ CompleteIsSettled
  BY DEF Init, Started, CallsPaced, Underway, Undecided, CompleteIsSettled
<1> QED
  BY <1>2, <1>3, <1>4, <1>5, <1>6, <1>7 DEF SearchInv

LEMMA EnumerateRootKeeps ==
    ASSUME SearchInv, NEW tree \in TreeSizes, NEW n \in 1 .. policy.candidateCap,
           EnumerateRoot(tree, n)
    PROVE  SearchInv'
<1> DEFINE fresh == NewLedger(SizeEnvelope(policy))
           generation == Generation(fresh, FALSE, policy.rootNodeLimit, tree)
           minimum == IF policy.eliminate THEN policy.minimumWorlds ELSE Planned(policy) + 1
<1>1. /\ pc = "root" /\ ledger' = generation.ledger /\ complete' = generation.done
      /\ race' = NewRace(n, minimum, policy.allowance)
      /\ UNCHANGED <<policy, world, index, row, start, log>>
  BY DEF EnumerateRoot
<1>2. \/ /\ policy.worlds = 0 /\ pc' = "done" /\ stop' = "ScheduleComplete"
         /\ verdict' \in {"Complete", "RootLimited"}
      \/ /\ policy.worlds # 0 /\ pc' = "world" /\ stop' = stop /\ verdict' = verdict
  <2>1. CASE policy.worlds = 0
    BY <2>1 DEF EnumerateRoot
  <2>2. CASE policy.worlds # 0
    BY <2>2 DEF EnumerateRoot
  <2> QED
    BY <2>1, <2>2
<1>3. /\ Typed /\ world = 0 /\ log = <<>> /\ row = <<>> /\ RowOK
      /\ verdict = "none" /\ stop = "none" /\ policy \in Policies /\ index = NoIndex
  BY <1>1 DEF SearchInv, Started, RowOK, Undecided, Typed
<1>4. /\ policy.worlds \in Nat /\ policy.candidateCap \in Nat /\ policy.allowance \in Nat
      /\ Planned(policy) \in Nat /\ policy.rootNodeLimit \in Nat /\ minimum \in Nat
      /\ SizeEnvelope(policy) \in Envelope /\ tree \in Nat
      /\ policy.referenceReplies \in BOOLEAN /\ index.complete \in BOOLEAN
  BY <1>3, PolicyType, SearchParts, InputsAssumption
<1>5. /\ LedgerOK(fresh) /\ fresh.envelope = SizeEnvelope(policy) /\ fresh.worldReserved = FALSE
      /\ fresh.completed = 0 /\ fresh.discarded = 0
      /\ fresh.fullCalls = 0 /\ fresh.deltaCalls = 0
  BY <1>4, NewLedgerOK
<1> HIDE DEF fresh, minimum
<1>6. /\ complete' \in BOOLEAN /\ LedgerOK(ledger') /\ SameWorldsOf(fresh, ledger')
      /\ ledger'.fullCalls <= 1 /\ ledger'.deltaCalls = 0
  <2>1. PICK g : g = Generation(fresh, FALSE, policy.rootNodeLimit, tree)
    OBVIOUS
  <2>2. /\ g.done \in BOOLEAN /\ LedgerOK(g.ledger) /\ SameWorldsOf(fresh, g.ledger)
        /\ g.ledger.fullCalls <= fresh.fullCalls + 1
        /\ g.ledger.deltaCalls = fresh.deltaCalls
    <3>1. policy.rootNodeLimit \in Nat /\ tree \in Nat
      BY <1>4
    <3>2. LedgerOK(fresh)
      BY <1>5
    <3> QED
      BY <2>1, <3>1, <3>2, FullGeneration DEF GenerationOK
  <2>3. ledger' = g.ledger /\ complete' = g.done
    BY <1>1, <2>1
  <2> QED
    BY <1>5, <2>2, <2>3
<1>7. /\ RaceOK(race') /\ race'.batches = 0 /\ Cardinality(race'.active) = n
      /\ race'.active # {}
  <2>1. n \in Nat /\ n > 0
    BY <1>4
  <2>2. race' = NewRace(n, minimum, policy.allowance)
    BY <1>1
  <2> HIDE DEF generation
  <2>3. minimum \in Nat /\ policy.allowance \in Nat
    BY <1>4
  <2> QED
    BY <2>1, <2>2, <2>3, NewRaceOK
<1> HIDE DEF generation
<1>8. pc' \in {"world", "done"} /\ stop' \in Reasons
      /\ verdict' \in {"none", "Complete", "RootLimited", "WorkLimited"}
  BY <1>2, <1>3 DEF Reasons
<1>9. Typed'
  <2>1. log' \in Seq(Charge) /\ Len(log') = race'.batches
    BY <1>1, <1>3, <1>7
  <2> QED
    BY <1>1, <1>3, <1>6, <1>8, <2>1 DEF Typed
<1>10. LedgerOK(ledger)' /\ RaceOK(race)'
  BY <1>6, <1>7
<1>11. Books'
  BY <1>1, <1>3, <1>5, <1>6, <1>7, <1>8 DEF Books, SameWorldsOf
<1>12. RowOK'
  <2>1. Placed' = {} /\ row' = <<>>
    BY <1>1, <1>3 DEF Placed
  <2>2. row' \in Rows /\ DOMAIN row' = {} /\ Len(row') = 0
    BY <2>1 DEF Rows
  <2> HIDE DEF Placed
  <2> QED
    BY <2>1, <2>2, FS_EmptySet DEF RowOK
<1>13. Started'
  BY <1>1, <1>5, <1>6, <1>7, <1>8 DEF Started, SameWorldsOf
<1>14. CallsPaced'
  <2> SUFFICES IF policy.referenceReplies
                 THEN ~ index.complete /\ ledger'.fullCalls <= 1 + 0 * policy.candidateCap + 0
                 ELSE ledger'.deltaCalls <= 0 * policy.candidateCap + 0
    BY <1>1, <1>3 DEF CallsPaced
  <2>1. 0 * policy.candidateCap = 0 /\ index.complete = FALSE
    BY <1>3, <1>4 DEF NoIndex
  <2>2. ledger'.fullCalls \in Nat
    BY <1>6 DEF LedgerOK, Ledger
  <2> QED
    BY <1>6, <2>1, <2>2
<1>15. Underway'
  BY <1>1, <1>2, <1>4, <1>5, <1>6, <1>7 DEF Underway, SameWorldsOf
<1>16. Undecided' /\ CompleteIsSettled'
  BY <1>1, <1>2, <1>3 DEF Undecided, CompleteIsSettled
<1> QED
  BY <1>9, <1>10, <1>11, <1>12, <1>13, <1>14, <1>15, <1>16 DEF SearchInv

-----------------------------------------------------------------------------
(* The worlds                                                              *)

LEMMA EmptyRow ==
    ASSUME row = <<>>
    PROVE  row \in Rows /\ DOMAIN row = {} /\ Len(row) = 0 /\ Placed = {} /\ Cardinality(Placed) = 0
<1>1. Placed = {}
  BY DEF Placed
<1>2. row \in Rows /\ DOMAIN row = {} /\ Len(row) = 0
  BY DEF Rows
<1> HIDE DEF Placed
<1> QED
  BY <1>1, <1>2, FS_EmptySet

\* A world that is begun can be reserved.
LEMMA WorldsRemain ==
    ASSUME SearchInv, pc \in {"world", "observe"}, world < Planned(policy)
    PROVE  /\ ledger.completed < ledger.envelope.worlds
           /\ pc = "world" => WorldsLeft(ledger)
           /\ Planned(policy) \in Nat /\ policy \in Policies
<1>1. /\ ledger.envelope = SizeEnvelope(policy) /\ policy \in Policies
      /\ ledger.completed + ledger.discarded = world
      /\ ledger.worldReserved <=> pc = "observe"
  BY DEF SearchInv, Typed, Started, Books
<1>2. SizeEnvelope(policy).worlds = Planned(policy) /\ Planned(policy) \in Nat
  BY <1>1, PolicyType
<1>3. ledger.completed \in Nat /\ ledger.discarded \in Nat
  BY SearchParts
<1>4. ledger.completed < ledger.envelope.worlds
  BY <1>1, <1>2, <1>3
<1> QED
  BY <1>1, <1>2, <1>4 DEF WorldsLeft

LEMMA BeginWorldKeeps ==
    ASSUME SearchInv, NEW tree \in TreeSizes, NEW size \in IndexSizes, BeginWorld(tree, size)
    PROVE  SearchInv'
<1> DEFINE reserved == ReserveWorld(ledger)
           base == IF policy.referenceReplies
                     THEN [done |-> FALSE, ledger |-> reserved]
                     ELSE Generation(reserved, FALSE, policy.opponentNodeLimit, tree)
           replies == IF ~ policy.referenceReplies /\ Permitted(reserved, FALSE) THEN size ELSE 0
           overpriced == /\ policy.adaptive
                         /\ ~ policy.referenceReplies
                         /\ world >= policy.minimumWorlds
                         /\ Cost(base.ledger) + ProjectedObservations(replies) > policy.credits
<1>1. pc = "world" /\ world < Planned(policy) /\ WorldsLeft(ledger)
  BY WorldsRemain DEF BeginWorld
<1>2. /\ UNCHANGED <<policy, race, complete, world, log>>
      /\ IF overpriced
           THEN /\ ledger' = DiscardWorld(base.ledger)
                /\ UNCHANGED worldVars
                /\ Stops("CreditsExhausted")
           ELSE /\ ledger' = base.ledger
                /\ index' = [complete |-> base.done, size |-> replies]
                /\ UNCHANGED row
                /\ start' = [atStart |-> Cost(ledger), afterBase |-> Cost(base.ledger),
                             delta |-> ledger.deltaNodes]
                /\ pc' = "observe"
                /\ UNCHANGED <<stop, verdict>>
  BY <1>1 DEF BeginWorld
<1>3. /\ policy \in Policies /\ policy.referenceReplies \in BOOLEAN
      /\ policy.opponentNodeLimit \in Nat /\ tree \in Nat /\ Planned(policy) \in Nat
      /\ policy.candidateCap \in Nat
  BY PolicyType, InputsAssumption DEF SearchInv, Typed
<1>4. /\ LedgerOK(reserved) /\ reserved.worldReserved
      /\ reserved.completed = ledger.completed /\ reserved.discarded = ledger.discarded
      /\ reserved.envelope = ledger.envelope
      /\ reserved.fullCalls = ledger.fullCalls /\ reserved.deltaCalls = ledger.deltaCalls
  BY <1>1, SearchParts, WorldEffect
<1> HIDE DEF reserved
<1>5. /\ base.done \in BOOLEAN /\ LedgerOK(base.ledger) /\ SameWorldsOf(reserved, base.ledger)
      /\ policy.referenceReplies => /\ base.done = FALSE
                                    /\ base.ledger.fullCalls = reserved.fullCalls
      /\ ~ policy.referenceReplies => base.ledger.deltaCalls = reserved.deltaCalls
  <2>1. CASE policy.referenceReplies
    <3>1. base.done = FALSE /\ base.ledger = reserved
      BY <2>1
    <3> HIDE DEF base
    <3> QED
      BY <1>4, <2>1, <3>1 DEF SameWorldsOf
  <2>2. CASE ~ policy.referenceReplies
    <3>1. policy.opponentNodeLimit \in Nat /\ tree \in Nat /\ LedgerOK(reserved)
      BY <1>3, <1>4
    <3>2. base = Generation(reserved, FALSE, policy.opponentNodeLimit, tree)
      BY <2>2
    <3> HIDE DEF base
    <3> QED
      BY <2>2, <3>1, <3>2, FullGeneration DEF GenerationOK
  <2> QED
    BY <1>3, <2>1, <2>2
<1> DEFINE k == base.ledger
<1>6. /\ LedgerOK(k) /\ k.worldReserved /\ k.completed = ledger.completed
      /\ k.discarded = ledger.discarded /\ k.envelope = ledger.envelope
  BY <1>4, <1>5 DEF SameWorldsOf
<1>7. base.done \in BOOLEAN /\ replies \in IndexSizes \cup {0} /\ Cost(k) \in Nat
  <2>1. Cost(k) \in Nat
    BY <1>6, CostType
  <2> QED
    BY <1>5, <2>1
<1>8. /\ policy.referenceReplies => base.done = FALSE /\ k.fullCalls = ledger.fullCalls
      /\ ~ policy.referenceReplies => k.deltaCalls = ledger.deltaCalls
  BY <1>4, <1>5
<1>9. row = <<>> /\ row \in Rows /\ DOMAIN row = {} /\ Len(row) = 0
  BY <1>1, EmptyRow DEF SearchInv, RowOK
<1>10. /\ ledger.completed \in Nat /\ ledger.discarded \in Nat /\ world \in Nat
       /\ ledger.completed + ledger.discarded = world /\ ledger.completed = race.batches
  BY <1>1, SearchParts DEF SearchInv, Books
<1>11. CASE overpriced
  <2>1. /\ ledger' = DiscardWorld(k) /\ UNCHANGED worldVars /\ Stops("CreditsExhausted")
        /\ policy.adaptive
    BY <1>2, <1>11
  <2> HIDE DEF k, base, replies, overpriced
  <2>2. /\ pc' = "done" /\ stop' \in Reasons
        /\ verdict' \in {"none", "Complete", "RootLimited", "WorkLimited"}
        /\ verdict' # "Complete"
    <3>1. ~ Resolved("CreditsExhausted")
      BY <2>1, <1>2 DEF Resolved
    <3>2. "CreditsExhausted" \in Reasons
      BY DEF Reasons
    <3> QED
      BY <2>1, <3>1, <3>2, StopEffect
  <2>3. /\ LedgerOK(ledger') /\ ~ ledger'.worldReserved
        /\ ledger'.completed = ledger.completed /\ ledger'.discarded = ledger.discarded + 1
        /\ ledger'.envelope = ledger.envelope
    BY <1>6, <2>1, WorldEffect
  <2>4. Typed' /\ LedgerOK(ledger)' /\ RaceOK(race)'
    BY <1>2, <2>1, <2>2, <2>3 DEF SearchInv, Typed, worldVars
  <2>5. Books'
    BY <1>2, <1>10, <2>2, <2>3 DEF Books
  <2>6. RowOK' /\ Started'
    BY <1>1, <1>2, <2>1, <2>2, <2>3 DEF SearchInv, RowOK, Placed, Started, worldVars
  <2>7. CallsPaced' /\ Underway' /\ Undecided' /\ CompleteIsSettled'
    BY <2>2 DEF CallsPaced, Underway, Undecided, CompleteIsSettled
  <2> QED
    BY <2>4, <2>5, <2>6, <2>7 DEF SearchInv
<1>12. CASE ~ overpriced
  <2>1. /\ ledger' = k
        /\ index' = [complete |-> base.done, size |-> replies]
        /\ UNCHANGED row
        /\ start' = [atStart |-> Cost(ledger), afterBase |-> Cost(k), delta |-> ledger.deltaNodes]
        /\ pc' = "observe"
        /\ UNCHANGED <<stop, verdict>>
    BY <1>2, <1>12
  <2> HIDE DEF overpriced, replies, k
  <2>2. start' \in [atStart : Nat, afterBase : Nat, delta : Nat]
    BY <1>7, <2>1, SearchParts
  <2>3. index' \in [complete : BOOLEAN, size : IndexSizes \cup {0}]
    <3> HIDE DEF base
    <3> QED
      BY <1>7, <2>1
  <2> HIDE DEF base
  <2>4. Typed'
    BY <1>2, <2>1, <2>2, <2>3 DEF SearchInv, Typed
  <2>5. LedgerOK(ledger)' /\ RaceOK(race)'
    BY <1>2, <1>6, <2>1 DEF SearchInv
  <2>6. Books'
    BY <1>2, <1>6, <1>10, <2>1 DEF Books
  <2>7. RowOK'
    BY <1>1, <1>2, <2>1 DEF SearchInv, RowOK, Placed
  <2>8. Started'
    BY <1>1, <1>2, <1>6, <2>1 DEF SearchInv, Started
  <2>9. CallsPaced'
    BY <1>1, <1>2, <1>8, <2>1 DEF SearchInv, CallsPaced
  <2>10. Underway' /\ Undecided' /\ CompleteIsSettled'
    BY <1>1, <1>2, <1>6, <2>1 DEF SearchInv, Underway, Undecided, CompleteIsSettled
  <2> QED
    BY <2>4, <2>5, <2>6, <2>7, <2>8, <2>9, <2>10 DEF SearchInv
<1> QED
  BY <1>11, <1>12

\* A world that is given up: its observations are dropped and its calls spent.
LEMMA GiveUpKeeps ==
    ASSUME SearchInv, pc = "observe", Unmeasured # {},
           NEW k, LedgerOK(k), SameWorldsOf(ledger, k),
           IF policy.referenceReplies THEN k.fullCalls <= ledger.fullCalls + 1
                                      ELSE k.deltaCalls <= ledger.deltaCalls + 1,
           GiveUpWorld(k)
    PROVE  SearchInv'
<1>1. /\ ledger' = DiscardWorld(k)
      /\ index' = NoIndex /\ row' = <<>> /\ start' = NoCost
      /\ UNCHANGED <<policy, race, complete, log>>
      /\ IF policy.adaptive
           THEN world' = world + 1 /\ pc' = "world" /\ UNCHANGED <<stop, verdict>>
           ELSE UNCHANGED world /\ Stops("IncompleteWorld")
  BY DEF GiveUpWorld
<1>2. /\ world < Planned(policy) /\ policy \in Policies /\ Planned(policy) \in Nat
      /\ policy.worlds > 0 /\ policy.referenceReplies \in BOOLEAN
      /\ policy.candidateCap \in Nat
  BY PolicyType DEF SearchInv, Typed, Underway
<1>3. /\ ledger.completed \in Nat /\ ledger.discarded \in Nat /\ world \in Nat
      /\ ledger.completed + ledger.discarded = world /\ ledger.completed = race.batches
      /\ ledger.worldReserved
  BY SearchParts DEF SearchInv, Books
<1>4. /\ LedgerOK(ledger') /\ ~ ledger'.worldReserved
      /\ ledger'.completed = ledger.completed /\ ledger'.discarded = ledger.discarded + 1
      /\ ledger'.envelope = ledger.envelope
      /\ ledger'.fullCalls = k.fullCalls /\ ledger'.deltaCalls = k.deltaCalls
  <2>1. /\ k.worldReserved /\ k.completed = ledger.completed
        /\ k.discarded = ledger.discarded /\ k.envelope = ledger.envelope
    BY <1>3, Zenon DEF SameWorldsOf
  <2> QED
    BY <1>1, <2>1, WorldEffect
<1>5. index' \in [complete : BOOLEAN, size : IndexSizes \cup {0}] /\ index'.complete = FALSE
  BY <1>1 DEF NoIndex
<1>6. start' \in [atStart : Nat, afterBase : Nat, delta : Nat]
  BY <1>1 DEF NoCost
<1>7. row' \in Rows /\ DOMAIN row' = {} /\ Len(row') = 0 /\ Placed' = {} /\ Cardinality(Placed') = 0
  <2>1. Placed' = {}
    BY <1>1 DEF Placed
  <2>2. row' \in Rows /\ DOMAIN row' = {} /\ Len(row') = 0
    BY <1>1 DEF Rows
  <2> HIDE DEF Placed
  <2> QED
    BY <2>1, <2>2, FS_EmptySet
<1>8. RowOK'
  BY <1>1, <1>7 DEF RowOK
<1>9. CASE policy.adaptive
  <2>1. world' = world + 1 /\ pc' = "world" /\ UNCHANGED <<stop, verdict>>
    BY <1>1, <1>9
  <2>2. world' \in 0 .. Planned(policy)
    BY <1>2, <1>3, <2>1
  <2>3. Typed'
    BY <1>1, <1>5, <1>6, <2>1, <2>2 DEF SearchInv, Typed
  <2>4. Books'
    BY <1>1, <1>3, <1>4, <2>1 DEF Books
  <2>5. Started'
    BY <1>1, <1>4, <2>1 DEF SearchInv, Started
  <2>6. CallsPaced'
    <3> DEFINE cap == policy.candidateCap
               used == world * cap
    <3>1. /\ Len(row) < Cardinality(race.active) /\ Len(row) \in Nat
          /\ Cardinality(race.active) \in Nat /\ Cardinality(race.active) <= cap
      BY RowCount, SearchParts DEF SearchInv, Started
    <3>2. (world + 1) * cap = used + cap /\ used \in Nat
      BY <1>2, <1>3, OneMoreRow
    <3>3. /\ ledger.fullCalls \in Nat /\ ledger.deltaCalls \in Nat
          /\ k.fullCalls \in Nat /\ k.deltaCalls \in Nat
      BY SearchParts DEF LedgerOK, Ledger
    <3>4. IF policy.referenceReplies
            THEN ledger.fullCalls <= 1 + used + Len(row)
            ELSE ledger.deltaCalls <= used + Len(row)
      BY DEF SearchInv, CallsPaced
    <3> HIDE DEF used
    <3>5. IF policy.referenceReplies
            THEN k.fullCalls <= 1 + (used + cap) + 0
            ELSE k.deltaCalls <= used + cap + 0
      <4>1. CASE policy.referenceReplies
        BY <1>2, <3>1, <3>2, <3>3, <3>4, <4>1
      <4>2. CASE ~ policy.referenceReplies
        BY <1>2, <3>1, <3>2, <3>3, <3>4, <4>2
      <4> QED
        BY <4>1, <4>2
    <3> QED
      BY <1>1, <1>4, <1>5, <1>7, <2>1, <3>2, <3>5 DEF CallsPaced
  <2>7. Underway'
    BY <1>1, <1>2, <1>9, <2>1 DEF Underway
  <2>8. Undecided' /\ CompleteIsSettled'
    BY <2>1 DEF SearchInv, Undecided, CompleteIsSettled
  <2> QED
    BY <1>1, <1>4, <1>8, <2>3, <2>4, <2>5, <2>6, <2>7, <2>8 DEF SearchInv
<1>10. CASE ~ policy.adaptive
  <2>1. UNCHANGED world /\ Stops("IncompleteWorld")
    BY <1>1, <1>10
  <2>2. "IncompleteWorld" \in Reasons
    BY DEF Reasons
  <2>3. /\ pc' = "done" /\ stop' \in Reasons
        /\ verdict' \in {"none", "Complete", "RootLimited", "WorkLimited"}
        /\ verdict' = "Complete" => complete' /\ ledger'.completed > 0
                                              /\ Resolved("IncompleteWorld")
    BY <2>1, <2>2, StopEffect
  <2>4. verdict' # "Complete"
    <3> SUFFICES ASSUME ledger.completed > 0, Resolved("IncompleteWorld") PROVE FALSE
      BY <1>4, <2>3
    <3>1. ledger.completed < policy.worlds
      BY <1>2, <1>3, <1>10 DEF Planned
    <3>2. \/ ledger.completed = policy.worlds
          \/ policy.eliminate /\ Cardinality(race.active) = 1
      BY <1>1, <1>4, <1>10 DEF Resolved
    <3>3. policy.eliminate => Cardinality(race.active) # 1
      BY <1>3, <1>10 DEF SearchInv, Underway
    <3> QED
      BY <3>1, <3>2, <3>3, <1>2, <1>3
  <2>5. Typed'
    BY <1>1, <1>5, <1>6, <2>1, <2>3 DEF SearchInv, Typed
  <2>6. Books'
    BY <1>1, <1>3, <1>4, <2>1, <2>3 DEF Books
  <2>7. Started'
    BY <1>1, <1>4, <2>3 DEF SearchInv, Started
  <2>8. CallsPaced' /\ Underway' /\ Undecided' /\ CompleteIsSettled'
    BY <2>3, <2>4 DEF CallsPaced, Underway, Undecided, CompleteIsSettled
  <2> QED
    BY <1>1, <1>4, <1>8, <2>5, <2>6, <2>7, <2>8 DEF SearchInv
<1> QED
  BY <1>9, <1>10

\* The opponent's replies cost one call of the kind that is paced.
LEMMA RepliesEffect ==
    ASSUME SearchInv, NEW c, NEW delta \in TreeSizes, NEW full \in TreeSizes,
           NEW g, g = Replies(c, delta, full)
    PROVE  /\ g.done \in BOOLEAN /\ LedgerOK(g.ledger) /\ SameWorldsOf(ledger, g.ledger)
           /\ g.ledger.deltaCalls <= ledger.deltaCalls + 1
           /\ ~ index.complete => g.ledger.fullCalls <= ledger.fullCalls + 1
<1> DEFINE charged == [ledger EXCEPT !.revalidations = @ + index.size]
           recovered == IF c \in Quiet
                          THEN [done |-> TRUE, ledger |-> charged]
                          ELSE Generation(charged, TRUE, policy.opponentNodeLimit, delta)
           before == IF index.complete THEN recovered.ledger ELSE ledger
           again == Generation(before, FALSE, policy.opponentNodeLimit, full)
<1>1. g = IF index.complete /\ recovered.done THEN recovered ELSE again
  BY DEF Replies
<1>2. /\ policy.opponentNodeLimit \in Nat /\ delta \in Nat /\ full \in Nat
  BY PolicyType, InputsAssumption DEF SearchInv, Typed
<1>3. LedgerOK(ledger) /\ ledger.fullCalls \in Nat /\ ledger.deltaCalls \in Nat
      /\ index.complete \in BOOLEAN /\ index.size \in Nat
  BY SearchParts
<1>4. /\ LedgerOK(charged) /\ SameWorldsOf(ledger, charged)
      /\ charged.fullCalls = ledger.fullCalls /\ charged.deltaCalls = ledger.deltaCalls
  <2> DEFINE n == ledger.revalidations + index.size
  <2>1. ledger \in Ledger /\ n \in Nat /\ charged = [ledger EXCEPT !.revalidations = n]
    BY <1>3 DEF LedgerOK, Ledger
  <2> HIDE DEF n, charged
  <2>2. /\ charged \in Ledger
        /\ charged.permitOut = ledger.permitOut
        /\ charged.invariantFailure = ledger.invariantFailure
        /\ charged.envelope = ledger.envelope /\ charged.nodes = ledger.nodes
        /\ charged.completed = ledger.completed /\ charged.discarded = ledger.discarded
        /\ charged.fullCalls = ledger.fullCalls /\ charged.deltaCalls = ledger.deltaCalls
        /\ charged.worldReserved = ledger.worldReserved
    BY <2>1 DEF Ledger
  <2>3. LedgerOK(charged)
    BY <1>3, <2>2 DEF LedgerOK
  <2> QED
    BY <2>2, <2>3 DEF SameWorldsOf
<1> HIDE DEF charged
<1>5. /\ recovered.done \in BOOLEAN /\ LedgerOK(recovered.ledger)
      /\ SameWorldsOf(ledger, recovered.ledger)
      /\ recovered.ledger.deltaCalls <= ledger.deltaCalls + 1
  <2>1. CASE c \in Quiet
    <3>1. recovered.done = TRUE /\ recovered.ledger = charged
      BY <2>1
    <3>2. recovered.done \in BOOLEAN
      BY <3>1
    <3> HIDE DEF recovered
    <3>3. recovered.ledger.deltaCalls <= ledger.deltaCalls + 1
      BY <1>3, <1>4, <3>1
    <3> QED
      BY <1>4, <3>1, <3>2, <3>3, Zenon
  <2>2. CASE c \notin Quiet
    <3>1. recovered = Generation(charged, TRUE, policy.opponentNodeLimit, delta)
      BY <2>2
    <3> HIDE DEF recovered
    <3>2. GenerationOK(charged, TRUE, recovered)
      BY <1>2, <1>4, <3>1, DeltaGeneration
    <3>3. /\ recovered.done \in BOOLEAN /\ LedgerOK(recovered.ledger)
          /\ SameWorldsOf(charged, recovered.ledger)
          /\ recovered.ledger.deltaCalls <= charged.deltaCalls + 1
      BY <3>2, Zenon DEF GenerationOK
    <3>4. SameWorldsOf(ledger, recovered.ledger)
      BY <1>4, <3>3, SameWorldsTransitive
    <3>5. recovered.ledger.deltaCalls <= ledger.deltaCalls + 1
      BY <1>4, <3>3
    <3> QED
      BY <3>3, <3>4, <3>5, Zenon
  <2> QED
    BY <2>1, <2>2
<1> HIDE DEF recovered
<1>6. /\ LedgerOK(before) /\ SameWorldsOf(ledger, before)
      /\ before.deltaCalls <= ledger.deltaCalls + 1
      /\ ~ index.complete => before = ledger
  BY <1>3, <1>5 DEF SameWorldsOf
<1> HIDE DEF before
<1>7. /\ again.done \in BOOLEAN /\ LedgerOK(again.ledger) /\ SameWorldsOf(ledger, again.ledger)
      /\ again.ledger.deltaCalls <= ledger.deltaCalls + 1
      /\ ~ index.complete => again.ledger.fullCalls <= ledger.fullCalls + 1
  <2>1. GenerationOK(before, FALSE, again)
    BY <1>2, <1>6, FullGeneration
  <2> HIDE DEF again
  <2> QED
    BY <1>6, <2>1 DEF GenerationOK, SameWorldsOf
<1> HIDE DEF again
<1>8. CASE index.complete /\ recovered.done
  BY <1>1, <1>5, <1>8
<1>9. CASE ~ (index.complete /\ recovered.done)
  BY <1>1, <1>7, <1>9
<1> QED
  BY <1>8, <1>9

LEMMA ObserveKeeps ==
    ASSUME SearchInv, NEW over \in BOOLEAN, NEW delta \in TreeSizes, NEW full \in TreeSizes,
           NEW value \in Values, Observe(over, delta, full, value)
    PROVE  SearchInv'
<1> DEFINE answered == IF over THEN [done |-> TRUE, ledger |-> ledger]
                               ELSE Replies(Upcoming, delta, full)
           k == answered.ledger
           reading == [candidate |-> Upcoming, world |-> world, value |-> value]
<1>1. pc = "observe" /\ Unmeasured # {}
  BY DEF Observe
<1>2. IF answered.done
        THEN /\ ledger' = k /\ row' = Append(row, reading)
             /\ UNCHANGED <<policy, race, pc, complete, world, index, start, log, stop, verdict>>
        ELSE GiveUpWorld(k)
  BY DEF Observe
<1>3. /\ policy.referenceReplies \in BOOLEAN /\ world \in Nat
      /\ LedgerOK(ledger) /\ ledger.fullCalls \in Nat /\ ledger.deltaCalls \in Nat
      /\ policy.candidateCap \in Nat
  BY SearchParts, PolicyType DEF SearchInv, Typed
<1>4. policy.referenceReplies => ~ index.complete
  BY <1>1 DEF SearchInv, CallsPaced
<1>5. /\ answered.done \in BOOLEAN /\ LedgerOK(k) /\ SameWorldsOf(ledger, k)
      /\ k.deltaCalls <= ledger.deltaCalls + 1
      /\ ~ index.complete => k.fullCalls <= ledger.fullCalls + 1
  <2>1. CASE over
    <3>1. answered.done = TRUE /\ answered.ledger = ledger
      BY <2>1
    <3> HIDE DEF answered
    <3>2. SameWorldsOf(ledger, ledger)
      BY DEF SameWorldsOf
    <3>3. /\ ledger.deltaCalls <= ledger.deltaCalls + 1
          /\ ledger.fullCalls <= ledger.fullCalls + 1
      BY <1>3
    <3>4. answered.done \in BOOLEAN
      BY <3>1
    <3>5. k = ledger
      BY <3>1
    <3> HIDE DEF k
    <3> QED
      BY <1>3, <3>2, <3>3, <3>4, <3>5, Zenon
  <2>2. CASE ~ over
    <3>1. answered = Replies(Upcoming, delta, full)
      BY <2>2
    <3> HIDE DEF answered
    <3> QED
      BY <3>1, RepliesEffect
  <2> QED
    BY <2>1, <2>2
<1> HIDE DEF k, answered
<1>6. IF policy.referenceReplies THEN k.fullCalls <= ledger.fullCalls + 1
                                 ELSE k.deltaCalls <= ledger.deltaCalls + 1
  BY <1>3, <1>4, <1>5
<1>7. CASE ~ answered.done
  BY <1>1, <1>2, <1>5, <1>6, <1>7, GiveUpKeeps
<1>8. CASE answered.done
  <2>1. /\ ledger' = k /\ row' = Append(row, reading)
        /\ UNCHANGED <<policy, race, pc, complete, world, index, start, log, stop, verdict>>
    BY <1>2, <1>8
  <2>2. Upcoming \in race.active \ Placed /\ Upcoming \in Nat
    <3>1. Unmeasured = race.active \ Placed
      BY DEF Unmeasured, Placed
    <3>2. Unmeasured \in SUBSET Nat
      BY RaceParts DEF SearchInv, Unmeasured
    <3>3. \E c \in Unmeasured : \A d \in Unmeasured : c <= d
      BY <1>1, <3>2, NatLeast
    <3>4. Upcoming \in Unmeasured
      BY <3>3 DEF Upcoming
    <3> QED
      BY <3>1, <3>2, <3>4
  <2>3. reading \in Reading
    BY <1>3, <2>2, InputsAssumption DEF Reading
  <2>4. /\ row \in Rows /\ \A i \in DOMAIN row : row[i].world = world
        /\ Placed \subseteq race.active /\ Cardinality(Placed) = Len(row) /\ Len(row) \in Nat
    BY SearchParts DEF SearchInv, RowOK
  <2>5. reading.candidate = Upcoming /\ reading.world = world
    OBVIOUS
  <2> HIDE DEF reading
  <2>6. /\ row' \in Rows /\ Len(row') = Len(row) + 1
        /\ DOMAIN row' = DOMAIN row \cup {Len(row) + 1} /\ row'[Len(row) + 1] = reading
        /\ \A i \in DOMAIN row : row'[i] = row[i]
    BY <2>1, <2>3, <2>4 DEF Rows
  <2>7. Placed' = Placed \cup {Upcoming}
    BY <2>5, <2>6 DEF Placed
  <2>8. Cardinality(Placed') = Len(row) + 1
    <3>1. IsFiniteSet(Placed)
      BY RowCount
    <3> HIDE DEF Placed
    <3> QED
      BY <2>2, <2>4, <2>7, <3>1, FS_AddElement
  <2>9. RowOK'
    <3>1. \A i \in DOMAIN row' : row'[i].world = world
      BY <2>4, <2>5, <2>6
    <3>2. Placed' \subseteq race.active
      <4> HIDE DEF Placed
      <4> QED
        BY <2>2, <2>4, <2>7
    <3> HIDE DEF Placed
    <3> QED
      BY <1>1, <2>1, <2>6, <2>8, <3>1, <3>2 DEF RowOK
  <2>10. Typed' /\ LedgerOK(ledger)' /\ RaceOK(race)'
    BY <1>5, <2>1 DEF SearchInv, Typed
  <2>11. Books' /\ Started' /\ Underway' /\ Undecided' /\ CompleteIsSettled'
    <3>1. /\ k.completed = ledger.completed /\ k.discarded = ledger.discarded
          /\ k.envelope = ledger.envelope /\ k.worldReserved = ledger.worldReserved
      BY <1>5, Zenon DEF SameWorldsOf
    <3>2. Books'
      BY <2>1, <3>1 DEF SearchInv, Books
    <3>3. Started'
      BY <1>1, <2>1, <3>1 DEF SearchInv, Started
    <3>4. Underway'
      BY <1>1, <2>1, <3>1 DEF SearchInv, Underway
    <3> QED
      BY <1>1, <2>1, <3>2, <3>3, <3>4 DEF SearchInv, Undecided, CompleteIsSettled
  <2>12. CallsPaced'
    <3> DEFINE used == world * policy.candidateCap
    <3>1. used \in Nat
      BY <1>3, OneMoreRow
    <3>2. IF policy.referenceReplies
            THEN ~ index.complete /\ ledger.fullCalls <= 1 + used + Len(row)
            ELSE ledger.deltaCalls <= used + Len(row)
      BY <1>1 DEF SearchInv, CallsPaced
    <3>3. k.fullCalls \in Nat /\ k.deltaCalls \in Nat
      BY <1>5 DEF LedgerOK, Ledger
    <3> HIDE DEF used
    <3>4. IF policy.referenceReplies
            THEN ~ index.complete /\ k.fullCalls <= 1 + used + (Len(row) + 1)
            ELSE k.deltaCalls <= used + (Len(row) + 1)
      BY <1>3, <1>6, <2>4, <3>1, <3>2, <3>3
    <3> QED
      BY <2>1, <2>6, <3>4 DEF CallsPaced, used
  <2> QED
    BY <2>9, <2>10, <2>11, <2>12 DEF SearchInv
<1> QED
  BY <1>7, <1>8

\* The batch that a completed world is to the race.
LEMMA WorldIsBatch ==
    ASSUME SearchInv, CompleteWorld
    PROVE  /\ race.active # {} /\ row \in Rows /\ ValidBatch(race, row)
           /\ \A i \in DOMAIN row : row[i].world = world
           /\ race' = CommitBatch(race, row) /\ world \in Nat /\ RaceOK(race)
           /\ Len(row) = Cardinality(race.active)
<1>1. pc = "observe" /\ Unmeasured = {} /\ race' = CommitBatch(race, row)
  BY DEF CompleteWorld
<1>2. /\ race.active # {} /\ row \in Rows /\ RaceOK(race)
      /\ \A i \in DOMAIN row : row[i].world = world
      /\ Placed \subseteq race.active /\ Cardinality(Placed) = Len(row)
  BY <1>1 DEF SearchInv, RowOK, Started
<1>3. Unmeasured = race.active \ Placed
  BY DEF Unmeasured, Placed
<1>4. Placed = race.active
  <2> HIDE DEF Placed
  <2> QED
    BY <1>1, <1>2, <1>3
<1>5. ValidBatch(race, row) /\ Len(row) = Cardinality(race.active)
  BY <1>2, <1>4 DEF ValidBatch, Placed
<1> QED
  BY <1>1, <1>2, <1>5, SearchParts

LEMMA CompleteWorldKeeps == ASSUME SearchInv, CompleteWorld PROVE SearchInv'
<1>1. /\ pc = "observe" /\ ledger' = CommitWorld(ledger)
      /\ log' = Append(log, [base |-> start.afterBase - start.atStart,
                             observing |-> Cost(ledger) - start.afterBase,
                             delta |-> ledger.deltaNodes - start.delta,
                             rows |-> Len(row),
                             index |-> index.size])
      /\ index' = NoIndex /\ row' = <<>> /\ start' = NoCost
      /\ UNCHANGED <<policy, complete>>
      /\ IF race'.invariantFailure
           THEN pc' = "done" /\ stop' = "error" /\ UNCHANGED <<world, verdict>>
           ELSE IF policy.eliminate /\ Cardinality(race'.active) = 1
             THEN UNCHANGED world /\ Stops("SingleCandidate")
             ELSE world' = world + 1 /\ pc' = "world" /\ UNCHANGED <<stop, verdict>>
  BY DEF CompleteWorld
<1>2. /\ RaceOK(race') /\ race'.active \subseteq race.active /\ race'.active # {}
      /\ race'.batches = race.batches + 1
  <2>1. /\ race.active # {} /\ row \in Rows /\ ValidBatch(race, row) /\ RaceOK(race)
        /\ \A i \in DOMAIN row : row[i].world = world
        /\ race' = CommitBatch(race, row) /\ world \in Nat
    BY WorldIsBatch
  <2> QED
    BY <2>1, BatchEffect, Zenon
<1>3. /\ world < Planned(policy) /\ policy \in Policies /\ Planned(policy) \in Nat
      /\ policy.worlds > 0 /\ policy.referenceReplies \in BOOLEAN
      /\ policy.candidateCap \in Nat
  BY <1>1, PolicyType DEF SearchInv, Typed, Underway
<1>4. /\ ledger.completed \in Nat /\ ledger.discarded \in Nat /\ world \in Nat
      /\ ledger.completed + ledger.discarded = world /\ ledger.completed = race.batches
      /\ ledger.worldReserved /\ LedgerOK(ledger)
  BY <1>1, SearchParts DEF SearchInv, Books
<1>5. /\ LedgerOK(ledger') /\ ~ ledger'.worldReserved
      /\ ledger'.completed = ledger.completed + 1 /\ ledger'.discarded = ledger.discarded
      /\ ledger'.envelope = ledger.envelope
      /\ ledger'.fullCalls = ledger.fullCalls /\ ledger'.deltaCalls = ledger.deltaCalls
  <2>1. ledger.completed < ledger.envelope.worlds
    BY <1>1, <1>3, WorldsRemain
  <2> QED
    BY <1>1, <1>4, <2>1, WorldEffect
<1>6. index' \in [complete : BOOLEAN, size : IndexSizes \cup {0}] /\ index'.complete = FALSE
  BY <1>1 DEF NoIndex
<1>7. start' \in [atStart : Nat, afterBase : Nat, delta : Nat]
  BY <1>1 DEF NoCost
<1>8. log' \in Seq(Charge) /\ Len(log') = race'.batches
  <2>1. /\ start.afterBase \in Nat /\ start.atStart \in Nat /\ start.delta \in Nat
        /\ log \in Seq(Charge) /\ Len(log) = race.batches
    BY DEF SearchInv, Typed
  <2> DEFINE entry == [base |-> start.afterBase - start.atStart,
                       observing |-> Cost(ledger) - start.afterBase,
                       delta |-> ledger.deltaNodes - start.delta,
                       rows |-> Len(row),
                       index |-> index.size]
  <2>2. entry \in Charge
    <3>1. /\ Cost(ledger) \in Nat /\ ledger.deltaNodes \in Nat
          /\ Len(row) \in Nat /\ index.size \in Nat
      BY SearchParts
    <3>2. /\ start.afterBase - start.atStart \in Int /\ Cost(ledger) - start.afterBase \in Int
          /\ ledger.deltaNodes - start.delta \in Int
      BY <2>1, <3>1
    <3> QED
      BY <3>1, <3>2, Zenon DEF Charge
  <2>3. log' = Append(log, entry)
    BY <1>1
  <2> HIDE DEF entry
  <2> QED
    BY <1>2, <2>1, <2>2, <2>3
<1>9. RowOK'
  <2>1. Placed' = {} /\ row' = <<>>
    BY <1>1 DEF Placed
  <2>2. row' \in Rows /\ DOMAIN row' = {} /\ Len(row') = 0
    BY <2>1 DEF Rows
  <2> HIDE DEF Placed
  <2> QED
    BY <2>1, <2>2, FS_EmptySet DEF RowOK
<1>10. /\ Cardinality(race'.active) \in Nat /\ Cardinality(race'.active) # 0
       /\ Cardinality(race'.active) <= policy.candidateCap
  <2>1. /\ IsFiniteSet(race.active) /\ Cardinality(race.active) \in Nat
        /\ Cardinality(race.active) <= policy.candidateCap
    BY <1>1, SearchParts DEF SearchInv, Started
  <2>2. /\ IsFiniteSet(race'.active)
        /\ Cardinality(race'.active) <= Cardinality(race.active)
    BY <1>2, <2>1, FS_Subset
  <2>3. Cardinality(race'.active) \in Nat /\ Cardinality(race'.active) # 0
    BY <1>2, <2>2, FS_CardinalityType, FS_EmptySet
  <2> QED
    BY <1>3, <2>1, <2>2, <2>3
<1>11. Started'
  <2>1. pc' # "root"
    BY <1>1, StopEffect DEF Reasons
  <2> QED
    BY <1>1, <1>2, <1>5, <1>10, <2>1 DEF SearchInv, Started
<1>12. ~ race'.invariantFailure
  BY <1>2 DEF RaceOK
<1>13. CASE policy.eliminate /\ Cardinality(race'.active) = 1
  <2>1. UNCHANGED world /\ Stops("SingleCandidate") /\ "SingleCandidate" \in Reasons
    BY <1>1, <1>12, <1>13 DEF Reasons
  <2>2. /\ pc' = "done" /\ stop' \in Reasons
        /\ verdict' \in {"none", "Complete", "RootLimited", "WorkLimited"}
        /\ verdict' = "Complete" => complete'
    BY <2>1, StopEffect
  <2>3. Typed'
    BY <1>1, <1>6, <1>7, <1>8, <2>1, <2>2 DEF SearchInv, Typed
  <2>4. Books'
    BY <1>2, <1>4, <1>5, <2>1, <2>2 DEF Books
  <2>5. CallsPaced' /\ Underway' /\ Undecided'
    BY <2>2 DEF CallsPaced, Underway, Undecided
  <2>6. CompleteIsSettled'
    <3>1. ~ policy.adaptive => ledger'.discarded = 0
      BY <1>1, <1>5 DEF SearchInv, Underway
    <3>2. race'.batches > 0
      BY <1>2, <1>4
    <3> QED
      BY <1>1, <1>13, <2>2, <3>1, <3>2 DEF CompleteIsSettled
  <2> QED
    BY <1>2, <1>5, <1>9, <1>11, <2>3, <2>4, <2>5, <2>6 DEF SearchInv
<1>14. CASE ~ (policy.eliminate /\ Cardinality(race'.active) = 1)
  <2>1. world' = world + 1 /\ pc' = "world" /\ UNCHANGED <<stop, verdict>>
    BY <1>1, <1>12, <1>14
  <2>2. world' \in 0 .. Planned(policy)
    BY <1>3, <1>4, <2>1
  <2>3. Typed'
    BY <1>1, <1>6, <1>7, <1>8, <2>1, <2>2 DEF SearchInv, Typed
  <2>4. Books'
    BY <1>2, <1>4, <1>5, <2>1 DEF Books
  <2>5. CallsPaced'
    <3> DEFINE cap == policy.candidateCap
               used == world * cap
    <3>1. /\ Len(row) \in Nat /\ Len(row) <= cap
      BY <1>1, RowCount, SearchParts, <1>3 DEF SearchInv, Started
    <3>2. (world + 1) * cap = used + cap /\ used \in Nat
      BY <1>3, <1>4, OneMoreRow
    <3>3. ledger.fullCalls \in Nat /\ ledger.deltaCalls \in Nat
      BY SearchParts
    <3>4. IF policy.referenceReplies
            THEN ledger.fullCalls <= 1 + used + Len(row)
            ELSE ledger.deltaCalls <= used + Len(row)
      BY <1>1 DEF SearchInv, CallsPaced
    <3> HIDE DEF used
    <3>5. IF policy.referenceReplies
            THEN ledger.fullCalls <= 1 + (used + cap) + 0
            ELSE ledger.deltaCalls <= used + cap + 0
      BY <1>3, <3>1, <3>2, <3>3, <3>4
    <3>6. Len(row') = 0
      BY <1>1
    <3> QED
      BY <1>1, <1>5, <1>6, <2>1, <3>2, <3>5, <3>6 DEF CallsPaced
  <2>6. Underway'
    BY <1>1, <1>3, <1>5, <1>14, <2>1 DEF SearchInv, Underway
  <2>7. Undecided' /\ CompleteIsSettled'
    BY <1>1, <2>1 DEF SearchInv, Undecided, CompleteIsSettled
  <2> QED
    BY <1>2, <1>5, <1>9, <1>11, <2>3, <2>4, <2>5, <2>6, <2>7 DEF SearchInv
<1> QED
  BY <1>13, <1>14

-----------------------------------------------------------------------------
(* What follows                                                            *)

LEMMA SearchInvKept == ASSUME SearchInv, [Next]_vars PROVE SearchInv'
<1>1. ASSUME NEW tree \in TreeSizes, NEW n \in 1 .. policy.candidateCap,
             EnumerateRoot(tree, n)
      PROVE  SearchInv'
  BY <1>1, EnumerateRootKeeps
<1>2. CASE StopBeforeWorld
  BY <1>2, StopBeforeWorldKeeps
<1>3. CASE EndOfDeck
  BY <1>3, EndOfDeckKeeps
<1>4. ASSUME NEW tree \in TreeSizes, NEW size \in IndexSizes, BeginWorld(tree, size)
      PROVE  SearchInv'
  BY <1>4, BeginWorldKeeps
<1>5. ASSUME NEW over \in BOOLEAN, NEW delta \in TreeSizes, NEW full \in TreeSizes,
             NEW value \in Values, Observe(over, delta, full, value)
      PROVE  SearchInv'
  BY <1>5, ObserveKeeps
<1>6. CASE CompleteWorld
  BY <1>6, CompleteWorldKeeps
<1>7. CASE UNCHANGED vars
  BY <1>7 DEF vars, worldVars, SearchInv, Typed, Books, RowOK, Placed, Started, CallsPaced,
              Underway, Undecided, CompleteIsSettled
<1> QED
  BY <1>1, <1>2, <1>3, <1>4, <1>5, <1>6, <1>7 DEF Next, Returned

\* The invariant of the search, for every policy: its books, its race, its row
\* of observations and the pace at which it spends its calls.
THEOREM SearchInvHolds == Spec => []SearchInv
<1>1. Init => SearchInv
  BY InitHolds
<1>2. SearchInv /\ [Next]_vars => SearchInv'
  BY SearchInvKept
<1> QED
  BY <1>1, <1>2, PTL DEF Spec

\* Every world that is reserved is committed to the ledger and the race
\* together or given up, and no books are ever found broken.
THEOREM WorldsAccountedAlways == Spec => []WorldsAccounted
<1>1. SearchInv => WorldsAccounted
  <2> SUFFICES ASSUME SearchInv PROVE WorldsAccounted
    OBVIOUS
  <2>1. TypeOK
    <3>1. Typed /\ ledger \in Ledger /\ race.active \subseteq DOMAIN race.values
      BY SearchParts DEF RaceOK
    <3>2. Len(row) <= Cardinality(race.active)
      BY RowCount
    <3> QED
      BY <3>1, <3>2 DEF Typed, TypeOK, Reasons
  <2>2. ledger.worldReserved = (pc = "observe")
    <3>1. ledger.worldReserved \in BOOLEAN /\ (ledger.worldReserved <=> pc = "observe")
      BY SearchParts DEF SearchInv, Books, Ledger
    <3> QED
      BY <3>1, Zenon
  <2>3. /\ ledger.completed = race.batches
        /\ ledger.completed + ledger.discarded \in
              IF pc = "done" THEN {world, world + 1} ELSE {world}
    BY DEF SearchInv, Books
  <2>4. ~ ledger.permitOut /\ ~ ledger.invariantFailure /\ ~ race.invariantFailure
    BY DEF SearchInv, LedgerOK, RaceOK
  <2> QED
    BY <2>1, <2>2, <2>3, <2>4 DEF WorldsAccounted
<1> QED
  BY <1>1, SearchInvHolds, PTL

\* No ceiling of the envelope is exceeded, and every candidate still to be
\* measured has a call left: the envelope that sizeEnvelope computes from the
\* schedule and the admission is enough for both.
THEOREM EnvelopeFitsAlways == Spec => []EnvelopeFits
<1>1. SearchInv => EnvelopeFits
  <2> SUFFICES ASSUME SearchInv PROVE EnvelopeFits
    OBVIOUS
  <2>1. WithinEnvelope
    BY DEF SearchInv, LedgerOK, WithinEnvelope
  <2>2. SizedToSchedule
    <3> SUFFICES ASSUME pc = "observe"
                 PROVE  IF policy.referenceReplies
                          THEN ledger.fullCalls + Cardinality(Unmeasured)
                                 <= ledger.envelope.fullCalls
                          ELSE ledger.deltaCalls + Cardinality(Unmeasured)
                                 <= ledger.envelope.deltaCalls
      BY DEF SizedToSchedule
    <3> DEFINE cap == policy.candidateCap
               used == world * cap
               left == Planned(policy) - (world + 1)
               rest == left * cap
               total == Planned(policy) * cap
    <3>1. /\ policy \in Policies /\ world < Planned(policy) /\ world \in Nat
          /\ ledger.envelope = SizeEnvelope(policy)
          /\ Cardinality(race.active) <= cap /\ Cardinality(race.active) \in Nat
          /\ ledger.fullCalls \in Nat /\ ledger.deltaCalls \in Nat /\ Len(row) \in Nat
      BY SearchParts DEF SearchInv, Typed, Started, Underway
    <3>2. cap \in Nat /\ Planned(policy) \in Nat /\ policy.referenceReplies \in BOOLEAN
      BY <3>1, PolicyType
    <3>3. left \in Nat /\ left + (world + 1) = Planned(policy)
      BY <3>1, <3>2
    <3>4. used \in Nat /\ rest \in Nat /\ total = used + cap + rest
      <4>1. \A l, m, n \in Nat : (l + m) * n = l * n + m * n
        OBVIOUS
      <4>2. total = rest + (world + 1) * cap
        <5> HIDE DEF left
        <5> QED
          BY <3>1, <3>2, <3>3, <4>1
      <4>3. (world + 1) * cap = used + cap /\ used \in Nat
        BY <3>1, <3>2, OneMoreRow
      <4>4. rest \in Nat
        <5> HIDE DEF left
        <5> QED
          BY <3>2, <3>3, OneMoreRow
      <4> HIDE DEF rest, total, used
      <4> QED
        BY <3>2, <4>2, <4>3, <4>4
    <3>5. Cardinality(Unmeasured) = Cardinality(race.active) - Len(row)
      BY RowCount
    <3>6. IF policy.referenceReplies
            THEN ledger.fullCalls <= 1 + used + Len(row)
            ELSE ledger.deltaCalls <= used + Len(row)
      BY DEF SearchInv, CallsPaced
    <3>7. IF policy.referenceReplies
            THEN ledger.envelope.fullCalls = 1 + total
            ELSE ledger.envelope.deltaCalls = total
      BY <3>1, <3>2 DEF SizeEnvelope
    <3> HIDE DEF used, rest, total
    <3>8. CASE policy.referenceReplies
      BY <3>1, <3>2, <3>4, <3>5, <3>6, <3>7, <3>8
    <3>9. CASE ~ policy.referenceReplies
      BY <3>1, <3>2, <3>4, <3>5, <3>6, <3>7, <3>9
    <3> QED
      BY <3>8, <3>9
  <2> QED
    BY <2>1, <2>2 DEF EnvelopeFits
<1> QED
  BY <1>1, SearchInvHolds, PTL

\* Common random numbers: the i-th measurements of any two candidates come
\* from one world, however many worlds were given up and candidates dropped.
THEOREM SameWorldsAlways == Spec => []SameWorlds
<1>1. SearchInv => SameWorlds
  BY DEF SearchInv, RaceOK, Paired, SameWorlds
<1> QED
  BY <1>1, SearchInvHolds, PTL

\* "Complete" is said only of a settled decision.
THEOREM CompleteIsSettledAlways == Spec => []CompleteIsSettled
<1>1. SearchInv => CompleteIsSettled
  BY DEF SearchInv
<1> QED
  BY <1>1, SearchInvHolds, PTL

\* A candidate leaves the race only behind its leader, by more than the
\* allowance in every mean that is consistent with it.
THEOREM DroppedBehindLeaderAlways == Spec => DroppedBehindLeader
<1> DEFINE Fair ==
      \A c \in race.active : (pc # "root" /\ c \notin race'.active) =>
          LET b == Leader(race')
          IN  /\ Len(race'.values[c]) >= race.minimum
              /\ Total(Differences(race', c, b)) < - race.allowance * Len(race'.values[c])
<1>1. SearchInv /\ [Next]_vars => [Fair]_vars
  <2> SUFFICES ASSUME SearchInv, [Next]_vars PROVE Fair \/ UNCHANGED vars
    OBVIOUS
  <2>1. ASSUME pc # "root", ~ CompleteWorld PROVE race' = race
    BY <2>1 DEF Next, Returned, vars, EnumerateRoot, StopBeforeWorld, EndOfDeck, BeginWorld,
                Observe, GiveUpWorld
  <2>2. CASE CompleteWorld
    <3>1. FairlyDropped(race, race')
      <4>1. /\ race.active # {} /\ row \in Rows /\ ValidBatch(race, row) /\ RaceOK(race)
            /\ \A i \in DOMAIN row : row[i].world = world
            /\ race' = CommitBatch(race, row) /\ world \in Nat
        BY <2>2, WorldIsBatch
      <4> QED
        BY <4>1, BatchEffect, Zenon
    <3> QED
      BY <3>1 DEF FairlyDropped
  <2>3. CASE pc # "root" /\ ~ CompleteWorld
    BY <2>1, <2>3
  <2>4. CASE pc = "root"
    BY <2>4
  <2> QED
    BY <2>2, <2>3, <2>4
<1> QED
  BY <1>1, SearchInvHolds, PTL DEF Spec, DroppedBehindLeader
=============================================================================
