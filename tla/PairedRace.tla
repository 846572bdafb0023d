----------------------------- MODULE PairedRace -----------------------------
(***************************************************************************)
(* The paired race between the candidate moves of a decision               *)
(* (src/paired_race.cpp).  Every batch measures each active candidate in   *)
(* one hidden world; a candidate that the leader has left behind by more   *)
(* than the statistic allows is not measured again.                        *)
(*                                                                         *)
(* The statistic is mean + k * standard error of the differences, which    *)
(* the code computes in doubles.  Here the comparisons that decide are the *)
(* same inequalities over the integers, squared and multiplied out.        *)
(***************************************************************************)
EXTENDS Integers, Sequences, FiniteSets

\* What one candidate was measured at.  The race stores the value; the world
\* is remembered for the properties.
Observation(Values) == [world : Nat, value : Values]

\* Candidates are numbered from 0 in the order of their canonical keys.
NewRace(count, minimum, allowance) ==
    [active |-> 0 .. count - 1, values |-> [c \in 0 .. count - 1 |-> <<>>], batches |-> 0,
     rounds |-> 0, minimum |-> minimum, allowance |-> allowance, invariantFailure |-> FALSE]

Least(m, n) == IF m < n THEN m ELSE n

\* Integer division in C++ rounds towards zero.
Quotient(m, n) == IF m >= 0 THEN m \div n ELSE - ((- m) \div n)

\* The sum of a sequence of numbers.
Total(s) ==
    LET upTo[i \in 0 .. Len(s)] == IF i = 0 THEN 0 ELSE upTo[i - 1] + s[i]
    IN  upTo[Len(s)]

\* mean
Mean(race, c) ==
    LET measured == race.values[c]
    IN  IF measured = <<>>
          THEN 0
          ELSE Quotient(Total([i \in DOMAIN measured |-> measured[i].value]), Len(measured))

\* leader: the first of the best means.
Leader(race) ==
    CHOOSE c \in race.active : \A d \in race.active :
        \/ Mean(race, c) > Mean(race, d)
        \/ Mean(race, c) = Mean(race, d) /\ c <= d

-----------------------------------------------------------------------------
(* The paired difference of a candidate c against a leader b               *)

Pairs(race, c, b) == Least(Len(race.values[c]), Len(race.values[b]))

Differences(race, c, b) ==
    [i \in 1 .. Pairs(race, c, b) |-> race.values[c][i].value - race.values[b][i].value]

\* n * the sum of squares - the square of the sum: n * (n - 1) * the variance.
Spread(d) ==
    Len(d) * Total([i \in DOMAIN d |-> d[i] * d[i]]) - Total(d) * Total(d)

\* mean + k * standardError < x, for the multiplier k = 2 of the code.
GapBelow(d, x) ==
    LET n == Len(d)
        slack == n * x - Total(d)
    IN  slack > 0 /\ (n = 1 \/ 4 * Spread(d) < slack * slack * (n - 1))

\* mean + k * standardError <= x
GapAtMost(d, x) ==
    LET n == Len(d)
        slack == n * x - Total(d)
    IN  slack >= 0 /\ (n = 1 \/ 4 * Spread(d) <= slack * slack * (n - 1))

\* Mutant of Separated: the allowance is forgotten.
SeparatedBarely(race, c, b) ==
    /\ Pairs(race, c, b) > 0
    /\ Pairs(race, c, b) >= race.minimum
    /\ GapBelow(Differences(race, c, b), 0)

\* gap.ok, enough observations, and gap.upper < 0.
Separated(race, c, b) ==
    /\ Pairs(race, c, b) > 0
    /\ Pairs(race, c, b) >= race.minimum
    /\ GapBelow(Differences(race, c, b), - race.allowance)

\* eliminateSeparatedCandidates, once enough batches are in.
Survivors(race) ==
    IF race.batches < race.minimum \/ race.active = {}
      THEN race.active
      ELSE {c \in race.active : c = Leader(race) \/ ~ Separated(race, c, Leader(race))}

\* Each active candidate exactly once.
ValidBatch(race, row) ==
    /\ Len(row) = Cardinality(race.active)
    /\ {row[i].candidate : i \in DOMAIN row} = race.active

Measured(race, row) ==
    [race EXCEPT
       !.values = [c \in DOMAIN race.values |->
                     IF c \in race.active
                       THEN LET i == CHOOSE i \in DOMAIN row : row[i].candidate = c
                            IN  Append(race.values[c],
                                       [world |-> row[i].world, value |-> row[i].value])
                       ELSE race.values[c]],
       !.batches = @ + 1]

\* commitBatch
CommitBatch(race, row) ==
    IF race.invariantFailure \/ ~ ValidBatch(race, row)
      THEN [race EXCEPT !.invariantFailure = TRUE]
      ELSE LET measured == Measured(race, row)
               left == Survivors(measured)
           IN  [measured EXCEPT !.active = left,
                                !.rounds = IF left # race.active THEN @ + 1 ELSE @]

\* indifferenceResolved of decision_search.cpp: the challenger that is closest
\* to the leader, and with it every other, is within the margin.
Indifferent(race, margin) ==
    LET b == Leader(race)
        rivals == {c \in race.active \ {b} : Pairs(race, c, b) > 0}
    IN  /\ margin > 0
        /\ rivals # {}
        /\ \A c \in rivals : GapAtMost(Differences(race, c, b), margin)
=============================================================================
