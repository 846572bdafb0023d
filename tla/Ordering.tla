------------------------------ MODULE Ordering ------------------------------
(* Sequences that the code sorts or filters, in a form one can prove about.  *)
EXTENDS Naturals, Sequences, FiniteSets

\* std::sort under a total order: the members of a set as a sequence.
Sorted(S, Before(_, _)) ==
    LET placed == {<<1 + Cardinality({y \in S : Before(y, x)}), x>> : x \in S}
    IN  [i \in 1..Cardinality(S) |-> (CHOOSE p \in placed : p[1] = i)[2]]

\* The members of a sequence that are in S, in their order.
Filtered(seq, S) ==
    LET kept[i \in 0..Len(seq)] ==
          IF i = 0 THEN <<>> ELSE IF seq[i] \in S THEN Append(kept[i - 1], seq[i]) ELSE kept[i - 1]
    IN  kept[Len(seq)]

=============================================================================
