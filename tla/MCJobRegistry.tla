---------------------------- MODULE MCJobRegistry ----------------------------
(* Instances of JobRegistry for TLC.                                        *)
EXTENDS JobRegistry, TLC

Key(g, v, kind) == [game |-> g, revision |-> v, kind |-> kind]

\* A bot turn, and an analysis of the position after it.
TwoPositionKeys == {Key("g", 1, "bot"), Key("g", 2, "analysis")}
OneGame == {"g"}

MCKinds == {"bot", "analysis"}
MCPriorities == {0, 10}
MCPriorityOf == [kind \in MCKinds |-> IF kind = "bot" THEN 0 ELSE 10]
MCTtlOf == [kind \in MCKinds |-> IF kind = "bot" THEN 1 ELSE 2]

Symmetry == Permutations(Requests)

=============================================================================
