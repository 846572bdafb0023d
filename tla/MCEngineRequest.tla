--------------------------- MODULE MCEngineRequest ---------------------------
(* Bounds for EngineRequest: two kinds of tile, racks of two, placements of  *)
(* which two are faces of one footprint, two share a square and one builds   *)
(* on another.                                                               *)
EXTENDS EngineRequest, TLC

MCKinds == {"x", "y"}
MCPlays == {"a", "a2", "b", "c", "d", "g", "h", "f"}

Held(x, y) == ("x" :> x) @@ ("y" :> y)
MCPoints == Held(1, 2)
MCDistribution == Held(3, 3)
MCUses == ("a" :> Held(1, 0)) @@ ("a2" :> Held(1, 0)) @@ ("b" :> Held(0, 1))
            @@ ("c" :> Held(1, 1)) @@ ("d" :> Held(1, 0)) @@ ("g" :> Held(0, 1)) @@ ("h" :> Held(1, 0)) @@ ("f" :> Held(1, 1))
MCCovers == ("a" :> {1}) @@ ("a2" :> {1}) @@ ("b" :> {2}) @@ ("c" :> {2, 3})
              @@ ("d" :> {4}) @@ ("g" :> {5}) @@ ("h" :> {6}) @@ ("f" :> {7})
\* "f" is only ever found on the board: nothing covers the square it builds on.
MCNeeds == [m \in MCPlays |-> CASE m = "h" -> {5} [] m = "f" -> {8} [] OTHER -> {}]

\* Scores by placement: <<a, a2, b, c, d, g, h>>.
Scores(s) == ("a" :> s[1]) @@ ("a2" :> s[2]) @@ ("b" :> s[3]) @@ ("c" :> s[4])
               @@ ("d" :> s[5]) @@ ("g" :> s[6]) @@ ("h" :> s[7]) @@ ("f" :> 0)

\* What a row of samples is worth to each candidate, <<plays..., exchange, pass>>.
Prices(rows) ==
    [i \in DOMAIN rows |-> Scores(rows[i]) @@ ("exchange" :> rows[i][8]) @@ ("pass" :> rows[i][9])]
Steady == Prices(<<<<3, 4, 2, 5, 1, 2, 2, 1, 0>>, <<3, 4, 2, 5, 1, 2, 2, 1, 0>>, <<3, 4, 2, 5, 1, 2, 2, 1, 0>>, <<3, 4, 2, 5, 1, 2, 2, 1, 0>>>>)
Swinging == Prices(<<<<3, 0, 2, 5, 1, 2, 2, 1, 0>>, <<3, 9, 2, -5, 1, 2, 2, 4, 0>>, <<3, 0, 2, 5, 6, 2, 2, -1, 0>>, <<0, 9, 2, -5, 1, 2, 2, 4, 0>>>>)

\* A position the distribution accounts for: the board, the rack, and what is
\* hidden.
At(board, rack, opp, bag) == [board |-> board, rack |-> rack, oppRackCount |-> opp, bagCount |-> bag]
Endgames == {At({"c"}, Held(1, 1), 2, 0), At({"d"}, Held(1, 1), 2, 1), At({"c", "d"}, Held(1, 1), 1, 0),
             At({"c"}, Held(0, 2), 2, 0), At({"d", "c"}, Held(1, 0), 2, 0)}
\* ... of which the last is an end-game where a placement may empty the rack.
Midgames == {At({}, Held(1, 1), 2, 2), At({}, Held(1, 1), 0, 4), At({"b"}, Held(2, 0), 2, 1),
             At({"f"}, Held(1, 1), 2, 0)}

\* What every request here has in common.
Base == [unseen |-> NoTiles, order |-> <<"a", "a2", "b", "c", "h", "d", "g">>,
         genLimit |-> 4, maxScenarios |-> 3, withinNodes |-> {"a2", "b", "c", "g"}, sampleCap |-> 0, myScore |-> 0,
         dangerOf |-> [c \in {MCCovers[m] : m \in MCPlays} |-> Cardinality(c) - 1],
         leaveOf |-> Held(1, -1), freshTile |-> 1, tempoCost |-> 1]

Chances == [streak : {0, 1}, oppScore : {-2, 4, 10}, nodeBudget : {1, 6, 10000}, forceHidden : BOOLEAN,
            solver : {"sim"}, unlimited : {TRUE}, exchangeAllowed : {FALSE},
            topN : {1}, lambda : {0}, priceOf : {Steady}]
Dealings == [streak : {0}, oppScore : {4, 20}, nodeBudget : {1}, forceHidden : {FALSE},
             solver : {"sim", "static", "other"}, unlimited : BOOLEAN, exchangeAllowed : BOOLEAN,
             topN : {2}, lambda : {-1, 0, 1}, priceOf : {Steady, Swinging}]
EndgameScores == {Scores(s) : s \in {<<i, j, k, 3, 2, l, 9>> : i \in {1, 5}, j \in {1, 3}, k \in {2, 6}, l \in {1, 4}}}
MidgameScores == {Scores(s) : s \in {<<2, 2, 3, 4, 1, 3, 9>>, <<1, 3, 2, 8, 5, 2, 9>>}}

MCRequests ==
    {at @@ how @@ [scoreOf |-> scores] @@ Base : at \in Endgames, how \in Chances, scores \in EndgameScores}
      \cup {at @@ how @@ [scoreOf |-> scores] @@ Base :
              at \in Midgames \cup Endgames, how \in Dealings, scores \in MidgameScores}

=============================================================================
