----------------------------- MODULE MCMoveTree -----------------------------
(* Bounds for MoveTree: a board of six by six, the numbers 0, 1, 2, 12,    *)
(* every operator, racks of three tiles with choice tiles.                   *)
EXTENDS Replies

\* Kinds by their codes: 1, 2, "+/-", "=", blank.
MCTilePoints == (1 :> 1) @@ (2 :> 2) @@ (25 :> 1) @@ (27 :> 1) @@ (28 :> 0)
MCTokens == {0, 1, 2, 12, TADD, TSUB, TMUL, TDIV, TEQ}
MCAssign == (1 :> {1}) @@ (2 :> {2}) @@ (25 :> {TADD, TSUB}) @@ (27 :> {TEQ}) @@ (28 :> MCTokens)
MCPremium ==
    [c \in (0..5) \X (0..5) |->
       CASE c \in {<<2, 0>>, <<0, 1>>} -> "ex3" [] c = <<1, 1>> -> "ex2" [] c = <<2, 2>> -> "px3"
         [] c \in {<<3, 2>>, <<1, 3>>} -> "px2" [] OTHER -> "px1"]

Rack(kinds) == [k \in DOMAIN MCTilePoints |-> Cardinality({i \in DOMAIN kinds : kinds[i] = k})]
MCRacks == {Rack(kinds) : kinds \in {<<1, 1, 27>>, <<2, 25, 27>>, <<1, 28>>}}
\* The empty board, and one where a column is all there is:
\*      . . . . . .
\*      . . . . . .
\*      . . . . . .
\*      . . . 0 . .
\*      . . . = . .
\*      . . . 0 . .
\* so that "1*" may be put on top of it, and then "1=1" along the first row.
MCStem == (<<3, 3>> :> Tile(28, 0)) @@ (<<4, 3>> :> Tile(27, TEQ)) @@ (<<5, 3>> :> Tile(28, 0))
\* A ring that lacks a side, where an "=" joins a column and no row:
\*      . . . . . .
\*      . . . 1 = 1
\*      . . . . . =
\*      . . . 1 = 1
\*      . . . . . .
\*      . . . . . .
MCRing ==
    [c \in {<<1, 3>>, <<1, 5>>, <<3, 3>>, <<3, 5>>} |-> Tile(1, 1)]
      @@ [c \in {<<1, 4>>, <<2, 5>>, <<3, 4>>} |-> Tile(27, TEQ)]
MCBoards == {<<>>, MCStem, MCRing}
MCLimits == {1, 7, 40}

\* An action is worth twice its score less its tiles; an exchange is worth more
\* the more it drops, but for blanks.
MCStaticValue(a) ==
    CASE a.type = "place" -> 2 * a.score - 3 * Cardinality(DOMAIN a.placement)
      [] a.type = "exchange" -> RackTotal(a.drops) - 4 * a.drops[28]
      [] OTHER -> 0
MCHidden == {<<0, 3>>, <<5, 3>>}
MCCaps == {1, 2, 5, 8}
MCEnvelopes == {0, 4, 100}

\* Longer lines of fewer tokens: numbers of four digits, products among
\* differences, and a square of 12 that outgrows the fractions.
MCLongTokens == {0, 1, 12, TSUB, TMUL, TEQ}

=============================================================================
