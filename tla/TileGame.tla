------------------------------ MODULE TileGame ------------------------------
(* The end of a game as the searches of src/engine.cpp see it: two racks, a  *)
(* nearly empty bag, a board, and the moves that can still be made.  What a  *)
(* line of cells reads is abstracted away: a placement is a name, with the   *)
(* tiles it uses, the squares it covers and the squares it builds on, and is *)
(* legal when the first are in the rack, the second free and the last taken. *)
(* EquationBoard and MoveGenerator model where legal placements come from.   *)
(* Sides are 0, the engine, and 1, the opponent; every value is the engine's *)
(* total less the opponent's from the position on.                           *)
EXTENDS Integers, Sequences, FiniteSets, FiniteSetsExt, SequencesExt, Ordering

CONSTANTS
    Kinds,                 \* kinds of tile
    PointsOf,              \* [Kinds -> Nat], the points of a tile
    Plays,                 \* placements
    Uses,                  \* [Plays -> [Kinds -> Nat]], the tiles of a placement
    Covers,                \* [Plays -> squares it covers]
    Needs,                 \* [Plays -> squares that must be taken before]
    RackSize,              \* RACK_SIZE
    NoScoreStreakLength    \* NO_SCORE_STREAK_LENGTH

\* Passing: MoveType::Pass, the move without placements.
Pass == "pass"

\* TileCounts: a rack, a bag, a pool.
Tiles == [Kinds -> Nat]

ASSUME TileGameAssumption ==
    /\ IsFiniteSet(Kinds) /\ IsFiniteSet(Plays) /\ Pass \notin Plays
    /\ PointsOf \in [Kinds -> Nat]
    /\ Uses \in [Plays -> Tiles]
    /\ \A m \in Plays : \E k \in Kinds : Uses[m][k] > 0
    /\ RackSize \in Nat \ {0}
    /\ NoScoreStreakLength \in Nat \ {0}

---------------------------------------------------------------------------
(* TileCounts.                                                              *)

Total(c) == SumFunctionOnSet(c, Kinds)
Points(c) == SumFunctionOnSet([k \in Kinds |-> c[k] * PointsOf[k]], Kinds)
Plus(c, d) == [k \in Kinds |-> c[k] + d[k]]
Minus(c, d) == [k \in Kinds |-> c[k] - d[k]]
Within(c, d) == \A k \in Kinds : c[k] <= d[k]
Without(c, k) == [c EXCEPT ![k] = @ - 1]
With(c, k) == [c EXCEPT ![k] = @ + 1]
NoTiles == [k \in Kinds |-> 0]

\* The submultisets of `pool` with `n` tiles.
Submultisets(pool, n) ==
    {c \in [Kinds -> 0..n] : Within(c, pool) /\ Total(c) = n}

---------------------------------------------------------------------------
(* Positions: the placements on the board, both racks, the bag, the side to *)
(* move, and how many turns in a row did not score.                         *)

Positions == [board : SUBSET Plays, racks : [0..1 -> Tiles], bag : Tiles,
              side : 0..1, streak : Nat]

Occupied(board) == UNION {Covers[m] : m \in board}

Mover(p) == p.racks[p.side]
Other(p) == p.racks[1 - p.side]

\* What the generator finds for the side to move.
Playable(p) ==
    {m \in Plays : /\ Covers[m] \cap Occupied(p.board) = {}
                   /\ Needs[m] \subseteq Occupied(p.board)
                   /\ Within(Uses[m], Mover(p))}

\* The board and the mover's rack after a placement, before the refill.
Placed(p, m) ==
    [p EXCEPT !.board = @ \cup {m}, !.racks[p.side] = Minus(@, Uses[m])]

\* The tiles the mover draws after a placement: a rack that is full draws none.
DrawsOf(p) == Max({0, Min({RackSize - Total(Mover(p)), Total(p.bag)})})

\* Some tiles out of the bag, on the mover's rack.
Refilled(p, d) == [p EXCEPT !.racks[p.side] = Plus(@, d), !.bag = Minus(@, d)]

\* A placement that empties the rack when nothing is left to draw ends the
\* game: the mover takes twice what the other still holds.
RackedOut(p) == Total(Mover(p)) = 0 /\ Total(p.bag) = 0
RackOutGain(p) ==
    IF p.side = 0 THEN 2 * Points(p.racks[1]) ELSE -2 * Points(p.racks[0])

\* The other side to move, after a turn that scored and after one that did not.
AfterScore(p) == [p EXCEPT !.side = 1 - @, !.streak = 0]
AfterPass(p) == [p EXCEPT !.side = 1 - @, !.streak = @ + 1]
PassEnds(p) == p.streak + 1 >= NoScoreStreakLength

\* A game that ends on passes: each side loses its own remainder.
StreakGain(p) == Points(p.racks[1]) - Points(p.racks[0])

\* A score counts for the side that made it.
Signed(p, score) == IF p.side = 0 THEN score ELSE -score

---------------------------------------------------------------------------
(* The value of a position by its definition: no window, no table, no order *)
(* of moves and no budget.  The engine maximises and the opponent minimises *)
(* -- or, when asked what is still reachable, maximises as well -- and what *)
(* is drawn is always what suits the engine least.                          *)

BestForMover(p, optimistic, values) ==
    IF p.side = 0 \/ optimistic THEN Max(values) ELSE Min(values)

\* The rules end the game when the mover holds nothing and no more is left than
\* a rack may hold: the mover takes twice that.
GoesOut(q) == Total(Mover(q)) = 0 /\ Total(Other(q)) + Total(q.bag) <= RackSize

\* What a placement and a pass are worth when `value` is what positions are.
WorthOfPlay(value, p, m, scoreOf) ==
    LET q == Placed(p, m)
    IN  Signed(p, scoreOf[m])
        + IF GoesOut(q) THEN Signed(p, 2 * (Points(Other(q)) + Points(q.bag)))
          ELSE Min({value[AfterScore(Refilled(q, d))] : d \in Submultisets(q.bag, DrawsOf(q))})

WorthOfPass(value, p) == IF PassEnds(p) THEN StreakGain(p) ELSE value[AfterPass(p)]

ValueOf(scoreOf, optimistic) ==
    LET value[p \in Positions] ==
          BestForMover(p, optimistic,
                       {WorthOfPlay(value, p, m, scoreOf) : m \in Playable(p)}
                         \cup {WorthOfPass(value, p)})
    IN  value

=============================================================================
