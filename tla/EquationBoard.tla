---------------------------- MODULE EquationBoard ----------------------------
(* The board and what is known of it: src/src/board.hpp, the move validator  *)
(* of src/src/rules.cpp, and src/src/inc_board.hpp, which keeps the cross    *)
(* checks, the distances to contact, the anchors and the hash of a board up  *)
(* to date while moves are made and taken back, a few lines at a time.       *)
(*                                                                           *)
(* A board is a function from its occupied cells to tiles, and so is a       *)
(* placement.  The XOR of the keys of the tiles is the set of the tiles, and *)
(* XOR the symmetric difference.                                             *)
EXTENDS Equations, Functions

CONSTANTS
    BoardSize,     \* BOARD_SIZE
    Center,        \* CENTER
    Premium,       \* [Cells -> {"px1", "px2", "px3", "ex2", "ex3"}]
    Tokens,        \* the assigned tokens, ASSIGNED_COUNT of them
    TilePoints,    \* [kind -> Nat], TILE_POINTS
    Assign,        \* [kind -> SUBSET Tokens], kindAssignMask
    RackSize,      \* RACK_SIZE
    BingoBonus     \* BINGO_BONUS

Cells == (0..BoardSize-1) \X (0..BoardSize-1)
TileKinds == DOMAIN TilePoints
Tile(kind, token) == [kind |-> kind, token |-> token]

Across == <<0, 1>>
Down == <<1, 0>>
Shift(c, d, n) == <<c[1] + n * d[1], c[2] + n * d[2]>>
Neighbours(c) == {Shift(c, d, n) : d \in {Across, Down}, n \in {-1, 1}} \cap Cells
Occupied(b, c) == c \in DOMAIN b

\* How many cells in a row are occupied from c on, c not counted.
Reach(b, c, d, sign) ==
    Max({n \in 0..BoardSize : \A i \in 1..n : Occupied(b, Shift(c, d, sign * i))})

\* The cells of the longest run through c.
Run(b, c, d) ==
    LET before == Reach(b, c, d, -1)
    IN  [i \in 1..before + 1 + Reach(b, c, d, 1) |-> Shift(c, d, i - 1 - before)]

TokensOf(b, run) == [i \in DOMAIN run |-> b[run[i]].token]
SumOf(b, cells) == MapThenSumSet(LAMBDA c : TilePoints[b[c].kind], cells)

---------------------------------------------------------------------------
(* validatePlaceMove.                                                       *)

\* Points of a tile put on a premium square, and what its equation is worth.
TileMult(c) == CASE Premium[c] = "px2" -> 2 [] Premium[c] = "px3" -> 3 [] OTHER -> 1
EquationMult(c) == CASE Premium[c] = "ex2" -> 2 [] Premium[c] = "ex3" -> 3 [] OTHER -> 1

\* Premiums count for the tiles of this turn only.
ScoreRun(b, run, new) ==
    LET sum == MapThenSumSet(LAMBDA c : TilePoints[b[c].kind] * (IF c \in new THEN TileMult(c) ELSE 1), Range(run))
        mult == FoldLeft(LAMBDA m, c : m * (IF c \in new THEN EquationMult(c) ELSE 1), 1, run)
    IN  sum * mult

RunsOf(b, new) == {r \in {Run(b, c, d) : c \in new, d \in {Across, Down}} : Len(r) >= 2}
Bingo(placement) == IF Cardinality(DOMAIN placement) >= RackSize THEN BingoBonus ELSE 0

SameLine(cells) == \E i \in {1, 2} : \A c, e \in cells : c[i] = e[i]
NoGaps(b, cells) ==
    \A c, e \in cells : \A x \in Cells :
        (\A i \in {1, 2} : c[i] <= x[i] /\ x[i] <= e[i]) => x \in cells \/ Occupied(b, x)

Legal(b, placement) ==
    LET new == DOMAIN placement
        after == placement @@ b
    IN  /\ new # {} /\ new \subseteq Cells \ DOMAIN b
        /\ SameLine(new) /\ NoGaps(b, new)
        /\ IF b = <<>> THEN <<Center, Center>> \in new
           ELSE \E c \in new : \E n \in Neighbours(c) : Occupied(b, n)
        /\ \A c \in new : placement[c].token \in Assign[placement[c].kind]
        /\ RunsOf(after, new) # {}
        /\ \A r \in RunsOf(after, new) : ValidateLine(TokensOf(after, r))

ScoreOf(b, placement) ==
    LET after == placement @@ b
    IN  MapThenSumSet(LAMBDA r : ScoreRun(after, r, DOMAIN placement), RunsOf(after, DOMAIN placement))
        + Bingo(placement)

---------------------------------------------------------------------------
(* The primitives of IncrementalBoard.                                      *)

ContactInf == 64
NoCross == [mask |-> Tokens, fixedSum |-> 0, has |-> FALSE]

\* What a tile put on an empty cell must read as for the run it joins in the
\* direction d to be an equation.
CrossCell(b, c, d) ==
    LET run == Run(b, c, d)
        hole == Reach(b, c, d, -1) + 1
        line(t) == [i \in DOMAIN run |-> IF i = hole THEN t ELSE b[run[i]].token]
    IN  IF Occupied(b, c) \/ Len(run) = 1 THEN NoCross
        ELSE [mask |-> {t \in Tokens : ValidateLine(line(t))},
              fixedSum |-> SumOf(b, Range(run) \ {c}), has |-> TRUE]

\* The tiles that must be put down in the direction d, from c on, before the
\* line touches what is on the board: scanned from the far end.
Contact(b, cross, c, d) ==
    LET carry[i \in Nat] ==
          LET x == Shift(c, d, i) IN
          CASE x \notin Cells -> ContactInf
            [] x \in Cells /\ Occupied(b, x) -> 0
            [] x \in Cells /\ ~Occupied(b, x) /\ cross[x].has -> 1
            [] OTHER -> Min({ContactInf, carry[i + 1] + 1})
    IN  carry[0]

AnchorAt(b, c) == ~Occupied(b, c) /\ \E n \in Neighbours(c) : Occupied(b, n)
HashOf(b) == {<<c, b[c]>> : c \in DOMAIN b}
Xor(a, b) == (a \ b) \cup (b \ a)

\* Everything that follows from a board and its cross checks.
Caches(b, crossV, crossH) ==
    [crossV |-> crossV, crossH |-> crossH,
     contactH |-> [c \in Cells |-> Contact(b, crossV, c, Across)],
     contactV |-> [c \in Cells |-> Contact(b, crossH, c, Down)],
     anchor |-> {c \in Cells : AnchorAt(b, c)},
     hash |-> HashOf(b)]

\* Everything from scratch.
Rebuild(b) == Caches(b, [c \in Cells |-> CrossCell(b, c, Down)], [c \in Cells |-> CrossCell(b, c, Across)])

\* IncrementalBoard::apply after the cells of `placement` have changed and the
\* board has become `b`: cross checks in their columns and rows, anchors at and
\* next to them, contact in their lines and in every line where a cross check
\* came out different.  (Mutant: without the latter.)
RowsOfPlacement(placement, old, new) == {c[1] : c \in DOMAIN placement}
RowsToScan(placement, old, new) ==
    {c[1] : c \in DOMAIN placement \cup {x \in Cells : old[x] # new[x]}}
ColumnsToScan(placement, old, new) ==
    {c[2] : c \in DOMAIN placement \cup {x \in Cells : old[x] # new[x]}}

\* The caches of `inc` with what depends on the placement and on the new cross
\* checks brought up to date.
Refreshed(inc, b, placement, crossV, crossH) ==
    LET cells == DOMAIN placement
        near == cells \cup UNION {Neighbours(c) : c \in cells}
        rows == RowsToScan(placement, inc.crossV, crossV)
        columns == ColumnsToScan(placement, inc.crossH, crossH)
    IN  [crossV |-> crossV, crossH |-> crossH,
         contactH |-> [c \in Cells |-> IF c[1] \in rows THEN Contact(b, crossV, c, Across) ELSE inc.contactH[c]],
         contactV |-> [c \in Cells |-> IF c[2] \in columns THEN Contact(b, crossH, c, Down) ELSE inc.contactV[c]],
         anchor |-> (inc.anchor \ near) \cup {c \in near : AnchorAt(b, c)},
         hash |-> Xor(inc.hash, HashOf(placement))]

ApplyTo(inc, b, placement) ==
    LET cells == DOMAIN placement
        crossV == [c \in Cells |-> IF \E e \in cells : e[2] = c[2] THEN CrossCell(b, c, Down) ELSE inc.crossV[c]]
        crossH == [c \in Cells |-> IF \E e \in cells : e[1] = c[1] THEN CrossCell(b, c, Across) ELSE inc.crossH[c]]
    IN  Refreshed(inc, b, placement, crossV, crossH)

=============================================================================
