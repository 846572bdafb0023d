------------------------------ MODULE MoveTree ------------------------------
(* What the searches do with a board: generate, make a move, search on, take *)
(* it back -- makeMove and undoMove of src/src/inc_board.hpp around the      *)
(* enumeration of src/src/movegen.cpp.  Next to it, from the empty board,    *)
(* the automaton of a line is fed tokens, legal or not.                      *)
EXTENDS MoveGenerator

CONSTANTS
    Boards,        \* positions to start from
    Racks,         \* racks to generate for
    Limits,        \* node limits to generate under
    MaxDepth,      \* bound: moves made and not taken back
    MaxTiles,      \* bound: no move on a board with more tiles
    MaxWord,       \* bound: tokens of a line
    LongTokens,    \* the few tokens of longer lines
    MaxLongWord    \* bound: tokens of a line of these

VARIABLES
    board,
    inc,           \* what IncrementalBoard maintains
    made,          \* the moves to be taken back, last one last
    word           \* tokens read as a line

vars == <<board, inc, made, word>>

Init ==
    /\ board \in Boards /\ inc = Rebuild(board)
    /\ made = <<>> /\ word = <<>>

MakeMove ==
    /\ word = <<>> /\ Len(made) < MaxDepth /\ Cardinality(DOMAIN board) <= MaxTiles
    /\ \E rack \in Racks : \E m \in Range(GeneratePlaceMoves(board, inc, rack, Everything).out) :
         /\ board' = m.placement @@ board
         /\ inc' = ApplyTo(inc, board', m.placement)
         /\ made' = Append(made, m.placement)
    /\ UNCHANGED word

UndoMove ==
    /\ made # <<>>
    /\ LET placement == Last(made)
       IN  /\ board' = Restrict(board, DOMAIN board \ DOMAIN placement)
           /\ inc' = ApplyTo(inc, board', placement)
    /\ made' = Front(made)
    /\ UNCHANGED word

ReadToken ==
    /\ board = <<>>
    /\ \E t \in Tokens : word' = Append(word, t)
    /\ \/ Len(word') <= MaxWord
       \/ Len(word') <= MaxLongWord /\ Range(word') \subseteq LongTokens
    /\ UNCHANGED <<board, inc, made>>

Next == MakeMove \/ UndoMove \/ ReadToken
Spec == Init /\ [][Next]_vars

---------------------------------------------------------------------------
(* Properties.                                                              *)

\* Whatever was made and taken back, in lines that cross or only pass by, what
\* is maintained is what a fresh board would have: IncrementalBoard's
\* assertConsistent, which no release build runs.
IncConsistent == word = <<>> => inc = Rebuild(board)

\* The placements of a rack by the rules alone: any of its tiles, any faces,
\* on any empty cells of a line.
Lines == {{c \in Cells : c[i] = n} : i \in {1, 2}, n \in 0..BoardSize - 1}
CellSets(b, n) ==
    {s \in UNION {UNION {kSubset(k, line \ DOMAIN b) : k \in 1..n} : line \in Lines} :
        /\ NoGaps(b, s)
        /\ b = <<>> \/ \E c \in s : \E e \in Neighbours(c) : Occupied(b, e)}
TilesOf(rack) == UNION {{Tile(k, t) : t \in Assign[k]} : k \in {j \in TileKinds : rack[j] > 0}}
Affords(rack, p) == \A k \in TileKinds : Cardinality({c \in DOMAIN p : p[c].kind = k}) <= rack[k]
LegalMoves(b, rack) ==
    {Move(p, ScoreOf(b, p)) :
       p \in {q \in UNION {[s -> TilesOf(rack)] : s \in CellSets(b, RackTotal(rack))} :
                Affords(rack, q) /\ Legal(b, q)}}

\* A single operator other than "-" that joins a column and no row.
LoneOperator(b, m) ==
    /\ Cardinality(DOMAIN m.placement) = 1
    /\ \A c \in DOMAIN m.placement :
         /\ Len(Run(m.placement @@ b, c, Across)) = 1
         /\ IsOperator(m.placement[c].token) /\ m.placement[c].token # TSUB

FindsOnce(out, all) == IsInjective(out) /\ Range(out) = all

\* The enumeration finds exactly what the rules allow, each placement once and
\* at the score the validator gives it: what its pruning by cross checks, by
\* the automaton and by distance to contact cuts off could not have become
\* legal -- but for a lone operator.  Where lines were read, there is nothing
\* new to enumerate.
GeneratesAllButLoneOperators ==
    word = <<>> => \A rack \in Racks :
        FindsOnce(GeneratePlaceMoves(board, inc, rack, Everything).out,
                  {m \in LegalMoves(board, rack) : ~LoneOperator(board, m)})

\* "Complete legal-move enumeration" (src/src/movegen.hpp): the claim without
\* the exception.  The code does not keep it: the one pass that may place a
\* single tile reads it as the start of a row, which no operator but "-" is.
GeneratesEveryLegalMove ==
    word = <<>> => \A rack \in Racks :
        LegalMoves(board, rack) \subseteq Range(GeneratePlaceMoves(board, inc, rack, Everything).out)

\* Ways to do less, and what each of them finds.
OneFace == [Everything EXCEPT !.dedup = TRUE]
ByPremium == [Everything EXCEPT !.premiumOrder = TRUE]
TopRows == {c \in Cells : c[1] <= Center}
FromTopRows == [Everything EXCEPT !.starts.across = TopRows, !.starts.down = {}]
Within(n) == [Everything EXCEPT !.nodeLimit = n]

HonestOver(found) ==
    LET all == Range(found[Everything].out)
        best == found[OneFace].out
        start(m) == CHOOSE c \in DOMAIN m.placement :
                      \A e \in DOMAIN m.placement : c[1] <= e[1] /\ c[2] <= e[2]
        isAcross(m) == \A c, e \in DOMAIN m.placement : c[1] = e[1]
    IN  /\ \A n \in Limits :
             /\ Range(found[Within(n)].out) \subseteq all
             /\ found[Within(n)].nodes <= n
             /\ found[Within(n)].truncated \/ found[Within(n)].out = found[Everything].out
        /\ Range(found[ByPremium].out) = all
        /\ Range(best) \subseteq all
        /\ Cardinality({Footprint(m) : m \in all}) = Len(best)
        /\ \A m \in all : \E i \in DOMAIN best :
             Footprint(best[i]) = Footprint(m) /\ m.score <= best[i].score
        /\ Range(found[FromTopRows].out) = {m \in all : isAcross(m) /\ start(m) \in TopRows}

\* Every way to do less finds less of the same: a node limit cuts to a part of
\* the whole and says so unless nothing is missing; an order by premium changes
\* the order alone; one face per footprint is the best of its faces; a
\* restriction to start cells gives what starts there.
LimitsAreHonest ==
    word = <<>> => \A rack \in Racks :
        HonestOver([opts \in {Everything, OneFace, ByPremium, FromTopRows} \cup {Within(n) : n \in Limits} |->
                      GeneratePlaceMoves(board, inc, rack, opts)])

\* The automaton and the two passes of the evaluation accept exactly the lines
\* the rules describe.
LineAgreement == LineAgrees(word)

=============================================================================
