---------------------------- MODULE MoveGenerator ----------------------------
(* Enumeration of the placements of a rack: src/src/movegen.cpp.             *)
(*                                                                           *)
(* A pass goes over the lines of one direction.  From every empty cell it    *)
(* puts tiles one after the other into the next empty cell of the line,      *)
(* reading over what is on the board, and emits every line that is complete. *)
(* Cross checks, the automaton of a line and the distance to contact prune;  *)
(* a limit on the nodes cuts the enumeration short.  The deadline cuts it as *)
(* the limit does and is not modelled apart.                                 *)
EXTENDS EquationBoard

CONSTANTS
    None           \* no maintained board

---------------------------------------------------------------------------
(* GenOptions and what an enumeration returns.                              *)

Everything == [dedup |-> FALSE, premiumOrder |-> FALSE, nodeLimit |-> 0,
               starts |-> [across |-> Cells, down |-> Cells]]

NoMoves == [out |-> <<>>, nodes |-> 0, aborted |-> FALSE, truncated |-> FALSE]

Move(placement, score) == [placement |-> placement, score |-> score]
Footprint(m) == {<<c, m.placement[c].kind>> : c \in DOMAIN m.placement}

RackTotal(rack) == MapThenSumSet(LAMBDA k : rack[k], TileKinds)

---------------------------------------------------------------------------
(* The run being built.  `pass` is what does not change during a pass: the   *)
(* board, the direction, the cross checks and the distances to contact.      *)

NewRun(rack) ==
    [rack |-> rack, placed |-> <<>>, tokens |-> <<>>, line |-> NewLine, sum |-> 0, mult |-> 1,
     crossing |-> FALSE, existing |-> FALSE, center |-> FALSE]

Connected(g) == g.existing \/ g.crossing

\* Read the tiles on the board at `cells` into the run.
Absorb(b, g, cells) ==
    LET tokens == TokensOf(b, cells)
        a == AdvanceOver(g.line, tokens)
    IN  [legal |-> a.legal,
         run |-> [g EXCEPT !.tokens = @ \o tokens, !.line = a.st,
                           !.sum = @ + SumOf(b, Range(cells)),
                           !.existing = @ \/ cells # <<>>,
                           !.center = @ \/ <<Center, Center>> \in Range(cells)]]

\* Put a tile of the rack at c.
Put(pass, g, c, tile) ==
    [g EXCEPT !.rack[tile.kind] = @ - 1,
              !.placed = (c :> tile) @@ @,
              !.tokens = Append(@, tile.token),
              !.line = Advanced(@, tile.token),
              !.sum = @ + TilePoints[tile.kind] * TileMult(c),
              !.mult = @ * EquationMult(c),
              !.crossing = @ \/ pass.cross[c].has,
              !.center = @ \/ c = <<Center, Center>>]

CrossScore(pass, c, tile) ==
    LET x == pass.cross[c]
    IN  IF x.has THEN (x.fixedSum + TilePoints[tile.kind] * TileMult(c)) * EquationMult(c) ELSE 0

---------------------------------------------------------------------------
(* emitIfValid.                                                             *)

Single(g) == Cardinality(DOMAIN g.placed) = 1

\* (Mutant: a single tile that crosses nothing counts in both directions.)
EmitsTwice(pass, g) ==
    LET main == Len(g.tokens) >= 2
    IN  /\ main => Complete(g.line) /\ EvaluateLine(g.tokens)
        /\ main \/ g.crossing
        /\ IF pass.board = <<>> THEN g.center ELSE Connected(g)

Emits(pass, g) ==
    LET main == Len(g.tokens) >= 2
    IN  /\ Single(g) => pass.dir = Across
        /\ main => Complete(g.line) /\ EvaluateLine(g.tokens)
        /\ main \/ g.crossing
        /\ IF pass.board = <<>> THEN g.center ELSE Connected(g)

RunScore(pass, g) ==
    (IF Len(g.tokens) >= 2 THEN g.sum * g.mult ELSE 0)
    + MapThenSumSet(LAMBDA c : CrossScore(pass, c, g.placed[c]), DOMAIN g.placed)
    + Bingo(g.placed)

\* With dedup, a footprint keeps its place and its highest score.  (Mutant:
\* a footprint is the cells, whatever tiles are on them.)
KeepByCells(pass, out, m) ==
    LET twins == {i \in DOMAIN out : DOMAIN out[i].placement = DOMAIN m.placement}
    IN  IF ~pass.opts.dedup \/ twins = {} THEN Append(out, m)
        ELSE LET i == CHOOSE j \in twins : TRUE
             IN  IF m.score > out[i].score THEN [out EXCEPT ![i] = m] ELSE out

Keep(pass, out, m) ==
    LET twins == {i \in DOMAIN out : Footprint(out[i]) = Footprint(m)}
    IN  IF ~pass.opts.dedup \/ twins = {} THEN Append(out, m)
        ELSE LET i == CHOOSE j \in twins : TRUE
             IN  IF m.score > out[i].score THEN [out EXCEPT ![i] = m] ELSE out

EmitIfValid(pass, g, acc) ==
    IF Emits(pass, g) THEN [acc EXCEPT !.out = Keep(pass, @, Move(g.placed, RunScore(pass, g)))] ELSE acc

---------------------------------------------------------------------------
(* The search of a line.                                                    *)

\* The run can no longer touch the board, or on the first move the center.
OutOfReach(pass, g, c) ==
    LET left == RackTotal(g.rack)
        at == IF pass.dir = Across THEN c[2] ELSE c[1]
    IN  IF pass.board = <<>>
        THEN ~g.center /\ (at > Center \/ Center - at + 1 > left)
        ELSE ~Connected(g) /\ pass.contact[c] > left

\* The tiles for a cell: kinds in order, and the faces of each.
TilesFor(pass, g, c) ==
    LET tiles == UNION {{<<k, t>> : t \in Assign[k] \cap pass.cross[c].mask} : k \in {j \in TileKinds : g.rack[j] > 0}}
        before(x, y) == x[1] < y[1] \/ (x[1] = y[1] /\ x[2] < y[2])
        sorted == Sorted(tiles, before)
    IN  [i \in DOMAIN sorted |-> Tile(sorted[i][1], sorted[i][2])]

Beyond(b, c, d) == [i \in 1..Reach(b, c, d, 1) |-> Shift(c, d, i)]

RECURSIVE Extend(_, _, _, _)

\* What was read is emitted if it is complete, and goes on at the next cell.
ExtendAt(pass, g, c, acc) ==
    IF c \in Cells /\ RackTotal(g.rack) > 0 THEN Extend(pass, g, c, acc) ELSE acc
GoOn(pass, read, next, acc) ==
    IF read.legal THEN ExtendAt(pass, read.run, next, EmitIfValid(pass, read.run, acc)) ELSE acc

\* One tile at c, what follows it on the board, and what may follow that.  An
\* enumeration that was cut short goes on with the tiles of the cells it is at
\* and only does not go deeper.
TryTile(pass, g, c, tile, acc) ==
    LET beyond == Beyond(pass.board, c, pass.dir)
        read == Absorb(pass.board, Put(pass, g, c, tile), beyond)
    IN  IF CanAdvance(g.line, tile.token)
        THEN GoOn(pass, read, Shift(c, pass.dir, Len(beyond) + 1), acc)
        ELSE acc

Extend(pass, g, c, acc) ==
    CASE acc.aborted -> acc
      [] ~acc.aborted /\ pass.opts.nodeLimit > 0 /\ acc.nodes >= pass.opts.nodeLimit ->
           [acc EXCEPT !.aborted = TRUE, !.truncated = TRUE]
      [] OTHER ->
           LET visited == [acc EXCEPT !.nodes = @ + 1]
           IN  IF OutOfReach(pass, g, c) THEN visited
               ELSE FoldLeft(LAMBDA x, tile : TryTile(pass, g, c, tile, x), visited, TilesFor(pass, g, c))

\* All placements whose first new tile is at c, after what the board has there.
ExtendFrom(pass, prefix, c, acc) ==
    IF prefix.legal THEN Extend(pass, prefix.run, c, acc) ELSE acc
StartAt(pass, rack, c, acc) ==
    LET n == Reach(pass.board, c, pass.dir, -1)
        before == [i \in 1..n |-> Shift(c, pass.dir, i - 1 - n)]
    IN  ExtendFrom(pass, Absorb(pass.board, NewRun(rack), before), c, acc)

---------------------------------------------------------------------------
(* Passes.                                                                  *)

PremiumWeight(c) ==
    CASE Premium[c] = "ex3" -> 27 [] Premium[c] = "ex2" -> 8 [] Premium[c] = "px3" -> 5
      [] Premium[c] = "px2" -> 3 [] OTHER -> 1

\* The best premium the rack could reach from c on.
AnchorPriority(b, c, d, rack) ==
    LET line == [i \in 0..BoardSize - 1 |-> Shift(c, d, i)]
        free(i) == line[i] \in Cells /\ ~Occupied(b, line[i])
        reachable == {i \in 0..BoardSize - 1 :
                        free(i) /\ Cardinality({j \in 0..i : free(j)}) <= RackTotal(rack)}
    IN  IF reachable = {} THEN 0 ELSE Max({PremiumWeight(line[i]) : i \in reachable})

\* On an empty board only the line through the center is worth starting on.
Starts(b, d, rack, opts) ==
    LET allowed == IF d = Across THEN opts.starts.across ELSE opts.starts.down
        line == IF d = Across THEN {c \in Cells : c[1] = Center} ELSE {c \in Cells : c[2] = Center}
        cells == (IF b = <<>> THEN line ELSE Cells \ DOMAIN b) \cap allowed
        weight(c) == IF opts.premiumOrder /\ b # <<>> THEN AnchorPriority(b, c, d, rack) ELSE 0
        keyed == {<<weight(c), c[1] * BoardSize + c[2], c>> : c \in cells}
        sorted == Sorted(keyed, LAMBDA x, y : x[1] > y[1] \/ (x[1] = y[1] /\ x[2] < y[2]))
    IN  [i \in DOMAIN sorted |-> sorted[i][3]]

\* loadCrossContact: what is maintained of the board, or all of it anew.
LoadCrossContact(b, inc) == IF inc = None THEN Rebuild(b) ELSE inc

RunPass(b, known, rack, opts, d, acc) ==
    LET pass == [board |-> b, dir |-> d, opts |-> opts,
                 cross |-> IF d = Across THEN known.crossV ELSE known.crossH,
                 contact |-> IF d = Across THEN known.contactH ELSE known.contactV]
    IN  FoldLeft(LAMBDA x, c : IF x.aborted THEN x ELSE StartAt(pass, rack, c, x),
                 [acc EXCEPT !.aborted = FALSE], Starts(b, d, rack, opts))

\* Every placement of the rack, across and then down.
BothPasses(b, known, rack, opts) ==
    RunPass(b, known, rack, opts, Down, RunPass(b, known, rack, opts, Across, NoMoves))
GeneratePlaceMoves(b, inc, rack, opts) == BothPasses(b, LoadCrossContact(b, inc), rack, opts)

=============================================================================
