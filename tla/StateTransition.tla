--------------------------- MODULE StateTransition --------------------------
(***************************************************************************)
(* The rules of a two-player game as the search applies them               *)
(* (src/state_transition.cpp): placements, exchanges, passes, the draw     *)
(* from the bag and the two endings, from the deal of selfplay.hpp and     *)
(* through the hidden worlds of src/world_deck.cpp.                        *)
(*                                                                         *)
(* A tile is a physical tile; how many copies of a kind there are is in    *)
(* Tiles and Points.  The bag is drawn from in an order that is shuffled   *)
(* and known to nobody, so a draw takes any tiles of it.  Where a          *)
(* placement lies and what it scores is an input: the rules of equations   *)
(* decide it, and the transition refuses what they refuse, without a       *)
(* change of the state.                                                    *)
(***************************************************************************)
EXTENDS Integers, FiniteSets, Functions

CONSTANTS
    Tiles, Points,        \* the closed set of tiles, and what each is worth
    RackSize,             \* RACK_SIZE
    ExchangeMinReserve,   \* EXCHANGE_MIN_RESERVE
    NoScoreStreakLength,  \* NO_SCORE_STREAK_LENGTH
    MoveScores,           \* what a placement may score
    StreakCap             \* bound of the model: no score before the opening

ASSUME TilesAssumption ==
    /\ IsFiniteSet(Tiles) /\ Points \in [Tiles -> Nat]
    /\ RackSize \in Nat \ {0} /\ Cardinality(Tiles) >= 2 * RackSize
    /\ ExchangeMinReserve \in Nat \ {0}
    /\ NoScoreStreakLength \in Nat \ {0}
    /\ MoveScores \subseteq Nat
    /\ StreakCap \in Nat /\ StreakCap >= NoScoreStreakLength

VARIABLES
    board,          \* tiles that lie on the board
    racks,
    bag,
    pendingReturn,  \* tiles that were exchanged and are not back in the bag
    scores,
    noScoreStreak,
    openingPlacementCompleted,
    sideToMove,
    terminalReason  \* "None" while the game goes on

vars == <<board, racks, bag, pendingReturn, scores, noScoreStreak,
          openingPlacementCompleted, sideToMove, terminalReason>>

Sides == {0, 1}
Other(side) == 1 - side
Terminal == terminalReason # "None"

Fewer(m, n) == IF m < n THEN m ELSE n

\* points() of a rack.
Worth(tiles) == SumFunctionOnSet(Points, tiles)

\* Both sides draw a full rack from the shuffled tiles.
Init ==
    \E first \in SUBSET Tiles : \E second \in SUBSET (Tiles \ first) :
        /\ Cardinality(first) = RackSize /\ Cardinality(second) = RackSize
        /\ board = {}
        /\ racks = [side \in Sides |-> IF side = 0 THEN first ELSE second]
        /\ bag = Tiles \ (first \cup second)
        /\ pendingReturn = [side \in Sides |-> {}]
        /\ scores = [side \in Sides |-> 0]
        /\ noScoreStreak = 0
        /\ openingPlacementCompleted = FALSE
        /\ sideToMove \in Sides
        /\ terminalReason = "None"

-----------------------------------------------------------------------------
(* Draws and endings                                                       *)

\* Mutant of Refill: the returned tiles are lost.
RefillLosingReturns(side, kept, returned) ==
    \E drawn \in SUBSET bag :
        /\ Cardinality(drawn) = Fewer(RackSize - Cardinality(kept), Cardinality(bag))
        /\ racks' = [racks EXCEPT ![side] = kept \cup drawn]
        /\ bag' = bag \ drawn

\* refill: draws up to a full rack or an empty bag, and only then puts the
\* exchanged tiles back.
Refill(side, kept, returned) ==
    \E drawn \in SUBSET bag :
        /\ Cardinality(drawn) = Fewer(RackSize - Cardinality(kept), Cardinality(bag))
        /\ racks' = [racks EXCEPT ![side] = kept \cup drawn]
        /\ bag' = (bag \ drawn) \cup returned

\* finishNoScoreGame, for the racks after the action: the lighter rack gains
\* the difference.
FinishNoScoreGame ==
    /\ terminalReason' = "NoScoreStreak"
    /\ scores' = [side \in Sides |->
                    LET lead == Worth(racks'[Other(side)]) - Worth(racks'[side])
                    IN  scores[side] + IF lead > 0 THEN lead ELSE 0]

\* Mutant of RackOut: a rest that fills a rack is played on.
RackOutLate(side, kept) ==
    kept = {} /\ Cardinality(racks[Other(side)]) + Cardinality(bag) < RackSize

\* The last tile was placed, and what is left fits a rack.
RackOut(side, kept) ==
    kept = {} /\ Cardinality(racks[Other(side)]) + Cardinality(bag) <= RackSize

\* Six actions without a score end a game that has been opened.
StreakEnds == openingPlacementCompleted /\ noScoreStreak + 1 >= NoScoreStreakLength

\* The guards every action begins with.
Ready(side) ==
    /\ ~ Terminal
    /\ side = sideToMove
    /\ \A s \in Sides : pendingReturn[s] = {}

-----------------------------------------------------------------------------
(* apply, one action for each type of move                                 *)

\* A placement ends the streak, and the game when it was the last.
Place(side, used, score) ==
    LET kept == racks[side] \ used
    IN  /\ Ready(side)
        /\ used # {} /\ used \subseteq racks[side]
        /\ board' = board \cup used
        /\ openingPlacementCompleted' = TRUE
        /\ noScoreStreak' = 0
        /\ UNCHANGED pendingReturn
        /\ IF RackOut(side, kept)
             THEN /\ racks' = [racks EXCEPT ![side] = kept]
                  /\ scores' = [scores EXCEPT
                       ![side] = @ + score + 2 * (Worth(racks[Other(side)]) + Worth(bag))]
                  /\ terminalReason' = "RackOut"
                  /\ UNCHANGED <<bag, sideToMove>>
             ELSE /\ Refill(side, kept, {})
                  /\ scores' = [scores EXCEPT ![side] = @ + score]
                  /\ sideToMove' = Other(side)
                  /\ UNCHANGED terminalReason

\* Enough tiles are unseen beyond a rack.
MayExchange(side) ==
    Cardinality(bag) + Cardinality(racks[Other(side)]) - RackSize >= ExchangeMinReserve

\* Mutant of Exchange: the streak is left alone.
ExchangeKeepsStreak(side, given) ==
    /\ Ready(side)
    /\ given # {} /\ given \subseteq racks[side]
    /\ MayExchange(side)
    /\ Refill(side, racks[side] \ given, given)
    /\ sideToMove' = Other(side)
    /\ UNCHANGED <<board, pendingReturn, scores, noScoreStreak, openingPlacementCompleted,
                   terminalReason>>

\* A game that ends here leaves the exchanged tiles pending.
Exchange(side, given) ==
    LET kept == racks[side] \ given
    IN  /\ Ready(side)
        /\ given # {} /\ given \subseteq racks[side]
        /\ MayExchange(side)
        /\ noScoreStreak < StreakCap
        /\ noScoreStreak' = noScoreStreak + 1
        /\ UNCHANGED <<board, openingPlacementCompleted>>
        /\ IF StreakEnds
             THEN /\ racks' = [racks EXCEPT ![side] = kept]
                  /\ pendingReturn' = [pendingReturn EXCEPT ![side] = given]
                  /\ FinishNoScoreGame
                  /\ UNCHANGED <<bag, sideToMove>>
             ELSE /\ Refill(side, kept, given)
                  /\ sideToMove' = Other(side)
                  /\ UNCHANGED <<pendingReturn, scores, terminalReason>>

Pass(side) ==
    /\ Ready(side)
    /\ noScoreStreak < StreakCap
    /\ noScoreStreak' = noScoreStreak + 1
    /\ UNCHANGED <<board, racks, bag, pendingReturn, openingPlacementCompleted>>
    /\ IF StreakEnds
         THEN FinishNoScoreGame /\ UNCHANGED sideToMove
         ELSE sideToMove' = Other(side) /\ UNCHANGED <<scores, terminalReason>>

\* WorldDeck::build and makeWorldState: a search of the side to move goes on
\* in a hidden world, where the tiles it cannot see lie otherwise.
SampleWorld(side, hidden) ==
    LET unseen == racks[Other(side)] \cup bag
    IN  /\ Ready(side)
        /\ hidden \subseteq unseen
        /\ Cardinality(hidden) = Cardinality(racks[Other(side)])
        /\ racks' = [racks EXCEPT ![Other(side)] = hidden]
        /\ bag' = unseen \ hidden
        /\ UNCHANGED <<board, pendingReturn, scores, noScoreStreak, openingPlacementCompleted,
                       sideToMove, terminalReason>>

Apply(side) ==
    \/ \E used \in SUBSET racks[side], score \in MoveScores : Place(side, used, score)
    \/ \E given \in SUBSET racks[side] : Exchange(side, given)
    \/ Pass(side)

Next == \E side \in Sides :
    \/ Apply(side)
    \/ \E hidden \in SUBSET (racks[Other(side)] \cup bag) : SampleWorld(side, hidden)

Spec == Init /\ [][Next]_vars

\* A game is played on while it has not ended.
FairSpec == Spec /\ WF_vars(\E side \in Sides : Apply(side))
-----------------------------------------------------------------------------
(* Properties                                                              *)

\* The tiles are one closed set: every tile is in exactly one of the board,
\* the racks, the bag and the returns, through draws, exchanges, sampled
\* worlds and both endings.
TilesConserved ==
    /\ \A t \in Tiles : \/ t \in board \cup bag
                        \/ \E s \in Sides : t \in racks[s] \cup pendingReturn[s]
    /\ board \cap bag = {}
    /\ \A s \in Sides :
          /\ (racks[s] \cup pendingReturn[s]) \cap (board \cup bag) = {}
          /\ racks[s] \cap pendingReturn[s] = {}
    /\ (racks[0] \cup pendingReturn[0]) \cap (racks[1] \cup pendingReturn[1]) = {}

\* Whoever is to move may move: no return is pending while the game goes on,
\* which apply would refuse, and no rack is empty.  The rack-out rule ends the
\* game in time, and the reserve keeps an exchange from emptying a rack.
ActionReady ==
    ~ Terminal => \A s \in Sides : pendingReturn[s] = {} /\ racks[s] # {}

\* An opened game ends with its streak, however long the players passed
\* before the opening, when the streak ends nothing.
StreakEndsOpenedGame ==
    openingPlacementCompleted /\ ~ Terminal => noScoreStreak < NoScoreStreakLength

\* An exchange draws as many tiles as it gives.  The code does not promise it:
\* the reserve counts the opponent's rack, and a bag that is smaller than the
\* exchange leaves a shorter rack.
ExchangeDrawsSameCount ==
    [][(racks' # racks /\ board' = board /\ pendingReturn' = pendingReturn
          /\ sideToMove' # sideToMove)
         => \A s \in Sides : Cardinality(racks'[s]) = Cardinality(racks[s])]_vars

\* A game that has been opened ends.
OpenedGameEnds == openingPlacementCompleted ~> Terminal

=============================================================================
