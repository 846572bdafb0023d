------------------------ MODULE StateTransitionProofs -----------------------
(***************************************************************************)
(* Proofs about the rules of the game, for every set of tiles, size of the *)
(* racks, reserve and length of the streak.                                *)
(*                                                                         *)
(* What a set of tiles is worth is a sum, and that it is a number needs    *)
(* induction over the set; so the scores are left out of Typed.            *)
(***************************************************************************)
EXTENDS StateTransition, FiniteSetTheorems, TLAPS

Typed ==
    /\ board \in SUBSET Tiles /\ bag \in SUBSET Tiles
    /\ racks \in [Sides -> SUBSET Tiles]
    /\ \A side \in Sides : Cardinality(racks[side]) <= RackSize
    /\ pendingReturn \in [Sides -> SUBSET Tiles]
    /\ noScoreStreak \in Nat
    /\ openingPlacementCompleted \in BOOLEAN
    /\ sideToMove \in Sides
    /\ terminalReason \in {"None", "RackOut", "NoScoreStreak"}

\* The inductive invariant.  That no rack is empty needs the sizes of the racks
\* and that rack and bag are apart; the conservation of the tiles needs that
\* nothing is pending when an action begins.
GameInv == Typed /\ TilesConserved /\ ActionReady /\ StreakEndsOpenedGame

-----------------------------------------------------------------------------
(* Counting and drawing                                                    *)

LEMMA Counting ==
    ASSUME NEW S \in SUBSET Tiles
    PROVE  /\ IsFiniteSet(S)
           /\ Cardinality(S) \in Nat
           /\ Cardinality(S) = 0 <=> S = {}
<1>1. IsFiniteSet(S)
  BY FS_Subset, TilesAssumption
<1> QED
  BY <1>1, FS_CardinalityType, FS_EmptySet

LEMMA PartIsSmaller ==
    ASSUME NEW S \in SUBSET Tiles, NEW T \in SUBSET S
    PROVE  T \in SUBSET Tiles /\ Cardinality(T) <= Cardinality(S)
BY Counting, FS_Subset

\* A draw neither overfills the rack nor leaves it empty when there was
\* something to keep or to draw.
LEMMA DrawFits ==
    ASSUME NEW kept \in SUBSET Tiles, NEW stock \in SUBSET Tiles, NEW drawn \in SUBSET stock,
           Cardinality(kept) <= RackSize,
           Cardinality(drawn) = Fewer(RackSize - Cardinality(kept), Cardinality(stock))
    PROVE  /\ Cardinality(kept \cup drawn) <= RackSize
           /\ kept # {} \/ stock # {} => kept \cup drawn # {}
<1>1. /\ IsFiniteSet(kept) /\ IsFiniteSet(drawn)
      /\ Cardinality(kept) \in Nat /\ Cardinality(drawn) \in Nat /\ Cardinality(stock) \in Nat
      /\ kept \cap drawn \in SUBSET Tiles
  BY Counting
<1>2. Cardinality(kept \cap drawn) \in Nat
  BY <1>1, Counting
<1>3. Cardinality(kept \cup drawn)
        = Cardinality(kept) + Cardinality(drawn) - Cardinality(kept \cap drawn)
  BY <1>1, FS_Union
<1>4. Cardinality(drawn) <= RackSize - Cardinality(kept)
  BY <1>1, TilesAssumption DEF Fewer
<1>5. kept = {} /\ stock # {} => Cardinality(drawn) > 0
  BY <1>1, Counting, TilesAssumption DEF Fewer
<1>6. kept = {} /\ stock # {} => drawn # {}
  BY <1>1, <1>5, Counting
<1> QED
  BY <1>1, <1>2, <1>3, <1>4, <1>6, TilesAssumption

LEMMA OtherSide ==
    ASSUME NEW side \in Sides
    PROVE  Other(side) \in Sides /\ Other(side) # side
BY DEF Sides, Other

-----------------------------------------------------------------------------
(* The inductive invariant                                                 *)

LEMMA InitGameInv == Init => GameInv
<1> SUFFICES ASSUME Init PROVE GameInv
  OBVIOUS
<1>1. PICK first \in SUBSET Tiles : \E second \in SUBSET (Tiles \ first) :
        /\ Cardinality(first) = RackSize /\ Cardinality(second) = RackSize
        /\ board = {}
        /\ racks = [side \in Sides |-> IF side = 0 THEN first ELSE second]
        /\ bag = Tiles \ (first \cup second)
        /\ pendingReturn = [side \in Sides |-> {}]
        /\ noScoreStreak = 0
        /\ openingPlacementCompleted = FALSE
        /\ sideToMove \in Sides
        /\ terminalReason = "None"
  BY DEF Init
<1>2. PICK second \in SUBSET (Tiles \ first) :
        /\ Cardinality(first) = RackSize /\ Cardinality(second) = RackSize
        /\ board = {}
        /\ racks = [side \in Sides |-> IF side = 0 THEN first ELSE second]
        /\ bag = Tiles \ (first \cup second)
        /\ pendingReturn = [side \in Sides |-> {}]
        /\ noScoreStreak = 0
        /\ openingPlacementCompleted = FALSE
        /\ sideToMove \in Sides
        /\ terminalReason = "None"
  BY <1>1
<1>3. racks[0] = first /\ racks[1] = second /\ pendingReturn[0] = {} /\ pendingReturn[1] = {}
  BY <1>2 DEF Sides
<1>4. Typed
  <2>1. \A side \in Sides : Cardinality(racks[side]) <= RackSize
    BY <1>2, <1>3, TilesAssumption DEF Sides
  <2>2. racks \in [Sides -> SUBSET Tiles] /\ pendingReturn \in [Sides -> SUBSET Tiles]
    BY <1>2
  <2>3. board \in SUBSET Tiles /\ bag \in SUBSET Tiles /\ noScoreStreak \in Nat
    BY <1>2
  <2> QED
    BY <1>2, <2>1, <2>2, <2>3 DEF Typed
<1>5. TilesConserved
  BY <1>2, <1>3 DEF TilesConserved, Sides
<1>6. first # {} /\ second # {}
  BY <1>2, FS_EmptySet, TilesAssumption
<1>7. ActionReady
  BY <1>3, <1>6 DEF ActionReady, Sides
<1>8. StreakEndsOpenedGame
  BY <1>2 DEF StreakEndsOpenedGame
<1> QED
  BY <1>4, <1>5, <1>7, <1>8 DEF GameInv

LEMMA PlacePreserves ==
    ASSUME GameInv, NEW side \in Sides, NEW used, NEW score, Place(side, used, score)
    PROVE  GameInv'
<1> DEFINE kept == racks[side] \ used
           them == Other(side)
<1>1. /\ terminalReason = "None" /\ pendingReturn[0] = {} /\ pendingReturn[1] = {}
      /\ used # {} /\ used \subseteq racks[side]
      /\ board' = board \cup used
      /\ openingPlacementCompleted' = TRUE /\ noScoreStreak' = 0 /\ pendingReturn' = pendingReturn
  BY DEF Place, Ready, Terminal, Sides
<1>2. /\ Typed /\ TilesConserved /\ them \in Sides /\ them # side
      /\ racks[side] \in SUBSET Tiles /\ racks[them] \in SUBSET Tiles /\ racks[them] # {}
      /\ Cardinality(racks[them]) <= RackSize /\ Cardinality(racks[side]) <= RackSize
  BY <1>1, OtherSide DEF GameInv, Typed, ActionReady, Terminal
<1>3. kept \in SUBSET Tiles /\ Cardinality(kept) <= RackSize
  BY <1>2, PartIsSmaller, Counting, TilesAssumption
<1>4. StreakEndsOpenedGame'
  BY <1>1, TilesAssumption DEF StreakEndsOpenedGame
<1>5. CASE RackOut(side, kept)
  <2>1. /\ racks' = [racks EXCEPT ![side] = kept] /\ bag' = bag /\ sideToMove' = sideToMove
        /\ terminalReason' = "RackOut"
    BY <1>5 DEF Place
  <2>2. Typed'
    BY <1>1, <1>2, <1>3, <2>1 DEF Typed
  <2>3. TilesConserved'
    BY <1>1, <1>2, <2>1 DEF TilesConserved, Typed, Sides
  <2>4. ActionReady'
    BY <2>1 DEF ActionReady, Terminal
  <2> QED
    BY <1>4, <2>2, <2>3, <2>4 DEF GameInv
<1>6. CASE ~ RackOut(side, kept)
  <2>1. Refill(side, kept, {}) /\ sideToMove' = them /\ terminalReason' = terminalReason
    BY <1>6 DEF Place
  <2>2. PICK drawn \in SUBSET bag :
            /\ Cardinality(drawn) = Fewer(RackSize - Cardinality(kept), Cardinality(bag))
            /\ racks' = [racks EXCEPT ![side] = kept \cup drawn]
            /\ bag' = (bag \ drawn) \cup {}
    BY <2>1 DEF Refill
  <2>3. /\ Cardinality(kept \cup drawn) <= RackSize
        /\ kept # {} \/ bag # {} => kept \cup drawn # {}
    <3>1. bag \in SUBSET Tiles
      BY <1>2 DEF Typed
    <3> HIDE DEF kept
    <3> QED
      BY <1>3, <2>2, <3>1, DrawFits
  <2>4. Typed'
    BY <1>1, <1>2, <1>3, <2>1, <2>2, <2>3 DEF Typed
  <2>5. TilesConserved'
    BY <1>1, <1>2, <2>2 DEF TilesConserved, Typed, Sides
  <2>6. kept # {} \/ bag # {}
    <3> SUFFICES ASSUME kept = {}, bag = {} PROVE FALSE
      OBVIOUS
    <3>1. Cardinality(bag) = 0 /\ Cardinality(racks[them]) \in Nat
      BY <1>2, FS_EmptySet, Counting
    <3> QED
      BY <1>2, <1>6, <3>1 DEF RackOut
  <2>7. ActionReady'
    BY <1>1, <1>2, <2>1, <2>2, <2>3, <2>6 DEF ActionReady, GameInv, Terminal, Typed
  <2> QED
    BY <1>4, <2>4, <2>5, <2>7 DEF GameInv
<1> QED
  BY <1>5, <1>6

LEMMA ExchangePreserves ==
    ASSUME GameInv, NEW side \in Sides, NEW given, Exchange(side, given)
    PROVE  GameInv'
<1> DEFINE kept == racks[side] \ given
           them == Other(side)
<1>1. /\ terminalReason = "None" /\ pendingReturn[0] = {} /\ pendingReturn[1] = {}
      /\ given # {} /\ given \subseteq racks[side]
      /\ board' = board /\ openingPlacementCompleted' = openingPlacementCompleted
      /\ noScoreStreak' = noScoreStreak + 1
      /\ MayExchange(side)
  BY DEF Exchange, Ready, Terminal, Sides
<1>2. /\ Typed /\ TilesConserved /\ them \in Sides /\ them # side
      /\ racks[side] \in SUBSET Tiles /\ racks[them] \in SUBSET Tiles /\ racks[them] # {}
      /\ Cardinality(racks[them]) <= RackSize /\ Cardinality(racks[side]) <= RackSize
      /\ noScoreStreak \in Nat
  BY <1>1, OtherSide DEF GameInv, Typed, ActionReady, Terminal
<1>3. kept \in SUBSET Tiles /\ Cardinality(kept) <= RackSize
  BY <1>2, PartIsSmaller, Counting, TilesAssumption
<1>4. CASE StreakEnds
  <2>1. /\ racks' = [racks EXCEPT ![side] = kept] /\ bag' = bag /\ sideToMove' = sideToMove
        /\ pendingReturn' = [pendingReturn EXCEPT ![side] = given]
        /\ terminalReason' = "NoScoreStreak"
    BY <1>4 DEF Exchange, FinishNoScoreGame
  <2>2. Typed'
    BY <1>1, <1>2, <1>3, <2>1 DEF Typed
  <2>3. TilesConserved'
    BY <1>1, <1>2, <2>1 DEF TilesConserved, Typed, Sides
  <2>4. ActionReady' /\ StreakEndsOpenedGame'
    BY <2>1 DEF ActionReady, StreakEndsOpenedGame, Terminal
  <2> QED
    BY <2>2, <2>3, <2>4 DEF GameInv
<1>5. CASE ~ StreakEnds
  <2>1. /\ Refill(side, kept, given) /\ sideToMove' = them
        /\ pendingReturn' = pendingReturn /\ terminalReason' = terminalReason
    BY <1>5 DEF Exchange
  <2>2. PICK drawn \in SUBSET bag :
            /\ Cardinality(drawn) = Fewer(RackSize - Cardinality(kept), Cardinality(bag))
            /\ racks' = [racks EXCEPT ![side] = kept \cup drawn]
            /\ bag' = (bag \ drawn) \cup given
    BY <2>1 DEF Refill
  <2>3. /\ Cardinality(kept \cup drawn) <= RackSize
        /\ kept # {} \/ bag # {} => kept \cup drawn # {}
    <3>1. bag \in SUBSET Tiles
      BY <1>2 DEF Typed
    <3> HIDE DEF kept
    <3> QED
      BY <1>3, <2>2, <3>1, DrawFits
  <2>4. Typed'
    BY <1>1, <1>2, <1>3, <2>1, <2>2, <2>3 DEF Typed
  <2>5. TilesConserved'
    BY <1>1, <1>2, <2>1, <2>2 DEF TilesConserved, Typed, Sides
  <2>6. bag # {}
    <3>1. bag = {} => Cardinality(bag) = 0
      BY FS_EmptySet
    <3>2. Cardinality(racks[them]) \in Nat /\ Cardinality(bag) \in Nat
      BY <1>2, Counting DEF Typed
    <3> QED
      BY <1>1, <1>2, <3>1, <3>2, TilesAssumption DEF MayExchange
  <2>7. ActionReady'
    BY <1>1, <1>2, <2>1, <2>2, <2>3, <2>6 DEF ActionReady, GameInv, Terminal, Typed
  <2>8. StreakEndsOpenedGame'
    BY <1>1, <1>2, <1>5, TilesAssumption DEF StreakEndsOpenedGame, StreakEnds
  <2> QED
    BY <2>4, <2>5, <2>7, <2>8 DEF GameInv
<1> QED
  BY <1>4, <1>5

LEMMA PassPreserves ==
    ASSUME GameInv, NEW side \in Sides, Pass(side)
    PROVE  GameInv'
<1>1. /\ UNCHANGED <<board, racks, bag, pendingReturn, openingPlacementCompleted>>
      /\ noScoreStreak' = noScoreStreak + 1
      /\ sideToMove' \in Sides /\ terminalReason' \in {"None", "NoScoreStreak"}
      /\ terminalReason' = "None" => ~ StreakEnds /\ terminalReason = "None"
  BY OtherSide DEF Pass, Ready, Terminal, FinishNoScoreGame, GameInv, Typed
<1>2. Typed'
  BY <1>1 DEF GameInv, Typed
<1>3. TilesConserved'
  BY <1>1 DEF GameInv, TilesConserved
<1>4. ActionReady'
  BY <1>1 DEF GameInv, ActionReady, Terminal
<1>5. StreakEndsOpenedGame'
  BY <1>1, TilesAssumption DEF GameInv, Typed, StreakEndsOpenedGame, StreakEnds, Terminal
<1> QED
  BY <1>2, <1>3, <1>4, <1>5 DEF GameInv

LEMMA SampleWorldPreserves ==
    ASSUME GameInv, NEW side \in Sides, NEW hidden, SampleWorld(side, hidden)
    PROVE  GameInv'
<1> DEFINE them == Other(side)
<1>1. /\ hidden \subseteq racks[them] \cup bag
      /\ Cardinality(hidden) = Cardinality(racks[them])
      /\ racks' = [racks EXCEPT ![them] = hidden]
      /\ bag' = (racks[them] \cup bag) \ hidden
      /\ UNCHANGED <<board, pendingReturn, noScoreStreak, openingPlacementCompleted,
                     sideToMove, terminalReason>>
      /\ terminalReason = "None"
      /\ \A s \in Sides : pendingReturn[s] = {}
  BY DEF SampleWorld, Ready, Terminal
<1>2. /\ Typed /\ TilesConserved /\ them \in Sides /\ them # side
      /\ racks[them] \in SUBSET Tiles /\ racks[them] # {} /\ racks[side] # {}
      /\ hidden \in SUBSET Tiles
  BY <1>1, OtherSide DEF GameInv, Typed, ActionReady, Terminal
<1>3. Typed'
  BY <1>1, <1>2 DEF Typed
<1>4. TilesConserved'
  BY <1>1, <1>2 DEF TilesConserved, Typed, Sides
<1>5. hidden # {}
  BY <1>1, <1>2, Counting
<1>6. ActionReady'
  BY <1>1, <1>2, <1>5 DEF ActionReady, GameInv, Terminal, Typed
<1>7. StreakEndsOpenedGame'
  BY <1>1 DEF GameInv, StreakEndsOpenedGame, Terminal
<1> QED
  BY <1>3, <1>4, <1>6, <1>7 DEF GameInv

LEMMA NextPreserves == GameInv /\ [Next]_vars => GameInv'
<1> SUFFICES ASSUME GameInv, [Next]_vars PROVE GameInv'
  OBVIOUS
<1>1. CASE UNCHANGED vars
  BY <1>1 DEF vars, GameInv, Typed, TilesConserved, ActionReady, StreakEndsOpenedGame, Terminal
<1>2. ASSUME NEW side \in Sides, NEW used \in SUBSET racks[side], NEW score \in MoveScores,
             Place(side, used, score)
      PROVE  GameInv'
  BY <1>2, PlacePreserves
<1>3. ASSUME NEW side \in Sides, NEW given \in SUBSET racks[side], Exchange(side, given)
      PROVE  GameInv'
  BY <1>3, ExchangePreserves
<1>4. ASSUME NEW side \in Sides, Pass(side)
      PROVE  GameInv'
  BY <1>4, PassPreserves
<1>5. ASSUME NEW side \in Sides, NEW hidden \in SUBSET (racks[Other(side)] \cup bag),
             SampleWorld(side, hidden)
      PROVE  GameInv'
  BY <1>5, SampleWorldPreserves
<1> QED
  BY <1>1, <1>2, <1>3, <1>4, <1>5 DEF Next, Apply

\* The inductive invariant holds in every reachable state.
THEOREM GameInvariant == Spec => []GameInv
BY InitGameInv, NextPreserves, PTL DEF Spec

-----------------------------------------------------------------------------
(* The properties                                                          *)

\* No tile is ever lost, copied or in two places, whatever is drawn, exchanged
\* and sampled (refill, apply and WorldDeck::build).
THEOREM TilesAlwaysConserved == Spec => []TilesConserved
<1>1. GameInv => TilesConserved
  BY DEF GameInv
<1> QED
  BY <1>1, GameInvariant, PTL

\* The side to move always has a tile, and apply never meets a pending return:
\* the rack-out rule and the reserve of an exchange are strong enough, for
\* every size of the racks and every positive reserve.
THEOREM ActionAlwaysReady == Spec => []ActionReady
<1>1. GameInv => ActionReady
  BY DEF GameInv
<1> QED
  BY <1>1, GameInvariant, PTL

\* An opened game is never played on with a full streak, also when the streak
\* was longer before the opening.
THEOREM StreakAlwaysEnds == Spec => []StreakEndsOpenedGame
<1>1. GameInv => StreakEndsOpenedGame
  BY DEF GameInv
<1> QED
  BY <1>1, GameInvariant, PTL
=============================================================================
