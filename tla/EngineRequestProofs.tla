------------------------- MODULE EngineRequestProofs -------------------------
(***************************************************************************)
(* Proofs about a request to the engine: that a proved end-game is worth what *)
(* is said of it, that the candidates are the best there are, that all of  *)
(* them are compared on the same samples, and that the answer is legal.    *)
(***************************************************************************)
EXTENDS EndgameProofs

-----------------------------------------------------------------------------
(* The request and the proof of its end-game                               *)

\* A request is what it was when it arrived, but for what is unseen, and that
\* is out of the distribution.
RequestKnown ==
    /\ RequestReady /\ RacksFilled(req)
    /\ 2 * (Stake(req.rack) + Stake(Distribution)) < Infinity
    /\ stage \notin {"parse", "done"} => Within(req.unseen, Distribution)

\* How many worlds the option i has been searched in.
WorldsDone(i) == IF i < unit.option THEN unit.world ELSE unit.world - 1

\* The least and the largest of the first n worlds.
LeastOver(value, i, n) ==
    /\ value \in Int
    /\ n = 0 => value = Infinity
    /\ n >= 1 => /\ \A j \in 1 .. n : value <= TrueValue(Options[i], Worlds[j], FALSE)
                 /\ \E j \in 1 .. n : value = TrueValue(Options[i], Worlds[j], FALSE)
\* value is the largest of what option i can reach in its first n worlds, or over the
\* threshold as one of them is.
LargestOver(value, i, n) ==
    /\ value \in Int
    /\ n = 0 => value = -Infinity
    /\ n >= 1 => /\ \A j \in 1 .. n : TrueValue(Options[i], Worlds[j], TRUE) <= value
                 /\ \E j \in 1 .. n : value = TrueValue(Options[i], Worlds[j], TRUE)

\* What every option is worth against every defence.
Guarantees == [i \in 1 .. Len(Options) |-> TrueGuarantee(Options[i])]
\* The most every option can reach, the opponent helping.
Reaches == [i \in 1 .. Len(Options) |-> TrueReach(Options[i])]

\* The next unit of work of the proof is a world and an option of it.
UnitInside == unit \in [world : 1 .. Len(Worlds), option : 1 .. Len(Options)]
\* The unit a pass over the worlds begins with.
FirstUnit == unit = [world |-> 1, option |-> 1]

\* The stages of a proof.
ProofStages == {"proof", "prove", "judge", "reach", "settle", "proof_over"}

\* What a proof may say of a move.
OutcomeIs(r) ==
    /\ r.value = TrueGuarantee(r.move)
    /\ CASE r.outcome = "forced_win" ->
              /\ r.value > Threshold
              /\ \A m \in TrueOptions : TrueGuarantee(m) <= r.value
         [] r.outcome = "conditional_win" ->
              /\ \A m \in TrueOptions : TrueGuarantee(m) <= Threshold
              /\ r.reachable = TrueReach(r.move) /\ r.reachable > Threshold
         [] r.outcome = "unknown" ->
              /\ ~r.optimisticComplete
              /\ \A m \in TrueOptions : TrueGuarantee(m) <= r.value
         [] OTHER ->
              /\ \A m \in TrueOptions : TrueReach(m) <= Threshold
              /\ \A m \in TrueOptions : TrueGuarantee(m) <= r.value
              /\ (r.outcome = "forced_draw") = (r.value = Threshold)

\* Nothing can be forced, and the result says whether the question of what can
\* be reached has been answered.
NothingForced ==
    guaranteed = Guarantees /\ \A i \in 1 .. Len(Options) : Guarantees[i] <= Threshold
\* The result before the bound of what can be reached is judged.
Reached(b) ==
    [found |-> TRUE, solved |-> TRUE, move |-> Pass, value |-> -Infinity, outcome |-> "unknown",
     threshold |-> Threshold, reachable |-> 0, optimisticComplete |-> b]

\* The classes of a proved move.
Outcomes == {"forced_win", "conditional_win", "unknown", "forced_draw", "forced_loss"}
\* What the guarantees say is judged: the move, its value and its class.
Concluded ==
    /\ guaranteed = Guarantees /\ result.move \in Range(Options) /\ Worlds # <<>>
    /\ OutcomeIs(result) /\ result.outcome \in Outcomes
    /\ result.outcome # "forced_win" => result.value <= Threshold

\* How far the proof is, and what it has found so far.
ProofGoesOn ==
    /\ stage \in ProofStages => TriesProof
    /\ stage \in {"prove", "judge", "reach", "settle"} => Worlds # <<>>
    /\ stage \in {"parse", "generate", "proof", "prove", "judge"} =>
         solver.optimistic = FALSE /\ result = NoResult
    /\ stage \in {"parse", "generate", "proof"} => FirstUnit
    /\ stage = "prove" =>
         /\ UnitInside /\ guaranteed = [i \in 1 .. Len(Options) |-> guaranteed[i]]
         /\ \A i \in 1 .. Len(Options) : LeastOver(guaranteed[i], i, WorldsDone(i))
    /\ stage = "judge" => guaranteed = Guarantees
    /\ stage = "reach" =>
         /\ NothingForced /\ result = Reached(FALSE) /\ solver.optimistic = TRUE
         /\ UnitInside /\ reachable = [i \in 1 .. Len(Options) |-> reachable[i]]
         /\ \A i \in 1 .. Len(Options) : LargestOver(reachable[i], i, WorldsDone(i))
    /\ stage = "settle" =>
         NothingForced /\ \E b \in BOOLEAN : result = Reached(b) /\ (b => reachable = Reaches)
    /\ stage = "proof_over" /\ result.found => Concluded

\* What holds at every step of a proof.
ProofInvariant == SolverSound(solver, solver.optimistic) /\ ProofGoesOn

-----------------------------------------------------------------------------
(* What is made of a position without a proof                              *)

\* The moves are a generation of the request without its twins.
MovesKnown == \E list \in Generated : moves = Deduped(list)
\* The game can be settled at once.
Stops == \/ Outs # {} /\ OutMargin(moves[BestOut]) >= Threshold
         \/ Outs # {} /\ Ranked = <<>> /\ ~ req.exchangeAllowed
\* The moves that are compared, of the request.
AllCandidates ==
    LET places == Expanded([i \in DOMAIN Admitted |-> moves[Admitted[i]]])
    IN  [i \in DOMAIN places |-> PlaceMove(places[i])] \o EnumerateExchanges \o <<PassMove>>

\* What is ranked, and what is compared, is what the request offers.
Estimates ==
    /\ stage \notin {"parse", "generate", "done"} => MovesKnown
    /\ stage \in {"admit", "greedy", "sample", "rank"} => ranked = Ranked /\ ~ Stops
    /\ stage \in {"admit", "sample", "rank"} => req.solver = "sim" /\ req.oppRackCount > 0
    /\ stage \in {"sample", "rank"} => candidates = AllCandidates

\* The sums of the comparison are over the samples that are done, by all the candidates.
SamplesDone ==
    stage \in {"sample", "rank"} =>
      /\ sim.done \in 0 .. Samples
      /\ stage = "sample" => sim.done < Samples
      /\ stage = "rank" => sim.done >= Min({3, Samples})
      /\ DOMAIN sim = {"done", "accum", "accumSq", "parts"}
      /\ \A i \in DOMAIN candidates :
           /\ sim.accum[i] = SumFunctionOnSet([s \in 1 .. sim.done |-> Price(candidates[i], s)], 1 .. sim.done)
           /\ sim.accumSq[i] = SumFunctionOnSet([s \in 1 .. sim.done |-> Price(candidates[i], s) * Price(candidates[i], s)],
                                                1 .. sim.done)

-----------------------------------------------------------------------------
(* The root                                                                *)

\* The root of a request in one of its worlds.
LEMMA RootParts ==
    ASSUME RequestReady, NEW bag \in Tiles, Within(bag, req.unseen)
    PROVE  LET p == Root(bag) IN
           /\ p \in Positions /\ p.board = req.board /\ p.side = 0 /\ p.streak = req.streak /\ p.bag = bag
           /\ Mover(p) = req.rack /\ Other(p) = Minus(req.unseen, bag)
           /\ p.racks[0] = req.rack /\ p.racks[1] = Minus(req.unseen, bag)
<1> DEFINE p == Root(bag)
           r == [i \in 0 .. 1 |-> IF i = 0 THEN req.rack ELSE Minus(req.unseen, bag)]
<1>1. /\ req.board \in SUBSET Plays /\ req.rack \in Tiles /\ req.unseen \in Tiles /\ req.streak \in Nat
  BY RequestParts
<1>2. Minus(req.unseen, bag) \in Tiles
  BY <1>1, TileCounts
<1>3. r \in [0 .. 1 -> Tiles] /\ r[0] = req.rack /\ r[1] = Minus(req.unseen, bag)
  BY <1>1, <1>2
<1>4. p = [board |-> req.board, racks |-> r, bag |-> bag, side |-> 0, streak |-> req.streak]
  BY DEF Root
<1> HIDE DEF p, r
<1>5. /\ p.board = req.board /\ p.side = 0 /\ p.streak = req.streak /\ p.bag = bag /\ p.racks = r
  BY <1>4
<1>6. p \in Positions
  <2>1. 0 \in 0 .. 1
    OBVIOUS
  <2>2. p \in [board : SUBSET Plays, racks : [0 .. 1 -> Tiles], bag : Tiles, side : 0 .. 1, streak : Nat]
    BY <1>1, <1>3, <1>4, <2>1
  <2> QED
    BY <2>2, PositionFrom
<1>7. Mover(p) = req.rack /\ Other(p) = Minus(req.unseen, bag)
  BY <1>3, <1>5 DEF Mover, Other
<1> QED
  BY <1>3, <1>5, <1>6, <1>7 DEF p

\* No tiles are within any pool.
LEMMA NothingWithin ==
    ASSUME NEW pool \in Tiles
    PROVE  NoTiles \in Tiles /\ Within(NoTiles, pool)
<1>1. \A k \in Kinds : NoTiles[k] = 0 /\ pool[k] \in Nat
  BY DEF NoTiles, Tiles
<1> QED
  BY <1>1, NothingCounts DEF Within

\* What can be played at the root is so whatever the bag holds, and is found.
LEMMA RootPlayable ==
    ASSUME RequestReady
    PROVE  /\ \A bag \in Tiles : Within(bag, req.unseen) => Playable(Root(bag)) = Playable(Root(NoTiles))
           /\ \A m \in Playable(Root(NoTiles)) :
                /\ m \in Plays /\ m \in Range(req.order) /\ Within(Uses[m], req.rack)
                /\ Covers[m] \cap Occupied(req.board) = {} /\ Needs[m] \subseteq Occupied(req.board)
<1>1. req.unseen \in Tiles
  BY RequestParts
<1>2. \A bag \in Tiles : Within(bag, req.unseen) => Mover(Root(bag)) = req.rack /\ Root(bag).board = req.board
  BY RootParts
<1>3. Mover(Root(NoTiles)) = req.rack /\ Root(NoTiles).board = req.board
  BY <1>1, <1>2, NothingWithin
<1>4. \A bag \in Tiles : Within(bag, req.unseen) => Playable(Root(bag)) = Playable(Root(NoTiles))
  BY <1>2, <1>3 DEF Playable
<1>5. ASSUME NEW m \in Playable(Root(NoTiles))
      PROVE  /\ m \in Plays /\ m \in Range(req.order) /\ Within(Uses[m], req.rack)
             /\ Covers[m] \cap Occupied(req.board) = {} /\ Needs[m] \subseteq Occupied(req.board)
  <2>1. /\ m \in Plays /\ Within(Uses[m], req.rack)
        /\ Covers[m] \cap Occupied(req.board) = {} /\ Needs[m] \subseteq Occupied(req.board)
    BY <1>3 DEF Playable
  <2>2. Occupied(req.board) \subseteq Occupied(req.board \cup Range(req.order))
    BY DEF Occupied
  <2> QED
    BY <2>1, <2>2, RequestParts
<1> QED
  BY <1>4, <1>5

\* A new member at the end leaves a sequence without twins.
LEMMA AppendDistinct ==
    ASSUME NEW T, NEW s \in Seq(T), Distinct(s), NEW x, x \notin Range(s)
    PROVE  Distinct(Append(s, x))
<1> DEFINE t == Append(s, x)
<1>1. /\ Len(s) \in Nat /\ DOMAIN s = 1 .. Len(s) /\ DOMAIN t = 1 .. Len(s) + 1
      /\ \A i \in 1 .. Len(s) : t[i] = s[i]
      /\ t[Len(s) + 1] = x
  OBVIOUS
<1>2. \A i \in 1 .. Len(s) : s[i] # x
  BY <1>1 DEF Range
<1> HIDE DEF t
<1>3. \A i \in 1 .. Len(s) + 1 : i \in 1 .. Len(s) \/ i = Len(s) + 1
  BY <1>1
<1>4. Distinct(t)
  BY <1>1, <1>2, <1>3 DEF Distinct
<1> QED
  BY <1>4 DEF t

\* The options of the root: what can be played, once each, and the pass.
LEMMA OptionsAre ==
    ASSUME RequestReady
    PROVE  /\ RootPlays \in Seq(Plays) /\ Range(RootPlays) = Playable(Root(NoTiles)) /\ Distinct(RootPlays)
           /\ Options \in Seq(TrueOptions) /\ Range(Options) = TrueOptions /\ Distinct(Options)
           /\ Len(Options) \in Nat /\ Len(Options) >= 1 /\ DOMAIN Options = 1 .. Len(Options)
           /\ \A i \in 1 .. Len(Options) : Options[i] \in TrueOptions
           /\ TrueOptions = OptionsOf(Root(NoTiles))
<1> DEFINE P == Playable(Root(NoTiles))
<1>1. req.order \in Seq(Plays) /\ Distinct(req.order)
  BY RequestParts
<1>2. P \subseteq Range(req.order) /\ P \subseteq Plays /\ Pass \notin Plays
  BY RootPlayable, TileGameAssumption
<1>3. RootPlays = Filtered(req.order, P)
  BY DEF RootPlays
<1> HIDE DEF P
<1>4. RootPlays \in Seq(P) /\ RootPlays \in Seq(Plays) /\ Range(RootPlays) = P /\ Distinct(RootPlays)
  <2>1. /\ Filtered(req.order, P) \in Seq(P) /\ Filtered(req.order, P) \in Seq(Plays)
        /\ Range(Filtered(req.order, P)) = Range(req.order) \cap P
        /\ Distinct(req.order) => Distinct(Filtered(req.order, P))
    BY <1>1, FilteredShape
  <2> QED
    BY <1>1, <1>2, <1>3, <2>1
<1>5. TrueOptions = P \cup {Pass} /\ TrueOptions = OptionsOf(Root(NoTiles))
  BY DEF TrueOptions, OptionsOf, P
<1>6. RootPlays \in Seq(TrueOptions) /\ Pass \in TrueOptions /\ Pass \notin Range(RootPlays)
  BY <1>2, <1>4, <1>5
<1>7. Options = Append(RootPlays, Pass)
  BY DEF Options
<1>8. Range(Options) = TrueOptions
  BY <1>4, <1>5, <1>6, <1>7, RangeAppend
<1>9. Options \in Seq(TrueOptions) /\ Len(Options) = Len(RootPlays) + 1 /\ Len(RootPlays) \in Nat
  BY <1>4, <1>6, <1>7
<1>10. Distinct(Options)
  BY <1>4, <1>6, <1>7, AppendDistinct
<1>11. \A i \in 1 .. Len(Options) : Options[i] \in TrueOptions
  BY <1>9
<1> QED
  BY <1>4, <1>5, <1>8, <1>9, <1>10, <1>11 DEF P

\* The worlds: every bag that is possible, once each.
LEMMA WorldsAre ==
    ASSUME RequestReady, req.bagCount <= ExactBagMax
    PROVE  /\ IsFiniteSet(TrueWorlds) /\ Range(Worlds) = TrueWorlds
           /\ Len(Worlds) \in Nat /\ \A j \in 1 .. Len(Worlds) : Worlds[j] \in TrueWorlds
           /\ \A bag \in TrueWorlds : \E j \in 1 .. Len(Worlds) : bag = Worlds[j]
           /\ Worlds # <<>> => Len(Worlds) >= 1
           /\ \A bag \in TrueWorlds : bag \in Tiles /\ Within(bag, req.unseen) /\ Total(bag) = req.bagCount
<1>1. req.bagCount \in Nat /\ req.unseen \in Tiles /\ ExactBagMax \in 0 .. 2
  BY RequestParts, RequestAssumption
<1>2. req.bagCount = 0 \/ req.bagCount = 1 \/ req.bagCount = 2
  BY <1>1
<1>3. (IF req.bagCount <= 0 THEN 0 ELSE IF req.bagCount = 1 THEN 1 ELSE 2) = req.bagCount
  BY <1>2
<1>4. Worlds = SetToSeq(TrueWorlds)
  BY <1>3 DEF Worlds, EnumerateBags, TrueWorlds
<1>5. IsFiniteSet(TrueWorlds)
  BY <1>1, DrawsFinite DEF TrueWorlds
<1>6. Worlds \in Seq(TrueWorlds) /\ Range(Worlds) = TrueWorlds
  BY <1>4, <1>5, SetToSeqShape
<1>7. \A bag \in TrueWorlds : bag \in Tiles /\ Within(bag, req.unseen) /\ Total(bag) = req.bagCount
  BY <1>1, SubmultisetsAre DEF TrueWorlds
<1>8. \A bag \in TrueWorlds : \E j \in 1 .. Len(Worlds) : bag = Worlds[j]
  <2>1. DOMAIN Worlds = 1 .. Len(Worlds)
    BY <1>6
  <2> QED
    BY <1>6, <2>1 DEF Range
<1>9. Len(Worlds) \in Nat /\ (\A j \in 1 .. Len(Worlds) : Worlds[j] \in TrueWorlds) /\ (Worlds # <<>> => Len(Worlds) >= 1)
  BY <1>6
<1> QED
  BY <1>5, <1>6, <1>7, <1>8, <1>9

\* The searches can hold what is at stake at the root.
LEMMA RootGood ==
    ASSUME RequestKnown, stage \notin {"parse", "done"}, AccountedFor, NEW bag \in TrueWorlds
    PROVE  Good(Root(bag)) /\ 2 * StakeAt(Root(bag)) < Infinity /\ StakeAt(Root(bag)) \in Nat
<1> DEFINE p == Root(bag)
<1>1. /\ req.bagCount \in Nat /\ req.oppRackCount \in Nat /\ req.unseen \in Tiles /\ req.rack \in Tiles
      /\ Distribution \in Tiles /\ Within(req.unseen, Distribution) /\ RequestReady
  BY RequestParts, RequestAssumption DEF RequestKnown
<1>2. bag \in Tiles /\ Within(bag, req.unseen) /\ Total(bag) = req.bagCount
  BY <1>1, SubmultisetsAre DEF TrueWorlds
<1>3. /\ p \in Positions /\ p.board = req.board /\ p.bag = bag
      /\ Mover(p) = req.rack /\ Other(p) = Minus(req.unseen, bag)
  BY <1>1, <1>2, RootParts
<1>4. /\ Total(req.unseen) = req.oppRackCount + req.bagCount /\ req.oppRackCount > 0
      /\ Total(req.rack) <= RackSize /\ req.oppRackCount <= RackSize
      /\ req.bagCount > 0 => req.oppRackCount \in {0, RackSize} /\ Total(req.rack) = RackSize
  BY DEF AccountedFor, RequestKnown, RacksFilled
<1>5. /\ Total(Minus(req.unseen, bag)) = Total(req.unseen) - Total(bag)
      /\ Stake(Minus(req.unseen, bag)) = Stake(req.unseen) - Stake(bag)
      /\ Stake(req.unseen) <= Stake(Distribution)
      /\ Stake(req.unseen) \in Nat /\ Stake(bag) \in Nat /\ Stake(Distribution) \in Nat /\ Stake(req.rack) \in Nat
  <2>1. Stake(req.unseen) <= Stake(Distribution)
    BY <1>1, TileCounts
  <2> QED
    BY <1>1, <1>2, <2>1, TileCounts
<1>6. StakeAt(p) = Stake(Mover(p)) + Stake(Other(p)) + Stake(p.bag) /\ StakeAt(p) \in Nat
  BY <1>3, PositionParts
<1> HIDE DEF p
<1>7. StakeAt(p) = Stake(req.rack) + Stake(req.unseen)
  BY <1>3, <1>5, <1>6
<1>8. 2 * StakeAt(p) < Infinity
  <2>1. 2 * (Stake(req.rack) + Stake(Distribution)) < Infinity
    BY DEF RequestKnown
  <2>2. Infinity \in Nat
    BY RequestAssumption
  <2> QED
    BY <1>5, <1>7, <2>1, <2>2
<1>9. Good(p)
  <2>1. Total(Other(p)) = req.oppRackCount
    BY <1>1, <1>2, <1>3, <1>4, <1>5
  <2>2. p.board \subseteq req.board \cup Range(req.order)
    BY <1>3
  <2> QED
    BY <1>2, <1>3, <1>4, <2>1, <2>2 DEF Good
<1> QED
  BY <1>6, <1>8, <1>9 DEF p

\* What an option is worth is what the searches look for.
LEMMA TrueValueIs ==
    ASSUME RequestKnown, stage \notin {"parse", "done"}, AccountedFor, NEW bag \in TrueWorlds,
           NEW m \in TrueOptions, NEW o
    PROVE  /\ m \in OptionsOf(Root(bag))
           /\ TrueValue(m, bag, o) = OptionWorth(o, Root(bag), m)
           /\ Bounded(TrueValue(m, bag, o), StakeAt(Root(bag)))
           /\ TrueValue(m, bag, o) \in Int /\ -Infinity < TrueValue(m, bag, o) /\ TrueValue(m, bag, o) < Infinity
<1>1. RequestReady /\ req.unseen \in Tiles /\ req.bagCount \in Nat
  BY RequestParts DEF RequestKnown
<1>2. bag \in Tiles /\ Within(bag, req.unseen)
  BY <1>1, SubmultisetsAre DEF TrueWorlds
<1>3. m \in OptionsOf(Root(bag))
  BY <1>1, <1>2, RootPlayable DEF TrueOptions, OptionsOf
<1>4. TrueValue(m, bag, o) = OptionWorth(o, Root(bag), m)
  BY DEF TrueValue, OptionWorth, V
<1>5. Good(Root(bag)) /\ 2 * StakeAt(Root(bag)) < Infinity /\ StakeAt(Root(bag)) \in Nat
  BY RootGood
<1>6. Bounded(TrueValue(m, bag, o), StakeAt(Root(bag)))
  BY <1>1, <1>3, <1>4, <1>5, OptionBounds
<1>7. Infinity \in Nat
  BY RequestAssumption
<1> DEFINE v == TrueValue(m, bag, o)
           S == StakeAt(Root(bag))
<1>8. Bounded(v, S) /\ S \in Nat /\ 2 * S < Infinity
  BY <1>5, <1>6
<1> HIDE DEF v, S
<1>9. v \in Int /\ -Infinity < v /\ v < Infinity
  BY <1>7, <1>8 DEF Bounded
<1> QED
  BY <1>3, <1>4, <1>6, <1>9 DEF v

-----------------------------------------------------------------------------
(* The units of the proof                                                  *)

\* A search with a full window is worth exactly what its option is worth in its
\* world, unless it ran out.
LEMMA UnitSound ==
    ASSUME RequestKnown, stage \notin {"parse", "done"}, TriesProof, UnitInside,
           NEW o \in BOOLEAN, SolverSound(solver, o)
    PROVE  /\ SearchUnit \in Answers /\ SolverSound(SearchUnit.solver, o)
           /\ ~ SearchUnit.solver.aborted =>
                SearchUnit.value = TrueValue(Options[unit.option], Worlds[unit.world], o)
<1> DEFINE m == Options[unit.option]
           bag == Worlds[unit.world]
           p == Root(bag)
           S == StakeAt(p)
           gain == IF m = Pass THEN 0 ELSE req.scoreOf[m]
           lo == gain - Infinity
           hi == gain + Infinity
           c == [pos |-> p, alpha |-> lo, beta |-> hi, solver |-> solver]
           v == TrueValue(m, bag, o)
           deeper == Search[req.nodeBudget + 1]
<1>1. RequestReady /\ AccountedFor /\ req.bagCount <= ExactBagMax /\ req.nodeBudget + 1 \in Nat
  BY RequestParts DEF RequestKnown, TriesProof
<1>2. unit.world \in 1 .. Len(Worlds) /\ unit.option \in 1 .. Len(Options)
  BY DEF UnitInside
<1>3. m \in TrueOptions /\ bag \in TrueWorlds
  BY <1>1, <1>2, OptionsAre, WorldsAre
<1>4. /\ m \in OptionsOf(p) /\ v = OptionWorth(o, p, m) /\ Bounded(v, S) /\ Good(p)
      /\ 2 * S < Infinity /\ S \in Nat /\ p \in Positions
  BY <1>1, <1>3, TrueValueIs, RootGood DEF Good
<1>5. Infinity \in Nat /\ gain \in Int /\ -S <= gain /\ gain <= S
  <2>1. CASE m = Pass
    BY <1>4, <2>1, RequestAssumption
  <2>2. CASE m # Pass
    <3>1. m \in Playable(p)
      BY <1>4, <2>2 DEF OptionsOf
    <3>2. m \in Plays
      BY <3>1 DEF Playable
    <3>3. Bounded(req.scoreOf[m], Stake(Uses[m]))
      BY <1>1, <1>4, <3>2, GainBounds
    <3>4. StakeAt(Placed(p, m)) = S - Stake(Uses[m]) /\ Placed(p, m) \in Positions
      BY <1>4, <3>1, PlacedEffect
    <3>5. StakeAt(Placed(p, m)) \in Nat /\ Stake(Uses[m]) \in Nat
      BY <3>2, <3>4, PositionParts, UsesCount
    <3> DEFINE x == StakeAt(Placed(p, m))
               u == Stake(Uses[m])
    <3>6. gain = req.scoreOf[m] /\ Infinity \in Nat
      BY <2>2, RequestAssumption
    <3>7. x = S - u /\ x \in Nat /\ u \in Nat /\ Bounded(gain, u)
      BY <3>3, <3>4, <3>5, <3>6
    <3> HIDE DEF x, u, gain, S
    <3> QED
      BY <1>4, <3>6, <3>7 DEF Bounded
  <2> QED
    BY <2>1, <2>2
<1>6. SearchUnit = OptionValue(deeper, m, c)
  BY DEF SearchUnit
<1>7. Searches(deeper, o)
  BY <1>1, SearchSound
<1> HIDE DEF gain, S, v, m, bag, p, deeper
<1>8. lo \in Int /\ hi \in Int /\ WindowOk(lo, hi, S)
  BY <1>4, <1>5 DEF WindowOk
<1>9. solver \in SolverStates
  BY DEF SolverSound
<1> HIDE DEF lo, hi
<1>10. c \in Calls /\ c.pos = p /\ c.alpha = lo /\ c.beta = hi /\ c.solver = solver
  BY <1>4, <1>8, <1>9, CallMade
<1> HIDE DEF c
<1>11. AnswerSound(OptionValue(deeper, m, c), OptionWorth(o, c.pos, m), c.alpha, c.beta, StakeAt(c.pos), o)
  <2>1. m \in OptionsOf(c.pos) /\ Good(c.pos) /\ WindowOk(c.alpha, c.beta, StakeAt(c.pos)) /\ SolverSound(c.solver, o)
    BY <1>4, <1>8, <1>10 DEF S
  <2> QED
    BY <1>1, <1>7, <1>10, <2>1, OptionValueSound
<1>12. AnswerSound(SearchUnit, v, lo, hi, S, o)
  BY <1>4, <1>6, <1>10, <1>11 DEF S
<1>13. SearchUnit \in Answers /\ SolverSound(SearchUnit.solver, o)
  BY <1>12 DEF AnswerSound
<1>14. ASSUME ~ SearchUnit.solver.aborted PROVE SearchUnit.value = v
  <2> DEFINE r == SearchUnit.value
  <2>1. Tells(r, v, lo, hi, S)
    BY <1>12, <1>14 DEF AnswerSound
  <2> HIDE DEF r
  <2>2. r \in Int /\ -S <= r /\ r <= S /\ v \in Int /\ (r < hi => v <= r) /\ (r > lo => r <= v)
    BY <1>4, <2>1 DEF Tells, Bounded
  <2>3. r < hi /\ r > lo
    BY <1>4, <1>5, <2>2 DEF lo, hi
  <2>4. r = v
    BY <2>2, <2>3
  <2> QED
    BY <2>4 DEF r
<1> QED
  BY <1>13, <1>14 DEF v, m, bag

\* Of finitely many things valued by whole numbers one is worth most.
LEMMA MostExists ==
    ASSUME NEW S, IsFiniteSet(S), S # {}, NEW f, \A x \in S : f[x] \in Int
    PROVE  \E x \in S : \A y \in S : f[y] <= f[x]
<1> DEFINE g == [x \in S |-> f[x]]
           T == {f[x] : x \in S}
<1>1. g \in Surjection(S, T)
  BY DEF Surjection
<1>2. IsFiniteSet(T)
  <2> HIDE DEF g, T
  <2> QED
    BY <1>1, FS_Surjection
<1>3. T # {} /\ \A x \in T : x \in Int
  OBVIOUS
<1>4. PICK m \in T : \A x \in T : x <= m
  <2> HIDE DEF T
  <2> QED
    BY <1>2, <1>3, FiniteExtremes
<1>5. PICK x \in S : m = f[x]
  OBVIOUS
<1> QED
  BY <1>4, <1>5

\* The first of the largest over a floor.
LEMMA BestByIs ==
    ASSUME NEW n \in Nat, NEW values, DOMAIN values = 1 .. n, \A i \in 1 .. n : values[i] \in Int,
           NEW floor \in Int
    PROVE  LET b == BestBy(values, floor) IN
           \/ b = 0 /\ \A i \in 1 .. n : values[i] <= floor
           \/ /\ b \in 1 .. n /\ b > 0 /\ values[b] > floor
              /\ \A j \in 1 .. n : values[j] <= values[b]
<1> DEFINE over == {i \in 1 .. n : values[i] > floor}
           top == {i \in over : \A j \in over : values[j] <= values[i]}
           b == BestBy(values, floor)
<1>1. b = IF over = {} THEN 0 ELSE Min(top)
  BY DEF BestBy
<1>2. CASE over = {}
  BY <1>1, <1>2
<1>3. CASE over # {}
  <2>1. IsFiniteSet(over)
    BY FS_Interval, FS_Subset
  <2>2. PICK i \in over : \A j \in over : values[j] <= values[i]
    <3>1. \A i \in over : values[i] \in Int
      OBVIOUS
    <3> HIDE DEF over
    <3> QED
      BY <1>3, <2>1, <3>1, MostExists
  <2>5. i \in top
    BY <2>2
  <2>6. \A t \in top : t \in Int /\ 1 <= t /\ t <= n
    OBVIOUS
  <2> HIDE DEF top
  <2>7. Min(top) \in top
    <3>1. 1 \in Int /\ n \in Int
      OBVIOUS
    <3> QED
      BY <2>5, <2>6, <3>1, MinMaxBetween
  <2>8. b \in top
    BY <1>1, <1>3, <2>7
  <2> HIDE DEF b
  <2>9. b \in 1 .. n /\ b > 0 /\ values[b] > floor /\ \A j \in over : values[j] <= values[b]
    BY <2>8 DEF top
  <2>10. \A j \in 1 .. n : values[j] <= values[b]
    <3> SUFFICES ASSUME NEW j \in 1 .. n PROVE values[j] <= values[b]
      OBVIOUS
    <3>1. CASE j \in over
      BY <2>9, <3>1
    <3>2. CASE j \notin over
      BY <2>9, <3>2
    <3> QED
      BY <3>1, <3>2
  <2> QED
    BY <2>9, <2>10 DEF b
<1> QED
  BY <1>2, <1>3

\* The guarantee and the reach of an option, from what it is worth in the
\* worlds.
LEMMA GuaranteeIs ==
    ASSUME RequestKnown, stage \notin {"parse", "done"}, TriesProof, Len(Worlds) >= 1,
           NEW m \in TrueOptions
    PROVE  /\ \E bag \in TrueWorlds : TrueGuarantee(m) = TrueValue(m, bag, FALSE)
           /\ \A bag \in TrueWorlds : TrueGuarantee(m) <= TrueValue(m, bag, FALSE)
           /\ \E bag \in TrueWorlds : TrueReach(m) = TrueValue(m, bag, TRUE)
           /\ \A bag \in TrueWorlds : TrueValue(m, bag, TRUE) <= TrueReach(m)
           /\ TrueGuarantee(m) \in Int /\ TrueReach(m) \in Int
           /\ -Infinity < TrueGuarantee(m) /\ TrueGuarantee(m) < Infinity
<1> DEFINE A == {TrueValue(m, bag, FALSE) : bag \in TrueWorlds}
           B == {TrueValue(m, bag, TRUE) : bag \in TrueWorlds}
<1>1. RequestReady /\ AccountedFor /\ req.bagCount <= ExactBagMax /\ Infinity \in Nat
  BY RequestAssumption DEF RequestKnown, TriesProof
<1>2. Worlds[1] \in TrueWorlds
  <2>1. 1 \in 1 .. Len(Worlds)
    BY <1>1, WorldsAre
  <2> QED
    BY <1>1, <2>1, WorldsAre
<1>3. A # {} /\ B # {}
  BY <1>2
<1>4. /\ \A x \in A : x \in Int /\ -Infinity < x /\ x < Infinity
      /\ \A x \in B : x \in Int /\ -Infinity < x /\ x < Infinity
  BY <1>1, TrueValueIs
<1>5. /\ Min(A) \in A /\ (\A x \in A : Min(A) <= x)
      /\ Max(B) \in B /\ \A x \in B : x <= Max(B)
  <2> HIDE DEF A, B
  <2>1. -Infinity \in Int /\ Infinity \in Int
    BY <1>1
  <2>2. \A x \in A \cup B : x \in Int /\ -Infinity <= x /\ x <= Infinity
    BY <1>1, <1>4
  <2> QED
    BY <1>3, <2>1, <2>2, MinMaxBetween
<1>6. TrueGuarantee(m) = Min(A) /\ TrueReach(m) = Max(B)
  BY DEF TrueGuarantee, TrueReach
<1> QED
  BY <1>4, <1>5, <1>6

-----------------------------------------------------------------------------
(* Type of the request, at every step                                      *)

\* Stages do not go back, and only parsing touches the request.
LEMMA StepKeeps ==
    ASSUME [Next \/ Answered]_requestVars, ~ ParseRequest
    PROVE  req' = req /\ (stage' \notin {"parse", "done"} => stage \notin {"parse", "done"})
<1>1. CASE GenerateRoot
  BY <1>1 DEF GenerateRoot
<1>2. CASE BeginProof
  BY <1>2 DEF BeginProof
<1>3. CASE ProveUnit
  BY <1>3 DEF ProveUnit
<1>4. CASE Judge
  BY <1>4 DEF Judge
<1>5. CASE ReachUnit
  BY <1>5 DEF ReachUnit
<1>6. CASE Settle
  BY <1>6 DEF Settle
<1>7. CASE UseProof
  BY <1>7 DEF UseProof
<1>8. CASE SettleAtOnce
  BY <1>8 DEF SettleAtOnce
<1>9. CASE AdmitCandidates
  BY <1>9 DEF AdmitCandidates
<1>10. CASE SampleRow
  BY <1>10 DEF SampleRow
<1>11. CASE ClockCutsRow
  BY <1>11 DEF ClockCutsRow
<1>12. CASE RankCandidates
  BY <1>12 DEF RankCandidates
<1>13. CASE PlayGreedy
  BY <1>13 DEF PlayGreedy
<1>14. CASE Answered \/ UNCHANGED requestVars
  BY <1>14 DEF Answered, requestVars, proofVars
<1> QED
  BY <1>1, <1>2, <1>3, <1>4, <1>5, <1>6, <1>7, <1>8, <1>9, <1>10, <1>11, <1>12, <1>13, <1>14
  DEF Next, ProofNext

\* What is unseen is out of the distribution.
LEMMA UnseenWithin ==
    ASSUME RequestReady
    PROVE  /\ UnseenOf(Plus(BoardTiles, req.rack)) \in Tiles
           /\ Within(UnseenOf(Plus(BoardTiles, req.rack)), Distribution)
<1> DEFINE seen == Plus(BoardTiles, req.rack)
<1>1. /\ req.board \in SUBSET Plays /\ IsFiniteSet(req.board) /\ req.rack \in Tiles
      /\ Distribution \in Tiles
  BY RequestParts, RequestAssumption, TileGameAssumption, FS_Subset
<1>2. ASSUME NEW k \in Kinds PROVE seen[k] \in Nat
  <2> DEFINE f == [m \in req.board |-> Uses[m][k]]
  <2>1. \A m \in req.board : f[m] \in Nat
    BY <1>1, <1>2, TileGameAssumption DEF Tiles
  <2> HIDE DEF f
  <2>2. SumFunctionOnSet(f, req.board) \in Nat
    BY <1>1, <2>1, SumSubset
  <2>3. BoardTiles[k] \in Nat
    BY <1>2, <2>2 DEF BoardTiles, f
  <2>4. req.rack[k] \in Nat
    BY <1>1, <1>2 DEF Tiles
  <2> QED
    BY <1>2, <2>3, <2>4 DEF Plus
<1>3. ASSUME NEW k \in Kinds
      PROVE  Max({0, Distribution[k] - seen[k]}) \in Nat /\ Max({0, Distribution[k] - seen[k]}) <= Distribution[k]
  <2> DEFINE d == Distribution[k] - seen[k]
  <2>1. Distribution[k] \in Nat /\ d \in Int /\ d <= Distribution[k] /\ 0 \in Int
    BY <1>1, <1>2, <1>3 DEF Tiles
  <2> HIDE DEF d
  <2>2. Max({0, d}) = IF 0 <= d THEN d ELSE 0
    BY <2>1, MinMaxTwo
  <2>3. Max({0, d}) \in Nat /\ Max({0, d}) <= Distribution[k]
    BY <2>1, <2>2
  <2> QED
    BY <2>3 DEF d
<1> HIDE DEF seen
<1>4. UnseenOf(seen) \in Tiles /\ Within(UnseenOf(seen), Distribution)
  BY <1>3 DEF UnseenOf, Tiles, Within
<1> QED
  BY <1>4 DEF seen

\* Within every bound the searches rely on, from arrival to answer.
THEOREM RequestAlwaysKnown == Spec => []RequestKnown
<1>1. Init => RequestKnown
  <2> SUFFICES ASSUME Init PROVE RequestKnown
    OBVIOUS
  <2>1. req \in Requests /\ stage = "parse"
    BY DEF Init
  <2>2. /\ req \in RequestShape /\ FindsAll(req) /\ RacksFilled(req)
        /\ 2 * (Stake(req.rack) + Stake(Distribution)) < Infinity
    BY <2>1, RequestAssumption
  <2> QED
    BY <2>1, <2>2 DEF RequestKnown, RequestReady
<1>2. RequestKnown /\ [Next \/ Answered]_requestVars => RequestKnown'
  <2> SUFFICES ASSUME RequestKnown, [Next \/ Answered]_requestVars PROVE RequestKnown'
    OBVIOUS
  <2>1. CASE ~ ParseRequest
    <3>1. req' = req /\ (stage' \notin {"parse", "done"} => stage \notin {"parse", "done"})
      BY <2>1, StepKeeps
    <3> QED
      BY <3>1 DEF RequestKnown, RequestReady
  <2>2. CASE ParseRequest
    <3>1. CASE req' = req /\ stage' = "done"
      BY <3>1 DEF RequestKnown, RequestReady
    <3>2. CASE req' = [req EXCEPT !.unseen = UnseenOf(Plus(BoardTiles, req.rack))] /\ stage' = "generate"
      <4> DEFINE u == UnseenOf(Plus(BoardTiles, req.rack))
      <4>1. u \in Tiles /\ Within(u, Distribution) /\ req \in RequestShape
        BY UnseenWithin DEF RequestKnown, RequestReady
      <4> HIDE DEF u
      <4>2. req' = [req EXCEPT !.unseen = u]
        BY <3>2 DEF u
      <4>3. req' \in RequestShape
        BY <4>1, <4>2 DEF RequestShape
      <4>4. /\ req'.unseen = u /\ req'.rack = req.rack /\ req'.board = req.board /\ req'.order = req.order
            /\ req'.oppRackCount = req.oppRackCount /\ req'.bagCount = req.bagCount
        BY <4>1, <4>2 DEF RequestShape
      <4>5. FindsAll(req') /\ RacksFilled(req')
        BY <4>4 DEF FindsAll, RacksFilled, RequestKnown, RequestReady
      <4>6. 2 * (Stake(req'.rack) + Stake(Distribution)) < Infinity /\ Within(req'.unseen, Distribution)
        BY <4>1, <4>4 DEF RequestKnown
      <4> QED
        BY <4>3, <4>5, <4>6 DEF RequestKnown, RequestReady
    <3> QED
      BY <2>2, <3>1, <3>2 DEF ParseRequest
  <2> QED
    BY <2>1, <2>2
<1> QED
  BY <1>1, <1>2, PTL DEF Spec

-----------------------------------------------------------------------------
(* The proof, step by step                                                 *)

\* What depends on the request alone stays while it does.
LEMMA SameRequest ==
    ASSUME req' = req
    PROVE  /\ Worlds' = Worlds /\ RootPlays' = RootPlays /\ Options' = Options /\ Threshold' = Threshold
           /\ TriesProof' = TriesProof /\ TrueOptions' = TrueOptions /\ TrueWorlds' = TrueWorlds
           /\ Guarantees' = Guarantees /\ Reaches' = Reaches
           /\ \A m, bag, o : TrueValue(m, bag, o)' = TrueValue(m, bag, o)
           /\ \A m : TrueGuarantee(m)' = TrueGuarantee(m) /\ TrueReach(m)' = TrueReach(m)
<1>1. Worlds' = Worlds /\ TrueWorlds' = TrueWorlds /\ Threshold' = Threshold
  BY DEF Worlds, TrueWorlds, Threshold
<1>2. \A bag : Root(bag)' = Root(bag)
  BY DEF Root
<1>3. RootPlays' = RootPlays /\ TrueOptions' = TrueOptions
  BY <1>2 DEF RootPlays, TrueOptions
<1>4. Options' = Options
  BY <1>3 DEF Options
<1>5. TriesProof' = TriesProof
  BY DEF TriesProof, AccountedFor, TilesLeft
<1>6. \A m, bag, o : TrueValue(m, bag, o)' = TrueValue(m, bag, o)
  BY <1>2 DEF TrueValue
<1>7. \A m : TrueGuarantee(m)' = TrueGuarantee(m) /\ TrueReach(m)' = TrueReach(m)
  BY <1>1, <1>6 DEF TrueGuarantee, TrueReach
<1>8. Guarantees' = Guarantees /\ Reaches' = Reaches
  BY <1>4, <1>7 DEF Guarantees, Reaches
<1> QED
  BY <1>1, <1>3, <1>4, <1>5, <1>6, <1>7, <1>8

\* A solver that is sound by the scores of the request stays so in the next state.
LEMMA SolverKept ==
    ASSUME req'.scoreOf = req.scoreOf, NEW CONSTANT o, SolverSound(solver', o)
    PROVE  SolverSound(solver, solver.optimistic)' /\ solver'.optimistic = o
<1>1. solver'.optimistic = o
  BY DEF SolverSound
<1>2. SolverSound(solver, o)'
  BY DEF SolverSound, EntrySound, V
<1> QED
  BY <1>1, <1>2 DEF SolverSound

\* One world more.
LEMMA LeastNext ==
    ASSUME RequestKnown, stage \notin {"parse", "done"}, TriesProof,
           NEW i \in 1 .. Len(Options), NEW n \in Nat, n + 1 \in 1 .. Len(Worlds),
           NEW x, LeastOver(x, i, n)
    PROVE  LeastOver(Min({x, TrueValue(Options[i], Worlds[n + 1], FALSE)}), i, n + 1)
<1> DEFINE w(j) == TrueValue(Options[i], Worlds[j], FALSE)
           y == Min({x, w(n + 1)})
<1>1. RequestReady /\ AccountedFor /\ req.bagCount <= ExactBagMax
  BY DEF RequestKnown, TriesProof
<1>2. Options[i] \in TrueOptions /\ Len(Worlds) \in Nat
  BY <1>1, OptionsAre, WorldsAre
<1>3. \A j \in 1 .. n + 1 : w(j) \in Int /\ -Infinity < w(j) /\ w(j) < Infinity
  <2>1. \A j \in 1 .. n + 1 : j \in 1 .. Len(Worlds)
    BY <1>2
  <2>2. \A j \in 1 .. n + 1 : Worlds[j] \in TrueWorlds
    BY <1>1, <2>1, WorldsAre
  <2> QED
    BY <1>1, <1>2, <2>2, TrueValueIs
<1>4. Infinity \in Nat
  BY RequestAssumption
<1>5. /\ x \in Int /\ (n = 0 => x = Infinity)
      /\ n >= 1 => (\A j \in 1 .. n : x <= w(j)) /\ \E j \in 1 .. n : x = w(j)
  BY DEF LeastOver
<1> HIDE DEF w
<1>6. w(n + 1) \in Int /\ w(n + 1) < Infinity
  BY <1>3, OneMoreIndex
<1>7. y \in Int /\ y <= x /\ y <= w(n + 1) /\ (y = x \/ y = w(n + 1))
  BY <1>5, <1>6, MinTwoIs
<1> HIDE DEF y
<1>8. \A j \in 1 .. n + 1 : y <= w(j)
  <2> SUFFICES ASSUME NEW j \in 1 .. n + 1 PROVE y <= w(j)
    OBVIOUS
  <2>1. CASE j = n + 1
    BY <1>7, <2>1
  <2>2. CASE j \in 1 .. n
    <3>1. x <= w(j) /\ w(j) \in Int
      BY <1>3, <1>5, <2>2
    <3> QED
      BY <1>5, <1>7, <3>1
  <2> QED
    BY <2>1, <2>2, OneMoreIndex
<1>9. \E j \in 1 .. n + 1 : y = w(j)
  <2>1. CASE y = w(n + 1)
    BY <2>1, OneMoreIndex
  <2>2. CASE y = x /\ n >= 1
    <3>1. PICK j \in 1 .. n : x = w(j)
      BY <1>5, <2>2
    <3> QED
      BY <2>2, <3>1, OneMoreIndex
  <2>3. CASE y = x /\ n = 0
    BY <1>4, <1>5, <1>6, <1>7, <2>3
  <2> QED
    BY <1>7, <2>1, <2>2, <2>3
<1>10. LeastOver(y, i, n + 1)
  <2>1. n + 1 # 0
    OBVIOUS
  <2> QED
    BY <1>7, <1>8, <1>9, <2>1 DEF LeastOver, w
<1> QED
  BY <1>10 DEF y, w

\* One world more.
LEMMA LargestNext ==
    ASSUME RequestKnown, stage \notin {"parse", "done"}, TriesProof,
           NEW i \in 1 .. Len(Options), NEW n \in Nat, n + 1 \in 1 .. Len(Worlds),
           NEW x, LargestOver(x, i, n)
    PROVE  LargestOver(Max({x, TrueValue(Options[i], Worlds[n + 1], TRUE)}), i, n + 1)
<1> DEFINE w(j) == TrueValue(Options[i], Worlds[j], TRUE)
           y == Max({x, w(n + 1)})
<1>1. RequestReady /\ AccountedFor /\ req.bagCount <= ExactBagMax
  BY DEF RequestKnown, TriesProof
<1>2. Options[i] \in TrueOptions /\ Len(Worlds) \in Nat
  BY <1>1, OptionsAre, WorldsAre
<1>3. \A j \in 1 .. n + 1 : w(j) \in Int /\ -Infinity < w(j) /\ w(j) < Infinity
  <2>1. \A j \in 1 .. n + 1 : j \in 1 .. Len(Worlds)
    BY <1>2
  <2>2. \A j \in 1 .. n + 1 : Worlds[j] \in TrueWorlds
    BY <1>1, <2>1, WorldsAre
  <2> QED
    BY <1>1, <1>2, <2>2, TrueValueIs
<1>4. Infinity \in Nat
  BY RequestAssumption
<1>5. /\ x \in Int /\ (n = 0 => x = -Infinity)
      /\ n >= 1 => (\A j \in 1 .. n : w(j) <= x) /\ \E j \in 1 .. n : x = w(j)
  BY DEF LargestOver
<1> HIDE DEF w
<1>6. w(n + 1) \in Int /\ -Infinity < w(n + 1)
  BY <1>3, OneMoreIndex
<1>7. y \in Int /\ x <= y /\ w(n + 1) <= y /\ (y = x \/ y = w(n + 1))
  <2> DEFINE u == w(n + 1)
  <2>1. u \in Int
    BY <1>6
  <2> HIDE DEF u
  <2>2. Max({x, u}) \in Int /\ Max({x, u}) >= x /\ Max({x, u}) >= u /\ (Max({x, u}) = x \/ Max({x, u}) = u)
    BY <1>5, <2>1, MinTwoIs
  <2>3. Max({x, u}) \in Int /\ x <= Max({x, u}) /\ u <= Max({x, u}) /\ (Max({x, u}) = x \/ Max({x, u}) = u)
    BY <1>5, <2>1, <2>2
  <2> QED
    BY <2>3 DEF u
<1> HIDE DEF y
<1>8. \A j \in 1 .. n + 1 : w(j) <= y
  <2> SUFFICES ASSUME NEW j \in 1 .. n + 1 PROVE w(j) <= y
    OBVIOUS
  <2>1. CASE j = n + 1
    BY <1>7, <2>1
  <2>2. CASE j \in 1 .. n
    <3>1. w(j) <= x /\ w(j) \in Int
      BY <1>3, <1>5, <2>2
    <3> QED
      BY <1>5, <1>7, <3>1
  <2> QED
    BY <2>1, <2>2, OneMoreIndex
<1>9. \E j \in 1 .. n + 1 : y = w(j)
  <2>1. CASE y = w(n + 1)
    BY <2>1, OneMoreIndex
  <2>2. CASE y = x /\ n >= 1
    <3>1. PICK j \in 1 .. n : x = w(j)
      BY <1>5, <2>2
    <3> QED
      BY <2>2, <3>1, OneMoreIndex
  <2>3. CASE y = x /\ n = 0
    BY <1>4, <1>5, <1>6, <1>7, <2>3
  <2> QED
    BY <1>7, <2>1, <2>2, <2>3
<1>10. LargestOver(y, i, n + 1)
  <2>1. n + 1 # 0
    OBVIOUS
  <2> QED
    BY <1>7, <1>8, <1>9, <2>1 DEF LargestOver, w
<1> QED
  BY <1>10 DEF y, w

\* Over all worlds it is the guarantee, and the reach.
LEMMA OverAllWorlds ==
    ASSUME RequestKnown, stage \notin {"parse", "done"}, TriesProof, Len(Worlds) >= 1,
           NEW i \in 1 .. Len(Options), NEW x
    PROVE  /\ LeastOver(x, i, Len(Worlds)) => x = TrueGuarantee(Options[i])
           /\ LargestOver(x, i, Len(Worlds)) => x = TrueReach(Options[i])
<1> DEFINE m == Options[i]
           n == Len(Worlds)
           lo(b) == TrueValue(m, b, FALSE)
           hi(b) == TrueValue(m, b, TRUE)
<1>1. RequestReady /\ AccountedFor /\ req.bagCount <= ExactBagMax
  BY DEF RequestKnown, TriesProof
<1>2. /\ m \in TrueOptions /\ n \in Nat /\ n # 0
      /\ \A j \in 1 .. n : Worlds[j] \in TrueWorlds
      /\ \A bag \in TrueWorlds : \E j \in 1 .. n : bag = Worlds[j]
  BY <1>1, OptionsAre, WorldsAre
<1>3. /\ \E bag \in TrueWorlds : TrueGuarantee(m) = lo(bag)
      /\ \A bag \in TrueWorlds : TrueGuarantee(m) <= lo(bag)
      /\ \E bag \in TrueWorlds : TrueReach(m) = hi(bag)
      /\ \A bag \in TrueWorlds : hi(bag) <= TrueReach(m)
      /\ TrueGuarantee(m) \in Int /\ TrueReach(m) \in Int
  BY <1>2, GuaranteeIs
<1>4. ASSUME LeastOver(x, i, n) PROVE x = TrueGuarantee(m)
  <2>1. /\ x \in Int /\ (\A j \in 1 .. n : x <= lo(Worlds[j])) /\ \E j \in 1 .. n : x = lo(Worlds[j])
    BY <1>4 DEF LeastOver
  <2> HIDE DEF lo, m, n
  <2>2. x <= TrueGuarantee(m)
    BY <1>2, <1>3, <2>1
  <2>3. TrueGuarantee(m) <= x
    BY <1>2, <1>3, <2>1
  <2> QED
    BY <1>3, <2>1, <2>2, <2>3
<1>5. ASSUME LargestOver(x, i, n) PROVE x = TrueReach(m)
  <2>1. /\ x \in Int /\ (\A j \in 1 .. n : hi(Worlds[j]) <= x) /\ \E j \in 1 .. n : x = hi(Worlds[j])
    BY <1>5 DEF LargestOver
  <2> HIDE DEF hi, m, n
  <2>2. x <= TrueReach(m)
    BY <1>2, <1>3, <2>1
  <2>3. TrueReach(m) <= x
    BY <1>2, <1>3, <2>1
  <2> QED
    BY <1>3, <2>1, <2>2, <2>3
<1> QED
  BY <1>4, <1>5 DEF m, n

\* Where the proof goes from a unit, and which option has been searched in one
\* more world.
LEMMA NextUnitIs ==
    ASSUME UnitInside, Len(Worlds) \in Nat, Len(Options) \in Nat, Len(Options) >= 1,
           Options' = Options, unit' = NextUnit
    PROVE  /\ ~ LastUnit => unit' \in [world : 1 .. Len(Worlds), option : 1 .. Len(Options)]
           /\ LastUnit => \A i \in 1 .. Len(Options) : WorldsDone(i)' = Len(Worlds)
           /\ \A i \in 1 .. Len(Options) :
                WorldsDone(i)' = IF i = unit.option THEN WorldsDone(i) + 1 ELSE WorldsDone(i)
           /\ WorldsDone(unit.option) \in Nat /\ WorldsDone(unit.option) + 1 = unit.world
           /\ unit.world \in 1 .. Len(Worlds) /\ unit.option \in 1 .. Len(Options)
<1> DEFINE w == unit.world
           o == unit.option
           n == Len(Options)
<1>1. /\ w \in 1 .. Len(Worlds) /\ o \in 1 .. n /\ unit \in [world : 1 .. Len(Worlds), option : 1 .. n]
      /\ unit = [world |-> w, option |-> o] /\ n \in Nat /\ n >= 1
  BY DEF UnitInside
<1>2. CASE o < n
  <2>1. unit' = [world |-> w, option |-> o + 1]
    BY <1>1, <1>2 DEF NextUnit
  <2> HIDE DEF w, o, n
  <2>2. unit'.world = w /\ unit'.option = o + 1 /\ ~ LastUnit
    BY <1>1, <1>2, <2>1 DEF LastUnit, n, o
  <2>3. unit' \in [world : 1 .. Len(Worlds), option : 1 .. n]
    BY <1>1, <1>2, <2>1
  <2>4. \A i \in 1 .. n : /\ WorldsDone(i)' = IF i < o + 1 THEN w ELSE w - 1
                          /\ WorldsDone(i) = IF i < o THEN w ELSE w - 1
    BY <2>2 DEF WorldsDone, w, o
  <2>5. \A i \in 1 .. n : WorldsDone(i)' = IF i = o THEN WorldsDone(i) + 1 ELSE WorldsDone(i)
    BY <1>1, <2>4
  <2>6. WorldsDone(o) \in Nat /\ WorldsDone(o) + 1 = w
    BY <1>1, <2>4
  <2> QED
    BY <1>1, <2>2, <2>3, <2>5, <2>6 DEF w, o, n
<1>3. CASE ~ (o < n)
  <2>0. o = n
    BY <1>1, <1>3
  <2>1. unit' = [world |-> w + 1, option |-> 1]
    BY <1>3 DEF NextUnit
  <2> HIDE DEF w, o, n
  <2>2. unit'.world = w + 1 /\ unit'.option = 1
    BY <2>1
  <2>3. \A i \in 1 .. n : /\ WorldsDone(i)' = IF i < 1 THEN w + 1 ELSE (w + 1) - 1
                          /\ WorldsDone(i) = IF i < o THEN w ELSE w - 1
    BY <2>2 DEF WorldsDone, w, o
  <2>4. \A i \in 1 .. n : WorldsDone(i)' = w
    BY <1>1, <2>3
  <2>5. \A i \in 1 .. n : WorldsDone(i)' = IF i = o THEN WorldsDone(i) + 1 ELSE WorldsDone(i)
    BY <1>1, <2>0, <2>3, <2>4
  <2>6. WorldsDone(o) \in Nat /\ WorldsDone(o) + 1 = w
    BY <1>1, <2>3
  <2>7. LastUnit <=> w = Len(Worlds)
    BY <2>0 DEF LastUnit, w, o, n
  <2>8. ~ LastUnit => unit' \in [world : 1 .. Len(Worlds), option : 1 .. n]
    BY <1>1, <2>0, <2>1, <2>7
  <2> QED
    BY <1>1, <2>4, <2>5, <2>6, <2>7, <2>8 DEF w, o, n
<1> QED
  BY <1>2, <1>3

\* As long as the request is the same, so is what an outcome claims,
LEMMA SameOutcome ==
    ASSUME req' = req
    PROVE  /\ \A r : OutcomeIs(r)' = OutcomeIs(r)
           /\ \A b : Reached(b)' = Reached(b)
           /\ \A x, i, n : /\ LeastOver(x, i, n)' = LeastOver(x, i, n)
                           /\ LargestOver(x, i, n)' = LargestOver(x, i, n)
<1>1. \A r : OutcomeIs(r)' = OutcomeIs(r)
  BY SameRequest DEF OutcomeIs
<1>2. \A b : Reached(b)' = Reached(b)
  BY SameRequest DEF Reached, NoResult
<1>3. \A x, i, n : LeastOver(x, i, n)' = LeastOver(x, i, n) /\ LargestOver(x, i, n)' = LargestOver(x, i, n)
  BY DEF LeastOver, LargestOver, TrueValue, Worlds, Options, RootPlays, Root
<1> QED
  BY <1>1, <1>2, <1>3

\* what is least and largest over the worlds that are done,
LEMMA SameOver ==
    ASSUME req' = req
    PROVE  \A i : /\ LeastOver(guaranteed[i], i, WorldsDone(i))' = LeastOver(guaranteed'[i], i, WorldsDone(i)')
                  /\ LargestOver(reachable[i], i, WorldsDone(i))' = LargestOver(reachable'[i], i, WorldsDone(i)')
BY DEF LeastOver, LargestOver, TrueValue, Worlds, Options, RootPlays, Root

\* and what the result claims.
LEMMA SameConclusion ==
    ASSUME req' = req
    PROVE  OutcomeIs(result)' = OutcomeIs(result')
<1>1. /\ TrueGuarantee(result.move)' = TrueGuarantee(result'.move)
      /\ TrueReach(result.move)' = TrueReach(result'.move)
  BY DEF TrueGuarantee, TrueReach, TrueValue, TrueWorlds, Root
<1> QED
  BY <1>1, SameRequest DEF OutcomeIs

\* Nothing tried, or the first unit.
LEMMA BeginProofKeeps ==
    ASSUME RequestKnown, ProofInvariant, BeginProof
    PROVE  ProofInvariant'
<1>1. /\ stage = "proof" /\ req' = req /\ unit' = unit /\ solver' = solver /\ result' = result
      /\ TriesProof /\ result = NoResult /\ solver.optimistic = FALSE /\ FirstUnit
      /\ SolverSound(solver, FALSE)
  BY DEF BeginProof, ProofInvariant, ProofGoesOn, ProofStages
<1>2. SolverSound(solver, solver.optimistic)' /\ solver'.optimistic = FALSE
  BY <1>1, SolverKept
<1>3. TriesProof' /\ result' = NoResult /\ result'.found = FALSE
  BY <1>1, SameRequest DEF NoResult
<1>4. NoResult' = NoResult
  BY DEF NoResult
<1>5. CASE stage' = "proof_over"
  <2>1. ProofGoesOn'
    BY <1>3, <1>5 DEF ProofGoesOn
  <2> QED
    BY <1>2, <2>1 DEF ProofInvariant
<1>6. CASE /\ Worlds # <<>> /\ stage' = "prove"
           /\ guaranteed' = [i \in 1 .. Len(Options) |-> Infinity]
  <2>1. /\ Len(Worlds) \in Nat /\ Len(Worlds) >= 1 /\ Len(Options) \in Nat /\ Len(Options) >= 1
        /\ Infinity \in Nat
    BY <1>1, <1>6, OptionsAre, WorldsAre, RequestAssumption DEF RequestKnown, TriesProof
  <2>2. Worlds' = Worlds /\ Options' = Options
    BY <1>1, SameRequest
  <2>3. UnitInside'
    BY <1>1, <2>1, <2>2 DEF FirstUnit, UnitInside
  <2>4. guaranteed' = [i \in 1 .. Len(Options') |-> guaranteed'[i]]
    BY <1>6, <2>2
  <2>5. \A i \in 1 .. Len(Options') : LeastOver(guaranteed[i], i, WorldsDone(i))'
    <3> SUFFICES ASSUME NEW i \in 1 .. Len(Options) PROVE LeastOver(guaranteed[i], i, WorldsDone(i))'
      BY <2>2
    <3>1. WorldsDone(i)' = 0
      BY <1>1 DEF WorldsDone, FirstUnit
    <3>2. guaranteed'[i] = Infinity
      BY <1>6
    <3>3. 0 # 1 /\ ~ (0 >= 1)
      OBVIOUS
    <3> QED
      BY <2>1, <3>1, <3>2, <3>3 DEF LeastOver
  <2>6. ProofGoesOn'
    BY <1>2, <1>3, <1>4, <1>6, <2>2, <2>3, <2>4, <2>5 DEF ProofGoesOn
  <2> QED
    BY <1>2, <2>6 DEF ProofInvariant
<1> QED
  BY <1>5, <1>6 DEF BeginProof

\* The guarantees and what can be reached, after a unit.
LEMMA LeastAfterUnit ==
    ASSUME RequestKnown, stage \notin {"parse", "done"}, TriesProof, UnitInside,
           Worlds # <<>>, Options' = Options, unit' = NextUnit,
           \A i \in 1 .. Len(Options) : LeastOver(guaranteed[i], i, WorldsDone(i)),
           guaranteed = [i \in 1 .. Len(Options) |-> guaranteed[i]],
           NEW v, v = TrueValue(Options[unit.option], Worlds[unit.world], FALSE),
           guaranteed' = [guaranteed EXCEPT ![unit.option] = Min({@, v})]
    PROVE  /\ guaranteed' = [i \in 1 .. Len(Options) |-> guaranteed'[i]]
           /\ \A i \in 1 .. Len(Options) : LeastOver(guaranteed'[i], i, WorldsDone(i)')
           /\ LastUnit => guaranteed' = Guarantees
<1> DEFINE n == Len(Options)
           u == unit.option
<1>1. /\ Len(Worlds) \in Nat /\ Len(Worlds) >= 1 /\ n \in Nat /\ n >= 1
  BY OptionsAre, WorldsAre DEF RequestKnown, TriesProof
<1>2. /\ LastUnit => \A i \in 1 .. n : WorldsDone(i)' = Len(Worlds)
      /\ \A i \in 1 .. n : WorldsDone(i)' = IF i = u THEN WorldsDone(i) + 1 ELSE WorldsDone(i)
      /\ WorldsDone(u) \in Nat /\ WorldsDone(u) + 1 = unit.world
      /\ unit.world \in 1 .. Len(Worlds) /\ u \in 1 .. n
  BY <1>1, NextUnitIs
<1>3. DOMAIN guaranteed = 1 .. n
  OBVIOUS
<1>4. /\ guaranteed' = [i \in 1 .. n |-> guaranteed'[i]]
      /\ \A i \in 1 .. n : guaranteed'[i] = IF i = u THEN Min({guaranteed[u], v}) ELSE guaranteed[i]
  <2> HIDE DEF n, u
  <2> QED
    BY <1>2, <1>3 DEF u
<1> HIDE DEF n
<1>5. ASSUME NEW i \in 1 .. n PROVE LeastOver(guaranteed'[i], i, WorldsDone(i)')
  <2>1. CASE i = u
    <3>1. LeastOver(guaranteed[u], u, WorldsDone(u))
      BY <1>2 DEF n
    <3>2. v = TrueValue(Options[u], Worlds[WorldsDone(u) + 1], FALSE)
      BY <1>2
    <3> DEFINE d == WorldsDone(u)
    <3>3. d \in Nat /\ d + 1 \in 1 .. Len(Worlds) /\ LeastOver(guaranteed[u], u, d)
          /\ v = TrueValue(Options[u], Worlds[d + 1], FALSE) /\ u \in 1 .. Len(Options)
      BY <1>2, <3>1, <3>2 DEF n
    <3>4. guaranteed'[i] = Min({guaranteed[u], v}) /\ WorldsDone(i)' = d + 1
      BY <1>2, <1>4, <2>1
    <3> HIDE DEF d, u
    <3>5. LeastOver(Min({guaranteed[u], v}), u, d + 1)
      BY <3>3, LeastNext
    <3> QED
      BY <2>1, <3>4, <3>5
  <2>2. CASE i # u
    BY <1>2, <1>4, <2>2 DEF n
  <2> QED
    BY <2>1, <2>2
<1>6. ASSUME LastUnit PROVE guaranteed' = Guarantees
  <2>1. \A i \in 1 .. n : guaranteed'[i] = TrueGuarantee(Options[i])
    <3> SUFFICES ASSUME NEW i \in 1 .. n PROVE guaranteed'[i] = TrueGuarantee(Options[i])
      OBVIOUS
    <3>1. LeastOver(guaranteed'[i], i, Len(Worlds))
      BY <1>2, <1>5, <1>6
    <3> QED
      BY <1>1, <3>1, OverAllWorlds DEF n
  <2> QED
    BY <1>4, <2>1 DEF Guarantees, n
<1> QED
  BY <1>4, <1>5, <1>6 DEF n

\* After a unit of the second pass the largest values are over one world more.
LEMMA LargestAfterUnit ==
    ASSUME RequestKnown, stage \notin {"parse", "done"}, TriesProof, UnitInside,
           Worlds # <<>>, Options' = Options, unit' = NextUnit,
           \A i \in 1 .. Len(Options) : LargestOver(reachable[i], i, WorldsDone(i)),
           reachable = [i \in 1 .. Len(Options) |-> reachable[i]],
           NEW v, v = TrueValue(Options[unit.option], Worlds[unit.world], TRUE),
           reachable' = [reachable EXCEPT ![unit.option] = Max({@, v})]
    PROVE  /\ reachable' = [i \in 1 .. Len(Options) |-> reachable'[i]]
           /\ \A i \in 1 .. Len(Options) : LargestOver(reachable'[i], i, WorldsDone(i)')
           /\ LastUnit => reachable' = Reaches
<1> DEFINE n == Len(Options)
           u == unit.option
<1>1. /\ Len(Worlds) \in Nat /\ Len(Worlds) >= 1 /\ n \in Nat /\ n >= 1
  BY OptionsAre, WorldsAre DEF RequestKnown, TriesProof
<1>2. /\ LastUnit => \A i \in 1 .. n : WorldsDone(i)' = Len(Worlds)
      /\ \A i \in 1 .. n : WorldsDone(i)' = IF i = u THEN WorldsDone(i) + 1 ELSE WorldsDone(i)
      /\ WorldsDone(u) \in Nat /\ WorldsDone(u) + 1 = unit.world
      /\ unit.world \in 1 .. Len(Worlds) /\ u \in 1 .. n
  BY <1>1, NextUnitIs
<1>3. DOMAIN reachable = 1 .. n
  OBVIOUS
<1>4. /\ reachable' = [i \in 1 .. n |-> reachable'[i]]
      /\ \A i \in 1 .. n : reachable'[i] = IF i = u THEN Max({reachable[u], v}) ELSE reachable[i]
  <2> HIDE DEF n, u
  <2> QED
    BY <1>2, <1>3 DEF u
<1> HIDE DEF n
<1>5. ASSUME NEW i \in 1 .. n PROVE LargestOver(reachable'[i], i, WorldsDone(i)')
  <2>1. CASE i = u
    <3>1. LargestOver(reachable[u], u, WorldsDone(u))
      BY <1>2 DEF n
    <3>2. v = TrueValue(Options[u], Worlds[WorldsDone(u) + 1], TRUE)
      BY <1>2
    <3> DEFINE d == WorldsDone(u)
    <3>3. d \in Nat /\ d + 1 \in 1 .. Len(Worlds) /\ LargestOver(reachable[u], u, d)
          /\ v = TrueValue(Options[u], Worlds[d + 1], TRUE) /\ u \in 1 .. Len(Options)
      BY <1>2, <3>1, <3>2 DEF n
    <3>4. reachable'[i] = Max({reachable[u], v}) /\ WorldsDone(i)' = d + 1
      BY <1>2, <1>4, <2>1
    <3> HIDE DEF d, u
    <3>5. LargestOver(Max({reachable[u], v}), u, d + 1)
      BY <3>3, LargestNext
    <3> QED
      BY <2>1, <3>4, <3>5
  <2>2. CASE i # u
    BY <1>2, <1>4, <2>2 DEF n
  <2> QED
    BY <2>1, <2>2
<1>6. ASSUME LastUnit PROVE reachable' = Reaches
  <2>1. \A i \in 1 .. n : reachable'[i] = TrueReach(Options[i])
    <3> SUFFICES ASSUME NEW i \in 1 .. n PROVE reachable'[i] = TrueReach(Options[i])
      OBVIOUS
    <3>1. LargestOver(reachable'[i], i, Len(Worlds))
      BY <1>2, <1>5, <1>6
    <3> QED
      BY <1>1, <3>1, OverAllWorlds DEF n
  <2> QED
    BY <1>4, <2>1 DEF Reaches, n
<1> QED
  BY <1>4, <1>5, <1>6 DEF n

\* A unit of the first pass.
LEMMA ProveUnitKeeps ==
    ASSUME RequestKnown, ProofInvariant, ProveUnit
    PROVE  ProofInvariant'
<1> DEFINE a == SearchUnit
<1>1. /\ stage = "prove" /\ req' = req /\ result' = result /\ solver' = a.solver
      /\ TriesProof /\ Worlds # <<>> /\ result = NoResult /\ solver.optimistic = FALSE /\ UnitInside
      /\ guaranteed = [i \in 1 .. Len(Options) |-> guaranteed[i]]
      /\ \A i \in 1 .. Len(Options) : LeastOver(guaranteed[i], i, WorldsDone(i))
      /\ SolverSound(solver, FALSE)
  BY DEF ProveUnit, ProofInvariant, ProofGoesOn, ProofStages
<1>2. /\ SolverSound(a.solver, FALSE)
      /\ ~ a.solver.aborted => a.value = TrueValue(Options[unit.option], Worlds[unit.world], FALSE)
  BY <1>1, UnitSound
<1>3. SolverSound(solver, solver.optimistic)' /\ solver'.optimistic = FALSE
  BY <1>1, <1>2, SolverKept
<1>4. TriesProof' /\ result' = NoResult /\ result'.found = FALSE /\ NoResult' = NoResult
      /\ Worlds' = Worlds /\ Options' = Options /\ Guarantees' = Guarantees
  BY <1>1, SameRequest DEF NoResult
<1>5. CASE a.solver.aborted /\ stage' = "proof_over"
  <2>1. ProofGoesOn'
    BY <1>4, <1>5 DEF ProofGoesOn
  <2> QED
    BY <1>3, <2>1 DEF ProofInvariant
<1>6. CASE /\ ~ a.solver.aborted /\ unit' = NextUnit
           /\ guaranteed' = [guaranteed EXCEPT ![unit.option] = Min({@, a.value})]
           /\ stage' = IF LastUnit THEN "judge" ELSE "prove"
  <2> DEFINE v == a.value
  <2>1. v = TrueValue(Options[unit.option], Worlds[unit.world], FALSE)
        /\ guaranteed' = [guaranteed EXCEPT ![unit.option] = Min({@, v})]
    BY <1>2, <1>6
  <2> HIDE DEF v, a
  <2>2. /\ guaranteed' = [i \in 1 .. Len(Options) |-> guaranteed'[i]]
        /\ \A i \in 1 .. Len(Options) : LeastOver(guaranteed'[i], i, WorldsDone(i)')
        /\ LastUnit => guaranteed' = Guarantees
    BY <1>1, <1>4, <1>6, <2>1, LeastAfterUnit
  <2>3. \A i \in 1 .. Len(Options)' : LeastOver(guaranteed[i], i, WorldsDone(i))'
    <3>1. \A i : LeastOver(guaranteed[i], i, WorldsDone(i))' = LeastOver(guaranteed'[i], i, WorldsDone(i)')
      BY <1>1, SameOver
    <3> QED
      BY <1>4, <2>2, <3>1
  <2>4. ~ LastUnit => UnitInside'
    <3>1. Len(Worlds) \in Nat /\ Len(Options) \in Nat /\ Len(Options) >= 1
      BY <1>1, OptionsAre, WorldsAre DEF RequestKnown, TriesProof
    <3> QED
      BY <1>1, <1>4, <1>6, <3>1, NextUnitIs DEF UnitInside
  <2>5. CASE LastUnit
    <3>1. stage' = "judge" /\ guaranteed' = Guarantees'
      BY <1>4, <1>6, <2>2, <2>5
    <3>2. ProofGoesOn'
      BY <1>1, <1>3, <1>4, <3>1 DEF ProofGoesOn
    <3> QED
      BY <1>3, <3>2 DEF ProofInvariant
  <2>6. CASE ~ LastUnit
    <3>1. stage' = "prove" /\ UnitInside' /\ guaranteed' = [i \in 1 .. Len(Options') |-> guaranteed'[i]]
      BY <1>4, <1>6, <2>2, <2>4, <2>6
    <3>2. ProofGoesOn'
      BY <1>1, <1>3, <1>4, <2>3, <3>1 DEF ProofGoesOn
    <3> QED
      BY <1>3, <3>2 DEF ProofInvariant
  <2> QED
    BY <2>5, <2>6
<1> QED
  BY <1>5, <1>6 DEF ProveUnit

\* A unit of the second pass.
LEMMA ReachUnitKeeps ==
    ASSUME RequestKnown, ProofInvariant, ReachUnit
    PROVE  ProofInvariant'
<1> DEFINE a == SearchUnit
<1>1. /\ stage = "reach" /\ req' = req /\ solver' = a.solver /\ guaranteed' = guaranteed
      /\ TriesProof /\ Worlds # <<>> /\ UnitInside
      /\ NothingForced /\ result = Reached(FALSE) /\ solver.optimistic = TRUE
      /\ reachable = [i \in 1 .. Len(Options) |-> reachable[i]]
      /\ \A i \in 1 .. Len(Options) : LargestOver(reachable[i], i, WorldsDone(i))
      /\ SolverSound(solver, TRUE)
  BY DEF ReachUnit, ProofInvariant, ProofGoesOn, ProofStages
<1>2. /\ SolverSound(a.solver, TRUE)
      /\ ~ a.solver.aborted => a.value = TrueValue(Options[unit.option], Worlds[unit.world], TRUE)
  BY <1>1, UnitSound
<1>3. SolverSound(solver, solver.optimistic)' /\ solver'.optimistic = TRUE
  BY <1>1, <1>2, SolverKept
<1>4. /\ TriesProof' /\ Worlds' = Worlds /\ Options' = Options /\ Reaches' = Reaches
      /\ Guarantees' = Guarantees /\ Threshold' = Threshold
      /\ \A m : TrueGuarantee(m)' = TrueGuarantee(m)
      /\ \A b : Reached(b)' = Reached(b)
  BY <1>1, SameRequest, SameOutcome
<1>5. NothingForced'
  BY <1>1, <1>4 DEF NothingForced
<1>6. CASE a.solver.aborted /\ stage' = "settle" /\ result' = result
  <2>1. \E b \in BOOLEAN : result' = Reached(b) /\ (b => reachable' = Reaches)
    <3>1. FALSE \in BOOLEAN /\ result' = Reached(FALSE)
      BY <1>1, <1>6
    <3> QED
      BY <3>1
  <2>2. (\E b \in BOOLEAN : result = Reached(b) /\ (b => reachable = Reaches))'
    BY <1>4, <2>1
  <2>3. ProofGoesOn'
    BY <1>1, <1>4, <1>5, <1>6, <2>2 DEF ProofGoesOn
  <2> QED
    BY <1>3, <2>3 DEF ProofInvariant
<1>7. CASE /\ ~ a.solver.aborted /\ unit' = NextUnit
           /\ reachable' = [reachable EXCEPT ![unit.option] = Max({@, a.value})]
           /\ stage' = IF LastUnit THEN "settle" ELSE "reach"
           /\ result' = [result EXCEPT !.optimisticComplete = LastUnit]
  <2> DEFINE v == a.value
  <2>1. v = TrueValue(Options[unit.option], Worlds[unit.world], TRUE)
        /\ reachable' = [reachable EXCEPT ![unit.option] = Max({@, v})]
    BY <1>2, <1>7
  <2> HIDE DEF v, a
  <2>2. /\ reachable' = [i \in 1 .. Len(Options) |-> reachable'[i]]
        /\ \A i \in 1 .. Len(Options) : LargestOver(reachable'[i], i, WorldsDone(i)')
        /\ LastUnit => reachable' = Reaches
    BY <1>1, <1>4, <1>7, <2>1, LargestAfterUnit
  <2>3. \A i \in 1 .. Len(Options)' : LargestOver(reachable[i], i, WorldsDone(i))'
    <3>1. \A i : LargestOver(reachable[i], i, WorldsDone(i))' = LargestOver(reachable'[i], i, WorldsDone(i)')
      BY <1>1, SameOver
    <3> QED
      BY <1>4, <2>2, <3>1
  <2>4. ~ LastUnit => UnitInside'
    <3>1. Len(Worlds) \in Nat /\ Len(Options) \in Nat /\ Len(Options) >= 1
      BY <1>1, OptionsAre, WorldsAre DEF RequestKnown, TriesProof
    <3> QED
      BY <1>1, <1>4, <1>7, <3>1, NextUnitIs DEF UnitInside
  <2>5. CASE LastUnit
    <3>1. stage' = "settle" /\ reachable' = Reaches
      BY <1>7, <2>2, <2>5
    <3>2. result' = Reached(TRUE) /\ TRUE \in BOOLEAN
      <4>1. LastUnit = TRUE
        BY <2>5 DEF LastUnit
      <4>2. result' = [Reached(FALSE) EXCEPT !.optimisticComplete = TRUE]
        BY <1>1, <1>7, <4>1
      <4> QED
        BY <4>2 DEF Reached, NoResult
    <3>3. (\E b \in BOOLEAN : result = Reached(b) /\ (b => reachable = Reaches))'
      BY <1>4, <3>1, <3>2
    <3>4. ProofGoesOn'
      BY <1>1, <1>4, <1>5, <3>1, <3>3 DEF ProofGoesOn
    <3> QED
      BY <1>3, <3>4 DEF ProofInvariant
  <2>6. CASE ~ LastUnit
    <3>1. stage' = "reach" /\ UnitInside' /\ reachable' = [i \in 1 .. Len(Options') |-> reachable'[i]]
      BY <1>4, <1>7, <2>2, <2>4, <2>6
    <3>2. result' = Reached(FALSE)'
      <4>1. LastUnit = FALSE
        BY <2>6 DEF LastUnit
      <4>2. result' = [Reached(FALSE) EXCEPT !.optimisticComplete = FALSE]
        BY <1>1, <1>7, <4>1
      <4>3. result' = Reached(FALSE)
        BY <4>2 DEF Reached, NoResult
      <4> QED
        BY <1>4, <4>3
    <3>3. ProofGoesOn'
      BY <1>1, <1>3, <1>4, <1>5, <2>3, <3>1, <3>2 DEF ProofGoesOn
    <3> QED
      BY <1>3, <3>3 DEF ProofInvariant
  <2> QED
    BY <2>5, <2>6
<1> QED
  BY <1>6, <1>7 DEF ReachUnit

\* Whether the first pass forces a win.
LEMMA JudgeKeeps ==
    ASSUME RequestKnown, ProofInvariant, Judge
    PROVE  ProofInvariant'
<1> DEFINE n == Len(Options)
           b == BestBy(guaranteed, Threshold)
           v == Guarantees
<1>1. /\ stage = "judge" /\ req' = req /\ guaranteed' = guaranteed
      /\ TriesProof /\ Worlds # <<>> /\ guaranteed = Guarantees
      /\ result = NoResult /\ solver.optimistic = FALSE /\ SolverSound(solver, FALSE)
  BY DEF Judge, ProofInvariant, ProofGoesOn, ProofStages
<1>2. /\ Len(Worlds) \in Nat /\ Len(Worlds) >= 1 /\ n \in Nat /\ n >= 1 /\ Threshold \in Int
      /\ \A i \in 1 .. n : Options[i] \in TrueOptions
      /\ Range(Options) = TrueOptions /\ DOMAIN Options = 1 .. n
      /\ Infinity \in Nat
  <2>1. RequestReady /\ req.bagCount <= ExactBagMax
    BY <1>1 DEF RequestKnown, TriesProof
  <2>2. Threshold \in Int
    BY <2>1, RequestParts DEF Threshold
  <2> QED
    BY <1>1, <2>1, <2>2, OptionsAre, WorldsAre, RequestAssumption
<1>3. /\ \A i \in 1 .. n : v[i] \in Int /\ v[i] = TrueGuarantee(Options[i])
      /\ DOMAIN v = 1 .. n
  <2>1. \A m \in TrueOptions : TrueGuarantee(m) \in Int
    BY <1>1, <1>2, GuaranteeIs
  <2> QED
    BY <1>2, <2>1 DEF Guarantees
<1>4. \/ b = 0 /\ \A i \in 1 .. n : v[i] <= Threshold
      \/ b \in 1 .. n /\ b > 0 /\ v[b] > Threshold /\ \A j \in 1 .. n : v[j] <= v[b]
  <2>1. b = BestBy(v, Threshold)
    BY <1>1
  <2> HIDE DEF v, b, n
  <2> QED
    BY <1>2, <1>3, <2>1, BestByIs
<1>5. /\ TriesProof' /\ Worlds' = Worlds /\ Options' = Options /\ Guarantees' = Guarantees
      /\ Threshold' = Threshold
      /\ \A r : OutcomeIs(r)' = OutcomeIs(r)
      /\ \A c : Reached(c)' = Reached(c)
  BY <1>1, SameRequest, SameOutcome
<1>6. CASE b > 0
  <2>1. /\ stage' = "proof_over" /\ solver' = solver
        /\ result' = [[Commit(b) EXCEPT !.found = TRUE, !.solved = TRUE, !.threshold = Threshold]
                         EXCEPT !.outcome = "forced_win"]
    BY <1>6 DEF Judge
  <2>2. b \in 1 .. n /\ v[b] > Threshold /\ \A j \in 1 .. n : v[j] <= v[b]
    BY <1>4, <1>6
  <2>3. /\ result'.move = Options[b] /\ result'.value = v[b] /\ result'.outcome = "forced_win"
    <3> HIDE DEF b
    <3> QED
      BY <1>1, <2>1 DEF Commit, NoResult
  <2> HIDE DEF b, v
  <2>4. result'.value = TrueGuarantee(result'.move) /\ result'.value > Threshold
    BY <1>3, <2>2, <2>3
  <2>5. \A m \in TrueOptions : TrueGuarantee(m) <= result'.value
    <3> SUFFICES ASSUME NEW m \in TrueOptions PROVE TrueGuarantee(m) <= result'.value
      OBVIOUS
    <3>1. PICK i \in 1 .. n : m = Options[i]
      BY <1>2 DEF Range
    <3> QED
      BY <1>3, <2>2, <2>3, <3>1
  <2>6. OutcomeIs(result')
    BY <2>3, <2>4, <2>5 DEF OutcomeIs
  <2>7. OutcomeIs(result)'
    BY <1>1, <2>6, SameConclusion
  <2>8. result'.move \in Range(Options)
    BY <2>2, <2>3, <1>2 DEF Range
  <2>9. Concluded'
    BY <1>1, <1>5, <2>3, <2>7, <2>8 DEF Concluded, Outcomes
  <2>10. ProofGoesOn'
    BY <1>5, <2>1, <2>9 DEF ProofGoesOn
  <2>11. SolverSound(solver, solver.optimistic)'
    BY <1>1, <2>1, SolverKept
  <2> QED
    BY <2>10, <2>11 DEF ProofInvariant
<1>7. CASE ~ (b > 0)
  <2>1. /\ stage' = "reach" /\ unit' = [world |-> 1, option |-> 1]
        /\ solver' = [solver EXCEPT !.optimistic = TRUE]
        /\ reachable' = [i \in 1 .. n |-> -Infinity]
        /\ result' = [result EXCEPT !.found = TRUE, !.solved = TRUE, !.threshold = Threshold]
    BY <1>7 DEF Judge
  <2>2. result' = Reached(FALSE)
    BY <1>1, <2>1 DEF Reached, NoResult
  <2>3. \A i \in 1 .. n : v[i] <= Threshold
    BY <1>4, <1>7
  <2> HIDE DEF b, v
  <2>4. NothingForced
    BY <1>1, <2>3 DEF NothingForced, v
  <2>5. NothingForced'
    BY <1>1, <1>5, <2>4 DEF NothingForced
  <2>6. SolverSound(solver', TRUE)
    BY <1>1, <2>1 DEF SolverSound, SolverStates
  <2>7. SolverSound(solver, solver.optimistic)' /\ solver'.optimistic = TRUE
    BY <1>1, <2>6, SolverKept
  <2>8. UnitInside'
    BY <1>2, <1>5, <2>1 DEF UnitInside
  <2>9. reachable' = [i \in 1 .. Len(Options') |-> reachable'[i]]
    BY <1>5, <2>1
  <2>10. \A i \in 1 .. Len(Options)' : LargestOver(reachable[i], i, WorldsDone(i))'
    <3> SUFFICES ASSUME NEW i \in 1 .. n PROVE LargestOver(reachable[i], i, WorldsDone(i))'
      BY <1>5
    <3>1. WorldsDone(i)' = 0
      BY <2>1 DEF WorldsDone
    <3>2. reachable'[i] = -Infinity /\ -Infinity \in Int
      BY <1>2, <2>1
    <3>3. 0 # 1 /\ ~ (0 >= 1)
      OBVIOUS
    <3> QED
      BY <3>1, <3>2, <3>3 DEF LargestOver
  <2>11. result' = Reached(FALSE)'
    BY <1>5, <2>2
  <2>12. ProofGoesOn'
    BY <1>1, <1>5, <2>1, <2>5, <2>7, <2>8, <2>9, <2>10, <2>11 DEF ProofGoesOn
  <2> QED
    BY <2>7, <2>12 DEF ProofInvariant
<1> QED
  BY <1>6, <1>7

\* A solver nobody uses stays sound.
LEMMA SolverSame ==
    ASSUME req'.scoreOf = req.scoreOf, solver' = solver, SolverSound(solver, solver.optimistic)
    PROVE  SolverSound(solver, solver.optimistic)'
BY DEF SolverSound, EntrySound, V

\* The values of the options, in the order of the options.
LEMMA OptionWorths ==
    ASSUME RequestKnown, stage \notin {"parse", "done"}, TriesProof, Worlds # <<>>
    PROVE  LET n == Len(Options) IN
           /\ n \in Nat /\ n >= 1 /\ DOMAIN Options = 1 .. n /\ Threshold \in Int /\ Infinity \in Nat
           /\ DOMAIN Guarantees = 1 .. n /\ DOMAIN Reaches = 1 .. n
           /\ \A i \in 1 .. n :
                /\ Options[i] \in TrueOptions /\ Options[i] \in Range(Options)
                /\ Guarantees[i] = TrueGuarantee(Options[i]) /\ Reaches[i] = TrueReach(Options[i])
                /\ Guarantees[i] \in Int /\ -Infinity < Guarantees[i] /\ Reaches[i] \in Int
           /\ \A m \in TrueOptions : \E i \in 1 .. n : m = Options[i]
<1> DEFINE n == Len(Options)
<1>1. RequestReady /\ req.bagCount <= ExactBagMax
  BY DEF RequestKnown, TriesProof
<1>2. Threshold \in Int /\ Infinity \in Nat
  BY <1>1, RequestParts, RequestAssumption DEF Threshold
<1>3. /\ Len(Worlds) >= 1 /\ n \in Nat /\ n >= 1 /\ DOMAIN Options = 1 .. n
      /\ \A i \in 1 .. n : Options[i] \in TrueOptions
      /\ Range(Options) = TrueOptions
  BY <1>1, OptionsAre, WorldsAre
<1>4. \A m \in TrueOptions : TrueGuarantee(m) \in Int /\ TrueReach(m) \in Int /\ -Infinity < TrueGuarantee(m)
  BY <1>3, GuaranteeIs
<1>5. \A m \in TrueOptions : \E i \in 1 .. n : m = Options[i]
  BY <1>3 DEF Range
<1> QED
  BY <1>2, <1>3, <1>4, <1>5 DEF Guarantees, Reaches

\* What is said when nothing is forced.
LEMMA SettleKeeps ==
    ASSUME RequestKnown, ProofInvariant, Settle
    PROVE  ProofInvariant'
<1> DEFINE n == Len(Options)
           G == Guarantees
           R == Reaches
<1>1. /\ stage = "settle" /\ req' = req /\ guaranteed' = guaranteed /\ solver' = solver /\ stage' = "proof_over"
      /\ TriesProof /\ Worlds # <<>> /\ NothingForced
      /\ SolverSound(solver, solver.optimistic)
      /\ \E b \in BOOLEAN : result = Reached(b) /\ (b => reachable = Reaches)
  BY DEF Settle, ProofInvariant, ProofGoesOn, ProofStages
<1>2. PICK b \in BOOLEAN : result = Reached(b) /\ (b => reachable = Reaches)
  BY <1>1
<1>3. /\ n \in Nat /\ n >= 1 /\ Threshold \in Int /\ Infinity \in Nat
      /\ DOMAIN G = 1 .. n /\ DOMAIN R = 1 .. n
      /\ \A i \in 1 .. n :
           /\ Options[i] \in Range(Options)
           /\ G[i] = TrueGuarantee(Options[i]) /\ R[i] = TrueReach(Options[i])
           /\ G[i] \in Int /\ -Infinity < G[i] /\ R[i] \in Int
      /\ \A m \in TrueOptions : \E i \in 1 .. n : m = Options[i]
  BY <1>1, OptionWorths
<1>4. guaranteed = G /\ \A i \in 1 .. n : G[i] <= Threshold
  BY <1>1 DEF NothingForced
<1> DEFINE best == BestBy(G, -Infinity - 1)
           cond == BestBy(R, Threshold)
<1> HIDE DEF n, G, R
<1>5. best \in 1 .. n /\ \A j \in 1 .. n : G[j] <= G[best]
  <2>1. -Infinity - 1 \in Int
    BY <1>3
  <2>2. ~ (G[1] <= -Infinity - 1) /\ 1 \in 1 .. n
    <3> DEFINE x == G[1]
    <3>1. x \in Int /\ -Infinity < x /\ 1 \in 1 .. n
      BY <1>3
    <3> HIDE DEF x
    <3>2. ~ (x <= -Infinity - 1)
      BY <1>3, <3>1
    <3> QED
      BY <3>1, <3>2 DEF x
  <2> DEFINE f == -Infinity - 1
  <2> HIDE DEF f
  <2>3. f \in Int /\ ~ (G[1] <= f) /\ best = BestBy(G, f)
    BY <2>1, <2>2 DEF f
  <2> HIDE DEF best
  <2> QED
    BY <1>3, <2>2, <2>3, BestByIs
<1>6. \/ cond = 0 /\ \A i \in 1 .. n : R[i] <= Threshold
      \/ cond \in 1 .. n /\ cond > 0 /\ R[cond] > Threshold
  <2> HIDE DEF cond
  <2>1. cond = BestBy(R, Threshold)
    BY DEF cond
  <2> QED
    BY <1>3, <2>1, BestByIs
<1>7. \A i \in 1 .. n : Commit(i) = [Reached(b) EXCEPT !.value = G[i], !.move = Options[i]]
  BY <1>2, <1>4 DEF Commit
<1>8. result.optimisticComplete = b
  BY <1>2 DEF Reached
<1>9. result' = IF (IF b THEN cond ELSE 0) > 0
                THEN [Commit(cond) EXCEPT !.outcome = "conditional_win", !.reachable = R[cond]]
                ELSE [Commit(best) EXCEPT !.outcome =
                        IF ~ b THEN "unknown" ELSE IF G[best] = Threshold THEN "forced_draw" ELSE "forced_loss"]
  <2>1. CASE b
    <3>1. reachable = R /\ result.optimisticComplete = TRUE
      BY <1>2, <1>8, <2>1 DEF R
    <3> QED
      BY <1>4, <2>1, <3>1 DEF Settle
  <2>2. CASE ~ b
    <3>1. result.optimisticComplete = FALSE /\ ~ (0 > 0)
      BY <1>8, <2>2
    <3> QED
      BY <1>4, <2>2, <3>1 DEF Settle
  <2> QED
    BY <2>1, <2>2
<1> HIDE DEF best, cond
<1>10. ASSUME NEW i \in 1 .. n, result'.move = Options[i], result'.value = G[i],
              result'.outcome \in Outcomes \ {"forced_win"}, OutcomeIs(result')
       PROVE  ProofInvariant'
  <2>1. OutcomeIs(result)'
    BY <1>1, <1>10, SameConclusion
  <2>2. Options' = Options /\ Guarantees' = Guarantees /\ Worlds' = Worlds /\ Threshold' = Threshold /\ TriesProof' = TriesProof
    BY <1>1, SameRequest
  <2>3. result'.value <= Threshold /\ result'.move \in Range(Options)
    BY <1>3, <1>4, <1>10
  <2>4. Concluded'
    BY <1>1, <1>4, <1>10, <2>1, <2>2, <2>3 DEF Concluded, Outcomes, G
  <2>5. ProofGoesOn'
    BY <1>1, <2>2, <2>4 DEF ProofGoesOn
  <2>6. SolverSound(solver, solver.optimistic)'
    BY <1>1, SolverSame
  <2> QED
    BY <2>5, <2>6 DEF ProofInvariant
<1>11. \A i \in 1 .. n : (\A j \in 1 .. n : G[j] <= G[i]) => \A m \in TrueOptions : TrueGuarantee(m) <= G[i]
  BY <1>3
<1>12. \A m \in TrueOptions : TrueGuarantee(m) <= Threshold
  BY <1>3, <1>4
<1>13. CASE b /\ cond > 0
  <2>1. cond \in 1 .. n /\ R[cond] > Threshold
    BY <1>6, <1>13
  <2>2. result' = [[Reached(b) EXCEPT !.value = G[cond], !.move = Options[cond]]
                     EXCEPT !.outcome = "conditional_win", !.reachable = R[cond]]
    BY <1>7, <1>9, <1>13, <2>1
  <2>3. /\ result'.move = Options[cond] /\ result'.value = G[cond] /\ result'.outcome = "conditional_win"
        /\ result'.reachable = R[cond]
    BY <2>2 DEF Reached
  <2>4. OutcomeIs(result')
    BY <1>3, <1>12, <2>1, <2>3 DEF OutcomeIs
  <2> QED
    BY <1>10, <2>1, <2>3, <2>4 DEF Outcomes
<1>14. CASE ~ b
  <2>1. result' = [[Reached(b) EXCEPT !.value = G[best], !.move = Options[best]] EXCEPT !.outcome = "unknown"]
    <3>1. ~ (0 > 0)
      OBVIOUS
    <3> QED
      BY <1>5, <1>7, <1>9, <1>14, <3>1
  <2>2. /\ result'.move = Options[best] /\ result'.value = G[best] /\ result'.outcome = "unknown"
        /\ result'.optimisticComplete = b
    BY <2>1 DEF Reached
  <2>3. \A m \in TrueOptions : TrueGuarantee(m) <= result'.value
    BY <1>5, <1>11, <2>2
  <2>4. OutcomeIs(result')
    BY <1>3, <1>5, <1>14, <2>2, <2>3 DEF OutcomeIs
  <2> QED
    BY <1>5, <1>10, <2>2, <2>4 DEF Outcomes
<1>15. CASE b /\ ~ (cond > 0)
  <2> DEFINE o == IF G[best] = Threshold THEN "forced_draw" ELSE "forced_loss"
  <2>1. result' = [[Reached(b) EXCEPT !.value = G[best], !.move = Options[best]] EXCEPT !.outcome = o]
    BY <1>5, <1>7, <1>9, <1>15
  <2>2. /\ result'.move = Options[best] /\ result'.value = G[best] /\ result'.outcome = o
    <3> HIDE DEF o
    <3> QED
      BY <2>1 DEF Reached
  <2>3. \A m \in TrueOptions : TrueGuarantee(m) <= result'.value
    BY <1>5, <1>11, <2>2
  <2>4. \A m \in TrueOptions : TrueReach(m) <= Threshold
    BY <1>3, <1>6, <1>15
  <2>5. OutcomeIs(result')
    BY <1>3, <1>5, <2>2, <2>3, <2>4 DEF OutcomeIs
  <2> QED
    BY <1>5, <1>10, <2>2, <2>5 DEF Outcomes
<1> QED
  BY <1>13, <1>14, <1>15

\* The rest of a request leaves the proof alone.
LEMMA ProofRests ==
    ASSUME ProofInvariant, UNCHANGED requestVars
    PROVE  ProofInvariant'
<1>1. /\ req' = req /\ stage' = stage /\ unit' = unit /\ solver' = solver /\ guaranteed' = guaranteed
      /\ reachable' = reachable /\ result' = result
  BY DEF requestVars, proofVars
<1>2. /\ Worlds' = Worlds /\ Options' = Options /\ Threshold' = Threshold /\ TriesProof' = TriesProof
      /\ Guarantees' = Guarantees /\ Reaches' = Reaches /\ NoResult' = NoResult
      /\ \A b : Reached(b)' = Reached(b)
  BY <1>1, SameRequest, SameOutcome DEF NoResult
<1>3. UnitInside' = UnitInside /\ NothingForced' = NothingForced /\ FirstUnit' = FirstUnit
  BY <1>1, <1>2 DEF UnitInside, NothingForced, FirstUnit
<1>4. \A i : WorldsDone(i)' = WorldsDone(i)
  BY <1>1 DEF WorldsDone
<1>5. \A i : /\ LeastOver(guaranteed[i], i, WorldsDone(i))' = LeastOver(guaranteed[i], i, WorldsDone(i))
             /\ LargestOver(reachable[i], i, WorldsDone(i))' = LargestOver(reachable[i], i, WorldsDone(i))
  BY <1>1, <1>4, SameOver
<1>6. Concluded' = Concluded
  <2>1. OutcomeIs(result)' = OutcomeIs(result)
    BY <1>1, SameConclusion
  <2> QED
    BY <1>1, <1>2, <2>1 DEF Concluded, Outcomes
<1>7. SolverSound(solver, solver.optimistic)'
  BY <1>1, SolverSame DEF ProofInvariant
<1>8. ProofGoesOn'
  BY <1>1, <1>2, <1>3, <1>5, <1>6 DEF ProofGoesOn, ProofInvariant, ProofStages
<1> QED
  BY <1>7, <1>8 DEF ProofInvariant

\* The steps before and after a proof leave it alone.
LEMMA ProofElsewhere ==
    ASSUME RequestKnown, ProofInvariant, Next, ~ ProofNext
    PROVE  ProofInvariant'
<1>1. ASSUME solver' = solver, req'.scoreOf = req.scoreOf, stage' \in {"terminal", "admit", "greedy", "sample", "rank", "done"}
      PROVE  ProofInvariant'
  <2>1. SolverSound(solver, solver.optimistic)'
    BY <1>1, SolverSame DEF ProofInvariant
  <2>2. ProofGoesOn'
    BY <1>1 DEF ProofGoesOn, ProofStages
  <2> QED
    BY <2>1, <2>2 DEF ProofInvariant
<1>2. CASE ParseRequest
  <2>1. req \in RequestShape
    BY DEF RequestKnown, RequestReady
  <2>2. req'.scoreOf = req.scoreOf
    BY <1>2, <2>1 DEF ParseRequest, RequestShape
  <2>3. /\ stage = "parse" /\ stage' \in {"generate", "done"} /\ solver' = solver /\ unit' = unit /\ result' = result
    BY <1>2 DEF ParseRequest
  <2>4. solver.optimistic = FALSE /\ result = NoResult /\ FirstUnit /\ NoResult' = NoResult
    BY <2>3 DEF ProofInvariant, ProofGoesOn, NoResult
  <2>5. SolverSound(solver, solver.optimistic)'
    BY <2>2, <2>3, SolverSame DEF ProofInvariant
  <2>6. ProofGoesOn'
    BY <2>3, <2>4 DEF ProofGoesOn, ProofStages, FirstUnit
  <2> QED
    BY <2>5, <2>6 DEF ProofInvariant
<1>3. CASE GenerateRoot
  <2>1. /\ stage = "generate" /\ req' = req /\ solver' = solver /\ unit' = unit /\ result' = result
        /\ stage' = IF TriesProof THEN "proof" ELSE "terminal"
    BY <1>3 DEF GenerateRoot
  <2>2. solver.optimistic = FALSE /\ result = NoResult /\ FirstUnit /\ NoResult' = NoResult
    BY <2>1 DEF ProofInvariant, ProofGoesOn, NoResult
  <2>3. TriesProof' = TriesProof
    BY <2>1, SameRequest
  <2>4. SolverSound(solver, solver.optimistic)'
    BY <2>1, SolverSame DEF ProofInvariant
  <2>5. ProofGoesOn'
    BY <2>1, <2>2, <2>3 DEF ProofGoesOn, ProofStages, FirstUnit
  <2> QED
    BY <2>4, <2>5 DEF ProofInvariant
<1>4. CASE UseProof \/ SettleAtOnce \/ AdmitCandidates \/ SampleRow \/ ClockCutsRow \/ RankCandidates \/ PlayGreedy
  <2>1. solver' = solver /\ req' = req
    BY <1>4 DEF UseProof, SettleAtOnce, AdmitCandidates, SampleRow, ClockCutsRow, RankCandidates, PlayGreedy
  <2>2. stage' \in {"terminal", "admit", "greedy", "sample", "rank", "done"}
    <3>1. CASE SampleRow
      BY <3>1 DEF SampleRow
    <3>2. CASE UseProof \/ SettleAtOnce \/ AdmitCandidates \/ ClockCutsRow \/ RankCandidates \/ PlayGreedy
      BY <3>2 DEF UseProof, SettleAtOnce, AdmitCandidates, ClockCutsRow, RankCandidates, PlayGreedy
    <3> QED
      BY <1>4, <3>1, <3>2
  <2> QED
    BY <1>1, <2>1, <2>2
<1> QED
  BY <1>2, <1>3, <1>4 DEF Next

\* No proof is under way at first.
LEMMA ProofBegins == Init => ProofInvariant
<1> SUFFICES ASSUME Init PROVE ProofInvariant
  OBVIOUS
<1>1. /\ req \in Requests /\ stage = "parse" /\ unit = [world |-> 1, option |-> 1]
      /\ solver = NewSolver /\ result = NoResult
  BY DEF Init, ProofInit
<1>2. EmptySlot \in Slots /\ EmptySlot.key = None /\ None \notin Keys
  BY RequestAssumption DEF EmptySlot, Slots
<1>3. NewSolver \in SolverStates /\ NewSolver.optimistic = FALSE
      /\ \A i \in 0 .. TableSize - 1 : NewSolver.table[i] = EmptySlot
  <2>1. [i \in 0 .. TableSize - 1 |-> EmptySlot] \in [0 .. TableSize - 1 -> Slots]
    BY <1>2
  <2> QED
    BY <2>1 DEF NewSolver, SolverStates
<1>4. SolverSound(solver, FALSE)
  BY <1>1, <1>2, <1>3 DEF SolverSound, EntrySound
<1>5. solver.optimistic = FALSE
  BY <1>1, <1>3
<1>6. SolverSound(solver, solver.optimistic)
  BY <1>4, <1>5
<1>7. ProofGoesOn
  BY <1>1, <1>5 DEF ProofGoesOn, ProofStages, FirstUnit
<1> QED
  BY <1>6, <1>7 DEF ProofInvariant

\* At every step of a proof: the searches have left nothing wrong in the table,
\* and what has been found of an option is what it is worth in the worlds it has
\* been searched in.
THEOREM ProofGoesRight == Spec => []ProofInvariant
<1>1. RequestKnown /\ ProofInvariant /\ [Next \/ Answered]_requestVars => ProofInvariant'
  <2> SUFFICES ASSUME RequestKnown, ProofInvariant, [Next \/ Answered]_requestVars PROVE ProofInvariant'
    OBVIOUS
  <2>1. CASE Next
    BY <2>1, BeginProofKeeps, ProveUnitKeeps, JudgeKeeps, ReachUnitKeeps, SettleKeeps, ProofElsewhere DEF ProofNext
  <2>2. CASE UNCHANGED requestVars
    BY <2>2, ProofRests
  <2> QED
    BY <2>1, <2>2 DEF Answered
<1> QED
  BY <1>1, ProofBegins, RequestAlwaysKnown, PTL DEF Spec

\* What holds at every step of a proof says that it is sound.
LEMMA ProofInvariantSays ==
    ASSUME ProofInvariant
    PROVE  ProofSound
<1>1. TableSound
  <2> SUFFICES ASSUME NEW i \in DOMAIN solver.table, solver.table[i].key # None
               PROVE  LET e == solver.table[i]
                          v == ValueOf(req.scoreOf, e.key.optimistic)[e.key.pos]
                      IN  CASE e.flag = 0 -> e.value = v
                            [] e.flag = 1 -> e.value <= v
                            [] OTHER -> e.value >= v
    BY DEF TableSound
  <2> DEFINE e == solver.table[i]
  <2>1. SolverSound(solver, solver.optimistic)
    BY DEF ProofInvariant
  <2>2. i \in 0 .. TableSize - 1 /\ solver.table \in [0 .. TableSize - 1 -> Slots]
    BY <2>1 DEF SolverSound, SolverStates
  <2>3. EntrySound(e) /\ e.flag \in 0 .. 2
    BY <2>1, <2>2 DEF SolverSound, Slots
  <2>4. e.flag = 0 \/ e.flag = 1 \/ e.flag = 2
    BY <2>3
  <2> HIDE DEF e
  <2>5. e.key # None
    BY DEF e
  <2>6. LET v == ValueOf(req.scoreOf, e.key.optimistic)[e.key.pos]
        IN  CASE e.flag = 0 -> e.value = v
              [] e.flag = 1 -> e.value <= v
              [] OTHER -> e.value >= v
    <3> DEFINE v == V(e.key.optimistic)[e.key.pos]
               x == e.value
    <3>1. v \in Int /\ x \in Int /\ (e.flag # 2 => x <= v) /\ (e.flag # 1 => v <= x)
      BY <2>3, <2>5 DEF EntrySound, Bounded
    <3> HIDE DEF v, x
    <3>2. (e.flag = 0 => x = v) /\ (e.flag = 1 => x <= v) /\ (e.flag = 2 => x >= v)
      BY <2>4, <3>1
    <3>3. (CASE e.flag = 0 -> x = v [] e.flag = 1 -> x <= v [] OTHER -> x >= v)
      BY <2>4, <3>2
    <3> QED
      BY <3>3 DEF v, x, V
  <2> QED
    BY <2>6 DEF e
<1>2. OutcomeSound
  <2> SUFFICES ASSUME stage = "proof_over", result.found PROVE OutcomeIs(result)
    BY DEF OutcomeSound, OutcomeIs
  <2> QED
    BY DEF ProofInvariant, ProofGoesOn, Concluded
<1> QED
  BY <1>1, <1>2 DEF ProofSound

\* What is said of a move is what is so, whatever the budget, the size of the
\* table and the order of the moves, and so is every entry of the table.
THEOREM ProofAlwaysSound == Spec => []ProofSound
BY ProofGoesRight, ProofInvariantSays, PTL

-----------------------------------------------------------------------------
(* Sequences of candidates                                                 *)

\* The members of a sequence, by the places they stand at.
RangeOf(s) == {s[i] : i \in 1 .. Len(s)}

\* They are its range.
LEMMA RangeOfSeqIs == ASSUME NEW T, NEW s \in Seq(T) PROVE Range(s) = RangeOf(s) /\ Range(s) \in SUBSET T
BY DEF Range, RangeOf

\* Of two sequences in a row.
LEMMA RangeOfTwo ==
    ASSUME NEW T, NEW s \in Seq(T), NEW t \in Seq(T)
    PROVE  s \o t \in Seq(T) /\ Range(s \o t) = Range(s) \cup Range(t)
<1> DEFINE r == s \o t
<1>1. r \in Seq(T) /\ Len(r) = Len(s) + Len(t) /\ Len(s) \in Nat /\ Len(t) \in Nat
  OBVIOUS
<1>2. \A i \in 1 .. Len(r) : r[i] = IF i <= Len(s) THEN s[i] ELSE t[i - Len(s)]
  OBVIOUS
<1> HIDE DEF r
<1>3. ASSUME NEW i \in 1 .. Len(r) PROVE r[i] \in RangeOf(s) \cup RangeOf(t)
  <2>1. CASE i <= Len(s)
    BY <1>1, <1>2, <2>1 DEF RangeOf
  <2>2. CASE ~ (i <= Len(s))
    <3>1. i - Len(s) \in 1 .. Len(t)
      BY <1>1, <2>2
    <3> QED
      BY <1>2, <2>2, <3>1 DEF RangeOf
  <2> QED
    BY <2>1, <2>2
<1>4. ASSUME NEW i \in 1 .. Len(s) PROVE s[i] \in RangeOf(r)
  <2>1. i \in 1 .. Len(r) /\ r[i] = s[i]
    BY <1>1, <1>2
  <2> QED
    BY <2>1 DEF RangeOf
<1>5. ASSUME NEW i \in 1 .. Len(t) PROVE t[i] \in RangeOf(r)
  <2>1. Len(s) + i \in 1 .. Len(r) /\ ~ (Len(s) + i <= Len(s)) /\ (Len(s) + i) - Len(s) = i
    BY <1>1
  <2>2. r[Len(s) + i] = t[i]
    BY <1>2, <2>1
  <2> QED
    BY <2>1, <2>2 DEF RangeOf
<1>6. RangeOf(r) = RangeOf(s) \cup RangeOf(t)
  BY <1>3, <1>4, <1>5 DEF RangeOf
<1> QED
  BY <1>1, <1>6, RangeOfSeqIs DEF r

\* What FlattenSeq computes, and what it holds.
FlatSteps(g, seqs) ==
    g = [i \in 1 .. Len(seqs) |-> IF i = 1 THEN seqs[i] ELSE g[i - 1] \o seqs[i]]

\* Of many sequences in a row.
LEMMA FlattenShape ==
    ASSUME NEW T, NEW seqs \in Seq(Seq(T))
    PROVE  /\ FlattenSeq(seqs) \in Seq(T)
           /\ Range(FlattenSeq(seqs)) = UNION {Range(seqs[i]) : i \in 1 .. Len(seqs)}
<1> DEFINE N == Len(seqs)
           chosen == CHOOSE g : FlatSteps(g, seqs)
           step == [i \in 1 .. N |-> [s \in Seq(T) |-> s \o seqs[i]]]
<1>1. FlattenSeq(seqs) = IF N = 0 THEN seqs ELSE chosen[N]
  BY DEF FlattenSeq, FlatSteps
<1>2. N \in Nat /\ \A i \in 1 .. N : seqs[i] \in Seq(T)
  OBVIOUS
<1>3. \A i \in 1 .. N : \A s \in Seq(T) : step[i][s] = s \o seqs[i] /\ step[i][s] \in Seq(T)
  BY <1>2
<1>4. <<>> \in Seq(T)
  OBVIOUS
<1> HIDE DEF step, N
<1>5. PICK f : Stepwise(f, N, Seq(T), <<>>, step)
  BY <1>2, <1>3, <1>4, BoundedRecursion
<1>6. /\ f \in [0 .. N -> Seq(T)] /\ f[0] = <<>>
      /\ \A i \in 1 .. N : f[i] = step[i][f[i - 1]]
  BY <1>5 DEF Stepwise
<1>7. \A i \in 1 .. N : i - 1 \in 0 .. N /\ i \in 0 .. N
  BY <1>2
<1>8. \A i \in 1 .. N : f[i] \in Seq(T) /\ f[i - 1] \in Seq(T) /\ f[i] = f[i - 1] \o seqs[i]
  BY <1>3, <1>6, <1>7
<1> DEFINE g == [i \in 1 .. N |-> f[i]]
<1>9. g = [i \in 1 .. N |-> IF i = 1 THEN seqs[i] ELSE g[i - 1] \o seqs[i]]
  <2>1. ASSUME NEW i \in 1 .. N PROVE f[i] = IF i = 1 THEN seqs[i] ELSE g[i - 1] \o seqs[i]
    <3>1. CASE i = 1
      <4>1. f[i] = f[i - 1] \o seqs[i]
        BY <1>8
      <4>2. i - 1 = 0
        BY <3>1
      <4>3. f[i] = <<>> \o seqs[i]
        BY <1>6, <4>1, <4>2
      <4> QED
        BY <1>2, <3>1, <4>3, ConcatEmptySeq
    <3>2. CASE i # 1
      <4>1. i - 1 \in 1 .. N
        BY <1>2, <3>2
      <4> QED
        BY <1>8, <3>2, <4>1
    <3> QED
      BY <3>1, <3>2
  <2> QED
    BY <2>1
<1>10. FlatSteps(chosen, seqs)
  <2>1. FlatSteps(g, seqs)
    BY <1>9 DEF FlatSteps, N
  <2> HIDE DEF g
  <2> QED
    BY <2>1, Zenon
<1> HIDE DEF chosen, g
<1>11. \A i \in 1 .. N : chosen[i] = IF i = 1 THEN seqs[i] ELSE chosen[i - 1] \o seqs[i]
  BY <1>10 DEF FlatSteps, N
<1> DEFINE U(n) == UNION {Range(seqs[i]) : i \in 1 .. n}
           Right == {n \in Nat : n + 1 <= N => chosen[n + 1] \in Seq(T) /\ Range(chosen[n + 1]) = U(n + 1)}
<1>12. 0 \in Right
  <2>1. ASSUME 0 + 1 <= N PROVE chosen[0 + 1] \in Seq(T) /\ Range(chosen[0 + 1]) = U(0 + 1)
    <3>1. 1 \in 1 .. N /\ 0 + 1 = 1
      BY <1>2, <2>1
    <3>2. chosen[1] = seqs[1] /\ seqs[1] \in Seq(T)
      BY <1>2, <1>11, <3>1
    <3>3. \A i : i \in 1 .. 1 <=> i = 1
      OBVIOUS
    <3>4. U(1) = Range(seqs[1])
      BY <3>3
    <3> QED
      BY <3>1, <3>2, <3>4
  <2> QED
    BY <2>1
<1>13. ASSUME NEW n \in Right PROVE n + 1 \in Right
  <2>1. n \in Nat
    OBVIOUS
  <2>2. ASSUME (n + 1) + 1 <= N
        PROVE  chosen[(n + 1) + 1] \in Seq(T) /\ Range(chosen[(n + 1) + 1]) = U((n + 1) + 1)
    <3> DEFINE k == n + 1
    <3>1. /\ k \in Nat /\ k + 1 \in 1 .. N /\ k + 1 # 1 /\ (k + 1) - 1 = k
          /\ chosen[k] \in Seq(T) /\ Range(chosen[k]) = U(k)
      BY <1>2, <1>13, <2>1, <2>2
    <3> HIDE DEF k
    <3>2. chosen[k + 1] = chosen[k] \o seqs[k + 1] /\ seqs[k + 1] \in Seq(T)
      BY <1>2, <1>11, <3>1
    <3>3. chosen[k + 1] \in Seq(T) /\ Range(chosen[k + 1]) = U(k) \cup Range(seqs[k + 1])
      BY <3>1, <3>2, RangeOfTwo
    <3>4. U(k + 1) = U(k) \cup Range(seqs[k + 1])
      BY <3>1, OneMoreIndex
    <3> QED
      BY <3>3, <3>4 DEF k
  <2> QED
    BY <2>1, <2>2
<1>14. Right = Nat
  <2>1. Right \in SUBSET Nat
    OBVIOUS
  <2> HIDE DEF Right
  <2> QED
    BY <1>12, <1>13, <2>1, NatClosed
<1>15. CASE N = 0
  <2>1. seqs = <<>> /\ \A i : i \notin 1 .. N
    BY <1>15 DEF N
  <2>2. Range(seqs) = {}
    BY <2>1 DEF Range
  <2> QED
    BY <1>1, <1>4, <1>15, <2>1, <2>2 DEF N
<1>16. CASE N # 0
  <2>1. N - 1 \in Nat /\ (N - 1) + 1 = N /\ (N - 1) + 1 <= N
    BY <1>2, <1>16
  <2>2. chosen[(N - 1) + 1] \in Seq(T) /\ Range(chosen[(N - 1) + 1]) = U((N - 1) + 1)
    BY <1>14, <2>1
  <2>3. chosen[N] \in Seq(T) /\ Range(chosen[N]) = U(N)
    <3> HIDE DEF U
    <3> QED
      BY <2>1, <2>2
  <2> QED
    BY <1>1, <1>16, <2>3 DEF N
<1> QED
  BY <1>15, <1>16

-----------------------------------------------------------------------------
(* Exchanges                                                               *)

\* A leave has a whole value.
LEMMA LeaveValueType ==
    ASSUME RequestReady, NEW c \in [Kinds -> Int]
    PROVE  LeaveValue(c) \in Int
<1>1. req.leaveOf \in [Kinds -> Int] /\ IsFiniteSet(Kinds)
  BY TileGameAssumption DEF RequestReady, RequestShape
<1> DEFINE f == [k \in Kinds |-> c[k] * req.leaveOf[k]]
<1>2. \A k \in Kinds : f[k] \in Int
  <2> SUFFICES ASSUME NEW k \in Kinds PROVE c[k] * req.leaveOf[k] \in Int
    OBVIOUS
  <2>1. c[k] \in Int /\ req.leaveOf[k] \in Int
    BY <1>1
  <2> QED
    BY <2>1, ProductTypes
<1> HIDE DEF f
<1>3. SumFunctionOnSet(f, Kinds) \in Int
  BY <1>1, <1>2, SumByChosen
<1> QED
  BY <1>3 DEF LeaveValue, f

\* What is dropped is held.
LEMMA DropsBestIs ==
    ASSUME RequestReady, NEW c \in Tiles, Total(c) > 0
    PROVE  DropsBest(c) \in Kinds /\ c[DropsBest(c)] > 0
<1> DEFINE held == {k \in Kinds : c[k] > 0}
           v == [k \in Kinds |-> LeaveValue(Without(c, k))]
           best == {k \in held : \A j \in held : LeaveValue(Without(c, j)) <= LeaveValue(Without(c, k))}
<1>1. \A k \in Kinds : v[k] \in Int
  <2> SUFFICES ASSUME NEW k \in Kinds PROVE LeaveValue(Without(c, k)) \in Int
    OBVIOUS
  <2>1. Without(c, k) \in [Kinds -> Int]
    BY DEF Without, Tiles
  <2> QED
    BY <2>1, LeaveValueType
<1>2. held # {} /\ IsFiniteSet(held)
  BY NothingCounts, TileGameAssumption, FS_Subset
<1>3. PICK k \in held : \A j \in held : v[j] <= v[k]
  <2>1. \A j \in held : v[j] \in Int
    BY <1>1
  <2> HIDE DEF held, v
  <2> QED
    BY <1>2, <2>1, MostExists
<1>4. k \in best
  BY <1>3
<1>5. SetToSeq(Kinds) \in Seq(Kinds) /\ Range(SetToSeq(Kinds)) = Kinds
  BY TileGameAssumption, SetToSeqShape
<1>6. DropsBest(c) = Filtered(SetToSeq(Kinds), best)[1]
  BY DEF DropsBest
<1>7. best \in SUBSET Kinds
  OBVIOUS
<1> HIDE DEF best
<1>8. Filtered(SetToSeq(Kinds), best) \in Seq(best) /\ Range(Filtered(SetToSeq(Kinds), best)) = Kinds \cap best
  <2> DEFINE all == SetToSeq(Kinds)
  <2>1. all \in Seq(Kinds) /\ Range(all) = Kinds
    BY <1>5
  <2> HIDE DEF all
  <2>2. Filtered(all, best) \in Seq(best) /\ Range(Filtered(all, best)) = Range(all) \cap best
    BY <2>1, FilteredShape
  <2> QED
    BY <2>1, <2>2 DEF all
<1> DEFINE s == Filtered(SetToSeq(Kinds), best)
<1>9. s \in Seq(best) /\ k \in Range(s)
  BY <1>4, <1>7, <1>8
<1> HIDE DEF s
<1>10. s[1] \in best
  BY <1>9 DEF Range
<1>11. DropsBest(c) \in best
  BY <1>6, <1>10 DEF s
<1> QED
  BY <1>11 DEF best

\* Nothing is dropped yet.
DropBase == [rack |-> req.rack, dropped |-> <<>>]
\* One tile more is dropped, the best to be rid of.
DropNext(x) ==
    [rack |-> Without(x.rack, DropsBest(x.rack)), dropped |-> Append(x.dropped, DropsBest(x.rack))]
\* d is the drops one after the other.
DropSteps(d) == d = [n \in Nat |-> IF n = 0 THEN DropBase ELSE DropNext(d[n - 1])]

\* Dropping is that function.
LEMMA DroppingSteps ==
    ASSUME RequestReady
    PROVE  Dropping[0] = DropBase /\ \A n \in Nat : Dropping[n + 1] = DropNext(Dropping[n])
<1> DEFINE chosen == CHOOSE d : DropSteps(d)
           K == {DropsBest(r) : r \in [Kinds -> Int]}
           T == [rack : [Kinds -> Int], dropped : Seq(K)]
           step == [n \in Nat |-> [x \in T |-> DropNext(x)]]
           base == DropBase
<1>1. Dropping = chosen
  BY DEF Dropping, DropSteps, DropBase, DropNext
<1>2. ASSUME NEW x \in T PROVE DropNext(x) \in T
  <2>1. x.rack \in [Kinds -> Int] /\ x.dropped \in Seq(K)
    OBVIOUS
  <2>2. DropsBest(x.rack) \in K
    BY <2>1
  <2> HIDE DEF K
  <2>3. Append(x.dropped, DropsBest(x.rack)) \in Seq(K)
    BY <2>1, <2>2
  <2>4. Without(x.rack, DropsBest(x.rack)) \in [Kinds -> Int]
    <3> DEFINE k == DropsBest(x.rack)
               c == x.rack
    <3>1. c \in [Kinds -> Int]
      BY <2>1
    <3> HIDE DEF k, c
    <3>2. [c EXCEPT ![k] = c[k] - 1] \in [Kinds -> Int]
      <4>1. CASE k \in Kinds
        BY <3>1, <4>1
      <4>2. CASE k \notin Kinds
        BY <3>1, <4>2
      <4> QED
        BY <4>1, <4>2
    <3> QED
      BY <3>2 DEF Without, k, c
  <2> QED
    BY <2>3, <2>4 DEF DropNext
<1>3. base \in T
  <2>1. req.rack \in [Kinds -> Int]
    BY RequestParts DEF Tiles
  <2> HIDE DEF K
  <2>2. <<>> \in Seq(K)
    OBVIOUS
  <2> QED
    BY <2>1, <2>2 DEF DropBase
<1> HIDE DEF T, K
<1>4. \A n \in Nat : \A x \in T : step[n][x] = DropNext(x) /\ step[n][x] \in T
  BY <1>2
<1> HIDE DEF step, base
<1>5. PICK f : StepwiseForever(f, T, base, step)
  BY <1>3, <1>4, NatRecursion
<1>6. f \in [Nat -> T] /\ f[0] = base
  BY <1>5 DEF StepwiseForever
<1>7. \A n \in Nat : n # 0 => f[n] = step[n][f[n - 1]]
  BY <1>5 DEF StepwiseForever
<1>8. \A n \in Nat : n # 0 => f[n - 1] \in T
  BY <1>6
<1>9. \A n \in Nat : f[n] = IF n = 0 THEN DropBase ELSE DropNext(f[n - 1])
  BY <1>4, <1>6, <1>7, <1>8, Zenon DEF base
<1>10. f = [n \in Nat |-> f[n]]
  BY <1>6
<1>11. DropSteps(f)
  BY <1>9, <1>10, Zenon DEF DropSteps
<1>12. DropSteps(chosen)
  BY <1>11, Zenon
<1> HIDE DEF chosen
<1>13. \A n \in Nat : chosen[n] = IF n = 0 THEN DropBase ELSE DropNext(chosen[n - 1])
  BY <1>12 DEF DropSteps
<1>14. \A n \in Nat : n + 1 \in Nat /\ n + 1 # 0 /\ (n + 1) - 1 = n
  OBVIOUS
<1>15. chosen[0] = DropBase
  BY <1>13
<1>16. \A n \in Nat : chosen[n + 1] = DropNext(chosen[n])
  <2> SUFFICES ASSUME NEW n \in Nat PROVE chosen[n + 1] = DropNext(chosen[n])
    OBVIOUS
  <2>1. chosen[n + 1] = IF n + 1 = 0 THEN DropBase ELSE DropNext(chosen[(n + 1) - 1])
    BY <1>13, <1>14
  <2> QED
    BY <1>14, <2>1
<1> QED
  BY <1>1, <1>15, <1>16

\* How many of each kind a sequence of drops holds.
LEMMA DropsCountIs ==
    /\ \A k \in Kinds : DropsCount(<<>>)[k] = 0
    /\ \A d \in Seq(Kinds), k \in Kinds :
         /\ DropsCount(d) \in Tiles
         /\ DropsCount(Append(d, k))[k] = DropsCount(d)[k] + 1
         /\ \A j \in Kinds : j # k => DropsCount(Append(d, k))[j] = DropsCount(d)[j]
<1>1. ASSUME NEW k \in Kinds PROVE DropsCount(<<>>)[k] = 0
  <2>1. {i \in DOMAIN <<>> : <<>>[i] = k} = {}
    OBVIOUS
  <2> QED
    BY <2>1, FS_EmptySet DEF DropsCount
<1>2. ASSUME NEW d \in Seq(Kinds), NEW j \in Kinds
      PROVE  IsFiniteSet({i \in DOMAIN d : d[i] = j}) /\ DropsCount(d)[j] = Cardinality({i \in DOMAIN d : d[i] = j})
             /\ DropsCount(d)[j] \in Nat
  <2>1. DOMAIN d = 1 .. Len(d) /\ Len(d) \in Nat /\ 1 \in Int
    OBVIOUS
  <2>2. IsFiniteSet(1 .. Len(d))
    BY <2>1, FS_Interval
  <2> DEFINE S == {i \in DOMAIN d : d[i] = j}
  <2>3. IsFiniteSet(S)
    BY <2>1, <2>2, FS_Subset
  <2>4. Cardinality(S) \in Nat
    BY <2>3, FS_CardinalityType
  <2>5. DropsCount(d)[j] = Cardinality(S)
    BY DEF DropsCount
  <2> QED
    BY <2>3, <2>4, <2>5
<1>3. ASSUME NEW d \in Seq(Kinds) PROVE DropsCount(d) \in Tiles
  <2>1. DropsCount(d) = [k \in Kinds |-> DropsCount(d)[k]]
    BY DEF DropsCount
  <2> QED
    BY <1>2, <2>1 DEF Tiles
<1>4. ASSUME NEW d \in Seq(Kinds), NEW k \in Kinds, NEW j \in Kinds
      PROVE  /\ j = k => DropsCount(Append(d, k))[j] = DropsCount(d)[j] + 1
             /\ j # k => DropsCount(Append(d, k))[j] = DropsCount(d)[j]
  <2> DEFINE e == Append(d, k)
             S == {i \in DOMAIN d : d[i] = j}
             R == {i \in DOMAIN e : e[i] = j}
             n == Len(d) + 1
  <2>1. /\ e \in Seq(Kinds) /\ DOMAIN e = 1 .. n /\ DOMAIN d = 1 .. Len(d) /\ Len(d) \in Nat
        /\ e[n] = k /\ \A i \in 1 .. Len(d) : e[i] = d[i]
    OBVIOUS
  <2> HIDE DEF e
  <2>2. R = IF j = k THEN S \cup {n} ELSE S
    BY <2>1
  <2>3. n \notin S
    BY <2>1
  <2>4. IsFiniteSet(S) /\ DropsCount(d)[j] = Cardinality(S) /\ DropsCount(e)[j] = Cardinality(R) /\ Cardinality(S) \in Nat
    BY <1>2, <2>1
  <2> HIDE DEF S, R, n
  <2>5. Cardinality(S \cup {n}) = Cardinality(S) + 1
    BY <2>3, <2>4, FS_AddElement
  <2> QED
    BY <2>2, <2>4, <2>5 DEF e
<1> QED
  BY <1>1, <1>3, <1>4

\* Tiles are dropped one after the other, out of the rack.
LEMMA DroppingIs ==
    ASSUME RequestReady
    PROVE  \A n \in Nat : n <= Total(req.rack) =>
             /\ Dropping[n].dropped \in Seq(Kinds) /\ Len(Dropping[n].dropped) = n
             /\ Within(DropsCount(Dropping[n].dropped), req.rack)
<1> DEFINE d(n) == Dropping[n].dropped
           r(n) == Dropping[n].rack
           Holds(n) ==
             /\ d(n) \in Seq(Kinds) /\ Len(d(n)) = n
             /\ r(n) \in Tiles /\ Total(r(n)) = Total(req.rack) - n
             /\ \A k \in Kinds : DropsCount(d(n))[k] + r(n)[k] = req.rack[k]
           Right == {n \in Nat : n <= Total(req.rack) => Holds(n)}
<1>1. req.rack \in Tiles /\ Total(req.rack) \in Nat
  BY RequestParts, TileCounts
<1>2. 0 \in Right
  <2>1. d(0) = <<>> /\ r(0) = req.rack
    BY DroppingSteps DEF DropBase
  <2>2. \A k \in Kinds : DropsCount(d(0))[k] = 0 /\ req.rack[k] \in Nat
    BY <1>1, <2>1, DropsCountIs DEF Tiles
  <2>3. d(0) \in Seq(Kinds) /\ Len(d(0)) = 0
    BY <2>1
  <2> HIDE DEF d, r
  <2>4. Holds(0)
    BY <1>1, <2>1, <2>2, <2>3
  <2> QED
    BY <2>4
<1>3. ASSUME NEW n \in Right PROVE n + 1 \in Right
  <2>1. n \in Nat
    OBVIOUS
  <2>2. ASSUME n + 1 <= Total(req.rack) PROVE Holds(n + 1)
    <3> DEFINE k == DropsBest(r(n))
    <3>1. Holds(n) /\ Total(r(n)) > 0
      <4>1. n <= Total(req.rack)
        BY <1>1, <2>1, <2>2
      <4>2. Holds(n)
        BY <4>1
      <4> HIDE DEF r, d
      <4> QED
        BY <1>1, <2>1, <2>2, <4>2
    <3>2. k \in Kinds /\ r(n)[k] > 0
      BY <3>1, DropsBestIs
    <3>3. d(n + 1) = Append(d(n), k) /\ r(n + 1) = Without(r(n), k)
      <4>1. Dropping[n + 1] = DropNext(Dropping[n])
        BY <2>1, DroppingSteps
      <4> QED
        BY <4>1 DEF DropNext
    <3> HIDE DEF k, r, d
    <3>4. d(n + 1) \in Seq(Kinds) /\ Len(d(n + 1)) = n + 1
      BY <2>1, <3>1, <3>2, <3>3
    <3>5. r(n + 1) \in Tiles /\ Total(r(n + 1)) = Total(r(n)) - 1
      BY <3>1, <3>2, <3>3, DrawOneMore, 0 \in Nat
    <3>6. \A j \in Kinds : DropsCount(d(n + 1))[j] + r(n + 1)[j] = req.rack[j]
      <4> SUFFICES ASSUME NEW j \in Kinds PROVE DropsCount(d(n + 1))[j] + r(n + 1)[j] = req.rack[j]
        OBVIOUS
      <4>0. d(n) \in Seq(Kinds) /\ r(n) \in [Kinds -> Nat] /\ r(n + 1) = [r(n) EXCEPT ![k] = @ - 1]
        BY <3>1, <3>3 DEF Without, Tiles
      <4>1. /\ j = k => DropsCount(d(n + 1))[j] = DropsCount(d(n))[j] + 1
            /\ j # k => DropsCount(d(n + 1))[j] = DropsCount(d(n))[j]
        <5> DEFINE e == d(n)
        <5>1. e \in Seq(Kinds)
          BY <4>0
        <5> HIDE DEF e
        <5>2. /\ DropsCount(Append(e, k))[k] = DropsCount(e)[k] + 1
              /\ j # k => DropsCount(Append(e, k))[j] = DropsCount(e)[j]
          BY <3>2, <5>1, DropsCountIs
        <5>3. d(n + 1) = Append(e, k)
          BY <3>3 DEF e
        <5> QED
          BY <5>2, <5>3 DEF e
      <4>2. /\ j = k => r(n + 1)[j] = r(n)[j] - 1
            /\ j # k => r(n + 1)[j] = r(n)[j]
        BY <3>2, <4>0
      <4>3. DropsCount(d(n))[j] + r(n)[j] = req.rack[j]
        BY <3>1
      <4>4. DropsCount(d(n))[j] \in Nat /\ r(n)[j] \in Nat
        BY <3>1, <3>2, DropsCountIs DEF Tiles
      <4> QED
        BY <4>1, <4>2, <4>3, <4>4
    <3> QED
      BY <1>1, <2>1, <3>1, <3>4, <3>5, <3>6
  <2> QED
    BY <2>1, <2>2
<1>4. Right = Nat
  <2>1. Right \in SUBSET Nat
    OBVIOUS
  <2> HIDE DEF Right
  <2> QED
    BY <1>2, <1>3, <2>1, NatClosed
<1>5. ASSUME NEW n \in Nat, Holds(n) PROVE Within(DropsCount(d(n)), req.rack)
  <2> SUFFICES ASSUME NEW k \in Kinds PROVE DropsCount(d(n))[k] <= req.rack[k]
    BY DEF Within
  <2>1. DropsCount(d(n))[k] + r(n)[k] = req.rack[k] /\ r(n) \in Tiles /\ d(n) \in Seq(Kinds)
    BY <1>5
  <2> HIDE DEF d, r
  <2>2. DropsCount(d(n))[k] \in Nat /\ r(n)[k] \in Nat
    BY <2>1, DropsCountIs DEF Tiles
  <2> QED
    BY <2>1, <2>2
<1>6. ASSUME NEW n \in Nat, n <= Total(req.rack)
      PROVE  /\ d(n) \in Seq(Kinds) /\ Len(d(n)) = n /\ Within(DropsCount(d(n)), req.rack)
  <2>1. Holds(n)
    BY <1>4, <1>6
  <2> QED
    BY <1>5, <2>1
<1> QED
  BY <1>6

\* The exchanges of the best to be rid of, by their number.
DroppedMoves == {ExchangeMove(Dropping[n].dropped) : n \in 1 .. Drawable}

\* As many as the rack and the bag allow.
LEMMA DrawableIs ==
    ASSUME RequestReady
    PROVE  /\ Drawable \in Nat /\ Drawable <= Total(req.rack) /\ Drawable <= req.bagCount
           /\ Total(req.rack) \in Nat /\ req.bagCount \in Nat
<1> DEFINE t == Total(req.rack)
           b == req.bagCount
           S == {t, b, ExchangeMost}
<1>1. t \in Nat /\ b \in Nat /\ ExchangeMost \in Nat
  BY RequestParts, TileCounts, RequestAssumption
<1> HIDE DEF t, b
<1>2. Min(S) \in S /\ \A x \in S : Min(S) <= x
  <2>1. 0 \in Int /\ t + b + ExchangeMost \in Int /\ S # {}
        /\ \A x \in S : x \in Int /\ 0 <= x /\ x <= t + b + ExchangeMost
    BY <1>1
  <2> HIDE DEF S
  <2> QED
    BY <2>1, MinMaxBetween
<1>3. Drawable = Min(S)
  BY DEF Drawable, t, b
<1> QED
  BY <1>1, <1>2, <1>3 DEF t, b

\* What is listed as an exchange is one of them, and one the rules allow.
LEMMA ExchangesAre ==
    ASSUME RequestReady
    PROVE  /\ EnumerateExchanges \in Seq(DroppedMoves)
           /\ Range(EnumerateExchanges) # {} => req.exchangeAllowed
           /\ \A c \in DroppedMoves :
                /\ c.type = "exchange" /\ c.drops \in Seq(Kinds) /\ Len(c.drops) \in Nat
                /\ c.drops # <<>> /\ Len(c.drops) <= req.bagCount
                /\ Within(DropsCount(c.drops), req.rack)
<1>1. Drawable \in Nat /\ Drawable <= Total(req.rack) /\ Drawable <= req.bagCount /\ Total(req.rack) \in Nat
      /\ req.bagCount \in Nat
  BY DrawableIs
<1>2. EnumerateExchanges \in Seq(DroppedMoves)
  <2> DEFINE s == [n \in 1 .. Drawable |-> ExchangeMove(Dropping[n].dropped)]
  <2>1. s \in [1 .. Drawable -> DroppedMoves]
    BY DEF DroppedMoves
  <2>2. s \in Seq(DroppedMoves) /\ <<>> \in Seq(DroppedMoves)
    BY <1>1, <2>1
  <2> QED
    BY <2>2 DEF EnumerateExchanges
<1>3. Range(EnumerateExchanges) # {} => req.exchangeAllowed
  <2> SUFFICES ASSUME ~ req.exchangeAllowed PROVE Range(EnumerateExchanges) = {}
    OBVIOUS
  <2>1. EnumerateExchanges = <<>>
    BY DEF EnumerateExchanges
  <2> QED
    BY <2>1 DEF Range
<1>4. ASSUME NEW c \in DroppedMoves
      PROVE  /\ c.type = "exchange" /\ c.drops \in Seq(Kinds) /\ Len(c.drops) \in Nat
             /\ c.drops # <<>> /\ Len(c.drops) <= req.bagCount
             /\ Within(DropsCount(c.drops), req.rack)
  <2>1. PICK n \in 1 .. Drawable : c = ExchangeMove(Dropping[n].dropped)
    BY DEF DroppedMoves
  <2>2. c.type = "exchange" /\ c.drops = Dropping[n].dropped
    BY <2>1 DEF ExchangeMove
  <2>3. n \in Nat /\ n >= 1 /\ n <= Total(req.rack) /\ n <= req.bagCount
    BY <1>1
  <2>4. c.drops \in Seq(Kinds) /\ Len(c.drops) = n /\ Within(DropsCount(c.drops), req.rack)
    BY <2>2, <2>3, DroppingIs
  <2>5. c.drops # <<>>
    BY <2>3, <2>4
  <2> QED
    BY <2>2, <2>3, <2>4, <2>5
<1> QED
  BY <1>2, <1>3, <1>4

-----------------------------------------------------------------------------
(* Legal moves                                                             *)

\* What the request may answer.
LegalMoves ==
    {PlaceMove(m) : m \in Playable(Root(NoTiles))} \cup Range(EnumerateExchanges) \cup {PassMove}

\* What is legal, validation accepts.
LEMMA LegalValid ==
    ASSUME RequestReady, NEW c \in LegalMoves
    PROVE  RunValidation(c)
<1>1. CASE c = PassMove
  BY <1>1 DEF RunValidation, PassMove
<1>2. CASE c \in Range(EnumerateExchanges)
  <2>1. c \in DroppedMoves /\ req.exchangeAllowed
    BY <1>2, ExchangesAre, RangeOfSeqIs
  <2>2. /\ c.type = "exchange" /\ c.drops # <<>> /\ Len(c.drops) <= req.bagCount
        /\ Within(DropsCount(c.drops), req.rack)
    BY <2>1, ExchangesAre
  <2> QED
    BY <2>1, <2>2 DEF RunValidation
<1>3. CASE c \in {PlaceMove(m) : m \in Playable(Root(NoTiles))}
  <2>1. c.type = "place" /\ c.play \in Playable(Root(NoTiles))
    BY <1>3 DEF PlaceMove
  <2> QED
    BY <2>1 DEF RunValidation
<1> QED
  BY <1>1, <1>2, <1>3 DEF LegalMoves

\* A sample prices a move with a whole number.
LEMMA PriceType ==
    ASSUME RequestReady, NEW c \in LegalMoves, NEW s \in 1 .. SimSamples
    PROVE  Price(c, s) \in Int
<1>1. req.priceOf \in [1 .. SimSamples -> [Plays \cup {"exchange", "pass"} -> Int]]
  BY DEF RequestReady, RequestShape
<1>2. req.priceOf[s] \in [Plays \cup {"exchange", "pass"} -> Int]
  BY <1>1
<1>3. /\ (IF c.type = "place" THEN c.play ELSE c.type) \in Plays \cup {"exchange", "pass"}
      /\ Len(c.drops) \in Nat
  <2>1. CASE c = PassMove
    BY <2>1 DEF PassMove
  <2>2. CASE c \in Range(EnumerateExchanges)
    <3>1. c \in DroppedMoves
      BY <2>2, ExchangesAre, RangeOfSeqIs
    <3>2. c.type = "exchange" /\ Len(c.drops) \in Nat
      BY <3>1, ExchangesAre
    <3> QED
      BY <3>2
  <2>3. CASE c \in {PlaceMove(m) : m \in Playable(Root(NoTiles))}
    <3>1. c.type = "place" /\ c.play \in Playable(Root(NoTiles)) /\ c.drops = <<>>
      BY <2>3 DEF PlaceMove
    <3> QED
      BY <3>1, RootPlayable
  <2> QED
    BY <2>1, <2>2, <2>3 DEF LegalMoves
<1> DEFINE x == IF c.type = "place" THEN c.play ELSE c.type
<1>4. x \in Plays \cup {"exchange", "pass"}
  BY <1>3
<1> HIDE DEF x
<1>5. req.priceOf[s][x] \in Int
  BY <1>2, <1>4
<1>6. Price(c, s) = req.priceOf[s][x] + Len(c.drops)
  BY DEF Price, x
<1> QED
  BY <1>3, <1>5, <1>6

-----------------------------------------------------------------------------
(* The moves of the root                                                   *)

\* A generation lists playable placements, all of them when it is complete.
LEMMA GeneratedAre ==
    ASSUME RequestReady, NEW list \in Generated
    PROVE  /\ list \in Seq(Plays) /\ Distinct(list) /\ Range(list) \subseteq Playable(Root(NoTiles))
           /\ req.solver = "sim" /\ req.unlimited => Range(list) = Playable(Root(NoTiles))
<1>1. PICK part : /\ list = Filtered(RootPlays, part)
                  /\ req.solver = "sim" /\ req.unlimited => part = Plays
  <2>1. \E part : list = Filtered(RootPlays, part)
    BY DEF Generated
  <2>2. CASE req.solver = "sim" /\ req.unlimited
    BY <2>2 DEF Generated
  <2> QED
    BY <2>1, <2>2
<1>2. RootPlays \in Seq(Plays) /\ Range(RootPlays) = Playable(Root(NoTiles)) /\ Distinct(RootPlays)
  BY OptionsAre
<1>3. /\ list \in Seq(Plays) /\ Distinct(list) /\ Range(list) = Playable(Root(NoTiles)) \cap part
  <2>1. /\ Filtered(RootPlays, part) \in Seq(Plays)
        /\ Range(Filtered(RootPlays, part)) = Range(RootPlays) \cap part
        /\ Distinct(RootPlays) => Distinct(Filtered(RootPlays, part))
    BY <1>2, FilteredShape
  <2> QED
    BY <1>1, <1>2, <2>1
<1>4. Playable(Root(NoTiles)) \subseteq Plays
  BY RootPlayable
<1> QED
  BY <1>1, <1>3, <1>4

\* The twins of a placement are those of its footprint.
LEMMA TwinsAre ==
    ASSUME NEW list \in Seq(Plays), NEW m \in Range(list)
    PROVE  LET t == Twins(m, list) IN
           /\ t \in Seq(Plays) /\ Len(t) \in Nat /\ Len(t) >= 1 /\ DOMAIN t = 1 .. Len(t)
           /\ Range(t) = {v \in Range(list) : Footprint(v) = Footprint(m)}
           /\ \A i \in 1 .. Len(t) : t[i] \in Range(t)
<1> DEFINE t == Twins(m, list)
           S == {v \in Range(list) : Footprint(v) = Footprint(m)}
<1>1. t = Filtered(list, S)
  BY DEF Twins
<1>2. m \in S /\ S \subseteq Range(list)
  OBVIOUS
<1> HIDE DEF S, t
<1>3. t \in Seq(Plays) /\ Range(t) = S
  <2>1. Filtered(list, S) \in Seq(Plays) /\ Range(Filtered(list, S)) = Range(list) \cap S
    BY FilteredShape
  <2> QED
    BY <1>1, <1>2, <2>1
<1>4. m \in Range(t)
  BY <1>2, <1>3
<1>5. Len(t) \in Nat /\ DOMAIN t = 1 .. Len(t) /\ (\A i \in 1 .. Len(t) : t[i] \in Range(t)) /\ Len(t) >= 1
  BY <1>3, <1>4 DEF Range
<1> QED
  BY <1>3, <1>5 DEF S, t

\* The face that stands for a footprint scores most.
LEMMA BestFaceIs ==
    ASSUME RequestReady, NEW list \in Seq(Plays), NEW m \in Range(list)
    PROVE  LET b == BestFace(Twins(m, list)) IN
           /\ b \in Range(list) /\ Footprint(b) = Footprint(m)
           /\ \A v \in Range(list) : Footprint(v) = Footprint(m) => req.scoreOf[v] <= req.scoreOf[b]
<1> DEFINE t == Twins(m, list)
           f == [i \in 1 .. Len(t) |-> req.scoreOf[t[i]]]
           top == {i \in DOMAIN t : \A j \in DOMAIN t : req.scoreOf[t[j]] <= req.scoreOf[t[i]]}
           b == BestFace(t)
<1>1. /\ t \in Seq(Plays) /\ Len(t) \in Nat /\ Len(t) >= 1 /\ DOMAIN t = 1 .. Len(t)
      /\ Range(t) = {v \in Range(list) : Footprint(v) = Footprint(m)}
      /\ \A i \in 1 .. Len(t) : t[i] \in Range(t)
  BY TwinsAre
<1> HIDE DEF t
<1>2. req.scoreOf \in [Plays -> -MostScore .. MostScore]
  BY RequestParts
<1>3. \A i \in 1 .. Len(t) : f[i] \in Int
  BY <1>1, <1>2
<1>4. PICK i \in 1 .. Len(t) : \A j \in 1 .. Len(t) : f[j] <= f[i]
  <2>1. IsFiniteSet(1 .. Len(t)) /\ 1 .. Len(t) # {}
    <3>1. 1 \in Int /\ Len(t) \in Int /\ 1 \in 1 .. Len(t)
      BY <1>1
    <3> QED
      BY <3>1, FS_Interval
  <2> HIDE DEF f
  <2> QED
    BY <1>3, <2>1, MostExists
<1>5. i \in top
  BY <1>1, <1>4
<1>6. \A x \in top : x \in Int /\ 1 <= x /\ x <= Len(t)
  BY <1>1
<1>7. b = t[Min(top)]
  BY DEF BestFace
<1> HIDE DEF top
<1>8. Min(top) \in top
  <2>1. 1 \in Int /\ Len(t) \in Int
    BY <1>1
  <2> QED
    BY <1>5, <1>6, <2>1, MinMaxBetween
<1> DEFINE k == Min(top)
<1>9. k \in 1 .. Len(t) /\ b = t[k] /\ \A j \in 1 .. Len(t) : req.scoreOf[t[j]] <= req.scoreOf[t[k]]
  BY <1>1, <1>7, <1>8 DEF top
<1> HIDE DEF k, b
<1>10. b \in Range(list) /\ Footprint(b) = Footprint(m)
  BY <1>1, <1>9
<1>11. ASSUME NEW v \in Range(list), Footprint(v) = Footprint(m) PROVE req.scoreOf[v] <= req.scoreOf[b]
  <2>1. v \in Range(t)
    BY <1>1, <1>11
  <2>2. PICK j \in 1 .. Len(t) : v = t[j]
    BY <1>1, <2>1 DEF Range
  <2> QED
    BY <1>9, <2>2
<1> QED
  BY <1>10, <1>11 DEF b, t

\* One move for each footprint, the one that scores most.
LEMMA DedupedIs ==
    ASSUME RequestReady, NEW list \in Seq(Plays), Distinct(list)
    PROVE  LET d == Deduped(list) IN
           /\ d \in Seq(Range(list)) /\ Len(d) \in Nat /\ DOMAIN d = 1 .. Len(d)
           /\ \A i \in 1 .. Len(d) : \A v \in Range(list) :
                Footprint(v) = Footprint(d[i]) => req.scoreOf[v] <= req.scoreOf[d[i]]
           /\ \A v \in Range(list) : \E i \in 1 .. Len(d) : Footprint(d[i]) = Footprint(v)
           /\ \A i, j \in 1 .. Len(d) : Footprint(d[i]) = Footprint(d[j]) => i = j
<1> DEFINE S == {m \in Range(list) : Twins(m, list)[1] = m}
           firsts == Filtered(list, S)
           n == Len(firsts)
           d == Deduped(list)
<1>1. d = [i \in DOMAIN firsts |-> BestFace(Twins(firsts[i], list))]
  BY DEF Deduped
<1>2. /\ firsts \in Seq(Plays) /\ Range(firsts) = S /\ Distinct(firsts)
  <2>1. S \subseteq Range(list)
    OBVIOUS
  <2> HIDE DEF S
  <2>2. /\ firsts \in Seq(Plays) /\ Range(firsts) = Range(list) \cap S
        /\ Distinct(list) => Distinct(firsts)
    BY FilteredShape
  <2> HIDE DEF firsts
  <2> QED
    BY <2>1, <2>2
<1>3. n \in Nat /\ DOMAIN firsts = 1 .. n /\ \A i \in 1 .. n : firsts[i] \in S
  <2> HIDE DEF firsts, S
  <2> QED
    BY <1>2 DEF Range
<1> HIDE DEF firsts, n, d
<1>4. \A i \in 1 .. n : firsts[i] \in Range(list) /\ Twins(firsts[i], list)[1] = firsts[i]
  BY <1>3
<1>5. DOMAIN d = 1 .. n /\ \A i \in 1 .. n : d[i] = BestFace(Twins(firsts[i], list))
  BY <1>1, <1>3
<1>6. \A i \in 1 .. n :
        /\ d[i] \in Range(list) /\ Footprint(d[i]) = Footprint(firsts[i])
        /\ \A v \in Range(list) : Footprint(v) = Footprint(firsts[i]) => req.scoreOf[v] <= req.scoreOf[d[i]]
  BY <1>4, <1>5, BestFaceIs
<1>7. d \in Seq(Range(list)) /\ Len(d) = n
  <2>1. d = [i \in 1 .. n |-> BestFace(Twins(firsts[i], list))]
    BY <1>1, <1>3
  <2>2. d \in [1 .. n -> Range(list)]
    BY <1>5, <1>6, <2>1
  <2>3. d \in Seq(Range(list))
    BY <1>3, <2>2
  <2> QED
    BY <1>3, <1>5, <2>3
<1>8. ASSUME NEW v \in Range(list) PROVE \E i \in 1 .. n : Footprint(d[i]) = Footprint(v)
  <2> DEFINE t == Twins(v, list)
             w == t[1]
  <2>1. /\ w \in Range(list) /\ Footprint(w) = Footprint(v)
    <3>1. Len(t) \in Nat /\ Len(t) >= 1 /\ \A i \in 1 .. Len(t) : t[i] \in Range(t)
      BY TwinsAre
    <3>2. t[1] \in Range(t)
      BY <3>1
    <3>3. Range(t) = {x \in Range(list) : Footprint(x) = Footprint(v)}
      BY TwinsAre
    <3> HIDE DEF t
    <3> QED
      BY <3>2, <3>3
  <2>2. Twins(w, list) = t
    <3> HIDE DEF w
    <3> QED
      BY <2>1 DEF Twins
  <2>3. w \in S
    BY <2>1, <2>2
  <2> HIDE DEF w, S
  <2>4. PICK i \in 1 .. n : w = firsts[i]
    BY <1>2, <1>3, <2>3 DEF Range
  <2> QED
    BY <1>6, <2>1, <2>4
<1>9. ASSUME NEW i \in 1 .. n, NEW j \in 1 .. n, Footprint(d[i]) = Footprint(d[j]) PROVE i = j
  <2>1. Footprint(firsts[i]) = Footprint(firsts[j])
    BY <1>6, <1>9
  <2>2. Twins(firsts[i], list) = Twins(firsts[j], list)
    BY <2>1 DEF Twins
  <2>3. firsts[i] = firsts[j]
    BY <1>4, <2>2
  <2> QED
    BY <1>2, <1>3, <2>3 DEF Distinct
<1> QED
  BY <1>3, <1>5, <1>6, <1>7, <1>8, <1>9 DEF d

\* One placement of each footprint is left, with the most points of the generation.
LEMMA MovesAre ==
    ASSUME RequestReady, MovesKnown
    PROVE  LET P == Playable(Root(NoTiles)) IN
           /\ moves \in Seq(P) /\ Len(moves) \in Nat /\ DOMAIN moves = 1 .. Len(moves)
           /\ \A i \in 1 .. Len(moves) : moves[i] \in P /\ moves[i] \in Plays
           /\ \A i, j \in 1 .. Len(moves) : Footprint(moves[i]) = Footprint(moves[j]) => i = j
           /\ req.solver = "sim" /\ req.unlimited =>
                \A v \in P : \E i \in 1 .. Len(moves) :
                  Footprint(moves[i]) = Footprint(v) /\ req.scoreOf[v] <= req.scoreOf[moves[i]]
<1> DEFINE P == Playable(Root(NoTiles))
<1>1. PICK list \in Generated : moves = Deduped(list)
  BY DEF MovesKnown
<1>2. /\ list \in Seq(Plays) /\ Distinct(list) /\ Range(list) \subseteq P /\ P \subseteq Plays
      /\ req.solver = "sim" /\ req.unlimited => Range(list) = P
  BY GeneratedAre, RootPlayable
<1> HIDE DEF P
<1>3. /\ moves \in Seq(Range(list)) /\ Len(moves) \in Nat /\ DOMAIN moves = 1 .. Len(moves)
      /\ \A i \in 1 .. Len(moves) : \A v \in Range(list) :
           Footprint(v) = Footprint(moves[i]) => req.scoreOf[v] <= req.scoreOf[moves[i]]
      /\ \A v \in Range(list) : \E i \in 1 .. Len(moves) : Footprint(moves[i]) = Footprint(v)
      /\ \A i, j \in 1 .. Len(moves) : Footprint(moves[i]) = Footprint(moves[j]) => i = j
  BY <1>1, <1>2, DedupedIs
<1>4. \A i \in 1 .. Len(moves) : moves[i] \in Range(list)
  BY <1>3
<1>5. moves \in Seq(P)
  BY <1>2, <1>3, <1>4, SeqDef
<1>6. \A i \in 1 .. Len(moves) : moves[i] \in P /\ moves[i] \in Plays
  BY <1>2, <1>4
<1>7. ASSUME req.solver = "sim", req.unlimited, NEW v \in P
      PROVE  \E i \in 1 .. Len(moves) :
               Footprint(moves[i]) = Footprint(v) /\ req.scoreOf[v] <= req.scoreOf[moves[i]]
  <2>1. v \in Range(list)
    BY <1>2, <1>7
  <2>2. PICK i \in 1 .. Len(moves) : Footprint(moves[i]) = Footprint(v)
    BY <1>3, <2>1
  <2> QED
    BY <1>3, <2>1, <2>2
<1> QED
  BY <1>3, <1>5, <1>6, <1>7 DEF P

\* What a placement is worth apart from its score, the footprint says.
LEMMA EquityIs ==
    ASSUME RequestReady
    PROVE  /\ \A m \in Playable(Root(NoTiles)) : StaticEquity(m) \in Int /\ req.scoreOf[m] \in Int
           /\ \A m, v \in Playable(Root(NoTiles)) :
                Footprint(m) = Footprint(v) /\ req.scoreOf[m] <= req.scoreOf[v] => StaticEquity(m) <= StaticEquity(v)
<1> DEFINE rest(m) == LeaveValue(Minus(req.rack, Uses[m]))
           P == Playable(Root(NoTiles))
<1>1. ASSUME NEW m \in P
      PROVE  rest(m) \in Int /\ req.scoreOf[m] \in Int /\ req.dangerOf[Covers[m]] \in Int
  <2>1. m \in Plays /\ Within(Uses[m], req.rack)
    BY RootPlayable
  <2>2. Minus(req.rack, Uses[m]) \in [Kinds -> Int]
    BY <2>1, RequestParts, UsesCount DEF Minus, Tiles
  <2>3. rest(m) \in Int
    BY <2>2, LeaveValueType
  <2>4. req.scoreOf[m] \in -MostScore .. MostScore /\ MostScore \in Nat
    BY <2>1, RequestParts, RequestAssumption
  <2>5. req.dangerOf \in [{Covers[x] : x \in Plays} -> Int]
    BY DEF RequestReady, RequestShape
  <2>6. req.dangerOf[Covers[m]] \in Int
    BY <2>1, <2>5
  <2> HIDE DEF rest
  <2> QED
    BY <2>3, <2>4, <2>6
<1>2. \A m : StaticEquity(m) = req.scoreOf[m] + rest(m) - req.dangerOf[Covers[m]]
  BY DEF StaticEquity
<1>3. \A m, v : Footprint(m) = Footprint(v) => rest(m) = rest(v) /\ Covers[m] = Covers[v]
  BY DEF Footprint
<1> HIDE DEF rest, P
<1>4. \A m \in P : StaticEquity(m) \in Int
  BY <1>1, <1>2
<1>5. \A m, v \in P :
        Footprint(m) = Footprint(v) /\ req.scoreOf[m] <= req.scoreOf[v] => StaticEquity(m) <= StaticEquity(v)
  BY <1>1, <1>2, <1>3
<1> QED
  BY <1>1, <1>4, <1>5 DEF P

\* What empties the rack ends the game, when the opponent holds something.
LEMMA EndsAlike ==
    ASSUME RequestReady
    PROVE  /\ \A m \in Playable(Root(NoTiles)) :
                /\ EndsTheGame(m) => EndsAtOnce(m)
                /\ EndsAtOnce(m) /\ req.oppRackCount > 0 => EndsTheGame(m)
                /\ EndsAtOnce(m) => Uses[m] = req.rack
           /\ \A m, v : Footprint(m) = Footprint(v) =>
                (EndsTheGame(m) <=> EndsTheGame(v)) /\ (EndsAtOnce(m) <=> EndsAtOnce(v))
<1>1. ASSUME NEW m \in Playable(Root(NoTiles))
      PROVE  Total(Uses[m]) = Total(req.rack) <=> Uses[m] = req.rack
  <2>1. m \in Plays /\ Within(Uses[m], req.rack) /\ req.rack \in Tiles /\ Uses[m] \in Tiles
    BY RootPlayable, RequestParts, UsesCount
  <2>2. \A k \in Kinds : Uses[m][k] \in Int /\ req.rack[k] \in Int /\ Uses[m][k] <= req.rack[k]
    BY <2>1 DEF Tiles, Within
  <2>3. SumFunctionOnSet(Uses[m], Kinds) = SumFunctionOnSet(req.rack, Kinds) =>
          \A k \in Kinds : Uses[m][k] = req.rack[k]
    BY <2>2, TileGameAssumption, SumGrows
  <2>4. (\A k \in Kinds : Uses[m][k] = req.rack[k]) => Uses[m] = req.rack
    BY <2>1 DEF Tiles
  <2> QED
    BY <2>3, <2>4 DEF Total
<1>2. ASSUME NEW m \in Playable(Root(NoTiles))
      PROVE  /\ EndsTheGame(m) => EndsAtOnce(m)
             /\ EndsAtOnce(m) /\ req.oppRackCount > 0 => EndsTheGame(m)
             /\ EndsAtOnce(m) => Uses[m] = req.rack
  BY <1>1 DEF EndsTheGame, EndsAtOnce, AccountedFor
<1>3. ASSUME NEW m, NEW v, Footprint(m) = Footprint(v)
      PROVE  (EndsTheGame(m) <=> EndsTheGame(v)) /\ (EndsAtOnce(m) <=> EndsAtOnce(v))
  <2>1. Uses[m] = Uses[v]
    BY <1>3 DEF Footprint
  <2> QED
    BY <2>1 DEF EndsTheGame, EndsAtOnce
<1> QED
  BY <1>2, <1>3

\* The ranking.
SortedFrom(placed, n) == [i \in 1 .. n |-> (CHOOSE p \in placed : p[1] = i)[2]]

\* The order of a set, out of its numbered members alone.
LEMMA OrderedFrom == \A S, R : OrderedBy(S, R) = SortedFrom(Places(S, R), Cardinality(S))
BY DEF OrderedBy, SortedFrom

\* And so the ranking, out of the numbered moves.
LEMMA RankedFrom ==
    Ranked = SortedFrom({<<1 + Cardinality({y \in DOMAIN moves \ Outs : RankedBefore(y, x)}), x>> :
                           x \in DOMAIN moves \ Outs}, Cardinality(DOMAIN moves \ Outs))
BY DEF Ranked, Sorted, SortedFrom

\* Every move that does not end the game is ranked, and none stands before a better one.
LEMMA RankedIs ==
    ASSUME RequestReady, MovesKnown
    PROVE  /\ Ranked \in Seq(DOMAIN moves) /\ Len(Ranked) \in Nat /\ DOMAIN Ranked = 1 .. Len(Ranked)
           /\ Range(Ranked) = DOMAIN moves \ Outs
           /\ \A a \in 1 .. Len(Ranked) : Ranked[a] \in 1 .. Len(moves) /\ Ranked[a] \notin Outs
           /\ \A a, b \in 1 .. Len(Ranked) : a < b =>
                /\ Ranked[a] # Ranked[b]
                /\ StaticEquity(moves[Ranked[b]]) <= StaticEquity(moves[Ranked[a]])
<1> DEFINE S == DOMAIN moves \ Outs
           e == [i \in 1 .. Len(moves) |-> StaticEquity(moves[i])]
           R == {p \in S \X S : RankedBefore(p[1], p[2])}
<1>1. /\ Len(moves) \in Nat /\ DOMAIN moves = 1 .. Len(moves)
      /\ \A i \in 1 .. Len(moves) : e[i] = StaticEquity(moves[i]) /\ e[i] \in Int
  BY MovesAre, EquityIs
<1>2. S \subseteq 1 .. Len(moves) /\ IsFiniteSet(S)
  <2>1. 1 \in Int /\ Len(moves) \in Int
    BY <1>1
  <2>2. IsFiniteSet(1 .. Len(moves))
    BY <2>1, FS_Interval
  <2>3. S \subseteq 1 .. Len(moves)
    BY <1>1
  <2> HIDE DEF S
  <2> QED
    BY <2>2, <2>3, FS_Subset
<1> HIDE DEF e
<1>3. \A i, j \in S : <<i, j>> \in R <=> (e[i] > e[j] \/ (e[i] = e[j] /\ i < j))
  BY <1>1, <1>2 DEF RankedBefore
<1>4. \A x \in S : {y \in S : RankedBefore(y, x)} = Below(x, S, R)
  BY DEF Below
<1> HIDE DEF R
<1>5. Ranked = OrderedBy(S, R)
  <2>1. {<<1 + Cardinality({y \in S : RankedBefore(y, x)}), x>> : x \in S} = Places(S, R)
    BY <1>4 DEF Places
  <2> DEFINE A == {<<1 + Cardinality({y \in S : RankedBefore(y, x)}), x>> : x \in S}
             n == Cardinality(S)
  <2>2. Ranked = SortedFrom(A, n)
    BY RankedFrom
  <2>3. OrderedBy(S, R) = SortedFrom(Places(S, R), n)
    BY OrderedFrom
  <2>4. A = Places(S, R)
    BY <2>1
  <2> HIDE DEF A, n
  <2> QED
    BY <2>2, <2>3, <2>4
<1> HIDE DEF S
<1>6. StrictTotalOrder(S, R)
  <2>1. \A x \in S : x \in Int /\ e[x] \in Int
    BY <1>1, <1>2
  <2>2. \A x \in S : <<x, x>> \notin R
    BY <1>3, <2>1
  <2>3. \A x, y, z \in S : <<x, y>> \in R /\ <<y, z>> \in R => <<x, z>> \in R
    BY <1>3, <2>1
  <2>4. ASSUME NEW x \in S, NEW y \in S PROVE x = y \/ <<x, y>> \in R \/ <<y, x>> \in R
    <3>1. x \in Int /\ y \in Int /\ e[x] \in Int /\ e[y] \in Int
      BY <2>1
    <3>2. (e[x] > e[y] \/ (e[x] = e[y] /\ x < y)) => <<x, y>> \in R
      BY <1>3
    <3>3. (e[y] > e[x] \/ (e[y] = e[x] /\ y < x)) => <<y, x>> \in R
      BY <1>3
    <3> QED
      BY <3>1, <3>2, <3>3
  <2> QED
    BY <2>2, <2>3, <2>4 DEF StrictTotalOrder
<1> DEFINE r == Ranked
<1>7. /\ r \in Seq(S) /\ Range(r) = S
      /\ \A a, b \in DOMAIN r : a < b => <<r[a], r[b]>> \in R
  BY <1>2, <1>5, <1>6, OrderedByShape
<1> HIDE DEF r
<1>8. Len(r) \in Nat /\ DOMAIN r = 1 .. Len(r) /\ \A a \in 1 .. Len(r) : r[a] \in S
  BY <1>7
<1>9. ASSUME NEW a \in 1 .. Len(r), NEW b \in 1 .. Len(r), a < b
      PROVE  r[a] # r[b] /\ e[r[b]] <= e[r[a]]
  <2>1. <<r[a], r[b]>> \in R /\ r[a] \in S /\ r[b] \in S
    BY <1>7, <1>8, <1>9
  <2>2. r[a] # r[b]
    BY <1>6, <2>1 DEF StrictTotalOrder
  <2>3. e[r[a]] \in Int /\ e[r[b]] \in Int
    BY <1>1, <1>2, <2>1
  <2> QED
    BY <1>3, <2>1, <2>2, <2>3
<1>10. \A a \in 1 .. Len(r) : r[a] \in 1 .. Len(moves) /\ r[a] \notin Outs
  BY <1>2, <1>8 DEF S
<1>11. r \in Seq(DOMAIN moves)
  <2>1. S \subseteq DOMAIN moves
    BY <1>1, <1>2
  <2>2. \A i \in 1 .. Len(r) : r[i] \in DOMAIN moves
    BY <1>8, <2>1
  <2>3. r = [i \in 1 .. Len(r) |-> r[i]]
    BY <1>7, <1>8
  <2>4. r \in [1 .. Len(r) -> DOMAIN moves]
    BY <2>2, <2>3
  <2> QED
    BY <1>8, <2>4
<1>12. \A a, b \in 1 .. Len(r) : a < b =>
         r[a] # r[b] /\ StaticEquity(moves[r[b]]) <= StaticEquity(moves[r[a]])
  BY <1>1, <1>9, <1>10
<1> QED
  BY <1>7, <1>8, <1>10, <1>11, <1>12 DEF r, S

-----------------------------------------------------------------------------
(* Admission                                                               *)

\* What is ranked: an admissible move, of the root.
LEMMA RankedAre ==
    ASSUME RequestReady, MovesKnown, ranked = Ranked
    PROVE  /\ ranked \in Seq(DOMAIN moves) /\ Len(ranked) \in Nat /\ DOMAIN ranked = 1 .. Len(ranked)
           /\ Range(ranked) = DOMAIN moves \ Outs
           /\ \A a \in 1 .. Len(ranked) : ranked[a] \in 1 .. Len(moves) /\ ranked[a] \notin Outs
           /\ \A a, b \in 1 .. Len(ranked) : a < b =>
                /\ ranked[a] # ranked[b]
                /\ StaticEquity(moves[ranked[b]]) <= StaticEquity(moves[ranked[a]])
           /\ \A j \in Range(ranked) :
                /\ j \in 1 .. Len(moves) /\ j \in DOMAIN moves /\ j \notin Outs
                /\ moves[j] \in Playable(Root(NoTiles)) /\ moves[j] \in Plays
                /\ ~ EndsAtOnce(moves[j])
<1>1. /\ Ranked \in Seq(DOMAIN moves) /\ Len(Ranked) \in Nat /\ DOMAIN Ranked = 1 .. Len(Ranked)
      /\ Range(Ranked) = DOMAIN moves \ Outs
      /\ \A a \in 1 .. Len(Ranked) : Ranked[a] \in 1 .. Len(moves) /\ Ranked[a] \notin Outs
      /\ \A a, b \in 1 .. Len(Ranked) : a < b =>
           /\ Ranked[a] # Ranked[b]
           /\ StaticEquity(moves[Ranked[b]]) <= StaticEquity(moves[Ranked[a]])
  BY RankedIs
<1>2. ASSUME NEW j \in Range(ranked)
      PROVE  /\ j \in 1 .. Len(moves) /\ j \in DOMAIN moves /\ j \notin Outs
             /\ moves[j] \in Playable(Root(NoTiles)) /\ moves[j] \in Plays
             /\ ~ EndsAtOnce(moves[j])
  <2>1. j \in DOMAIN moves /\ j \notin Outs
    BY <1>1
  <2>2. j \in 1 .. Len(moves) /\ moves[j] \in Playable(Root(NoTiles)) /\ moves[j] \in Plays
    BY <2>1, MovesAre
  <2>3. ~ EndsAtOnce(moves[j])
    BY <2>1 DEF Outs
  <2> QED
    BY <2>1, <2>2, <2>3
<1> QED
  BY <1>1, <1>2

\* The best of the ranked moves by score.
LEMMA TopScorerIs ==
    ASSUME RequestReady, MovesKnown, ranked = Ranked, ranked # <<>>
    PROVE  /\ TopScorer(ranked) \in Range(ranked)
           /\ \A j \in Range(ranked) : req.scoreOf[moves[j]] <= req.scoreOf[moves[TopScorer(ranked)]]
<1> DEFINE S == Range(ranked)
           f == [j \in S |-> req.scoreOf[moves[j]]]
           top == {i \in S : \A j \in S : req.scoreOf[moves[j]] <= req.scoreOf[moves[i]]}
           n == Len(moves)
<1>1. n \in Nat /\ \A j \in S : j \in 1 .. n /\ moves[j] \in Playable(Root(NoTiles))
  BY RankedAre, MovesAre
<1>2. \A j \in S : f[j] \in Int
  BY <1>1, EquityIs
<1>3. S # {}
  <2>1. Len(ranked) \in Nat /\ DOMAIN ranked = 1 .. Len(ranked) /\ ranked \in Seq(DOMAIN moves)
    BY RankedAre
  <2>2. 1 \in DOMAIN ranked
    BY <2>1
  <2> QED
    BY <2>2 DEF Range
<1>4. TopScorer(ranked) = Min(top)
  BY DEF TopScorer
<1> HIDE DEF S, n
<1>5. IsFiniteSet(S)
  <2>1. 1 \in Int /\ n \in Int
    BY <1>1
  <2>2. IsFiniteSet(1 .. n) /\ S \subseteq 1 .. n
    BY <1>1, <2>1, FS_Interval
  <2> QED
    BY <2>2, FS_Subset
<1>6. PICK i \in S : \A j \in S : f[j] <= f[i]
  <2> HIDE DEF f
  <2> QED
    BY <1>2, <1>3, <1>5, MostExists
<1>7. i \in top
  BY <1>6
<1>8. \A x \in top : x \in Int /\ 1 <= x /\ x <= n
  BY <1>1
<1> HIDE DEF top
<1>9. Min(top) \in top
  <2>1. 1 \in Int /\ n \in Int
    BY <1>1
  <2> QED
    BY <1>7, <1>8, <2>1, MinMaxBetween
<1> QED
  BY <1>4, <1>9 DEF top, S

\* What is admitted: the first SimTopK, and the best by score.
LEMMA AdmittedIs ==
    ASSUME RequestReady, MovesKnown, ranked = Ranked
    PROVE  /\ Admitted \in Seq(DOMAIN moves) /\ Len(Admitted) \in Nat /\ DOMAIN Admitted = 1 .. Len(Admitted)
           /\ Range(Admitted) \subseteq Range(ranked)
           /\ ranked # <<>> => TopScorer(ranked) \in Range(Admitted)
           /\ \A b \in 1 .. Len(ranked) : ranked[b] \notin Range(Admitted) =>
                b > SimTopK /\ \A a \in 1 .. SimTopK : ranked[a] \in Range(Admitted)
<1> DEFINE n == Len(ranked)
           k == Min({SimTopK, n})
           first == SubSeq(ranked, 1, k)
           t == TopScorer(ranked)
<1>1. n \in Nat /\ ranked \in Seq(DOMAIN moves) /\ SimTopK \in Nat
  BY RankedAre, RequestAssumption
<1>2. k = IF SimTopK <= n THEN SimTopK ELSE n
  BY <1>1, MinMaxTwo
<1>3. k \in Nat /\ k <= n /\ k <= SimTopK
  BY <1>1, <1>2
<1> HIDE DEF k, n
<1>4. /\ first \in Seq(DOMAIN moves) /\ Len(first) = k
      /\ \A a \in 1 .. k : first[a] = ranked[a]
  <2>1. 1 \in 1 .. Len(ranked) + 1 /\ k \in 1 - 1 .. Len(ranked)
    BY <1>1, <1>3 DEF n
  <2>2. first = [a \in 1 .. k |-> ranked[a]]
    BY <1>1, <1>3 DEF n
  <2>3. first \in [1 .. k -> DOMAIN moves]
    <3>1. \A a \in 1 .. k : ranked[a] \in DOMAIN moves
      BY <1>1, <1>3 DEF n
    <3> QED
      BY <2>2, <3>1
  <2>4. first \in Seq(DOMAIN moves)
    <3> HIDE DEF first
    <3> QED
      BY <1>3, <2>3
  <2>5. Len(first) = k
    <3>1. DOMAIN first = 1 .. k /\ DOMAIN first = 1 .. Len(first) /\ Len(first) \in Nat
      BY <2>2, <2>4
    <3> QED
      BY <1>3, <3>1
  <2> QED
    BY <2>2, <2>4, <2>5
<1>5. Admitted = IF ranked = <<>> \/ t \in Range(first) THEN first ELSE Append(first, t)
  BY DEF Admitted, k, n
<1> HIDE DEF first, t
<1>6. ranked # <<>> => t \in Range(ranked) /\ t \in DOMAIN moves
  BY TopScorerIs, RankedAre DEF t
<1>7. Range(first) = {ranked[a] : a \in 1 .. k} /\ Range(first) \subseteq Range(ranked)
  <2>1. DOMAIN first = 1 .. k /\ DOMAIN ranked = 1 .. n
    BY <1>1, <1>4 DEF n
  <2> QED
    BY <1>1, <1>3, <1>4, <2>1 DEF Range
<1>8. Append(first, t) = first \o <<t>>
  BY <1>4
<1>9. /\ Admitted \in Seq(DOMAIN moves) /\ Range(Admitted) \subseteq Range(ranked)
      /\ Range(first) \subseteq Range(Admitted)
      /\ ranked # <<>> => t \in Range(Admitted)
  <2>1. CASE ranked = <<>> \/ t \in Range(first)
    <3>1. Admitted = first
      BY <1>5, <2>1
    <3> QED
      BY <1>4, <1>7, <2>1, <3>1
  <2>2. CASE ~ (ranked = <<>> \/ t \in Range(first))
    <3>1. Admitted = first \o <<t>>
      BY <1>5, <1>8, <2>2
    <3>2. t \in DOMAIN moves /\ t \in Range(ranked)
      BY <1>6, <2>2
    <3> DEFINE u == <<t>>
    <3>3. u \in Seq(DOMAIN moves) /\ Range(u) = {t}
      BY <3>2 DEF Range
    <3>4. Admitted = first \o u
      BY <3>1
    <3> HIDE DEF u
    <3>5. first \o u \in Seq(DOMAIN moves) /\ Range(first \o u) = Range(first) \cup Range(u)
      BY <1>4, <3>3, RangeOfTwo
    <3>6. Admitted \in Seq(DOMAIN moves) /\ Range(Admitted) = Range(first) \cup {t}
      BY <3>3, <3>4, <3>5
    <3> QED
      BY <1>7, <3>2, <3>6
  <2> QED
    BY <2>1, <2>2
<1>10. ASSUME NEW b \in 1 .. n, ranked[b] \notin Range(Admitted)
       PROVE  b > SimTopK /\ \A a \in 1 .. SimTopK : ranked[a] \in Range(Admitted)
  <2>1. ranked[b] \notin Range(first)
    BY <1>9, <1>10
  <2>2. ~ (b <= k)
    BY <1>1, <1>3, <1>7, <2>1
  <2>3. b > k /\ k = SimTopK
    BY <1>1, <1>2, <1>3, <2>2
  <2> QED
    BY <1>7, <1>9, <2>3
<1> QED
  BY <1>9, <1>10 DEF n, t

\* All the faces of what is admitted.
Compared ==
    {v \in Playable(Root(NoTiles)) : \E i \in Range(Admitted) : Footprint(v) = Footprint(moves[i])}
\* The placements that are compared, as the code lists them.
PlacedFaces == Expanded([i \in DOMAIN Admitted |-> moves[Admitted[i]]])

\* The faces of a placement are all the playable ones of its footprint.
LEMMA FacesAre ==
    ASSUME RequestReady, NEW m
    PROVE  /\ Faces(m) \in Seq(Playable(Root(NoTiles)))
           /\ Range(Faces(m)) = {v \in Playable(Root(NoTiles)) : Footprint(v) = Footprint(m)}
<1> DEFINE S == {v \in Plays : Footprint(v) = Footprint(m)}
           P == Playable(Root(NoTiles))
<1>1. RootPlays \in Seq(Plays) /\ Range(RootPlays) = P /\ P \subseteq Plays
  BY OptionsAre, RootPlayable
<1>2. P \cap S = {v \in P : Footprint(v) = Footprint(m)}
  BY <1>1
<1>3. Faces(m) = Filtered(RootPlays, S)
  BY DEF Faces
<1> HIDE DEF S, P
<1>4. Filtered(RootPlays, S) \in Seq(S) /\ Filtered(RootPlays, S) \in Seq(Plays)
      /\ Range(Filtered(RootPlays, S)) = Range(RootPlays) \cap S
  BY <1>1, FilteredShape
<1> DEFINE s == Filtered(RootPlays, S)
<1>5. s \in Seq(Plays) /\ Range(s) = P \cap S
  BY <1>1, <1>4
<1> HIDE DEF s
<1>6. s \in Seq(P)
  <2>1. \A i \in 1 .. Len(s) : s[i] \in P
    BY <1>5 DEF Range
  <2>2. s = [i \in 1 .. Len(s) |-> s[i]] /\ Len(s) \in Nat
    BY <1>5
  <2>3. s \in [1 .. Len(s) -> P]
    BY <2>1, <2>2
  <2> QED
    BY <2>2, <2>3
<1> QED
  BY <1>2, <1>3, <1>5, <1>6 DEF P, s

\* What is listed is what is compared.
LEMMA PlacesAre ==
    ASSUME RequestReady, MovesKnown, ranked = Ranked
    PROVE  PlacedFaces \in Seq(Playable(Root(NoTiles))) /\ Range(PlacedFaces) = Compared
<1> DEFINE P == Playable(Root(NoTiles))
           n == Len(Admitted)
           list == [i \in DOMAIN Admitted |-> moves[Admitted[i]]]
           seqs == [i \in DOMAIN list |-> Faces(list[i])]
<1>1. Admitted \in Seq(DOMAIN moves) /\ n \in Nat /\ DOMAIN Admitted = 1 .. n
  BY AdmittedIs
<1>2. DOMAIN list = 1 .. n /\ \A i \in 1 .. n : list[i] = moves[Admitted[i]]
  BY <1>1
<1>3. DOMAIN seqs = 1 .. n /\ \A i \in 1 .. n : seqs[i] = Faces(moves[Admitted[i]])
  BY <1>2
<1>4. PlacedFaces = FlattenSeq(seqs)
  BY DEF PlacedFaces, Expanded
<1>5. seqs = [i \in 1 .. n |-> seqs[i]]
  BY <1>2
<1> HIDE DEF seqs, list, P, n
<1>6. \A i \in 1 .. n : /\ seqs[i] \in Seq(P)
                        /\ Range(seqs[i]) = {v \in P : Footprint(v) = Footprint(moves[Admitted[i]])}
  BY <1>3, FacesAre DEF P
<1>7. seqs \in [1 .. n -> Seq(P)]
  BY <1>5, <1>6
<1>8. seqs \in Seq(Seq(P)) /\ Len(seqs) = n
  <2>1. seqs \in Seq(Seq(P))
    BY <1>1, <1>7
  <2> QED
    BY <1>1, <1>3, <2>1
<1>9. /\ FlattenSeq(seqs) \in Seq(P)
      /\ Range(FlattenSeq(seqs)) = UNION {Range(seqs[i]) : i \in 1 .. n}
  BY <1>8, FlattenShape
<1>10. Range(Admitted) = {Admitted[i] : i \in 1 .. n}
  BY <1>1 DEF Range
<1>11. UNION {Range(seqs[i]) : i \in 1 .. n} = Compared
  <2>1. ASSUME NEW v PROVE v \in UNION {Range(seqs[i]) : i \in 1 .. n} <=>
                           \E i \in 1 .. n : v \in P /\ Footprint(v) = Footprint(moves[Admitted[i]])
    BY <1>6
  <2>2. ASSUME NEW v PROVE v \in Compared <=>
                           \E i \in 1 .. n : v \in P /\ Footprint(v) = Footprint(moves[Admitted[i]])
    BY <1>10 DEF Compared, P
  <2> QED
    BY <2>1, <2>2
<1> QED
  BY <1>4, <1>9, <1>11 DEF P

\* What is compared: placements, the exchanges and the pass.
LEMMA LenOfTwo ==
    ASSUME NEW T, NEW s \in Seq(T), NEW t \in Seq(T)
    PROVE  Len(s \o t) = Len(s) + Len(t) /\ Len(s) \in Nat
OBVIOUS

\* The candidates are legal moves, and one of them is there at least.
LEMMA CandidatesAre ==
    ASSUME RequestReady, MovesKnown, ranked = Ranked
    PROVE  /\ AllCandidates \in Seq(LegalMoves) /\ Len(AllCandidates) \in Nat /\ Len(AllCandidates) >= 1
           /\ DOMAIN AllCandidates = 1 .. Len(AllCandidates)
           /\ \A i \in 1 .. Len(AllCandidates) : AllCandidates[i] \in LegalMoves
           /\ {AllCandidates[i].play : i \in {j \in DOMAIN AllCandidates : AllCandidates[j].type = "place"}}
                = Compared
<1> DEFINE placed == [i \in DOMAIN PlacedFaces |-> PlaceMove(PlacedFaces[i])]
           c == (placed \o EnumerateExchanges) \o <<PassMove>>
<1>1. AllCandidates = c
  <2>1. AllCandidates = placed \o EnumerateExchanges \o <<PassMove>>
    BY DEF AllCandidates, PlacedFaces
  <2> QED
    BY <2>1
<1>2. PlacedFaces \in Seq(Playable(Root(NoTiles))) /\ Range(PlacedFaces) = Compared
  BY PlacesAre
<1>3. Len(PlacedFaces) \in Nat /\ DOMAIN PlacedFaces = 1 .. Len(PlacedFaces)
  BY <1>2
<1> DEFINE M == {PlaceMove(v) : v \in Compared}
<1>4. placed \in Seq(M) /\ Range(placed) = M
  <2>1. Compared = {PlacedFaces[i] : i \in 1 .. Len(PlacedFaces)}
    BY <1>2, <1>3 DEF Range
  <2>2. placed = [i \in 1 .. Len(PlacedFaces) |-> PlaceMove(PlacedFaces[i])]
    BY <1>3
  <2>3. \A i \in 1 .. Len(PlacedFaces) : PlaceMove(PlacedFaces[i]) \in M
    BY <2>1
  <2> HIDE DEF M
  <2>4. placed \in [1 .. Len(PlacedFaces) -> M]
    BY <2>2, <2>3
  <2>5. placed \in Seq(M)
    BY <1>3, <2>4
  <2>6. Range(placed) = {PlaceMove(PlacedFaces[i]) : i \in 1 .. Len(PlacedFaces)}
    BY <2>2 DEF Range
  <2>7. M = {PlaceMove(PlacedFaces[i]) : i \in 1 .. Len(PlacedFaces)}
    BY <2>1 DEF M
  <2> QED
    BY <2>5, <2>6, <2>7
<1>5. M \subseteq LegalMoves /\ Range(EnumerateExchanges) \subseteq LegalMoves /\ PassMove \in LegalMoves
  BY DEF LegalMoves, Compared
<1> HIDE DEF placed, M
<1>6. placed \in Seq(LegalMoves)
  <2>1. \A i \in 1 .. Len(placed) : placed[i] \in LegalMoves
    BY <1>4, <1>5
  <2>2. placed = [i \in 1 .. Len(placed) |-> placed[i]] /\ Len(placed) \in Nat
    BY <1>4
  <2>3. placed \in [1 .. Len(placed) -> LegalMoves]
    BY <2>1, <2>2
  <2> QED
    BY <2>2, <2>3
<1> DEFINE ex == EnumerateExchanges
<1>7. ex \in Seq(LegalMoves) /\ \A x \in Range(ex) : x.type = "exchange"
  <2>1. ex \in Seq(DroppedMoves)
    BY ExchangesAre
  <2>2. Range(ex) \subseteq DroppedMoves /\ Range(ex) = RangeOf(ex)
    BY <2>1, RangeOfSeqIs
  <2>3. Range(ex) \subseteq LegalMoves
    BY <1>5
  <2> HIDE DEF ex
  <2>4. ex = [i \in 1 .. Len(ex) |-> ex[i]] /\ Len(ex) \in Nat
    BY <2>1
  <2>5. \A i \in 1 .. Len(ex) : ex[i] \in LegalMoves
    BY <2>2, <2>3 DEF RangeOf
  <2>6. ex \in [1 .. Len(ex) -> LegalMoves]
    BY <2>4, <2>5
  <2>7. \A x \in Range(ex) : x.type = "exchange"
    BY <2>2, ExchangesAre
  <2> QED
    BY <2>4, <2>6, <2>7
<1> HIDE DEF ex
<1> DEFINE b == placed \o ex
<1>8. b \in Seq(LegalMoves) /\ Range(b) = M \cup Range(ex)
  BY <1>4, <1>6, <1>7, RangeOfTwo
<1>9. <<PassMove>> \in Seq(LegalMoves) /\ Range(<<PassMove>>) = {PassMove} /\ Len(<<PassMove>>) = 1
  BY <1>5 DEF Range
<1> HIDE DEF b
<1> DEFINE p == <<PassMove>>
<1> HIDE DEF p
<1>10. b \o p \in Seq(LegalMoves) /\ Range(b \o p) = M \cup Range(ex) \cup {PassMove}
       /\ Len(b \o p) = Len(b) + 1 /\ Len(b) \in Nat
  <2>1. p \in Seq(LegalMoves) /\ Range(p) = {PassMove} /\ Len(p) = 1
    BY <1>9 DEF p
  <2>2. b \o p \in Seq(LegalMoves) /\ Range(b \o p) = Range(b) \cup Range(p)
    BY <1>8, <2>1, RangeOfTwo
  <2>3. Len(b \o p) = Len(b) + 1 /\ Len(b) \in Nat
    <3>1. b \in Seq(LegalMoves)
      BY <1>8
    <3>2. Len(b \o p) = Len(b) + Len(p) /\ Len(b) \in Nat
      BY <2>1, <3>1, LenOfTwo
    <3> QED
      BY <2>1, <3>2
  <2> QED
    BY <1>8, <2>1, <2>2, <2>3
<1>11. c = b \o p
  BY DEF b, p, ex
<1> HIDE DEF c
<1>12. c \in Seq(LegalMoves) /\ Len(c) \in Nat /\ Len(c) >= 1 /\ DOMAIN c = 1 .. Len(c)
       /\ \A i \in 1 .. Len(c) : c[i] \in LegalMoves
  BY <1>10, <1>11
<1>13. {c[i].play : i \in {j \in DOMAIN c : c[j].type = "place"}} = Compared
  <2>1. {c[i].play : i \in {j \in DOMAIN c : c[j].type = "place"}}
          = {x.play : x \in {y \in Range(c) : y.type = "place"}}
    BY DEF Range
  <2>2. {y \in Range(c) : y.type = "place"} = M
    <3>1. \A x \in M : x.type = "place"
      BY DEF M, PlaceMove
    <3>2. PassMove.type # "place"
      BY DEF PassMove
    <3> QED
      BY <1>7, <1>10, <1>11, <3>1, <3>2
  <2>3. {x.play : x \in M} = Compared
    <3>1. \A v : PlaceMove(v).play = v
      BY DEF PlaceMove
    <3> QED
      BY <3>1 DEF M
  <2> QED
    BY <2>1, <2>2, <2>3
<1> QED
  BY <1>1, <1>12, <1>13

-----------------------------------------------------------------------------
(* From the root to the comparison                                         *)

\* As long as the request and its moves are the same, so is what they offer,
LEMMA SameMoves ==
    ASSUME req' = req, moves' = moves
    PROVE  /\ Generated' = Generated /\ MovesKnown' = MovesKnown
           /\ Outs' = Outs /\ Ranked' = Ranked /\ Stops' = Stops
<1>1. Generated' = Generated
  BY DEF Generated, RootPlays, Root, Playable, Mover, Occupied, Filtered, NoTiles, Minus, Within
<1>2. MovesKnown' = MovesKnown
  BY <1>1 DEF MovesKnown, Deduped, Twins, BestFace, Footprint, Filtered, Min
<1>3. Outs' = Outs
  BY DEF Outs, EndsAtOnce
<1>4. Ranked' = Ranked
  BY <1>3 DEF Ranked, Sorted, RankedBefore, StaticEquity, LeaveValue, Minus
<1>5. Stops' = Stops
  <2>1. BestOut' = BestOut
    BY <1>3 DEF BestOut, OutMargin, Min
  <2>2. Threshold' = Threshold /\ OutMargin(moves[BestOut])' = OutMargin(moves[BestOut])
    BY <2>1 DEF Threshold, OutMargin
  <2> QED
    BY <1>3, <1>4, <2>2 DEF Stops
<1> QED
  BY <1>1, <1>2, <1>3, <1>4, <1>5

\* and so are the candidates.
LEMMA SameCandidates ==
    ASSUME req' = req, moves' = moves, ranked' = ranked
    PROVE  AllCandidates' = AllCandidates
<1>1. Admitted' = Admitted
  BY DEF Admitted, TopScorer, Min
<1>2. EnumerateExchanges' = EnumerateExchanges
  BY DEF EnumerateExchanges, Drawable, Dropping, DropsBest, LeaveValue, Without, Filtered, Min
<1>3. \A list : Expanded(list)' = Expanded(list)
  BY DEF Expanded, Faces, RootPlays, Root, Playable, Mover, Occupied, Filtered, NoTiles, Minus, Within, Footprint
<1>4. PlacedFaces' = PlacedFaces
  BY <1>1 DEF PlacedFaces, Expanded, Faces, RootPlays, Root, Playable, Mover, Occupied, Filtered, NoTiles, Minus,
              Within, Footprint
<1>5. AllCandidates = [i \in DOMAIN PlacedFaces |-> PlaceMove(PlacedFaces[i])] \o EnumerateExchanges \o <<PassMove>>
  BY DEF AllCandidates, PlacedFaces
<1>6. AllCandidates' = [i \in DOMAIN PlacedFaces' |-> PlaceMove(PlacedFaces'[i])] \o EnumerateExchanges' \o <<PassMove>>
  BY DEF AllCandidates, PlacedFaces, PlaceMove, PassMove
<1> QED
  BY <1>2, <1>4, <1>5, <1>6

\* A step that touches neither keeps the estimates.
LEMMA EstimatesKept ==
    ASSUME Estimates, req' = req, moves' = moves,
           stage' \notin {"parse", "generate", "done"} => stage \notin {"parse", "generate", "done"},
           stage' \in {"admit", "greedy", "sample", "rank"} =>
             ranked' = ranked /\ stage \in {"admit", "greedy", "sample", "rank"},
           stage' \in {"admit", "sample", "rank"} => stage \in {"admit", "sample", "rank"},
           stage' \in {"sample", "rank"} => candidates' = candidates /\ stage \in {"sample", "rank"}
    PROVE  Estimates'
<1>1. stage' \notin {"parse", "generate", "done"} => MovesKnown'
  BY SameMoves DEF Estimates
<1>2. stage' \in {"admit", "greedy", "sample", "rank"} => ranked' = Ranked' /\ ~ Stops'
  BY SameMoves DEF Estimates
<1>3. stage' \in {"admit", "sample", "rank"} => req'.solver = "sim" /\ req'.oppRackCount > 0
  BY DEF Estimates
<1>4. stage' \in {"sample", "rank"} => candidates' = AllCandidates'
  BY SameCandidates DEF Estimates
<1> QED
  BY <1>1, <1>2, <1>3, <1>4 DEF Estimates

\* Every step keeps them.
LEMMA EstimatesStep ==
    ASSUME Estimates, [Next \/ Answered]_requestVars
    PROVE  Estimates'
<1>1. CASE ParseRequest
  BY <1>1 DEF ParseRequest, Estimates
<1>2. CASE GenerateRoot
  <2>1. req' = req /\ stage' \in {"proof", "terminal"} /\ \E list \in Generated : moves' = Deduped(list)
    BY <1>2 DEF GenerateRoot
  <2>2. MovesKnown'
    <3>0. req' = req
      BY <2>1
    <3>1. Generated' = Generated
      BY <3>0 DEF Generated, RootPlays, Root, Playable, Mover, Occupied, Filtered, NoTiles, Minus, Within
    <3>2. \A list : Deduped(list)' = Deduped(list)
      BY <3>0 DEF Deduped, Twins, BestFace, Footprint, Filtered, Min
    <3> QED
      BY <2>1, <3>1, <3>2 DEF MovesKnown
  <2> QED
    BY <2>1, <2>2 DEF Estimates
<1>3. CASE ProofNext /\ UNCHANGED <<moves, ranked, candidates, sim, answer>>
  <2>1. /\ req' = req /\ stage \in ProofStages
        /\ stage' \in ProofStages
    BY <1>3 DEF ProofNext, BeginProof, ProveUnit, Judge, ReachUnit, Settle, ProofStages
  <2>2. /\ stage \notin {"parse", "generate", "done"}
        /\ stage' \notin {"parse", "generate", "done", "admit", "greedy", "sample", "rank"}
    BY <2>1 DEF ProofStages
  <2> QED
    BY <1>3, <2>1, <2>2, EstimatesKept
<1>4. CASE UseProof
  <2>1. stage = "proof_over" /\ stage' \in {"done", "terminal"} /\ req' = req /\ moves' = moves
    BY <1>4 DEF UseProof
  <2> QED
    BY <2>1, EstimatesKept
<1>5. CASE SettleAtOnce
  <2>1. stage = "terminal" /\ req' = req /\ moves' = moves /\ ranked' = Ranked
    BY <1>5 DEF SettleAtOnce
  <2>2. MovesKnown' /\ ranked' = Ranked'
    BY <2>1, SameMoves DEF Estimates
  <2>3. CASE stage' = "done"
    BY <2>3 DEF Estimates
  <2>4. CASE stage' # "done"
    <3>1. ~ Stops /\ stage' = IF req.oppRackCount > 0 /\ req.solver = "sim" THEN "admit" ELSE "greedy"
      BY <1>5, <2>4 DEF SettleAtOnce, Stops
    <3>2. ~ Stops'
      BY <2>1, <3>1, SameMoves
    <3>3. stage' \notin {"sample", "rank"} /\ (stage' = "admit" => req'.oppRackCount > 0 /\ req'.solver = "sim")
      BY <2>1, <3>1
    <3> QED
      BY <2>2, <3>2, <3>3 DEF Estimates
  <2> QED
    BY <2>3, <2>4
<1>6. CASE AdmitCandidates
  <2>1. /\ stage = "admit" /\ stage' = "sample" /\ req' = req /\ moves' = moves /\ ranked' = ranked
        /\ candidates' = AllCandidates
    BY <1>6 DEF AdmitCandidates, AllCandidates
  <2>2. MovesKnown' /\ ranked' = Ranked' /\ ~ Stops' /\ req'.solver = "sim" /\ req'.oppRackCount > 0
    BY <2>1, SameMoves DEF Estimates
  <2>3. candidates' = AllCandidates'
    BY <2>1, SameCandidates
  <2> QED
    BY <2>2, <2>3 DEF Estimates
<1>7. CASE SampleRow
  <2>1. /\ stage = "sample" /\ stage' \in {"sample", "rank"}
        /\ UNCHANGED <<req, moves, ranked, candidates>>
    BY <1>7 DEF SampleRow
  <2> QED
    BY <2>1, EstimatesKept
<1>8. CASE ClockCutsRow
  BY <1>8, EstimatesKept DEF ClockCutsRow
<1>9. CASE RankCandidates
  BY <1>9 DEF RankCandidates, Estimates
<1>10. CASE PlayGreedy
  BY <1>10 DEF PlayGreedy, Estimates
<1>11. CASE UNCHANGED requestVars
  BY <1>11, EstimatesKept DEF requestVars, proofVars
<1> QED
  BY <1>1, <1>2, <1>3, <1>4, <1>5, <1>6, <1>7, <1>8, <1>9, <1>10, <1>11 DEF Next, Answered

\* What a request is estimated from is what its position offers.
THEOREM EstimatesGoRight == Spec => []Estimates
<1>1. Init => Estimates
  BY DEF Init, Estimates
<1>2. Estimates /\ [Next \/ Answered]_requestVars => Estimates'
  BY EstimatesStep
<1> QED
  BY <1>1, <1>2, PTL DEF Spec

-----------------------------------------------------------------------------
(* What the comparison leaves out                                          *)

\* A placement left out was ranked behind SimTopK others.
LEMMA LeftOutIs ==
    ASSUME RequestReady, MovesKnown, ranked = Ranked,
           req.solver = "sim", req.unlimited, req.oppRackCount > 0,
           NEW m \in Playable(Root(NoTiles)), ~ EndsTheGame(m), m \notin Compared
    PROVE  \E b \in 1 .. Len(ranked) :
             /\ ranked[b] \notin Range(Admitted)
             /\ Footprint(moves[ranked[b]]) = Footprint(m)
             /\ req.scoreOf[m] <= req.scoreOf[moves[ranked[b]]]
             /\ StaticEquity(m) <= StaticEquity(moves[ranked[b]])
<1>1. PICK i \in 1 .. Len(moves) : Footprint(moves[i]) = Footprint(m) /\ req.scoreOf[m] <= req.scoreOf[moves[i]]
  BY MovesAre
<1>2. i \in DOMAIN moves /\ moves[i] \in Playable(Root(NoTiles))
  BY MovesAre
<1>3. ~ EndsAtOnce(moves[i])
  BY <1>1, EndsAlike
<1>4. i \in Range(ranked)
  BY <1>2, <1>3, RankedAre DEF Outs
<1>5. PICK b \in 1 .. Len(ranked) : i = ranked[b]
  BY <1>4, RankedAre DEF Range
<1>6. i \notin Range(Admitted)
  BY <1>1 DEF Compared
<1>7. StaticEquity(m) <= StaticEquity(moves[i])
  BY <1>1, <1>2, EquityIs
<1> QED
  BY <1>1, <1>5, <1>6, <1>7

\* What is compared does not end the game.
LEMMA ComparedOpen ==
    ASSUME RequestReady, MovesKnown, ranked = Ranked
    PROVE  /\ \A v \in Compared :
                /\ v \in Playable(Root(NoTiles)) /\ ~ EndsTheGame(v) /\ ~ EndsAtOnce(v)
                /\ \E i \in 1 .. Len(moves) : Footprint(v) = Footprint(moves[i])
           /\ \A i \in Range(Admitted) : i \in Range(ranked) /\ moves[i] \in Compared
<1>1. ASSUME NEW i \in Range(Admitted)
      PROVE  /\ i \in Range(ranked) /\ i \in 1 .. Len(moves)
             /\ moves[i] \in Playable(Root(NoTiles)) /\ ~ EndsAtOnce(moves[i])
  <2>1. i \in Range(ranked)
    BY AdmittedIs
  <2> QED
    BY <2>1, RankedAre
<1>2. ASSUME NEW v \in Compared
      PROVE  /\ v \in Playable(Root(NoTiles)) /\ ~ EndsTheGame(v) /\ ~ EndsAtOnce(v)
             /\ \E i \in 1 .. Len(moves) : Footprint(v) = Footprint(moves[i])
  <2>1. v \in Playable(Root(NoTiles))
    BY DEF Compared
  <2>2. PICK i \in Range(Admitted) : Footprint(v) = Footprint(moves[i])
    BY DEF Compared
  <2>3. ~ EndsAtOnce(v)
    BY <1>1, <2>2, EndsAlike
  <2>4. ~ EndsTheGame(v)
    BY <2>1, <2>3, EndsAlike
  <2> QED
    BY <1>1, <2>1, <2>2, <2>3, <2>4
<1>3. ASSUME NEW i \in Range(Admitted) PROVE i \in Range(ranked) /\ moves[i] \in Compared
  BY <1>1 DEF Compared
<1> QED
  BY <1>2, <1>3

\* The footprints with a face that is compared and as good.
AsGood(m) == {Footprint(v) : v \in {u \in Compared : StaticEquity(u) >= StaticEquity(m)}}

\* A placement is left out only when SimTopK footprints at least as good are compared.
LEMMA EnoughAsGood ==
    ASSUME RequestReady, MovesKnown, ranked = Ranked,
           req.solver = "sim", req.unlimited, req.oppRackCount > 0,
           NEW m \in Playable(Root(NoTiles)), ~ EndsTheGame(m), m \notin Compared
    PROVE  Cardinality(AsGood(m)) >= SimTopK
<1>1. PICK b \in 1 .. Len(ranked) :
             /\ ranked[b] \notin Range(Admitted)
             /\ Footprint(moves[ranked[b]]) = Footprint(m)
             /\ req.scoreOf[m] <= req.scoreOf[moves[ranked[b]]]
             /\ StaticEquity(m) <= StaticEquity(moves[ranked[b]])
  BY LeftOutIs
<1>2. b > SimTopK /\ \A a \in 1 .. SimTopK : ranked[a] \in Range(Admitted)
  BY <1>1, AdmittedIs
<1>3. Len(ranked) \in Nat /\ SimTopK \in Nat /\ DOMAIN ranked = 1 .. Len(ranked)
  BY RankedAre, RequestAssumption
<1> DEFINE f == [a \in 1 .. SimTopK |-> Footprint(moves[ranked[a]])]
           F == {Footprint(moves[i]) : i \in 1 .. Len(moves)}
           B == AsGood(m)
<1>4. ASSUME NEW a \in 1 .. SimTopK
      PROVE  f[a] \in B
  <2>1. a \in 1 .. Len(ranked) /\ a < b
    BY <1>2, <1>3
  <2>2. ranked[a] \in Range(Admitted) /\ moves[ranked[a]] \in Compared
    BY <1>2, ComparedOpen
  <2>3. StaticEquity(moves[ranked[b]]) <= StaticEquity(moves[ranked[a]])
    BY <2>1, RankedAre
  <2>4. /\ moves[ranked[a]] \in Playable(Root(NoTiles))
        /\ moves[ranked[b]] \in Playable(Root(NoTiles))
    <3>1. ranked[a] \in Range(ranked) /\ ranked[b] \in Range(ranked)
      BY <1>3, <2>1 DEF Range
    <3> QED
      BY <3>1, RankedAre
  <2>5. StaticEquity(m) \in Int /\ StaticEquity(moves[ranked[a]]) \in Int /\ StaticEquity(moves[ranked[b]]) \in Int
    BY <2>4, EquityIs
  <2> DEFINE x == StaticEquity(m)
             y == StaticEquity(moves[ranked[a]])
             z == StaticEquity(moves[ranked[b]])
  <2>6. y >= x
    <3>1. x \in Int /\ y \in Int /\ z \in Int /\ x <= z /\ z <= y
      BY <1>1, <2>3, <2>5
    <3> HIDE DEF x, y, z
    <3> QED
      BY <3>1
  <2> QED
    BY <2>2, <2>6 DEF AsGood
<1>5. ASSUME NEW a \in 1 .. SimTopK, NEW c \in 1 .. SimTopK, f[a] = f[c] PROVE a = c
  <2>1. a \in 1 .. Len(ranked) /\ c \in 1 .. Len(ranked)
    BY <1>2, <1>3
  <2>2. ranked[a] \in 1 .. Len(moves) /\ ranked[c] \in 1 .. Len(moves)
    BY <2>1, RankedAre
  <2>3. Footprint(moves[ranked[a]]) = Footprint(moves[ranked[c]])
    BY <1>5
  <2>4. ranked[a] = ranked[c]
    BY <2>2, <2>3, MovesAre
  <2>5. ~ (a < c) /\ ~ (c < a)
    BY <2>1, <2>4, RankedAre
  <2> QED
    BY <1>3, <2>5
<1>6. IsFiniteSet(B)
  <2>1. Len(moves) \in Nat
    BY MovesAre
  <2>2. 1 \in Int /\ Len(moves) \in Int
    BY <2>1
  <2>3. IsFiniteSet(1 .. Len(moves))
    BY <2>2, FS_Interval
  <2> DEFINE g == [i \in 1 .. Len(moves) |-> Footprint(moves[i])]
             I == 1 .. Len(moves)
  <2>4. g \in Surjection(I, F)
    BY DEF Surjection
  <2>5. B \subseteq F
    BY ComparedOpen DEF AsGood
  <2> HIDE DEF g, F, B, I
  <2>6. IsFiniteSet(F)
    BY <2>3, <2>4, FS_Surjection DEF I
  <2> QED
    BY <2>5, <2>6, FS_Subset
<1>7. f \in Injection(1 .. SimTopK, B)
  <2>1. f \in [1 .. SimTopK -> B]
    BY <1>4
  <2> HIDE DEF f, B
  <2> QED
    BY <1>5, <2>1 DEF Injection, IsInjective
<1>8. IsFiniteSet(1 .. SimTopK) /\ Cardinality(1 .. SimTopK) = SimTopK
  <2>1. 1 \in Int /\ SimTopK \in Int
    BY <1>3
  <2>2. /\ IsFiniteSet(1 .. SimTopK)
        /\ Cardinality(1 .. SimTopK) = IF 1 > SimTopK THEN 0 ELSE SimTopK - 1 + 1
    BY <2>1, FS_Interval
  <2> QED
    BY <1>3, <2>2
<1> HIDE DEF f, B
<1> DEFINE S == 1 .. SimTopK
<1>9. Cardinality(S) <= Cardinality(B)
  <2>1. IsFiniteSet(S) /\ f \in Injection(S, B)
    BY <1>7, <1>8
  <2> HIDE DEF S
  <2> QED
    BY <1>6, <2>1, FS_Injection
<1>10. Cardinality(B) \in Nat
  BY <1>6, FS_CardinalityType
<1> QED
  BY <1>3, <1>8, <1>9, <1>10 DEF B

\* Of a complete generation, a placement is left out of the comparison only
\* when SimTopK footprints with a face at least as good are in, and one that
\* scores as much is in.
LEMMA NothingBetterSaid ==
    ASSUME RequestReady, Estimates
    PROVE  NothingBetterLeftOut
<1> SUFFICES ASSUME stage = "sample", req.unlimited PROVE NothingBetterLeftOut
  BY DEF NothingBetterLeftOut
<1>1. /\ MovesKnown /\ ranked = Ranked /\ req.solver = "sim" /\ req.oppRackCount > 0
      /\ candidates = AllCandidates
  BY DEF Estimates
<1> DEFINE compared == {candidates[i].play : i \in {j \in DOMAIN candidates : candidates[j].type = "place"}}
           open == {m \in Playable(Root(NoTiles)) : ~ EndsTheGame(m)}
<1>2. compared = Compared
  BY <1>1, CandidatesAre
<1>3. compared \subseteq open
  BY <1>1, <1>2, ComparedOpen
<1>4. ASSUME NEW m \in open \ compared
      PROVE  /\ Cardinality(AsGood(m)) >= SimTopK
             /\ \E v \in compared : req.scoreOf[v] >= req.scoreOf[m]
  <2>1. m \in Playable(Root(NoTiles)) /\ ~ EndsTheGame(m) /\ m \notin Compared
    BY <1>2
  <2>2. Cardinality(AsGood(m)) >= SimTopK
    BY <1>1, <2>1, EnoughAsGood
  <2>3. PICK b \in 1 .. Len(ranked) :
             /\ ranked[b] \notin Range(Admitted)
             /\ req.scoreOf[m] <= req.scoreOf[moves[ranked[b]]]
    BY <1>1, <2>1, LeftOutIs
  <2>4. ranked[b] \in Range(ranked) /\ ranked # <<>>
    BY <1>1, RankedAre DEF Range
  <2> DEFINE t == TopScorer(ranked)
  <2>5. /\ t \in Range(Admitted) /\ req.scoreOf[moves[ranked[b]]] <= req.scoreOf[moves[t]]
        /\ moves[t] \in Compared
    BY <1>1, <2>4, AdmittedIs, TopScorerIs, ComparedOpen
  <2>6. moves[t] \in Playable(Root(NoTiles)) /\ moves[ranked[b]] \in Playable(Root(NoTiles))
    BY <1>1, <2>4, <2>5, RankedAre, ComparedOpen
  <2> HIDE DEF t
  <2> DEFINE x == req.scoreOf[m]
             y == req.scoreOf[moves[ranked[b]]]
             z == req.scoreOf[moves[t]]
  <2>7. x \in Int /\ y \in Int /\ z \in Int /\ x <= y /\ y <= z
    BY <2>1, <2>3, <2>5, <2>6, EquityIs
  <2>8. z >= x
    <3> HIDE DEF x, y, z
    <3> QED
      BY <2>7
  <2> QED
    BY <1>2, <2>2, <2>5, <2>8
<1> HIDE DEF compared, open
<1>5. \A m \in open \ compared :
        /\ Cardinality({Footprint(v) : v \in {u \in compared : StaticEquity(u) >= StaticEquity(m)}}) >= SimTopK
        /\ \E v \in compared : req.scoreOf[v] >= req.scoreOf[m]
  BY <1>2, <1>4 DEF AsGood
<1> QED
  BY <1>3, <1>5 DEF NothingBetterLeftOut, compared, open

\* Of a complete generation, a placement is left out of the comparison only when SimTopK
\* footprints at least as good are in, and a highest scorer is always in: handleRequest,
\* whatever the board, the rack and the order of the generation.
THEOREM NothingBetterIsLeftOut == Spec => []NothingBetterLeftOut
<1>1. RequestKnown /\ Estimates => NothingBetterLeftOut
  BY NothingBetterSaid DEF RequestKnown
<1> QED
  BY <1>1, RequestAlwaysKnown, EstimatesGoRight, PTL

-----------------------------------------------------------------------------
(* The samples                                                             *)

\* There is a sample at least, and no more than asked for.
LEMMA SamplesAre ==
    ASSUME RequestReady
    PROVE  Samples \in Nat /\ Samples >= 1 /\ Samples <= SimSamples /\ SimSamples \in Nat
<1>1. req.sampleCap \in Int /\ SimSamples \in Nat /\ SimSamples # 0
  BY RequestAssumption DEF RequestReady, RequestShape
<1>2. CASE req.sampleCap > 0
  <2>1. Min({req.sampleCap, SimSamples}) = IF req.sampleCap <= SimSamples THEN req.sampleCap ELSE SimSamples
    BY <1>1, MinMaxTwo
  <2>2. Samples = Min({req.sampleCap, SimSamples})
    BY <1>2 DEF Samples
  <2> QED
    BY <1>1, <1>2, <2>1, <2>2
<1>3. CASE ~ (req.sampleCap > 0)
  BY <1>1, <1>3 DEF Samples
<1> QED
  BY <1>2, <1>3

\* A sum over one sample more.
LEMMA SumOneMore ==
    ASSUME NEW n \in Nat, NEW f, NEW g, \A s \in 1 .. n + 1 : g[s] \in Int,
           \A s \in 1 .. n : f[s] = g[s]
    PROVE  SumFunctionOnSet(g, 1 .. n + 1) = SumFunctionOnSet(f, 1 .. n) + g[n + 1]
<1> DEFINE S == 1 .. n + 1
           T == 1 .. n
           y == n + 1
<1>1. y \in S /\ S \ {y} = T /\ \A s \in T : s \in S
  OBVIOUS
<1>2. IsFiniteSet(S) /\ IsFiniteSet(T)
  <2>1. 1 \in Int /\ n + 1 \in Int /\ n \in Int
    OBVIOUS
  <2> QED
    BY <2>1, FS_Interval
<1>3. \A s \in S : g[s] \in Int
  OBVIOUS
<1>4. \A s \in T : f[s] = g[s]
  OBVIOUS
<1> HIDE DEF S, T, y
<1>5. /\ SumFunctionOnSet(g, S) = g[y] + SumFunctionOnSet(g, S \ {y})
      /\ SumFunctionOnSet(g, S \ {y}) \in Int
  BY <1>1, <1>2, <1>3, SumRemove
<1>6. SumFunctionOnSet(f, T) = SumFunctionOnSet(g, T)
  <2>1. \A s \in T : g[s] \in Int /\ f[s] = g[s]
    BY <1>1, <1>3, <1>4
  <2> QED
    BY <1>2, <2>1, SumEqual
<1>7. SumFunctionOnSet(g, S) = SumFunctionOnSet(f, T) + g[y]
  <2>1. g[y] \in Int
    BY <1>1, <1>3
  <2>2. SumFunctionOnSet(g, S) = g[y] + SumFunctionOnSet(f, T) /\ SumFunctionOnSet(f, T) \in Int
    BY <1>1, <1>5, <1>6
  <2> DEFINE a == g[y]
             b == SumFunctionOnSet(f, T)
  <2>3. a + b = b + a
    <3>1. a \in Int /\ b \in Int
      BY <2>1, <2>2
    <3> HIDE DEF a, b
    <3> QED
      BY <3>1
  <2> QED
    BY <2>2, <2>3
<1> QED
  BY <1>7 DEF S, T, y

\* What the first n samples price a move at.
Prices(c, n) == [s \in 1 .. n |-> Price(c, s)]
\* Their squares.
Squares(c, n) == [s \in 1 .. n |-> Price(c, s) * Price(c, s)]
\* The sum of the prices.
PriceSum(c, n) == SumFunctionOnSet(Prices(c, n), 1 .. n)
\* The sum of their squares.
SquareSum(c, n) == SumFunctionOnSet(Squares(c, n), 1 .. n)

\* A sample more adds its price.
LEMMA OneMorePrice ==
    ASSUME RequestReady, NEW c \in LegalMoves, NEW n \in Nat, n + 1 <= SimSamples
    PROVE  /\ PriceSum(c, n + 1) = PriceSum(c, n) + Price(c, n + 1)
           /\ SquareSum(c, n + 1) = SquareSum(c, n) + Price(c, n + 1) * Price(c, n + 1)
<1>1. SimSamples \in Nat
  BY RequestAssumption
<1>2. \A s \in 1 .. n + 1 : Price(c, s) \in Int
  BY <1>1, PriceType
<1>3. \A s \in 1 .. n + 1 : Price(c, s) * Price(c, s) \in Int
  <2> SUFFICES ASSUME NEW s \in 1 .. n + 1 PROVE Price(c, s) * Price(c, s) \in Int
    OBVIOUS
  <2>1. Price(c, s) \in Int
    BY <1>2
  <2> QED
    BY <2>1, ProductTypes
<1>4. n + 1 \in 1 .. n + 1 /\ \A s \in 1 .. n : s \in 1 .. n + 1
  OBVIOUS
<1> DEFINE f == Prices(c, n)
           g == Prices(c, n + 1)
           f2 == Squares(c, n)
           g2 == Squares(c, n + 1)
<1>5. /\ \A s \in 1 .. n + 1 : g[s] = Price(c, s) /\ g[s] \in Int
      /\ \A s \in 1 .. n : f[s] = g[s]
  BY <1>2, <1>4 DEF Prices
<1>6. /\ \A s \in 1 .. n + 1 : g2[s] = Price(c, s) * Price(c, s) /\ g2[s] \in Int
      /\ \A s \in 1 .. n : f2[s] = g2[s]
  <2>1. \A s \in 1 .. n + 1 : g2[s] = Price(c, s) * Price(c, s)
    BY DEF Squares
  <2>2. \A s \in 1 .. n : f2[s] = Price(c, s) * Price(c, s)
    BY DEF Squares
  <2> HIDE DEF f2, g2
  <2> QED
    BY <1>3, <1>4, <2>1, <2>2
<1> HIDE DEF f, g, f2, g2
<1>7. SumFunctionOnSet(g, 1 .. n + 1) = SumFunctionOnSet(f, 1 .. n) + g[n + 1]
  BY <1>5, SumOneMore
<1>8. SumFunctionOnSet(g2, 1 .. n + 1) = SumFunctionOnSet(f2, 1 .. n) + g2[n + 1]
  BY <1>6, SumOneMore
<1>9. g[n + 1] = Price(c, n + 1) /\ g2[n + 1] = Price(c, n + 1) * Price(c, n + 1)
  BY <1>4, <1>5, <1>6
<1>10. /\ PriceSum(c, n + 1) = SumFunctionOnSet(g, 1 .. n + 1) /\ PriceSum(c, n) = SumFunctionOnSet(f, 1 .. n)
       /\ SquareSum(c, n + 1) = SumFunctionOnSet(g2, 1 .. n + 1) /\ SquareSum(c, n) = SumFunctionOnSet(f2, 1 .. n)
  BY DEF PriceSum, SquareSum, f, g, f2, g2
<1> QED
  BY <1>7, <1>8, <1>9, <1>10

\* The sums of the samples done are what they are said to be.
SumsRight(s) ==
    \A i \in DOMAIN candidates :
      s.accum[i] = PriceSum(candidates[i], s.done) /\ s.accumSq[i] = SquareSum(candidates[i], s.done)

\* What SamplesDone says, with the sums named.
LEMMA SamplesSay ==
    SamplesDone <=> (stage \in {"sample", "rank"} =>
                       /\ sim.done \in 0 .. Samples
                       /\ stage = "sample" => sim.done < Samples
                       /\ stage = "rank" => sim.done >= Min({3, Samples})
                       /\ DOMAIN sim = {"done", "accum", "accumSq", "parts"}
                       /\ SumsRight(sim))
BY DEF SamplesDone, SumsRight, PriceSum, SquareSum, Prices, Squares

\* A row adds one sample to every sum.
LEMMA RowAdds ==
    ASSUME RequestReady, \A i \in DOMAIN candidates : candidates[i] \in LegalMoves,
           SumsRight(sim), sim.done \in Nat, sim.done + 1 <= SimSamples
    PROVE  SumsRight(CommitRow(sim.done + 1)) /\ CommitRow(sim.done + 1).done = sim.done + 1
<1> DEFINE n == sim.done
           row == CommitRow(n + 1)
<1>1. row.done = n + 1
  BY DEF CommitRow
<1>2. ASSUME NEW i \in DOMAIN candidates
      PROVE  /\ row.accum[i] = PriceSum(candidates[i], n + 1)
             /\ row.accumSq[i] = SquareSum(candidates[i], n + 1)
  <2>1. /\ row.accum[i] = sim.accum[i] + Price(candidates[i], n + 1)
        /\ row.accumSq[i] = sim.accumSq[i] + Price(candidates[i], n + 1) * Price(candidates[i], n + 1)
    BY DEF CommitRow
  <2>2. sim.accum[i] = PriceSum(candidates[i], n) /\ sim.accumSq[i] = SquareSum(candidates[i], n)
    BY DEF SumsRight
  <2>3. candidates[i] \in LegalMoves
    OBVIOUS
  <2> HIDE DEF row
  <2> QED
    BY <2>1, <2>2, <2>3, OneMorePrice
<1> HIDE DEF row
<1>3. SumsRight(row)
  BY <1>1, <1>2 DEF SumsRight
<1> QED
  BY <1>1, <1>3 DEF row

\* As long as the request is the same, so are its sums.
LEMMA SameSums ==
    ASSUME req' = req
    PROVE  /\ Samples' = Samples
           /\ \A c, n : PriceSum(c, n)' = PriceSum(c, n) /\ SquareSum(c, n)' = SquareSum(c, n)
BY DEF Samples, Min, PriceSum, SquareSum, Prices, Squares, Price

\* And so is what is said of the sums of the comparison.
LEMMA SumsKept ==
    ASSUME req' = req, candidates' = candidates
    PROVE  SumsRight(sim)' <=> SumsRight(sim')
BY DEF SumsRight, PriceSum, SquareSum, Prices, Squares, Price

\* Every step keeps the sums right.
LEMMA SamplesStep ==
    ASSUME RequestReady, Estimates, SamplesDone, [Next \/ Answered]_requestVars
    PROVE  SamplesDone'
<1>1. /\ Samples \in Nat /\ Samples >= 1 /\ Samples <= SimSamples /\ SimSamples \in Nat
      /\ Min({3, Samples}) = IF 3 <= Samples THEN 3 ELSE Samples
  BY SamplesAre, MinMaxTwo
<1>2. SamplesDone' <=> (stage' \in {"sample", "rank"} =>
                       /\ sim'.done \in 0 .. Samples'
                       /\ stage' = "sample" => sim'.done < Samples'
                       /\ stage' = "rank" => sim'.done >= Min({3, Samples'})
                       /\ DOMAIN sim' = {"done", "accum", "accumSq", "parts"}
                       /\ SumsRight(sim)')
  BY DEF SamplesDone, SumsRight, PriceSum, SquareSum, Prices, Squares, Min
<1>3. CASE AdmitCandidates
  <2>1. /\ stage' = "sample" /\ req' = req
        /\ sim' = [done |-> 0, accum |-> [i \in DOMAIN candidates' |-> 0],
                   accumSq |-> [i \in DOMAIN candidates' |-> 0], parts |-> [i \in DOMAIN candidates' |-> 0]]
    BY <1>3 DEF AdmitCandidates
  <2>2. sim'.done = 0 /\ DOMAIN sim' = {"done", "accum", "accumSq", "parts"}
        /\ \A i \in DOMAIN candidates' : sim'.accum[i] = 0 /\ sim'.accumSq[i] = 0
    BY <2>1
  <2>3. SumsRight(sim)'
    <3>1. 1 .. 0 = {} /\ \A f : SumFunctionOnSet(f, {}) = 0
      BY SumEmpty
    <3> QED
      BY <2>2, <3>1 DEF SumsRight, PriceSum, SquareSum, Prices, Squares, Price
  <2>4. Samples' = Samples
    BY <2>1, SameSums
  <2> QED
    BY <1>1, <1>2, <2>1, <2>2, <2>3, <2>4
<1>4. CASE SampleRow
  <2>1. /\ stage = "sample" /\ req' = req /\ candidates' = candidates /\ sim' = CommitRow(sim.done + 1)
        /\ stage' \in {IF sim'.done = Samples THEN "rank" ELSE "sample"}
                         \cup IF ClockMayStop(sim'.done) THEN {"rank"} ELSE {}
    BY <1>4 DEF SampleRow
  <2>2. sim.done \in 0 .. Samples /\ sim.done < Samples /\ SumsRight(sim)
    BY <2>1, SamplesSay
  <2>3. \A i \in DOMAIN candidates : candidates[i] \in LegalMoves
    BY <2>1, CandidatesAre DEF Estimates
  <2>4. sim.done \in Nat /\ sim.done + 1 <= SimSamples /\ sim.done + 1 <= Samples
    BY <1>1, <2>2
  <2>5. SumsRight(sim') /\ sim'.done = sim.done + 1
    BY <2>1, <2>2, <2>3, <2>4, RowAdds
  <2>6. SumsRight(sim)' /\ Samples' = Samples
    BY <2>1, <2>5, SumsKept, SameSums
  <2>7. DOMAIN sim' = {"done", "accum", "accumSq", "parts"}
    BY <2>1 DEF CommitRow
  <2>8. stage' = "rank" => sim'.done = Samples \/ sim'.done >= 3
    BY <2>1 DEF ClockMayStop
  <2>9. stage' = "sample" => sim'.done # Samples
    BY <2>1
  <2> DEFINE d == sim'.done
  <2>10. d \in 0 .. Samples /\ (stage' = "sample" => d < Samples) /\ (stage' = "rank" => d >= Min({3, Samples}))
    <3>1. d \in Nat /\ d <= Samples
      BY <2>4, <2>5
    <3> HIDE DEF d
    <3> QED
      BY <1>1, <2>8, <2>9, <3>1 DEF d
  <2> QED
    BY <1>2, <2>6, <2>7, <2>10
<1>5. CASE ClockCutsRow
  <2>1. /\ stage = "sample" /\ stage' = "rank" /\ req' = req /\ candidates' = candidates
        /\ ClockMayStop(sim.done) /\ \E upto : sim' = CutRow(sim.done + 1, upto)
    BY <1>5 DEF ClockCutsRow
  <2>2. /\ sim.done \in 0 .. Samples /\ sim.done < Samples /\ SumsRight(sim)
        /\ DOMAIN sim = {"done", "accum", "accumSq", "parts"}
    BY <2>1, SamplesSay
  <2>3. PICK x : sim' = [sim EXCEPT !.parts = x]
    BY <2>1 DEF CutRow
  <2>4. DOMAIN sim' = DOMAIN sim /\ sim'.done = sim.done /\ sim'.accum = sim.accum /\ sim'.accumSq = sim.accumSq
    BY <2>2, <2>3
  <2>5. SumsRight(sim')
    BY <2>2, <2>4 DEF SumsRight
  <2>6. SumsRight(sim)' /\ Samples' = Samples
    BY <2>1, <2>5, SumsKept, SameSums
  <2>7. sim.done >= 3
    BY <2>1 DEF ClockMayStop
  <2> QED
    BY <1>1, <1>2, <2>1, <2>2, <2>4, <2>6, <2>7
<1>6. CASE UNCHANGED requestVars
  <2>1. UNCHANGED <<req, stage, candidates, sim>>
    BY <1>6 DEF requestVars, proofVars
  <2>2. Samples' = Samples
    BY <2>1, SameSums
  <2>3. SumsRight(sim) => SumsRight(sim)'
    BY <2>1 DEF SumsRight, PriceSum, SquareSum, Prices, Squares, Price
  <2> QED
    BY <1>2, <2>1, <2>2, <2>3, SamplesSay
<1>7. CASE Next /\ ~ AdmitCandidates /\ ~ SampleRow /\ ~ ClockCutsRow
  <2>1. stage' \notin {"sample", "rank"}
    BY <1>7 DEF Next, ParseRequest, GenerateRoot, ProofNext, BeginProof, ProveUnit, Judge, ReachUnit, Settle,
                UseProof, SettleAtOnce, RankCandidates, PlayGreedy
  <2> QED
    BY <1>2, <2>1
<1> QED
  BY <1>3, <1>4, <1>5, <1>6, <1>7 DEF Answered

\* What the comparison sums up is what its samples say.
THEOREM SamplesGoRight == Spec => []SamplesDone
<1>1. Init => SamplesDone
  BY DEF Init, SamplesDone
<1>2. RequestKnown /\ Estimates /\ SamplesDone /\ [Next \/ Answered]_requestVars => SamplesDone'
  BY SamplesStep DEF RequestKnown
<1> QED
  BY <1>1, <1>2, RequestAlwaysKnown, EstimatesGoRight, PTL DEF Spec

\* The candidates are compared on the same samples.
THEOREM SamplesAreCommon == Spec => []CommonSamples
<1>1. SamplesDone => CommonSamples
  BY DEF SamplesDone, CommonSamples
<1> QED
  BY <1>1, SamplesGoRight, PTL

-----------------------------------------------------------------------------
(* Reports                                                                 *)

\* A report has room for a row.
LEMMA TopNIs ==
    ASSUME RequestReady
    PROVE  TopN \in Nat /\ TopN >= 1
<1>1. req.topN \in Int
  BY DEF RequestReady, RequestShape
<1> DEFINE t == req.topN
           x == Max({1, t})
<1>2. x \in Int /\ x >= 1
  <2>1. t \in Int /\ 1 \in Int
    BY <1>1
  <2> HIDE DEF t
  <2>2. Max({1, t}) = IF 1 <= t THEN t ELSE 1
    BY <2>1, MinMaxTwo
  <2> QED
    BY <2>1, <2>2
<1> HIDE DEF x
<1>4. Min({64, x}) = IF 64 <= x THEN 64 ELSE x
  BY <1>2, MinMaxTwo
<1>5. TopN = Min({64, x})
  BY DEF TopN, x
<1> QED
  BY <1>2, <1>4, <1>5

\* The rows of a report: each has a value and a place of its own.
RowsFit(rows) ==
    /\ IsFiniteSet(rows)
    /\ \A r \in rows : r.value \in Int /\ r.order \in Int /\ r.chosen \in BOOLEAN
    /\ \A r, s \in rows : r.order = s.order => r = s

\* The rows of a report are in a strict order, which is the one they are written in.
LEMMA RowsOrdered ==
    ASSUME NEW rows, RowsFit(rows)
    PROVE  LET R == {p \in rows \X rows : RowBefore(p[1], p[2])} IN
           /\ StrictTotalOrder(rows, R)
           /\ Sorted(rows, RowBefore) = OrderedBy(rows, R)
<1> DEFINE R == {p \in rows \X rows : RowBefore(p[1], p[2])}
<1>1. \A a, b \in rows : <<a, b>> \in R <=> RowBefore(a, b)
  OBVIOUS
<1>2. \A x \in rows : {y \in rows : RowBefore(y, x)} = Below(x, rows, R)
  BY DEF Below
<1> HIDE DEF R
<1>3. \A r \in rows : r.value \in Int /\ r.order \in Int /\ (r.chosen = TRUE \/ r.chosen = FALSE)
  BY DEF RowsFit
<1>4. \A a, b \in rows :
        RowBefore(a, b) <=> \/ a.value > b.value
                            \/ (a.value = b.value /\ a.chosen = TRUE /\ b.chosen = FALSE)
                            \/ (a.value = b.value /\ a.chosen = b.chosen /\ a.order < b.order)
  BY <1>3 DEF RowBefore
<1>5. \A a, b \in rows : a.order = b.order => a = b
  BY DEF RowsFit
<1>6. StrictTotalOrder(rows, R)
  <2>1. \A x \in rows : <<x, x>> \notin R
    BY <1>1, <1>3, <1>4
  <2>2. \A x, y, z \in rows : <<x, y>> \in R /\ <<y, z>> \in R => <<x, z>> \in R
    <3> SUFFICES ASSUME NEW x \in rows, NEW y \in rows, NEW z \in rows, <<x, y>> \in R, <<y, z>> \in R
                 PROVE  <<x, z>> \in R
      OBVIOUS
    <3>1. RowBefore(x, y) /\ RowBefore(y, z)
      BY <1>1
    <3>2. RowBefore(x, z)
      BY <1>3, <1>4, <3>1
    <3> QED
      BY <1>1, <3>2
  <2>3. ASSUME NEW x \in rows, NEW y \in rows PROVE x = y \/ <<x, y>> \in R \/ <<y, x>> \in R
    <3>1. x.order = y.order \/ RowBefore(x, y) \/ RowBefore(y, x)
      <4>1. /\ x.value \in Int /\ y.value \in Int /\ x.order \in Int /\ y.order \in Int
            /\ (x.chosen = TRUE \/ x.chosen = FALSE) /\ (y.chosen = TRUE \/ y.chosen = FALSE)
        BY <1>3
      <4>2. x.value > y.value => RowBefore(x, y)
        BY <1>4
      <4>3. y.value > x.value => RowBefore(y, x)
        BY <1>4
      <4>4. CASE x.value = y.value
        <5>1. x.chosen = TRUE /\ y.chosen = FALSE => RowBefore(x, y)
          BY <1>4, <4>4
        <5>2. y.chosen = TRUE /\ x.chosen = FALSE => RowBefore(y, x)
          BY <1>4, <4>4
        <5>3. x.chosen = y.chosen /\ x.order < y.order => RowBefore(x, y)
          BY <1>4, <4>4
        <5>4. x.chosen = y.chosen /\ y.order < x.order => RowBefore(y, x)
          BY <1>4, <4>4
        <5>5. x.order = y.order \/ x.order < y.order \/ y.order < x.order
          BY <4>1
        <5>6. \/ x.chosen = y.chosen \/ (x.chosen = TRUE /\ y.chosen = FALSE)
              \/ (y.chosen = TRUE /\ x.chosen = FALSE)
          BY <4>1
        <5> QED
          BY <5>1, <5>2, <5>3, <5>4, <5>5, <5>6
      <4>5. x.value > y.value \/ y.value > x.value \/ x.value = y.value
        BY <4>1
      <4> QED
        BY <4>2, <4>3, <4>4, <4>5
    <3> QED
      BY <1>1, <1>5, <3>1
  <2> QED
    BY <2>1, <2>2, <2>3 DEF StrictTotalOrder
<1>7. Sorted(rows, RowBefore) = OrderedBy(rows, R)
  <2> DEFINE A == {<<1 + Cardinality({y \in rows : RowBefore(y, x)}), x>> : x \in rows}
             n == Cardinality(rows)
  <2>1. Sorted(rows, RowBefore) = SortedFrom(A, n)
    BY DEF Sorted, SortedFrom
  <2>2. OrderedBy(rows, R) = SortedFrom(Places(rows, R), n)
    BY OrderedFrom
  <2>3. A = Places(rows, R)
    BY <1>2 DEF Places
  <2> HIDE DEF A, n
  <2> QED
    BY <2>1, <2>2, <2>3
<1> QED
  BY <1>6, <1>7 DEF R

\* The row that is chosen and worth most leads the report.
LEMMA LeadingRow ==
    ASSUME RequestReady, NEW rows, RowsFit(rows),
           NEW lead \in rows, lead.chosen, \A r \in rows : r.value <= lead.value,
           \A r \in rows : r.chosen => r.move = lead.move
    PROVE  SerializeRows(rows)[1].move = lead.move
<1> DEFINE R == {p \in rows \X rows : RowBefore(p[1], p[2])}
           s == Sorted(rows, RowBefore)
<1>1. StrictTotalOrder(rows, R) /\ s = OrderedBy(rows, R) /\ IsFiniteSet(rows)
  BY RowsOrdered DEF RowsFit
<1>2. \A a, b \in rows : <<a, b>> \in R => RowBefore(a, b)
  OBVIOUS
<1> HIDE DEF R, s
<1>3. /\ s \in Seq(rows) /\ Range(s) = rows
      /\ \A i, j \in DOMAIN s : i < j => <<s[i], s[j]>> \in R
  BY <1>1, OrderedByShape
<1>4. Len(s) \in Nat /\ DOMAIN s = 1 .. Len(s)
  BY <1>3
<1>5. PICK k \in 1 .. Len(s) : lead = s[k]
  BY <1>3, <1>4 DEF Range
<1>6. 1 \in 1 .. Len(s) /\ s[1] \in rows /\ Len(s) >= 1
  BY <1>3, <1>4, <1>5
<1>7. s[1].move = lead.move
  <2>1. CASE k = 1
    BY <1>5, <2>1
  <2>2. CASE k # 1
    <3>1. RowBefore(s[1], lead)
      <4>1. 1 < k
        BY <1>4, <2>2
      <4>2. <<s[1], s[k]>> \in R
        BY <1>3, <1>4, <1>6, <4>1
      <4> QED
        BY <1>2, <1>5, <1>6, <4>2
    <3> DEFINE r == s[1]
    <3>2. r.value \in Int /\ lead.value \in Int /\ r.value <= lead.value /\ r.chosen \in BOOLEAN /\ lead.chosen \in BOOLEAN
      BY <1>6 DEF RowsFit
    <3>3. r.chosen
      <4>1. ~ (r.value > lead.value)
        <5> HIDE DEF r
        <5> QED
          BY <3>2
      <4>2. \/ (r.chosen /\ ~ lead.chosen)
            \/ r.chosen = lead.chosen
        BY <3>1, <4>1 DEF RowBefore
      <4>3. CASE r.chosen /\ ~ lead.chosen
        BY <4>3
      <4>4. CASE r.chosen = lead.chosen
        BY <4>4
      <4> QED
        BY <4>2, <4>3, <4>4
    <3> QED
      BY <1>6, <3>3
  <2> QED
    BY <2>1, <2>2
<1>8. SerializeRows(rows)[1] = s[1]
  <2> DEFINE n == Min({TopN, Len(s)})
  <2>1. n = IF TopN <= Len(s) THEN TopN ELSE Len(s)
    BY <1>4, TopNIs, MinMaxTwo
  <2>2. n \in Nat /\ n >= 1 /\ n <= Len(s)
    BY <1>4, <1>6, <2>1, TopNIs
  <2>3. SerializeRows(rows) = SubSeq(s, 1, n)
    BY DEF SerializeRows, s
  <2> HIDE DEF n
  <2>4. SubSeq(s, 1, n)[1] = s[1]
    BY <1>3, <2>2
  <2> QED
    BY <2>3, <2>4
<1> QED
  BY <1>7, <1>8

\* No rows, no report.
LEMMA NoRows ==
    ASSUME RequestReady
    PROVE  SerializeRows({}) = <<>>
<1> DEFINE s == Sorted({}, RowBefore)
<1>1. RowsFit({}) /\ IsFiniteSet({})
  BY FS_EmptySet DEF RowsFit
<1> DEFINE R == {p \in {} \X {} : RowBefore(p[1], p[2])}
<1>2. StrictTotalOrder({}, R) /\ s = OrderedBy({}, R)
  BY <1>1, RowsOrdered
<1> HIDE DEF s, R
<1>3. s \in Seq({}) /\ Len(s) = Cardinality({})
  BY <1>1, <1>2, OrderedByShape
<1>4. s = <<>> /\ Len(s) = 0
  BY <1>3, FS_EmptySet
<1> DEFINE n == Min({TopN, Len(s)})
<1>5. n = 0
  <2>1. n = IF TopN <= Len(s) THEN TopN ELSE Len(s)
    BY <1>4, TopNIs, MinMaxTwo
  <2> QED
    BY <1>4, <2>1, TopNIs
<1>6. SerializeRows({}) = SubSeq(s, 1, n)
  BY DEF SerializeRows, s
<1> HIDE DEF n
<1> QED
  BY <1>4, <1>5, <1>6

\* A report with a row for each index.
RowsOver(f, n) == {f[i] : i \in 1 .. n}
\* The rows f, of which only that of the move m is chosen, and none is above it in value.
RowsLead(f, n, best, m) ==
    /\ \A i \in 1 .. n : /\ f[i].value \in Int /\ f[i].order = i /\ f[i].chosen \in BOOLEAN
                         /\ f[i].value <= f[best].value
                         /\ f[i].chosen => f[i].move = m
    /\ f[best].chosen

\* A report over such rows begins with the row of m.
LEMMA ReportOver ==
    ASSUME RequestReady, NEW n \in Nat, NEW f, NEW best \in 1 .. n, NEW m, RowsLead(f, n, best, m)
    PROVE  SerializeRows(RowsOver(f, n))[1].move = m
<1> USE DEF RowsLead, RowsOver
<1> DEFINE rows == {f[i] : i \in 1 .. n}
           lead == f[best]
<1>1. IsFiniteSet(rows)
  <2>1. 1 \in Int /\ n \in Int
    OBVIOUS
  <2>2. IsFiniteSet(1 .. n)
    BY <2>1, FS_Interval
  <2> DEFINE g == [i \in 1 .. n |-> f[i]]
             I == 1 .. n
  <2>3. g \in Surjection(I, rows)
    BY DEF Surjection
  <2> HIDE DEF g, I, rows
  <2> QED
    BY <2>2, <2>3, FS_Surjection DEF I
<1>2. \A r \in rows : \E i \in 1 .. n : r = f[i]
  OBVIOUS
<1>3. RowsFit(rows)
  <2>1. ASSUME NEW r \in rows PROVE r.value \in Int /\ r.order \in Int /\ r.chosen \in BOOLEAN
    BY <1>2
  <2>2. ASSUME NEW r \in rows, NEW s \in rows, r.order = s.order PROVE r = s
    BY <1>2, <2>2
  <2> HIDE DEF rows
  <2> QED
    BY <1>1, <2>1, <2>2 DEF RowsFit
<1>4. lead \in rows /\ lead.chosen /\ lead.move = m
  OBVIOUS
<1>5. \A r \in rows : r.value <= lead.value
  BY <1>2
<1>6. \A r \in rows : r.chosen => r.move = lead.move
  BY <1>2, <1>4
<1> HIDE DEF rows, lead
<1>7. SerializeRows(rows)[1].move = lead.move
  BY <1>3, <1>4, <1>5, <1>6, LeadingRow
<1> QED
  BY <1>4, <1>7 DEF rows, RowsOver

-----------------------------------------------------------------------------
(* The answer of a proof                                                   *)

\* The three kinds of a move are told apart.
LEMMA MoveShapes ==
    /\ \A m : PlaceMove(m).type = "place" /\ PlaceMove(m).play = m /\ PlaceMove(m) # PassMove
    /\ PassMove.type = "pass"
    /\ \A c \in LegalMoves : c.type = "place" =>
         c.play \in Playable(Root(NoTiles)) /\ c = PlaceMove(c.play) /\ c # PassMove
    /\ RequestReady => \A c \in DroppedMoves : c.type = "exchange" /\ c # PassMove
<1>1. \A m : PlaceMove(m).type = "place" /\ PlaceMove(m).play = m /\ PlaceMove(m) # PassMove
  BY DEF PlaceMove, PassMove
<1>2. PassMove.type = "pass"
  BY DEF PassMove
<1>3. RequestReady => \A c \in DroppedMoves : c.type = "exchange" /\ c # PassMove
  BY <1>2, ExchangesAre
<1>4. ASSUME NEW c \in LegalMoves, c.type = "place"
      PROVE  c.play \in Playable(Root(NoTiles)) /\ c = PlaceMove(c.play) /\ c # PassMove
  <2>1. CASE c \in {PlaceMove(m) : m \in Playable(Root(NoTiles))}
    BY <1>1, <2>1
  <2>2. CASE c \in Range(EnumerateExchanges)
    <3>1. PICK i \in DOMAIN EnumerateExchanges : c = EnumerateExchanges[i]
      BY <2>2 DEF Range
    <3>2. c.type = "exchange"
      <4>1. CASE req.exchangeAllowed /\ Total(req.rack) > 0
        BY <3>1, <4>1 DEF EnumerateExchanges, ExchangeMove
      <4>2. CASE ~ (req.exchangeAllowed /\ Total(req.rack) > 0)
        BY <3>1, <4>2 DEF EnumerateExchanges
      <4> QED
        BY <4>1, <4>2
    <3> QED
      BY <1>4, <3>2
  <2>3. CASE c = PassMove
    BY <1>2, <1>4, <2>3
  <2> QED
    BY <2>1, <2>2, <2>3 DEF LegalMoves
<1> QED
  BY <1>1, <1>2, <1>3, <1>4

\* An option, as a move: legal, and the option again.
OptionOf(c) == IF c = PassMove THEN Pass ELSE c.play

\* What the proof plays is a legal move, and reads back as the option it proved.
LEMMA MoveOfOption ==
    ASSUME RequestReady, NEW m \in TrueOptions
    PROVE  MoveOf(m) \in LegalMoves /\ OptionOf(MoveOf(m)) = m
<1>1. Pass \notin Plays /\ Playable(Root(NoTiles)) \subseteq Plays
  BY TileGameAssumption, RootPlayable
<1>2. CASE m = Pass
  BY <1>2 DEF MoveOf, OptionOf, LegalMoves
<1>3. CASE m # Pass
  <2>1. m \in Playable(Root(NoTiles))
    BY <1>3 DEF TrueOptions
  <2>2. MoveOf(m) = PlaceMove(m)
    BY <1>3 DEF MoveOf
  <2> QED
    BY <2>1, <2>2, MoveShapes DEF OptionOf, LegalMoves
<1> QED
  BY <1>2, <1>3

\* The report of a proof leads with its move, unless that was chosen for what
\* it may reach.
LEMMA EndgameReportLeads ==
    ASSUME RequestKnown, ProofInvariant, stage = "proof_over", result.found,
           result.outcome # "conditional_win"
    PROVE  BuildEndgameReport(result.move)[1].move = MoveOf(result.move)
<1>1. TriesProof /\ Concluded
  BY DEF ProofInvariant, ProofGoesOn, ProofStages
<1>2. /\ guaranteed = Guarantees /\ result.move \in Range(Options) /\ Worlds # <<>>
      /\ OutcomeIs(result) /\ result.outcome \in Outcomes
  BY <1>1 DEF Concluded
<1> DEFINE n == Len(Options)
           best == result.move
<1>3. /\ n \in Nat /\ n >= 1 /\ DOMAIN Options = 1 .. n
      /\ \A i \in 1 .. n : /\ Options[i] \in TrueOptions
                           /\ guaranteed[i] = TrueGuarantee(Options[i]) /\ guaranteed[i] \in Int
  BY <1>1, <1>2, OptionWorths
<1>4. Distinct(Options)
  BY OptionsAre DEF RequestKnown
<1>5. PICK b \in 1 .. n : Options[b] = best
  BY <1>2, <1>3 DEF Range
<1>6. \A m \in TrueOptions : TrueGuarantee(m) <= result.value
  BY <1>2 DEF OutcomeIs, Outcomes
<1>7. result.value = guaranteed[b]
  BY <1>2, <1>3, <1>5 DEF OutcomeIs
<1> DEFINE row(i) == Row(MoveOf(Options[i]), guaranteed[i], Options[i] = best, i)
           f == [i \in 1 .. n |-> row(i)]
<1>8. /\ \A i \in 1 .. n : f[i] = row(i)
      /\ \A i \in 1 .. n : /\ row(i).value = guaranteed[i] /\ row(i).order = i
                           /\ row(i).move = MoveOf(Options[i]) /\ row(i).chosen = (Options[i] = best)
  BY DEF Row
<1>9. BuildEndgameReport(best) = SerializeRows(RowsOver(f, n))
  <2>1. {row(i) : i \in DOMAIN Options} = RowsOver(f, n)
    BY <1>3 DEF RowsOver
  <2>2. BuildEndgameReport(best) = SerializeRows({row(i) : i \in DOMAIN Options})
    BY DEF BuildEndgameReport
  <2> HIDE DEF f, row
  <2> QED
    BY <2>1, <2>2
<1> HIDE DEF n, best, row, f
<1>10. ASSUME NEW i \in 1 .. n
       PROVE  /\ f[i].value \in Int /\ f[i].order = i /\ f[i].chosen \in BOOLEAN
              /\ f[i].value <= f[b].value
              /\ f[i].chosen => f[i].move = MoveOf(best)
  <2>1. f[i].value = guaranteed[i] /\ f[b].value = guaranteed[b] /\ f[i].order = i
        /\ f[i].chosen = (Options[i] = best) /\ f[i].move = MoveOf(Options[i])
    BY <1>8
  <2>2. guaranteed[i] \in Int /\ guaranteed[i] <= guaranteed[b]
    BY <1>3, <1>6, <1>7
  <2>3. (Options[i] = best) \in BOOLEAN
    OBVIOUS
  <2>4. f[i].chosen \in BOOLEAN
    BY <2>1, <2>3
  <2>5. f[i].chosen => f[i].move = MoveOf(best)
    BY <2>1
  <2> QED
    BY <2>1, <2>2, <2>4, <2>5
<1>11. f[b].chosen
  <2>1. f[b].chosen = (Options[b] = best)
    BY <1>8
  <2> QED
    BY <1>5, <2>1
<1>12. RequestReady
  BY DEF RequestKnown
<1> DEFINE m == MoveOf(best)
<1> HIDE DEF m
<1>13. SerializeRows(RowsOver(f, n))[1].move = m
  <2>1. RowsLead(f, n, b, m)
    BY <1>10, <1>11 DEF m, RowsLead
  <2> QED
    BY <1>3, <1>12, <2>1, ReportOver
<1> QED
  BY <1>9, <1>13 DEF best, m

-----------------------------------------------------------------------------
(* The answer of a move that ends the game at once                         *)

\* The best way out is one of the moves that end the game.
LEMMA BestOutIs ==
    ASSUME RequestReady, MovesKnown, Outs # {}
    PROVE  /\ BestOut \in Outs /\ moves[BestOut] \in Playable(Root(NoTiles)) /\ EndsAtOnce(moves[BestOut])
           /\ OutMargin(moves[BestOut]) \in Int
<1> DEFINE n == Len(moves)
           f == [i \in Outs |-> OutMargin(moves[i])]
           top == {i \in Outs : \A j \in Outs : OutMargin(moves[j]) <= OutMargin(moves[i])}
<1>1. n \in Nat /\ \A i \in Outs : i \in 1 .. n /\ moves[i] \in Playable(Root(NoTiles)) /\ EndsAtOnce(moves[i])
  BY MovesAre DEF Outs
<1>2. ASSUME NEW i \in Outs PROVE OutMargin(moves[i]) \in Int
  <2>1. req.scoreOf[moves[i]] \in Int
    BY <1>1, EquityIs
  <2>2. Points(req.unseen) \in Nat
    BY RequestParts, TileCounts
  <2> QED
    BY <2>1, <2>2 DEF OutMargin
<1>3. \A i \in Outs : f[i] \in Int
  BY <1>2
<1>4. IsFiniteSet(Outs)
  <2>1. 1 \in Int /\ n \in Int
    BY <1>1
  <2>2. IsFiniteSet(1 .. n) /\ Outs \subseteq 1 .. n
    BY <1>1, <2>1, FS_Interval
  <2> QED
    BY <2>2, FS_Subset
<1>5. PICK i \in Outs : \A j \in Outs : f[j] <= f[i]
  <2> HIDE DEF f
  <2> QED
    BY <1>3, <1>4, MostExists
<1>6. i \in top
  BY <1>5
<1>7. \A x \in top : x \in Int /\ 1 <= x /\ x <= n
  BY <1>1
<1>8. BestOut = Min(top)
  BY DEF BestOut
<1> HIDE DEF top, n
<1>9. Min(top) \in top
  <2>1. 1 \in Int /\ n \in Int
    BY <1>1
  <2> QED
    BY <1>6, <1>7, <2>1, MinMaxBetween
<1>10. BestOut \in Outs
  BY <1>8, <1>9 DEF top
<1> QED
  BY <1>1, <1>2, <1>10

\* What such a move is worth needs no search.
LEMMA OutIsWorth ==
    ASSUME RequestReady, NEW m \in Playable(Root(NoTiles)), EndsAtOnce(m)
    PROVE  TrueGuarantee(m) = OutMargin(m)
<1>1. /\ Total(req.unseen) = req.oppRackCount + req.bagCount
      /\ Total(Uses[m]) = Total(req.rack) /\ Total(req.unseen) <= RackSize
      /\ Uses[m] = req.rack
  BY EndsAlike DEF EndsAtOnce
<1>2. /\ m \in Plays /\ m # Pass /\ req.rack \in Tiles /\ req.unseen \in Tiles
      /\ req.oppRackCount \in Nat /\ req.bagCount \in Nat /\ RackSize \in Nat
  BY RootPlayable, RequestParts, TileGameAssumption DEF RequestReady, RequestShape
<1> DEFINE x == OutMargin(m)
<1>3. ASSUME NEW bag \in TrueWorlds PROVE TrueValue(m, bag, FALSE) = x
  <2>1. bag \in Tiles /\ Within(bag, req.unseen)
    BY <1>2, SubmultisetsAre DEF TrueWorlds
  <2> DEFINE p == Root(bag)
             q == Placed(p, m)
  <2>2. /\ p \in Positions /\ p.side = 0 /\ p.bag = bag
        /\ Mover(p) = req.rack /\ Other(p) = Minus(req.unseen, bag)
        /\ m \in Playable(p)
    BY <2>1, RootParts, RootPlayable
  <2>3. /\ q \in Positions /\ q.bag = bag /\ q.side = 0
        /\ Other(q) = Minus(req.unseen, bag) /\ Total(Mover(q)) = Total(req.rack) - Total(Uses[m])
    BY <2>2, PlacedEffect
  <2>4. /\ Total(Minus(req.unseen, bag)) = Total(req.unseen) - Total(bag)
        /\ Points(Minus(req.unseen, bag)) = Points(req.unseen) - Points(bag)
        /\ Total(req.unseen) \in Nat /\ Total(bag) \in Nat
        /\ Points(req.unseen) \in Nat /\ Points(bag) \in Nat /\ Total(req.rack) \in Nat
    BY <1>2, <2>1, TileCounts
  <2>5. GoesOut(q)
    BY <1>1, <2>3, <2>4 DEF GoesOut
  <2>6. Points(Other(q)) + Points(q.bag) = Points(req.unseen)
    BY <2>3, <2>4
  <2>7. Signed(p, req.scoreOf[m]) = req.scoreOf[m] /\ \A y : Signed(p, y) = y
    BY <2>2 DEF Signed
  <2> DEFINE v == ValueOf(req.scoreOf, FALSE)
             w == Points(Other(q)) + Points(q.bag)
             s == Signed(p, req.scoreOf[m])
             t == Signed(p, 2 * w)
  <2> HIDE DEF v
  <2>8. WorthOfPlay(v, p, m, req.scoreOf) = s + t
    <3>1. WorthOfPlay(v, p, m, req.scoreOf)
            = s + (IF GoesOut(q) THEN t
                   ELSE Min({v[AfterScore(Refilled(q, d))] : d \in Submultisets(q.bag, DrawsOf(q))}))
      BY DEF WorthOfPlay
    <3> HIDE DEF s, t
    <3> QED
      BY <2>5, <3>1
  <2>9. s = req.scoreOf[m] /\ t = 2 * Points(req.unseen)
    BY <2>6, <2>7
  <2>10. TrueValue(m, bag, FALSE) = WorthOfPlay(v, p, m, req.scoreOf)
    BY <1>2 DEF TrueValue, v
  <2>11. x = req.scoreOf[m] + 2 * Points(req.unseen)
    BY DEF OutMargin
  <2> HIDE DEF s, t, x, p
  <2> QED
    BY <2>8, <2>9, <2>10, <2>11
<1>4. TrueWorlds # {}
  <2>1. req.bagCount <= Total(req.unseen)
    BY <1>1, <1>2
  <2> QED
    BY <1>2, <2>1, DrawsExist DEF TrueWorlds
<1>5. {TrueValue(m, bag, FALSE) : bag \in TrueWorlds} = {x}
  <2> HIDE DEF x
  <2> QED
    BY <1>3, <1>4
<1>6. x \in Int
  <2>1. req.scoreOf[m] \in Int
    BY EquityIs
  <2>2. Points(req.unseen) \in Nat
    BY <1>2, TileCounts
  <2> QED
    BY <2>1, <2>2 DEF OutMargin
<1> HIDE DEF x
<1>7. Min({x}) = x
  <2>1. Min({x, x}) = x
    BY <1>6, MinMaxTwo
  <2>2. {x, x} = {x}
    OBVIOUS
  <2> QED
    BY <2>1, <2>2
<1> QED
  BY <1>5, <1>7 DEF TrueGuarantee, x

-----------------------------------------------------------------------------
(* The answer of the comparison                                            *)

\* The sums are whole numbers.
LEMMA SumsType ==
    ASSUME RequestReady, NEW c \in LegalMoves, NEW n \in Nat, n <= SimSamples
    PROVE  PriceSum(c, n) \in Int /\ SquareSum(c, n) \in Int
<1> DEFINE S == 1 .. n
           f == Prices(c, n)
           g == Squares(c, n)
<1>1. SimSamples \in Nat /\ \A s \in S : s \in 1 .. SimSamples
  BY RequestAssumption
<1>2. \A s \in S : f[s] = Price(c, s) /\ g[s] = Price(c, s) * Price(c, s)
  BY DEF Prices, Squares
<1>3. ASSUME NEW s \in S PROVE Price(c, s) \in Int /\ Price(c, s) * Price(c, s) \in Int
  <2>1. Price(c, s) \in Int
    BY <1>1, PriceType
  <2> QED
    BY <2>1, ProductTypes
<1>4. IsFiniteSet(S)
  <2>1. 1 \in Int /\ n \in Int
    OBVIOUS
  <2> QED
    BY <2>1, FS_Interval
<1> HIDE DEF S, f, g
<1>5. \A s \in S : f[s] \in Int /\ g[s] \in Int
  BY <1>2, <1>3
<1>6. SumFunctionOnSet(f, S) \in Int /\ SumFunctionOnSet(g, S) \in Int
  BY <1>4, <1>5, SumByChosen
<1> QED
  BY <1>6 DEF PriceSum, SquareSum, f, g, S

\* So is the root of their spread.
LEMMA RootIsWhole == ASSUME NEW n \in Nat PROVE Root2(n) \in Nat
<1> DEFINE S == {r \in 0 .. n : r * r <= n}
<1>1. 0 \in S
  <2>1. 0 * 0 = 0
    BY ProductTypes
  <2> QED
    BY <2>1
<1>2. \A r \in S : r \in Int /\ 0 <= r /\ r <= n
  OBVIOUS
<1>3. Root2(n) = Max(S)
  BY DEF Root2
<1> HIDE DEF S
<1>4. Max(S) \in S
  <2>1. 0 \in Int /\ n \in Int /\ S # {}
    BY <1>1
  <2> QED
    BY <1>2, <2>1, MinMaxBetween
<1> QED
  BY <1>2, <1>3, <1>4

\* What a candidate is worth at the end is a number.
LEMMA RiskValueType ==
    ASSUME RequestReady, Estimates, SamplesDone, stage = "rank", NEW i \in DOMAIN candidates
    PROVE  RiskValue(i) \in Int
<1>1. candidates[i] \in LegalMoves
  BY CandidatesAre DEF Estimates
<1>2. /\ sim.done \in Nat /\ sim.done <= SimSamples
      /\ sim.accum[i] = PriceSum(candidates[i], sim.done)
      /\ sim.accumSq[i] = SquareSum(candidates[i], sim.done)
  BY SamplesSay, SamplesAre DEF SumsRight
<1> DEFINE n == sim.done
           a == sim.accum[i]
           q == sim.accumSq[i]
           x == n * q - a * a
           y == Max({0, x})
           z == Root2(y)
           l == req.lambda
<1>3. n \in Nat /\ a \in Int /\ q \in Int
  BY <1>1, <1>2, SumsType
<1>4. Spread(i) = z /\ RiskValue(i) = a - l * Spread(i)
  BY DEF Spread, RiskValue
<1>5. l \in Int
  BY DEF RequestReady, RequestShape
<1> HIDE DEF n, a, q, l
<1>6. x \in Int
  <2>1. n * q \in Int /\ a * a \in Int
    BY <1>3, ProductTypes
  <2> QED
    BY <2>1
<1> HIDE DEF x
<1>7. y \in Nat
  <2>1. y = IF 0 <= x THEN x ELSE 0
    BY <1>6, MinMaxTwo
  <2> QED
    BY <1>6, <2>1
<1> HIDE DEF y
<1>8. z \in Int
  BY <1>7, RootIsWhole
<1> HIDE DEF z
<1>9. l * z \in Int
  BY <1>5, <1>8, ProductTypes
<1> QED
  BY <1>3, <1>4, <1>9

\* The candidate that is played: the first one of the largest value less its risk.
BestRisk ==
    Min({i \in DOMAIN candidates : \A j \in DOMAIN candidates : RiskValue(j) <= RiskValue(i)})

\* It is legal, does not end the game, and leads its report.
LEMMA ComparisonAnswers ==
    ASSUME RequestReady, Estimates, SamplesDone, stage = "rank"
    PROVE  /\ candidates[BestRisk] \in LegalMoves
           /\ candidates[BestRisk].type = "place" => ~ EndsTheGame(candidates[BestRisk].play)
           /\ BuildCandidateReport(BestRisk)[1].move = candidates[BestRisk]
<1> DEFINE n == Len(candidates)
           v == [i \in 1 .. n |-> RiskValue(i)]
           top == {i \in DOMAIN candidates : \A j \in DOMAIN candidates : RiskValue(j) <= RiskValue(i)}
           b == BestRisk
<1>1. /\ n \in Nat /\ n >= 1 /\ DOMAIN candidates = 1 .. n
      /\ \A i \in 1 .. n : candidates[i] \in LegalMoves
      /\ {candidates[i].play : i \in {j \in DOMAIN candidates : candidates[j].type = "place"}} = Compared
      /\ MovesKnown /\ ranked = Ranked
  BY CandidatesAre DEF Estimates
<1>2. \A i \in 1 .. n : v[i] \in Int /\ v[i] = RiskValue(i)
  BY <1>1, RiskValueType
<1> HIDE DEF n, v
<1>3. PICK i \in 1 .. n : \A j \in 1 .. n : v[j] <= v[i]
  <2>1. 1 \in Int /\ n \in Int /\ 1 \in 1 .. n
    BY <1>1
  <2>2. IsFiniteSet(1 .. n)
    BY <2>1, FS_Interval
  <2> QED
    BY <1>2, <2>1, <2>2, MostExists
<1>4. i \in top
  BY <1>1, <1>2, <1>3
<1>5. \A x \in top : x \in Int /\ 1 <= x /\ x <= n
  BY <1>1
<1>6. b = Min(top)
  BY DEF BestRisk
<1> HIDE DEF top
<1>7. Min(top) \in top
  <2>1. 1 \in Int /\ n \in Int
    BY <1>1
  <2> QED
    BY <1>4, <1>5, <2>1, MinMaxBetween
<1>8. b \in 1 .. n /\ \A j \in 1 .. n : v[j] <= v[b]
  BY <1>1, <1>2, <1>6, <1>7 DEF top
<1> HIDE DEF b
<1>9. candidates[b].type = "place" => ~ EndsTheGame(candidates[b].play)
  <2> SUFFICES ASSUME candidates[b].type = "place" PROVE ~ EndsTheGame(candidates[b].play)
    OBVIOUS
  <2>1. candidates[b].play \in Compared
    BY <1>1, <1>8
  <2> QED
    BY <1>1, <2>1, ComparedOpen
<1> DEFINE row(k) == [Row(candidates[k], RiskValue(k), k = b, k) EXCEPT !.mean = sim.accum[k], !.parts = sim.parts[k]]
           f == [k \in 1 .. n |-> row(k)]
<1>10. \A k \in 1 .. n : /\ f[k].value = RiskValue(k) /\ f[k].order = k
                         /\ f[k].move = candidates[k] /\ f[k].chosen = (k = b)
  BY DEF Row
<1>11. BuildCandidateReport(b) = SerializeRows(RowsOver(f, n))
  <2>1. {row(k) : k \in DOMAIN candidates} = RowsOver(f, n)
    BY <1>1 DEF RowsOver
  <2>2. BuildCandidateReport(b) = SerializeRows({row(k) : k \in DOMAIN candidates})
    BY DEF BuildCandidateReport
  <2> HIDE DEF f, row
  <2> QED
    BY <2>1, <2>2
<1> HIDE DEF f, row
<1>12. RowsLead(f, n, b, candidates[b])
  <2>1. ASSUME NEW k \in 1 .. n
        PROVE  /\ f[k].value \in Int /\ f[k].order = k /\ f[k].chosen \in BOOLEAN
               /\ f[k].value <= f[b].value
               /\ f[k].chosen => f[k].move = candidates[b]
    <3>1. f[k].value = v[k] /\ f[b].value = v[b] /\ v[k] \in Int /\ v[k] <= v[b]
      BY <1>2, <1>8, <1>10
    <3>2. f[k].chosen = (k = b) /\ f[k].order = k /\ f[k].move = candidates[k]
      BY <1>10
    <3>3. (k = b) \in BOOLEAN
      OBVIOUS
    <3>4. f[k].chosen \in BOOLEAN
      BY <3>2, <3>3
    <3>5. f[k].chosen => f[k].move = candidates[b]
      BY <3>2
    <3> QED
      BY <3>1, <3>2, <3>4, <3>5
  <2>2. f[b].chosen
    <3>1. f[b].chosen = (b = b)
      BY <1>8, <1>10
    <3> QED
      BY <3>1
  <2> QED
    BY <2>1, <2>2 DEF RowsLead
<1> DEFINE m == candidates[b]
<1> HIDE DEF m
<1>13. SerializeRows(RowsOver(f, n))[1].move = m
  <2>1. RowsLead(f, n, b, m)
    BY <1>12 DEF m
  <2> QED
    BY <1>1, <1>8, <2>1, ReportOver
<1> QED
  BY <1>1, <1>8, <1>9, <1>11, <1>13 DEF b, m

-----------------------------------------------------------------------------
(* The answer without a comparison                                         *)

\* A function over 1 .. n is a sequence.
LEMMA SeqOver ==
    ASSUME NEW n \in Nat, NEW f, f = [i \in 1 .. n |-> f[i]]
    PROVE  f \in Seq(RowsOver(f, n)) /\ Len(f) = n
<1>1. \A i \in 1 .. n : f[i] \in RowsOver(f, n)
  BY DEF RowsOver
<1>2. f \in [1 .. n -> RowsOver(f, n)]
  BY <1>1
<1>3. f \in Seq(RowsOver(f, n))
  BY <1>2
<1>4. DOMAIN f = 1 .. n /\ DOMAIN f = 1 .. Len(f) /\ Len(f) \in Nat
  BY <1>2, <1>3
<1> QED
  BY <1>3, <1>4

\* One sequence after another, place by place.
LEMMA TwoInARow ==
    ASSUME NEW n \in Nat, NEW k \in Nat, NEW f, f = [i \in 1 .. n |-> f[i]],
           NEW g, g = [i \in 1 .. k |-> g[i]]
    PROVE  /\ DOMAIN (f \o g) = 1 .. n + k
           /\ \A i \in 1 .. n : (f \o g)[i] = f[i]
           /\ \A i \in 1 .. k : (f \o g)[n + i] = g[i]
           /\ \A i \in 1 .. n + k : i \in 1 .. n \/ \E j \in 1 .. k : i = n + j
<1> DEFINE T == RowsOver(f, n) \cup RowsOver(g, k)
<1>1. f \in Seq(RowsOver(f, n)) /\ Len(f) = n /\ g \in Seq(RowsOver(g, k)) /\ Len(g) = k
  BY SeqOver
<1>2. f \in Seq(T) /\ g \in Seq(T)
  <2>1. \A i \in 1 .. n : f[i] \in T
    BY DEF RowsOver
  <2>2. \A i \in 1 .. k : g[i] \in T
    BY DEF RowsOver
  <2> HIDE DEF T
  <2>3. f \in [1 .. n -> T] /\ g \in [1 .. k -> T]
    BY <2>1, <2>2
  <2> QED
    BY <2>3
<1> HIDE DEF T
<1>3. DOMAIN (f \o g) = 1 .. n + k
  BY <1>1, <1>2
<1>4. \A i \in 1 .. n : (f \o g)[i] = f[i]
  BY <1>1, <1>2
<1>5. \A i \in 1 .. k : (f \o g)[n + i] = g[i]
  BY <1>1, <1>2
<1>6. ASSUME NEW i \in 1 .. n + k PROVE i \in 1 .. n \/ \E j \in 1 .. k : i = n + j
  <2>1. CASE i <= n
    BY <2>1
  <2>2. CASE ~ (i <= n)
    <3>1. i - n \in 1 .. k /\ i = n + (i - n)
      BY <2>2
    <3> QED
      BY <3>1
  <2> QED
    BY <2>1, <2>2
<1> QED
  BY <1>3, <1>4, <1>5, <1>6

\* An exchange has a whole equity.
LEMMA ExchangeEquityType ==
    ASSUME RequestReady, NEW c \in DroppedMoves
    PROVE  ExchangeEquity(c) \in Int /\ Len(c.drops) \in Nat
<1>1. c.drops \in Seq(Kinds) /\ Len(c.drops) \in Nat
  BY ExchangesAre
<1>2. DropsCount(c.drops) \in Tiles
  <2>1. CASE Kinds = {}
    <3>1. DropsCount(c.drops) = [k \in Kinds |-> 0]
      BY <2>1 DEF DropsCount
    <3> QED
      BY <3>1 DEF Tiles
  <2>2. CASE Kinds # {}
    BY <1>1, <2>2, DropsCountIs
  <2> QED
    BY <2>1, <2>2
<1>3. Minus(req.rack, DropsCount(c.drops)) \in [Kinds -> Int]
  BY <1>2, RequestParts DEF Minus, Tiles
<1> DEFINE x == LeaveValue(Minus(req.rack, DropsCount(c.drops)))
           n == Len(c.drops)
           a == req.freshTile
           b == req.tempoCost
<1>4. x \in Int /\ n \in Int /\ a \in Int /\ b \in Int
  <2>1. a \in Int /\ b \in Int
    BY DEF RequestReady, RequestShape
  <2>2. x \in Int
    BY <1>3, LeaveValueType
  <2>3. n \in Int
    BY <1>1
  <2> QED
    BY <2>1, <2>2, <2>3
<1>5. ExchangeEquity(c) = x + a * n - b
  BY DEF ExchangeEquity
<1> HIDE DEF x, n, a, b
<1>6. a * n \in Int
  BY <1>4, ProductTypes
<1> QED
  BY <1>1, <1>4, <1>5, <1>6

\* The rows of a report without a comparison.
FrontRows == Min({TopN, Len(ranked)})

\* The rows of a greedy report: the best placements, then the exchanges.
LEMMA GreedyRowsAre ==
    ASSUME RequestReady, MovesKnown, ranked = Ranked
    PROVE  LET E == EnumerateExchanges IN
           /\ FrontRows \in Nat /\ FrontRows <= Len(ranked) /\ (ranked # <<>> => FrontRows >= 1)
           /\ Len(E) \in Nat /\ DOMAIN E = 1 .. Len(E) /\ \A j \in 1 .. Len(E) : E[j] \in DroppedMoves
           /\ DOMAIN GreedyRows = 1 .. FrontRows + Len(E)
           /\ \A i \in 1 .. FrontRows : /\ GreedyRows[i].move = PlaceMove(moves[ranked[i]])
                                    /\ GreedyRows[i].value = StaticEquity(moves[ranked[i]])
           /\ \A j \in 1 .. Len(E) : /\ GreedyRows[FrontRows + j].move = E[j]
                                     /\ GreedyRows[FrontRows + j].value = ExchangeEquity(E[j])
           /\ \A i \in 1 .. FrontRows + Len(E) : i \in 1 .. FrontRows \/ \E j \in 1 .. Len(E) : i = FrontRows + j
<1> DEFINE E == EnumerateExchanges
           n == FrontRows
           k == Len(E)
           f == [i \in 1 .. n |-> [move |-> PlaceMove(moves[ranked[i]]), value |-> StaticEquity(moves[ranked[i]])]]
           g == [i \in DOMAIN E |-> [move |-> E[i], value |-> ExchangeEquity(E[i])]]
<1>1. /\ Len(ranked) \in Nat /\ TopN \in Nat /\ TopN >= 1
      /\ (ranked # <<>> => Len(ranked) >= 1)
  <2>1. ranked \in Seq(DOMAIN moves) /\ Len(ranked) \in Nat
    BY RankedAre
  <2>2. ranked # <<>> => Len(ranked) >= 1
    BY <2>1
  <2> QED
    BY <2>1, <2>2, TopNIs
<1>2. n = IF TopN <= Len(ranked) THEN TopN ELSE Len(ranked)
  BY <1>1, MinMaxTwo DEF FrontRows
<1>3. n \in Nat /\ n <= Len(ranked) /\ (ranked # <<>> => n >= 1)
  BY <1>1, <1>2
<1>4. E \in Seq(DroppedMoves)
  BY ExchangesAre
<1> HIDE DEF n, E
<1>5. k \in Nat /\ DOMAIN E = 1 .. k /\ \A j \in 1 .. k : E[j] \in DroppedMoves
  BY <1>4
<1>6. GreedyRows = f \o g
  BY DEF GreedyRows, FrontRows, E, n
<1>7. /\ \A i \in 1 .. n : /\ f[i].move = PlaceMove(moves[ranked[i]])
                           /\ f[i].value = StaticEquity(moves[ranked[i]])
      /\ \A j \in 1 .. k : g[j].move = E[j] /\ g[j].value = ExchangeEquity(E[j])
  BY <1>5
<1>8. f = [i \in 1 .. n |-> f[i]] /\ g = [i \in 1 .. k |-> g[i]]
  BY <1>5
<1> HIDE DEF f, g, k
<1>9. /\ DOMAIN (f \o g) = 1 .. n + k
      /\ \A i \in 1 .. n : (f \o g)[i] = f[i]
      /\ \A i \in 1 .. k : (f \o g)[n + i] = g[i]
      /\ \A i \in 1 .. n + k : i \in 1 .. n \/ \E j \in 1 .. k : i = n + j
  BY <1>3, <1>5, <1>8, TwoInARow
<1>10. \A i \in 1 .. n : /\ GreedyRows[i].move = PlaceMove(moves[ranked[i]])
                         /\ GreedyRows[i].value = StaticEquity(moves[ranked[i]])
  BY <1>6, <1>7, <1>9
<1>11. \A j \in 1 .. k : /\ GreedyRows[n + j].move = E[j]
                         /\ GreedyRows[n + j].value = ExchangeEquity(E[j])
  BY <1>6, <1>7, <1>9
<1>12. DOMAIN GreedyRows = 1 .. n + k
  BY <1>6, <1>9
<1> QED
  BY <1>3, <1>5, <1>9, <1>10, <1>11, <1>12 DEF n, k, E

\* The exchange that is chosen from is worth most.
Exchanges == Range(EnumerateExchanges)
\* The exchanges of the most equity.
MostWorth == {c \in Exchanges : \A d \in Exchanges : ExchangeEquity(d) <= ExchangeEquity(c)}
\* The smallest one of them.
FirstExchange == CHOOSE c \in MostWorth : \A d \in MostWorth : Len(c.drops) <= Len(d.drops)

\* It is an exchange, of the most equity.
LEMMA FirstExchangeIs ==
    ASSUME RequestReady, Exchanges # {}
    PROVE  /\ FirstExchange \in Exchanges
           /\ \A d \in Exchanges : ExchangeEquity(d) <= ExchangeEquity(FirstExchange)
<1> DEFINE E == EnumerateExchanges
<1>1. E \in Seq(DroppedMoves) /\ Exchanges = RangeOf(E) /\ Exchanges \subseteq DroppedMoves
  BY ExchangesAre, RangeOfSeqIs DEF Exchanges
<1> HIDE DEF E
<1>2. IsFiniteSet(Exchanges)
  <2>1. Len(E) \in Nat
    BY <1>1
  <2>2. 1 \in Int /\ Len(E) \in Int
    BY <2>1
  <2>3. IsFiniteSet(1 .. Len(E))
    BY <2>2, FS_Interval
  <2> DEFINE g == [i \in 1 .. Len(E) |-> E[i]]
             I == 1 .. Len(E)
  <2>4. g \in Surjection(I, RangeOf(E))
    BY DEF Surjection, RangeOf
  <2> HIDE DEF g, I
  <2>5. IsFiniteSet(RangeOf(E))
    BY <2>3, <2>4, FS_Surjection DEF I
  <2> QED
    BY <1>1, <2>5
<1> DEFINE f == [c \in Exchanges |-> ExchangeEquity(c)]
<1>3. \A c \in Exchanges : f[c] \in Int
  BY <1>1, ExchangeEquityType
<1>4. PICK c \in Exchanges : \A d \in Exchanges : f[d] <= f[c]
  <2> HIDE DEF f
  <2> QED
    BY <1>2, <1>3, MostExists
<1>5. c \in MostWorth /\ MostWorth \subseteq Exchanges
  BY <1>4 DEF MostWorth
<1> DEFINE h == [x \in MostWorth |-> -Len(x.drops)]
<1>6. \A x \in MostWorth : Len(x.drops) \in Nat
  BY <1>1, <1>5, ExchangeEquityType
<1>7. \A x \in MostWorth : h[x] = -Len(x.drops) /\ h[x] \in Int
  BY <1>6
<1>8. IsFiniteSet(MostWorth)
  BY <1>2, <1>5, FS_Subset
<1> HIDE DEF h
<1>9. PICK x \in MostWorth : \A y \in MostWorth : h[y] <= h[x]
  BY <1>5, <1>7, <1>8, MostExists
<1>10. \A y \in MostWorth : Len(x.drops) <= Len(y.drops)
  BY <1>6, <1>7, <1>9
<1>11. FirstExchange \in MostWorth
  BY <1>10, Zenon DEF FirstExchange
<1> QED
  BY <1>5, <1>11 DEF MostWorth

\* The row of what is played is worth most.
LEMMA GreedyReportLeads ==
    ASSUME RequestReady, MovesKnown, ranked = Ranked, NEW c,
           NEW best \in DOMAIN GreedyRows, GreedyRows[best].move = c,
           \A i \in DOMAIN GreedyRows :
             GreedyRows[i].value \in Int /\ GreedyRows[i].value <= GreedyRows[best].value
    PROVE  BuildGreedyReport(c)[1].move = c
<1> DEFINE n == FrontRows + Len(EnumerateExchanges)
           row(i) == Row(GreedyRows[i].move, GreedyRows[i].value, GreedyRows[i].move = c, i)
           f == [i \in 1 .. n |-> row(i)]
<1>1. n \in Nat /\ DOMAIN GreedyRows = 1 .. n /\ best \in 1 .. n
  BY GreedyRowsAre
<1> HIDE DEF n
<1>2. \A i \in 1 .. n : /\ f[i].value = GreedyRows[i].value /\ f[i].order = i
                        /\ f[i].move = GreedyRows[i].move /\ f[i].chosen = (GreedyRows[i].move = c)
  BY DEF Row
<1>3. BuildGreedyReport(c) = SerializeRows(RowsOver(f, n))
  <2>1. {row(i) : i \in DOMAIN GreedyRows} = RowsOver(f, n)
    BY <1>1 DEF RowsOver
  <2>2. BuildGreedyReport(c) = SerializeRows({row(i) : i \in DOMAIN GreedyRows})
    BY DEF BuildGreedyReport
  <2> HIDE DEF f, row
  <2> QED
    BY <2>1, <2>2
<1> HIDE DEF f, row
<1>4. RowsLead(f, n, best, c)
  <2>1. ASSUME NEW k \in 1 .. n
        PROVE  /\ f[k].value \in Int /\ f[k].order = k /\ f[k].chosen \in BOOLEAN
               /\ f[k].value <= f[best].value
               /\ f[k].chosen => f[k].move = c
    <3>1. f[k].value \in Int /\ f[k].value <= f[best].value
      BY <1>1, <1>2
    <3>2. f[k].chosen = (GreedyRows[k].move = c) /\ f[k].order = k /\ f[k].move = GreedyRows[k].move
      BY <1>2
    <3>3. (GreedyRows[k].move = c) \in BOOLEAN
      OBVIOUS
    <3>4. f[k].chosen \in BOOLEAN
      BY <3>2, <3>3
    <3>5. f[k].chosen => f[k].move = c
      BY <3>2
    <3> QED
      BY <3>1, <3>2, <3>4, <3>5
  <2>2. f[best].chosen
    <3>1. f[best].chosen = (GreedyRows[best].move = c)
      BY <1>1, <1>2
    <3> QED
      BY <3>1
  <2> QED
    BY <2>1, <2>2 DEF RowsLead
<1>5. SerializeRows(RowsOver(f, n))[1].move = c
  BY <1>1, <1>4, ReportOver
<1> QED
  BY <1>3, <1>5

\* What the rows are worth.
LEMMA GreedyValues ==
    ASSUME RequestReady, MovesKnown, ranked = Ranked, NEW v \in Int,
           \A a \in 1 .. Len(ranked) : StaticEquity(moves[ranked[a]]) <= v,
           \A d \in Exchanges : ExchangeEquity(d) <= v
    PROVE  \A i \in DOMAIN GreedyRows : GreedyRows[i].value \in Int /\ GreedyRows[i].value <= v
<1> DEFINE E == EnumerateExchanges
<1>1. /\ FrontRows \in Nat /\ FrontRows <= Len(ranked) /\ Len(ranked) \in Nat /\ DOMAIN ranked = 1 .. Len(ranked)
      /\ Len(E) \in Nat /\ DOMAIN E = 1 .. Len(E) /\ \A j \in 1 .. Len(E) : E[j] \in DroppedMoves
  BY GreedyRowsAre, RankedAre
<1> SUFFICES ASSUME NEW i \in DOMAIN GreedyRows PROVE GreedyRows[i].value \in Int /\ GreedyRows[i].value <= v
  OBVIOUS
<1>2. i \in 1 .. FrontRows \/ \E j \in 1 .. Len(E) : i = FrontRows + j
  BY GreedyRowsAre
<1>3. CASE i \in 1 .. FrontRows
  <2>1. i \in 1 .. Len(ranked)
    BY <1>1, <1>3
  <2>2. ranked[i] \in Range(ranked)
    BY <1>1, <2>1 DEF Range
  <2>3. StaticEquity(moves[ranked[i]]) \in Int
    BY <2>2, RankedAre, EquityIs
  <2>4. GreedyRows[i].value = StaticEquity(moves[ranked[i]])
    BY <1>3, GreedyRowsAre
  <2> QED
    BY <2>1, <2>3, <2>4
<1>4. CASE \E j \in 1 .. Len(E) : i = FrontRows + j
  <2>1. PICK j \in 1 .. Len(E) : i = FrontRows + j
    BY <1>4
  <2>2. E[j] \in DroppedMoves /\ E[j] \in Exchanges
    BY <1>1 DEF Exchanges, Range
  <2>3. GreedyRows[i].value = ExchangeEquity(E[j])
    BY <2>1, GreedyRowsAre
  <2> QED
    BY <2>2, <2>3, ExchangeEquityType
<1> QED
  BY <1>2, <1>3, <1>4

\* The greedy choice is legal, does not end the game, and leads its report.
LEMMA GreedyAnswers ==
    ASSUME RequestReady, MovesKnown, ranked = Ranked
    PROVE  /\ GreedyChoice \in LegalMoves
           /\ GreedyChoice.type = "place" => ~ EndsTheGame(GreedyChoice.play)
           /\ BuildGreedyReport(GreedyChoice) # <<>> => BuildGreedyReport(GreedyChoice)[1].move = GreedyChoice
<1> DEFINE c == GreedyChoice
           E == EnumerateExchanges
           front == moves[ranked[1]]
           Swaps == Exchanges # {} /\ (ranked = <<>> \/ ExchangeEquity(FirstExchange) > StaticEquity(front))
<1>1. c = IF Swaps THEN FirstExchange ELSE IF ranked = <<>> THEN PassMove ELSE PlaceMove(front)
  BY DEF GreedyChoice, Exchanges, FirstExchange, MostWorth
<1>2. /\ FrontRows \in Nat /\ FrontRows <= Len(ranked) /\ (ranked # <<>> => FrontRows >= 1)
      /\ Len(ranked) \in Nat /\ DOMAIN ranked = 1 .. Len(ranked)
      /\ Len(E) \in Nat /\ DOMAIN E = 1 .. Len(E) /\ \A j \in 1 .. Len(E) : E[j] \in DroppedMoves
      /\ DOMAIN GreedyRows = 1 .. FrontRows + Len(E)
  BY GreedyRowsAre, RankedAre
<1>3. Exchanges = {E[j] : j \in 1 .. Len(E)} /\ Exchanges \subseteq LegalMoves /\ Exchanges \subseteq DroppedMoves
  BY <1>2 DEF Exchanges, Range, LegalMoves
<1>4. ranked # <<>> =>
        /\ front \in Playable(Root(NoTiles)) /\ ~ EndsAtOnce(front) /\ StaticEquity(front) \in Int
        /\ \A a \in 1 .. Len(ranked) : StaticEquity(moves[ranked[a]]) <= StaticEquity(front)
  <2> SUFFICES ASSUME ranked # <<>>
               PROVE  /\ front \in Playable(Root(NoTiles)) /\ ~ EndsAtOnce(front) /\ StaticEquity(front) \in Int
                      /\ \A a \in 1 .. Len(ranked) : StaticEquity(moves[ranked[a]]) <= StaticEquity(front)
    OBVIOUS
  <2>1. 1 \in 1 .. Len(ranked)
    BY <1>2
  <2>2. ranked[1] \in Range(ranked)
    BY <1>2, <2>1 DEF Range
  <2>3. front \in Playable(Root(NoTiles)) /\ ~ EndsAtOnce(front) /\ StaticEquity(front) \in Int
    BY <2>2, RankedAre, EquityIs
  <2>4. ASSUME NEW a \in 1 .. Len(ranked) PROVE StaticEquity(moves[ranked[a]]) <= StaticEquity(front)
    <3>1. CASE a = 1
      BY <2>3, <3>1
    <3>2. CASE a # 1
      <4>1. 1 < a
        BY <1>2, <3>2
      <4> QED
        BY <2>1, <4>1, RankedAre
    <3> QED
      BY <3>1, <3>2
  <2> QED
    BY <2>3, <2>4
<1> HIDE DEF E, c, front
<1>5. CASE Swaps
  <2> DEFINE x == FirstExchange
             v == ExchangeEquity(x)
  <2>1. /\ Exchanges # {} /\ x \in Exchanges /\ c = x
        /\ \A d \in Exchanges : ExchangeEquity(d) <= v
        /\ ranked = <<>> \/ v > StaticEquity(front)
    BY <1>1, <1>5, FirstExchangeIs
  <2> HIDE DEF x
  <2>2. v \in Int /\ c \in LegalMoves /\ c.type = "exchange"
    BY <1>3, <2>1, ExchangeEquityType, MoveShapes
  <2> HIDE DEF v
  <2>3. \A a \in 1 .. Len(ranked) : StaticEquity(moves[ranked[a]]) <= v
    <3>1. CASE ranked = <<>>
      BY <3>1
    <3>2. CASE ranked # <<>>
      <4> SUFFICES ASSUME NEW a \in 1 .. Len(ranked) PROVE StaticEquity(moves[ranked[a]]) <= v
        OBVIOUS
      <4>1. ranked[a] \in Range(ranked)
        BY <1>2 DEF Range
      <4>2. StaticEquity(moves[ranked[a]]) \in Int
        BY <4>1, RankedAre, EquityIs
      <4>3. StaticEquity(moves[ranked[a]]) <= StaticEquity(front) /\ StaticEquity(front) \in Int
        BY <1>4, <3>2
      <4>4. v > StaticEquity(front)
        BY <2>1, <3>2
      <4> QED
        BY <2>2, <4>2, <4>3, <4>4
    <3> QED
      BY <3>1, <3>2
  <2>4. PICK j \in 1 .. Len(E) : x = E[j]
    BY <1>3, <2>1
  <2> DEFINE best == FrontRows + j
  <2>5. best \in DOMAIN GreedyRows
    BY <1>2
  <2>6. GreedyRows[best].move = c /\ GreedyRows[best].value = v
    BY <2>1, <2>4, GreedyRowsAre DEF E, v
  <2> HIDE DEF best
  <2>7. \A i \in DOMAIN GreedyRows : GreedyRows[i].value \in Int /\ GreedyRows[i].value <= v
    BY <2>1, <2>2, <2>3, GreedyValues
  <2>8. BuildGreedyReport(c)[1].move = c
    BY <2>5, <2>6, <2>7, GreedyReportLeads
  <2> QED
    BY <2>2, <2>8 DEF c
<1>6. CASE ~ Swaps /\ ranked # <<>>
  <2> DEFINE v == StaticEquity(front)
  <2>1. c = PlaceMove(front) /\ v \in Int /\ front \in Playable(Root(NoTiles)) /\ ~ EndsAtOnce(front)
    BY <1>1, <1>4, <1>6
  <2>2. c \in LegalMoves /\ c.type = "place" /\ ~ EndsTheGame(c.play)
    BY <2>1, MoveShapes, EndsAlike DEF LegalMoves
  <2>3. \A d \in Exchanges : ExchangeEquity(d) <= v
    <3> SUFFICES ASSUME NEW d \in Exchanges PROVE ExchangeEquity(d) <= v
      OBVIOUS
    <3>1. Exchanges # {} /\ ~ (ExchangeEquity(FirstExchange) > v)
      BY <1>6
    <3>2. FirstExchange \in Exchanges /\ ExchangeEquity(d) <= ExchangeEquity(FirstExchange)
      BY <3>1, FirstExchangeIs
    <3>3. ExchangeEquity(d) \in Int /\ ExchangeEquity(FirstExchange) \in Int
      BY <1>3, <3>2, ExchangeEquityType
    <3> HIDE DEF v
    <3> QED
      BY <2>1, <3>1, <3>2, <3>3
  <2>4. \A a \in 1 .. Len(ranked) : StaticEquity(moves[ranked[a]]) <= v
    BY <1>4, <1>6
  <2>5. 1 \in 1 .. FrontRows /\ 1 \in DOMAIN GreedyRows
    BY <1>2, <1>6
  <2>6. GreedyRows[1].move = c /\ GreedyRows[1].value = v
    BY <2>1, <2>5, GreedyRowsAre DEF front
  <2> HIDE DEF v
  <2>7. \A i \in DOMAIN GreedyRows : GreedyRows[i].value \in Int /\ GreedyRows[i].value <= v
    BY <2>1, <2>3, <2>4, GreedyValues
  <2>8. BuildGreedyReport(c)[1].move = c
    BY <2>5, <2>6, <2>7, GreedyReportLeads
  <2> QED
    BY <2>2, <2>8 DEF c
<1>7. CASE ~ Swaps /\ ranked = <<>>
  <2>1. c = PassMove /\ Exchanges = {}
    BY <1>1, <1>7
  <2>2. c \in LegalMoves /\ c.type # "place"
    BY <2>1, MoveShapes DEF LegalMoves
  <2>3. Len(ranked) = 0 /\ Len(E) = 0
    <3>1. Len(ranked) = 0
      BY <1>7
    <3>2. ~ (1 \in 1 .. Len(E))
      BY <1>3, <2>1
    <3> QED
      BY <1>2, <3>1, <3>2
  <2>4. DOMAIN GreedyRows = {}
    BY <1>2, <2>3
  <2>5. BuildGreedyReport(c) = <<>>
    <3>1. BuildGreedyReport(c) = SerializeRows({})
      BY <2>4 DEF BuildGreedyReport
    <3> QED
      BY <3>1, NoRows
  <2> QED
    BY <2>2, <2>5 DEF c
<1> QED
  BY <1>5, <1>6, <1>7

-----------------------------------------------------------------------------
(* Whatever is answered                                                    *)

\* What is claimed of the end of the game is so.
AnswerSettled ==
    /\ answer.solver = "endgame" =>
         /\ answer.value = TrueGuarantee(OptionOf(answer.move))
         /\ (answer.outcome = "forced_win") <=> (answer.value > Threshold)
         /\ answer.outcome = "forced_draw" => answer.value = Threshold
    /\ answer.solver \in {"sim", "greedy"} /\ answer.move.type = "place" =>
         ~ EndsTheGame(answer.move.play)
\* The report begins with the answer.
AnswerLeads ==
    answer.rows # <<>> /\ answer.outcome # "conditional_win" => answer.rows[1].move = answer.move
\* What holds of an answer: validation accepts it, its claims are so, its report begins
\* with it.
AnswerRight ==
    stage = "done" =>
      /\ answer.solver # "error" => RunValidation(answer.move)
      /\ AnswerSettled /\ AnswerLeads

\* As long as the request is the same, so is what validation says,
LEMMA SameValidation ==
    ASSUME req' = req
    PROVE  RunValidation(answer.move)' <=> RunValidation(answer'.move)
BY DEF RunValidation, DropsCount, Within, Playable, Root, Mover, Occupied, NoTiles, Minus

\* and what an answer is worth.
LEMMA SameSettled ==
    ASSUME req' = req
    PROVE  /\ TrueGuarantee(OptionOf(answer.move))' = TrueGuarantee(OptionOf(answer'.move))
           /\ EndsTheGame(answer.move.play)' <=> EndsTheGame(answer'.move.play)
           /\ Threshold' = Threshold
<1>1. EndsTheGame(answer.move.play)' <=> EndsTheGame(answer'.move.play)
  BY DEF EndsTheGame, AccountedFor
<1>2. Threshold' = Threshold
  BY DEF Threshold
<1>3. TrueGuarantee(OptionOf(answer.move))' = TrueGuarantee(OptionOf(answer'.move))
  BY DEF TrueGuarantee, OptionOf, PassMove, TrueValue, TrueWorlds, Root, WorthOfPass, WorthOfPlay, ValueOf,
         Min, Minus, Submultisets, Within
<1> QED
  BY <1>1, <1>2, <1>3

\* What an answer has to be when it is given.
LEMMA AnswerGiven ==
    ASSUME req' = req,
           answer'.solver # "error" => RunValidation(answer'.move),
           answer'.solver = "endgame" =>
             /\ answer'.value = TrueGuarantee(OptionOf(answer'.move))
             /\ (answer'.outcome = "forced_win") <=> (answer'.value > Threshold)
             /\ answer'.outcome = "forced_draw" => answer'.value = Threshold,
           answer'.solver \in {"sim", "greedy"} /\ answer'.move.type = "place" =>
             ~ EndsTheGame(answer'.move.play),
           answer'.rows # <<>> /\ answer'.outcome # "conditional_win" => answer'.rows[1].move = answer'.move
    PROVE  AnswerRight'
<1>1. answer'.solver # "error" => RunValidation(answer.move)'
  BY SameValidation
<1>2. AnswerSettled'
  BY SameSettled DEF AnswerSettled
<1>3. AnswerLeads'
  BY DEF AnswerLeads
<1> QED
  BY <1>1, <1>2, <1>3 DEF AnswerRight

\* The fields of a refusal.
LEMMA RefusedIs ==
    ASSUME NEW why
    PROVE  Refused(why).solver = "error" /\ Refused(why).rows = <<>>
BY DEF Refused

\* The fields of an answer.
LEMMA RespondIs ==
    ASSUME NEW kind, NEW m, NEW value, NEW outcome, NEW rows
    PROVE  LET a == Respond(kind, m, value, outcome, rows) IN
           a.solver = kind /\ a.move = m /\ a.value = value /\ a.outcome = outcome /\ a.rows = rows
BY DEF Respond

\* A proof that answers.
LEMMA UseProofAnswers ==
    ASSUME RequestKnown, ProofInvariant, UseProof, stage' = "done"
    PROVE  AnswerRight'
<1>1. stage = "proof_over" /\ req' = req
  BY DEF UseProof
<1>2. CASE result.found /\ result.solved
  <2> DEFINE a == Respond("endgame", MoveOf(result.move), result.value, result.outcome,
                          BuildEndgameReport(result.move))
             m == MoveOf(result.move)
  <2>1. answer' = a
    BY <1>2 DEF UseProof
  <2>2. /\ a.solver = "endgame" /\ a.move = m /\ a.value = result.value /\ a.outcome = result.outcome
        /\ a.rows = BuildEndgameReport(result.move)
    BY RespondIs
  <2> HIDE DEF a
  <2>3. Concluded /\ RequestReady
    BY <1>1, <1>2 DEF ProofInvariant, ProofGoesOn, RequestKnown
  <2>4. /\ result.move \in TrueOptions /\ OutcomeIs(result) /\ result.outcome \in Outcomes
        /\ result.outcome # "forced_win" => result.value <= Threshold
    BY <2>3, OptionsAre DEF Concluded
  <2>5. m \in LegalMoves /\ OptionOf(m) = result.move
    BY <2>3, <2>4, MoveOfOption
  <2>6. RunValidation(m)
    BY <2>3, <2>5, LegalValid
  <2>7. /\ result.value = TrueGuarantee(OptionOf(m))
        /\ (result.outcome = "forced_win") <=> (result.value > Threshold)
        /\ result.outcome = "forced_draw" => result.value = Threshold
    <3>1. result.value = TrueGuarantee(OptionOf(m))
      BY <2>4, <2>5 DEF OutcomeIs
    <3>2. result.outcome = "forced_win" => result.value > Threshold
      BY <2>4 DEF OutcomeIs
    <3>3. result.outcome = "forced_draw" => result.value = Threshold
      BY <2>4 DEF OutcomeIs
    <3>4. Threshold \in Int /\ result.value \in Int
      <4>1. TriesProof /\ Worlds # <<>> /\ stage \notin {"parse", "done"}
        BY <1>1, <2>3 DEF ProofInvariant, ProofGoesOn, ProofStages, Concluded
      <4>2. Threshold \in Int /\ TrueGuarantee(result.move) \in Int
        <5>1. PICK i \in 1 .. Len(Options) : result.move = Options[i]
          BY <2>4, <4>1, OptionWorths
        <5> QED
          BY <4>1, <5>1, OptionWorths
      <4> QED
        BY <2>5, <3>1, <4>2
    <3>5. result.outcome # "forced_win" => ~ (result.value > Threshold)
      BY <2>4, <3>4
    <3> QED
      BY <3>1, <3>2, <3>3, <3>5
  <2>8. result.outcome # "conditional_win" => BuildEndgameReport(result.move)[1].move = m
    BY <1>1, <1>2, EndgameReportLeads
  <2> HIDE DEF m
  <2> QED
    BY <1>1, <2>1, <2>2, <2>6, <2>7, <2>8, AnswerGiven
<1>3. CASE ~ (result.found /\ result.solved)
  <2>1. answer' = Refused("hidden_no_result")
    BY <1>1, <1>3 DEF UseProof
  <2>2. answer'.solver = "error" /\ answer'.rows = <<>>
    BY <2>1, RefusedIs
  <2> QED
    BY <1>1, <2>2, AnswerGiven
<1> QED
  BY <1>2, <1>3

\* A move that ends the game at once.
LEMMA AtOnceAnswers ==
    ASSUME RequestKnown, Estimates, SettleAtOnce, stage' = "done"
    PROVE  AnswerRight'
<1>1. stage = "terminal" /\ req' = req /\ MovesKnown /\ RequestReady
  BY DEF SettleAtOnce, Estimates, RequestKnown
<1> DEFINE m == moves[BestOut]
           v == OutMargin(m)
           T == Threshold
<1>2. /\ Outs # {}
      /\ \E outcome : /\ answer' = Immediate(outcome)
                      /\ (outcome = "forced_win") <=> (v > T)
                      /\ (outcome = "forced_draw") => (v = T)
  <2>1. CASE Outs # {} /\ v >= T
    <3>1. answer' = Immediate(IF v > T THEN "forced_win" ELSE "forced_draw")
      BY <2>1 DEF SettleAtOnce
    <3>2. v \in Int /\ T \in Int
      <4>1. v \in Int
        BY <1>1, <2>1, BestOutIs
      <4>2. T \in Int
        BY <1>1, RequestParts DEF Threshold
      <4> QED
        BY <4>1, <4>2
    <3> HIDE DEF v, T
    <3>3. CASE v > T
      BY <2>1, <3>1, <3>3
    <3>4. CASE ~ (v > T)
      <4>1. v = T
        BY <2>1, <3>2, <3>4
      <4> QED
        BY <2>1, <3>1, <3>4, <4>1
    <3> QED
      BY <3>3, <3>4
  <2>2. CASE ~ (Outs # {} /\ v >= T)
    <3>1. Outs # {} /\ answer' = Immediate("forced_loss")
      BY <2>2 DEF SettleAtOnce
    <3>2. v \in Int /\ T \in Int
      <4>1. v \in Int
        BY <1>1, <3>1, BestOutIs
      <4>2. T \in Int
        BY <1>1, RequestParts DEF Threshold
      <4> QED
        BY <4>1, <4>2
    <3> HIDE DEF v, T
    <3>3. ~ (v > T)
      BY <2>2, <3>1, <3>2
    <3> QED
      BY <3>1, <3>3
  <2> QED
    BY <2>1, <2>2
<1>3. PICK outcome : /\ answer' = Immediate(outcome)
                     /\ (outcome = "forced_win") <=> (v > T)
                     /\ (outcome = "forced_draw") => (v = T)
  BY <1>2
<1>4. /\ answer'.solver = "endgame" /\ answer'.move = PlaceMove(m) /\ answer'.value = v
      /\ answer'.outcome = outcome /\ answer'.rows = <<>>
  <2>1. answer' = Respond("endgame", PlaceMove(m), v, outcome, <<>>)
    BY <1>3 DEF Immediate
  <2> QED
    BY <2>1, RespondIs
<1>5. m \in Playable(Root(NoTiles)) /\ EndsAtOnce(m)
  BY <1>1, <1>2, BestOutIs
<1>6. PlaceMove(m) \in LegalMoves /\ OptionOf(PlaceMove(m)) = m
  BY <1>5, MoveShapes DEF LegalMoves, OptionOf
<1>7. RunValidation(PlaceMove(m)) /\ v = TrueGuarantee(m)
  BY <1>1, <1>5, <1>6, LegalValid, OutIsWorth
<1> HIDE DEF m, v
<1> QED
  BY <1>1, <1>3, <1>4, <1>6, <1>7, AnswerGiven

\* The end of a comparison.
LEMMA RankAnswers ==
    ASSUME RequestKnown, Estimates, SamplesDone, RankCandidates
    PROVE  AnswerRight'
<1>1. stage = "rank" /\ req' = req /\ RequestReady
  BY DEF RankCandidates, RequestKnown
<1> DEFINE b == BestRisk
           m == candidates[b]
<1>2. answer' = Respond("sim", m, RiskValue(b), None, BuildCandidateReport(b))
  BY DEF RankCandidates, BestRisk
<1>3. answer'.solver = "sim" /\ answer'.move = m /\ answer'.rows = BuildCandidateReport(b)
  BY <1>2, RespondIs
<1>4. /\ m \in LegalMoves
      /\ m.type = "place" => ~ EndsTheGame(m.play)
      /\ BuildCandidateReport(b)[1].move = m
  BY <1>1, ComparisonAnswers
<1>5. RunValidation(m)
  BY <1>1, <1>4, LegalValid
<1> HIDE DEF b, m
<1> QED
  BY <1>1, <1>3, <1>4, <1>5, AnswerGiven

\* A greedy answer.
LEMMA GreedyGives ==
    ASSUME RequestKnown, Estimates, PlayGreedy
    PROVE  AnswerRight'
<1>1. stage = "greedy" /\ req' = req /\ RequestReady /\ MovesKnown /\ ranked = Ranked
  BY DEF PlayGreedy, RequestKnown, Estimates
<1> DEFINE m == GreedyChoice
<1>2. answer' = Respond("greedy", m, 0, None, BuildGreedyReport(m))
  BY DEF PlayGreedy
<1>3. answer'.solver = "greedy" /\ answer'.move = m /\ answer'.rows = BuildGreedyReport(m)
  BY <1>2, RespondIs
<1>4. /\ m \in LegalMoves
      /\ m.type = "place" => ~ EndsTheGame(m.play)
      /\ BuildGreedyReport(m) # <<>> => BuildGreedyReport(m)[1].move = m
  BY <1>1, GreedyAnswers
<1>5. RunValidation(m)
  BY <1>1, <1>4, LegalValid
<1> HIDE DEF m
<1> QED
  BY <1>1, <1>3, <1>4, <1>5, AnswerGiven

\* Every step keeps the answer right.
LEMMA AnswerStep ==
    ASSUME RequestKnown, ProofInvariant, Estimates, SamplesDone, AnswerRight, [Next \/ Answered]_requestVars
    PROVE  AnswerRight'
<1> SUFFICES ASSUME stage' = "done" PROVE AnswerRight'
  BY DEF AnswerRight
<1>1. CASE ParseRequest
  <2>1. req' = req /\ answer' = Refused("bad solver")
    BY <1>1 DEF ParseRequest
  <2>2. answer'.solver = "error" /\ answer'.rows = <<>>
    BY <2>1, RefusedIs
  <2> QED
    BY <2>1, <2>2, AnswerGiven
<1>2. CASE UseProof
  BY <1>2, UseProofAnswers
<1>3. CASE SettleAtOnce
  BY <1>3, AtOnceAnswers
<1>4. CASE RankCandidates
  BY <1>4, RankAnswers
<1>5. CASE PlayGreedy
  BY <1>5, GreedyGives
<1>6. CASE UNCHANGED requestVars
  <2>1. UNCHANGED <<req, stage, answer>>
    BY <1>6 DEF requestVars, proofVars
  <2>2. /\ answer.solver # "error" => RunValidation(answer.move)
        /\ AnswerSettled /\ AnswerLeads
    BY <2>1 DEF AnswerRight
  <2> QED
    BY <2>1, <2>2, AnswerGiven DEF AnswerSettled, AnswerLeads
<1>7. CASE Next /\ ~ ParseRequest /\ ~ UseProof /\ ~ SettleAtOnce /\ ~ RankCandidates /\ ~ PlayGreedy
  <2>1. stage' # "done"
    BY <1>7 DEF Next, GenerateRoot, ProofNext, BeginProof, ProveUnit, Judge, ReachUnit, Settle, AdmitCandidates,
                SampleRow, ClockCutsRow
  <2> QED
    BY <2>1
<1> QED
  BY <1>1, <1>2, <1>3, <1>4, <1>5, <1>6, <1>7 DEF Answered

\* What is answered is right on every channel.
THEOREM AnswersGoRight == Spec => []AnswerRight
<1>1. Init => AnswerRight
  BY DEF Init, AnswerRight
<1>2. (RequestKnown /\ ProofInvariant /\ Estimates /\ SamplesDone /\ AnswerRight
        /\ [Next \/ Answered]_requestVars) => AnswerRight'
  <2> SUFFICES ASSUME RequestKnown, ProofInvariant, Estimates, SamplesDone, AnswerRight,
                      [Next \/ Answered]_requestVars
               PROVE  AnswerRight'
    OBVIOUS
  <2> QED
    BY AnswerStep
<1> QED
  BY <1>1, <1>2, RequestAlwaysKnown, ProofGoesRight, EstimatesGoRight, SamplesGoRight, PTL DEF Spec

\* What the endgame channel claims of a move is what it is worth against every defence, and
\* where only an estimate is given the move never ends the game.
THEOREM TerminalMovesAreSettled == Spec => []TerminalMovesSettled
<1>1. AnswerRight => TerminalMovesSettled
  BY DEF AnswerRight, AnswerSettled, TerminalMovesSettled, OptionOf
<1> QED
  BY <1>1, AnswersGoRight, PTL

\* The first row of a report is the move that was played: serializeRows.
THEOREM ReportsLeadWithPlayed == Spec => []ReportLeadsWithPlayed
<1>1. AnswerRight => ReportLeadsWithPlayed
  BY DEF AnswerRight, AnswerLeads, ReportLeadsWithPlayed
<1> QED
  BY <1>1, AnswersGoRight, PTL

\* Validation allows every move that is answered or compared.
THEOREM AnswersAlwaysLegal == Spec => []AnswersAreLegal
<1>1. RequestKnown /\ Estimates /\ AnswerRight => AnswersAreLegal
  <2> SUFFICES ASSUME RequestKnown, Estimates, AnswerRight PROVE AnswersAreLegal
    OBVIOUS
  <2>1. stage = "done" /\ answer.solver # "error" => RunValidation(answer.move)
    BY DEF AnswerRight
  <2>2. ASSUME stage = "sample", NEW i \in DOMAIN candidates PROVE RunValidation(candidates[i])
    <3>1. RequestReady /\ candidates[i] \in LegalMoves
      BY <2>2, CandidatesAre DEF Estimates, RequestKnown
    <3> QED
      BY <3>1, LegalValid
  <2> QED
    BY <2>1, <2>2 DEF AnswersAreLegal
<1> QED
  BY <1>1, RequestAlwaysKnown, EstimatesGoRight, AnswersGoRight, PTL

==============================================================================
