------------------------------ MODULE Replies ------------------------------
(* The two sets of moves the decision search rests on.                       *)
(*                                                                           *)
(* src/src/root_catalogue.cpp and selectRootScope of decision_search.cpp:    *)
(* every action of a rack, ranked by a static value, of which a few are      *)
(* admitted.                                                                 *)
(*                                                                           *)
(* src/src/reply_index.cpp: the replies to a candidate are not enumerated    *)
(* anew.  An index holds the placements of the opponent's rack on the board  *)
(* before the candidate; after it, those that are still legal are kept at    *)
(* their new score, and what the candidate makes possible is enumerated from *)
(* start cells in the lines it touches.                                      *)
(*                                                                           *)
(* A canonical key stands for the tiles of a placement or the kinds of an    *)
(* exchange; the order of keys is an arbitrary total order.  What the        *)
(* ledger permits is in DecisionSearch; here a limit may be refused.         *)
EXTENDS MoveTree

CONSTANTS
    Refused,             \* no permit
    ExchangeMinReserve,  \* EXCHANGE_MIN_RESERVE
    StaticValue(_)       \* staticEquity of an action

---------------------------------------------------------------------------
(* RootCatalogue.                                                           *)

SearchOptions(limit) == [Everything EXCEPT !.premiumOrder = TRUE, !.nodeLimit = limit]

\* A generation under a permit: what it found, and whether that is everything.
Generation(all) == [placements |-> Range(all.out), complete |-> ~all.truncated]
Search(b, rack, opts) ==
    IF opts.nodeLimit = Refused THEN [placements |-> {}, complete |-> FALSE]
    ELSE Generation(GeneratePlaceMoves(b, None, rack, opts))

PlaceAction(m) == [type |-> "place", placement |-> m.placement, drops |-> <<>>, score |-> m.score]
ExchangeAction(drops) == [type |-> "exchange", placement |-> <<>>, drops |-> drops, score |-> 0]
PassAction == [type |-> "pass", placement |-> <<>>, drops |-> <<>>, score |-> 0]

DropsOf(action) == IF action.type = "exchange" THEN RackTotal(action.drops) ELSE 0

\* enumerateExchangeMultisets: some of the tiles of the rack, by kind.
ExchangeMultisets(rack) ==
    {drops \in [TileKinds -> 0..RackTotal(rack)] :
        /\ \A k \in TileKinds : drops[k] <= rack[k]
        /\ RackTotal(drops) > 0}

ExchangeAllowed(bag, opp) == bag + opp - RackSize >= ExchangeMinReserve

\* RootCatalogue::build.
RootCatalogue(b, rack, bag, opp, limit) ==
    LET found == Search(b, rack, SearchOptions(limit))
    IN  [complete |-> found.complete,
         actions |-> {PlaceAction(m) : m \in found.placements}
                       \cup (IF ExchangeAllowed(bag, opp)
                             THEN {ExchangeAction(drops) : drops \in ExchangeMultisets(rack)} ELSE {})
                       \cup {PassAction}]

---------------------------------------------------------------------------
(* selectRootScope.                                                         *)

\* By static value, then by key.
RankedActions(actions) ==
    LET keys == FoldSet(LAMBDA a, seq : Append(seq, a), <<>>, actions)
        before(i, j) ==
          \/ StaticValue(keys[i]) > StaticValue(keys[j])
          \/ StaticValue(keys[i]) = StaticValue(keys[j]) /\ i < j
        order == Sorted(DOMAIN keys, before)
    IN  [i \in DOMAIN order |-> keys[order[i]]]

\* The first of those with the highest score.
ScoreLeader(ranked) ==
    Min({i \in DOMAIN ranked : \A j \in DOMAIN ranked : ranked[j].score <= ranked[i].score})

\* The leader, the highest scorer, and in the order of the ranking the pass and
\* the first exchange of every size.
Mandatory(ranked) ==
    LET first(i) == \A j \in 1..i - 1 : DropsOf(ranked[j]) # DropsOf(ranked[i])
        kept(i) == ranked[i].type = "pass" \/ (ranked[i].type = "exchange" /\ first(i))
    IN  <<1, ScoreLeader(ranked)>> \o SelectSeq([i \in DOMAIN ranked |-> i], kept)

\* Take places of the list, each once, until there are `cap`.
Filled(chosen, list, cap) ==
    FoldLeft(LAMBDA got, i : IF Len(got) < cap /\ i \notin Range(got) THEN Append(got, i) ELSE got,
             chosen, list)

\* Whoever is not mandatory must be near the leader.  (Mutant: the places that
\* are left go to whoever comes first.)
ScopeByKey(actions, cap, correctionEnvelope) ==
    LET ranked == RankedActions(actions)
        near(i) == StaticValue(ranked[1]) - StaticValue(ranked[i]) <= correctionEnvelope
        others == SelectSeq(Reverse([i \in DOMAIN ranked |-> i]), near)
    IN  IF Len(ranked) <= cap THEN actions
        ELSE {ranked[i] : i \in Range(Filled(Filled(<<>>, Mandatory(ranked), cap), others, cap))}

SelectRootScope(actions, cap, correctionEnvelope) ==
    LET ranked == RankedActions(actions)
        near(i) == StaticValue(ranked[1]) - StaticValue(ranked[i]) <= correctionEnvelope
        others == SelectSeq([i \in DOMAIN ranked |-> i], near)
    IN  IF Len(ranked) <= cap THEN actions
        ELSE {ranked[i] : i \in Range(Filled(Filled(<<>>, Mandatory(ranked), cap), others, cap))}

---------------------------------------------------------------------------
(* ReplyIndex.                                                              *)

\* ReplyIndex::build, on the board before the candidate.
BuildIndex(b, rack, limit) ==
    Search(b, rack, SearchOptions(limit))

\* The cells beside the run of c in a direction, where a cross line of another
\* run may meet it.
EndsOf(b, c, d) == {Shift(c, d, Reach(b, c, d, 1) + 1), Shift(c, d, -Reach(b, c, d, -1) - 1)} \cap Cells

\* dependencyStartMasks.  (Mutant: only the lines of the cells themselves.)
DependencyOnOwnLines(b, cells) ==
    [across |-> {c \in Cells : \E e \in cells : e[1] = c[1]},
     down |-> {c \in Cells : \E e \in cells : e[2] = c[2]}]

DependencyStarts(b, cells) ==
    LET beside(d) == cells \cup UNION {EndsOf(b, c, d) : c \in cells}
    IN  [across |-> {c \in Cells : \E e \in beside(Down) : e[1] = c[1]},
         down |-> {c \in Cells : \E e \in beside(Across) : e[2] = c[2]}]

\* What was indexed and is still legal, at the score it has now.
StillLegal(placements, after) ==
    {Move(m.placement, ScoreOf(after, m.placement)) :
       m \in {n \in placements : Legal(after, n.placement)}}

\* What the delta finds again replaces what was indexed.
Merged(idx, still, delta) ==
    [placements |-> {m \in still : \A d \in delta.placements : d.placement # m.placement}
                      \cup delta.placements,
     complete |-> idx.complete /\ delta.complete]

\* ReplyIndex::recover, on the board after a candidate that put tiles on
\* `cells`.
Recover(idx, after, cells, rack, limit) ==
    LET opts == [SearchOptions(limit) EXCEPT !.starts = DependencyStarts(after, cells)]
        nothing == [placements |-> {}, complete |-> TRUE]
    IN  Merged(idx, StillLegal(idx.placements, after),
               IF cells = {} THEN nothing ELSE Search(after, rack, opts))

---------------------------------------------------------------------------
(* Properties.                                                              *)

CONSTANTS
    Hidden,         \* pairs of a bag and an opponent's rack, their sizes
    Caps,           \* candidates admitted
    Envelopes       \* correction envelopes

\* For indices cut at some limits, and a delta cut at any of them.
RecoveredFrom(cells, rack, full, index) ==
    \A n \in DOMAIN index : \A l \in IF n = 0 THEN DOMAIN index ELSE {0} :
        LET replies == Recover(index[n], board, cells, rack, l)
        IN  /\ replies.placements \subseteq full
            /\ n = 0 /\ l = 0 => replies.complete
            /\ replies.complete => replies.placements = full

\* What the search may do instead of enumerating the replies to every candidate
\* is as good: a reply set that calls itself complete is the set a full
\* enumeration on the board after the candidate gives, scores included, and one
\* that was cut short holds nothing else.  The same for a candidate that puts
\* no tile.
RecoveredIsFull ==
    word = <<>> => \A rack \in Racks :
        LET cells == IF made = <<>> THEN {} ELSE DOMAIN Last(made)
            before == Restrict(board, DOMAIN board \ cells)
        IN  RecoveredFrom(cells, rack, Range(GeneratePlaceMoves(board, inc, rack, Everything).out),
                          [n \in {0, Refused} \cup Limits |-> BuildIndex(before, rack, n)])

ScopeKeeps(actions) ==
    LET best == Max({StaticValue(a) : a \in actions})
        most == Max({a.score : a \in actions})
        sizes == {DropsOf(a) : a \in actions}
        kept(a) == a.score = most \/ a.type # "place"
    IN  \A cap \in Caps, envelope \in Envelopes :
          \E scope \in {SelectRootScope(actions, cap, envelope)} :
              /\ scope \subseteq actions /\ Cardinality(scope) <= cap
              /\ \E a \in scope : StaticValue(a) = best
              /\ cap >= 2 => \E a \in scope : a.score = most
              /\ cap >= Cardinality(sizes) + 2 =>
                   PassAction \in scope /\ sizes = {DropsOf(a) : a \in scope}
              /\ \A a \in actions \ scope :
                   \/ best - StaticValue(a) > envelope
                   \/ /\ Cardinality(scope) = cap
                      /\ \A s \in scope : kept(s) \/ StaticValue(s) >= StaticValue(a)

\* However few candidates are admitted, the leader is one, and beside it a
\* highest scorer; with room for them, a pass and an exchange of every size
\* are.  What is left out lies beyond the envelope or is no better than
\* anything that was admitted for its value alone.
ScopeKeepsTheBest ==
    word = <<>> => \A rack \in Racks, hidden \in Hidden :
        ScopeKeeps(RootCatalogue(board, rack, hidden[1], hidden[2], 0).actions)

\* What is done to do less is honest: limits, orders and start cells of an
\* enumeration, and the few root moves that a search admits.
BoundsAreHonest == LimitsAreHonest /\ ScopeKeepsTheBest

=============================================================================
