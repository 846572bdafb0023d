-------------------------- MODULE MCDecisionSearch --------------------------
(* Instances of DecisionSearch for TLC.                                     *)
EXTENDS DecisionSearch

CONSTANT MaxWorlds

\* The variants of decision_search.hpp over one set of limits.
BasePolicy ==
    [adaptive |-> FALSE, referenceReplies |-> FALSE, eliminate |-> FALSE,
     worlds |-> 2, minimumWorlds |-> 2, maxWorlds |-> MaxWorlds, candidateCap |-> 2,
     rootNodeLimit |-> 2, opponentNodeLimit |-> 2, maxMovegenNodes |-> 12,
     credits |-> 0, margin |-> 0, allowance |-> 1]

Static == [BasePolicy EXCEPT !.worlds = 0]
SimV2Reference == [BasePolicy EXCEPT !.referenceReplies = TRUE]
ReplyIndexUniform == BasePolicy
PairedReplyIndex == [BasePolicy EXCEPT !.eliminate = TRUE, !.worlds = 3]
PairedOfThree ==
    [BasePolicy EXCEPT !.eliminate = TRUE, !.minimumWorlds = 1, !.candidateCap = 3]
PairedWithAllowance ==
    [BasePolicy EXCEPT !.eliminate = TRUE, !.minimumWorlds = 1, !.allowance = 2]
ReplyIndexAdaptiveUniform ==
    [BasePolicy EXCEPT !.adaptive = TRUE, !.credits = 10, !.margin = 1]
ReplyIndexAdaptivePaired ==
    [ReplyIndexAdaptiveUniform EXCEPT !.eliminate = TRUE]

AllVariants == {Static, SimV2Reference, ReplyIndexUniform, PairedReplyIndex, PairedOfThree,
                PairedWithAllowance, ReplyIndexAdaptiveUniform, ReplyIndexAdaptivePaired}
=============================================================================
