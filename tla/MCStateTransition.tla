-------------------------- MODULE MCStateTransition -------------------------
(* Instances of StateTransition for TLC.                                    *)
EXTENDS StateTransition

\* Worthless tiles and tiles of a point, so that racks of equal and of
\* different worth meet in the endings.
TilePoints == [tile \in Tiles |-> tile % 2]
=============================================================================
