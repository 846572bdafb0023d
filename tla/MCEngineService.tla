--------------------------- MODULE MCEngineService ---------------------------
(* Instances of EngineService for TLC.                                      *)
EXTENDS EngineService, TLC

CONSTANTS r1, r2, r3

Key(g, v, kind) == [game |-> g, revision |-> v, kind |-> kind]

\* Analysis of one game at two revisions, and a bot turn of another game.
ServiceKeys == {Key("g", 1, "analysis"), Key("g", 2, "analysis"), Key("h", 1, "bot")}
\* Analysis of one game at two revisions.
OneGameKeys == {Key("g", 1, "analysis"), Key("g", 2, "analysis")}
ServiceGames == {"g", "h"}
ServiceKinds == {"analysis", "bot"}
ServicePriorityOf == [kind \in ServiceKinds |-> IF kind = "bot" THEN 0 ELSE 10]
ServiceTtlOf == [kind \in ServiceKinds |-> 1]
OneSlotEach == [kind \in ServiceKinds |-> 1]

\* Two requests of one account, in either order, and one of another account.
ServiceRequests == {r1, r2, r3}
ServiceUsers == {"u", "v"}
ServiceUserOf == [r \in ServiceRequests |-> IF r = r3 THEN "v" ELSE "u"]

\* The two requests of one account are interchangeable.
AccountSymmetry == Permutations({r1, r2})
=============================================================================
