---------------------------- MODULE MCEngineQueue ----------------------------
(* Instances of EngineQueue for TLC.                                        *)
EXTENDS EngineQueue, TLC

\* Keys are interchangeable: no operation compares two of them but for
\* equality, and no property orders them.
KeySymmetry == Permutations(Keys)
RequestSymmetry == Permutations(Requests) \cup Permutations(Keys)

\* The behaviours in which nobody presses cancel: the only aborts are those of
\* callers that went away.
NextWithoutCancel ==
    \/ Arrive
    \/ \E r \in Requests : CallerAborts(r)
    \/ \E j \in Requests : WaitTimeout(j)
    \/ Finish
    \/ \E r \in Requests : Hear(r)

SpecWithoutCancel == Init /\ [][NextWithoutCancel]_vars
=============================================================================
