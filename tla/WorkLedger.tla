----------------------------- MODULE WorkLedger -----------------------------
(***************************************************************************)
(* The ledger of a decision's work (src/work_ledger.hpp): an envelope of   *)
(* ceilings, the permit under which one move generation runs, and the one  *)
(* world that is being evaluated.  A search is single-threaded and the     *)
(* ledger is a value it changes step by step, so its methods are operators *)
(* from a ledger to the ledger after the call.                             *)
(*                                                                         *)
(* The counters that no decision reads (transitions, evaluations, the      *)
(* calls per purpose) are left out.                                        *)
(***************************************************************************)
EXTENDS Naturals

Envelope == [fullCalls : Nat, deltaCalls : Nat, nodes : Nat, worlds : Nat]

Ledger == [envelope : Envelope,
           fullCalls : Nat, deltaCalls : Nat,   \* generations that were permitted
           nodes : Nat, deltaNodes : Nat,       \* nodes visited, and by deltas
           revalidations : Nat,
           completed : Nat, discarded : Nat,    \* worlds
           permitOut : BOOLEAN,                 \* activePermitId_ # 0
           worldReserved : BOOLEAN,
           exhausted : BOOLEAN,
           invariantFailure : BOOLEAN]

NewLedger(envelope) ==
    [envelope |-> envelope, fullCalls |-> 0, deltaCalls |-> 0, nodes |-> 0, deltaNodes |-> 0,
     revalidations |-> 0, completed |-> 0, discarded |-> 0, permitOut |-> FALSE,
     worldReserved |-> FALSE, exhausted |-> FALSE, invariantFailure |-> FALSE]

-----------------------------------------------------------------------------
(* Generations                                                             *)

Remaining(l) == IF l.nodes < l.envelope.nodes THEN l.envelope.nodes - l.nodes ELSE 0

CallsLeft(l, delta) ==
    IF delta THEN l.deltaCalls < l.envelope.deltaCalls ELSE l.fullCalls < l.envelope.fullCalls

Permitted(l, delta) ==
    ~ l.invariantFailure /\ ~ l.permitOut /\ CallsLeft(l, delta) /\ Remaining(l) > 0

\* Mutant of NodeLimit: a permit is not cut to what is left.
NodeLimitAsRequested(l, requested) == IF requested = 0 THEN Remaining(l) ELSE requested

\* The limit of a permit; no request means all that is left.
NodeLimit(l, requested) ==
    IF requested = 0 \/ requested > Remaining(l) THEN Remaining(l) ELSE requested

\* reserveGeneration
ReserveGeneration(l, delta) ==
    IF Permitted(l, delta)
      THEN [l EXCEPT !.permitOut = TRUE,
                     !.deltaCalls = IF delta THEN @ + 1 ELSE @,
                     !.fullCalls = IF delta THEN @ ELSE @ + 1]
      ELSE IF l.invariantFailure \/ l.permitOut
             THEN [l EXCEPT !.invariantFailure = TRUE]
             ELSE [l EXCEPT !.exhausted = TRUE]

\* commit, of the permit that was reserved last.
Commit(l, delta, limit, visited) ==
    IF l.permitOut
      THEN LET total == l.nodes + visited
               over == visited > limit \/ total > l.envelope.nodes
           IN  [l EXCEPT !.permitOut = FALSE,
                         !.nodes = total,
                         !.deltaNodes = IF delta THEN @ + visited ELSE @,
                         !.invariantFailure = @ \/ over,
                         !.exhausted = @ \/ (~ over /\ total = l.envelope.nodes)]
      ELSE [l EXCEPT !.invariantFailure = TRUE]

-----------------------------------------------------------------------------
(* Worlds                                                                  *)

WorldsLeft(l) == ~ l.worldReserved /\ l.completed < l.envelope.worlds

\* reserveWorld
ReserveWorld(l) ==
    CASE l.worldReserved -> [l EXCEPT !.invariantFailure = TRUE]
      [] WorldsLeft(l) -> [l EXCEPT !.worldReserved = TRUE]
      [] OTHER -> [l EXCEPT !.exhausted = TRUE]

\* commitWorld
CommitWorld(l) ==
    IF l.worldReserved
      THEN [l EXCEPT !.worldReserved = FALSE,
                     !.completed = @ + 1,
                     !.exhausted = @ \/ l.completed + 1 = l.envelope.worlds]
      ELSE [l EXCEPT !.invariantFailure = TRUE]

\* discardWorld
DiscardWorld(l) ==
    IF l.worldReserved
      THEN [l EXCEPT !.worldReserved = FALSE, !.discarded = @ + 1]
      ELSE [l EXCEPT !.invariantFailure = TRUE]
=============================================================================
