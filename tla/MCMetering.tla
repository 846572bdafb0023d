----------------------------- MODULE MCMetering -----------------------------
(* Instances of Metering for TLC: one account with cheap and dear requests, *)
(* and another account beside it.                                           *)
EXTENDS Metering

MCUsers == {"u", "v"}
MCRequests == 1 .. 5
MCUserOf == [r \in MCRequests |-> IF r = 5 THEN "v" ELSE "u"]
MCCostOf == [r \in MCRequests |-> IF r \in {1, 2, 5} THEN 1 ELSE 2]

\* Requests that cost the same are made in the order of their numbers.
NumberedInOrder ==
    \A r, q \in MCRequests :
        (q < r /\ UserOf[q] = UserOf[r] /\ CostOf[q] = CostOf[r] /\ stage[r] # "idle")
            => stage[q] # "idle"
=============================================================================
