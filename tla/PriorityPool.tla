---------------------------- MODULE PriorityPool -----------------------------
(***************************************************************************)
(* What the compute queue promises its callers, with nothing of how it     *)
(* does so: a pool of at most Capacity running jobs in front of which a    *)
(* bounded line waits.  The pool is never idle while somebody waits, a     *)
(* freed place goes to the best of the line, and a newcomer is turned away *)
(* only when the pool and the line are both full.                          *)
(***************************************************************************)
EXTENDS Integers, FiniteSets

CONSTANTS
    Jobs,       \* the jobs that may arrive
    Capacity,   \* places in the pool
    LineLimit   \* places in the line

VARIABLES
    place,   \* per job: "none" (not arrived), "waiting", "running", "settled", "refused"
    better   \* the pairs <<i, j>> of arrived jobs in which i goes before j

poolVars == <<place, better>>

At(where) == {j \in Jobs : place[j] = where}

\* i is in the line and nobody in the line goes before it.
First(i) == place[i] = "waiting" /\ \A j \in At("waiting") : <<j, i>> \notin better

PoolInit ==
    /\ place = [j \in Jobs |-> "none"]
    /\ better = {}

\* A newcomer is compared with everybody who has arrived, and with nobody
\* later: the order among those already there does not change.
Ranked(j) ==
    /\ better \subseteq better'
    /\ \A pair \in better' \ better : j \in {pair[1], pair[2]}

\* A newcomer takes a free place, which implies that nobody was waiting,
\* or goes to the line.
Enter(j) ==
    /\ place[j] = "none"
    /\ Ranked(j)
    /\ IF Cardinality(At("running")) < Capacity
         THEN At("waiting") = {} /\ place' = [place EXCEPT ![j] = "running"]
         ELSE /\ Cardinality(At("waiting")) < LineLimit
              /\ place' = [place EXCEPT ![j] = "waiting"]

TurnAway(j) ==
    /\ place[j] = "none"
    /\ Cardinality(At("running")) = Capacity
    /\ Cardinality(At("waiting")) = LineLimit
    /\ place' = [place EXCEPT ![j] = "refused"]
    /\ UNCHANGED better

\* A job leaves without having run: out of the line, or on arrival.
Leave(j) ==
    /\ \/ place[j] = "waiting" /\ UNCHANGED better
       \/ place[j] = "none" /\ Ranked(j) /\ Cardinality(At("running")) = Capacity
    /\ place' = [place EXCEPT ![j] = "settled"]

\* A run ends and, in the same step, its place goes to the first in line.
Depart(j) ==
    /\ place[j] = "running"
    /\ UNCHANGED better
    /\ \/ /\ At("waiting") = {}
          /\ place' = [place EXCEPT ![j] = "settled"]
       \/ \E i \in Jobs : /\ First(i)
                          /\ place' = [place EXCEPT ![j] = "settled", ![i] = "running"]

PoolNext == \E j \in Jobs : Enter(j) \/ TurnAway(j) \/ Leave(j) \/ Depart(j)

PoolSpec == PoolInit /\ [][PoolNext]_poolVars
=============================================================================
