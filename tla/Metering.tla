------------------------------ MODULE Metering ------------------------------
(***************************************************************************)
(* The compute budget of an account (ComputeBudget in                      *)
(* service/src/rateLimit.ts) and the way the handlers of app.ts use it: a  *)
(* request is charged before its job is submitted, and the charge is       *)
(* undone at most once, because the job was shared or because it failed.   *)
(*                                                                         *)
(* Charging and submitting happen in one turn of the event loop, so a      *)
(* shared job is credited in the turn of its charge.  A failure comes      *)
(* later: the clock has moved on, and perhaps the window has, too.         *)
(***************************************************************************)
EXTENDS Integers, FiniteSets, Functions

CONSTANTS
    Users,
    Requests,
    UserOf,        \* the account that makes each request
    CostOf,        \* what each request costs
    PerWindow,     \* budgetPerWindow
    WindowLength,  \* budgetWindowMs
    MaxTime,       \* bound of the clock
    None           \* "no window"

Window == [spent : Nat, resetAt : Nat]

ASSUME NoneAssumption == None \notin Window
ASSUME RequestsAssumption ==
    /\ IsFiniteSet(Requests)
    /\ UserOf \in [Requests -> Users]
    /\ CostOf \in [Requests -> Nat \ {0}]
ASSUME WindowAssumption ==
    PerWindow \in Nat /\ WindowLength \in Nat \ {0} /\ MaxTime \in Nat

VARIABLES
    windows,    \* #windows, one per account that was charged
    stage,      \* per request: "idle", "owing", "shared" or "done"
    refunded,   \* per request: its handler has undone the charge
    chargedAt,  \* per request: when it was charged (history)
    lateCredit, \* accounts credited for a charge of an earlier window (history)
    now         \* Date.now()

vars == <<windows, stage, refunded, chargedAt, lateCredit, now>>

TypeOK ==
    /\ windows \in [Users -> Window \cup {None}]
    /\ stage \in [Requests -> {"idle", "owing", "shared", "done"}]
    /\ refunded \in [Requests -> BOOLEAN]
    /\ chargedAt \in [Requests -> 0 .. MaxTime]
    /\ lateCredit \in SUBSET Users
    /\ now \in 0 .. MaxTime

Init ==
    /\ windows = [u \in Users |-> None]
    /\ stage = [r \in Requests |-> "idle"]
    /\ refunded = [r \in Requests |-> FALSE]
    /\ chargedAt = [r \in Requests |-> 0]
    /\ lateCredit = {}
    /\ now = 0

-----------------------------------------------------------------------------
(* ComputeBudget                                                           *)

Open(u) == windows[u] # None /\ windows[u].resetAt > now

\* Mutant of Allowed: the ceiling is met before the charge.
AllowedBefore(u, cost) == Open(u) => windows[u].spent < PerWindow

\* A charge is refused only by an open window: the one that opens a window is
\* not compared with the budget.
Allowed(u, cost) == Open(u) => windows[u].spent + cost <= PerWindow

\* The window after an allowed charge.
Charged(u, cost) ==
    IF Open(u) THEN [windows[u] EXCEPT !.spent = @ + cost]
               ELSE [spent |-> cost, resetAt |-> now + WindowLength]

\* refund: the credit goes to whatever window the account has by now.
Credited(window, cost) ==
    IF window = None
      THEN None
      ELSE [window EXCEPT !.spent = IF @ > cost THEN @ - cost ELSE 0]

\* sweep, on a timer.
Sweep ==
    /\ windows' = [u \in Users |-> IF Open(u) THEN windows[u] ELSE None]
    /\ UNCHANGED <<stage, refunded, chargedAt, lateCredit, now>>

-----------------------------------------------------------------------------
(* The handlers                                                            *)

\* A request is charged and starts a job of its own.
ChargeAndStart(r) ==
    LET u == UserOf[r]
    IN  /\ stage[r] = "idle"
        /\ Allowed(u, CostOf[r])
        /\ windows' = [windows EXCEPT ![u] = Charged(u, CostOf[r])]
        /\ stage' = [stage EXCEPT ![r] = "owing"]
        /\ chargedAt' = [chargedAt EXCEPT ![r] = now]
        /\ UNCHANGED <<refunded, lateCredit, now>>

\* A request is charged and turns out to join a job or a result that exists:
\* onReused undoes the charge.
ChargeAndShare(r) ==
    LET u == UserOf[r]
    IN  /\ stage[r] = "idle"
        /\ Allowed(u, CostOf[r])
        /\ windows' = [windows EXCEPT ![u] = Credited(Charged(u, CostOf[r]), CostOf[r])]
        /\ stage' = [stage EXCEPT ![r] = "shared"]
        /\ refunded' = [refunded EXCEPT ![r] = TRUE]
        /\ chargedAt' = [chargedAt EXCEPT ![r] = now]
        /\ UNCHANGED <<lateCredit, now>>

\* The job is answered: the charge stands, or stays undone.
Answered(r) ==
    /\ stage[r] \in {"owing", "shared"}
    /\ stage' = [stage EXCEPT ![r] = "done"]
    /\ UNCHANGED <<windows, refunded, chargedAt, lateCredit, now>>

\* Whether the window in which r was charged is still the account's window.
SameWindow(r) ==
    LET w == windows[UserOf[r]]
    IN  w # None /\ chargedAt[r] < w.resetAt /\ chargedAt[r] >= w.resetAt - WindowLength

\* Mutant of Failed: the handler does not remember that it was undone.
FailedTwice(r) ==
    LET u == UserOf[r]
    IN  /\ stage[r] \in {"owing", "shared"}
        /\ stage' = [stage EXCEPT ![r] = "done"]
        /\ refunded' = [refunded EXCEPT ![r] = TRUE]
        /\ windows' = [windows EXCEPT ![u] = Credited(@, CostOf[r])]
        /\ lateCredit' = IF ~ SameWindow(r) /\ windows[u] # None
                           THEN lateCredit \cup {u} ELSE lateCredit
        /\ UNCHANGED <<chargedAt, now>>

\* The job failed: the charge is undone unless it was before.
Failed(r) ==
    LET u == UserOf[r]
    IN  /\ stage[r] \in {"owing", "shared"}
        /\ stage' = [stage EXCEPT ![r] = "done"]
        /\ refunded' = [refunded EXCEPT ![r] = TRUE]
        /\ IF refunded[r]
             THEN UNCHANGED <<windows, lateCredit>>
             ELSE /\ windows' = [windows EXCEPT ![u] = Credited(@, CostOf[r])]
                  /\ lateCredit' = IF ~ SameWindow(r) /\ windows[u] # None
                                     THEN lateCredit \cup {u} ELSE lateCredit
        /\ UNCHANGED <<chargedAt, now>>

Tick ==
    /\ now < MaxTime
    /\ now' = now + 1
    /\ UNCHANGED <<windows, stage, refunded, chargedAt, lateCredit>>

Next ==
    \/ \E r \in Requests : ChargeAndStart(r) \/ ChargeAndShare(r) \/ Answered(r) \/ Failed(r)
    \/ Sweep
    \/ Tick

Spec == Init /\ [][Next]_vars
-----------------------------------------------------------------------------
(* Properties                                                              *)

\* The requests of u whose charge stands.
Billed(u) == {r \in Requests : UserOf[r] = u /\ stage[r] # "idle" /\ ~ refunded[r]}

BilledFrom(u, first, last) ==
    SumFunctionOnSet(CostOf, {r \in Billed(u) : chargedAt[r] \in first .. last})

\* The books balance: until a credit reaches the wrong window, what the window
\* says was spent is what the account was billed for in it, whatever was
\* shared, failed, swept or expired meanwhile.
BooksBalance ==
    TypeOK /\ \A u \in Users :
        (Open(u) /\ u \notin lateCredit)
            => windows[u].spent = BilledFrom(u, windows[u].resetAt - WindowLength, now)

\* However the account times its requests, no interval as long as a window
\* holds more than two budgets of billed work, unless a credit went astray.
TwiceTheBudgetAtMost ==
    \A u \in Users \ lateCredit : \A first \in 0 .. now :
        BilledFrom(u, first, first + WindowLength - 1) <= 2 * PerWindow

\* As app.ts says of refunds, no handler may "hand out budget that was never
\* spent": within one open window the billed work stays within the budget.
\* It fails: a failure credits a window that never held its charge.
NeverHandsOutBudget ==
    \A u \in Users :
        Open(u) => BilledFrom(u, windows[u].resetAt - WindowLength, now) <= PerWindow
=============================================================================
