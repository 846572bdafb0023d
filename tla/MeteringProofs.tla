--------------------------- MODULE MeteringProofs ---------------------------
(***************************************************************************)
(* Proofs about the compute budget, for every set of accounts and requests *)
(* and every cost, budget and window.                                      *)
(***************************************************************************)
EXTENDS Metering, Induction

USE NoneAssumption, RequestsAssumption, WindowAssumption

\* The requests whose charges stand and were made between two moments.
Bill(u, first, last) == {r \in Billed(u) : chargedAt[r] \in first .. last}

\* Nobody is charged before the request is made, or in the future.
Dated ==
    \A r \in Requests :
        /\ stage[r] = "idle" => ~ refunded[r]
        /\ stage[r] # "idle" => chargedAt[r] <= now

\* A window opened when or before the clock showed its first moment, and every
\* charge that stands lies in the open window or before the present moment.
Framed ==
    \A u \in Users :
        /\ Open(u) => windows[u].resetAt - WindowLength \in 0 .. now
        /\ ~ Open(u) => \A r \in Billed(u) : chargedAt[r] < now

\* The inductive invariant of the books.
MeterInv == BooksBalance /\ Dated /\ Framed

-----------------------------------------------------------------------------
(* Types                                                                   *)

LEMMA CreditType ==
    ASSUME NEW w \in Window \cup {None}, NEW c \in Nat
    PROVE  Credited(w, c) \in Window \cup {None}
BY DEF Credited, Window

LEMMA ChargeType ==
    ASSUME TypeOK, NEW u \in Users, NEW c \in Nat
    PROVE  Charged(u, c) \in Window
BY DEF TypeOK, Charged, Open, Window

\* Every operation keeps every variable in its type.
LEMMA TypePreserved == TypeOK /\ [Next]_vars => TypeOK'
<1> SUFFICES ASSUME TypeOK, [Next]_vars PROVE TypeOK'
  OBVIOUS
<1>1. ASSUME NEW r \in Requests, ChargeAndStart(r) PROVE TypeOK'
  <2>1. Charged(UserOf[r], CostOf[r]) \in Window
    BY ChargeType
  <2> QED
    BY <1>1, <2>1 DEF ChargeAndStart, TypeOK
<1>2. ASSUME NEW r \in Requests, ChargeAndShare(r) PROVE TypeOK'
  <2>1. Credited(Charged(UserOf[r], CostOf[r]), CostOf[r]) \in Window \cup {None}
    BY ChargeType, CreditType
  <2> QED
    BY <1>2, <2>1 DEF ChargeAndShare, TypeOK
<1>3. ASSUME NEW r \in Requests, Answered(r) PROVE TypeOK'
  BY <1>3 DEF Answered, TypeOK
<1>4. ASSUME NEW r \in Requests, Failed(r) PROVE TypeOK'
  <2>1. Credited(windows[UserOf[r]], CostOf[r]) \in Window \cup {None}
    BY CreditType DEF TypeOK
  <2> QED
    BY <1>4, <2>1 DEF Failed, TypeOK
<1>5. CASE Sweep
  BY <1>5 DEF Sweep, TypeOK
<1>6. CASE Tick
  BY <1>6 DEF Tick, TypeOK
<1>7. CASE UNCHANGED vars
  BY <1>7 DEF vars, TypeOK
<1> QED
  BY <1>1, <1>2, <1>3, <1>4, <1>5, <1>6, <1>7 DEF Next

\* What the account was billed for is a natural number.
LEMMA BillType ==
    ASSUME NEW T \in SUBSET Requests
    PROVE  /\ IsFiniteSet(T) /\ SumFunctionOnSet(CostOf, T) \in Nat
           /\ \A r \in T : /\ SumFunctionOnSet(CostOf, T)
                                = CostOf[r] + SumFunctionOnSet(CostOf, T \ {r})
                           /\ SumFunctionOnSet(CostOf, T \ {r}) \in Nat
<1>1. IsFiniteSet(T) /\ \A r \in T : CostOf[r] \in Nat /\ CostOf[r] \in Int
  BY FS_Subset
<1>2. SumFunctionOnSet(CostOf, T) \in Nat /\ \A r \in T : SumFunctionOnSet(CostOf, T \ {r}) \in Nat
  BY <1>1, SumSubset
<1> QED
  BY <1>1, <1>2, SumRemove

-----------------------------------------------------------------------------
(* What a step means for one account                                       *)

\* The bill of u and the dates on it stay.
SameBill(u) == Billed(u)' = Billed(u) /\ \A r \in Billed(u) : chargedAt'[r] = chargedAt[r]

\* r comes on the bill of u, now.
Bills(u, r) ==
    /\ r \in Requests \ Billed(u) /\ Billed(u)' = Billed(u) \cup {r}
    /\ chargedAt'[r] = now
    /\ \A q \in Billed(u) : chargedAt'[q] = chargedAt[q]

\* The account is left alone, or its window runs out or is swept.
Quiet(u) ==
    /\ SameBill(u) /\ now' \in {now, now + 1}
    /\ Open(u)' => Open(u) /\ windows'[u].spent = windows[u].spent
                           /\ windows'[u].resetAt = windows[u].resetAt
    /\ now' = now => (Open(u)' <=> Open(u))
    /\ Open(u) /\ ~ Open(u)' => windows[u].resetAt <= now'

ChargesOpen(u) ==
    \E r \in Requests :
        /\ Bills(u, r) /\ now' = now /\ Open(u) /\ Open(u)'
        /\ windows[u].spent + CostOf[r] <= PerWindow
        /\ windows'[u].spent = windows[u].spent + CostOf[r]
        /\ windows'[u].resetAt = windows[u].resetAt

Opens(u) ==
    /\ now' = now /\ ~ Open(u) /\ Open(u)' /\ windows'[u].resetAt = now + WindowLength
    /\ \/ SameBill(u) /\ windows'[u].spent = 0
       \/ \E r \in Requests : Bills(u, r) /\ windows'[u].spent = CostOf[r]

Undoes(u) ==
    \E r \in Billed(u) :
        /\ Billed(u)' = Billed(u) \ {r} /\ chargedAt' = chargedAt /\ now' = now
        /\ Open(u)' <=> Open(u)
        /\ Open(u) => /\ windows'[u].resetAt = windows[u].resetAt
                      /\ u \notin lateCredit' => SameWindow(r)
                      /\ windows'[u].spent = IF windows[u].spent > CostOf[r]
                                               THEN windows[u].spent - CostOf[r] ELSE 0

LEMMA StartForUser ==
    ASSUME TypeOK, Dated, NEW r \in Requests, ChargeAndStart(r), NEW u \in Users
    PROVE  Quiet(u) \/ ChargesOpen(u) \/ Opens(u)
<1>1. /\ UserOf[r] \in Users /\ CostOf[r] \in Nat
      /\ stage[r] = "idle" /\ ~ refunded[r] /\ Allowed(UserOf[r], CostOf[r])
      /\ windows' = [windows EXCEPT ![UserOf[r]] = Charged(UserOf[r], CostOf[r])]
      /\ stage' = [stage EXCEPT ![r] = "owing"]
      /\ chargedAt' = [chargedAt EXCEPT ![r] = now]
      /\ UNCHANGED <<refunded, lateCredit, now>>
  BY DEF ChargeAndStart, Dated
<1>2. /\ windows \in [Users -> Window \cup {None}] /\ now \in Nat
      /\ stage \in [Requests -> {"idle", "owing", "shared", "done"}]
      /\ chargedAt \in [Requests -> 0 .. MaxTime]
  BY DEF TypeOK
<1>3. CASE u # UserOf[r]
  <2>1. SameBill(u)
    BY <1>1, <1>2, <1>3 DEF SameBill, Billed
  <2> QED
    BY <1>1, <1>2, <1>3, <2>1 DEF Quiet, Open
<1>4. CASE u = UserOf[r]
  <2>1. Bills(u, r)
    BY <1>1, <1>2, <1>4 DEF Bills, Billed
  <2>2. windows'[u] = Charged(u, CostOf[r]) /\ Charged(u, CostOf[r]) \in Window
    BY <1>1, <1>2, <1>4, ChargeType
  <2>3. CASE Open(u)
    <3>1. windows[u] \in Window /\ windows[u].spent + CostOf[r] <= PerWindow
      BY <1>1, <1>2, <1>4, <2>3 DEF Open, Allowed
    <3>2. /\ windows'[u].spent = windows[u].spent + CostOf[r]
          /\ windows'[u].resetAt = windows[u].resetAt
      BY <2>2, <2>3, <3>1 DEF Charged, Window
    <3>3. Open(u)'
      BY <1>1, <1>2, <2>2, <2>3, <3>2 DEF Open
    <3> QED
      BY <1>1, <2>1, <2>3, <3>1, <3>2, <3>3 DEF ChargesOpen
  <2>4. CASE ~ Open(u)
    <3>1. windows'[u].spent = CostOf[r] /\ windows'[u].resetAt = now + WindowLength
      BY <2>2, <2>4 DEF Charged
    <3>2. Open(u)'
      BY <1>1, <1>2, <2>2, <3>1 DEF Open
    <3> QED
      BY <1>1, <2>1, <2>4, <3>1, <3>2 DEF Opens
  <2> QED
    BY <2>3, <2>4
<1> QED
  BY <1>3, <1>4

LEMMA ShareForUser ==
    ASSUME TypeOK, Dated, NEW r \in Requests, ChargeAndShare(r), NEW u \in Users
    PROVE  Quiet(u) \/ Opens(u)
<1>1. /\ UserOf[r] \in Users /\ CostOf[r] \in Nat \ {0} /\ stage[r] = "idle"
      /\ windows' = [windows EXCEPT ![UserOf[r]] =
                       Credited(Charged(UserOf[r], CostOf[r]), CostOf[r])]
      /\ stage' = [stage EXCEPT ![r] = "shared"]
      /\ refunded' = [refunded EXCEPT ![r] = TRUE]
      /\ chargedAt' = [chargedAt EXCEPT ![r] = now]
      /\ UNCHANGED <<lateCredit, now>>
  BY DEF ChargeAndShare
<1>2. /\ windows \in [Users -> Window \cup {None}] /\ now \in Nat
      /\ stage \in [Requests -> {"idle", "owing", "shared", "done"}]
      /\ refunded \in [Requests -> BOOLEAN]
      /\ chargedAt \in [Requests -> 0 .. MaxTime]
  BY DEF TypeOK
<1>3. SameBill(u)
  BY <1>1, <1>2 DEF SameBill, Billed
<1>4. CASE u # UserOf[r]
  BY <1>1, <1>2, <1>3, <1>4 DEF Quiet, Open
<1>5. CASE u = UserOf[r]
  <2> DEFINE w == Charged(u, CostOf[r])
  <2>1. w \in Window /\ windows'[u] = Credited(w, CostOf[r])
    BY <1>1, <1>2, <1>5, ChargeType
  <2>2. CASE Open(u)
    <3>1. windows[u] \in Window /\ windows[u].resetAt > now
      BY <1>2, <2>2 DEF Open
    <3>2. w.spent = windows[u].spent + CostOf[r] /\ w.resetAt = windows[u].resetAt
      BY <2>2, <3>1 DEF Charged, Window
    <3>3. windows[u].spent \in Nat
      BY <3>1 DEF Window
    <3> HIDE DEF w
    <3>4. /\ windows'[u] \in Window /\ windows'[u].spent = windows[u].spent
          /\ windows'[u].resetAt = windows[u].resetAt
      BY <1>1, <2>1, <3>2, <3>3 DEF Credited, Window
    <3>5. Open(u)'
      BY <1>1, <3>1, <3>4 DEF Open
    <3> QED
      BY <1>1, <1>3, <2>2, <3>4, <3>5 DEF Quiet
  <2>3. CASE ~ Open(u)
    <3>1. w.spent = CostOf[r] /\ w.resetAt = now + WindowLength
      BY <2>3 DEF Charged
    <3> HIDE DEF w
    <3>2. /\ windows'[u] \in Window /\ windows'[u].spent = 0
          /\ windows'[u].resetAt = now + WindowLength
      BY <1>1, <2>1, <3>1 DEF Credited, Window
    <3>3. Open(u)'
      BY <1>1, <1>2, <3>2 DEF Open
    <3> QED
      BY <1>1, <1>3, <2>3, <3>2, <3>3 DEF Opens
  <2> QED
    BY <2>2, <2>3
<1> QED
  BY <1>4, <1>5

LEMMA FailureForUser ==
    ASSUME TypeOK, NEW r \in Requests, Failed(r), NEW u \in Users
    PROVE  Quiet(u) \/ Undoes(u)
<1>1. /\ UserOf[r] \in Users /\ CostOf[r] \in Nat /\ stage[r] # "idle"
      /\ stage' = [stage EXCEPT ![r] = "done"]
      /\ refunded' = [refunded EXCEPT ![r] = TRUE]
      /\ UNCHANGED <<chargedAt, now>>
  BY DEF Failed
<1>2. /\ windows \in [Users -> Window \cup {None}] /\ now \in Nat
      /\ stage \in [Requests -> {"idle", "owing", "shared", "done"}]
      /\ refunded \in [Requests -> BOOLEAN]
  BY DEF TypeOK
<1>3. CASE refunded[r]
  <2>1. SameBill(u) /\ windows' = windows
    BY <1>1, <1>2, <1>3 DEF SameBill, Billed, Failed
  <2> QED
    BY <1>1, <1>2, <2>1 DEF Quiet, Open
<1>4. CASE ~ refunded[r]
  <2>1. /\ windows' = [windows EXCEPT ![UserOf[r]] = Credited(@, CostOf[r])]
        /\ lateCredit' = IF ~ SameWindow(r) /\ windows[UserOf[r]] # None
                           THEN lateCredit \cup {UserOf[r]} ELSE lateCredit
    BY <1>4 DEF Failed
  <2>2. CASE u # UserOf[r]
    <3>1. SameBill(u) /\ windows'[u] = windows[u]
      BY <1>1, <1>2, <2>1, <2>2 DEF SameBill, Billed
    <3> QED
      BY <1>1, <1>2, <3>1 DEF Quiet, Open
  <2>3. CASE u = UserOf[r]
    <3>1. r \in Billed(u) /\ Billed(u)' = Billed(u) \ {r}
      BY <1>1, <1>2, <1>4, <2>3 DEF Billed
    <3>2. windows'[u] = Credited(windows[u], CostOf[r])
      BY <1>1, <1>2, <2>1, <2>3
    <3>3. CASE windows[u] = None
      <4>1. windows'[u] = None
        BY <3>2, <3>3 DEF Credited
      <4> QED
        BY <1>1, <3>1, <3>3, <4>1 DEF Undoes, Open
    <3>4. CASE windows[u] # None
      <4>1. /\ windows[u] \in Window /\ windows'[u] \in Window
            /\ windows'[u].resetAt = windows[u].resetAt
            /\ windows'[u].spent = IF windows[u].spent > CostOf[r]
                                     THEN windows[u].spent - CostOf[r] ELSE 0
        BY <1>1, <1>2, <3>2, <3>4 DEF Credited, Window
      <4>2. u \notin lateCredit' => SameWindow(r)
        BY <2>1, <2>3, <3>4
      <4>3. Open(u)' <=> Open(u)
        BY <1>1, <4>1 DEF Open
      <4> QED
        BY <1>1, <3>1, <4>1, <4>2, <4>3 DEF Undoes
    <3> QED
      BY <3>3, <3>4
  <2> QED
    BY <2>2, <2>3
<1> QED
  BY <1>3, <1>4

\* What any step means for the window and the bill of an account.
LEMMA StepForUser ==
    ASSUME TypeOK, Dated, [Next]_vars, NEW u \in Users
    PROVE  Quiet(u) \/ ChargesOpen(u) \/ Opens(u) \/ Undoes(u)
<1>0. windows \in [Users -> Window \cup {None}] /\ now \in Nat
  BY DEF TypeOK
<1>1. ASSUME NEW r \in Requests, Answered(r) PROVE Quiet(u)
  <2>1. SameBill(u)
    BY <1>1 DEF Answered, SameBill, Billed, TypeOK
  <2> QED
    BY <1>1, <2>1 DEF Answered, Quiet, Open
<1>2. CASE Sweep
  <2>1. SameBill(u) /\ now' = now
    BY <1>2 DEF Sweep, SameBill, Billed
  <2>2. windows'[u] = IF Open(u) THEN windows[u] ELSE None
    BY <1>2 DEF Sweep
  <2> QED
    BY <2>1, <2>2 DEF Quiet, Open
<1>3. CASE Tick
  <2>1. SameBill(u) /\ windows'[u] = windows[u] /\ now' = now + 1
    BY <1>3 DEF Tick, SameBill, Billed
  <2>2. Open(u)' => Open(u)
    BY <1>0, <2>1 DEF Open, Window
  <2>3. Open(u) /\ ~ Open(u)' => windows[u].resetAt <= now'
    BY <1>0, <2>1 DEF Open, Window
  <2> QED
    BY <1>0, <2>1, <2>2, <2>3 DEF Quiet
<1>4. CASE UNCHANGED vars
  <2>1. SameBill(u)
    BY <1>4 DEF vars, SameBill, Billed
  <2> QED
    BY <1>4, <2>1 DEF vars, Quiet, Open
<1> QED
  BY <1>1, <1>2, <1>3, <1>4, StartForUser, ShareForUser, FailureForUser DEF Next

LEMMA DatedKept == TypeOK /\ Dated /\ [Next]_vars => Dated'
BY DEF TypeOK, Dated, Next, vars, ChargeAndStart, ChargeAndShare, Answered, Failed, Sweep, Tick

LEMMA CreditsStay == TypeOK /\ [Next]_vars => lateCredit \subseteq lateCredit'
BY DEF TypeOK, Next, vars, ChargeAndStart, ChargeAndShare, Answered, Failed, Sweep, Tick

-----------------------------------------------------------------------------
(* The books                                                               *)

\* Charges that stand were made at known moments, none in the future.
LEMMA BillDates ==
    ASSUME TypeOK, Dated, NEW u
    PROVE  /\ now \in Nat /\ Billed(u) \in SUBSET Requests
           /\ \A r \in Billed(u) : chargedAt[r] \in Nat /\ chargedAt[r] <= now
BY DEF TypeOK, Dated, Billed

LEMMA WindowDates ==
    ASSUME TypeOK, NEW u \in Users, Open(u)
    PROVE  windows[u].resetAt \in Nat /\ windows[u].spent \in Nat
BY DEF TypeOK, Open, Window

LEMMA FramedKept ==
    ASSUME MeterInv, [Next]_vars
    PROVE  Framed'
<1> SUFFICES ASSUME NEW u \in Users
             PROVE  /\ Open(u)' => windows'[u].resetAt - WindowLength \in 0 .. now'
                    /\ ~ Open(u)' => \A r \in Billed(u)' : chargedAt'[r] < now'
  BY DEF Framed
<1>1. /\ TypeOK /\ Dated /\ now \in Nat
      /\ Open(u) => /\ windows[u].resetAt - WindowLength \in 0 .. now
                    /\ windows[u].resetAt \in Nat
      /\ ~ Open(u) => \A r \in Billed(u) : chargedAt[r] < now
      /\ \A r \in Billed(u) : chargedAt[r] \in Nat /\ chargedAt[r] <= now
  BY BillDates, WindowDates DEF MeterInv, BooksBalance, Framed
<1>2. CASE Quiet(u)
  BY <1>1, <1>2 DEF Quiet, SameBill
<1>3. CASE ChargesOpen(u)
  BY <1>1, <1>3 DEF ChargesOpen
<1>4. CASE Opens(u)
  BY <1>1, <1>4 DEF Opens
<1>5. CASE Undoes(u)
  BY <1>1, <1>5 DEF Undoes
<1> QED
  BY <1>1, <1>2, <1>3, <1>4, <1>5, StepForUser

LEMMA BalanceKept ==
    ASSUME MeterInv, [Next]_vars, NEW u \in Users, Open(u)', u \notin lateCredit'
    PROVE  windows'[u].spent
             = SumFunctionOnSet(CostOf, Bill(u, windows[u].resetAt - WindowLength, now)')
<1> DEFINE first == windows[u].resetAt - WindowLength
           bill == Bill(u, first, now)
<1>1. /\ TypeOK /\ Dated /\ now \in Nat /\ Billed(u) \in SUBSET Requests
      /\ \A r \in Billed(u) : chargedAt[r] \in Nat /\ chargedAt[r] <= now
  BY BillDates DEF MeterInv, BooksBalance
<1>2. u \notin lateCredit
  BY <1>1, CreditsStay
<1>3. Open(u) => /\ first \in 0 .. now /\ windows[u].resetAt \in Nat /\ windows[u].spent \in Nat
                 /\ windows[u].spent = SumFunctionOnSet(CostOf, bill)
  BY <1>1, <1>2, WindowDates DEF MeterInv, BooksBalance, Framed, BilledFrom, Bill
<1>4. bill \in SUBSET Requests
  BY <1>1 DEF Bill
<1>5. CASE Quiet(u)
  <2>1. Open(u) /\ first' = first /\ windows'[u].spent = windows[u].spent
    BY <1>5 DEF Quiet
  <2>2. now' \in {now, now + 1} /\ Billed(u)' = Billed(u)
        /\ \A r \in Billed(u) : chargedAt'[r] = chargedAt[r]
    BY <1>5 DEF Quiet, SameBill
  <2> HIDE DEF first
  <2>3. Bill(u, first, now)' = Bill(u, first, now)
    BY <1>1, <1>3, <2>1, <2>2 DEF Bill
  <2> QED
    BY <1>3, <2>1, <2>3 DEF first
<1>6. CASE ChargesOpen(u)
  <2>1. PICK r \in Requests :
          /\ Bills(u, r) /\ now' = now /\ Open(u)
          /\ windows'[u].spent = windows[u].spent + CostOf[r]
          /\ windows'[u].resetAt = windows[u].resetAt
    BY <1>6 DEF ChargesOpen
  <2>2. first' = first
    BY <2>1
  <2> HIDE DEF first
  <2>3. Bill(u, first, now)' = bill \cup {r} /\ r \notin bill
    BY <1>1, <1>3, <2>1, <2>2 DEF Bill, Bills
  <2>4. bill \cup {r} \in SUBSET Requests /\ (bill \cup {r}) \ {r} = bill
    BY <1>4, <2>3
  <2>5. SumFunctionOnSet(CostOf, bill \cup {r}) = CostOf[r] + SumFunctionOnSet(CostOf, bill)
    BY <2>4, BillType
  <2>6. CostOf[r] \in Nat
    OBVIOUS
  <2> HIDE DEF bill
  <2>7. windows'[u].spent = SumFunctionOnSet(CostOf, bill \cup {r})
    BY <1>3, <2>1, <2>5, <2>6
  <2> QED
    BY <2>3, <2>7 DEF first
<1>7. CASE Opens(u)
  <2>1. /\ now' = now /\ ~ Open(u) /\ windows'[u].resetAt = now + WindowLength
        /\ \A r \in Billed(u) : chargedAt[r] < now
    BY <1>7 DEF Opens, MeterInv, Framed
  <2>2. first' = now
    BY <1>1, <2>1
  <2> HIDE DEF first
  <2>3. CASE SameBill(u) /\ windows'[u].spent = 0
    <3>1. Bill(u, first, now)' = {}
      BY <1>1, <2>1, <2>2, <2>3 DEF Bill, SameBill
    <3> QED
      BY <2>3, <3>1, SumEmpty DEF first
  <2>4. ASSUME NEW r \in Requests, Bills(u, r), windows'[u].spent = CostOf[r]
        PROVE  windows'[u].spent = SumFunctionOnSet(CostOf, Bill(u, first, now)')
    <3>1. Bill(u, first, now)' = {r}
      BY <1>1, <2>1, <2>2, <2>4 DEF Bill, Bills
    <3>2. SumFunctionOnSet(CostOf, {r}) = CostOf[r] + SumFunctionOnSet(CostOf, {r} \ {r})
      BY BillType
    <3>3. {r} \ {r} = {} /\ CostOf[r] \in Nat
      OBVIOUS
    <3>4. SumFunctionOnSet(CostOf, {r} \ {r}) = 0
      BY <3>3, SumEmpty, Zenon
    <3>5. SumFunctionOnSet(CostOf, {r}) = CostOf[r]
      BY <3>2, <3>3, <3>4
    <3> QED
      BY <2>4, <3>1, <3>5, Zenon
  <2> QED
    BY <1>7, <2>3, <2>4 DEF Opens, first
<1>8. CASE Undoes(u)
  <2>1. PICK r \in Billed(u) :
          /\ Billed(u)' = Billed(u) \ {r} /\ chargedAt' = chargedAt /\ now' = now
          /\ Open(u) /\ windows'[u].resetAt = windows[u].resetAt /\ SameWindow(r)
          /\ windows'[u].spent = IF windows[u].spent > CostOf[r]
                                   THEN windows[u].spent - CostOf[r] ELSE 0
    BY <1>8 DEF Undoes
  <2>2. first' = first /\ chargedAt[r] >= first
    BY <2>1 DEF SameWindow, Billed
  <2> HIDE DEF first
  <2>3. r \in bill /\ Bill(u, first, now)' = bill \ {r}
    BY <1>1, <1>3, <2>1, <2>2 DEF Bill
  <2>4. /\ SumFunctionOnSet(CostOf, bill) = CostOf[r] + SumFunctionOnSet(CostOf, bill \ {r})
        /\ SumFunctionOnSet(CostOf, bill \ {r}) \in Nat
    BY <1>4, <2>3, BillType
  <2>5. CostOf[r] \in Nat
    BY <1>1, <2>1
  <2> HIDE DEF bill
  <2>6. windows'[u].spent = SumFunctionOnSet(CostOf, bill \ {r})
    BY <1>3, <2>1, <2>4, <2>5
  <2> QED
    BY <2>3, <2>6 DEF first
<1> QED
  BY <1>1, <1>5, <1>6, <1>7, <1>8, StepForUser

LEMMA MeterInvInitial == Init => MeterInv
<1> SUFFICES ASSUME Init PROVE MeterInv
  OBVIOUS
<1>1. TypeOK /\ \A u \in Users : ~ Open(u) /\ Billed(u) = {}
  BY DEF Init, TypeOK, Open, Billed
<1> QED
  BY <1>1 DEF Init, MeterInv, BooksBalance, Dated, Framed

LEMMA MeterInvPreserved == MeterInv /\ [Next]_vars => MeterInv'
<1> SUFFICES ASSUME MeterInv, [Next]_vars PROVE MeterInv'
  OBVIOUS
<1>1. TypeOK' /\ Dated' /\ Framed'
  BY TypePreserved, DatedKept, FramedKept DEF MeterInv, BooksBalance
<1>2. BooksBalance'
  BY <1>1, BalanceKept DEF BooksBalance, BilledFrom, Bill
<1> QED
  BY <1>1, <1>2 DEF MeterInv

\* At every step the windows are dated right and the books balance.
THEOREM MeterInvHolds == Spec => []MeterInv
BY MeterInvInitial, MeterInvPreserved, PTL DEF Spec

\* What an open window says was spent is what the account was billed for in
\* it, unless a credit reached the wrong window.
THEOREM BooksBalanceAlways == Spec => []BooksBalance
<1>1. MeterInv => BooksBalance
  BY DEF MeterInv
<1> QED
  BY <1>1, MeterInvHolds, PTL

-----------------------------------------------------------------------------
(* Two budgets                                                             *)

\* A history of the windows of an account: they do not overlap, every charge
\* that stands lies in one, and none holds more than the ceiling.
History(u, starts, ceiling) ==
    /\ \A s \in starts : s <= now
    /\ \A s, t \in starts : s < t => s + WindowLength <= t
    /\ \A r \in Billed(u) : \E s \in starts : chargedAt[r] \in s .. s + WindowLength - 1
    /\ \A s \in starts : BilledFrom(u, s, s + WindowLength - 1) <= ceiling
    /\ IF Open(u) THEN windows[u].resetAt - WindowLength \in starts
                  ELSE \A s \in starts : s + WindowLength <= now

\* The inductive invariant of the spending: the windows of the past are not
\* remembered anywhere, but there is such a history.
SpendingInv(ceiling) ==
    /\ MeterInv
    /\ \A u \in Users \ lateCredit : \E starts \in SUBSET Nat : History(u, starts, ceiling)

\* The charges that stand between two moments cost less when some are undone.
LEMMA BillShrinks ==
    ASSUME TypeOK, NEW u, Billed(u)' \subseteq Billed(u),
           \A r \in Billed(u)' : chargedAt'[r] = chargedAt[r], NEW a \in Int, NEW b \in Int
    PROVE  BilledFrom(u, a, b)' <= BilledFrom(u, a, b)
<1>1. Bill(u, a, b)' \subseteq Bill(u, a, b) /\ Bill(u, a, b) \in SUBSET Requests
  BY DEF Bill, Billed
<1>2. IsFiniteSet(Bill(u, a, b)) /\ \A r \in Bill(u, a, b) : CostOf[r] \in Nat
  BY <1>1, FS_Subset
<1> HIDE DEF Bill
<1>3. SumFunctionOnSet(CostOf, Bill(u, a, b)') <= SumFunctionOnSet(CostOf, Bill(u, a, b))
  BY <1>1, <1>2, SumSubset
<1> QED
  BY <1>3 DEF BilledFrom, Bill

\* Within an interval as long as a window fall charges of two windows at most.
LEMMA TwoWindows ==
    ASSUME TypeOK, Dated, NEW u, NEW ceiling \in Nat, NEW starts \in SUBSET Nat,
           History(u, starts, ceiling), NEW first \in Nat
    PROVE  BilledFrom(u, first, first + WindowLength - 1) <= 2 * ceiling
<1> DEFINE In(s) == Bill(u, s, s + WindowLength - 1)
           near == {s \in starts : first < s + WindowLength /\ s < first + WindowLength}
<1>1. Billed(u) \in SUBSET Requests /\ \A r \in Billed(u) : chargedAt[r] \in Nat
  BY BillDates
<1>2. \A r \in In(first) : \E s \in near : r \in In(s)
  <2> SUFFICES ASSUME NEW r \in In(first) PROVE \E s \in near : r \in In(s)
    OBVIOUS
  <2>1. r \in Billed(u) /\ chargedAt[r] \in first .. first + WindowLength - 1
    BY DEF Bill
  <2>2. PICK s \in starts : chargedAt[r] \in s .. s + WindowLength - 1
    BY <2>1 DEF History
  <2>3. s \in near
    BY <1>1, <2>1, <2>2
  <2> QED
    BY <2>1, <2>2, <2>3 DEF Bill
<1>3. \A s \in starts : /\ In(s) \in SUBSET Requests
                        /\ SumFunctionOnSet(CostOf, In(s)) \in Nat
                        /\ SumFunctionOnSet(CostOf, In(s)) <= ceiling
  <2> SUFFICES ASSUME NEW s \in starts
               PROVE  /\ In(s) \in SUBSET Requests
                      /\ SumFunctionOnSet(CostOf, In(s)) \in Nat
                      /\ SumFunctionOnSet(CostOf, In(s)) <= ceiling
    OBVIOUS
  <2>1. In(s) \in SUBSET Requests
    BY <1>1 DEF Bill
  <2>2. SumFunctionOnSet(CostOf, In(s)) <= ceiling
    BY DEF History, BilledFrom, Bill
  <2> QED
    BY <2>1, <2>2, BillType
<1>4. CASE near = {}
  <2>1. In(first) = {}
    BY <1>2, <1>4
  <2>2. SumFunctionOnSet(CostOf, In(first)) = 0
    BY <2>1, SumEmpty
  <2> QED
    BY <2>2 DEF BilledFrom, Bill
<1>5. CASE near # {}
  <2>1. PICK a \in near : TRUE
    BY <1>5
  <2>2. PICK b \in near : \A c \in near : c = a \/ c = b
    <3>1. CASE \A c \in near : c = a
      BY <2>1, <3>1
    <3>2. ASSUME NEW b \in near, b # a PROVE \A c \in near : c = a \/ c = b
      <4> SUFFICES ASSUME NEW c \in near, c # a, c # b PROVE FALSE
        OBVIOUS
      <4>1. \A s, t \in near : s < t => s + WindowLength <= t
        BY DEF History
      <4>2. \A s \in near : s \in Nat /\ first < s + WindowLength /\ s < first + WindowLength
        OBVIOUS
      <4> HIDE DEF near
      <4>3. a \in Nat /\ b \in Nat /\ c \in Nat
        BY <2>1, <4>2
      <4>4. /\ a < b \/ b < a
            /\ a < c \/ c < a
            /\ b < c \/ c < b
        BY <3>2, <4>3
      <4> QED
        BY <2>1, <4>1, <4>2, <4>3, <4>4
    <3> QED
      BY <2>1, <3>1, <3>2
  <2> DEFINE both == In(a) \cup In(b)
  <2>3. In(first) \subseteq both
    BY <1>2, <2>1, <2>2
  <2>4. a \in starts /\ b \in starts
    BY <2>1, <2>2
  <2> HIDE DEF In
  <2>5. In(a) \in SUBSET Requests /\ In(b) \in SUBSET Requests /\ both \in SUBSET Requests
    BY <1>3, <2>4
  <2>6. SumFunctionOnSet(CostOf, both)
          <= SumFunctionOnSet(CostOf, In(a)) + SumFunctionOnSet(CostOf, In(b))
    <3>1. \A r \in Requests : CostOf[r] \in Nat
      OBVIOUS
    <3> QED
      BY <2>5, <3>1, SumUnion
  <2>7. SumFunctionOnSet(CostOf, In(first)) <= SumFunctionOnSet(CostOf, both)
        /\ SumFunctionOnSet(CostOf, In(first)) \in Nat
        /\ SumFunctionOnSet(CostOf, both) \in Nat
    <3>1. IsFiniteSet(both) /\ \A r \in both : CostOf[r] \in Nat
      BY <2>5, FS_Subset
    <3> HIDE DEF both
    <3> QED
      BY <2>3, <3>1, SumSubset
  <2> HIDE DEF both
  <2>8. SumFunctionOnSet(CostOf, In(first)) <= 2 * ceiling
    BY <1>3, <2>4, <2>6, <2>7
  <2> QED
    BY <2>8 DEF In, BilledFrom, Bill
<1> QED
  BY <1>4, <1>5

\* A bill that grows by one charge, made now, costs as much more.
LEMMA BillGrows ==
    ASSUME TypeOK, Dated, NEW u, NEW r, Bills(u, r), NEW a \in Int, NEW b \in Int
    PROVE  /\ now \in a .. b => BilledFrom(u, a, b)' = BilledFrom(u, a, b) + CostOf[r]
           /\ now \notin a .. b => BilledFrom(u, a, b)' = BilledFrom(u, a, b)
<1> DEFINE bill == Bill(u, a, b)
<1>1. bill \in SUBSET Requests /\ r \in Requests /\ r \notin bill /\ CostOf[r] \in Nat
  BY DEF Bills, Bill, Billed
<1>2. CASE now \in a .. b
  <2>1. Bill(u, a, b)' = bill \cup {r}
    BY <1>2 DEF Bills, Bill
  <2>2. bill \cup {r} \in SUBSET Requests /\ (bill \cup {r}) \ {r} = bill
    BY <1>1
  <2> HIDE DEF bill
  <2>3. /\ SumFunctionOnSet(CostOf, bill \cup {r})
             = CostOf[r] + SumFunctionOnSet(CostOf, bill)
        /\ SumFunctionOnSet(CostOf, bill) \in Nat
    BY <1>1, <2>2, BillType
  <2>4. SumFunctionOnSet(CostOf, bill \cup {r}) = SumFunctionOnSet(CostOf, bill) + CostOf[r]
    BY <1>1, <2>3
  <2> QED
    BY <1>2, <2>1, <2>4 DEF BilledFrom, bill, Bill
<1>3. CASE now \notin a .. b
  <2>1. Bill(u, a, b)' = bill
    BY <1>3 DEF Bills, Bill
  <2> QED
    BY <1>3, <2>1 DEF BilledFrom, Bill
<1> QED
  BY <1>2, <1>3

LEMMA HistoryKept ==
    ASSUME MeterInv, [Next]_vars, NEW u \in Users, u \notin lateCredit',
           NEW ceiling \in Nat, PerWindow <= ceiling, \A r \in Requests : CostOf[r] <= ceiling,
           NEW starts \in SUBSET Nat, History(u, starts, ceiling)
    PROVE  \E after \in SUBSET Nat : History(u, after, ceiling)'
<1> DEFINE start == windows[u].resetAt - WindowLength
           Spent(s) == BilledFrom(u, s, s + WindowLength - 1)
<1>1. /\ TypeOK /\ Dated /\ now \in Nat /\ WindowLength \in Nat \ {0}
      /\ Billed(u) \in SUBSET Requests
      /\ \A r \in Billed(u) : chargedAt[r] \in Nat /\ chargedAt[r] <= now
      /\ u \notin lateCredit
  BY BillDates, CreditsStay DEF MeterInv, BooksBalance
<1>2. /\ \A s \in starts : s \in Nat /\ s <= now /\ Spent(s) <= ceiling
      /\ \A s, t \in starts : s < t => s + WindowLength <= t
      /\ \A r \in Billed(u) : \E s \in starts : chargedAt[r] \in s .. s + WindowLength - 1
      /\ Open(u) => start \in starts
      /\ ~ Open(u) => \A s \in starts : s + WindowLength <= now
  BY DEF History
<1>3. \A s \in starts : Spent(s) \in Nat
  <2> SUFFICES ASSUME NEW s \in starts PROVE Spent(s) \in Nat
    OBVIOUS
  <2>1. Bill(u, s, s + WindowLength - 1) \in SUBSET Requests
    BY <1>1 DEF Bill
  <2> QED
    BY <2>1, BillType DEF BilledFrom, Bill
<1>4. Open(u) => /\ windows[u].resetAt \in Nat /\ windows[u].resetAt > now
                 /\ \A s \in starts : s # start => s + WindowLength <= start
                 /\ windows[u].spent = Spent(start)
  <2> SUFFICES ASSUME Open(u)
               PROVE  /\ windows[u].resetAt \in Nat /\ windows[u].resetAt > now
                      /\ \A s \in starts : s # start => s + WindowLength <= start
                      /\ windows[u].spent = Spent(start)
    OBVIOUS
  <2>1. windows[u].resetAt \in Nat /\ windows[u].resetAt > now /\ start \in starts
    BY <1>1, <1>2, WindowDates DEF Open
  <2>2. \A s \in starts : s # start => s + WindowLength <= start
    <3> SUFFICES ASSUME NEW s \in starts, s # start PROVE s + WindowLength <= start
      OBVIOUS
    <3>1. s < start \/ start + WindowLength <= s
      BY <1>2, <2>1
    <3> QED
      BY <1>1, <1>2, <2>1, <3>1
  <2>3. windows[u].spent = BilledFrom(u, start, now)
    BY <1>1 DEF MeterInv, BooksBalance
  <2>4. Bill(u, start, now) = Bill(u, start, start + WindowLength - 1)
    BY <1>1, <2>1 DEF Bill
  <2> QED
    BY <2>1, <2>2, <2>3, <2>4 DEF BilledFrom, Bill
<1>5. ASSUME now' \in Nat, now <= now',
             Billed(u)' \subseteq Billed(u),
             \A r \in Billed(u)' : chargedAt'[r] = chargedAt[r],
             Open(u)' => Open(u) /\ windows'[u].resetAt = windows[u].resetAt,
             Open(u) /\ ~ Open(u)' => windows[u].resetAt <= now'
      PROVE  History(u, starts, ceiling)'
  <2>1. \A s \in starts : s <= now'
    BY <1>1, <1>2, <1>5
  <2>2. \A s \in starts : Spent(s)' <= ceiling
    <3> SUFFICES ASSUME NEW s \in starts PROVE Spent(s)' <= ceiling
      OBVIOUS
    <3>1. Spent(s)' <= Spent(s)
      BY <1>1, <1>2, <1>5, BillShrinks
    <3>2. Spent(s)' \in Nat
      <4>1. Bill(u, s, s + WindowLength - 1)' \in SUBSET Requests
        BY <1>1, <1>5 DEF Bill
      <4> QED
        BY <4>1, BillType DEF BilledFrom, Bill
    <3> HIDE DEF Spent
    <3> QED
      BY <1>2, <1>3, <3>1, <3>2
  <2>3. Open(u)' => windows'[u].resetAt - WindowLength \in starts
    BY <1>2, <1>5
  <2>4. ~ Open(u)' => \A s \in starts : s + WindowLength <= now'
    <3>1. CASE Open(u)
      BY <1>1, <1>2, <1>4, <1>5, <3>1
    <3>2. CASE ~ Open(u)
      BY <1>1, <1>2, <1>5, <3>2
    <3> QED
      BY <3>1, <3>2
  <2>5. \A r \in Billed(u)' : \E s \in starts : chargedAt'[r] \in s .. s + WindowLength - 1
    BY <1>2, <1>5
  <2> QED
    BY <1>2, <2>1, <2>2, <2>3, <2>4, <2>5 DEF History
<1>6. CASE Quiet(u) \/ Undoes(u)
  <2>1. /\ now' \in Nat /\ now <= now' /\ Billed(u)' \subseteq Billed(u)
        /\ \A r \in Billed(u)' : chargedAt'[r] = chargedAt[r]
    BY <1>1, <1>6 DEF Quiet, SameBill, Undoes
  <2>2. /\ Open(u)' => Open(u) /\ windows'[u].resetAt = windows[u].resetAt
        /\ Open(u) /\ ~ Open(u)' => windows[u].resetAt <= now'
    BY <1>6 DEF Quiet, Undoes
  <2> QED
    BY <1>5, <2>1, <2>2
<1>7. CASE ChargesOpen(u)
  <2>1. PICK r \in Requests :
          /\ Bills(u, r) /\ now' = now /\ Open(u) /\ Open(u)'
          /\ windows[u].spent + CostOf[r] <= PerWindow
          /\ windows'[u].resetAt = windows[u].resetAt
    BY <1>7 DEF ChargesOpen
  <2>2. /\ start \in starts /\ now \in start .. start + WindowLength - 1
        /\ \A s \in starts : s # start => now \notin s .. s + WindowLength - 1
    BY <1>1, <1>2, <1>4, <2>1
  <2>3. \A s \in starts : Spent(s)' <= ceiling
    <3> SUFFICES ASSUME NEW s \in starts PROVE Spent(s)' <= ceiling
      OBVIOUS
    <3>1. CASE s = start
      <4>1. Spent(s)' = Spent(start) + CostOf[r]
        BY <1>1, <1>2, <2>1, <2>2, <3>1, BillGrows
      <4> HIDE DEF Spent
      <4> QED
        BY <1>3, <1>4, <2>1, <2>2, <4>1
    <3>2. CASE s # start
      <4>1. Spent(s)' = Spent(s)
        BY <1>1, <1>2, <2>1, <2>2, <3>2, BillGrows
      <4> QED
        BY <1>2, <4>1
    <3> QED
      BY <3>1, <3>2
  <2>4. \A q \in Billed(u)' : \E s \in starts : chargedAt'[q] \in s .. s + WindowLength - 1
    BY <1>2, <2>1, <2>2 DEF Bills
  <2>5. History(u, starts, ceiling)'
    BY <1>2, <2>1, <2>2, <2>3, <2>4 DEF History
  <2> QED
    BY <2>5
<1>8. CASE Opens(u)
  <2>0. PICK after \in SUBSET Nat : after = starts \cup {now}
    BY <1>1
  <2>1. /\ now' = now /\ ~ Open(u) /\ Open(u)' /\ windows'[u].resetAt = now + WindowLength
        /\ \A q \in Billed(u) : chargedAt[q] < now
    BY <1>8 DEF Opens, MeterInv, Framed
  <2>2. \A s \in starts : s + WindowLength <= now /\ now \notin s .. s + WindowLength - 1
    BY <1>1, <1>2, <2>1
  <2>3. Spent(now) = 0
    <3>1. Bill(u, now, now + WindowLength - 1) = {}
      BY <1>1, <2>1 DEF Bill
    <3> QED
      BY <3>1, SumEmpty DEF BilledFrom, Bill
  <2>4. /\ \A s \in after : Spent(s)' <= ceiling
        /\ \A q \in Billed(u)' : \E s \in after : chargedAt'[q] \in s .. s + WindowLength - 1
    <3>1. CASE SameBill(u)
      <4>1. \A s \in after : Spent(s)' = Spent(s)
        BY <3>1 DEF SameBill, BilledFrom
      <4>2. \A q \in Billed(u)' : \E s \in after : chargedAt'[q] \in s .. s + WindowLength - 1
        BY <1>2, <2>0, <3>1 DEF SameBill
      <4> HIDE DEF Spent
      <4> QED
        BY <1>2, <2>0, <2>3, <4>1, <4>2
    <3>2. ASSUME NEW r \in Requests, Bills(u, r)
          PROVE  <2>4!1 /\ <2>4!2
      <4>1. \A s \in starts : Spent(s)' = Spent(s)
        BY <1>1, <1>2, <2>2, <3>2, BillGrows
      <4>2. \A s \in {now} : Spent(s)' = CostOf[r]
        <5> SUFFICES ASSUME NEW s \in {now} PROVE Spent(s)' = CostOf[r]
          OBVIOUS
        <5>1. now \in s .. s + WindowLength - 1 /\ s \in Int /\ s + WindowLength - 1 \in Int
          BY <1>1
        <5>2. Spent(s)' = Spent(s) + CostOf[r] /\ Spent(s) = 0
          BY <1>1, <2>3, <3>2, <5>1, BillGrows
        <5> HIDE DEF Spent
        <5> QED
          BY <3>2, <5>2
      <4>3. \A q \in Billed(u)' : \E s \in after : chargedAt'[q] \in s .. s + WindowLength - 1
        BY <1>1, <1>2, <2>0, <3>2 DEF Bills
      <4>4. \A s \in after : Spent(s)' <= ceiling
        <5> HIDE DEF Spent
        <5> QED
          BY <1>2, <2>0, <3>2, <4>1, <4>2
      <4> QED
        BY <4>3, <4>4
    <3> QED
      BY <1>8, <3>1, <3>2 DEF Opens
  <2>5. History(u, after, ceiling)'
    <3>1. \A s \in after : s \in Nat /\ s <= now'
      BY <1>1, <1>2, <2>0, <2>1
    <3>2. \A s, t \in after : s < t => s + WindowLength <= t
      BY <1>1, <1>2, <2>0, <2>2
    <3>3. windows'[u].resetAt - WindowLength \in after
      BY <1>1, <2>0, <2>1
    <3> QED
      BY <2>1, <2>4, <3>1, <3>2, <3>3 DEF History
  <2> QED
    BY <2>5
<1> QED
  BY <1>1, <1>6, <1>7, <1>8, StepForUser

LEMMA SpendingInvInitial == ASSUME NEW ceiling PROVE Init => SpendingInv(ceiling)
<1> SUFFICES ASSUME Init PROVE SpendingInv(ceiling)
  OBVIOUS
<1>1. ASSUME NEW u \in Users PROVE History(u, {}, ceiling)
  BY DEF Init, History, Open, Billed
<1> QED
  BY <1>1, MeterInvInitial DEF SpendingInv

LEMMA SpendingInvPreserved ==
    ASSUME NEW ceiling \in Nat, PerWindow <= ceiling,
           \A r \in Requests : CostOf[r] <= ceiling
    PROVE  SpendingInv(ceiling) /\ [Next]_vars => SpendingInv(ceiling)'
<1> SUFFICES ASSUME SpendingInv(ceiling), [Next]_vars PROVE SpendingInv(ceiling)'
  OBVIOUS
<1>1. MeterInv /\ MeterInv'
  BY MeterInvPreserved DEF SpendingInv
<1>2. ASSUME NEW u \in Users \ lateCredit'
      PROVE  \E after \in SUBSET Nat : History(u, after, ceiling)'
  <2>1. u \in Users \ lateCredit
    BY <1>1, CreditsStay DEF MeterInv, BooksBalance
  <2>2. PICK starts \in SUBSET Nat : History(u, starts, ceiling)
    BY <2>1 DEF SpendingInv
  <2> QED
    BY <1>1, <1>2, <2>1, <2>2, HistoryKept
<1> QED
  BY <1>1, <1>2 DEF SpendingInv

LEMMA SpendingInvBounds ==
    ASSUME NEW ceiling \in Nat, SpendingInv(ceiling), NEW u \in Users \ lateCredit,
           NEW first \in 0 .. now
    PROVE  BilledFrom(u, first, first + WindowLength - 1) <= 2 * ceiling
<1>1. PICK starts \in SUBSET Nat : History(u, starts, ceiling)
  BY DEF SpendingInv
<1>2. TypeOK /\ Dated /\ first \in Nat
  BY DEF SpendingInv, MeterInv, BooksBalance
<1> QED
  BY <1>1, <1>2, TwoWindows

\* No interval as long as a window holds more billed work than two budgets, or
\* twice the dearest request where one request may cost more than a budget,
\* unless a credit went astray.
THEOREM SpendingBounded ==
    ASSUME NEW ceiling \in Nat, PerWindow <= ceiling,
           \A r \in Requests : CostOf[r] <= ceiling
    PROVE  Spec => [](\A u \in Users \ lateCredit : \A first \in 0 .. now :
                        BilledFrom(u, first, first + WindowLength - 1) <= 2 * ceiling)
<1>1. Init => SpendingInv(ceiling)
  BY SpendingInvInitial
<1>2. SpendingInv(ceiling) /\ [Next]_vars => SpendingInv(ceiling)'
  BY SpendingInvPreserved
<1>3. SpendingInv(ceiling) =>
        \A u \in Users \ lateCredit : \A first \in 0 .. now :
          BilledFrom(u, first, first + WindowLength - 1) <= 2 * ceiling
  BY SpendingInvBounds
<1> QED
  BY <1>1, <1>2, <1>3, PTL DEF Spec

\* Where no request costs more than the budget, two budgets are the bound.
THEOREM TwiceTheBudgetAlways ==
    ASSUME \A r \in Requests : CostOf[r] <= PerWindow
    PROVE  Spec => []TwiceTheBudgetAtMost
<1>0. PerWindow \in Nat /\ PerWindow <= PerWindow
  OBVIOUS
<1>1. Init => SpendingInv(PerWindow)
  BY SpendingInvInitial
<1>2. SpendingInv(PerWindow) /\ [Next]_vars => SpendingInv(PerWindow)'
  BY <1>0, SpendingInvPreserved
<1>3. SpendingInv(PerWindow) => TwiceTheBudgetAtMost
  BY <1>0, SpendingInvBounds DEF TwiceTheBudgetAtMost
<1> QED
  BY <1>1, <1>2, <1>3, PTL DEF Spec
=============================================================================
