------------------------------ MODULE Equations ------------------------------
(* What a line of tiles reads as: src/src/rational.hpp and the first half of *)
(* src/src/rules.hpp.  A line is legal when every prefix of it is one the    *)
(* automaton accepts, it has an "=" and does not end with an operator, and   *)
(* all its sides have one exact value.                                       *)
(*                                                                           *)
(* RECURSIVE operators: this module and those above it are for TLC only.     *)
EXTENDS Integers, Sequences, FiniteSets, FiniteSetsExt, SequencesExt, Ordering

CONSTANTS
    RationalMax    \* INT64_MAX: a numerator or denominator beyond it is not kept

---------------------------------------------------------------------------
(* AssignedToken: 0..20 are the numbers, the rest operators; "=" is one.    *)

TADD == 21
TSUB == 22
TMUL == 23
TDIV == 24
TEQ == 25
TNONE == 255

IsNumber(t) == t <= 20
IsUnit(t) == t <= 9
IsTens(t) == t \in 10..20
IsOperator(t) == t \in TADD..TEQ

---------------------------------------------------------------------------
(* Rational: a normalised fraction; a zero denominator marks an invalid one, *)
(* which no operation makes valid again.                                     *)

Invalid == [num |-> 0, den |-> 0]
FromInt(n) == [num |-> n, den |-> 1]
IsValid(r) == r.den # 0

RECURSIVE Gcd(_, _)
Gcd(a, b) == IF b = 0 THEN a ELSE Gcd(b, a % b)

Magnitude(n) == IF n < 0 THEN -n ELSE n
Fits(n) == Magnitude(n) <= RationalMax

Reduced(num, den, g) ==
    [num |-> (IF den < 0 THEN -1 ELSE 1) * (num \div g), den |-> Magnitude(den) \div g]
Kept(r) == IF Fits(r.num) /\ Fits(r.den) THEN r ELSE Invalid
Normalize(num, den) ==
    IF den = 0 THEN Invalid ELSE Kept(Reduced(num, den, Gcd(Magnitude(num), Magnitude(den))))

Both(a, b, r) == IF IsValid(a) /\ IsValid(b) THEN r ELSE Invalid
Add(a, b) == Both(a, b, Normalize(a.num * b.den + b.num * a.den, a.den * b.den))
Sub(a, b) == Both(a, b, Normalize(a.num * b.den - b.num * a.den, a.den * b.den))
Mul(a, b) == Both(a, b, Normalize(a.num * b.num, a.den * b.den))
Div(a, b) == Both(a, b, IF b.num = 0 THEN Invalid ELSE Normalize(a.num * b.den, a.den * b.num))

Equal(a, b) == IsValid(a) /\ IsValid(b) /\ a = b

---------------------------------------------------------------------------
(* LineState: the structure of a line, token by token.                      *)

NewLine == [last |-> TNONE, run |-> 0, leadsZero |-> FALSE, unary |-> FALSE, equals |-> 0, length |-> 0]

Continues(st, t) == IsUnit(t) /\ IsUnit(st.last)
RunAfter(st, t) == IF ~IsUnit(t) THEN 0 ELSE IF Continues(st, t) THEN st.run + 1 ELSE 1
LeadsZero(st, t) == IF Continues(st, t) THEN st.leadsZero ELSE t = 0

\* LineState::advance returns true.  (Mutant: "-0" at the start of a side.)
CanAdvanceOverMinusZero(st, t) ==
    /\ st.length = 0 /\ IsOperator(t) => t = TSUB
    /\ IsOperator(st.last) /\ IsOperator(t) => st.last = TEQ /\ t = TSUB
    /\ IsNumber(st.last) /\ IsNumber(t) => ~IsTens(st.last) /\ ~IsTens(t)
    /\ st.last = TDIV => t # 0
    /\ RunAfter(st, t) <= 3
    /\ RunAfter(st, t) >= 2 => ~LeadsZero(st, t)

\* Mutant of CanAdvance: a number of four digits.
CanAdvanceToFourDigits(st, t) ==
    /\ st.length = 0 /\ IsOperator(t) => t = TSUB
    /\ IsOperator(st.last) /\ IsOperator(t) => st.last = TEQ /\ t = TSUB
    /\ IsNumber(st.last) /\ IsNumber(t) => ~IsTens(st.last) /\ ~IsTens(t)
    /\ st.last = TDIV => t # 0
    /\ st.last = TSUB /\ st.unary => t # 0
    /\ RunAfter(st, t) <= 4
    /\ RunAfter(st, t) >= 2 => ~LeadsZero(st, t)

CanAdvance(st, t) ==
    /\ st.length = 0 /\ IsOperator(t) => t = TSUB
    /\ IsOperator(st.last) /\ IsOperator(t) => st.last = TEQ /\ t = TSUB
    /\ IsNumber(st.last) /\ IsNumber(t) => ~IsTens(st.last) /\ ~IsTens(t)
    /\ st.last = TDIV => t # 0
    /\ st.last = TSUB /\ st.unary => t # 0
    /\ RunAfter(st, t) <= 3
    /\ RunAfter(st, t) >= 2 => ~LeadsZero(st, t)

Advanced(st, t) ==
    [last |-> t, run |-> RunAfter(st, t), leadsZero |-> IsUnit(t) /\ LeadsZero(st, t),
     unary |-> t = TSUB /\ (st.length = 0 \/ st.last = TEQ),
     equals |-> st.equals + (IF t = TEQ THEN 1 ELSE 0), length |-> st.length + 1]

Complete(st) == st.length >= 2 /\ st.equals > 0 /\ ~IsOperator(st.last)

\* The automaton over several tokens: `legal` says whether it took them all.
AdvanceOver(st, tokens) ==
    FoldLeft(LAMBDA a, t : IF a.legal /\ CanAdvance(a.st, t)
                           THEN [legal |-> TRUE, st |-> Advanced(a.st, t)]
                           ELSE [a EXCEPT !.legal = FALSE],
             [legal |-> TRUE, st |-> st], tokens)

---------------------------------------------------------------------------
(* evaluateLine.                                                            *)

\* One side as numbers with operators between them; a leading "-" works on 0.
Parse(side) ==
    FoldLeft(LAMBDA a, t :
               CASE IsUnit(t) /\ a.open -> [a EXCEPT !.nums[Len(a.nums)] = 10 * @ + t]
                 [] IsNumber(t) /\ ~(IsUnit(t) /\ a.open) ->
                      [a EXCEPT !.nums = Append(@, t), !.open = IsUnit(t)]
                 [] OTHER -> [a EXCEPT !.ops = Append(@, t), !.open = FALSE],
             IF side # <<>> /\ side[1] = TSUB
             THEN [nums |-> <<0>>, ops |-> <<TSUB>>, open |-> FALSE]
             ELSE [nums |-> <<>>, ops |-> <<>>, open |-> FALSE],
             IF side # <<>> /\ side[1] = TSUB THEN Tail(side) ELSE side)

\* Mutant of Products: a product takes the first number, not the last.
ProductsAtFront(nums, ops) ==
    FoldLeft(LAMBDA a, k :
               LET right == FromInt(nums[k + 1]) IN
               CASE ops[k] = TMUL -> [a EXCEPT !.rn[1] = Mul(@, right)]
                 [] ops[k] = TDIV -> [a EXCEPT !.rn[1] = Div(@, right)]
                 [] OTHER -> [rn |-> Append(a.rn, right), ro |-> Append(a.ro, ops[k])],
             [rn |-> <<FromInt(nums[1])>>, ro |-> <<>>], [k \in 1..Len(ops) |-> k])

\* First the products, each folded into the number before it; what remains are
\* sums and differences.
Products(nums, ops) ==
    FoldLeft(LAMBDA a, k :
               LET right == FromInt(nums[k + 1]) IN
               CASE ops[k] = TMUL -> [a EXCEPT !.rn[Len(a.rn)] = Mul(@, right)]
                 [] ops[k] = TDIV -> [a EXCEPT !.rn[Len(a.rn)] = Div(@, right)]
                 [] OTHER -> [rn |-> Append(a.rn, right), ro |-> Append(a.ro, ops[k])],
             [rn |-> <<FromInt(nums[1])>>, ro |-> <<>>], [k \in 1..Len(ops) |-> k])

Sums(rn, ro) ==
    FoldLeft(LAMBDA v, k : IF ro[k] = TADD THEN Add(v, rn[k + 1]) ELSE Sub(v, rn[k + 1]),
             rn[1], [k \in 1..Len(ro) |-> k])

Folded(r) == Sums(r.rn, r.ro)
ParsedValue(p) ==
    IF Len(p.nums) # Len(p.ops) + 1 THEN Invalid ELSE Folded(Products(p.nums, p.ops))

\* Nothing at all is no number, and so no side.
SideValue(side) == ParsedValue(Parse(side))

\* The tokens between one "=" and the next.
Sides(tokens) ==
    LET at == {i \in DOMAIN tokens : tokens[i] = TEQ} \cup {0, Len(tokens) + 1}
        cuts == Sorted(at, LAMBDA i, j : i < j)
    IN  [k \in 1..Len(cuts) - 1 |-> SubSeq(tokens, cuts[k] + 1, cuts[k + 1] - 1)]

\* Every side is worth what the first one is.
AllEqual(values) == \A k \in DOMAIN values : Equal(values[1], values[k])
ValuesOf(sides) == [k \in DOMAIN sides |-> SideValue(sides[k])]
EvaluateLine(tokens) == AllEqual(ValuesOf(Sides(tokens)))

Structured(a) == a.legal /\ a.st.equals > 0
ValidateLine(tokens) ==
    /\ Structured(AdvanceOver(NewLine, tokens))
    /\ ~IsOperator(tokens[Len(tokens)])
    /\ EvaluateLine(tokens)

---------------------------------------------------------------------------
(* The rules of a line, said of the whole line and of its value, with no    *)
(* automaton and no passes.                                                 *)

\* The numbers of a line: the longest stretches of number tokens.
Stretches(w) ==
    {<<i, j>> \in (1..Len(w)) \X (1..Len(w)) :
        /\ i <= j
        /\ \A k \in i..j : IsNumber(w[k])
        /\ i = 1 \/ ~IsNumber(w[i - 1])
        /\ j = Len(w) \/ ~IsNumber(w[j + 1])}

IsNumeral(d) ==
    \/ Len(d) = 1
    \/ Len(d) \in 2..3 /\ d[1] # 0 /\ \A k \in DOMAIN d : IsUnit(d[k])

\* Where a number is expected: at the start of the line and after "=" it may
\* have a "-" before it, elsewhere not.
WellFormed(w) ==
    LET number(i) == i \in DOMAIN w /\ IsNumber(w[i])
        starts(i) == i = 1 \/ w[i - 1] = TEQ
        sign(i) == w[i] = TSUB /\ starts(i)
        zero(i) == w[i] = 0 /\ ~number(i + 1)
    IN  /\ \A s \in Stretches(w) : IsNumeral(SubSeq(w, s[1], s[2]))
        /\ \A i \in DOMAIN w : IsOperator(w[i]) =>
             /\ number(i - 1) \/ sign(i)
             /\ number(i + 1) \/ (w[i] = TEQ /\ i < Len(w) /\ sign(i + 1))
        /\ \A i \in DOMAIN w : zero(i) /\ i > 1 => w[i - 1] # TDIV /\ ~sign(i - 1)
        /\ \E i \in DOMAIN w : w[i] = TEQ

\* A fraction in lowest terms however large, and whether everything it came
\* from is small enough to be kept.
Exactly(num, den, kept) ==
    LET g == Gcd(Magnitude(num), Magnitude(den))
        sign == IF den < 0 THEN -1 ELSE 1
        n == sign * (num \div g)
        d == sign * (den \div g)
    IN  [num |-> n, den |-> d, kept |-> kept /\ Fits(n) /\ Fits(d)]

\* The value of a side by the grammar: the last sum or difference splits it,
\* then the last product or quotient, and what has neither is a numeral.
RECURSIVE ValueBy(_)
ValueBy(w) ==
    LET splits(ops) == {i \in 2..Len(w) : w[i] \in ops}
        at == IF splits({TADD, TSUB}) # {} THEN Max(splits({TADD, TSUB}))
              ELSE IF splits({TMUL, TDIV}) # {} THEN Max(splits({TMUL, TDIV})) ELSE 0
        a == ValueBy(SubSeq(w, 1, at - 1))
        b == ValueBy(SubSeq(w, at + 1, Len(w)))
        kept == a.kept /\ b.kept
        number == FoldLeft(LAMBDA v, t : 10 * v + t, 0, w)
    IN  IF at # 0
        THEN CASE w[at] = TADD -> Exactly(a.num * b.den + b.num * a.den, a.den * b.den, kept)
               [] w[at] = TSUB -> Exactly(a.num * b.den - b.num * a.den, a.den * b.den, kept)
               [] w[at] = TMUL -> Exactly(a.num * b.num, a.den * b.den, kept)
               [] w[at] = TDIV -> Exactly(a.num * b.den, a.den * b.num, kept)
        ELSE IF w[1] = TSUB THEN LET v == ValueBy(Tail(w)) IN Exactly(-v.num, v.den, v.kept)
        ELSE [num |-> number, den |-> 1, kept |-> TRUE]

\* All sides have one value, and none was too large on the way.
Balanced(w) ==
    LET values == {ValueBy(Sides(w)[k]) : k \in DOMAIN Sides(w)}
    IN  Cardinality(values) = 1 /\ \A v \in values : v.kept

\* A line is accepted exactly when it is one by the rules; one whose values
\* outgrow the fractions is refused, and nothing unbalanced ever passes for
\* balanced because of it.
LineAgrees(w) == w # <<>> => (ValidateLine(w) <=> WellFormed(w) /\ Balanced(w))

=============================================================================
