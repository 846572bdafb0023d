------------------------------ MODULE Induction ------------------------------
(***************************************************************************)
(* Induction over the subsets of a finite set and over the naturals, and   *)
(* what follows from it for sums.  Each principle speaks of a set of       *)
(* counterexamples in place of a predicate.                                *)
(***************************************************************************)
EXTENDS Integers, FiniteSets, Functions, FiniteSetTheorems, WellFoundedInduction, TLAPS

-----------------------------------------------------------------------------
(* Minimal elements                                                        *)

\* A non-empty collection of subsets of a finite set has a minimal member.
LEMMA MinimalSubset ==
    ASSUME NEW S, IsFiniteSet(S), NEW C \in SUBSET (SUBSET S), C # {}
    PROVE  \E T \in C : \A U \in C : U \subseteq T => U = T
<1>1. C \subseteq FiniteSubsetsOf(S)
  BY FS_Subset DEF FiniteSubsetsOf
<1>2. IsWellFoundedOn(StrictSubsetOrdering(S), FiniteSubsetsOf(S))
  BY FS_StrictSubsetOrderingWellFounded
<1>3. PICK T \in C : \A U \in C : ~ (<<U, T>> \in StrictSubsetOrdering(S))
  BY <1>1, <1>2, WFMin
<1> QED
  BY <1>3 DEF StrictSubsetOrdering

\* A non-empty set of naturals has a least member.
LEMMA NatLeast ==
    ASSUME NEW S \in SUBSET Nat, S # {}
    PROVE  \E n \in S : \A m \in S : n <= m
<1> PICK top \in S : TRUE
  OBVIOUS
<1> DEFINE I == 0 .. top
           C == {0 .. n : n \in {m \in S : m <= top}}
<1>1. IsFiniteSet(I)
  BY FS_Interval
<1>2. C \in SUBSET (SUBSET I) /\ C # {}
  OBVIOUS
<1>3. PICK T \in C : \A U \in C : U \subseteq T => U = T
  <2> HIDE DEF C, I
  <2> QED
    BY <1>1, <1>2, MinimalSubset
<1>4. PICK n \in S : n <= top /\ T = 0 .. n
  OBVIOUS
<1>5. ASSUME NEW m \in S, m < n PROVE FALSE
  <2>1. 0 .. m \in C /\ 0 .. m \subseteq T
    BY <1>4, <1>5
  <2>2. 0 .. m = 0 .. n
    BY <1>3, <1>4, <2>1
  <2> QED
    BY <1>5, <2>2
<1> QED
  BY <1>5

\* A set of naturals that contains 0 and with every number the next.
LEMMA NatClosed ==
    ASSUME NEW S \in SUBSET Nat, 0 \in S, \A n \in S : n + 1 \in S
    PROVE  S = Nat
<1> SUFFICES ASSUME Nat \ S # {} PROVE FALSE
  OBVIOUS
<1>1. PICK n \in Nat \ S : \A m \in Nat \ S : n <= m
  BY NatLeast
<1>2. n - 1 \in Nat /\ n - 1 \in S
  BY <1>1
<1> QED
  BY <1>1, <1>2

-----------------------------------------------------------------------------
(* Sums over finite sets                                                   *)

Chosen(s) == CHOOSE x \in s : TRUE

\* g sums the values of f over the sets of a family.
SumsTo(g, f, family) ==
    g = [s \in family |-> IF s = {} THEN 0 ELSE f[Chosen(s)] + g[s \ {Chosen(s)}]]

\* The recursion by which SumFunctionOnSet is defined has a solution.
LEMMA SumExists ==
    ASSUME NEW S, IsFiniteSet(S), NEW f, \A x \in S : f[x] \in Int
    PROVE  \E g \in [SUBSET S -> Int] : SumsTo(g, f, SUBSET S)
<1> DEFINE Upto(n) == {s \in SUBSET S : Cardinality(s) <= n}
           Solved == {n \in Nat : \E g \in [Upto(n) -> Int] : SumsTo(g, f, Upto(n))}
<1>1. \A s \in SUBSET S : IsFiniteSet(s) /\ Cardinality(s) \in Nat /\ Cardinality(s) <= Cardinality(S)
  BY FS_Subset, FS_CardinalityType
<1>2. \A s \in SUBSET S : s # {} =>
        /\ Chosen(s) \in s /\ f[Chosen(s)] \in Int
        /\ s \ {Chosen(s)} \in SUBSET S
        /\ Cardinality(s \ {Chosen(s)}) = Cardinality(s) - 1
  BY <1>1, FS_RemoveElement DEF Chosen
<1>3. 0 \in Solved
  <2> DEFINE g == [s \in Upto(0) |-> 0]
  <2>1. \A s \in Upto(0) : s = {}
    BY <1>1, FS_EmptySet
  <2>2. SumsTo(g, f, Upto(0))
    BY <2>1 DEF SumsTo
  <2> QED
    BY <2>2
<1>4. ASSUME NEW n \in Solved PROVE n + 1 \in Solved
  <2>1. PICK g \in [Upto(n) -> Int] : SumsTo(g, f, Upto(n))
    OBVIOUS
  <2> DEFINE h == [s \in Upto(n + 1) |->
                     IF s = {} THEN 0 ELSE f[Chosen(s)] + g[s \ {Chosen(s)}]]
  <2>2. \A s \in Upto(n + 1) : s # {} => s \ {Chosen(s)} \in Upto(n)
    BY <1>1, <1>2
  <2>3. \A s \in Upto(n) : s \in Upto(n + 1) /\ h[s] = g[s]
    <3> SUFFICES ASSUME NEW s \in Upto(n) PROVE s \in Upto(n + 1) /\ h[s] = g[s]
      OBVIOUS
    <3>1. s \in Upto(n + 1)
      BY <1>1
    <3>2. g[s] = IF s = {} THEN 0 ELSE f[Chosen(s)] + g[s \ {Chosen(s)}]
      BY <2>1, Zenon DEF SumsTo
    <3> QED
      BY <3>1, <3>2
  <2>4. h \in [Upto(n + 1) -> Int]
    BY <1>2, <2>2
  <2>5. SumsTo(h, f, Upto(n + 1))
    BY <2>2, <2>3 DEF SumsTo
  <2> HIDE DEF h, Upto
  <2> QED
    BY <2>4, <2>5
<1>5. Solved = Nat
  <2> HIDE DEF Solved
  <2>1. Solved \in SUBSET Nat
    BY DEF Solved
  <2> QED
    BY <1>3, <1>4, <2>1, NatClosed
<1>6. Upto(Cardinality(S)) = SUBSET S /\ Cardinality(S) \in Nat
  BY <1>1, FS_CardinalityType
<1> HIDE DEF Upto
<1>7. Cardinality(S) \in Solved
  BY <1>5, <1>6
<1> QED
  BY <1>6, <1>7

\* Two solutions agree where both are defined.
LEMMA SumUnique ==
    ASSUME NEW S, IsFiniteSet(S), NEW f, NEW T \in SUBSET S,
           NEW g, SumsTo(g, f, SUBSET S), NEW h, SumsTo(h, f, SUBSET T)
    PROVE  \A s \in SUBSET T : g[s] = h[s]
<1> DEFINE Wrong == {s \in SUBSET T : g[s] # h[s]}
<1> SUFFICES ASSUME Wrong # {} PROVE FALSE
  OBVIOUS
<1>1. PICK s \in Wrong : \A u \in Wrong : u \subseteq s => u = s
  <2>1. Wrong \in SUBSET (SUBSET S)
    OBVIOUS
  <2> HIDE DEF Wrong
  <2> QED
    BY <2>1, MinimalSubset
<1>2. s # {}
  BY <1>1 DEF SumsTo
<1>3. Chosen(s) \in s
  BY <1>2 DEF Chosen
<1>4. g[s \ {Chosen(s)}] = h[s \ {Chosen(s)}]
  BY <1>1, <1>3
<1> QED
  BY <1>1, <1>2, <1>4 DEF SumsTo

\* What SumFunctionOnSet computes, by the member it happens to choose.
LEMMA SumByChosen ==
    ASSUME NEW S, IsFiniteSet(S), NEW f, \A x \in S : f[x] \in Int
    PROVE  \A s \in SUBSET S :
             /\ SumFunctionOnSet(f, s) \in Int
             /\ s = {} => SumFunctionOnSet(f, s) = 0
             /\ s # {} => SumFunctionOnSet(f, s)
                            = f[Chosen(s)] + SumFunctionOnSet(f, s \ {Chosen(s)})
<1>1. PICK g \in [SUBSET S -> Int] : SumsTo(g, f, SUBSET S)
  BY SumExists
<1>2. ASSUME NEW s \in SUBSET S PROVE SumFunctionOnSet(f, s) = g[s]
  <2> DEFINE h == CHOOSE h : SumsTo(h, f, SUBSET s)
  <2>1. SumFunctionOnSet(f, s) = h[s]
    BY DEF SumFunctionOnSet, FoldFunctionOnSet, MapThenFoldSet, SumsTo, Chosen
  <2>2. \E k : SumsTo(k, f, SUBSET s)
    <3>1. IsFiniteSet(s) /\ \A x \in s : f[x] \in Int
      BY FS_Subset
    <3> QED
      BY <3>1, SumExists
  <2>3. SumsTo(h, f, SUBSET s)
    BY <2>2
  <2> HIDE DEF h
  <2> QED
    BY <1>1, <2>1, <2>3, SumUnique
<1>3. \A s \in SUBSET S : g[s] = IF s = {} THEN 0 ELSE f[Chosen(s)] + g[s \ {Chosen(s)}]
  BY <1>1, Zenon DEF SumsTo
<1> SUFFICES ASSUME NEW s \in SUBSET S
             PROVE  /\ SumFunctionOnSet(f, s) \in Int
                    /\ s = {} => SumFunctionOnSet(f, s) = 0
                    /\ s # {} => SumFunctionOnSet(f, s)
                                   = f[Chosen(s)] + SumFunctionOnSet(f, s \ {Chosen(s)})
  OBVIOUS
<1>4. /\ SumFunctionOnSet(f, s) = g[s] /\ g[s] \in Int
      /\ SumFunctionOnSet(f, s \ {Chosen(s)}) = g[s \ {Chosen(s)}]
  BY <1>2
<1> QED
  BY <1>3, <1>4

\* A sum does not depend on the member that is taken first.
LEMMA SumRemove ==
    ASSUME NEW S, IsFiniteSet(S), NEW f, \A x \in S : f[x] \in Int, NEW y \in S
    PROVE  /\ SumFunctionOnSet(f, S) \in Int /\ SumFunctionOnSet(f, S \ {y}) \in Int
           /\ SumFunctionOnSet(f, S) = f[y] + SumFunctionOnSet(f, S \ {y})
<1> DEFINE Sum(s) == SumFunctionOnSet(f, s)
           Wrong == {s \in SUBSET S : \E x \in s : Sum(s) # f[x] + Sum(s \ {x})}
<1>1. \A s \in SUBSET S : /\ Sum(s) \in Int
                          /\ s # {} => Sum(s) = f[Chosen(s)] + Sum(s \ {Chosen(s)})
  BY SumByChosen
<1> HIDE DEF Sum
<1>2. Wrong = {}
  <2> SUFFICES ASSUME Wrong # {} PROVE FALSE
    OBVIOUS
  <2>1. PICK s \in Wrong : \A u \in Wrong : u \subseteq s => u = s
    <3>1. Wrong \in SUBSET (SUBSET S)
      OBVIOUS
    <3> HIDE DEF Wrong
    <3> QED
      BY <3>1, MinimalSubset
  <2>2. PICK x \in s : Sum(s) # f[x] + Sum(s \ {x})
    OBVIOUS
  <2> DEFINE c == Chosen(s)
  <2>3. c \in s /\ Sum(s) = f[c] + Sum(s \ {c})
    BY <1>1, <2>2 DEF Chosen
  <2>4. c # x
    BY <2>2, <2>3
  <2>5. s \ {c} \in SUBSET S /\ s \ {x} \in SUBSET S
    OBVIOUS
  <2>6. s \ {c} \notin Wrong /\ s \ {x} \notin Wrong
    BY <2>1, <2>2, <2>3
  <2> HIDE DEF c
  <2>7. Sum(s \ {c}) = f[x] + Sum((s \ {c}) \ {x})
    BY <2>2, <2>4, <2>5, <2>6
  <2>8. Sum(s \ {x}) = f[c] + Sum((s \ {x}) \ {c})
    BY <2>3, <2>4, <2>5, <2>6
  <2>9. (s \ {c}) \ {x} = (s \ {x}) \ {c} /\ (s \ {c}) \ {x} \in SUBSET S
    OBVIOUS
  <2>10. f[x] \in Int /\ f[c] \in Int /\ Sum((s \ {c}) \ {x}) \in Int
    BY <1>1, <2>3, <2>9
  <2>11. Sum(s) = f[c] + (f[x] + Sum((s \ {c}) \ {x}))
    BY <2>3, <2>7
  <2>12. f[x] + Sum(s \ {x}) = f[x] + (f[c] + Sum((s \ {c}) \ {x}))
    BY <2>8, <2>9
  <2> QED
    BY <2>2, <2>10, <2>11, <2>12
<1> QED
  BY <1>1, <1>2 DEF Sum

LEMMA SumEmpty == \A f : SumFunctionOnSet(f, {}) = 0
<1> SUFFICES ASSUME NEW f PROVE SumFunctionOnSet(f, {}) = 0
  OBVIOUS
<1> DEFINE none == {}
<1>1. none = {} /\ IsFiniteSet(none)
  BY FS_EmptySet
<1>2. \A x \in none : f[x] \in Int
  OBVIOUS
<1>3. none \in SUBSET none
  OBVIOUS
<1> HIDE DEF none
<1>4. SumFunctionOnSet(f, none) = 0
  BY <1>1, <1>2, <1>3, SumByChosen
<1> QED
  BY <1>1, <1>4

\* A sum of naturals is a natural, and a part is never more than the whole.
LEMMA SumSubset ==
    ASSUME NEW S, IsFiniteSet(S), NEW f, \A x \in S : f[x] \in Nat, NEW T \in SUBSET S
    PROVE  /\ SumFunctionOnSet(f, T) \in Nat /\ SumFunctionOnSet(f, S) \in Nat
           /\ SumFunctionOnSet(f, T) <= SumFunctionOnSet(f, S)
<1> DEFINE Sum(s) == SumFunctionOnSet(f, s)
           Negative == {s \in SUBSET S : ~ (Sum(s) \in Nat)}
           Larger == {s \in SUBSET S : T \subseteq s /\ ~ (Sum(T) <= Sum(s))}
<1>1. \A s \in SUBSET S : /\ Sum(s) \in Int
                          /\ s = {} => Sum(s) = 0
                          /\ \A x \in s : Sum(s) = f[x] + Sum(s \ {x}) /\ f[x] \in Nat
  <2> SUFFICES ASSUME NEW s \in SUBSET S
               PROVE  /\ Sum(s) \in Int /\ (s = {} => Sum(s) = 0)
                      /\ \A x \in s : Sum(s) = f[x] + Sum(s \ {x}) /\ f[x] \in Nat
    OBVIOUS
  <2>1. IsFiniteSet(s) /\ \A x \in s : f[x] \in Nat /\ f[x] \in Int
    BY FS_Subset
  <2>2. Sum(s) \in Int /\ (s = {} => Sum(s) = 0)
    BY <2>1, SumByChosen
  <2>3. \A x \in s : Sum(s) = f[x] + Sum(s \ {x})
    BY <2>1, SumRemove
  <2> QED
    BY <2>1, <2>2, <2>3
<1> HIDE DEF Sum
<1>2. ASSUME Negative # {} PROVE FALSE
  <2>1. PICK s \in Negative : \A u \in Negative : u \subseteq s => u = s
    <3>1. Negative \in SUBSET (SUBSET S)
      OBVIOUS
    <3> HIDE DEF Negative
    <3> QED
      BY <1>2, <3>1, MinimalSubset
  <2>2. PICK x \in s : TRUE
    BY <1>1, <2>1
  <2>3. s \ {x} \in SUBSET S /\ s \ {x} \notin Negative
    BY <2>1, <2>2
  <2> QED
    BY <1>1, <2>1, <2>2, <2>3
<1>3. ASSUME Larger # {} PROVE FALSE
  <2>1. PICK s \in Larger : \A u \in Larger : u \subseteq s => u = s
    <3>1. Larger \in SUBSET (SUBSET S)
      OBVIOUS
    <3> HIDE DEF Larger
    <3> QED
      BY <1>3, <3>1, MinimalSubset
  <2>2. s # T /\ T \subseteq s
    BY <1>1, <2>1
  <2>3. PICK x \in s : x \notin T
    BY <2>2
  <2>4. s \ {x} \in SUBSET S /\ s \ {x} \notin Larger /\ T \subseteq s \ {x}
    BY <2>1, <2>2, <2>3
  <2>5. Sum(T) <= Sum(s \ {x}) /\ Sum(s) = f[x] + Sum(s \ {x}) /\ f[x] \in Nat
    BY <1>1, <2>1, <2>3, <2>4
  <2> QED
    BY <1>1, <2>1, <2>4, <2>5
<1>4. Sum(T) \in Nat /\ Sum(S) \in Nat /\ Sum(T) <= Sum(S)
  BY <1>2, <1>3
<1> QED
  BY <1>4 DEF Sum

\* The sum over a union is at most the two sums together.
LEMMA SumUnion ==
    ASSUME NEW S, IsFiniteSet(S), NEW f, \A x \in S : f[x] \in Nat,
           NEW A \in SUBSET S, NEW B \in SUBSET S
    PROVE  SumFunctionOnSet(f, A \cup B) <= SumFunctionOnSet(f, A) + SumFunctionOnSet(f, B)
<1> DEFINE Sum(s) == SumFunctionOnSet(f, s)
           Wrong == {s \in SUBSET A : ~ (Sum(s \cup B) <= Sum(s) + Sum(B))}
<1>1. \A s \in SUBSET S : /\ Sum(s) \in Nat
                          /\ \A x \in s : Sum(s) = f[x] + Sum(s \ {x}) /\ f[x] \in Nat
  <2> SUFFICES ASSUME NEW s \in SUBSET S
               PROVE  /\ Sum(s) \in Nat
                      /\ \A x \in s : Sum(s) = f[x] + Sum(s \ {x}) /\ f[x] \in Nat
    OBVIOUS
  <2>1. IsFiniteSet(s) /\ \A x \in s : f[x] \in Nat /\ f[x] \in Int
    BY FS_Subset
  <2>2. Sum(s) \in Nat
    BY SumSubset
  <2>3. \A x \in s : Sum(s) = f[x] + Sum(s \ {x})
    BY <2>1, SumRemove
  <2> QED
    BY <2>1, <2>2, <2>3
<1>2. Sum({}) = 0
  BY FS_EmptySet, SumByChosen
<1> HIDE DEF Sum
<1>3. ASSUME Wrong # {} PROVE FALSE
  <2>1. PICK s \in Wrong : \A u \in Wrong : u \subseteq s => u = s
    <3>1. Wrong \in SUBSET (SUBSET A) /\ IsFiniteSet(A)
      BY FS_Subset
    <3> HIDE DEF Wrong
    <3> QED
      BY <1>3, <3>1, MinimalSubset
  <2>2. s # {}
    <3>1. Sum(B) \in Nat
      BY <1>1
    <3>2. {} \cup B = B
      OBVIOUS
    <3>3. ~ (Sum(s \cup B) <= Sum(s) + Sum(B))
      BY <2>1
    <3> QED
      BY <1>2, <3>1, <3>2, <3>3
  <2>3. PICK x \in s : TRUE
    BY <2>2
  <2> DEFINE rest == s \ {x}
  <2>4. rest \in SUBSET A /\ Sum(rest \cup B) <= Sum(rest) + Sum(B)
    BY <2>1, <2>3
  <2>5. /\ s \in SUBSET S /\ rest \in SUBSET S /\ s \cup B \in SUBSET S
        /\ rest \cup B \in SUBSET S
    BY <2>1
  <2>6. Sum(s) = f[x] + Sum(rest) /\ f[x] \in Nat
    BY <1>1, <2>3, <2>5
  <2>7. CASE x \in B
    <3>1. s \cup B = rest \cup B
      BY <2>7
    <3>2. Sum(s \cup B) <= Sum(rest) + Sum(B)
      BY <2>4, <3>1
    <3>3. ~ (Sum(s \cup B) <= Sum(s) + Sum(B))
      BY <2>1
    <3> HIDE DEF rest
    <3> QED
      BY <1>1, <2>5, <2>6, <3>2, <3>3
  <2>8. CASE x \notin B
    <3>1. (s \cup B) \ {x} = rest \cup B /\ x \in s \cup B
      BY <2>8
    <3>2. Sum(s \cup B) = f[x] + Sum(rest \cup B)
      BY <1>1, <2>5, <3>1
    <3>3. ~ (Sum(s \cup B) <= Sum(s) + Sum(B))
      BY <2>1
    <3> HIDE DEF rest
    <3> QED
      BY <1>1, <2>4, <2>5, <2>6, <3>2, <3>3
  <2> QED
    BY <2>7, <2>8
<1>4. Sum(A \cup B) <= Sum(A) + Sum(B)
  BY <1>3
<1> QED
  BY <1>4 DEF Sum

\* Sums of what is the same on every member are the same.
LEMMA SumEqual ==
    ASSUME NEW S, IsFiniteSet(S), NEW f, NEW g, \A x \in S : f[x] \in Int /\ g[x] = f[x]
    PROVE  SumFunctionOnSet(g, S) = SumFunctionOnSet(f, S)
<1> DEFINE Sf(s) == SumFunctionOnSet(f, s)
           Sg(s) == SumFunctionOnSet(g, s)
           Wrong == {s \in SUBSET S : Sf(s) # Sg(s)}
<1>1. \A s \in SUBSET S : /\ s = {} => Sf(s) = 0 /\ Sg(s) = 0
                          /\ s # {} => /\ Chosen(s) \in s /\ Sf(s) = f[Chosen(s)] + Sf(s \ {Chosen(s)})
                                       /\ Sg(s) = f[Chosen(s)] + Sg(s \ {Chosen(s)})
  <2>1. \A s \in SUBSET S : s # {} => Chosen(s) \in s
    BY DEF Chosen
  <2>2. \A x \in S : g[x] \in Int
    OBVIOUS
  <2>3. \A s \in SUBSET S : /\ s = {} => Sf(s) = 0
                            /\ s # {} => Sf(s) = f[Chosen(s)] + Sf(s \ {Chosen(s)})
    BY SumByChosen
  <2>4. \A s \in SUBSET S : /\ s = {} => Sg(s) = 0
                            /\ s # {} => Sg(s) = g[Chosen(s)] + Sg(s \ {Chosen(s)})
    BY <2>2, SumByChosen
  <2> HIDE DEF Sf, Sg
  <2> QED
    BY <2>1, <2>3, <2>4
<1> HIDE DEF Sf, Sg
<1>2. ASSUME Wrong # {} PROVE FALSE
  <2>1. PICK s \in Wrong : \A u \in Wrong : u \subseteq s => u = s
    <3>1. Wrong \in SUBSET (SUBSET S)
      OBVIOUS
    <3> HIDE DEF Wrong
    <3> QED
      BY <1>2, <3>1, MinimalSubset
  <2>2. s # {}
    BY <1>1, <2>1
  <2>3. Chosen(s) \in s
    BY <1>1, <2>1, <2>2
  <2>4. s \ {Chosen(s)} \in SUBSET S /\ s \ {Chosen(s)} \notin Wrong
    BY <2>1, <2>3
  <2> QED
    BY <1>1, <2>1, <2>2, <2>4
<1> QED
  BY <1>2 DEF Sf, Sg

\* Sums add up member by member.
LEMMA SumAdd ==
    ASSUME NEW S, IsFiniteSet(S), NEW f, NEW g, NEW h,
           \A x \in S : f[x] \in Int /\ g[x] \in Int /\ h[x] = f[x] + g[x]
    PROVE  SumFunctionOnSet(h, S) = SumFunctionOnSet(f, S) + SumFunctionOnSet(g, S)
<1>1. ASSUME NEW q, \A x \in S : q[x] \in Int
      PROVE  \A s \in SUBSET S :
               /\ SumFunctionOnSet(q, s) \in Int /\ (s = {} => SumFunctionOnSet(q, s) = 0)
               /\ s # {} => SumFunctionOnSet(q, s) = q[Chosen(s)] + SumFunctionOnSet(q, s \ {Chosen(s)})
  BY <1>1, SumByChosen
<1>2. (\A x \in S : f[x] \in Int) /\ (\A x \in S : g[x] \in Int) /\ (\A x \in S : h[x] \in Int)
  OBVIOUS
<1> DEFINE Sf(s) == SumFunctionOnSet(f, s)
           Sg(s) == SumFunctionOnSet(g, s)
           Sh(s) == SumFunctionOnSet(h, s)
           Wrong == {s \in SUBSET S : Sh(s) # Sf(s) + Sg(s)}
<1>3. \A s \in SUBSET S : /\ Sf(s) \in Int /\ (s = {} => Sf(s) = 0)
                          /\ s # {} => Sf(s) = f[Chosen(s)] + Sf(s \ {Chosen(s)})
  BY <1>1, <1>2, Zenon
<1>4. \A s \in SUBSET S : /\ Sg(s) \in Int /\ (s = {} => Sg(s) = 0)
                          /\ s # {} => Sg(s) = g[Chosen(s)] + Sg(s \ {Chosen(s)})
  BY <1>1, <1>2, Zenon
<1>5. \A s \in SUBSET S : /\ Sh(s) \in Int /\ (s = {} => Sh(s) = 0)
                          /\ s # {} => Sh(s) = h[Chosen(s)] + Sh(s \ {Chosen(s)})
  BY <1>1, <1>2, Zenon
<1> HIDE DEF Sf, Sg, Sh
<1>6. ASSUME Wrong # {} PROVE FALSE
  <2>1. PICK s \in Wrong : \A u \in Wrong : u \subseteq s => u = s
    <3>1. Wrong \in SUBSET (SUBSET S)
      OBVIOUS
    <3> HIDE DEF Wrong
    <3> QED
      BY <1>6, <3>1, MinimalSubset
  <2>2. s # {}
    <3> SUFFICES ASSUME s = {} PROVE FALSE
      OBVIOUS
    <3>1. Sf(s) = 0 /\ Sg(s) = 0 /\ Sh(s) = 0
      BY <1>3, <1>4, <1>5
    <3> QED
      BY <2>1, <3>1
  <2> DEFINE c == Chosen(s)
             rest == s \ {c}
  <2>3. c \in s
    BY <2>2 DEF Chosen
  <2>4. rest \in SUBSET S /\ rest \notin Wrong
    BY <2>1, <2>3
  <2>5. Sh(rest) = Sf(rest) + Sg(rest) /\ Sf(rest) \in Int /\ Sg(rest) \in Int
    BY <1>3, <1>4, <2>4
  <2>6. Sh(s) = h[c] + Sh(rest) /\ Sf(s) = f[c] + Sf(rest) /\ Sg(s) = g[c] + Sg(rest)
    BY <1>3, <1>4, <1>5, <2>1, <2>2
  <2>7. h[c] = f[c] + g[c] /\ f[c] \in Int /\ g[c] \in Int
    BY <2>1, <2>3
  <2>8. Sh(s) # Sf(s) + Sg(s)
    BY <2>1
  <2> HIDE DEF c, rest
  <2> QED
    BY <2>5, <2>6, <2>7, <2>8
<1> QED
  BY <1>6 DEF Sf, Sg, Sh

\* A sum of naturals is at least each of them, and zero only of zeroes.
LEMMA SumMember ==
    ASSUME NEW S, IsFiniteSet(S), NEW f, \A x \in S : f[x] \in Nat, NEW y \in S
    PROVE  f[y] <= SumFunctionOnSet(f, S)
<1>1. /\ SumFunctionOnSet(f, S \ {y}) \in Nat
  BY SumSubset
<1>2. SumFunctionOnSet(f, S) = f[y] + SumFunctionOnSet(f, S \ {y})
  BY SumRemove
<1> QED
  BY <1>1, <1>2

\* Sums grow with their members, and equal sums have equal members.
LEMMA SumGrows ==
    ASSUME NEW S, IsFiniteSet(S), NEW f, NEW g,
           \A x \in S : f[x] \in Int /\ g[x] \in Int /\ f[x] <= g[x]
    PROVE  /\ SumFunctionOnSet(f, S) \in Int /\ SumFunctionOnSet(g, S) \in Int
           /\ SumFunctionOnSet(f, S) <= SumFunctionOnSet(g, S)
           /\ SumFunctionOnSet(f, S) = SumFunctionOnSet(g, S) => \A x \in S : f[x] = g[x]
<1> DEFINE d == [x \in S |-> g[x] - f[x]]
<1>1. \A x \in S : d[x] \in Nat /\ f[x] \in Int /\ d[x] \in Int /\ g[x] = f[x] + d[x]
  OBVIOUS
<1> HIDE DEF d
<1>2. SumFunctionOnSet(g, S) = SumFunctionOnSet(f, S) + SumFunctionOnSet(d, S)
  BY <1>1, SumAdd
<1>3. SumFunctionOnSet(d, S) \in Nat /\ \A x \in S : d[x] <= SumFunctionOnSet(d, S)
  <2>1. S \in SUBSET S
    OBVIOUS
  <2> QED
    BY <1>1, <2>1, SumSubset, SumMember
<1>4. SumFunctionOnSet(f, S) \in Int
  <2>1. S \in SUBSET S
    OBVIOUS
  <2> QED
    BY <2>1, SumByChosen
<1> QED
  BY <1>1, <1>2, <1>3, <1>4

-----------------------------------------------------------------------------
(* Finite sets of numbers                                                  *)

\* A finite set of integers has a largest member and a least one.
LEMMA FiniteExtremes ==
    ASSUME NEW S, IsFiniteSet(S), S # {}, \A x \in S : x \in Int
    PROVE  /\ \E m \in S : \A x \in S : x <= m
           /\ \E m \in S : \A x \in S : m <= x
<1> DEFINE Topless == {s \in SUBSET S : s # {} /\ ~ \E m \in s : \A x \in s : x <= m}
           Bottomless == {s \in SUBSET S : s # {} /\ ~ \E m \in s : \A x \in s : m <= x}
<1>2. ASSUME Topless # {} PROVE FALSE
  <2>1. PICK s \in Topless : \A u \in Topless : u \subseteq s => u = s
    <3>1. Topless \in SUBSET (SUBSET S)
      OBVIOUS
    <3> HIDE DEF Topless, Bottomless
    <3> QED
      BY <1>2, <3>1, MinimalSubset
  <2>2. PICK x \in s : TRUE
    OBVIOUS
  <2>3. x \in Int /\ s \ {x} \in SUBSET S /\ s \ {x} \notin Topless
    BY <2>1
  <2>4. s \ {x} # {}
    OBVIOUS
  <2>5. PICK m \in s \ {x} : \A y \in s \ {x} : y <= m
    BY <2>3, <2>4
  <2>6. m \in Int /\ \A y \in s : y \in Int
    OBVIOUS
  <2> QED
    BY <2>3, <2>5, <2>6
<1>3. ASSUME Bottomless # {} PROVE FALSE
  <2>1. PICK s \in Bottomless : \A u \in Bottomless : u \subseteq s => u = s
    <3>1. Bottomless \in SUBSET (SUBSET S)
      OBVIOUS
    <3> HIDE DEF Topless, Bottomless
    <3> QED
      BY <1>3, <3>1, MinimalSubset
  <2>2. PICK x \in s : TRUE
    OBVIOUS
  <2>3. x \in Int /\ s \ {x} \in SUBSET S /\ s \ {x} \notin Bottomless
    BY <2>1
  <2>4. s \ {x} # {}
    OBVIOUS
  <2>5. PICK m \in s \ {x} : \A y \in s \ {x} : m <= y
    BY <2>3, <2>4
  <2>6. m \in Int /\ \A y \in s : y \in Int
    OBVIOUS
  <2> QED
    BY <2>3, <2>5, <2>6
<1> QED
  BY <1>2, <1>3

-----------------------------------------------------------------------------
(* Recursion on the naturals                                               *)

\* f begins with `base`, and each of its values up to n is a step from the one
\* before.
Stepwise(f, n, T, base, step) ==
    /\ f \in [0 .. n -> T] /\ f[0] = base
    /\ \A i \in 1 .. n : f[i] = step[i][f[i - 1]]

\* The same without an end.
StepwiseForever(f, T, base, step) ==
    /\ f \in [Nat -> T] /\ f[0] = base
    /\ \A i \in Nat : i # 0 => f[i] = step[i][f[i - 1]]

\* A recursive function on the naturals exists: each value is a step from the
\* one before.
LEMMA NatRecursion ==
    ASSUME NEW T, NEW base \in T, NEW step, \A n \in Nat : \A x \in T : step[n][x] \in T
    PROVE  \E f : StepwiseForever(f, T, base, step)
<1> DEFINE Runs(g, n) == Stepwise(g, n, T, base, step)
           Solved == {n \in Nat : \E g : Runs(g, n)}
<1>1. 0 \in Solved
  <2>1. Runs([i \in 0 .. 0 |-> base], 0)
    BY DEF Stepwise
  <2> QED
    BY <2>1
<1>2. ASSUME NEW n \in Solved PROVE n + 1 \in Solved
  <2>1. PICK g : Runs(g, n)
    OBVIOUS
  <2>2. step[n + 1][g[n]] \in T
    BY <2>1 DEF Stepwise
  <2> DEFINE h == [i \in 0 .. n + 1 |-> IF i = n + 1 THEN step[n + 1][g[n]] ELSE g[i]]
  <2>3. h \in [0 .. n + 1 -> T]
    BY <2>1, <2>2 DEF Stepwise
  <2>4. h[0] = base
    BY <2>1 DEF Stepwise
  <2>5. \A i \in 1 .. n + 1 : h[i] = step[i][h[i - 1]]
    BY <2>1 DEF Stepwise
  <2> HIDE DEF h
  <2>6. Runs(h, n + 1)
    BY <2>3, <2>4, <2>5 DEF Stepwise
  <2> QED
    BY <2>6
<1>3. Solved = Nat
  <2>1. Solved \in SUBSET Nat
    OBVIOUS
  <2> HIDE DEF Solved
  <2> QED
    BY <1>1, <1>2, <2>1, NatClosed
<1> DEFINE G(n) == CHOOSE g : Runs(g, n)
<1>4. \A n \in Nat : Runs(G(n), n)
  <2> HIDE DEF Runs
  <2> QED
    BY <1>3, Zenon
<1> HIDE DEF G
<1>5. \A n \in Nat : G(n + 1)[n] = G(n)[n]
  <2> SUFFICES ASSUME NEW n \in Nat PROVE G(n + 1)[n] = G(n)[n]
    OBVIOUS
  <2> DEFINE Same == {i \in Nat : i <= n => G(n + 1)[i] = G(n)[i]}
  <2>1. Runs(G(n), n) /\ Runs(G(n + 1), n + 1)
    BY <1>4
  <2>2. 0 \in Same
    BY <2>1 DEF Stepwise
  <2>3. ASSUME NEW i \in Same PROVE i + 1 \in Same
    <3> SUFFICES ASSUME i + 1 <= n PROVE G(n + 1)[i + 1] = G(n)[i + 1]
      OBVIOUS
    <3>1. i \in Nat /\ i + 1 \in 1 .. n /\ i + 1 \in 1 .. n + 1 /\ (i + 1) - 1 = i
      OBVIOUS
    <3>2. G(n + 1)[i] = G(n)[i]
      OBVIOUS
    <3>3. G(n)[i + 1] = step[i + 1][G(n)[i]] /\ G(n + 1)[i + 1] = step[i + 1][G(n + 1)[i]]
      BY <2>1, <3>1 DEF Stepwise
    <3> QED
      BY <3>2, <3>3
  <2>4. Same = Nat
    <3>1. Same \in SUBSET Nat
      OBVIOUS
    <3> HIDE DEF Same
    <3> QED
      BY <2>2, <2>3, <3>1, NatClosed
  <2> QED
    BY <2>4
<1> DEFINE f == [n \in Nat |-> G(n)[n]]
<1>6. f \in [Nat -> T]
  BY <1>4 DEF Stepwise
<1>7. f[0] = base
  BY <1>4 DEF Stepwise
<1>8. \A n \in Nat : n # 0 => f[n] = step[n][f[n - 1]]
  <2> SUFFICES ASSUME NEW n \in Nat, n # 0 PROVE f[n] = step[n][f[n - 1]]
    OBVIOUS
  <2>1. n - 1 \in Nat /\ (n - 1) + 1 = n /\ n \in 1 .. n
    OBVIOUS
  <2>2. G(n)[n] = step[n][G(n)[n - 1]]
    BY <1>4, <2>1 DEF Stepwise
  <2>3. G(n)[n - 1] = G(n - 1)[n - 1]
    BY <1>5, <2>1
  <2> QED
    BY <2>1, <2>2, <2>3
<1> HIDE DEF f
<1> QED
  BY <1>6, <1>7, <1>8 DEF StepwiseForever

\* ... and so does one that stops.
LEMMA BoundedRecursion ==
    ASSUME NEW N \in Nat, NEW T, NEW base \in T,
           NEW step, \A n \in 1 .. N : \A x \in T : step[n][x] \in T
    PROVE  \E f : Stepwise(f, N, T, base, step)
<1> DEFINE on == [n \in Nat |-> IF n \in 1 .. N THEN step[n] ELSE [x \in T |-> x]]
<1>1. /\ \A n \in Nat : \A x \in T : on[n][x] \in T
      /\ \A n \in 1 .. N : on[n] = step[n]
  OBVIOUS
<1> HIDE DEF on
<1>2. PICK g : StepwiseForever(g, T, base, on)
  BY <1>1, NatRecursion
<1> DEFINE f == [n \in 0 .. N |-> g[n]]
<1>3. f \in [0 .. N -> T] /\ f[0] = base
  BY <1>2 DEF StepwiseForever
<1>4. \A n \in 1 .. N : f[n] = step[n][f[n - 1]]
  BY <1>1, <1>2 DEF StepwiseForever
<1> HIDE DEF f
<1> QED
  BY <1>3, <1>4 DEF Stepwise
=============================================================================
