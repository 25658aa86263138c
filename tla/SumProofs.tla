----------------------------- MODULE SumProofs -----------------------------
(***************************************************************************)
(* Sums over finite sets, as SumOver computes them.  The community module's *)
(* fold takes the elements in an order of its own; what it returns is       *)
(* established by smallest counterexample: a set of subsets on which the     *)
(* claim fails has one of least cardinality, and that one does not fail.     *)
(***************************************************************************)
EXTENDS BatchArithmetic, FiniteSetTheorems, WellFoundedInduction, TLAPS

\* Every nonempty set of natural numbers has a least one.
LEMMA LeastNatural ==
  ASSUME NEW T, T \subseteq Nat, T # {}
  PROVE  \E n \in T : \A m \in T : ~(m < n)
<1>. DEFINE R == {ss \in Nat \X Nat : ss[1] < ss[2]}
<1>1. IsWellFoundedOn(R, Nat)
  BY NatLessThanWellFounded DEF OpToRel
<1>. HIDE DEF R
<1>2. \E n \in T : \A m \in T : ~(<<m, n>> \in R)
  BY <1>1, WFMin
<1>. QED BY <1>2 DEF R

\* The element of s that the fold takes first.
Chosen(s) == CHOOSE x \in s : TRUE
SumStep(f, s, g) == IF s = {} THEN 0 ELSE f[Chosen(s)] + g[s \ {Chosen(s)}]
Sums(f, S) == CHOOSE g : g = [s \in SUBSET S |-> SumStep(f, s, g)]

\* SumOver is the value at S of a function defined by recursion over the subsets
\* of S.
LEMMA SumIsFold ==
  ASSUME NEW f, NEW S
  PROVE  SumOver(f, S) = Sums(f, S)[S]
BY DEF SumOver, MapThenSumSet, MapThenFoldSet, Sums, SumStep, Chosen

\* The element taken first is one of the set.
LEMMA ChosenIsMember ==
  ASSUME NEW s, s # {}
  PROVE  Chosen(s) \in s
BY DEF Chosen

\* Without one of its elements a finite set is smaller by one.
LEMMA Smaller ==
  ASSUME NEW S, IsFiniteSet(S), NEW x \in S
  PROVE  /\ IsFiniteSet(S \ {x}) /\ S \ {x} \in SUBSET S
         /\ Cardinality(S) \in Nat /\ Cardinality(S \ {x}) \in Nat
         /\ Cardinality(S \ {x}) < Cardinality(S)
         /\ Cardinality(S \ {x}) = Cardinality(S) - 1
<1>1. IsFiniteSet(S \ {x}) /\ Cardinality(S \ {x}) = Cardinality(S) - 1
  BY FS_RemoveElement
<1>2. Cardinality(S) \in Nat /\ Cardinality(S \ {x}) \in Nat
  BY <1>1, FS_CardinalityType
<1>. QED BY <1>1, <1>2

\* A nonempty set of subsets of a finite set has one of least cardinality.
LEMMA SmallestSet ==
  ASSUME NEW S, IsFiniteSet(S), NEW T, T \subseteq SUBSET S, T # {}
  PROVE  \E s \in T : \A t \in T : ~(Cardinality(t) < Cardinality(s))
<1>. DEFINE C == {Cardinality(s) : s \in T}
<1>1. \A s \in T : Cardinality(s) \in Nat
  BY FS_Subset, FS_CardinalityType
<1>2. C \subseteq Nat /\ C # {}
  BY <1>1
<1>. HIDE DEF C
<1>3. \E n \in C : \A m \in C : ~(m < n)
  BY <1>2, LeastNatural
<1>. QED BY <1>3 DEF C

\* The recursive definition of the sums has a solution: there is no least size of
\* sets without one.
LEMMA SumsExist ==
  ASSUME NEW f, NEW S, IsFiniteSet(S)
  PROVE  \E g : g = [s \in SUBSET S |-> SumStep(f, s, g)]
<1>. DEFINE Level(n) == {s \in SUBSET S : Cardinality(s) <= n}
            P(n) == \E g : g = [s \in Level(n) |-> SumStep(f, s, g)]
            T == {n \in Nat : ~P(n)}
<1>1. \A s \in SUBSET S : IsFiniteSet(s) /\ Cardinality(s) \in Nat
  BY FS_Subset, FS_CardinalityType
<1>2. P(0)
  <2>. DEFINE g == [s \in Level(0) |-> 0]
  <2>1. \A s \in Level(0) : s = {}
    BY <1>1, FS_EmptySet
  <2>2. \A s \in Level(0) : SumStep(f, s, g) = 0
    BY <2>1 DEF SumStep
  <2>3. g = [s \in Level(0) |-> SumStep(f, s, g)]
    BY <2>2
  <2>. QED BY <2>3
<1>3. ASSUME NEW n \in Nat, P(n)
      PROVE  P(n + 1)
  <2>1. PICK g : g = [s \in Level(n) |-> SumStep(f, s, g)]
    BY <1>3
  <2>. DEFINE h == [s \in Level(n + 1) |-> SumStep(f, s, g)]
  <2>2. Level(n) \subseteq Level(n + 1)
    BY <1>1
  <2>3. \A s \in Level(n) : h[s] = g[s]
    BY <2>1, <2>2, Zenon
  <2>4. ASSUME NEW s \in Level(n + 1), s # {}
        PROVE  Chosen(s) \in s /\ s \ {Chosen(s)} \in Level(n)
    <3>1. Chosen(s) \in s
      BY <2>4, ChosenIsMember
    <3>2. IsFiniteSet(s) /\ Cardinality(s) \in Nat /\ Cardinality(s) <= n + 1
      BY <1>1
    <3>3. s \ {Chosen(s)} \in SUBSET S /\ Cardinality(s \ {Chosen(s)}) = Cardinality(s) - 1
      BY <3>1, <3>2, Smaller
    <3>. QED BY <3>1, <3>2, <3>3
  <2>5. \A s \in Level(n + 1) : SumStep(f, s, g) = SumStep(f, s, h)
    BY <2>3, <2>4 DEF SumStep
  <2>6. h = [s \in Level(n + 1) |-> SumStep(f, s, h)]
    BY <2>5, Zenon
  <2>. QED BY <2>6
<1>. HIDE DEF P
<1>4. T = {}
  <2>1. SUFFICES ASSUME T # {} PROVE FALSE
    OBVIOUS
  <2>2. PICK n \in T : \A m \in T : ~(m < n)
    BY <2>1, LeastNatural
  <2>3. n # 0
    BY <1>2
  <2>4. n - 1 \in Nat /\ n - 1 \notin T
    BY <2>2, <2>3
  <2>5. P((n - 1) + 1)
    BY <2>4, <1>3
  <2>. QED BY <2>2, <2>5
<1>5. P(Cardinality(S))
  BY <1>4, FS_CardinalityType
<1>6. Level(Cardinality(S)) = SUBSET S
  BY <1>1, FS_Subset
<1>. QED BY <1>5, <1>6 DEF P

\* The function chosen is such a solution.
LEMMA SumsFold ==
  ASSUME NEW f, NEW S, IsFiniteSet(S)
  PROVE  \A s \in SUBSET S : Sums(f, S)[s] = SumStep(f, s, Sums(f, S))
<1>0. \E g : g = [s \in SUBSET S |-> SumStep(f, s, g)]
  BY SumsExist
<1>1. Sums(f, S) = [s \in SUBSET S |-> SumStep(f, s, Sums(f, S))]
  BY <1>0, Zenon DEF Sums
<1>. DEFINE G == Sums(f, S)
<1>2. G = [s \in SUBSET S |-> SumStep(f, s, G)]
  BY <1>1
<1>. HIDE DEF G
<1>3. \A s \in SUBSET S : G[s] = SumStep(f, s, G)
  BY <1>2, Zenon
<1>. QED BY <1>3 DEF G

\* The sums over a set do not depend on the set they are defined on: there is no
\* smallest subset on which they differ.
LEMMA SumsAgree ==
  ASSUME NEW f, NEW S, IsFiniteSet(S), NEW R \in SUBSET S
  PROVE  \A s \in SUBSET R : Sums(f, S)[s] = Sums(f, R)[s]
<1>. DEFINE T == {s \in SUBSET R : Sums(f, S)[s] # Sums(f, R)[s]}
<1>1. IsFiniteSet(R)
  BY FS_Subset
<1>2. SUFFICES ASSUME T # {} PROVE FALSE
  OBVIOUS
<1>3. PICK s \in T : \A t \in T : ~(Cardinality(t) < Cardinality(s))
  BY <1>1, <1>2, SmallestSet
<1>4. IsFiniteSet(s) /\ s \in SUBSET R /\ s \in SUBSET S
  BY <1>1, FS_Subset
<1>5. Sums(f, S)[s] = SumStep(f, s, Sums(f, S)) /\ Sums(f, R)[s] = SumStep(f, s, Sums(f, R))
  BY <1>1, <1>4, SumsFold
<1>6. s # {} /\ Chosen(s) \in s
  BY <1>5, ChosenIsMember DEF SumStep
<1>7. s \ {Chosen(s)} \in SUBSET R /\ s \ {Chosen(s)} \notin T
  BY <1>3, <1>4, <1>6, Smaller
<1>8. Sums(f, S)[s \ {Chosen(s)}] = Sums(f, R)[s \ {Chosen(s)}]
  BY <1>7
<1>. QED BY <1>5, <1>6, <1>8 DEF SumStep

\* The sum over a set that is not empty, by the element taken first.
LEMMA SumUnfolds ==
  ASSUME NEW f, NEW S, IsFiniteSet(S)
  PROVE  /\ S = {} => SumOver(f, S) = 0
         /\ S # {} => SumOver(f, S) = f[Chosen(S)] + SumOver(f, S \ {Chosen(S)})
<1>1. SumOver(f, S) = SumStep(f, S, Sums(f, S))
  BY SumIsFold, SumsFold
<1>2. CASE S = {}
  BY <1>1, <1>2 DEF SumStep
<1>3. CASE S # {}
  <2>1. Chosen(S) \in S
    BY <1>3, ChosenIsMember
  <2>2. S \ {Chosen(S)} \in SUBSET S
    BY <2>1
  <2>3. Sums(f, S)[S \ {Chosen(S)}] = Sums(f, S \ {Chosen(S)})[S \ {Chosen(S)}]
    BY <2>2, SumsAgree
  <2>4. SumOver(f, S \ {Chosen(S)}) = Sums(f, S \ {Chosen(S)})[S \ {Chosen(S)}]
    BY SumIsFold
  <2>. QED BY <1>1, <1>3, <2>3, <2>4 DEF SumStep
<1>. QED BY <1>2, <1>3

\* A sum of natural numbers is a natural number.
LEMMA SumIsNat ==
  ASSUME NEW f, NEW S, IsFiniteSet(S), \A x \in S : f[x] \in Nat
  PROVE  SumOver(f, S) \in Nat
<1>. DEFINE T == {s \in SUBSET S : SumOver(f, s) \notin Nat}
<1>2. SUFFICES ASSUME T # {} PROVE FALSE
  OBVIOUS
<1>3. PICK s \in T : \A t \in T : ~(Cardinality(t) < Cardinality(s))
  BY <1>2, SmallestSet
<1>4. IsFiniteSet(s) /\ s \in SUBSET S
  BY FS_Subset
<1>5. s # {} /\ Chosen(s) \in s
  <2>1. s = {} => SumOver(f, s) = 0
    BY <1>4, SumUnfolds
  <2>. QED BY <1>3, <2>1, ChosenIsMember
<1>6. s \ {Chosen(s)} \in SUBSET S /\ s \ {Chosen(s)} \notin T
  BY <1>3, <1>4, <1>5, Smaller
<1>7. SumOver(f, s) = f[Chosen(s)] + SumOver(f, s \ {Chosen(s)})
  BY <1>4, <1>5, SumUnfolds
<1>. QED BY <1>4, <1>5, <1>6, <1>7

\* Any element may be taken first.
LEMMA SumWithout ==
  ASSUME NEW f, NEW S, IsFiniteSet(S), \A x \in S : f[x] \in Nat, NEW a \in S
  PROVE  SumOver(f, S) = f[a] + SumOver(f, S \ {a})
<1>. DEFINE T == {s \in SUBSET S : \E x \in s : SumOver(f, s) # f[x] + SumOver(f, s \ {x})}
<1>2. SUFFICES ASSUME T # {} PROVE FALSE
  OBVIOUS
<1>3. PICK s \in T : \A t \in T : ~(Cardinality(t) < Cardinality(s))
  BY <1>2, SmallestSet
<1>4. PICK x \in s : SumOver(f, s) # f[x] + SumOver(f, s \ {x})
  BY <1>3
<1>5. IsFiniteSet(s) /\ s \in SUBSET S
  BY FS_Subset
<1>. DEFINE y == Chosen(s)
<1>6. y \in s /\ SumOver(f, s) = f[y] + SumOver(f, s \ {y})
  BY <1>5, SumUnfolds, ChosenIsMember
<1>. HIDE DEF y
<1>7. x # y
  BY <1>4, <1>6
<1>8. s \ {x} \notin T /\ s \ {y} \notin T /\ s \ {x} \in SUBSET S /\ s \ {y} \in SUBSET S
  BY <1>3, <1>5, <1>6, Smaller
<1>9. /\ SumOver(f, s \ {x}) = f[y] + SumOver(f, (s \ {x}) \ {y})
      /\ SumOver(f, s \ {y}) = f[x] + SumOver(f, (s \ {y}) \ {x})
  BY <1>6, <1>7, <1>8
<1>10. (s \ {x}) \ {y} = (s \ {y}) \ {x}
  OBVIOUS
<1>11. SumOver(f, (s \ {x}) \ {y}) \in Nat
  <2>1. IsFiniteSet((s \ {x}) \ {y}) /\ (s \ {x}) \ {y} \subseteq S
    BY <1>5, FS_Subset
  <2>. QED BY <2>1, SumIsNat
<1>12. f[x] \in Nat /\ f[y] \in Nat
  BY <1>5, <1>6
<1>13. SumOver(f, s) = f[x] + SumOver(f, s \ {x})
  BY <1>6, <1>9, <1>10, <1>11, <1>12, SMTT(20)
<1>. QED BY <1>4, <1>13

\* A sum of zeros is zero.
LEMMA SumOfZeros ==
  ASSUME NEW f, NEW S, IsFiniteSet(S), \A x \in S : f[x] = 0
  PROVE  SumOver(f, S) = 0
<1>. DEFINE T == {s \in SUBSET S : SumOver(f, s) # 0}
<1>1. SUFFICES ASSUME T # {} PROVE FALSE
  OBVIOUS
<1>2. PICK s \in T : \A t \in T : ~(Cardinality(t) < Cardinality(s))
  BY <1>1, SmallestSet
<1>3. IsFiniteSet(s) /\ s \in SUBSET S
  BY FS_Subset
<1>4. s # {} /\ Chosen(s) \in s
  <2>1. s = {} => SumOver(f, s) = 0
    BY <1>3, SumUnfolds
  <2>. QED BY <1>2, <2>1, ChosenIsMember
<1>5. s \ {Chosen(s)} \in SUBSET S /\ s \ {Chosen(s)} \notin T
  BY <1>2, <1>3, <1>4, Smaller
<1>6. SumOver(f, s) = f[Chosen(s)] + SumOver(f, s \ {Chosen(s)})
  BY <1>3, <1>4, SumUnfolds
<1>. QED BY <1>2, <1>3, <1>4, <1>5, <1>6

\* A sum with one term is the term.
LEMMA SumOfOne ==
  ASSUME NEW f, NEW S, IsFiniteSet(S), NEW a \in S, f[a] \in Nat,
         \A x \in S \ {a} : f[x] = 0
  PROVE  SumOver(f, S) = f[a]
<1>1. \A x \in S : f[x] \in Nat
  OBVIOUS
<1>2. SumOver(f, S) = f[a] + SumOver(f, S \ {a})
  BY <1>1, SumWithout
<1>3. SumOver(f, S \ {a}) = 0
  BY FS_Subset, SumOfZeros
<1>. QED BY <1>2, <1>3

\* The sum over a set is the sum over a part of it and the sum over the rest.
LEMMA SumSplit ==
  ASSUME NEW f, NEW S, IsFiniteSet(S), \A x \in S : f[x] \in Nat, NEW R \in SUBSET S
  PROVE  SumOver(f, S) = SumOver(f, R) + SumOver(f, S \ R)
<1>. DEFINE T == {s \in SUBSET S : SumOver(f, S) # SumOver(f, s) + SumOver(f, S \ s)}
<1>1. SUFFICES ASSUME T # {} PROVE FALSE
  OBVIOUS
<1>2. PICK s \in T : \A t \in T : ~(Cardinality(t) < Cardinality(s))
  BY <1>1, SmallestSet
<1>3. IsFiniteSet(s) /\ s \in SUBSET S /\ IsFiniteSet(S \ s)
  BY FS_Subset
<1>4. SumOver(f, S) \in Nat /\ SumOver(f, s) \in Nat /\ SumOver(f, S \ s) \in Nat
  BY <1>3, SumIsNat
<1>5. s # {}
  <2>1. SumOver(f, {}) = 0 /\ S \ {} = S
    BY SumUnfolds, FS_EmptySet
  <2>. QED BY <1>2, <1>4, <2>1
<1>6. PICK x \in s : TRUE
  BY <1>5
<1>. DEFINE r == s \ {x}
<1>7. IsFiniteSet(r) /\ r \in SUBSET S /\ r \notin T
  BY <1>2, <1>3, Smaller
<1>8. SumOver(f, S) = SumOver(f, r) + SumOver(f, S \ r)
  BY <1>7
<1>9. SumOver(f, s) = f[x] + SumOver(f, r)
  BY <1>3, SumWithout
<1>10. SumOver(f, S \ r) = f[x] + SumOver(f, S \ s)
  <2>1. IsFiniteSet(S \ r) /\ x \in S \ r /\ (S \ r) \ {x} = S \ s /\ S \ r \subseteq S
    BY <1>3, FS_Subset
  <2>2. \A y \in S \ r : f[y] \in Nat
    OBVIOUS
  <2>3. SumOver(f, S \ r) = f[x] + SumOver(f, (S \ r) \ {x})
    BY <2>1, <2>2, SumWithout
  <2>. QED BY <2>1, <2>3
<1>11. f[x] \in Nat /\ SumOver(f, r) \in Nat
  BY <1>3, <1>7, SumIsNat
<1>. HIDE DEF T, r
<1>12. SumOver(f, S) = SumOver(f, s) + SumOver(f, S \ s)
  BY <1>4, <1>8, <1>9, <1>10, <1>11
<1>. QED BY <1>2, <1>12 DEF T

\* If every term of one sum is at most the terms of two others together, so is
\* the sum.
LEMMA SumDominates ==
  ASSUME NEW f, NEW g, NEW h, NEW S, IsFiniteSet(S),
         \A x \in S : f[x] \in Nat /\ g[x] \in Nat /\ h[x] \in Nat /\ f[x] <= g[x] + h[x]
  PROVE  SumOver(f, S) <= SumOver(g, S) + SumOver(h, S)
<1>. DEFINE T == {s \in SUBSET S : ~(SumOver(f, s) <= SumOver(g, s) + SumOver(h, s))}
<1>1. SUFFICES ASSUME T # {} PROVE FALSE
  OBVIOUS
<1>2. PICK s \in T : \A t \in T : ~(Cardinality(t) < Cardinality(s))
  BY <1>1, SmallestSet
<1>3. IsFiniteSet(s) /\ s \in SUBSET S
  BY FS_Subset
<1>4. s # {}
  <2>1. SumOver(f, {}) = 0 /\ SumOver(g, {}) = 0 /\ SumOver(h, {}) = 0
    BY SumUnfolds, FS_EmptySet
  <2>. QED BY <1>2, <2>1
<1>5. PICK x \in s : TRUE
  BY <1>4
<1>. DEFINE r == s \ {x}
<1>6. IsFiniteSet(r) /\ r \in SUBSET S /\ r \notin T
  BY <1>2, <1>3, Smaller
<1>7. SumOver(f, r) <= SumOver(g, r) + SumOver(h, r)
  BY <1>6
<1>8. SumOver(f, s) = f[x] + SumOver(f, r)
  BY <1>3, SumWithout
<1>9. SumOver(g, s) = g[x] + SumOver(g, r)
  BY <1>3, SumWithout
<1>10. SumOver(h, s) = h[x] + SumOver(h, r)
  BY <1>3, SumWithout
<1>11. SumOver(f, r) \in Nat /\ SumOver(g, r) \in Nat /\ SumOver(h, r) \in Nat
  BY <1>6, SumIsNat
<1>12. f[x] \in Nat /\ g[x] \in Nat /\ h[x] \in Nat /\ f[x] <= g[x] + h[x]
  BY <1>3
<1>. HIDE DEF T, r
<1>13. SumOver(f, s) <= SumOver(g, s) + SumOver(h, s)
  BY <1>7, <1>8, <1>9, <1>10, <1>11, <1>12
<1>. QED BY <1>2, <1>13 DEF T

\* A sum grows with its terms.
LEMMA SumMonotone ==
  ASSUME NEW f, NEW g, NEW S, IsFiniteSet(S),
         \A x \in S : f[x] \in Nat /\ g[x] \in Nat /\ f[x] <= g[x]
  PROVE  SumOver(f, S) <= SumOver(g, S)
<1>. DEFINE h == [x \in S |-> 0]
<1>1. \A x \in S : f[x] \in Nat /\ g[x] \in Nat /\ h[x] \in Nat /\ f[x] <= g[x] + h[x]
  OBVIOUS
<1>2. SumOver(h, S) = 0
  BY SumOfZeros
<1>3. SumOver(f, S) \in Nat /\ SumOver(g, S) \in Nat
  BY SumIsNat
<1>. HIDE DEF h
<1>4. SumOver(f, S) <= SumOver(g, S) + SumOver(h, S)
  BY <1>1, SumDominates
<1>. QED BY <1>2, <1>3, <1>4

\* A sum depends on the terms only.
LEMMA SumSame ==
  ASSUME NEW f, NEW g, NEW S, IsFiniteSet(S), \A x \in S : f[x] \in Nat /\ g[x] = f[x]
  PROVE  SumOver(f, S) = SumOver(g, S)
<1>1. SumOver(f, S) <= SumOver(g, S)
  BY SumMonotone
<1>2. SumOver(g, S) <= SumOver(f, S)
  BY SumMonotone
<1>3. SumOver(f, S) \in Nat /\ SumOver(g, S) \in Nat
  BY SumIsNat
<1>. QED BY <1>1, <1>2, <1>3
============================================================================
