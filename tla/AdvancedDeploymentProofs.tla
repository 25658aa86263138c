---------------------- MODULE AdvancedDeploymentProofs ----------------------
(***************************************************************************)
(* The advanced Deployment controller, for every number of pods,           *)
(* ReplicaSets and revisions: types, the partition, the surge and the       *)
(* availability in every round that rolls, whole or cut off.                *)
(*                                                                         *)
(* A round is a sequence of states of the ReplicaSets.  Every state of it is *)
(* shown to be in a set of states that is defined by the state the round     *)
(* starts from, so that a prefix of the round is in it too.                  *)
(***************************************************************************)
EXTENDS AdvancedDeployment, SumProofs

-----------------------------------------------------------------------------
(* Finite sets in order.                                                    *)

\* A finite set of natural numbers that is not empty has a greatest one.
LEMMA GreatestNatural ==
  ASSUME NEW S, IsFiniteSet(S), S \subseteq Nat, S # {}
  PROVE  Max(S) \in S /\ \A y \in S : Max(S) >= y
<1>. DEFINE T == {s \in SUBSET S : s # {} /\ ~\E x \in s : \A y \in s : x >= y}
<1>1. T = {}
  <2>1. SUFFICES ASSUME T # {} PROVE FALSE
    OBVIOUS
  <2>2. PICK s \in T : \A t \in T : ~(Cardinality(t) < Cardinality(s))
    BY <2>1, SmallestSet
  <2>3. IsFiniteSet(s) /\ s \in SUBSET S /\ s # {}
    BY FS_Subset
  <2>4. PICK x \in s : TRUE
    BY <2>3
  <2>5. s \ {x} \notin T /\ s \ {x} \in SUBSET S
    BY <2>2, <2>3, Smaller
  <2>6. CASE s \ {x} = {}
    <3>1. s = {x} /\ x \in Nat
      BY <2>3, <2>6
    <3>. QED BY <2>2, <3>1
  <2>7. CASE s \ {x} # {}
    <3>1. PICK z \in s \ {x} : \A y \in s \ {x} : z >= y
      BY <2>5, <2>7
    <3>2. x \in Nat /\ z \in Nat /\ \A y \in s : y \in Nat
      BY <2>3
    <3>3. x >= z => \A y \in s : x >= y
      BY <3>1, <3>2
    <3>4. z >= x => \A y \in s : z >= y
      BY <3>1, <3>2
    <3>. QED BY <2>2, <3>2, <3>3, <3>4
  <2>. QED BY <2>6, <2>7
<1>2. \E x \in S : \A y \in S : x >= y
  BY <1>1
<1>. QED BY <1>2 DEF Max

\* A set of natural numbers that is not empty has a least one.
LEMMA LeastOfSet ==
  ASSUME NEW S, S \subseteq Nat, S # {}
  PROVE  Min(S) \in S /\ \A y \in S : Min(S) <= y
<1>1. PICK n \in S : \A m \in S : ~(m < n)
  BY LeastNatural
<1>2. \A y \in S : n <= y
  BY <1>1
<1>. QED BY <1>2 DEF Min

\* Pairs that order a set: any two members one way and not both.
Orders(S, before) ==
  /\ \A x \in S : <<x, x>> \notin before
  /\ \A x, y \in S : x # y => <<x, y>> \in before \/ <<y, x>> \in before
  /\ \A x, y, z \in S : <<x, y>> \in before /\ <<y, z>> \in before => <<x, z>> \in before

\* A finite set that is not empty has a last member.
LEMMA LastMember ==
  ASSUME NEW S, IsFiniteSet(S), S # {}, NEW before, Orders(S, before)
  PROVE  \E x \in S : \A y \in S \ {x} : <<y, x>> \in before
<1>. DEFINE HasLast(s) == \E x \in s : \A y \in s \ {x} : <<y, x>> \in before
            T == {s \in SUBSET S : s # {} /\ ~HasLast(s)}
<1>1. SUFFICES ASSUME T # {} PROVE FALSE
  OBVIOUS
<1>2. PICK s \in T : \A t \in T : ~(Cardinality(t) < Cardinality(s))
  BY <1>1, SmallestSet
<1>3. IsFiniteSet(s) /\ s \in SUBSET S /\ s # {}
  BY FS_Subset
<1>4. PICK x \in s : TRUE
  BY <1>3
<1>5. s \ {x} \notin T /\ s \ {x} \in SUBSET S
  BY <1>2, <1>3, Smaller
<1>6. CASE s \ {x} = {}
  BY <1>2, <1>6
<1>7. CASE s \ {x} # {}
  <2>1. PICK z \in s \ {x} : \A y \in (s \ {x}) \ {z} : <<y, z>> \in before
    BY <1>5, <1>7
  <2>2. x \in S /\ z \in S /\ x # z
    BY <1>3
  <2>3. CASE <<x, z>> \in before
    <3>1. \A y \in s \ {z} : <<y, z>> \in before
      BY <2>1, <2>3
    <3>. QED BY <1>2, <3>1
  <2>4. CASE <<z, x>> \in before
    <3>1. \A y \in s \ {x} : <<y, x>> \in before
      BY <1>3, <2>1, <2>2, <2>4 DEF Orders
    <3>. QED BY <1>2, <3>1
  <2>. QED BY <2>2, <2>3, <2>4 DEF Orders
<1>. QED BY <1>6, <1>7

InOrderOf(s, before) == \A i, j \in DOMAIN s : i < j => <<s[i], s[j]>> \in before

\* A finite set can be put in order: there is no smallest one that cannot.
LEMMA SortedExists ==
  ASSUME NEW S, IsFiniteSet(S), NEW before, Orders(S, before)
  PROVE  \E s \in SetToSeqs(S) : InOrderOf(s, before)
<1>. DEFINE Can(t) == \E s \in SetToSeqs(t) : InOrderOf(s, before)
            T == {t \in SUBSET S : ~Can(t)}
<1>1. SUFFICES ASSUME T # {} PROVE FALSE
  OBVIOUS
<1>2. PICK t \in T : \A u \in T : ~(Cardinality(u) < Cardinality(t))
  BY <1>1, SmallestSet
<1>3. IsFiniteSet(t) /\ t \in SUBSET S /\ Cardinality(t) \in Nat
  BY FS_Subset, FS_CardinalityType
<1>4. CASE t = {}
  <2>1. Cardinality(t) = 0 /\ 1..0 = {}
    BY <1>4, FS_EmptySet
  <2>2. <<>> \in SetToSeqs(t) /\ InOrderOf(<<>>, before)
    BY <2>1 DEF SetToSeqs, InOrderOf
  <2>. QED BY <1>2, <2>2
<1>5. CASE t # {}
  <2>1. Orders(t, before)
    BY <1>3 DEF Orders
  <2>2. PICK x \in t : \A y \in t \ {x} : <<y, x>> \in before
    BY <1>3, <1>5, <2>1, LastMember
  <2>. DEFINE u == t \ {x}
              n == Cardinality(t)
  <2>3. u \in SUBSET S /\ u \notin T /\ Cardinality(u) = n - 1 /\ n \in Nat /\ n - 1 \in Nat
    <3>1. /\ Cardinality(u) \in Nat /\ Cardinality(u) = n - 1 /\ n \in Nat
          /\ Cardinality(u) < n /\ u \in SUBSET t
      BY <1>3, Smaller
    <3>2. u \notin T
      BY <1>2, <3>1
    <3>. QED BY <1>3, <3>1, <3>2
  <2>4. PICK s \in SetToSeqs(u) : InOrderOf(s, before)
    BY <2>3
  <2>5. /\ s \in [1..(n - 1) -> u]
        /\ \A i, j \in 1..(n - 1) : i # j => s[i] # s[j]
    BY <2>3, <2>4 DEF SetToSeqs
  <2>. DEFINE q == [i \in 1..n |-> IF i = n THEN x ELSE s[i]]
  <2>. HIDE DEF u, n
  <2>6. \A i \in 1..n : i # n => i \in 1..(n - 1)
    BY <2>3
  <2>7. u \subseteq t /\ x \notin u
    BY DEF u
  <2>8. q \in [1..n -> t]
    BY <2>5, <2>6, <2>7
  <2>9. \A i, j \in 1..n : i # j => q[i] # q[j]
    BY <2>5, <2>6, <2>7
  <2>10. q \in SetToSeqs(t)
    BY <2>8, <2>9 DEF SetToSeqs, n
  <2>11. ASSUME NEW i \in 1..n, NEW j \in 1..n, i < j
         PROVE  <<q[i], q[j]>> \in before
    <3>1. i \in 1..(n - 1)
      BY <2>3, <2>11
    <3>2. CASE j = n
      BY <2>2, <2>5, <3>1, <3>2, <2>3 DEF u
    <3>3. CASE j # n
      <4>1. j \in 1..(n - 1) /\ q[i] = s[i] /\ q[j] = s[j]
        BY <2>3, <2>6, <3>1, <3>3
      <4>2. DOMAIN s = 1..(n - 1)
        BY <2>5
      <4>. QED BY <2>4, <2>11, <3>1, <4>1, <4>2 DEF InOrderOf
    <3>. QED BY <3>2, <3>3
  <2>12. InOrderOf(q, before)
    BY <2>11 DEF InOrderOf
  <2>. QED BY <1>2, <2>10, <2>12
<1>. QED BY <1>4, <1>5

\* A sequence that has every member of a set once.
Enumerates(s, S) ==
  /\ s \in Seq(S) /\ Len(s) = Cardinality(S)
  /\ \A i, j \in 1..Len(s) : s[i] = s[j] => i = j
  /\ \A x \in S : \E i \in 1..Len(s) : s[i] = x

\* What Sorted returns.
LEMMA SortedEnumerates ==
  ASSUME NEW S, IsFiniteSet(S), NEW before, Orders(S, before)
  PROVE  Enumerates(Sorted(S, before), S) /\ InOrderOf(Sorted(S, before), before)
<1>1. \E s \in SetToSeqs(S) : \A i, j \in DOMAIN s : i < j => <<s[i], s[j]>> \in before
  BY SortedExists, Zenon DEF InOrderOf
<1>. DEFINE s == Sorted(S, before)
<1>2. s \in SetToSeqs(S) /\ InOrderOf(s, before)
  BY <1>1, Zenon DEF Sorted, InOrderOf
<1>. HIDE DEF s
<1>3. /\ s \in [1..Cardinality(S) -> S]
      /\ \A i, j \in 1..Cardinality(S) : i # j => s[i] # s[j]
  BY <1>2 DEF SetToSeqs
<1>4. Cardinality(S) \in Nat
  BY FS_CardinalityType
<1>5. s \in Seq(S) /\ Len(s) = Cardinality(S)
  BY <1>3, <1>4
<1>6. \A x \in S : \E i \in 1..Cardinality(S) : s[i] = x
  <2>1. IsFiniteSet(1..Cardinality(S)) /\ Cardinality(1..Cardinality(S)) = Cardinality(S)
    BY <1>4, FS_Interval
  <2>2. s \in Injection(1..Cardinality(S), S)
    BY <1>3 DEF Injection, IsInjective
  <2>3. s \in Surjection(1..Cardinality(S), S)
    BY <2>1, <2>2, FS_Injection
  <2>. QED BY <2>3 DEF Surjection
<1>. QED BY <1>2, <1>3, <1>5, <1>6 DEF Enumerates, s

-----------------------------------------------------------------------------
(* The Deployment and its ReplicaSets.                                      *)

\* What the proofs use of a Deployment.
LEMMA DeploymentFields ==
  ASSUME dep \in Deployments
  PROVE  /\ dep.template \in Revisions /\ dep.replicas \in Sizes
         /\ dep.replicas \in Nat
         /\ dep.part \in Knobs /\ dep.budget.surge \in Knobs /\ dep.budget.unavailable \in Knobs
<1>1. /\ dep.template \in Revisions /\ dep.replicas \in Sizes /\ dep.part \in Partitions
      /\ dep.budget \in Budgets
  BY DEF Deployments
<1>2. dep.replicas \in Nat
  BY <1>1, SizesAssumption DEF Counts
<1>3. dep.part \in Knobs
  BY <1>1, PartitionsAssumption
<1>4. dep.budget \in [surge : Knobs, unavailable : Knobs]
  BY <1>1, BudgetAssumption
<1>. QED BY <1>1, <1>2, <1>3, <1>4

\* A knob is worth a natural number of pods.
LEMMA ScaledIsNat ==
  ASSUME NEW x \in Knobs, NEW n \in Nat, NEW up \in BOOLEAN
  PROVE  Scaled(x, n, up) \in Nat
<1>1. x.n \in Nat /\ x.pct \in BOOLEAN
  BY DEF Knobs, Counts, Flags
<1>2. x.n * n \in Nat
  BY <1>1
<1>. DEFINE m == x.n * n
<1>. HIDE DEF m
<1>3. \A k \in Nat : k \div 100 \in Nat
  OBVIOUS
<1>4. (m + (IF up THEN 99 ELSE 0)) \div 100 \in Nat
  BY <1>2, <1>3 DEF m
<1>. QED BY <1>1, <1>4 DEF Scaled, m

\* The smaller and the larger of two numbers.
LEMMA SmallerLarger ==
  ASSUME NEW a \in Int, NEW b \in Int
  PROVE  /\ Below(a, b) \in {a, b} /\ Below(a, b) <= a /\ Below(a, b) <= b
         /\ Above(a, b) \in {a, b} /\ Above(a, b) >= a /\ Above(a, b) >= b
         /\ Below(a, b) \in Int /\ Above(a, b) \in Int
BY DEF Below, Above

\* Surge, unavailability, partition and lower bound of a Deployment.
LEMMA BudgetBounds ==
  ASSUME dep \in Deployments
  PROVE  /\ MaxSurge \in Nat
         /\ MaxUnavailable \in Nat /\ MaxUnavailable <= dep.replicas
         /\ MinAvailable \in Nat /\ MinAvailable <= dep.replicas
         /\ Limit \in Nat /\ Limit <= dep.replicas
         /\ NewRSReplicasLowerBound \in {0, 1}
<1>. DEFINE n == dep.replicas
<1>1. /\ n \in Nat /\ dep.part \in Knobs
      /\ dep.budget.surge \in Knobs /\ dep.budget.unavailable \in Knobs
  BY DeploymentFields
<1>2. MaxSurge \in Nat
  BY <1>1, ScaledIsNat DEF MaxSurge
<1>3. MaxUnavailable \in Nat /\ MaxUnavailable <= n
  <2>1. Scaled(dep.budget.unavailable, n, FALSE) \in Nat
    BY <1>1, ScaledIsNat
  <2>. DEFINE m == Scaled(dep.budget.unavailable, n, FALSE)
              k == IF m = 0 /\ MaxSurge = 0 THEN 1 ELSE m
  <2>2. MaxUnavailable = IF n = 0 THEN 0 ELSE Below(n, k)
    BY DEF MaxUnavailable
  <2>3. k \in Nat
    BY <2>1
  <2>. HIDE DEF n, k
  <2>. QED BY <1>1, <2>2, <2>3 DEF Below
<1>4. Limit \in Nat /\ Limit <= n
  <2>1. Scaled(dep.part, n, TRUE) \in Nat
    BY <1>1, ScaledIsNat
  <2>. DEFINE c == Clamp(Scaled(dep.part, n, TRUE), n)
  <2>2. c \in Nat /\ c <= n
    <3>1. \A m \in Nat : Clamp(m, n) \in Nat /\ Clamp(m, n) <= n
      BY <1>1 DEF Clamp, Above, Below
    <3>. QED BY <2>1, <3>1
  <2>3. Limit = IF n > 1 /\ dep.part.pct /\ dep.part # Percent(100) THEN Below(c, n - 1) ELSE c
    BY DEF Limit, NewRSReplicasLimit
  <2>. HIDE DEF n, c
  <2>. QED BY <1>1, <2>2, <2>3 DEF Below
<1>5. NewRSReplicasLowerBound \in {0, 1}
  BY <1>1 DEF NewRSReplicasLowerBound, Below
<1>. QED BY <1>1, <1>2, <1>3, <1>4, <1>5 DEF MinAvailable

\* What the proofs use of a ReplicaSet.
LEMMA ReplicaSetFields ==
  ASSUME NEW x \in ReplicaSets
  PROVE  /\ x.size \in Nat /\ x.avail \in Nat /\ x.rev \in Nat /\ x.born \in Nat
         /\ x.max \in Nat /\ x.desired \in Sizes
BY DEF ReplicaSets, Counts

\* Scaling a ReplicaSet changes its size and the annotations of the size.
LEMMA ScaledReplicaSet ==
  ASSUME dep \in Deployments, NEW x \in ReplicaSets, NEW n \in Nat,
         NEW y \in {ScaleReplicaSet(x, n), ScaleAndRecord(x, n)}
  PROVE  /\ y \in ReplicaSets /\ y.size = n
         /\ y.avail = x.avail /\ y.born = x.born /\ y.rev = x.rev
<1>1. dep.replicas \in Sizes /\ dep.replicas \in Nat /\ MaxSurge \in Nat
  BY DeploymentFields, BudgetBounds
<1>2. dep.replicas + MaxSurge \in Counts /\ n \in Counts
  BY <1>1 DEF Counts
<1>. DEFINE z == ScaleReplicaSet(x, n)
<1>3. /\ z \in ReplicaSets /\ z.size = n
      /\ z.avail = x.avail /\ z.born = x.born /\ z.rev = x.rev
  BY <1>1, <1>2 DEF ScaleReplicaSet, ReplicaSets
<1>. QED BY <1>3 DEF ScaleAndRecord

-----------------------------------------------------------------------------
(* The states of a round.                                                   *)

AllStates == UNION {[D -> ReplicaSets] : D \in SUBSET Revisions}

\* ReplicaSets that can be put in order.
Sound(R) ==
  /\ R \in AllStates /\ DOMAIN R \subseteq Revisions /\ R \in [DOMAIN R -> ReplicaSets]
  /\ IsFiniteSet(DOMAIN R)
  /\ \A r \in DOMAIN R : R[r].born <= Cardinality(DOMAIN R)
  /\ \A r, x \in DOMAIN R : R[r].born = R[x].born => r = x

\* T differs from R in sizes and annotations only.
Resized(R, T) ==
  /\ DOMAIN T = DOMAIN R /\ T \in [DOMAIN R -> ReplicaSets]
  /\ \A r \in DOMAIN R : T[r].avail = R[r].avail /\ T[r].born = R[r].born

\* Such a T can be put in order like R.
LEMMA ResizedSound ==
  ASSUME NEW R, Sound(R), NEW T, Resized(R, T)
  PROVE  Sound(T)
<1>1. DOMAIN T = DOMAIN R /\ T \in [DOMAIN R -> ReplicaSets] /\ DOMAIN R \subseteq Revisions
  BY DEF Resized, Sound
<1>2. T \in AllStates
  BY <1>1 DEF AllStates
<1>. QED BY <1>1, <1>2 DEF Resized, Sound

\* ReplicaSets one by one.
LEMMA SoundFields ==
  ASSUME NEW R, Sound(R), NEW r \in DOMAIN R
  PROVE  /\ R[r] \in ReplicaSets
         /\ R[r].size \in Nat /\ R[r].avail \in Nat /\ R[r].rev \in Nat /\ R[r].born \in Nat
         /\ R[r].max \in Nat
<1>1. R[r] \in ReplicaSets
  BY DEF Sound
<1>. QED BY <1>1, ReplicaSetFields

\* Totals are natural numbers.
LEMMA TotalsAreNat ==
  ASSUME NEW R, Sound(R), NEW S \in SUBSET DOMAIN R
  PROVE  IsFiniteSet(S) /\ SizeOf(R, S) \in Nat /\ Available(R, S) \in Nat
<1>1. IsFiniteSet(S)
  BY FS_Subset DEF Sound
<1>2. \A r \in S : R[r].size \in Nat /\ R[r].avail \in Nat
  BY SoundFields
<1>. DEFINE f == [r \in S |-> R[r].size]
            g == [r \in S |-> R[r].avail]
<1>3. \A r \in S : f[r] \in Nat /\ g[r] \in Nat
  BY <1>2
<1>. HIDE DEF f, g
<1>4. SumOver(f, S) \in Nat /\ SumOver(g, S) \in Nat
  BY <1>1, <1>3, SumIsNat
<1>. QED BY <1>1, <1>4 DEF SizeOf, Available, f, g

\* The orders of the ReplicaSets are orders.
LEMMA OrdersEnumerate ==
  ASSUME NEW R, Sound(R), NEW S \in SUBSET DOMAIN R
  PROVE  /\ Enumerates(ByCreation(R, S), S) /\ Enumerates(BySmallerRevision(R, S), S)
         /\ Enumerates(BySizeOlder(R, S), S) /\ Enumerates(BySizeNewer(R, S), S)
         /\ Enumerates(ByNewest(R, S), S)
<1>1. IsFiniteSet(S)
  BY TotalsAreNat
<1>2. /\ \A r \in S : R[r].size \in Nat /\ R[r].rev \in Nat /\ R[r].born \in Nat
      /\ \A r, x \in S : R[r].born = R[x].born => r = x
  BY SoundFields DEF Sound
<1>. DEFINE B1 == {p \in S \X S : Older(R, p[1], p[2])}
            B2 == {p \in S \X S : \/ R[p[1]].rev > R[p[2]].rev
                                  \/ R[p[1]].rev = R[p[2]].rev /\ Older(R, p[1], p[2])}
            B3 == {p \in S \X S : \/ R[p[1]].size > R[p[2]].size
                                  \/ R[p[1]].size = R[p[2]].size /\ Older(R, p[1], p[2])}
            B4 == {p \in S \X S : \/ R[p[1]].size > R[p[2]].size
                                  \/ R[p[1]].size = R[p[2]].size /\ Older(R, p[2], p[1])}
            B5 == {p \in S \X S : Older(R, p[2], p[1])}
<1>3. \A x, y \in S : <<x, y>> \in B1 <=> R[x].born < R[y].born
  BY DEF Older
<1>4. \A x, y \in S : <<x, y>> \in B2 <=> \/ R[x].rev > R[y].rev
                                          \/ R[x].rev = R[y].rev /\ R[x].born < R[y].born
  BY DEF Older
<1>5. \A x, y \in S : <<x, y>> \in B3 <=> \/ R[x].size > R[y].size
                                          \/ R[x].size = R[y].size /\ R[x].born < R[y].born
  BY DEF Older
<1>6. \A x, y \in S : <<x, y>> \in B4 <=> \/ R[x].size > R[y].size
                                          \/ R[x].size = R[y].size /\ R[y].born < R[x].born
  BY DEF Older
<1>7. \A x, y \in S : <<x, y>> \in B5 <=> R[y].born < R[x].born
  BY DEF Older
<1>. HIDE DEF B1, B2, B3, B4, B5
<1>8. Orders(S, B1)
  BY <1>2, <1>3 DEF Orders
<1>9. Orders(S, B2)
  BY <1>2, <1>4 DEF Orders
<1>10. Orders(S, B3)
  BY <1>2, <1>5 DEF Orders
<1>11. Orders(S, B4)
  BY <1>2, <1>6 DEF Orders
<1>12. Orders(S, B5)
  BY <1>2, <1>7 DEF Orders
<1>13. /\ Enumerates(Sorted(S, B1), S) /\ Enumerates(Sorted(S, B2), S)
       /\ Enumerates(Sorted(S, B3), S) /\ Enumerates(Sorted(S, B4), S)
       /\ Enumerates(Sorted(S, B5), S)
  BY <1>1, <1>8, <1>9, <1>10, <1>11, <1>12, SortedEnumerates
<1>. QED BY <1>13 DEF ByCreation, ByNewest, BySmallerRevision, BySizeOlder, BySizeNewer,
                     B1, B2, B3, B4, B5

\* A sequence without repetition, of ReplicaSets of R.
Picks(s, R) ==
  /\ s \in Seq(DOMAIN R)
  /\ \A i, j \in 1..Len(s) : s[i] = s[j] => i = j

\* States on the way from R to T.
Between(R, T) ==
  {Q \in AllStates : /\ DOMAIN Q = DOMAIN R /\ Q \in [DOMAIN R -> ReplicaSets]
                     /\ \A r \in DOMAIN R : Q[r] \in {R[r], T[r]}}

\* Writing one ReplicaSet after the other, every state is on the way.
LEMMA AlongIsBetween ==
  ASSUME NEW R, Sound(R), NEW T, Resized(R, T), NEW order, order \in Seq(DOMAIN R)
  PROVE  Along(R, T, order) \in Seq(Between(R, T))
<1>1. R \in [DOMAIN R -> ReplicaSets] /\ T \in [DOMAIN R -> ReplicaSets] /\ DOMAIN R \subseteq Revisions
  BY DEF Sound, Resized
<1>2. ASSUME NEW k \in 1..Len(order)
      PROVE  [r \in DOMAIN R |-> IF \E j \in 1..k : order[j] = r THEN T[r] ELSE R[r]]
               \in Between(R, T)
  <2>. DEFINE Q == [r \in DOMAIN R |-> IF \E j \in 1..k : order[j] = r THEN T[r] ELSE R[r]]
  <2>1. Q \in [DOMAIN R -> ReplicaSets] /\ \A r \in DOMAIN R : Q[r] \in {R[r], T[r]}
    BY <1>1
  <2>2. DOMAIN Q = DOMAIN R
    OBVIOUS
  <2>. HIDE DEF Q
  <2>3. Q \in AllStates
    BY <1>1, <2>1 DEF AllStates
  <2>4. Q \in Between(R, T)
    BY <2>1, <2>2, <2>3 DEF Between
  <2>. QED BY <2>4 DEF Q
<1>3. DOMAIN order = 1..Len(order) /\ Len(order) \in Nat
  OBVIOUS
<1>. DEFINE F(k) == [r \in DOMAIN R |-> IF \E j \in 1..k : order[j] = r THEN T[r] ELSE R[r]]
<1>4. Along(R, T, order) = [k \in 1..Len(order) |-> F(k)]
  BY <1>3 DEF Along
<1>5. \A k \in 1..Len(order) : F(k) \in Between(R, T)
  BY <1>2
<1>. HIDE DEF F
<1>. QED BY <1>3, <1>4, <1>5

\* A state on the way differs from R in sizes and annotations only.
LEMMA BetweenResized ==
  ASSUME NEW R, NEW T, Resized(R, T), NEW Q \in Between(R, T)
  PROVE  Resized(R, Q)
BY DEF Between, Resized

-----------------------------------------------------------------------------
(* Taking pods away.                                                        *)

\* The capacity of the first i ReplicaSets.
Capacity(order, cap, i) == SumOver([j \in 1..i |-> cap[order[j]]], 1..i)

\* It grows by the capacity of one ReplicaSet after the other.
LEMMA CapacityUpTo ==
  ASSUME NEW R, Sound(R), NEW order, Picks(order, R), NEW cap \in [DOMAIN R -> Nat]
  PROVE  /\ Capacity(order, cap, 0) = 0
         /\ \A i \in 0..Len(order) : Capacity(order, cap, i) \in Nat
         /\ \A i \in 1..Len(order) :
              Capacity(order, cap, i) = cap[order[i]] + Capacity(order, cap, i - 1)
<1>. DEFINE F(i) == [j \in 1..i |-> cap[order[j]]]
<1>1. Len(order) \in Nat /\ \A i \in 1..Len(order) : cap[order[i]] \in Nat
  BY DEF Picks
<1>2. \A i \in 0..Len(order) : \A j \in 1..i : F(i)[j] = cap[order[j]] /\ F(i)[j] \in Nat
  BY <1>1
<1>. HIDE DEF F
<1>3. \A i \in 0..Len(order) : IsFiniteSet(1..i)
  BY FS_Interval
<1>4. \A i \in 0..Len(order) : SumOver(F(i), 1..i) \in Nat
  BY <1>2, <1>3, SumIsNat
<1>5. SumOver(F(0), 1..0) = 0
  <2>1. 1..0 = {}
    OBVIOUS
  <2>. QED BY <2>1, FS_EmptySet, SumUnfolds
<1>6. ASSUME NEW i \in 1..Len(order)
      PROVE  SumOver(F(i), 1..i) = cap[order[i]] + SumOver(F(i - 1), 1..(i - 1))
  <2>1. i \in 0..Len(order) /\ i - 1 \in 0..Len(order) /\ i \in 1..i /\ (1..i) \ {i} = 1..(i - 1)
    BY <1>1
  <2>2. \A j \in 1..i : F(i)[j] \in Nat
    BY <1>2, <2>1
  <2>3. SumOver(F(i), 1..i) = F(i)[i] + SumOver(F(i), (1..i) \ {i})
    BY <1>3, <2>1, <2>2, SumWithout
  <2>4. \A j \in 1..(i - 1) : F(i)[j] \in Nat /\ F(i - 1)[j] = F(i)[j]
    BY <1>2, <2>1
  <2>5. SumOver(F(i), 1..(i - 1)) = SumOver(F(i - 1), 1..(i - 1))
    BY <1>3, <2>1, <2>4, SumSame
  <2>6. F(i)[i] = cap[order[i]]
    BY <1>2, <2>1
  <2>. QED BY <2>1, <2>3, <2>5, <2>6
<1>7. \A i \in 0..Len(order) : Capacity(order, cap, i) = SumOver(F(i), 1..i)
  BY DEF Capacity, F
<1>8. 0 \in 0..Len(order) /\ \A i \in 1..Len(order) : i \in 0..Len(order) /\ i - 1 \in 0..Len(order)
  BY <1>1
<1>. QED BY <1>4, <1>5, <1>6, <1>7, <1>8

\* Pods are taken within the capacity of each ReplicaSet, and no more than n.
LEMMA TakenBounds ==
  ASSUME NEW R, Sound(R), NEW order, Picks(order, R), NEW cap \in [DOMAIN R -> Nat], NEW n \in Nat
  PROVE  LET t == Taken(order, cap, n) IN
           /\ DOMAIN t = Range(order) /\ Range(order) \subseteq DOMAIN R
           /\ \A r \in Range(order) : t[r] \in Nat /\ t[r] <= cap[r]
           /\ SumOver(t, Range(order)) \in Nat /\ SumOver(t, Range(order)) <= n
<1>. DEFINE t == Taken(order, cap, n)
            U(i) == TakenUpTo(order, cap, n, i)
            C(i) == Capacity(order, cap, i)
            First(k) == {order[j] : j \in 1..k}
<1>1. /\ Len(order) \in Nat /\ DOMAIN order = 1..Len(order)
      /\ \A i \in 1..Len(order) : order[i] \in DOMAIN R
      /\ \A i, j \in 1..Len(order) : order[i] = order[j] => i = j
  BY DEF Picks
<1>2. /\ C(0) = 0 /\ \A i \in 0..Len(order) : C(i) \in Nat
      /\ \A i \in 1..Len(order) : C(i) = cap[order[i]] + C(i - 1)
  BY CapacityUpTo
<1>3. \A i \in 0..Len(order) : U(i) = Below(n, C(i))
  BY DEF TakenUpTo, Capacity
<1>. HIDE DEF C
<1>4. U(0) = 0 /\ \A i \in 0..Len(order) : U(i) \in Nat /\ U(i) <= n
  BY <1>1, <1>2, <1>3 DEF Below
<1>5. \A i \in 1..Len(order) : U(i) - U(i - 1) \in Nat /\ U(i) - U(i - 1) <= cap[order[i]]
  <2>1. SUFFICES ASSUME NEW i \in 1..Len(order)
                 PROVE  U(i) - U(i - 1) \in Nat /\ U(i) - U(i - 1) <= cap[order[i]]
    OBVIOUS
  <2>2. /\ i \in 0..Len(order) /\ i - 1 \in 0..Len(order) /\ cap[order[i]] \in Nat
        /\ C(i) = cap[order[i]] + C(i - 1) /\ C(i - 1) \in Nat /\ C(i) \in Nat
    BY <1>1, <1>2
  <2>3. U(i) = Below(n, C(i)) /\ U(i - 1) = Below(n, C(i - 1))
    BY <1>3, <2>2
  <2>. HIDE DEF U
  <2>. QED BY <2>2, <2>3 DEF Below
<1>6. Range(order) = First(Len(order))
  BY <1>1 DEF Range
<1>7. DOMAIN t = Range(order) /\ Range(order) \subseteq DOMAIN R
  BY <1>1, <1>6 DEF Taken
<1>8. \A i \in 1..Len(order) : t[order[i]] = U(i) - U(i - 1)
  <2>1. SUFFICES ASSUME NEW i \in 1..Len(order) PROVE t[order[i]] = U(i) - U(i - 1)
    OBVIOUS
  <2>2. order[i] \in Range(order)
    BY <1>1 DEF Range
  <2>3. (CHOOSE k \in DOMAIN order : order[k] = order[i]) = i
    BY <1>1
  <2>. QED BY <2>2, <2>3 DEF Taken
<1>9. \A r \in Range(order) : t[r] \in Nat /\ t[r] <= cap[r]
  BY <1>5, <1>6, <1>8
<1>. HIDE DEF t, U
<1>10. \A k \in 0..Len(order) : IsFiniteSet(First(k)) /\ First(k) \subseteq Range(order)
  <2>1. SUFFICES ASSUME NEW k \in 0..Len(order)
                 PROVE  IsFiniteSet(First(k)) /\ First(k) \subseteq Range(order)
    OBVIOUS
  <2>2. First(k) \subseteq Range(order)
    BY <1>1 DEF Range
  <2>3. First(k) \subseteq DOMAIN R
    BY <1>7, <2>2
  <2>. QED BY <2>2, <2>3, FS_Subset DEF Sound
<1>11. \A k \in 0..Len(order) : SumOver(t, First(k)) = U(k)
  <2>. DEFINE T == {k \in 0..Len(order) : SumOver(t, First(k)) # U(k)}
  <2>1. SUFFICES ASSUME T # {} PROVE FALSE
    OBVIOUS
  <2>2. PICK k \in T : \A m \in T : ~(m < k)
    <3>1. T \subseteq Nat
      BY <1>1
    <3>. QED BY <2>1, <3>1, LeastNatural
  <2>3. k # 0
    <3>1. First(0) = {}
      OBVIOUS
    <3>2. SumOver(t, {}) = 0
      BY FS_EmptySet, SumUnfolds
    <3>. QED BY <1>4, <2>2, <3>1, <3>2
  <2>4. k \in 1..Len(order) /\ k - 1 \in 0..Len(order) /\ k - 1 \notin T
    BY <1>1, <2>2, <2>3
  <2>5. SumOver(t, First(k - 1)) = U(k - 1)
    BY <2>4
  <2>6. order[k] \in First(k) /\ First(k) \ {order[k]} = First(k - 1)
    BY <1>1, <2>4
  <2>7. \A r \in First(k) : t[r] \in Nat
    BY <1>9, <1>10, <2>4
  <2>8. SumOver(t, First(k)) = t[order[k]] + SumOver(t, First(k - 1))
    <3>. HIDE DEF First
    <3>1. IsFiniteSet(First(k))
      BY <1>10, <2>4
    <3>2. SumOver(t, First(k)) = t[order[k]] + SumOver(t, First(k) \ {order[k]})
      BY <2>6, <2>7, <3>1, SumWithout
    <3>. QED BY <2>6, <3>2
  <2>9. SumOver(t, First(k)) = U(k)
    BY <1>4, <1>8, <2>4, <2>5, <2>8
  <2>. QED BY <2>2, <2>9
<1>12. SumOver(t, Range(order)) = U(Len(order))
  BY <1>1, <1>6, <1>11
<1>13. SumOver(t, Range(order)) \in Nat /\ SumOver(t, Range(order)) <= n
  BY <1>1, <1>4, <1>12
<1>. QED BY <1>7, <1>9, <1>13 DEF t

\* The ReplicaSets without the pods that were taken.
LEMMA WithoutResizes ==
  ASSUME dep \in Deployments, NEW R, Sound(R), NEW order, Picks(order, R),
         NEW cap \in [DOMAIN R -> Nat], \A r \in DOMAIN R : cap[r] <= R[r].size, NEW n \in Nat
  PROVE  LET t == Taken(order, cap, n)
             T == Without(R, t) IN
           /\ Resized(R, T)
           /\ \A r \in DOMAIN R : T[r].rev = R[r].rev
           /\ \A r \in Range(order) : T[r].size = R[r].size - t[r]
           /\ \A r \in DOMAIN R \ Range(order) : T[r] = R[r]
<1>. DEFINE t == Taken(order, cap, n)
            T == Without(R, t)
<1>1. /\ DOMAIN t = Range(order) /\ Range(order) \subseteq DOMAIN R
      /\ \A r \in Range(order) : t[r] \in Nat /\ t[r] <= cap[r]
  BY TakenBounds
<1>2. /\ DOMAIN T = DOMAIN R
      /\ \A r \in Range(order) : T[r] = ScaleAndRecord(R[r], R[r].size - t[r])
      /\ \A r \in DOMAIN R \ Range(order) : T[r] = R[r]
      /\ T = [r \in DOMAIN R |-> T[r]]
  BY <1>1 DEF Without
<1>. HIDE DEF t, T
<1>3. ASSUME NEW r \in DOMAIN R
      PROVE  /\ T[r] \in ReplicaSets /\ T[r].avail = R[r].avail /\ T[r].born = R[r].born
             /\ T[r].rev = R[r].rev
             /\ r \in Range(order) => T[r].size = R[r].size - t[r]
  <2>1. R[r] \in ReplicaSets /\ R[r].size \in Nat /\ cap[r] \in Nat /\ cap[r] <= R[r].size
    BY SoundFields
  <2>2. CASE r \in Range(order)
    <3>1. R[r].size - t[r] \in Nat
      BY <1>1, <2>1, <2>2
    <3>. DEFINE y == ScaleAndRecord(R[r], R[r].size - t[r])
    <3>2. /\ y \in ReplicaSets /\ y.size = R[r].size - t[r]
          /\ y.avail = R[r].avail /\ y.born = R[r].born /\ y.rev = R[r].rev
      BY <2>1, <3>1, ScaledReplicaSet
    <3>3. T[r] = y
      BY <1>2, <2>2
    <3>. HIDE DEF y
    <3>. QED BY <3>2, <3>3
  <2>3. CASE r \notin Range(order)
    BY <1>2, <2>1, <2>3
  <2>. QED BY <2>2, <2>3
<1>4. Resized(R, T)
  BY <1>2, <1>3 DEF Resized
<1>. QED BY <1>2, <1>3, <1>4, <1>1 DEF t, T

\* The orders pick ReplicaSets.
LEMMA EnumeratesPicks ==
  ASSUME NEW R, NEW S \in SUBSET DOMAIN R, NEW s, Enumerates(s, S)
  PROVE  Picks(s, R) /\ Range(s) = S /\ s \in Seq(S)
<1>1. s \in Seq(S) /\ DOMAIN s = 1..Len(s)
  BY DEF Enumerates
<1>2. Range(s) = S
  BY <1>1 DEF Enumerates, Range
<1>3. s \in Seq(DOMAIN R)
  BY <1>1
<1>. QED BY <1>1, <1>2, <1>3 DEF Enumerates, Picks

\* So does the beginning of an order.
LEMMA PrefixPicks ==
  ASSUME NEW R, NEW s, Picks(s, R), NEW m \in 0..Len(s)
  PROVE  LET p == SubSeq(s, 1, m) IN
           Picks(p, R) /\ Len(p) = m /\ Range(p) \subseteq Range(s)
<1>. DEFINE p == SubSeq(s, 1, m)
<1>1. s \in Seq(DOMAIN R) /\ Len(s) \in Nat /\ m \in Nat /\ m <= Len(s) /\ DOMAIN s = 1..Len(s)
  BY DEF Picks
<1>2. p \in Seq(DOMAIN R) /\ Len(p) = m /\ \A i \in 1..m : p[i] = s[i]
  BY <1>1
<1>. HIDE DEF p
<1>3. DOMAIN p = 1..m
  BY <1>2
<1>4. Range(p) \subseteq Range(s)
  BY <1>1, <1>2, <1>3 DEF Range
<1>5. \A i, j \in 1..Len(p) : p[i] = p[j] => i = j
  BY <1>1, <1>2 DEF Picks
<1>. QED BY <1>2, <1>4, <1>5 DEF Picks, p

\* cleanupUnhealthyReplicas takes no available pod, and leaves the ReplicaSets
\* alone whose status still counts pods they should not have.  If that is the
\* first of the old ones it ends with an error.
LEMMA CleanupBounds ==
  ASSUME dep \in Deployments, NEW R, Sound(R), NEW olds \in SUBSET DOMAIN R, NEW n \in Nat
  PROVE  LET c == CleanupUnhealthyReplicas(R, olds, n) IN
           /\ Resized(R, c.to) /\ c.order \in Seq(DOMAIN R) /\ c.n \in Nat
           /\ \A r \in DOMAIN R : c.to[r].rev = R[r].rev
           /\ \A r \in DOMAIN R : c.to[r].size <= R[r].size
           /\ \A r \in DOMAIN R : R[r].avail <= R[r].size => R[r].avail <= c.to[r].size
           /\ \A r \in DOMAIN R : R[r].size < R[r].avail => c.to[r].size = R[r].size
           /\ \A r \in DOMAIN R \ olds : c.to[r] = R[r]
           /\ n > 0 => \A o \in olds : olds = {o} /\ 0 < R[o].size /\ R[o].size < R[o].avail => ~c.ok
<1>. DEFINE c == CleanupUnhealthyReplicas(R, olds, n)
            all == ByCreation(R, olds)
            cap == [r \in DOMAIN R |-> Above(0, R[r].size - R[r].avail)]
            stale == {i \in DOMAIN all : 0 < R[all[i]].size /\ R[all[i]].size < R[all[i]].avail}
            m == Min(stale \cup {Len(all) + 1}) - 1
            order == SubSeq(all, 1, m)
            most == SumOver(cap, Range(order))
            t == Taken(order, cap, n)
<1>1. Enumerates(all, olds)
  BY OrdersEnumerate
<1>2. Picks(all, R) /\ Range(all) = olds
  BY <1>1, EnumeratesPicks
<1>3. Len(all) \in Nat /\ DOMAIN all = 1..Len(all) /\ Len(all) = Cardinality(olds)
  BY <1>1 DEF Enumerates
<1>4. /\ c.to = Without(R, t) /\ c.order = order /\ c.n = Below(n, most)
      /\ c.ok <=> (stale = {} \/ most >= n)
  BY DEF CleanupUnhealthyReplicas
<1>5. \A r \in DOMAIN R : R[r].size \in Nat /\ R[r].avail \in Nat
  BY SoundFields
<1>6. /\ cap \in [DOMAIN R -> Nat]
      /\ \A r \in DOMAIN R : /\ cap[r] <= R[r].size
                             /\ R[r].avail <= R[r].size => cap[r] = R[r].size - R[r].avail
                             /\ R[r].size < R[r].avail => cap[r] = 0
  BY <1>5 DEF Above
<1>7. stale \subseteq 1..Len(all)
  BY <1>3
<1>. HIDE DEF c, all, cap, stale
<1>8. m \in 0..Len(all) /\ m + 1 \in stale \cup {Len(all) + 1}
      /\ \A i \in stale : m + 1 <= i
  <2>. DEFINE M == stale \cup {Len(all) + 1}
  <2>1. M \subseteq Nat /\ M # {}
    <3>1. \A y \in M : y \in Nat
      BY <1>3, <1>7
    <3>2. Len(all) + 1 \in M
      OBVIOUS
    <3>. QED BY <3>1, <3>2
  <2>2. Min(M) \in M /\ \A y \in M : Min(M) <= y
    BY <2>1, LeastOfSet
  <2>3. \A y \in M : y \in 1..(Len(all) + 1)
    BY <1>3, <1>7
  <2>4. m + 1 = Min(M) /\ m \in 0..Len(all)
    BY <1>3, <2>2, <2>3
  <2>. QED BY <2>2, <2>4
<1>. HIDE DEF m
<1>9. Picks(order, R) /\ Len(order) = m /\ Range(order) \subseteq olds
  BY <1>2, <1>8, PrefixPicks
<1>10. order \in Seq(DOMAIN R)
  BY <1>9 DEF Picks
<1>. HIDE DEF order
<1>11. /\ DOMAIN t = Range(order) /\ Range(order) \subseteq DOMAIN R
       /\ \A r \in Range(order) : t[r] \in Nat /\ t[r] <= cap[r]
  BY <1>6, <1>9, TakenBounds
<1>12. /\ Resized(R, c.to)
       /\ \A r \in DOMAIN R : c.to[r].rev = R[r].rev
       /\ \A r \in Range(order) : c.to[r].size = R[r].size - t[r]
       /\ \A r \in DOMAIN R \ Range(order) : c.to[r] = R[r]
  BY <1>4, <1>6, <1>9, WithoutResizes
<1>. HIDE DEF t
<1>13. most \in Nat
  <2>1. IsFiniteSet(Range(order))
    BY <1>11, FS_Subset DEF Sound
  <2>2. \A r \in Range(order) : cap[r] \in Nat
    BY <1>6, <1>11
  <2>. QED BY <2>1, <2>2, SumIsNat
<1>. HIDE DEF most
<1>14. c.n \in Nat
  BY <1>4, <1>13 DEF Below
<1>15. ASSUME NEW r \in DOMAIN R
       PROVE  /\ c.to[r].size <= R[r].size
              /\ R[r].avail <= R[r].size => R[r].avail <= c.to[r].size
              /\ R[r].size < R[r].avail => c.to[r].size = R[r].size
  <2>1. /\ R[r].size \in Nat /\ R[r].avail \in Nat /\ cap[r] \in Nat /\ cap[r] <= R[r].size
        /\ R[r].avail <= R[r].size => cap[r] = R[r].size - R[r].avail
        /\ R[r].size < R[r].avail => cap[r] = 0
    BY <1>5, <1>6
  <2>2. CASE r \in Range(order)
    <3>1. t[r] \in Nat /\ t[r] <= cap[r] /\ c.to[r].size = R[r].size - t[r]
      BY <1>11, <1>12, <2>2
    <3>. QED BY <2>1, <3>1
  <2>3. CASE r \notin Range(order)
    BY <1>12, <2>1, <2>3
  <2>. QED BY <2>2, <2>3
<1>16. ASSUME n > 0, NEW o \in olds, olds = {o}, 0 < R[o].size, R[o].size < R[o].avail
       PROVE  ~c.ok
  <2>1. Len(all) = 1 /\ all[1] = o
    <3>1. Len(all) = 1
      BY <1>3, <1>16, FS_Singleton
    <3>2. 1 \in DOMAIN all
      BY <1>3, <3>1
    <3>3. all[1] \in olds
      BY <1>2, <3>2 DEF Range
    <3>. QED BY <1>16, <3>1, <3>3
  <2>2. 1 \in stale
    BY <1>3, <1>16, <2>1 DEF stale
  <2>3. m = 0
    BY <1>3, <1>8, <2>2
  <2>4. Range(order) = {}
    <3>1. DOMAIN order = 1..0
      BY <1>9, <1>10, <2>3
    <3>. QED BY <3>1 DEF Range
  <2>5. most = 0
    BY <2>4, FS_EmptySet, SumUnfolds DEF most
  <2>. QED BY <1>4, <1>16, <2>2, <2>5
<1>17. \A r \in DOMAIN R \ olds : c.to[r] = R[r]
  BY <1>9, <1>12
<1>. QED BY <1>4, <1>10, <1>12, <1>14, <1>15, <1>16, <1>17 DEF c

-----------------------------------------------------------------------------
(* Totals of sizes and of surviving pods.                                   *)

\* The total depends on the sizes, and grows with them.
LEMMA SizesCompared ==
  ASSUME NEW R, Sound(R), NEW T, Sound(T), NEW S \in SUBSET DOMAIN R, S \in SUBSET DOMAIN T
  PROVE  /\ (\A r \in S : R[r].size <= T[r].size) => SizeOf(R, S) <= SizeOf(T, S)
         /\ (\A r \in S : R[r].size = T[r].size) => SizeOf(R, S) = SizeOf(T, S)
<1>. DEFINE f == [r \in S |-> R[r].size]
            g == [r \in S |-> T[r].size]
<1>1. IsFiniteSet(S)
  BY TotalsAreNat
<1>2. \A r \in S : f[r] = R[r].size /\ g[r] = T[r].size /\ f[r] \in Nat /\ g[r] \in Nat
  BY SoundFields
<1>3. SizeOf(R, S) = SumOver(f, S) /\ SizeOf(T, S) = SumOver(g, S)
  BY DEF SizeOf
<1>. HIDE DEF f, g
<1>4. ASSUME \A r \in S : R[r].size <= T[r].size
      PROVE  SizeOf(R, S) <= SizeOf(T, S)
  BY <1>1, <1>2, <1>3, <1>4, SumMonotone
<1>5. ASSUME \A r \in S : R[r].size = T[r].size
      PROVE  SizeOf(R, S) = SizeOf(T, S)
  BY <1>1, <1>2, <1>3, <1>5, SumSame
<1>. QED BY <1>4, <1>5

\* One ReplicaSet and the others.
LEMMA SizeOfOne ==
  ASSUME NEW R, Sound(R), NEW S \in SUBSET DOMAIN R, NEW r \in S
  PROVE  SizeOf(R, S) = R[r].size + SizeOf(R, S \ {r})
<1>. DEFINE f == [x \in S |-> R[x].size]
            g == [x \in S \ {r} |-> R[x].size]
<1>1. IsFiniteSet(S) /\ IsFiniteSet(S \ {r})
  BY TotalsAreNat
<1>2. /\ \A x \in S : f[x] = R[x].size /\ f[x] \in Nat
      /\ \A x \in S \ {r} : f[x] \in Nat /\ g[x] = f[x]
  BY SoundFields
<1>3. SizeOf(R, S) = SumOver(f, S) /\ SizeOf(R, S \ {r}) = SumOver(g, S \ {r})
  BY DEF SizeOf
<1>. HIDE DEF f, g
<1>4. SumOver(f, S) = f[r] + SumOver(f, S \ {r})
  BY <1>1, <1>2, SumWithout
<1>5. SumOver(f, S \ {r}) = SumOver(g, S \ {r})
  BY <1>1, <1>2, SumSame
<1>. QED BY <1>2, <1>3, <1>4, <1>5

\* ReplicaSets without pods do not count.
LEMMA SizeOfActive ==
  ASSUME NEW R, Sound(R), NEW S \in SUBSET DOMAIN R, NEW Z \in SUBSET S,
         \A r \in S \ Z : R[r].size = 0
  PROVE  SizeOf(R, S) = SizeOf(R, Z)
<1>. DEFINE f == [x \in S |-> R[x].size]
            g == [x \in Z |-> R[x].size]
<1>1. IsFiniteSet(S) /\ IsFiniteSet(Z) /\ IsFiniteSet(S \ Z)
  BY TotalsAreNat, FS_Subset
<1>2. /\ \A x \in S : f[x] \in Nat
      /\ \A x \in Z : f[x] \in Nat /\ g[x] = f[x]
      /\ \A x \in S \ Z : f[x] = 0
  BY SoundFields
<1>3. SizeOf(R, S) = SumOver(f, S) /\ SizeOf(R, Z) = SumOver(g, Z)
  BY DEF SizeOf
<1>. HIDE DEF f, g
<1>4. SumOver(f, S) = SumOver(f, Z) + SumOver(f, S \ Z)
  BY <1>1, <1>2, SumSplit
<1>5. SumOver(f, Z) = SumOver(g, Z) /\ SumOver(f, Z) \in Nat
  BY <1>1, <1>2, SumSame, SumIsNat
<1>6. SumOver(f, S \ Z) = 0
  BY <1>1, <1>2, SumOfZeros
<1>. QED BY <1>3, <1>4, <1>5, <1>6

\* A total of zero: every ReplicaSet is empty.
LEMMA SizeZero ==
  ASSUME NEW R, Sound(R), NEW S \in SUBSET DOMAIN R, SizeOf(R, S) <= 0
  PROVE  \A r \in S : R[r].size = 0
<1>. SUFFICES ASSUME NEW r \in S PROVE R[r].size = 0
  OBVIOUS
<1>1. SizeOf(R, S) = R[r].size + SizeOf(R, S \ {r})
  BY SizeOfOne
<1>2. SizeOf(R, S) \in Nat /\ SizeOf(R, S \ {r}) \in Nat /\ R[r].size \in Nat
  BY TotalsAreNat, SoundFields
<1>. QED BY <1>1, <1>2

\* The pods available in R that survive when the sizes of T are carried out.
SurvivingIn(R, T) == SumOver([r \in DOMAIN R |-> Below(R[r].avail, T[r].size)], DOMAIN R)

\* Surviving pods, when at most t[r] pods of each r are lost on the way to T.
LEMMA SurvivingCompared ==
  ASSUME NEW R, Sound(R), NEW Q, Resized(R, Q), NEW T, Resized(R, T),
         NEW t, \A r \in DOMAIN R : t[r] \in Nat /\ Q[r].size <= T[r].size + t[r]
  PROVE  /\ SurvivingIn(R, Q) \in Nat /\ SurvivingIn(R, T) \in Nat
         /\ SurvivingIn(R, Q) <= SurvivingIn(R, T) + SumOver(t, DOMAIN R)
<1>. DEFINE f == [r \in DOMAIN R |-> Below(R[r].avail, Q[r].size)]
            g == [r \in DOMAIN R |-> Below(R[r].avail, T[r].size)]
<1>1. Sound(Q) /\ Sound(T) /\ DOMAIN Q = DOMAIN R /\ DOMAIN T = DOMAIN R /\ IsFiniteSet(DOMAIN R)
  BY ResizedSound DEF Resized, Sound
<1>2. \A r \in DOMAIN R : R[r].avail \in Nat /\ Q[r].size \in Nat /\ T[r].size \in Nat
  BY <1>1, SoundFields
<1>3. \A r \in DOMAIN R : f[r] \in Nat /\ g[r] \in Nat /\ t[r] \in Nat /\ f[r] <= g[r] + t[r]
  BY <1>2 DEF Below
<1>4. SurvivingIn(R, Q) = SumOver(f, DOMAIN R) /\ SurvivingIn(R, T) = SumOver(g, DOMAIN R)
  BY DEF SurvivingIn
<1>. HIDE DEF f, g
<1>5. SumOver(f, DOMAIN R) <= SumOver(g, DOMAIN R) + SumOver(t, DOMAIN R)
  BY <1>1, <1>3, SumDominates
<1>6. SumOver(f, DOMAIN R) \in Nat /\ SumOver(g, DOMAIN R) \in Nat
  BY <1>1, <1>3, SumIsNat
<1>. QED BY <1>4, <1>5, <1>6

\* No available pod is lost when every ReplicaSet keeps its available pods or
\* its size.
LEMMA SurvivingKept ==
  ASSUME NEW R, Sound(R), NEW Q, Resized(R, Q), NEW T, Resized(R, T),
         \A r \in DOMAIN R : R[r].avail <= T[r].size \/ Q[r].size <= T[r].size
  PROVE  /\ SurvivingIn(R, Q) \in Nat /\ SurvivingIn(R, T) \in Nat
         /\ SurvivingIn(R, Q) <= SurvivingIn(R, T)
<1>. DEFINE f == [r \in DOMAIN R |-> Below(R[r].avail, Q[r].size)]
            g == [r \in DOMAIN R |-> Below(R[r].avail, T[r].size)]
<1>1. Sound(Q) /\ Sound(T) /\ DOMAIN Q = DOMAIN R /\ DOMAIN T = DOMAIN R /\ IsFiniteSet(DOMAIN R)
  BY ResizedSound DEF Resized, Sound
<1>2. \A r \in DOMAIN R : R[r].avail \in Nat /\ Q[r].size \in Nat /\ T[r].size \in Nat
  BY <1>1, SoundFields
<1>3. \A r \in DOMAIN R : f[r] \in Nat /\ g[r] \in Nat /\ f[r] <= g[r]
  BY <1>2 DEF Below
<1>4. SurvivingIn(R, Q) = SumOver(f, DOMAIN R) /\ SurvivingIn(R, T) = SumOver(g, DOMAIN R)
  BY DEF SurvivingIn
<1>. HIDE DEF f, g
<1>5. SumOver(f, DOMAIN R) <= SumOver(g, DOMAIN R)
  BY <1>1, <1>3, SumMonotone
<1>6. SumOver(f, DOMAIN R) \in Nat /\ SumOver(g, DOMAIN R) \in Nat
  BY <1>1, <1>3, SumIsNat
<1>. QED BY <1>4, <1>5, <1>6

\* The pods that are available in a set of ReplicaSets survive if these keep them.
LEMMA SurvivingAtLeast ==
  ASSUME NEW R, Sound(R), NEW T, Resized(R, T), NEW S \in SUBSET DOMAIN R,
         \A r \in S : R[r].avail <= T[r].size
  PROVE  Available(R, S) <= SurvivingIn(R, T)
<1>. DEFINE f == [r \in S |-> R[r].avail]
            g == [r \in DOMAIN R |-> Below(R[r].avail, T[r].size)]
<1>1. Sound(T) /\ DOMAIN T = DOMAIN R /\ IsFiniteSet(DOMAIN R) /\ IsFiniteSet(S)
      /\ IsFiniteSet(DOMAIN R \ S)
  BY ResizedSound, FS_Subset DEF Resized, Sound
<1>2. \A r \in DOMAIN R : R[r].avail \in Nat /\ T[r].size \in Nat
  BY <1>1, SoundFields
<1>3. /\ \A r \in DOMAIN R : g[r] \in Nat
      /\ \A r \in S : g[r] \in Nat /\ f[r] = g[r]
  BY <1>2 DEF Below
<1>4. SurvivingIn(R, T) = SumOver(g, DOMAIN R) /\ Available(R, S) = SumOver(f, S)
  BY DEF SurvivingIn, Available
<1>. HIDE DEF f, g
<1>5. SumOver(g, DOMAIN R) = SumOver(g, S) + SumOver(g, DOMAIN R \ S)
  BY <1>1, <1>3, SumSplit
<1>6. SumOver(g, S) = SumOver(f, S)
  BY <1>1, <1>3, SumSame
<1>7. SumOver(g, S) \in Nat /\ SumOver(g, DOMAIN R \ S) \in Nat
  BY <1>1, <1>3, SumIsNat
<1>. QED BY <1>4, <1>5, <1>6, <1>7

-----------------------------------------------------------------------------
(* What a round that rolls does, from a state R of the ReplicaSets with a   *)
(* new one.                                                                 *)

\* The statuses of the ReplicaSets are as current as AvailabilityKept asks.
Calm(R) ==
  /\ HasNew(R) => R[dep.template].avail <= R[dep.template].size
  /\ \/ \A r \in Active(R) \ {dep.template} : R[r].avail <= R[r].size
     \/ Cardinality(Active(R) \ {dep.template}) <= 1

WithinPartition(R, T) ==
  T[dep.template].size > R[dep.template].size
    => T[dep.template].size <= Limit \/ Active(R) \subseteq {dep.template}
WithinSurge(R, T) ==
  \/ SizeOf(T, DOMAIN T) <= dep.replicas + MaxSurge
  \/ \A r \in DOMAIN R : T[r].size <= R[r].size
KeepsAvailable(R, T) ==
  Calm(R) => SurvivingIn(R, T) >= Below(MinAvailable, SurvivingIn(R, R))

Rolled(R) ==
  {T \in AllStates : /\ Resized(R, T)
                     /\ WithinPartition(R, T) /\ WithinSurge(R, T) /\ KeepsAvailable(R, T)}

\* R itself differs in nothing.
LEMMA SameResized ==
  ASSUME NEW R, Sound(R)
  PROVE  Resized(R, R)
BY DEF Sound, Resized

\* One ReplicaSet is scaled.
LEMMA OneScaled ==
  ASSUME dep \in Deployments, NEW R, Sound(R), NEW r \in DOMAIN R, NEW n \in Nat
  PROVE  LET T == [R EXCEPT ![r] = ScaleAndRecord(@, n)] IN
           /\ Resized(R, T) /\ Sound(T)
           /\ T[r].size = n /\ \A x \in DOMAIN R \ {r} : T[x] = R[x]
           /\ SizeOf(T, DOMAIN T) = SizeOf(R, DOMAIN R) - R[r].size + n
<1>. DEFINE y == ScaleAndRecord(R[r], n)
            T == [R EXCEPT ![r] = ScaleAndRecord(@, n)]
<1>1. R \in [DOMAIN R -> ReplicaSets] /\ R[r] \in ReplicaSets /\ R[r].size \in Nat
  BY SoundFields DEF Sound
<1>2. y \in ReplicaSets /\ y.size = n /\ y.avail = R[r].avail /\ y.born = R[r].born
  BY <1>1, ScaledReplicaSet
<1>. HIDE DEF y
<1>3. /\ DOMAIN T = DOMAIN R /\ T \in [DOMAIN R -> ReplicaSets]
      /\ T[r] = y /\ \A x \in DOMAIN R \ {r} : T[x] = R[x]
  BY <1>1, <1>2 DEF y
<1>. HIDE DEF T
<1>4. Resized(R, T)
  BY <1>2, <1>3 DEF Resized
<1>5. Sound(T)
  BY <1>4, ResizedSound
<1>6. SizeOf(R, DOMAIN R) = R[r].size + SizeOf(R, DOMAIN R \ {r})
  BY SizeOfOne
<1>7. SizeOf(T, DOMAIN T) = T[r].size + SizeOf(T, DOMAIN R \ {r})
  BY <1>3, <1>5, SizeOfOne
<1>8. SizeOf(R, DOMAIN R \ {r}) = SizeOf(T, DOMAIN R \ {r})
  BY <1>3, <1>5, SizesCompared
<1>9. SizeOf(R, DOMAIN R \ {r}) \in Nat
  BY TotalsAreNat
<1>. QED BY <1>1, <1>2, <1>3, <1>4, <1>5, <1>6, <1>7, <1>8, <1>9 DEF T

\* The size that NewRSNewReplicas gives to the new ReplicaSet.
LEMMA NewSize ==
  ASSUME dep \in Deployments, NEW R, Sound(R), HasNew(R)
  PROVE  LET k == NewRSNewReplicas(R)
             n == R[dep.template].size
             total == SizeOf(R, DOMAIN R) IN
           /\ k \in Nat
           /\ \/ total <= n /\ k = dep.replicas
              \/ k = n
              \/ n < k /\ k <= Limit /\ total + k - n <= dep.replicas + MaxSurge
<1>. DEFINE k == NewRSNewReplicas(R)
            n == R[dep.template].size
            total == SizeOf(R, DOMAIN R)
            top == dep.replicas + MaxSurge
            want == n + Below(top - total, dep.replicas - n)
<1>1. n \in Nat /\ total \in Nat
  BY SoundFields, TotalsAreNat DEF HasNew
<1>2. dep.replicas \in Nat /\ MaxSurge \in Nat /\ Limit \in Nat /\ Limit <= dep.replicas
  BY DeploymentFields, BudgetBounds
<1>3. k = IF total <= n THEN dep.replicas
          ELSE IF n >= Limit \/ total >= top THEN n ELSE Below(want, Limit)
  BY DEF NewRSNewReplicas
<1>. HIDE DEF k, n, total
<1>4. CASE n < Limit /\ total < top
  <2>1. top - total \in Int /\ top - total > 0 /\ dep.replicas - n \in Int /\ dep.replicas - n > 0
    BY <1>1, <1>2, <1>4
  <2>2. want \in Int /\ want > n /\ want <= n + (top - total)
    BY <1>1, <2>1 DEF Below
  <2>. HIDE DEF want
  <2>3. Below(want, Limit) > n /\ Below(want, Limit) <= Limit /\ Below(want, Limit) <= want
        /\ Below(want, Limit) \in Nat
    BY <1>1, <1>2, <1>4, <2>2 DEF Below
  <2>4. total + Below(want, Limit) - n <= top
    BY <1>1, <1>2, <2>2, <2>3
  <2>. QED BY <1>1, <1>2, <1>3, <1>4, <2>3, <2>4 DEF k, n, total
<1>5. CASE ~(n < Limit /\ total < top)
  <2>1. n >= Limit \/ total >= top
    BY <1>1, <1>2, <1>5
  <2>. QED BY <1>1, <1>2, <1>3, <2>1 DEF k, n, total
<1>. QED BY <1>4, <1>5

\* The ReplicaSets other than one have no pods if the total is no more than its.
LEMMA OthersEmpty ==
  ASSUME NEW R, Sound(R), NEW r \in DOMAIN R, SizeOf(R, DOMAIN R) <= R[r].size
  PROVE  Active(R) \subseteq {r}
<1>1. SizeOf(R, DOMAIN R) = R[r].size + SizeOf(R, DOMAIN R \ {r})
  BY SizeOfOne
<1>2. SizeOf(R, DOMAIN R \ {r}) \in Nat /\ R[r].size \in Nat
  BY TotalsAreNat, SoundFields
<1>3. \A x \in DOMAIN R \ {r} : R[x].size = 0
  BY <1>1, <1>2, SizeZero
<1>. QED BY <1>3 DEF Active

\* reconcileNewReplicaSet keeps to the partition and the surge, and takes pods
\* only beyond the replicas of the Deployment.
LEMMA NewRolled ==
  ASSUME dep \in Deployments, NEW R, Sound(R), HasNew(R)
  PROVE  ReconcileNewReplicaSet(R) \in Rolled(R)
<1>. DEFINE r == dep.template
            n == R[r].size
            k == NewRSNewReplicas(R)
            size == IF n >= dep.replicas THEN dep.replicas ELSE k
            T == [R EXCEPT ![r] = ScaleAndRecord(@, size)]
<1>1. ReconcileNewReplicaSet(R) = T
  BY DEF ReconcileNewReplicaSet
<1>2. r \in DOMAIN R /\ n \in Nat /\ R[r].avail \in Nat /\ SizeOf(R, DOMAIN R) \in Nat
  BY SoundFields, TotalsAreNat DEF HasNew
<1>3. /\ dep.replicas \in Nat /\ MaxSurge \in Nat /\ MinAvailable \in Nat
      /\ MinAvailable <= dep.replicas
  BY DeploymentFields, BudgetBounds
<1>4. /\ k \in Nat
      /\ \/ SizeOf(R, DOMAIN R) <= n /\ k = dep.replicas
         \/ k = n
         \/ n < k /\ k <= Limit /\ SizeOf(R, DOMAIN R) + k - n <= dep.replicas + MaxSurge
  BY NewSize
<1>. HIDE DEF n, k
<1>5. size \in Nat
  BY <1>3, <1>4
<1>6. /\ Resized(R, T) /\ Sound(T) /\ T[r].size = size
      /\ \A x \in DOMAIN R \ {r} : T[x] = R[x]
      /\ SizeOf(T, DOMAIN T) = SizeOf(R, DOMAIN R) - n + size
  BY <1>2, <1>5, OneScaled DEF n
<1>. HIDE DEF T
<1>7. T \in AllStates
  BY <1>6 DEF Sound
<1>8. \/ n >= dep.replicas /\ size = dep.replicas
      \/ n < dep.replicas /\ SizeOf(R, DOMAIN R) <= n /\ size = dep.replicas
      \/ size = n
      \/ n < size /\ size <= Limit /\ SizeOf(R, DOMAIN R) + size - n <= dep.replicas + MaxSurge
  BY <1>2, <1>3, <1>4
<1>. HIDE DEF size
<1>9. WithinPartition(R, T)
  <2>1. CASE SizeOf(R, DOMAIN R) <= n
    <3>1. Active(R) \subseteq {r}
      BY <1>2, <2>1, OthersEmpty DEF n
    <3>. QED BY <3>1 DEF WithinPartition
  <2>2. CASE ~(SizeOf(R, DOMAIN R) <= n)
    <3>1. size <= n \/ size <= Limit
      BY <1>2, <1>3, <1>5, <1>8, <2>2
    <3>. QED BY <1>2, <1>5, <1>6, <3>1 DEF WithinPartition, n
  <2>. QED BY <2>1, <2>2
<1>10. WithinSurge(R, T)
  <2>1. CASE size <= n
    <3>1. \A x \in DOMAIN R : R[x].size \in Nat
      BY SoundFields
    <3>2. \A x \in DOMAIN R : T[x].size <= R[x].size
      BY <1>5, <1>6, <2>1, <3>1 DEF n
    <3>. QED BY <3>2 DEF WithinSurge
  <2>2. CASE ~(size <= n)
    <3>1. SizeOf(R, DOMAIN R) + size - n <= dep.replicas + MaxSurge
      BY <1>2, <1>3, <1>5, <1>8, <2>2
    <3>2. SizeOf(T, DOMAIN T) <= dep.replicas + MaxSurge
      BY <1>2, <1>5, <1>6, <3>1
    <3>. QED BY <3>2 DEF WithinSurge
  <2>. QED BY <2>1, <2>2
<1>11. KeepsAvailable(R, T)
  <2>1. Resized(R, R)
    BY SameResized
  <2>2. CASE R[r].avail <= size \/ n <= size
    <3>1. \A x \in DOMAIN R : R[x].size \in Nat
      BY SoundFields
    <3>2. \A x \in DOMAIN R : R[x].avail <= T[x].size \/ R[x].size <= T[x].size
      BY <1>6, <2>2, <3>1 DEF n
    <3>3. /\ SurvivingIn(R, R) \in Nat /\ SurvivingIn(R, T) \in Nat
          /\ SurvivingIn(R, R) <= SurvivingIn(R, T)
      BY <1>6, <2>1, <3>2, SurvivingKept
    <3>. QED BY <1>3, <3>3 DEF KeepsAvailable, Below
  <2>3. CASE ~(R[r].avail <= size \/ n <= size)
    <3>1. size = dep.replicas /\ size < R[r].avail
      BY <1>2, <1>3, <1>5, <1>8, <2>3
    <3>. DEFINE g == [x \in DOMAIN R |-> Below(R[x].avail, T[x].size)]
    <3>2. \A x \in DOMAIN R : R[x].avail \in Nat /\ T[x].size \in Nat
      BY <1>6, SoundFields DEF Resized
    <3>3. (\A x \in DOMAIN R : g[x] \in Nat) /\ g[r] = size
      BY <1>2, <1>5, <1>6, <3>1, <3>2 DEF Below
    <3>4. IsFiniteSet(DOMAIN R) /\ IsFiniteSet(DOMAIN R \ {r})
      BY FS_Subset DEF Sound
    <3>5. SurvivingIn(R, T) = SumOver(g, DOMAIN R)
      BY DEF SurvivingIn
    <3>. HIDE DEF g
    <3>6. SumOver(g, DOMAIN R) = g[r] + SumOver(g, DOMAIN R \ {r})
      BY <1>2, <3>3, <3>4, SumWithout
    <3>7. SumOver(g, DOMAIN R \ {r}) \in Nat
      BY <3>3, <3>4, SumIsNat
    <3>8. SurvivingIn(R, T) >= MinAvailable /\ SurvivingIn(R, T) \in Nat
      BY <1>3, <1>5, <3>1, <3>3, <3>5, <3>6, <3>7
    <3>9. SurvivingIn(R, R) \in Nat
      <4>1. \A x \in DOMAIN R : R[x].size <= R[x].size
        BY SoundFields
      <4>. QED BY <2>1, <4>1, SurvivingKept
    <3>. QED BY <1>3, <3>8, <3>9 DEF KeepsAvailable, Below
  <2>. QED BY <2>2, <2>3
<1>. QED BY <1>1, <1>6, <1>7, <1>9, <1>10, <1>11 DEF Rolled

\* Sequences of states of which every one is in a set: of one state.
LEMMA OneState ==
  ASSUME NEW S, NEW x \in S
  PROVE  <<x>> \in Seq(S)
OBVIOUS

\* Of none.
LEMMA NoState ==
  ASSUME NEW S
  PROVE  <<>> \in Seq(S)
OBVIOUS

\* Of states that are in a larger set, too.
LEMMA MoreStates ==
  ASSUME NEW S, NEW Z, S \subseteq Z, NEW s \in Seq(S)
  PROVE  s \in Seq(Z)
<1>1. Len(s) \in Nat /\ s = [i \in 1..Len(s) |-> s[i]] /\ \A i \in 1..Len(s) : s[i] \in S
  OBVIOUS
<1>2. \A i \in 1..Len(s) : s[i] \in Z
  BY <1>1
<1>. QED BY <1>1, <1>2

\* Old ReplicaSets that do not lose pods that are available are Rolled.
LEMMA ShrinkRolled ==
  ASSUME dep \in Deployments, NEW R, Sound(R), HasNew(R), NEW T, Resized(R, T),
         \A r \in DOMAIN R : T[r].size <= R[r].size,
         Calm(R) => SurvivingIn(R, T) >= Below(MinAvailable, SurvivingIn(R, R))
  PROVE  T \in Rolled(R)
<1>1. Sound(T)
  BY ResizedSound
<1>2. T \in AllStates
  BY <1>1 DEF Sound
<1>3. dep.template \in DOMAIN R /\ R[dep.template].size \in Nat /\ T[dep.template].size \in Nat
  BY <1>1, SoundFields DEF HasNew, Resized
<1>4. T[dep.template].size <= R[dep.template].size
  BY <1>3
<1>5. WithinPartition(R, T)
  BY <1>3, <1>4 DEF WithinPartition
<1>. QED BY <1>2, <1>5 DEF Rolled, WithinSurge, KeepsAvailable

\* scaleUpOldReplicaSets: the total becomes the replicas of the Deployment, but
\* for new pods that the partition leaves out.
LEMMA ScaleUpRolled ==
  ASSUME dep \in Deployments, NEW R, Sound(R), HasNew(R),
         NEW olds, olds = Active(R) \ {dep.template}, olds # {},
         NEW limit, limit = ScaleDownLimitForOld(R, olds), limit <= 0
  PROVE  ScaleUpOldReplicaSets(R, olds, -limit) \in Seq(Rolled(R))
<1>. DEFINE s == BySizeOlder(R, olds)
            o == s[1]
            n == R[dep.template].size
            T == [R EXCEPT ![o] = ScaleAndRecord(@, @.size + (-limit))]
<1>1. olds \in SUBSET DOMAIN R /\ dep.template \notin olds /\ dep.template \in DOMAIN R
  BY DEF Active, HasNew
<1>2. o \in olds
  <2>1. Enumerates(s, olds)
    BY <1>1, OrdersEnumerate
  <2>2. s \in Seq(olds) /\ \A x \in olds : \E i \in 1..Len(s) : s[i] = x
    BY <2>1 DEF Enumerates
  <2>. HIDE DEF s
  <2>3. PICK x \in olds : TRUE
    OBVIOUS
  <2>4. \E i \in 1..Len(s) : TRUE
    BY <2>2, <2>3
  <2>5. 1 \in 1..Len(s)
    BY <2>2, <2>4
  <2>. QED BY <2>2, <2>5
<1>. HIDE DEF o, s
<1>3. /\ n \in Nat /\ SizeOf(R, olds) \in Nat /\ SizeOf(R, DOMAIN R) \in Nat /\ R[o].size \in Nat
      /\ dep.replicas \in Nat /\ MaxSurge \in Nat /\ Limit \in Nat /\ Limit <= dep.replicas
      /\ MinAvailable \in Nat
  BY <1>1, <1>2, SoundFields, TotalsAreNat, DeploymentFields, BudgetBounds
<1>4. limit = SizeOf(R, olds) - (dep.replicas - Above(Limit, n))
  BY DEF ScaleDownLimitForOld
<1>5. Above(Limit, n) \in Nat /\ Above(Limit, n) >= n
  BY <1>3 DEF Above
<1>. HIDE DEF n
<1>6. limit \in Int /\ R[o].size + (-limit) \in Nat
  BY <1>3, <1>4, <1>5
<1>7. T = [R EXCEPT ![o] = ScaleAndRecord(@, R[o].size + (-limit))]
  BY <1>1, <1>2
<1>8. /\ Resized(R, T) /\ Sound(T)
      /\ T[o].size = R[o].size + (-limit) /\ \A x \in DOMAIN R \ {o} : T[x] = R[x]
      /\ SizeOf(T, DOMAIN T) = SizeOf(R, DOMAIN R) - R[o].size + (R[o].size + (-limit))
  BY <1>1, <1>2, <1>6, <1>7, OneScaled
<1>9. ScaleUpOldReplicaSets(R, olds, -limit) = <<T>>
  BY DEF ScaleUpOldReplicaSets, o, s
<1>. HIDE DEF T
<1>10. SizeOf(R, DOMAIN R) = n + SizeOf(R, olds)
  <2>1. SizeOf(R, DOMAIN R) = n + SizeOf(R, DOMAIN R \ {dep.template})
    BY <1>1, SizeOfOne DEF n
  <2>2. \A x \in (DOMAIN R \ {dep.template}) \ olds : R[x].size = 0
    BY SoundFields DEF Active
  <2>3. SizeOf(R, DOMAIN R \ {dep.template}) = SizeOf(R, olds)
    BY <1>1, <2>2, SizeOfActive
  <2>. QED BY <2>1, <2>3
<1>11. SizeOf(T, DOMAIN T) <= dep.replicas
  BY <1>3, <1>4, <1>5, <1>6, <1>8, <1>10
<1>12. WithinSurge(R, T)
  <2>1. SizeOf(T, DOMAIN T) \in Nat
    BY <1>8, TotalsAreNat
  <2>2. SizeOf(T, DOMAIN T) <= dep.replicas + MaxSurge
    BY <1>3, <1>11, <2>1
  <2>. QED BY <2>2 DEF WithinSurge
<1>13. WithinPartition(R, T)
  <2>1. T[dep.template] = R[dep.template]
    BY <1>1, <1>2, <1>8
  <2>2. ~(T[dep.template].size > R[dep.template].size)
    BY <1>3, <2>1 DEF n
  <2>. QED BY <2>2 DEF WithinPartition
<1>14. KeepsAvailable(R, T)
  <2>1. \A x \in DOMAIN R : R[x].size \in Nat
    BY SoundFields
  <2>2. \A x \in DOMAIN R : R[x].size <= T[x].size
    <3>1. SUFFICES ASSUME NEW x \in DOMAIN R PROVE R[x].size <= T[x].size
      OBVIOUS
    <3>2. CASE x = o
      BY <1>3, <1>6, <1>8, <3>2
    <3>3. CASE x # o
      BY <1>8, <2>1, <3>3
    <3>. QED BY <3>2, <3>3
  <2>3. /\ SurvivingIn(R, R) \in Nat /\ SurvivingIn(R, T) \in Nat
        /\ SurvivingIn(R, R) <= SurvivingIn(R, T)
    BY <1>8, <2>2, SameResized, SurvivingKept
  <2>. QED BY <1>3, <2>3 DEF KeepsAvailable, Below
<1>15. T \in Rolled(R)
  <2>1. T \in AllStates
    BY <1>8 DEF Sound
  <2>. QED BY <1>8, <1>12, <1>13, <1>14, <2>1 DEF Rolled
<1>. HIDE DEF Rolled
<1>. QED BY <1>9, <1>15, OneState

\* The sequence of the ReplicaSets to scale down: all of the old ones, or, where
\* the list of all is built in their place, the oldest of all.
LEMMA ScaleDownPicks ==
  ASSUME dep \in Deployments, NEW R, Sound(R), HasNew(R), NEW olds \in SUBSET DOMAIN R,
         dep.template \notin olds
  PROVE  Picks(ScaleDownOrder(R, olds), R)
<1>. DEFINE both == olds \cup {dep.template}
<1>1. both \in SUBSET DOMAIN R /\ IsFiniteSet(olds)
  BY TotalsAreNat DEF HasNew
<1>2. Cardinality(both) = Cardinality(olds) + 1 /\ Cardinality(olds) \in Nat
  BY <1>1, FS_AddElement, FS_CardinalityType
<1>. HIDE DEF both
<1>3. Enumerates(ByCreation(R, both), both) /\ Enumerates(BySmallerRevision(R, olds), olds)
  BY <1>1, OrdersEnumerate
<1>4. Picks(ByCreation(R, both), R) /\ Picks(BySmallerRevision(R, olds), R)
  BY <1>1, <1>3, EnumeratesPicks
<1>5. Len(ByCreation(R, both)) = Cardinality(both)
  BY <1>3 DEF Enumerates
<1>6. Cardinality(olds) \in 0..Len(ByCreation(R, both))
  BY <1>2, <1>5
<1>7. Picks(SubSeq(ByCreation(R, both), 1, Cardinality(olds)), R)
  BY <1>4, <1>6, PrefixPicks
<1>. QED BY <1>4, <1>7 DEF ScaleDownOrder, both

\* scaleDownOldReplicaSetsForRollingUpdate, from C, what cleanup made of R: no
\* more pods are taken than are spare.
LEMMA ScaleDownRolled ==
  ASSUME dep \in Deployments, NEW R, Sound(R), HasNew(R),
         NEW olds, olds = Active(R) \ {dep.template},
         NEW C, Resized(R, C), \A r \in DOMAIN R : C[r].size <= R[r].size,
         \A r \in DOMAIN R : R[r].avail <= R[r].size => R[r].avail <= C[r].size,
         Calm(R) => \A r \in olds : R[r].avail <= R[r].size
  PROVE  ScaleDownOldReplicaSets(C, olds) \in Seq(Rolled(R))
<1>. DEFINE O == olds \cup {dep.template}
            order == ScaleDownOrder(C, olds)
            spare == Available(C, O) - MinAvailable
            n == Below(spare, ScaleDownLimitForOld(C, Range(order)))
            cap == [r \in DOMAIN C |-> C[r].size]
            t == Taken(order, cap, n)
            W == Without(C, t)
<1>1. Sound(C) /\ DOMAIN C = DOMAIN R /\ dep.template \in DOMAIN R
  BY ResizedSound DEF Resized, HasNew
<1>2. olds \in SUBSET DOMAIN C /\ O \in SUBSET DOMAIN C /\ dep.template \notin olds /\ HasNew(C)
  BY <1>1 DEF Active, HasNew
<1>3. Picks(order, C)
  BY <1>1, <1>2, ScaleDownPicks
<1>4. order \in Seq(DOMAIN C) /\ Range(order) \in SUBSET DOMAIN C
  <2>. HIDE DEF order
  <2>1. order \in Seq(DOMAIN C)
    BY <1>3 DEF Picks
  <2>2. DOMAIN order = 1..Len(order) /\ \A i \in 1..Len(order) : order[i] \in DOMAIN C
    BY <2>1
  <2>. QED BY <2>1, <2>2 DEF Range
<1>5. MinAvailable \in Nat /\ Available(C, O) \in Nat /\ spare \in Int
  BY <1>1, <1>2, BudgetBounds, TotalsAreNat
<1>6. ScaleDownLimitForOld(C, Range(order)) \in Int
  <2>1. /\ SizeOf(C, Range(order)) \in Nat /\ dep.replicas \in Nat /\ Limit \in Nat
        /\ C[dep.template].size \in Nat
    BY <1>1, <1>4, TotalsAreNat, SoundFields, DeploymentFields, BudgetBounds
  <2>. QED BY <2>1 DEF ScaleDownLimitForOld, Above
<1>7. n \in Int /\ n <= spare
  <2>. HIDE DEF spare, order
  <2>. QED BY <1>5, <1>6, SmallerLarger
<1>8. ScaleDownOldReplicaSets(C, olds)
        = IF spare <= 0 \/ n <= 0 THEN <<>> ELSE Along(C, W, order)
  BY DEF ScaleDownOldReplicaSets
<1>9. \A r \in DOMAIN R : R[r].size \in Nat /\ R[r].avail \in Nat /\ C[r].size \in Nat
  BY <1>1, SoundFields
<1>10. cap \in [DOMAIN C -> Nat] /\ \A r \in DOMAIN C : cap[r] = C[r].size /\ cap[r] <= C[r].size
  BY <1>1, <1>9
<1>. HIDE DEF O, order, spare, n, cap
<1>11. CASE n <= 0 \/ spare <= 0
  <2>1. ScaleDownOldReplicaSets(C, olds) = <<>>
    BY <1>8, <1>11
  <2>. QED BY <2>1, NoState
<1>12. CASE ~(n <= 0 \/ spare <= 0)
  <2>1. n \in Nat
    BY <1>7, <1>12
  <2>2. /\ DOMAIN t = Range(order)
        /\ \A r \in Range(order) : t[r] \in Nat /\ t[r] <= cap[r]
        /\ SumOver(t, Range(order)) \in Nat /\ SumOver(t, Range(order)) <= n
    BY <1>1, <1>3, <1>10, <2>1, TakenBounds
  <2>3. /\ Resized(C, W)
        /\ \A r \in Range(order) : W[r].size = C[r].size - t[r]
        /\ \A r \in DOMAIN C \ Range(order) : W[r] = C[r]
    BY <1>1, <1>3, <1>10, <2>1, WithoutResizes
  <2>. HIDE DEF t, W
  <2>. DEFINE u == [r \in DOMAIN R |-> IF r \in Range(order) THEN t[r] ELSE 0]
  <2>4. SumOver(u, DOMAIN R) \in Nat /\ SumOver(u, DOMAIN R) <= n
    <3>1. /\ IsFiniteSet(DOMAIN R) /\ IsFiniteSet(Range(order))
          /\ IsFiniteSet(DOMAIN R \ Range(order)) /\ Range(order) \in SUBSET DOMAIN R
      BY <1>1, <1>4, FS_Subset DEF Sound
    <3>2. /\ \A r \in DOMAIN R : u[r] \in Nat
          /\ \A r \in Range(order) : t[r] \in Nat /\ u[r] = t[r]
          /\ \A r \in DOMAIN R \ Range(order) : u[r] = 0
      BY <2>2, <3>1
    <3>. HIDE DEF u
    <3>3. SumOver(u, DOMAIN R) = SumOver(u, Range(order)) + SumOver(u, DOMAIN R \ Range(order))
      BY <3>1, <3>2, SumSplit
    <3>4. SumOver(t, Range(order)) = SumOver(u, Range(order))
      BY <3>1, <3>2, SumSame
    <3>5. SumOver(u, DOMAIN R \ Range(order)) = 0
      BY <3>1, <3>2, SumOfZeros
    <3>. QED BY <2>2, <3>3, <3>4, <3>5
  <2>5. ASSUME NEW T \in Between(C, W)
        PROVE  T \in Rolled(R)
    <3>1. Resized(C, T)
      BY <2>3, BetweenResized
    <3>2. Resized(R, T)
      BY <1>1, <3>1 DEF Resized
    <3>3. ASSUME NEW r \in DOMAIN R
          PROVE  T[r].size <= C[r].size /\ C[r].size <= T[r].size + u[r] /\ u[r] \in Nat
      <4>1. T[r] \in {C[r], W[r]} /\ C[r].size \in Nat
        BY <1>1, <1>9 DEF Between
      <4>2. CASE r \in Range(order)
        <5>1. u[r] = t[r] /\ t[r] \in Nat /\ W[r].size = C[r].size - t[r]
          BY <2>2, <2>3, <4>2
        <5>. HIDE DEF u
        <5>. QED BY <4>1, <5>1
      <4>3. CASE r \notin Range(order)
        <5>1. u[r] = 0 /\ W[r] = C[r]
          BY <1>1, <2>3, <4>3
        <5>. HIDE DEF u
        <5>. QED BY <4>1, <5>1
      <4>. QED BY <4>2, <4>3
    <3>4. \A r \in DOMAIN R : T[r].size <= R[r].size
      <4>1. \A r \in DOMAIN R : T[r].size \in Nat
        BY <1>1, <3>1, ResizedSound, SoundFields DEF Resized
      <4>. QED BY <1>9, <3>3, <4>1
    <3>. HIDE DEF u
    <3>5. /\ SurvivingIn(R, C) \in Nat /\ SurvivingIn(R, T) \in Nat
          /\ SurvivingIn(R, C) <= SurvivingIn(R, T) + SumOver(u, DOMAIN R)
      BY <3>2, <3>3, SurvivingCompared
    <3>6. ASSUME Calm(R)
          PROVE  SurvivingIn(R, T) >= Below(MinAvailable, SurvivingIn(R, R))
      <4>1. \A r \in O : R[r].avail <= R[r].size
        BY <1>1, <3>6 DEF O, Calm, HasNew
      <4>2. \A r \in O : R[r].avail <= C[r].size
        BY <1>1, <1>2, <4>1
      <4>3. Available(R, O) <= SurvivingIn(R, C)
        BY <1>1, <1>2, <4>2, SurvivingAtLeast
      <4>4. Available(R, O) = Available(C, O)
        <5>1. [r \in O |-> R[r].avail] = [r \in O |-> C[r].avail]
          BY <1>1, <1>2 DEF Resized
        <5>. QED BY <5>1 DEF Available
      <4>5. SurvivingIn(R, T) >= MinAvailable
        BY <1>5, <1>7, <2>4, <3>5, <4>3, <4>4 DEF spare
      <4>6. SurvivingIn(R, R) \in Nat
        <5>1. \A r \in DOMAIN R : R[r].size <= R[r].size
          BY <1>9
        <5>. QED BY <5>1, SameResized, SurvivingKept
      <4>. QED BY <1>5, <3>5, <4>5, <4>6 DEF Below
    <3>. QED BY <3>2, <3>4, <3>6, ShrinkRolled
  <2>6. Along(C, W, order) \in Seq(Between(C, W))
    BY <1>1, <1>4, <2>3, AlongIsBetween
  <2>7. Along(C, W, order) \in Seq(Rolled(R))
    BY <2>5, <2>6, MoreStates
  <2>. QED BY <1>8, <1>12, <2>7
<1>. QED BY <1>11, <1>12

\* reconcileOldReplicaSets.
LEMMA OldRolled ==
  ASSUME dep \in Deployments, NEW R, Sound(R), HasNew(R)
  PROVE  ReconcileOldReplicaSets(R) \in Seq(Rolled(R))
<1>. DEFINE new == R[dep.template]
            olds == Active(R) \ {dep.template}
            limit == ScaleDownLimitForOld(R, olds)
            most == Below(SizeOf(R, DOMAIN R) - MinAvailable - (new.size - new.avail), limit)
            clean == CleanupUnhealthyReplicas(R, olds, most)
            up == ScaleUpOldReplicaSets(R, olds, -limit)
            first == Along(R, clean.to, clean.order)
            second == IF clean.ok THEN ScaleDownOldReplicaSets(clean.to, olds) ELSE <<>>
<1>1. ReconcileOldReplicaSets(R)
        = IF olds = {} THEN <<>>
          ELSE IF limit <= 0 THEN up
          ELSE IF most <= 0 THEN <<>> ELSE first \o second
  BY DEF ReconcileOldReplicaSets
<1>2. olds \in SUBSET DOMAIN R
  BY DEF Active
<1>3. /\ SizeOf(R, DOMAIN R) \in Nat /\ MinAvailable \in Nat /\ new.size \in Nat /\ new.avail \in Nat
      /\ limit \in Int
  <2>1. /\ SizeOf(R, olds) \in Nat /\ SizeOf(R, DOMAIN R) \in Nat /\ dep.replicas \in Nat
        /\ Limit \in Nat /\ new.size \in Nat /\ new.avail \in Nat /\ MinAvailable \in Nat
    BY <1>2, TotalsAreNat, SoundFields, DeploymentFields, BudgetBounds DEF HasNew
  <2>. QED BY <2>1 DEF ScaleDownLimitForOld, Above
<1>4. most \in Int
  <2>. HIDE DEF limit, new
  <2>. QED BY <1>3 DEF Below
<1>5. olds # {} /\ limit <= 0 => up \in Seq(Rolled(R))
  BY ScaleUpRolled
<1>. HIDE DEF limit, most, up
<1>6. ASSUME olds # {}, ~(limit <= 0), ~(most <= 0)
      PROVE  first \o second \in Seq(Rolled(R))
  <2>1. most \in Nat /\ most > 0
    BY <1>4, <1>6
  <2>2. /\ Resized(R, clean.to) /\ clean.order \in Seq(DOMAIN R)
        /\ \A r \in DOMAIN R : clean.to[r].size <= R[r].size
        /\ \A r \in DOMAIN R : R[r].avail <= R[r].size => R[r].avail <= clean.to[r].size
        /\ \A r \in DOMAIN R : R[r].size < R[r].avail => clean.to[r].size = R[r].size
        /\ \A o \in olds : olds = {o} /\ 0 < R[o].size /\ R[o].size < R[o].avail => ~clean.ok
    BY <1>2, <2>1, CleanupBounds
  <2>. HIDE DEF clean
  <2>3. \A r \in DOMAIN R : R[r].size \in Nat /\ R[r].avail \in Nat
    BY SoundFields
  <2>4. first \in Seq(Rolled(R))
    <3>1. ASSUME NEW T \in Between(R, clean.to)
          PROVE  T \in Rolled(R)
      <4>1. Resized(R, T) /\ \A r \in DOMAIN R : T[r] \in {R[r], clean.to[r]}
        BY <2>2, BetweenResized DEF Between
      <4>2. \A r \in DOMAIN R : T[r].size <= R[r].size
        BY <2>2, <2>3, <4>1
      <4>3. \A r \in DOMAIN R : R[r].avail <= T[r].size \/ R[r].size <= T[r].size
        BY <2>2, <2>3, <4>1
      <4>4. /\ SurvivingIn(R, R) \in Nat /\ SurvivingIn(R, T) \in Nat
            /\ SurvivingIn(R, R) <= SurvivingIn(R, T)
        BY <4>1, <4>3, SameResized, SurvivingKept
      <4>5. SurvivingIn(R, T) >= Below(MinAvailable, SurvivingIn(R, R))
        BY <1>3, <4>4 DEF Below
      <4>. QED BY <4>1, <4>2, <4>5, ShrinkRolled
    <3>2. first \in Seq(Between(R, clean.to))
      BY <2>2, AlongIsBetween
    <3>. QED BY <3>1, <3>2, MoreStates
  <2>5. clean.ok /\ Calm(R) => \A r \in olds : R[r].avail <= R[r].size
    <3>1. SUFFICES ASSUME clean.ok, Calm(R), NEW o \in olds, ~(R[o].avail <= R[o].size)
                   PROVE  FALSE
      OBVIOUS
    <3>2. Cardinality(olds) <= 1
      BY <3>1 DEF Calm
    <3>3. olds = {o}
      <4>1. IsFiniteSet(olds)
        BY <1>2, TotalsAreNat
      <4>2. IsFiniteSet(olds \ {o}) /\ Cardinality(olds \ {o}) = Cardinality(olds) - 1
            /\ Cardinality(olds \ {o}) \in Nat /\ Cardinality(olds) \in Nat
        BY <4>1, Smaller
      <4>3. Cardinality(olds \ {o}) = 0
        BY <3>2, <4>2
      <4>4. olds \ {o} = {}
        BY <4>2, <4>3, FS_EmptySet
      <4>. QED BY <4>4
    <3>4. 0 < R[o].size /\ R[o].size < R[o].avail
      BY <1>2, <2>3, <3>1 DEF Active
    <3>. QED BY <2>2, <3>1, <3>3, <3>4
  <2>6. second \in Seq(Rolled(R))
    <3>1. CASE clean.ok
      <4>1. Calm(R) => \A r \in olds : R[r].avail <= R[r].size
        BY <2>5, <3>1
      <4>2. ScaleDownOldReplicaSets(clean.to, olds) \in Seq(Rolled(R))
        BY <2>2, <4>1, ScaleDownRolled
      <4>. QED BY <3>1, <4>2
    <3>2. CASE ~clean.ok
      BY <3>2
    <3>. QED BY <3>1, <3>2
  <2>. HIDE DEF first, second
  <2>. QED BY <2>4, <2>6
<1>7. <<>> \in Seq(Rolled(R))
  BY NoState
<1>. HIDE DEF first, second, olds
<1>. QED BY <1>1, <1>5, <1>6, <1>7

-----------------------------------------------------------------------------
(* A round that rolls, with the creation of the new ReplicaSet.             *)

\* Revisions are natural numbers.
LEMMA MaxRevisionIsNat ==
  ASSUME NEW R, Sound(R), NEW S \in SUBSET DOMAIN R
  PROVE  MaxRevision(R, S) \in Nat
<1>. DEFINE V == {R[r].rev : r \in S}
            M == {0} \cup V
<1>1. IsFiniteSet(S) /\ \A r \in S : R[r].rev \in Nat
  BY TotalsAreNat, SoundFields
<1>2. IsFiniteSet(V) /\ V \subseteq Nat
  <2>. DEFINE f == [r \in S |-> R[r].rev]
  <2>1. f \in Surjection(S, V)
    BY DEF Surjection
  <2>2. IsFiniteSet(V)
    BY <1>1, <2>1, FS_Surjection
  <2>. QED BY <1>1, <2>2
<1>. HIDE DEF V
<1>3. IsFiniteSet(M) /\ M \subseteq Nat /\ M # {}
  <2>1. IsFiniteSet(V \cup {0}) /\ M = V \cup {0}
    BY <1>2, FS_AddElement
  <2>2. IsFiniteSet(M)
    BY <2>1
  <2>. QED BY <1>2, <2>2
<1>4. Max(M) \in M
  BY <1>3, GreatestNatural
<1>. QED BY <1>3, <1>4 DEF MaxRevision, V

\* The revision of the new ReplicaSet is raised, nothing else.
LEMMA SyncRevisionKeeps ==
  ASSUME dep \in Deployments, NEW R, Sound(R)
  PROVE  LET T == SyncRevision(R) IN
           /\ Resized(R, T) /\ Sound(T)
           /\ \A r \in DOMAIN R : T[r].size = R[r].size
<1>. DEFINE T == SyncRevision(R)
            next == MaxRevision(R, Olds(R)) + 1
<1>1. R \in [DOMAIN R -> ReplicaSets] /\ next \in Counts
  BY MaxRevisionIsNat DEF Sound, Olds, Counts
<1>2. T = IF HasNew(R) /\ R[dep.template].rev < next
          THEN [R EXCEPT ![dep.template].rev = next] ELSE R
  BY DEF SyncRevision
<1>. HIDE DEF T, next
<1>3. CASE HasNew(R) /\ R[dep.template].rev < next
  <2>. DEFINE y == [R[dep.template] EXCEPT !.rev = next]
  <2>1. dep.template \in DOMAIN R /\ R[dep.template] \in ReplicaSets
    BY <1>1, <1>3 DEF HasNew
  <2>2. /\ y \in ReplicaSets /\ y.size = R[dep.template].size
        /\ y.avail = R[dep.template].avail /\ y.born = R[dep.template].born
    BY <1>1, <2>1 DEF ReplicaSets
  <2>3. T = [R EXCEPT ![dep.template] = y]
    BY <1>2, <1>3
  <2>. HIDE DEF y
  <2>4. Resized(R, T) /\ \A r \in DOMAIN R : T[r].size = R[r].size
    BY <1>1, <2>1, <2>2, <2>3 DEF Resized
  <2>. QED BY <2>4, ResizedSound DEF T
<1>4. CASE ~(HasNew(R) /\ R[dep.template].rev < next)
  <2>1. T = R
    BY <1>2, <1>4
  <2>. QED BY <2>1, SameResized DEF T
<1>. QED BY <1>3, <1>4

\* getNewReplicaSet of a new one: within the partition and the surge, or empty,
\* or the one pod.
LEMMA CreatedReplicaSet ==
  ASSUME dep \in Deployments, NEW R, Sound(R), ~HasNew(R)
  PROVE  LET T == GetNewReplicaSet(R)
             n == T[dep.template].size IN
           /\ Sound(T) /\ DOMAIN T = DOMAIN R \cup {dep.template}
           /\ \A r \in DOMAIN R : T[r] = R[r]
           /\ T[dep.template].avail = 0 /\ n \in Nat
           /\ n <= Above(Limit, NewRSReplicasLowerBound) \/ Active(R) \subseteq {dep.template}
           /\ \/ SizeOf(T, DOMAIN T) <= dep.replicas + MaxSurge
              \/ n \in {0, 1}
<1>. DEFINE w == dep.template
            D == DOMAIN R \cup {w}
            empty == [size |-> 0, avail |-> 0, desired |-> dep.replicas,
                      max |-> dep.replicas + MaxSurge, rev |-> MaxRevision(R, DOMAIN R) + 1,
                      born |-> Cardinality(DOMAIN R) + 1]
            R1 == [r \in D |-> IF r \in DOMAIN R THEN R[r] ELSE empty]
            k == NewRSNewReplicas(R1)
            n == Above(k, NewRSReplicasLowerBound)
            T == [R1 EXCEPT ![w].size = n]
<1>1. /\ w \in Revisions /\ w \notin DOMAIN R /\ dep.replicas \in Sizes /\ dep.replicas \in Nat
      /\ MaxSurge \in Nat /\ Limit \in Nat
      /\ NewRSReplicasLowerBound \in {0, 1}
  BY DeploymentFields, BudgetBounds DEF HasNew
<1>2. /\ MaxRevision(R, DOMAIN R) + 1 \in Counts /\ dep.replicas + MaxSurge \in Counts
      /\ Cardinality(DOMAIN R) \in Nat /\ Cardinality(DOMAIN R) + 1 \in Counts
      /\ 0 \in Counts /\ IsFiniteSet(DOMAIN R)
  BY <1>1, MaxRevisionIsNat, FS_CardinalityType DEF Counts, Sound
<1>3. /\ empty \in ReplicaSets /\ empty.size = 0 /\ empty.avail = 0
      /\ empty.born = Cardinality(DOMAIN R) + 1
  BY <1>1, <1>2 DEF ReplicaSets
<1>. HIDE DEF empty
<1>4. IsFiniteSet(D) /\ Cardinality(D) = Cardinality(DOMAIN R) + 1
  BY <1>1, <1>2, FS_AddElement
<1>5. /\ DOMAIN R1 = D /\ R1 \in [D -> ReplicaSets] /\ R1[w] = empty
      /\ \A r \in DOMAIN R : R1[r] = R[r]
  BY <1>1, <1>3 DEF Sound
<1>6. GetNewReplicaSet(R) = T
  BY DEF GetNewReplicaSet, empty
<1>. HIDE DEF R1
<1>7. Sound(R1)
  <2>1. D \subseteq Revisions
    BY <1>1 DEF Sound
  <2>2. R1 \in AllStates
    BY <1>5, <2>1 DEF AllStates
  <2>3. \A r \in DOMAIN R : R1[r].born \in Nat /\ R1[r].born <= Cardinality(DOMAIN R)
    BY <1>5, SoundFields DEF Sound
  <2>4. \A r \in D : R1[r].born <= Cardinality(D)
    BY <1>2, <1>3, <1>4, <1>5, <2>3
  <2>5. \A r, x \in D : R1[r].born = R1[x].born => r = x
    <3>1. SUFFICES ASSUME NEW r \in D, NEW x \in D, R1[r].born = R1[x].born PROVE r = x
      OBVIOUS
    <3>2. CASE r \in DOMAIN R /\ x \in DOMAIN R
      BY <1>5, <3>1, <3>2 DEF Sound
    <3>3. CASE r = w /\ x = w
      BY <3>3
    <3>4. CASE (r = w /\ x \in DOMAIN R) \/ (x = w /\ r \in DOMAIN R)
      BY <1>2, <1>3, <1>5, <2>3, <3>1, <3>4
    <3>. QED BY <3>2, <3>3, <3>4
  <2>. QED BY <1>4, <1>5, <2>1, <2>2, <2>4, <2>5 DEF Sound
<1>8. HasNew(R1) /\ R1[w].size = 0
  BY <1>3, <1>5 DEF HasNew
<1>9. /\ k \in Nat
      /\ \/ SizeOf(R1, D) <= 0 /\ k = dep.replicas
         \/ k = 0
         \/ 0 < k /\ k <= Limit /\ SizeOf(R1, D) + k - 0 <= dep.replicas + MaxSurge
  BY <1>5, <1>7, <1>8, NewSize
<1>. HIDE DEF k
<1>10. n \in Nat /\ n \in {k, NewRSReplicasLowerBound} /\ n >= k
  BY <1>1, <1>9 DEF Above
<1>11. /\ DOMAIN T = D /\ T \in [D -> ReplicaSets] /\ T[w].size = n /\ T[w].avail = 0
       /\ \A r \in D : T[r].avail = R1[r].avail /\ T[r].born = R1[r].born
       /\ \A r \in DOMAIN R : T[r] = R[r]
  <2>. HIDE DEF n
  <2>. DEFINE y == [R1[w] EXCEPT !.size = n]
  <2>1. y \in ReplicaSets /\ y.size = n /\ y.avail = 0 /\ y.born = R1[w].born
    BY <1>3, <1>5, <1>10 DEF ReplicaSets, Counts
  <2>2. T = [R1 EXCEPT ![w] = y]
    OBVIOUS
  <2>. HIDE DEF y, T
  <2>. QED BY <1>1, <1>3, <1>5, <2>1, <2>2
<1>. HIDE DEF T
<1>12. Sound(T)
  <2>1. Resized(R1, T)
    BY <1>5, <1>11 DEF Resized
  <2>. QED BY <1>7, <2>1, ResizedSound
<1>13. SizeOf(T, D) = n + SizeOf(R, DOMAIN R) /\ SizeOf(R1, D) = SizeOf(R, DOMAIN R)
       /\ SizeOf(R, DOMAIN R) \in Nat
  <2>1. D \ {w} = DOMAIN R /\ w \in D
    BY <1>1
  <2>2. SizeOf(T, D) = T[w].size + SizeOf(T, DOMAIN R)
    BY <1>11, <1>12, <2>1, SizeOfOne
  <2>3. SizeOf(R1, D) = R1[w].size + SizeOf(R1, DOMAIN R)
    BY <1>5, <1>7, <2>1, SizeOfOne
  <2>4. SizeOf(R, DOMAIN R) = SizeOf(T, DOMAIN R) /\ SizeOf(R, DOMAIN R) = SizeOf(R1, DOMAIN R)
    BY <1>5, <1>7, <1>11, <1>12, SizesCompared
  <2>5. SizeOf(R, DOMAIN R) \in Nat
    BY TotalsAreNat
  <2>. QED BY <1>8, <1>11, <2>2, <2>3, <2>4, <2>5
<1>14. n <= Above(Limit, NewRSReplicasLowerBound) \/ Active(R) \subseteq {w}
  <2>1. CASE SizeOf(R1, D) <= 0
    <3>1. \A r \in DOMAIN R : R[r].size = 0
      BY <1>13, <2>1, SizeZero
    <3>. QED BY <3>1 DEF Active
  <2>2. CASE ~(SizeOf(R1, D) <= 0)
    <3>. HIDE DEF n
    <3>1. k <= Limit
      BY <1>1, <1>9, <2>2
    <3>. QED BY <1>1, <1>9, <1>10, <3>1 DEF Above
  <2>. QED BY <2>1, <2>2
<1>15. SizeOf(T, D) <= dep.replicas + MaxSurge \/ n \in {0, 1}
  <2>. HIDE DEF n
  <2>. QED BY <1>1, <1>9, <1>10, <1>13
<1>. QED BY <1>6, <1>10, <1>11, <1>12, <1>14, <1>15

\* The states that a round that rolls may write, from R.
NewSizeIn(R) == IF HasNew(R) THEN R[dep.template].size ELSE 0
PartitionFrom(R, T) ==
  NewSizeIn(T) > NewSizeIn(R)
    => NewSizeIn(T) <= Above(Limit, NewRSReplicasLowerBound) \/ Active(R) \subseteq {dep.template}
SurgeFrom(R, T) ==
  SizeOf(T, DOMAIN T) > SizeOf(R, DOMAIN R)
    => \/ SizeOf(T, DOMAIN T) <= dep.replicas + MaxSurge
       \/ ~HasNew(R) /\ NewSizeIn(T) = 1
RolledFrom(R) ==
  {T \in AllStates : /\ Sound(T) /\ DOMAIN R \subseteq DOMAIN T
                     /\ PartitionFrom(R, T) /\ SurgeFrom(R, T) /\ KeepsAvailable(R, T)}

\* What getNewReplicaSet leaves as it is.
LEMMA NewReplicaSetKeeps ==
  ASSUME dep \in Deployments, NEW R, Sound(R)
  PROVE  LET T == GetNewReplicaSet(R) IN
           /\ Sound(T) /\ HasNew(T) /\ DOMAIN T = DOMAIN R \cup {dep.template}
           /\ \A r \in DOMAIN R : T[r].size = R[r].size /\ T[r].avail = R[r].avail
           /\ dep.template \notin DOMAIN R => T[dep.template].avail = 0
<1>1. CASE HasNew(R)
  <2>1. GetNewReplicaSet(R) = SyncRevision(R) /\ dep.template \in DOMAIN R
    BY <1>1 DEF GetNewReplicaSet, HasNew
  <2>2. /\ Resized(R, SyncRevision(R)) /\ Sound(SyncRevision(R))
        /\ \A r \in DOMAIN R : SyncRevision(R)[r].size = R[r].size
    BY SyncRevisionKeeps
  <2>. QED BY <2>1, <2>2 DEF Resized, HasNew
<1>2. CASE ~HasNew(R)
  <2>. DEFINE T == GetNewReplicaSet(R)
  <2>1. /\ Sound(T) /\ DOMAIN T = DOMAIN R \cup {dep.template}
        /\ \A r \in DOMAIN R : T[r] = R[r]
        /\ T[dep.template].avail = 0
    BY <1>2, CreatedReplicaSet
  <2>. HIDE DEF T
  <2>. QED BY <2>1 DEF HasNew, T
<1>. QED BY <1>1, <1>2

\* An additional ReplicaSet without available pods changes nothing for the pods
\* that survive.
LEMMA SurvivingWithNew ==
  ASSUME NEW R, Sound(R), NEW R1, Sound(R1), DOMAIN R1 = DOMAIN R \cup {dep.template},
         \A r \in DOMAIN R : R1[r].avail = R[r].avail,
         dep.template \notin DOMAIN R => R1[dep.template].avail = 0,
         NEW T, Sound(T), DOMAIN T = DOMAIN R1
  PROVE  SurvivingIn(R, T) = SurvivingIn(R1, T)
<1>. DEFINE f == [r \in DOMAIN R |-> Below(R[r].avail, T[r].size)]
            g == [r \in DOMAIN R1 |-> Below(R1[r].avail, T[r].size)]
<1>1. /\ IsFiniteSet(DOMAIN R) /\ IsFiniteSet(DOMAIN R1) /\ DOMAIN R \subseteq DOMAIN R1
      /\ IsFiniteSet(DOMAIN R1 \ DOMAIN R)
  BY FS_Subset DEF Sound
<1>2. \A r \in DOMAIN R1 : R1[r].avail \in Nat /\ T[r].size \in Nat
  BY SoundFields
<1>3. /\ \A r \in DOMAIN R1 : g[r] \in Nat
      /\ \A r \in DOMAIN R : g[r] \in Nat /\ f[r] = g[r]
  BY <1>1, <1>2 DEF Below
<1>4. \A r \in DOMAIN R1 \ DOMAIN R : g[r] = 0
  BY <1>2 DEF Below
<1>5. SurvivingIn(R, T) = SumOver(f, DOMAIN R) /\ SurvivingIn(R1, T) = SumOver(g, DOMAIN R1)
  BY DEF SurvivingIn
<1>. HIDE DEF f, g
<1>6. SumOver(g, DOMAIN R1) = SumOver(g, DOMAIN R) + SumOver(g, DOMAIN R1 \ DOMAIN R)
  BY <1>1, <1>3, SumSplit
<1>7. SumOver(g, DOMAIN R) = SumOver(f, DOMAIN R) /\ SumOver(g, DOMAIN R) \in Nat
  BY <1>1, <1>3, SumSame, SumIsNat
<1>8. SumOver(g, DOMAIN R1 \ DOMAIN R) = 0
  BY <1>1, <1>4, SumOfZeros
<1>. QED BY <1>5, <1>6, <1>7, <1>8

\* Two parts of a round in one: the new ReplicaSet is found or created, then the
\* others follow.
LEMMA RolledFromStart ==
  ASSUME dep \in Deployments, NEW R, Sound(R), NEW R1, R1 = GetNewReplicaSet(R),
         NEW T \in Rolled(R1)
  PROVE  T \in RolledFrom(R)
<1>. DEFINE w == dep.template
            top == dep.replicas + MaxSurge
<1>1. /\ Sound(R1) /\ HasNew(R1) /\ DOMAIN R1 = DOMAIN R \cup {w} /\ w \in DOMAIN R1
      /\ \A r \in DOMAIN R : R1[r].size = R[r].size /\ R1[r].avail = R[r].avail
      /\ w \notin DOMAIN R => R1[w].avail = 0
  BY NewReplicaSetKeeps DEF HasNew
<1>2. /\ Resized(R1, T) /\ WithinPartition(R1, T) /\ WithinSurge(R1, T) /\ KeepsAvailable(R1, T)
      /\ T \in AllStates
  BY DEF Rolled
<1>3. Sound(T) /\ DOMAIN T = DOMAIN R1 /\ HasNew(T)
  BY <1>1, <1>2, ResizedSound DEF Resized, HasNew
<1>4. /\ \A r \in DOMAIN R : R[r].size \in Nat
      /\ \A r \in DOMAIN R1 : R1[r].size \in Nat /\ T[r].size \in Nat
  BY <1>1, <1>3, SoundFields
<1>5. /\ dep.replicas \in Nat /\ MaxSurge \in Nat /\ MinAvailable \in Nat /\ Limit \in Nat
      /\ NewRSReplicasLowerBound \in {0, 1}
  BY DeploymentFields, BudgetBounds
<1>6. ~HasNew(R) =>
        /\ \/ R1[w].size <= Above(Limit, NewRSReplicasLowerBound)
           \/ Active(R) \subseteq {w}
        /\ SizeOf(R1, DOMAIN R1) <= top \/ R1[w].size \in {0, 1}
  BY CreatedReplicaSet
<1>7. Active(R1) \ {w} = Active(R) \ {w}
  BY <1>1 DEF Active
<1>8. PartitionFrom(R, T)
  <2>1. SUFFICES ASSUME NewSizeIn(T) > NewSizeIn(R)
                 PROVE  \/ NewSizeIn(T) <= Above(Limit, NewRSReplicasLowerBound)
                        \/ Active(R) \subseteq {w}
    BY DEF PartitionFrom
  <2>2. NewSizeIn(T) = T[w].size
    BY <1>3 DEF NewSizeIn
  <2>3. CASE T[w].size > R1[w].size
    <3>1. T[w].size <= Limit \/ Active(R1) \subseteq {w}
      BY <1>2, <2>3 DEF WithinPartition
    <3>2. Active(R1) \subseteq {w} => Active(R) \subseteq {w}
      BY <1>7
    <3>3. T[w].size <= Limit => T[w].size <= Above(Limit, NewRSReplicasLowerBound)
      BY <1>1, <1>4, <1>5 DEF Above
    <3>. QED BY <2>2, <3>1, <3>2, <3>3
  <2>4. CASE ~(T[w].size > R1[w].size)
    <3>1. ~HasNew(R)
      BY <1>1, <1>4, <2>1, <2>2, <2>4 DEF NewSizeIn, HasNew
    <3>2. R1[w].size <= Above(Limit, NewRSReplicasLowerBound) \/ Active(R) \subseteq {w}
      BY <1>6, <3>1
    <3>. QED BY <1>1, <1>4, <1>5, <2>2, <2>4, <3>2 DEF Above
  <2>. QED BY <2>3, <2>4
<1>9. SurgeFrom(R, T)
  <2>1. SUFFICES ASSUME SizeOf(T, DOMAIN T) > SizeOf(R, DOMAIN R), ~(SizeOf(T, DOMAIN T) <= top)
                 PROVE  ~HasNew(R) /\ NewSizeIn(T) = 1
    BY DEF SurgeFrom
  <2>2. \A r \in DOMAIN R1 : T[r].size <= R1[r].size
    BY <1>2, <2>1 DEF WithinSurge
  <2>3. SizeOf(T, DOMAIN T) <= SizeOf(R1, DOMAIN R1)
    BY <1>1, <1>3, <2>2, SizesCompared
  <2>4. /\ SizeOf(T, DOMAIN T) \in Nat /\ SizeOf(R1, DOMAIN R1) \in Nat
        /\ SizeOf(R, DOMAIN R) \in Nat
    BY <1>1, <1>3, TotalsAreNat
  <2>5. ~HasNew(R)
    <3>1. SUFFICES ASSUME HasNew(R) PROVE FALSE
      OBVIOUS
    <3>2. DOMAIN R1 = DOMAIN R
      BY <1>1, <3>1 DEF HasNew
    <3>3. SizeOf(R1, DOMAIN R) = SizeOf(R, DOMAIN R)
      BY <1>1, <3>2, SizesCompared
    <3>. QED BY <2>1, <2>3, <2>4, <3>2, <3>3
  <2>6. R1[w].size \in {0, 1}
    BY <1>5, <1>6, <2>1, <2>3, <2>4, <2>5
  <2>7. T[w].size # 0
    <3>1. SUFFICES ASSUME T[w].size = 0 PROVE FALSE
      OBVIOUS
    <3>2. w \in DOMAIN T /\ DOMAIN T \ {w} = DOMAIN R
      BY <1>1, <1>3, <2>5 DEF HasNew
    <3>3. SizeOf(T, DOMAIN T) = T[w].size + SizeOf(T, DOMAIN R)
      BY <1>3, <3>2, SizeOfOne
    <3>4. SizeOf(T, DOMAIN R) <= SizeOf(R, DOMAIN R)
      <4>1. \A r \in DOMAIN R : T[r].size <= R[r].size
        BY <1>1, <2>2
      <4>2. DOMAIN R \in SUBSET DOMAIN T
        BY <1>1, <1>3
      <4>. QED BY <1>3, <4>1, <4>2, SizesCompared
    <3>5. SizeOf(T, DOMAIN R) \in Nat
      BY <1>3, <3>2, TotalsAreNat
    <3>. QED BY <2>1, <2>4, <3>1, <3>3, <3>4, <3>5
  <2>8. T[w].size = 1
    BY <1>1, <1>4, <2>2, <2>6, <2>7
  <2>. QED BY <1>3, <2>5, <2>8 DEF NewSizeIn
<1>10. KeepsAvailable(R, T)
  <2>1. SUFFICES ASSUME Calm(R)
                 PROVE  SurvivingIn(R, T) >= Below(MinAvailable, SurvivingIn(R, R))
    BY DEF KeepsAvailable
  <2>2. Calm(R1)
    <3>1. R1[w].avail <= R1[w].size
      <4>1. CASE HasNew(R)
        BY <1>1, <2>1, <4>1 DEF Calm, HasNew
      <4>2. CASE ~HasNew(R)
        BY <1>1, <1>4, <4>2 DEF HasNew
      <4>. QED BY <4>1, <4>2
    <3>2. \/ \A r \in Active(R1) \ {w} : R1[r].avail <= R1[r].size
          \/ Cardinality(Active(R1) \ {w}) <= 1
      <4>1. CASE \A r \in Active(R) \ {w} : R[r].avail <= R[r].size
        <5>1. \A r \in Active(R) \ {w} : r \in DOMAIN R
          BY DEF Active
        <5>. QED BY <1>1, <1>7, <4>1, <5>1
      <4>2. CASE Cardinality(Active(R) \ {w}) <= 1
        BY <1>7, <4>2
      <4>. QED BY <2>1, <4>1, <4>2 DEF Calm
    <3>. QED BY <3>1, <3>2 DEF Calm
  <2>3. SurvivingIn(R1, T) >= Below(MinAvailable, SurvivingIn(R1, R1))
    BY <1>2, <2>2 DEF KeepsAvailable
  <2>4. SurvivingIn(R, T) = SurvivingIn(R1, T) /\ SurvivingIn(R, R1) = SurvivingIn(R1, R1)
    BY <1>1, <1>3, SurvivingWithNew
  <2>5. SurvivingIn(R, R1) = SurvivingIn(R, R)
    <3>1. \A r \in DOMAIN R : Below(R[r].avail, R1[r].size) = Below(R[r].avail, R[r].size)
      BY <1>1
    <3>2. [r \in DOMAIN R |-> Below(R[r].avail, R1[r].size)]
            = [r \in DOMAIN R |-> Below(R[r].avail, R[r].size)]
      BY <3>1
    <3>. QED BY <3>2 DEF SurvivingIn
  <2>. QED BY <2>3, <2>4, <2>5
<1>. QED BY <1>1, <1>2, <1>3, <1>8, <1>9, <1>10 DEF RolledFrom

\* rolloutRolling.
LEMMA RollingRound ==
  ASSUME dep \in Deployments, NEW R, Sound(R)
  PROVE  RolloutRolling(R) \in Seq(RolledFrom(R))
<1>. DEFINE R1 == GetNewReplicaSet(R)
            R2 == ReconcileNewReplicaSet(R1)
            rest == IF R2 # R1 THEN <<R2>> ELSE ReconcileOldReplicaSets(R1)
<1>1. Sound(R1) /\ HasNew(R1)
  BY NewReplicaSetKeeps
<1>2. RolloutRolling(R) = <<R1>> \o rest
  BY DEF RolloutRolling
<1>3. \A T \in Rolled(R1) : T \in RolledFrom(R)
  BY RolledFromStart
<1>. HIDE DEF R1
<1>4. R1 \in Rolled(R1)
  <2>1. \A r \in DOMAIN R1 : R1[r].size \in Nat
    BY <1>1, SoundFields
  <2>2. \A r \in DOMAIN R1 : R1[r].size <= R1[r].size
    BY <2>1
  <2>3. Resized(R1, R1)
    BY <1>1, SameResized
  <2>4. SurvivingIn(R1, R1) \in Nat
    BY <1>1, <2>2, <2>3, SurvivingKept
  <2>5. SurvivingIn(R1, R1) >= Below(MinAvailable, SurvivingIn(R1, R1))
    BY <2>4, BudgetBounds DEF Below
  <2>. QED BY <1>1, <2>2, <2>3, <2>5, ShrinkRolled
<1>5. R2 \in Rolled(R1) /\ ReconcileOldReplicaSets(R1) \in Seq(Rolled(R1))
  BY <1>1, NewRolled, OldRolled
<1>. HIDE DEF R2
<1>6. <<R1>> \in Seq(Rolled(R1)) /\ <<R2>> \in Seq(Rolled(R1))
  BY <1>4, <1>5, OneState
<1>7. rest \in Seq(Rolled(R1))
  BY <1>5, <1>6
<1>. HIDE DEF rest
<1>8. <<R1>> \o rest \in Seq(Rolled(R1))
  BY <1>6, <1>7
<1>. QED BY <1>2, <1>3, <1>8, MoreStates

-----------------------------------------------------------------------------
(* A round that scales.                                                     *)

\* Integer division by a positive number.
LEMMA QuotientIsInt ==
  ASSUME NEW a \in Int, NEW b \in Nat, b > 0
  PROVE  a \div b \in Int
OBVIOUS

\* getReplicaSetFraction and GetProportion, also when the divisor is zero.
LEMMA ProportionIsInt ==
  ASSUME dep \in Deployments, NEW R, Sound(R), NEW r \in DOMAIN R,
         NEW toAdd \in Int, NEW added \in Int
  PROVE  GetProportion(R, r, toAdd, added) \in Int
<1>1. /\ R[r].size \in Nat /\ R[r].max \in Nat /\ MaxInt32 \in Nat
      /\ dep.replicas \in Nat /\ MaxSurge \in Nat
  BY SoundFields, DeploymentFields, BudgetBounds, MaxInt32Assumption DEF Counts
<1>. DEFINE a == R[r].size * (dep.replicas + MaxSurge)
            b == 2 * R[r].max
<1>2. a \in Int
  BY <1>1
<1>. HIDE DEF a
<1>3. 2 * a + R[r].max \in Int /\ b \in Nat /\ (R[r].max # 0 => b > 0)
  BY <1>1, <1>2
<1>. DEFINE c == 2 * a + R[r].max
<1>4. R[r].max # 0 => c \div b \in Int
  BY <1>3, QuotientIsInt
<1>5. Fraction(R, r) = CASE dep.replicas = 0 -> -R[r].size
                         [] dep.replicas # 0 /\ R[r].max = 0 -> MaxInt32 - R[r].size
                         [] OTHER -> c \div b - R[r].size
  BY DEF Fraction, a
<1>. HIDE DEF b, c
<1>6. Fraction(R, r) \in Int
  BY <1>1, <1>4, <1>5
<1>7. GetProportion(R, r, toAdd, added)
        \in {0, Below(Fraction(R, r), toAdd - added), Above(Fraction(R, r), toAdd - added)}
  <2>1. CASE toAdd = added
    BY <2>1 DEF GetProportion
  <2>2. CASE toAdd # added /\ toAdd > 0
    BY <2>2 DEF GetProportion
  <2>3. CASE toAdd # added /\ ~(toAdd > 0)
    <3>1. toAdd <= 0
      BY <2>3
    <3>. QED BY <2>3, <3>1 DEF GetProportion
  <2>. QED BY <2>1, <2>2, <2>3
<1>8. toAdd - added \in Int
  OBVIOUS
<1>9. /\ Below(Fraction(R, r), toAdd - added) \in Int
      /\ Above(Fraction(R, r), toAdd - added) \in Int
  BY <1>6, <1>8, SmallerLarger
<1>. QED BY <1>7, <1>9

AddedStep(R, order, toAdd, i, f) ==
  IF i = 0 THEN 0 ELSE f[i - 1] + GetProportion(R, order[i], toAdd, f[i - 1])
AddsUp(R, order, toAdd) ==
  \E f : f = [i \in 0..Len(order) |-> AddedStep(R, order, toAdd, i, f)]

\* The recursion that adds the proportions up has a solution.
LEMMA AddedExists ==
  ASSUME NEW R, NEW order, NEW toAdd, Len(order) \in Nat
  PROVE  AddsUp(R, order, toAdd)
<1>. DEFINE P(n) == \E f : f = [i \in 0..n |-> AddedStep(R, order, toAdd, i, f)]
            T == {n \in Nat : ~P(n)}
<1>1. P(0)
  <2>. DEFINE f == [i \in 0..0 |-> 0]
  <2>1. \A i \in 0..0 : AddedStep(R, order, toAdd, i, f) = 0
    BY DEF AddedStep
  <2>2. f = [i \in 0..0 |-> AddedStep(R, order, toAdd, i, f)]
    BY <2>1
  <2>. QED BY <2>2
<1>2. ASSUME NEW n \in Nat, P(n)
      PROVE  P(n + 1)
  <2>1. PICK f : f = [i \in 0..n |-> AddedStep(R, order, toAdd, i, f)]
    BY <1>2
  <2>. DEFINE h == [i \in 0..(n + 1) |-> AddedStep(R, order, toAdd, i, f)]
  <2>2. \A i \in 0..n : i \in 0..(n + 1)
    OBVIOUS
  <2>3. \A i \in 0..n : h[i] = f[i]
    BY <2>1, <2>2, Zenon
  <2>4. \A i \in 0..(n + 1) : i # 0 => i - 1 \in 0..n
    OBVIOUS
  <2>5. \A i \in 0..(n + 1) : AddedStep(R, order, toAdd, i, f) = AddedStep(R, order, toAdd, i, h)
    <3>. HIDE DEF h
    <3>. QED BY <2>3, <2>4 DEF AddedStep
  <2>6. h = [i \in 0..(n + 1) |-> AddedStep(R, order, toAdd, i, h)]
    BY <2>5, Zenon
  <2>. QED BY <2>6
<1>. HIDE DEF P
<1>3. T = {}
  <2>1. SUFFICES ASSUME T # {} PROVE FALSE
    OBVIOUS
  <2>2. PICK n \in T : \A m \in T : ~(m < n)
    BY <2>1, LeastNatural
  <2>3. n # 0
    BY <1>1
  <2>4. n - 1 \in Nat /\ n - 1 \notin T
    BY <2>2, <2>3
  <2>5. P((n - 1) + 1)
    BY <2>4, <1>2
  <2>. QED BY <2>2, <2>5
<1>4. P(Len(order))
  BY <1>3
<1>. QED BY <1>4 DEF P, AddsUp

\* What is added to the first i is an integer.
LEMMA AddedIsInt ==
  ASSUME dep \in Deployments, NEW R, Sound(R), NEW order \in Seq(DOMAIN R), NEW toAdd \in Int
  PROVE  \A i \in 0..Len(order) : Added(R, order, toAdd)[i] \in Int
<1>. DEFINE A == Added(R, order, toAdd)
            L == Len(order)
            T == {i \in 0..L : A[i] \notin Int}
<1>1. L \in Nat /\ \A i \in 1..L : order[i] \in DOMAIN R
  OBVIOUS
<1>2. \E f : f = [i \in 0..L |-> AddedStep(R, order, toAdd, i, f)]
  <2>1. Len(order) \in Nat
    BY <1>1
  <2>2. AddsUp(R, order, toAdd)
    BY <2>1, AddedExists
  <2>. QED BY <2>2 DEF AddsUp
<1>3. A = CHOOSE f : f = [i \in 0..L |-> AddedStep(R, order, toAdd, i, f)]
  BY DEF Added, AddedStep
<1>. HIDE DEF A
<1>4. A = [i \in 0..L |-> AddedStep(R, order, toAdd, i, A)]
  BY <1>2, <1>3, Zenon
<1>5. \A i \in 0..L : A[i] = AddedStep(R, order, toAdd, i, A)
  BY <1>4, Zenon
<1>6. T = {}
  <2>1. SUFFICES ASSUME T # {} PROVE FALSE
    OBVIOUS
  <2>2. PICK i \in T : \A m \in T : ~(m < i)
    <3>1. T \subseteq Nat
      BY <1>1
    <3>. QED BY <2>1, <3>1, LeastNatural
  <2>3. i # 0
    BY <1>1, <1>5, <2>2 DEF AddedStep
  <2>4. i \in 1..L /\ i - 1 \in 0..L /\ i - 1 \notin T
    BY <1>1, <2>2, <2>3
  <2>5. A[i - 1] \in Int /\ order[i] \in DOMAIN R
    BY <1>1, <2>4
  <2>6. GetProportion(R, order[i], toAdd, A[i - 1]) \in Int
    BY <2>5, ProportionIsInt
  <2>7. A[i] = A[i - 1] + GetProportion(R, order[i], toAdd, A[i - 1])
    BY <1>5, <2>2, <2>3 DEF AddedStep
  <2>. QED BY <2>2, <2>5, <2>6, <2>7
<1>. QED BY <1>6 DEF A

SoundStates == {T \in AllStates : Sound(T)}

\* ReplicaSets are scaled one by one.
LEMMA AlongSound ==
  ASSUME NEW R, Sound(R), NEW T, Resized(R, T), NEW order \in Seq(DOMAIN R)
  PROVE  Along(R, T, order) \in Seq(SoundStates)
<1>1. Along(R, T, order) \in Seq(Between(R, T))
  BY AlongIsBetween
<1>2. ASSUME NEW Q \in Between(R, T) PROVE Q \in SoundStates
  <2>1. Sound(Q)
    BY BetweenResized, ResizedSound
  <2>. QED BY <2>1 DEF Sound, SoundStates
<1>. QED BY <1>1, <1>2, MoreStates

\* Scaling in proportion.
LEMMA ProportionalSound ==
  ASSUME dep \in Deployments, NEW R, Sound(R), NEW toAdd \in Int
  PROVE  ScaleProportionally(R, toAdd) \in Seq(SoundStates)
<1>. DEFINE order == ScalingOrder(R, toAdd)
            added == Added(R, order, toAdd)
            size(i) == R[order[i]].size + added[i] - added[i - 1]
                         + (IF i = 1 THEN toAdd - added[Len(order)] ELSE 0)
            at(r) == CHOOSE i \in DOMAIN order : order[i] = r
            sized(r) == Above(0, size(at(r)))
            T == [r \in DOMAIN R |-> IF r \in Range(order) THEN ScaleReplicaSet(R[r], sized(r))
                                     ELSE R[r]]
<1>1. ScaleProportionally(R, toAdd) = Along(R, T, order)
  BY DEF ScaleProportionally
<1>2. Active(R) \in SUBSET DOMAIN R
  BY DEF Active
<1>3. Enumerates(order, Active(R))
  BY <1>2, OrdersEnumerate DEF ScalingOrder
<1>4. order \in Seq(DOMAIN R) /\ DOMAIN order = 1..Len(order) /\ Len(order) \in Nat
  <2>. HIDE DEF order
  <2>1. Picks(order, R)
    BY <1>2, <1>3, EnumeratesPicks
  <2>2. order \in Seq(DOMAIN R)
    BY <2>1 DEF Picks
  <2>. QED BY <2>2
<1>5. \A i \in 0..Len(order) : added[i] \in Int
  BY <1>4, AddedIsInt
<1>. HIDE DEF order, added
<1>6. \A i \in 1..Len(order) : size(i) \in Int
  <2>1. SUFFICES ASSUME NEW i \in 1..Len(order) PROVE size(i) \in Int
    OBVIOUS
  <2>2. i \in 0..Len(order) /\ i - 1 \in 0..Len(order) /\ Len(order) \in 0..Len(order)
    BY <1>4
  <2>3. order[i] \in DOMAIN R
    BY <1>4
  <2>4. R[order[i]].size \in Nat
    BY <2>3, SoundFields
  <2>5. added[i] \in Int /\ added[i - 1] \in Int /\ added[Len(order)] \in Int
    BY <1>5, <2>2
  <2>. DEFINE rest == IF i = 1 THEN toAdd - added[Len(order)] ELSE 0
  <2>6. rest \in Int
    BY <2>5
  <2>7. size(i) = R[order[i]].size + added[i] - added[i - 1] + rest
    OBVIOUS
  <2>. HIDE DEF rest, size
  <2>. QED BY <2>4, <2>5, <2>6, <2>7
<1>. HIDE DEF size
<1>7. \A r \in Range(order) : sized(r) \in Nat
  <2>1. SUFFICES ASSUME NEW r \in Range(order) PROVE sized(r) \in Nat
    OBVIOUS
  <2>2. \E i \in DOMAIN order : order[i] = r
    BY DEF Range
  <2>3. at(r) \in 1..Len(order)
    BY <1>4, <2>2
  <2>. HIDE DEF at
  <2>4. size(at(r)) \in Int
    BY <1>6, <2>3
  <2>. QED BY <2>4 DEF Above
<1>. HIDE DEF sized
<1>8. ASSUME NEW r \in DOMAIN R
      PROVE  T[r] \in ReplicaSets /\ T[r].avail = R[r].avail /\ T[r].born = R[r].born
  <2>1. R[r] \in ReplicaSets
    BY SoundFields
  <2>2. CASE r \in Range(order)
    <3>. DEFINE y == ScaleReplicaSet(R[r], sized(r))
    <3>1. y \in ReplicaSets /\ y.avail = R[r].avail /\ y.born = R[r].born
      BY <1>7, <2>1, <2>2, ScaledReplicaSet
    <3>2. T[r] = y
      BY <2>2
    <3>. HIDE DEF y, T
    <3>. QED BY <3>1, <3>2
  <2>3. CASE r \notin Range(order)
    BY <2>1, <2>3
  <2>. QED BY <2>2, <2>3
<1>9. DOMAIN T = DOMAIN R
  OBVIOUS
<1>10. T \in [DOMAIN R -> ReplicaSets]
  BY <1>8
<1>. HIDE DEF T
<1>11. Resized(R, T)
  BY <1>8, <1>9, <1>10 DEF Resized
<1>. QED BY <1>1, <1>4, <1>11, AlongSound

\* Some ReplicaSets are given one size.
LEMMA SomeScaled ==
  ASSUME dep \in Deployments, NEW R, Sound(R), NEW S, NEW n \in Nat
  PROVE  LET T == [r \in DOMAIN R |-> IF r \in S THEN ScaleAndRecord(R[r], n) ELSE R[r]] IN
           /\ Resized(R, T) /\ Sound(T)
<1>. DEFINE T == [r \in DOMAIN R |-> IF r \in S THEN ScaleAndRecord(R[r], n) ELSE R[r]]
<1>1. ASSUME NEW r \in DOMAIN R
      PROVE  T[r] \in ReplicaSets /\ T[r].avail = R[r].avail /\ T[r].born = R[r].born
  <2>1. R[r] \in ReplicaSets
    BY SoundFields
  <2>. DEFINE y == ScaleAndRecord(R[r], n)
  <2>2. y \in ReplicaSets /\ y.avail = R[r].avail /\ y.born = R[r].born
    BY <2>1, ScaledReplicaSet
  <2>3. T[r] \in {y, R[r]}
    OBVIOUS
  <2>. HIDE DEF y, T
  <2>. QED BY <2>1, <2>2, <2>3
<1>2. DOMAIN T = DOMAIN R
  OBVIOUS
<1>3. T \in [DOMAIN R -> ReplicaSets]
  BY <1>1
<1>. HIDE DEF T
<1>4. Resized(R, T)
  BY <1>1, <1>2, <1>3 DEF Resized
<1>. QED BY <1>4, ResizedSound DEF T

\* scale.
LEMMA ScaleRoundSound ==
  ASSUME dep \in Deployments, NEW R, Sound(R)
  PROVE  ScaleRound(R) \in Seq(SoundStates)
<1>. DEFINE only == ActiveOrLatest(R)
            olds == Active(R) \ {dep.template}
            toAdd == dep.replicas - SizeOf(R, Active(R))
            clean == CleanupUnhealthyReplicas(R, Olds(R), -toAdd)
            one == [r \in DOMAIN R |-> IF r \in only THEN ScaleAndRecord(R[r], dep.replicas) ELSE R[r]]
            none == [r \in DOMAIN R |-> IF r \in olds THEN ScaleAndRecord(R[r], 0) ELSE R[r]]
            first == Along(R, clean.to, clean.order)
            second == IF clean.ok THEN ScaleProportionally(clean.to, toAdd + clean.n) ELSE <<>>
<1>1. olds \in SUBSET DOMAIN R /\ Active(R) \in SUBSET DOMAIN R /\ Olds(R) \in SUBSET DOMAIN R
  BY DEF Active, Olds
<1>2. dep.replicas \in Nat /\ SizeOf(R, Active(R)) \in Nat /\ toAdd \in Int
  BY <1>1, DeploymentFields, TotalsAreNat
<1>3. <<one>> \in Seq(SoundStates)
  <2>1. Sound(one)
    BY <1>2, SomeScaled
  <2>. HIDE DEF one
  <2>2. one \in SoundStates
    BY <2>1 DEF Sound, SoundStates
  <2>. QED BY <2>2, OneState
<1>4. Along(R, none, ByNewest(R, olds)) \in Seq(SoundStates)
  <2>1. Resized(R, none)
    BY SomeScaled
  <2>2. ByNewest(R, olds) \in Seq(DOMAIN R)
    <3>1. Enumerates(ByNewest(R, olds), olds)
      BY <1>1, OrdersEnumerate
    <3>2. Picks(ByNewest(R, olds), R)
      BY <1>1, <3>1, EnumeratesPicks
    <3>. QED BY <3>2 DEF Picks
  <2>. QED BY <2>1, <2>2, AlongSound
<1>5. ASSUME toAdd < 0 PROVE first \o second \in Seq(SoundStates)
  <2>1. -toAdd \in Nat
    BY <1>2, <1>5
  <2>2. Resized(R, clean.to) /\ clean.order \in Seq(DOMAIN R) /\ clean.n \in Nat
    BY <1>1, <2>1, CleanupBounds
  <2>. HIDE DEF clean, toAdd
  <2>3. first \in Seq(SoundStates)
    BY <2>2, AlongSound
  <2>4. Sound(clean.to) /\ toAdd + clean.n \in Int
    BY <1>2, <2>2, ResizedSound
  <2>5. ScaleProportionally(clean.to, toAdd + clean.n) \in Seq(SoundStates)
    BY <2>4, ProportionalSound
  <2>6. second \in Seq(SoundStates)
    BY <2>5, NoState
  <2>. HIDE DEF first, second
  <2>. QED BY <2>3, <2>6
<1>6. ScaleProportionally(R, toAdd) \in Seq(SoundStates)
  BY <1>2, ProportionalSound
<1>7. ScaleRound(R) =
        CASE only # {} -> <<one>>
          [] only = {} /\ IsSaturated(R) -> Along(R, none, ByNewest(R, olds))
          [] only = {} /\ ~IsSaturated(R) /\ toAdd < 0 -> first \o second
          [] only = {} /\ ~IsSaturated(R) /\ toAdd >= 0 -> ScaleProportionally(R, toAdd)
  BY DEF ScaleRound
<1>8. toAdd < 0 \/ toAdd >= 0
  BY <1>2
<1>. HIDE DEF only, olds, toAdd, one, none, first, second
<1>. QED BY <1>3, <1>4, <1>5, <1>6, <1>7, <1>8

-----------------------------------------------------------------------------
(* The order in which old ReplicaSets are scaled down.                      *)

\* No old ReplicaSet loses available pods before those of later revisions are
\* empty.
InTurn(R, T) ==
  Cardinality(Active(R) \ {dep.template}) <= 2
    => \A s, m \in DOMAIN R \ {dep.template} :
         R[s].rev < R[m].rev /\ T[s].size < Below(R[s].size, R[s].avail) => T[m].size = 0
TurnStates(R) == {T \in AllStates : InTurn(R, T)}

\* A state in which no old ReplicaSet has lost available pods.
LEMMA KeptInTurn ==
  ASSUME NEW R, Sound(R), NEW T, Sound(T), DOMAIN R \subseteq DOMAIN T,
         \A r \in DOMAIN R \ {dep.template} : T[r].size >= Below(R[r].size, R[r].avail)
  PROVE  T \in TurnStates(R)
<1>1. T \in AllStates
  BY DEF Sound
<1>2. \A s \in DOMAIN R \ {dep.template} : ~(T[s].size < Below(R[s].size, R[s].avail))
  <2>1. \A s \in DOMAIN R : T[s].size \in Nat /\ R[s].size \in Nat /\ R[s].avail \in Nat
    BY SoundFields
  <2>. QED BY <2>1 DEF Below
<1>. QED BY <1>1, <1>2 DEF TurnStates, InTurn

\* Pods are taken from a ReplicaSet only when those before it have none left.
LEMMA TakenInTurn ==
  ASSUME NEW R, Sound(R), NEW order, Picks(order, R), NEW cap \in [DOMAIN R -> Nat], NEW n \in Nat,
         NEW i \in 1..Len(order), NEW j \in 1..Len(order), i < j,
         Taken(order, cap, n)[order[j]] # 0
  PROVE  Taken(order, cap, n)[order[i]] = cap[order[i]]
<1>. DEFINE t == Taken(order, cap, n)
            U(k) == TakenUpTo(order, cap, n, k)
            C(k) == Capacity(order, cap, k)
<1>1. /\ Len(order) \in Nat /\ DOMAIN order = 1..Len(order)
      /\ \A k \in 1..Len(order) : order[k] \in DOMAIN R
      /\ \A k, l \in 1..Len(order) : order[k] = order[l] => k = l
  BY DEF Picks
<1>2. /\ \A k \in 0..Len(order) : C(k) \in Nat
      /\ \A k \in 1..Len(order) : C(k) = cap[order[k]] + C(k - 1)
  BY CapacityUpTo
<1>3. \A k \in 0..Len(order) : U(k) = Below(n, C(k))
  BY DEF TakenUpTo, Capacity
<1>4. \A k \in 1..Len(order) : t[order[k]] = U(k) - U(k - 1)
  <2>1. SUFFICES ASSUME NEW k \in 1..Len(order) PROVE t[order[k]] = U(k) - U(k - 1)
    OBVIOUS
  <2>2. order[k] \in Range(order)
    BY <1>1 DEF Range
  <2>3. (CHOOSE l \in DOMAIN order : order[l] = order[k]) = k
    BY <1>1
  <2>. QED BY <2>2, <2>3 DEF Taken
<1>. HIDE DEF t, U, C
<1>5. C(i) <= C(j - 1)
  <2>. DEFINE T == {k \in i..Len(order) : ~(C(i) <= C(k))}
  <2>1. T = {}
    <3>1. SUFFICES ASSUME T # {} PROVE FALSE
      OBVIOUS
    <3>2. PICK k \in T : \A l \in T : ~(l < k)
      <4>1. T \subseteq Nat
        BY <1>1
      <4>. QED BY <3>1, <4>1, LeastNatural
    <3>3. k \in Nat /\ k # i /\ k \in 1..Len(order) /\ i \in 0..Len(order)
      BY <1>1, <1>2, <3>2
    <3>4. k - 1 \in i..Len(order) /\ k - 1 \in 0..Len(order) /\ k \in 0..Len(order) /\ k - 1 \notin T
      BY <1>1, <3>2, <3>3
    <3>5. C(i) <= C(k - 1) /\ C(k) = cap[order[k]] + C(k - 1)
      BY <1>2, <3>3, <3>4
    <3>6. cap[order[k]] \in Nat /\ C(k) \in Nat /\ C(k - 1) \in Nat /\ C(i) \in Nat
      BY <1>1, <1>2, <3>3, <3>4
    <3>. QED BY <3>2, <3>5, <3>6
  <2>2. j - 1 \in i..Len(order)
    BY <1>1
  <2>. QED BY <2>1, <2>2
<1>6. /\ i \in 0..Len(order) /\ i - 1 \in 0..Len(order)
      /\ j \in 0..Len(order) /\ j - 1 \in 0..Len(order)
  BY <1>1
<1>7. /\ C(i) \in Nat /\ C(i - 1) \in Nat /\ C(j) \in Nat /\ C(j - 1) \in Nat
      /\ C(i) = cap[order[i]] + C(i - 1) /\ cap[order[i]] \in Nat
  BY <1>1, <1>2, <1>6
<1>8. U(j) - U(j - 1) # 0
  BY <1>4 DEF t
<1>9. C(j - 1) < n
  <2>1. U(j) = Below(n, C(j)) /\ U(j - 1) = Below(n, C(j - 1))
    BY <1>3, <1>6
  <2>2. C(j - 1) <= C(j)
    <3>1. C(j) = cap[order[j]] + C(j - 1) /\ cap[order[j]] \in Nat
      BY <1>1, <1>2
    <3>. QED BY <1>7, <3>1
  <2>. QED BY <1>7, <1>8, <2>1, <2>2 DEF Below
<1>10. U(i) = C(i) /\ U(i - 1) = C(i - 1)
  <2>1. U(i) = Below(n, C(i)) /\ U(i - 1) = Below(n, C(i - 1))
    BY <1>3, <1>6
  <2>. QED BY <1>5, <1>7, <1>9, <2>1 DEF Below
<1>11. t[order[i]] = C(i) - C(i - 1)
  BY <1>4, <1>10
<1>. QED BY <1>7, <1>11 DEF t

\* ReplicaSetsBySmallerRevision: the later revision comes first.
LEMMA LaterFirst ==
  ASSUME NEW R, Sound(R), NEW S \in SUBSET DOMAIN R,
         NEW i \in 1..Cardinality(S), NEW j \in 1..Cardinality(S), i < j
  PROVE  LET order == BySmallerRevision(R, S) IN R[order[i]].rev >= R[order[j]].rev
<1>1. IsFiniteSet(S)
  BY TotalsAreNat
<1>2. /\ \A r \in S : R[r].rev \in Nat /\ R[r].born \in Nat
      /\ \A r, x \in S : R[r].born = R[x].born => r = x
  BY SoundFields DEF Sound
<1>. DEFINE B == {p \in S \X S : \/ R[p[1]].rev > R[p[2]].rev
                                 \/ R[p[1]].rev = R[p[2]].rev /\ Older(R, p[1], p[2])}
            order == Sorted(S, B)
<1>3. \A x, y \in S : <<x, y>> \in B <=> \/ R[x].rev > R[y].rev
                                         \/ R[x].rev = R[y].rev /\ R[x].born < R[y].born
  BY DEF Older
<1>4. BySmallerRevision(R, S) = order
  BY DEF BySmallerRevision
<1>. HIDE DEF B
<1>5. Orders(S, B)
  BY <1>2, <1>3 DEF Orders
<1>6. Enumerates(order, S) /\ InOrderOf(order, B)
  BY <1>1, <1>5, SortedEnumerates
<1>. HIDE DEF order
<1>7. order \in Seq(S) /\ Len(order) = Cardinality(S)
  BY <1>6 DEF Enumerates
<1>8. /\ i \in DOMAIN order /\ j \in DOMAIN order
      /\ order[i] \in S /\ order[j] \in S
  BY <1>7
<1>9. <<order[i], order[j]>> \in B
  BY <1>6, <1>8 DEF InOrderOf
<1>10. /\ R[order[i]].rev \in Nat /\ R[order[j]].rev \in Nat
       /\ R[order[i]].rev > R[order[j]].rev \/ R[order[i]].rev = R[order[j]].rev
  BY <1>2, <1>3, <1>8, <1>9
<1>11. R[order[i]].rev >= R[order[j]].rev
  BY <1>10
<1>. QED BY <1>4, <1>11

\* scaleDownOldReplicaSetsForRollingUpdate, from C, what cleanup made of R.
LEMMA ScaleDownInTurn ==
  ASSUME dep \in Deployments, NEW R, Sound(R), HasNew(R),
         NEW olds, olds = Active(R) \ {dep.template},
         NEW C, Resized(R, C),
         \A r \in DOMAIN R : C[r].rev = R[r].rev /\ C[r].size <= R[r].size
                             /\ C[r].size >= Below(R[r].size, R[r].avail)
  PROVE  ScaleDownOldReplicaSets(C, olds) \in Seq(TurnStates(R))
<1>. DEFINE order == ScaleDownOrder(C, olds)
            spare == Available(C, olds \cup {dep.template}) - MinAvailable
            n == Below(spare, ScaleDownLimitForOld(C, Range(order)))
            cap == [r \in DOMAIN C |-> C[r].size]
            t == Taken(order, cap, n)
            W == Without(C, t)
<1>1. Sound(C) /\ DOMAIN C = DOMAIN R /\ dep.template \in DOMAIN R
  BY ResizedSound DEF Resized, HasNew
<1>2. /\ olds \in SUBSET DOMAIN C /\ dep.template \notin olds /\ HasNew(C)
      /\ olds \cup {dep.template} \in SUBSET DOMAIN C
  BY <1>1 DEF Active, HasNew
<1>3. Picks(order, C)
  BY <1>1, <1>2, ScaleDownPicks
<1>4. ScaleDownOldReplicaSets(C, olds)
        = IF spare <= 0 \/ n <= 0 THEN <<>> ELSE Along(C, W, order)
  BY DEF ScaleDownOldReplicaSets
<1>5. cap \in [DOMAIN C -> Nat] /\ \A r \in DOMAIN C : cap[r] = C[r].size /\ cap[r] <= C[r].size
  BY <1>1, SoundFields
<1>6. /\ \A r \in DOMAIN R : C[r].size \in Nat /\ R[r].size \in Nat /\ R[r].avail \in Nat
                             /\ R[r].rev \in Nat
      /\ \A r \in DOMAIN R \ olds : r # dep.template => R[r].size = 0
  BY <1>1, SoundFields DEF Active
<1>. DEFINE small == BySmallerRevision(C, olds)
<1>7. Cardinality(olds) \in Nat
  BY <1>1, <1>2, TotalsAreNat, FS_CardinalityType
<1>8. Cardinality(olds) <= 2 => order = small
  BY <1>7 DEF ScaleDownOrder, RoomLeft
<1>9. Enumerates(small, olds)
  BY <1>1, <1>2, OrdersEnumerate
<1>10. /\ small \in Seq(olds) /\ Len(small) = Cardinality(olds)
       /\ \A x \in olds : \E i \in 1..Len(small) : small[i] = x
  BY <1>9 DEF Enumerates
<1>11. \A i, j \in 1..Cardinality(olds) : i < j => R[small[i]].rev >= R[small[j]].rev
  <2>1. SUFFICES ASSUME NEW i \in 1..Cardinality(olds), NEW j \in 1..Cardinality(olds), i < j
                 PROVE  R[small[i]].rev >= R[small[j]].rev
    OBVIOUS
  <2>2. C[small[i]].rev >= C[small[j]].rev
    BY <1>1, <1>2, <2>1, LaterFirst
  <2>3. small[i] \in DOMAIN R /\ small[j] \in DOMAIN R
    <3>. HIDE DEF small
    <3>. QED BY <1>1, <1>2, <1>10
  <2>. QED BY <2>2, <2>3
<1>. HIDE DEF order, small, cap
<1>12. order \in Seq(DOMAIN C) /\ Len(order) \in Nat
  BY <1>3 DEF Picks
<1>13. Range(order) \in SUBSET DOMAIN C
  BY <1>3, <1>12 DEF Range
<1>14. spare \in Int /\ n \in Int
  <2>1. Available(C, olds \cup {dep.template}) \in Nat /\ MinAvailable \in Nat
    BY <1>1, <1>2, TotalsAreNat, BudgetBounds
  <2>2. ScaleDownLimitForOld(C, Range(order)) \in Int
    <3>1. /\ SizeOf(C, Range(order)) \in Nat /\ dep.replicas \in Nat /\ Limit \in Nat
          /\ C[dep.template].size \in Nat
      BY <1>1, <1>13, TotalsAreNat, SoundFields, DeploymentFields, BudgetBounds
    <3>. QED BY <3>1 DEF ScaleDownLimitForOld, Above
  <2>. QED BY <2>1, <2>2 DEF Below
<1>. HIDE DEF n, spare
<1>15. CASE ~(spare <= 0 \/ n <= 0)
  <2>1. n \in Nat
    BY <1>14, <1>15
  <2>2. /\ Resized(C, W)
        /\ \A r \in Range(order) : W[r].size = C[r].size - t[r]
        /\ \A r \in DOMAIN C \ Range(order) : W[r] = C[r]
    BY <1>1, <1>3, <1>5, <2>1, WithoutResizes
  <2>3. \A i, j \in 1..Len(order) : i < j /\ t[order[j]] # 0 => t[order[i]] = C[order[i]].size
    <3>1. SUFFICES ASSUME NEW i \in 1..Len(order), NEW j \in 1..Len(order), i < j, t[order[j]] # 0
                   PROVE  t[order[i]] = C[order[i]].size
      OBVIOUS
    <3>2. t[order[i]] = cap[order[i]]
      <4>1. Taken(order, cap, n)[order[j]] # 0
        BY <3>1
      <4>2. cap \in [DOMAIN C -> Nat]
        BY <1>5
      <4>3. Taken(order, cap, n)[order[i]] = cap[order[i]]
        BY <1>1, <1>3, <2>1, <3>1, <4>1, <4>2, TakenInTurn
      <4>. QED BY <4>3
    <3>3. order[i] \in DOMAIN C
      BY <1>12
    <3>. QED BY <1>5, <3>2, <3>3
  <2>. HIDE DEF t, W
  <2>4. ASSUME NEW k \in 1..Len(order)
        PROVE  [r \in DOMAIN C |-> IF \E j \in 1..k : order[j] = r THEN W[r] ELSE C[r]]
                 \in TurnStates(R)
    <3>. DEFINE T == [r \in DOMAIN C |-> IF \E j \in 1..k : order[j] = r THEN W[r] ELSE C[r]]
    <3>1. T \in AllStates
      <4>1. C \in [DOMAIN C -> ReplicaSets] /\ W \in [DOMAIN C -> ReplicaSets] /\ DOMAIN C \subseteq Revisions
        BY <1>1, <2>2 DEF Sound, Resized
      <4>2. T \in [DOMAIN C -> ReplicaSets]
        BY <4>1
      <4>. HIDE DEF T
      <4>. QED BY <4>1, <4>2 DEF AllStates
    <3>2. SUFFICES ASSUME Cardinality(olds) <= 2,
                          NEW s \in DOMAIN R \ {dep.template}, NEW m \in DOMAIN R \ {dep.template},
                          R[s].rev < R[m].rev, T[s].size < Below(R[s].size, R[s].avail)
                   PROVE  T[m].size = 0
      BY <3>1 DEF TurnStates, InTurn
    <3>3. T[s].size # C[s].size
      BY <1>6, <3>2 DEF Below
    <3>4. PICK j \in 1..k : order[j] = s
      BY <1>1, <3>3
    <3>5. T[s] = W[s] /\ j \in 1..Len(order)
      BY <1>1, <1>12, <3>4
    <3>6. order[j] \in Range(order)
      BY <1>12, <3>5 DEF Range
    <3>7. t[order[j]] # 0
      <4>1. W[s].size = C[s].size - t[s] /\ C[s].size \in Nat
        BY <1>6, <2>2, <3>4, <3>6
      <4>2. W[s].size # C[s].size
        BY <3>3, <3>5
      <4>. QED BY <3>4, <4>1, <4>2
    <3>8. CASE m \in olds
      <4>1. order = small
        BY <1>8, <3>2
      <4>2. PICK i \in 1..Len(order) : order[i] = m
        BY <1>10, <3>8, <4>1
      <4>3. Len(order) = Cardinality(olds)
        BY <1>10, <4>1
      <4>4. i # j
        BY <1>6, <3>2, <3>4, <4>2
      <4>5. ~(j < i)
        <5>1. SUFFICES ASSUME j < i PROVE FALSE
          OBVIOUS
        <5>2. R[order[j]].rev >= R[order[i]].rev
          BY <1>11, <3>5, <4>1, <4>2, <4>3, <5>1
        <5>. QED BY <1>6, <3>2, <3>4, <4>2, <5>2
      <4>6. i < j /\ i \in 1..k
        BY <3>4, <4>2, <4>4, <4>5
      <4>7. t[order[i]] = C[order[i]].size
        BY <2>3, <3>5, <3>7, <4>2, <4>6
      <4>8. T[m] = W[m]
        BY <1>1, <4>2, <4>6
      <4>9. m \in Range(order)
        BY <1>12, <4>2 DEF Range
      <4>10. W[m].size = C[m].size - C[m].size
        BY <2>2, <4>2, <4>7, <4>9
      <4>. QED BY <1>6, <4>8, <4>10
    <3>9. CASE m \notin olds
      <4>1. R[m].size = 0
        BY <1>6, <3>9
      <4>2. C[m].size = 0
        BY <1>6, <4>1
      <4>3. m \notin Range(order)
        <5>1. order \in Seq(olds)
          BY <1>8, <1>10, <3>2
        <5>2. \A i \in DOMAIN order : order[i] \in olds
          BY <5>1
        <5>. QED BY <3>9, <5>2 DEF Range
      <4>4. W[m] = C[m]
        BY <1>1, <2>2, <4>3
      <4>5. T[m] \in {W[m], C[m]}
        BY <1>1
      <4>. QED BY <4>2, <4>4, <4>5
    <3>. QED BY <3>8, <3>9
  <2>. DEFINE F(k) == [r \in DOMAIN C |-> IF \E j \in 1..k : order[j] = r THEN W[r] ELSE C[r]]
  <2>5. DOMAIN order = 1..Len(order)
    BY <1>12
  <2>6. Along(C, W, order) = [k \in 1..Len(order) |-> F(k)]
    BY <2>5 DEF Along
  <2>7. \A k \in 1..Len(order) : F(k) \in TurnStates(R)
    BY <2>4
  <2>. HIDE DEF F
  <2>8. Along(C, W, order) \in Seq(TurnStates(R))
    BY <1>12, <2>6, <2>7
  <2>. QED BY <1>4, <1>15, <2>8
<1>16. CASE spare <= 0 \/ n <= 0
  BY <1>4, <1>16, NoState
<1>. QED BY <1>15, <1>16

\* scaleUpOldReplicaSets takes no pods.
LEMMA ScaleUpInTurn ==
  ASSUME dep \in Deployments, NEW R, Sound(R), NEW olds \in SUBSET DOMAIN R, olds # {}, NEW n \in Nat
  PROVE  ScaleUpOldReplicaSets(R, olds, n) \in Seq(TurnStates(R))
<1>. DEFINE s == BySizeOlder(R, olds)
            o == s[1]
            T == [R EXCEPT ![o] = ScaleAndRecord(@, @.size + n)]
<1>1. o \in olds
  <2>1. Enumerates(s, olds)
    BY OrdersEnumerate
  <2>2. s \in Seq(olds) /\ \A x \in olds : \E i \in 1..Len(s) : s[i] = x
    BY <2>1 DEF Enumerates
  <2>. HIDE DEF s
  <2>3. PICK x \in olds : TRUE
    OBVIOUS
  <2>4. \E i \in 1..Len(s) : TRUE
    BY <2>2, <2>3
  <2>5. 1 \in 1..Len(s)
    BY <2>2, <2>4
  <2>. QED BY <2>2, <2>5
<1>2. ScaleUpOldReplicaSets(R, olds, n) = <<T>>
  BY DEF ScaleUpOldReplicaSets
<1>. HIDE DEF o, s
<1>3. R[o].size \in Nat /\ R[o].size + n \in Nat /\ o \in DOMAIN R
  BY <1>1, SoundFields
<1>. DEFINE Q == [R EXCEPT ![o] = ScaleAndRecord(@, R[o].size + n)]
<1>4. T = Q
  BY <1>3
<1>5. /\ Resized(R, Q) /\ Sound(Q)
      /\ Q[o].size = R[o].size + n /\ \A x \in DOMAIN R \ {o} : Q[x] = R[x]
  BY <1>3, OneScaled
<1>. HIDE DEF Q, T
<1>6. \A r \in DOMAIN R \ {dep.template} : Q[r].size >= Below(R[r].size, R[r].avail)
  <2>1. \A r \in DOMAIN R : R[r].size \in Nat /\ R[r].avail \in Nat
    BY SoundFields
  <2>. QED BY <1>5, <2>1 DEF Below
<1>7. Q \in TurnStates(R)
  <2>1. DOMAIN R \subseteq DOMAIN Q
    BY <1>5 DEF Resized
  <2>. QED BY <1>5, <1>6, <2>1, KeptInTurn
<1>. QED BY <1>2, <1>4, <1>7, OneState

\* reconcileOldReplicaSets.
LEMMA OldInTurn ==
  ASSUME dep \in Deployments, NEW R, Sound(R), HasNew(R)
  PROVE  ReconcileOldReplicaSets(R) \in Seq(TurnStates(R))
<1>. DEFINE new == R[dep.template]
            olds == Active(R) \ {dep.template}
            limit == ScaleDownLimitForOld(R, olds)
            most == Below(SizeOf(R, DOMAIN R) - MinAvailable - (new.size - new.avail), limit)
            clean == CleanupUnhealthyReplicas(R, olds, most)
            up == ScaleUpOldReplicaSets(R, olds, -limit)
            first == Along(R, clean.to, clean.order)
            second == IF clean.ok THEN ScaleDownOldReplicaSets(clean.to, olds) ELSE <<>>
<1>1. ReconcileOldReplicaSets(R)
        = IF olds = {} THEN <<>>
          ELSE IF limit <= 0 THEN up
          ELSE IF most <= 0 THEN <<>> ELSE first \o second
  BY DEF ReconcileOldReplicaSets
<1>2. olds \in SUBSET DOMAIN R
  BY DEF Active
<1>3. /\ SizeOf(R, DOMAIN R) \in Nat /\ MinAvailable \in Nat /\ new.size \in Nat /\ new.avail \in Nat
      /\ limit \in Int
  <2>1. /\ SizeOf(R, olds) \in Nat /\ SizeOf(R, DOMAIN R) \in Nat /\ dep.replicas \in Nat
        /\ Limit \in Nat /\ new.size \in Nat /\ new.avail \in Nat /\ MinAvailable \in Nat
    BY <1>2, TotalsAreNat, SoundFields, DeploymentFields, BudgetBounds DEF HasNew
  <2>. QED BY <2>1 DEF ScaleDownLimitForOld, Above
<1>4. most \in Int
  <2>. HIDE DEF limit, new
  <2>. QED BY <1>3 DEF Below
<1>. HIDE DEF limit, most
<1>5. olds # {} /\ limit <= 0 => up \in Seq(TurnStates(R))
  <2>1. limit <= 0 => -limit \in Nat
    BY <1>3
  <2>. QED BY <1>2, <2>1, ScaleUpInTurn
<1>. HIDE DEF up
<1>6. ASSUME ~(most <= 0)
      PROVE  first \o second \in Seq(TurnStates(R))
  <2>1. most \in Nat
    BY <1>4, <1>6
  <2>2. /\ Resized(R, clean.to) /\ clean.order \in Seq(DOMAIN R)
        /\ \A r \in DOMAIN R : clean.to[r].rev = R[r].rev
        /\ \A r \in DOMAIN R : clean.to[r].size <= R[r].size
        /\ \A r \in DOMAIN R : R[r].avail <= R[r].size => R[r].avail <= clean.to[r].size
        /\ \A r \in DOMAIN R : R[r].size < R[r].avail => clean.to[r].size = R[r].size
    BY <1>2, <2>1, CleanupBounds
  <2>. HIDE DEF clean
  <2>3. \A r \in DOMAIN R : R[r].size \in Nat /\ R[r].avail \in Nat /\ clean.to[r].size \in Nat
    <3>1. Sound(clean.to) /\ DOMAIN clean.to = DOMAIN R
      BY <2>2, ResizedSound DEF Resized
    <3>. QED BY <3>1, SoundFields
  <2>4. \A r \in DOMAIN R : clean.to[r].size >= Below(R[r].size, R[r].avail)
    BY <2>2, <2>3 DEF Below
  <2>5. first \in Seq(TurnStates(R))
    <3>1. ASSUME NEW T \in Between(R, clean.to)
          PROVE  T \in TurnStates(R)
      <4>1. Resized(R, T) /\ \A r \in DOMAIN R : T[r] \in {R[r], clean.to[r]}
        BY <2>2, BetweenResized DEF Between
      <4>2. \A r \in DOMAIN R : T[r].size >= Below(R[r].size, R[r].avail)
        <5>1. \A r \in DOMAIN R : R[r].size >= Below(R[r].size, R[r].avail)
          BY <2>3 DEF Below
        <5>. QED BY <2>4, <4>1, <5>1
      <4>3. Sound(T) /\ DOMAIN R \subseteq DOMAIN T
        BY <4>1, ResizedSound DEF Resized
      <4>. QED BY <4>2, <4>3, KeptInTurn
    <3>2. first \in Seq(Between(R, clean.to))
      BY <2>2, AlongIsBetween
    <3>. QED BY <3>1, <3>2, MoreStates
  <2>6. ScaleDownOldReplicaSets(clean.to, olds) \in Seq(TurnStates(R))
    BY <2>2, <2>4, ScaleDownInTurn
  <2>7. second \in Seq(TurnStates(R))
    BY <2>6, NoState
  <2>. HIDE DEF first, second
  <2>. QED BY <2>5, <2>7
<1>7. <<>> \in Seq(TurnStates(R))
  BY NoState
<1>. HIDE DEF first, second, olds
<1>. QED BY <1>1, <1>5, <1>6, <1>7

\* rolloutRolling: getNewReplicaSet and reconcileNewReplicaSet leave the old
\* ReplicaSets alone.
LEMMA RollingInTurn ==
  ASSUME dep \in Deployments, NEW R, Sound(R)
  PROVE  RolloutRolling(R) \in Seq(TurnStates(R))
<1>. DEFINE w == dep.template
            R1 == GetNewReplicaSet(R)
            R2 == ReconcileNewReplicaSet(R1)
            rest == IF R2 # R1 THEN <<R2>> ELSE ReconcileOldReplicaSets(R1)
<1>1. /\ Sound(R1) /\ HasNew(R1) /\ DOMAIN R1 = DOMAIN R \cup {w}
      /\ \A r \in DOMAIN R : R1[r].size = R[r].size /\ R1[r].avail = R[r].avail
  BY NewReplicaSetKeeps
<1>2. \A r \in DOMAIN R \ {w} : R1[r].rev = R[r].rev
  <2>1. CASE HasNew(R)
    <3>1. R1 = SyncRevision(R)
      BY <2>1 DEF GetNewReplicaSet
    <3>2. R \in [DOMAIN R -> ReplicaSets]
      BY DEF Sound
    <3>. HIDE DEF R1
    <3>3. \A r \in DOMAIN R \ {w} : SyncRevision(R)[r] = R[r]
      BY <3>2 DEF SyncRevision
    <3>. QED BY <3>1, <3>3
  <2>2. CASE ~HasNew(R)
    BY <2>2, CreatedReplicaSet
  <2>. QED BY <2>1, <2>2
<1>3. RolloutRolling(R) = <<R1>> \o rest
  BY DEF RolloutRolling
<1>4. R2 \in Rolled(R1) /\ \A r \in DOMAIN R1 \ {w} : R2[r] = R1[r]
  <2>1. R2 \in Rolled(R1)
    BY <1>1, NewRolled
  <2>2. \A r \in DOMAIN R1 \ {w} : R2[r] = R1[r]
    <3>. HIDE DEF R1
    <3>. QED BY DEF ReconcileNewReplicaSet
  <2>. QED BY <2>1, <2>2
<1>5. ReconcileOldReplicaSets(R1) \in Seq(TurnStates(R1))
  BY <1>1, OldInTurn
<1>. HIDE DEF R1, R2
<1>6. \A r \in DOMAIN R1 : R1[r].size \in Nat /\ R1[r].avail \in Nat
  BY <1>1, SoundFields
<1>7. R1 \in TurnStates(R1)
  <2>1. \A r \in DOMAIN R1 \ {w} : R1[r].size >= Below(R1[r].size, R1[r].avail)
    BY <1>6 DEF Below
  <2>. QED BY <1>1, <2>1, KeptInTurn
<1>8. R2 \in TurnStates(R1)
  <2>1. Sound(R2) /\ DOMAIN R1 \subseteq DOMAIN R2
    BY <1>1, <1>4, ResizedSound DEF Rolled, Resized
  <2>2. \A r \in DOMAIN R1 \ {w} : R2[r].size >= Below(R1[r].size, R1[r].avail)
    BY <1>4, <1>6 DEF Below
  <2>. QED BY <1>1, <2>1, <2>2, KeptInTurn
<1>9. <<R1>> \in Seq(TurnStates(R1)) /\ <<R2>> \in Seq(TurnStates(R1))
  BY <1>7, <1>8, OneState
<1>10. rest \in Seq(TurnStates(R1))
  BY <1>5, <1>9
<1>. HIDE DEF rest
<1>11. <<R1>> \o rest \in Seq(TurnStates(R1))
  BY <1>9, <1>10
<1>12. TurnStates(R1) \subseteq TurnStates(R)
  <2>1. Active(R1) \ {w} = Active(R) \ {w}
    BY <1>1 DEF Active
  <2>2. \A T : InTurn(R1, T) => InTurn(R, T)
    <3>1. SUFFICES ASSUME NEW T, InTurn(R1, T), Cardinality(Active(R) \ {w}) <= 2,
                          NEW s \in DOMAIN R \ {w}, NEW m \in DOMAIN R \ {w},
                          R[s].rev < R[m].rev, T[s].size < Below(R[s].size, R[s].avail)
                   PROVE  T[m].size = 0
      BY DEF InTurn
    <3>2. /\ s \in DOMAIN R1 \ {w} /\ m \in DOMAIN R1 \ {w}
          /\ R1[s].rev = R[s].rev /\ R1[m].rev = R[m].rev
          /\ R1[s].size = R[s].size /\ R1[s].avail = R[s].avail
      BY <1>1, <1>2
    <3>3. T[s].size < Below(R1[s].size, R1[s].avail) /\ R1[s].rev < R1[m].rev
      BY <3>1, <3>2
    <3>4. Cardinality(Active(R1) \ {w}) <= 2
      BY <2>1, <3>1
    <3>. QED BY <3>1, <3>2, <3>3, <3>4 DEF InTurn
  <2>. QED BY <2>2 DEF TurnStates
<1>. QED BY <1>3, <1>11, <1>12, MoreStates

-----------------------------------------------------------------------------
(* A whole round, and the native controller.                                *)

\* A state is a state that a round that rolls may stay in.
LEMMA StaysRolled ==
  ASSUME dep \in Deployments, NEW R, Sound(R)
  PROVE  R \in RolledFrom(R) /\ R \in TurnStates(R)
<1>1. SizeOf(R, DOMAIN R) \in Nat
  BY TotalsAreNat
<1>2. NewSizeIn(R) \in Nat
  BY SoundFields DEF NewSizeIn, HasNew
<1>3. PartitionFrom(R, R) /\ SurgeFrom(R, R)
  BY <1>1, <1>2 DEF PartitionFrom, SurgeFrom
<1>4. KeepsAvailable(R, R)
  <2>1. \A r \in DOMAIN R : R[r].size \in Nat
    BY SoundFields
  <2>2. \A r \in DOMAIN R : R[r].size <= R[r].size
    BY <2>1
  <2>3. SurvivingIn(R, R) \in Nat
    BY <2>2, SameResized, SurvivingKept
  <2>. QED BY <2>3, BudgetBounds DEF KeepsAvailable, Below
<1>5. R \in AllStates
  BY DEF Sound
<1>6. R \in TurnStates(R)
  <2>1. \A r \in DOMAIN R : R[r].size \in Nat /\ R[r].avail \in Nat
    BY SoundFields
  <2>2. \A r \in DOMAIN R : R[r].size >= Below(R[r].size, R[r].avail)
    BY <2>1 DEF Below
  <2>. QED BY <2>2, KeptInTurn
<1>. QED BY <1>3, <1>4, <1>5, <1>6 DEF RolledFrom

\* syncDeployment: every state of the round is sound, and one that a round that
\* rolls may write if the round rolls.
LEMMA RoundSound ==
  ASSUME dep \in Deployments, Sound(rs)
  PROVE  /\ SyncDeployment \in Seq(SoundStates)
         /\ ~dep.paused /\ ~IsScalingEvent(rs)
              => SyncDeployment \in Seq(RolledFrom(rs)) /\ SyncDeployment \in Seq(TurnStates(rs))
         /\ Len(SyncDeployment) >= 1
<1>. DEFINE R == SyncRevision(rs)
            scales == <<R>> \o ScaleRound(R)
            rolls == RolloutRolling(rs)
<1>1. SyncDeployment = <<rs>> \o (IF dep.paused \/ IsScalingEvent(rs) THEN scales ELSE rolls)
  BY DEF SyncDeployment
<1>2. /\ <<rs>> \in Seq(SoundStates) /\ <<rs>> \in Seq(RolledFrom(rs))
      /\ <<rs>> \in Seq(TurnStates(rs)) /\ Len(<<rs>>) = 1
  <2>1. rs \in SoundStates /\ rs \in RolledFrom(rs) /\ rs \in TurnStates(rs)
    BY StaysRolled DEF Sound, SoundStates
  <2>. QED BY <2>1, OneState
<1>3. rolls \in Seq(RolledFrom(rs)) /\ rolls \in Seq(TurnStates(rs))
  BY RollingRound, RollingInTurn
<1>4. rolls \in Seq(SoundStates)
  <2>1. RolledFrom(rs) \subseteq SoundStates
    BY DEF RolledFrom, SoundStates
  <2>. HIDE DEF rolls
  <2>. QED BY <1>3, <2>1, MoreStates
<1>5. scales \in Seq(SoundStates)
  <2>1. Sound(R)
    BY SyncRevisionKeeps
  <2>. HIDE DEF R
  <2>2. R \in SoundStates
    BY <2>1 DEF Sound, SoundStates
  <2>3. <<R>> \in Seq(SoundStates)
    BY <2>2, OneState
  <2>4. ScaleRound(R) \in Seq(SoundStates)
    BY <2>1, ScaleRoundSound
  <2>. DEFINE a == <<R>>
              b == ScaleRound(R)
  <2>5. a \in Seq(SoundStates) /\ b \in Seq(SoundStates)
    BY <2>3, <2>4
  <2>6. scales = a \o b
    OBVIOUS
  <2>. HIDE DEF a, b, scales
  <2>. QED BY <2>5, <2>6
<1>. HIDE DEF scales, rolls
<1>. DEFINE first == <<rs>>
<1>6. /\ first \in Seq(SoundStates) /\ first \in Seq(RolledFrom(rs))
      /\ first \in Seq(TurnStates(rs)) /\ Len(first) = 1
  BY <1>2
<1>7. SyncDeployment = first \o (IF dep.paused \/ IsScalingEvent(rs) THEN scales ELSE rolls)
  BY <1>1
<1>. HIDE DEF first
<1>8. CASE dep.paused \/ IsScalingEvent(rs)
  <2>1. SyncDeployment = first \o scales
    BY <1>7, <1>8
  <2>2. first \o scales \in Seq(SoundStates) /\ Len(first \o scales) >= 1
    BY <1>5, <1>6
  <2>. QED BY <1>8, <2>1, <2>2
<1>9. CASE ~(dep.paused \/ IsScalingEvent(rs))
  <2>1. SyncDeployment = first \o rolls
    BY <1>7, <1>9
  <2>2. first \o rolls \in Seq(SoundStates) /\ Len(first \o rolls) >= 1
    BY <1>4, <1>6
  <2>3. first \o rolls \in Seq(RolledFrom(rs)) /\ first \o rolls \in Seq(TurnStates(rs))
    BY <1>3, <1>6
  <2>. QED BY <2>1, <2>2, <2>3
<1>. QED BY <1>8, <1>9

\* What is left of a round, whole or cut off, is one of its states.
LEMMA RoundWrites ==
  ASSUME dep \in Deployments, Sound(rs), NEW T,
         \E h \in {SyncDeployment} : T = Last(h) \/ \E i \in 1..(Len(h) - 1) : T = h[i]
  PROVE  /\ Sound(T)
         /\ ~dep.paused /\ ~IsScalingEvent(rs) => T \in RolledFrom(rs) /\ T \in TurnStates(rs)
<1>. DEFINE h == SyncDeployment
<1>1. /\ h \in Seq(SoundStates) /\ Len(h) >= 1
      /\ ~dep.paused /\ ~IsScalingEvent(rs)
           => h \in Seq(RolledFrom(rs)) /\ h \in Seq(TurnStates(rs))
  BY RoundSound
<1>2. T = h[Len(h)] \/ \E i \in 1..(Len(h) - 1) : T = h[i]
  BY DEF Last
<1>. HIDE DEF h
<1>3. \E i \in 1..Len(h) : T = h[i]
  BY <1>1, <1>2
<1>4. T \in SoundStates
  BY <1>1, <1>3
<1>5. ASSUME ~dep.paused, ~IsScalingEvent(rs) PROVE T \in RolledFrom(rs) /\ T \in TurnStates(rs)
  BY <1>1, <1>3, <1>5
<1>. QED BY <1>4, <1>5 DEF SoundStates

\* FindActiveOrLatest: no other ReplicaSet has pods.
LEMMA OnlyOneActive ==
  ASSUME NEW R, Sound(R), NEW r \in ActiveOrLatest(R)
  PROVE  r \in DOMAIN R /\ \A x \in DOMAIN R \ {r} : R[x].size = 0
<1>. DEFINE A == Active(R)
<1>1. A \in SUBSET DOMAIN R
  BY DEF Active
<1>2. IsFiniteSet(A)
  BY <1>1, TotalsAreNat
<1>3. Cardinality(A) \in Nat /\ (Cardinality(A) = 0 <=> A = {})
  BY <1>2, FS_CardinalityType, FS_EmptySet
<1>4. \A x \in DOMAIN R \ A : R[x].size = 0
  BY SoundFields DEF Active
<1>. HIDE DEF A
<1>5. ActiveOrLatest(R) =
        CASE Cardinality(A) > 1 -> {}
          [] Cardinality(A) = 1 -> A
          [] A = {} /\ HasNew(R) -> {dep.template}
          [] OTHER -> {z \in DOMAIN R : \A x \in DOMAIN R : R[x].born <= R[z].born}
  BY DEF ActiveOrLatest, A
<1>6. CASE Cardinality(A) > 1
  <2>1. Cardinality(A) # 1 /\ A # {}
    BY <1>3, <1>6
  <2>. QED BY <1>5, <1>6, <2>1
<1>7. CASE Cardinality(A) = 1
  <2>1. ~(Cardinality(A) > 1) /\ A # {}
    BY <1>3, <1>7
  <2>2. r \in A
    BY <1>5, <1>7, <2>1
  <2>3. PICK z : A = {z}
    BY <1>2, <1>7, FS_Singleton
  <2>4. A = {r}
    BY <2>2, <2>3
  <2>. QED BY <1>1, <1>4, <2>4
<1>8. CASE A = {}
  <2>1. ~(Cardinality(A) > 1) /\ Cardinality(A) # 1
    BY <1>3, <1>8
  <2>2. r \in DOMAIN R
    <3>1. CASE HasNew(R)
      BY <1>5, <1>8, <2>1, <3>1 DEF HasNew
    <3>2. CASE ~HasNew(R)
      BY <1>5, <2>1, <3>2
    <3>. QED BY <3>1, <3>2
  <2>. QED BY <1>4, <1>8, <2>2
<1>. QED BY <1>3, <1>6, <1>7, <1>8

\* The native controller gives all replicas to the only ReplicaSet with pods.
LEMMA NativeScalesOne ==
  ASSUME dep \in Deployments, NEW R, Sound(R), NEW r \in DOMAIN R,
         \A x \in DOMAIN R \ {r} : R[x].size = 0,
         NEW T, T = [R EXCEPT ![r] = [R[r] EXCEPT !.size = dep.replicas, !.desired = dep.replicas,
                                                  !.max = dep.replicas]]
  PROVE  Sound(T) /\ T \in RolledFrom(R) /\ T \in TurnStates(R)
<1>. DEFINE n == dep.replicas
            y == [R[r] EXCEPT !.size = n, !.desired = n, !.max = n]
<1>1. /\ R \in [DOMAIN R -> ReplicaSets] /\ R[r] \in ReplicaSets
      /\ R[r].size \in Nat /\ R[r].avail \in Nat
  BY SoundFields DEF Sound
<1>2. n \in Sizes /\ n \in Nat /\ MaxSurge \in Nat /\ MinAvailable \in Nat /\ MinAvailable <= n
  BY DeploymentFields, BudgetBounds
<1>3. y \in ReplicaSets /\ y.size = n /\ y.avail = R[r].avail /\ y.born = R[r].born
  <2>1. n \in Counts
    BY <1>2 DEF Counts
  <2>. HIDE DEF n
  <2>. QED BY <1>1, <1>2, <2>1 DEF ReplicaSets
<1>4. T = [R EXCEPT ![r] = y]
  OBVIOUS
<1>. HIDE DEF y
<1>5. /\ DOMAIN T = DOMAIN R /\ T \in [DOMAIN R -> ReplicaSets]
      /\ T[r] = y /\ \A x \in DOMAIN R \ {r} : T[x] = R[x]
  BY <1>1, <1>3, <1>4
<1>6. Resized(R, T)
  BY <1>3, <1>5 DEF Resized
<1>7. Sound(T) /\ T \in AllStates
  <2>1. Sound(T)
    BY <1>6, ResizedSound
  <2>. QED BY <2>1 DEF Sound
<1>8. PartitionFrom(R, T)
  <2>1. CASE r = dep.template
    <3>1. Active(R) \subseteq {dep.template}
      BY <2>1 DEF Active
    <3>. QED BY <3>1 DEF PartitionFrom
  <2>2. CASE r # dep.template
    <3>1. NewSizeIn(T) = NewSizeIn(R)
      BY <1>5, <2>2 DEF NewSizeIn, HasNew
    <3>2. NewSizeIn(R) \in Nat
      BY SoundFields DEF NewSizeIn, HasNew
    <3>. QED BY <3>1, <3>2 DEF PartitionFrom
  <2>. QED BY <2>1, <2>2
<1>9. SurgeFrom(R, T)
  <2>1. {r} \in SUBSET DOMAIN T /\ {r} \in SUBSET {r}
    BY <1>5
  <2>2. SizeOf(T, DOMAIN T) = SizeOf(T, {r})
    <3>1. \A x \in DOMAIN T \ {r} : T[x].size = 0
      BY <1>5
    <3>2. DOMAIN T \in SUBSET DOMAIN T /\ {r} \in SUBSET DOMAIN T
      BY <2>1
    <3>. QED BY <1>7, <3>1, <3>2, SizeOfActive, ZenonT(40)
  <2>3. SizeOf(T, {r}) = T[r].size + SizeOf(T, {r} \ {r})
    BY <1>7, <2>1, SizeOfOne
  <2>4. SizeOf(T, {r} \ {r}) = 0
    <3>1. {r} \ {r} = {} /\ IsFiniteSet({})
      BY FS_EmptySet
    <3>. DEFINE f == [x \in {} |-> T[x].size]
    <3>2. \A x \in {} : f[x] = 0
      OBVIOUS
    <3>. HIDE DEF f
    <3>3. SumOver(f, {}) = 0
      BY <3>1, <3>2, SumOfZeros
    <3>. QED BY <3>1, <3>3 DEF SizeOf, f
  <2>5. SizeOf(T, DOMAIN T) = n
    BY <1>2, <1>3, <1>5, <2>2, <2>3, <2>4
  <2>. QED BY <1>2, <2>5 DEF SurgeFrom
<1>10. KeepsAvailable(R, T)
  <2>. DEFINE S == SurvivingIn(R, T)
              S0 == SurvivingIn(R, R)
  <2>1. Resized(R, R) /\ DOMAIN R = DOMAIN T
    BY <1>5, SameResized
  <2>2. \A x \in DOMAIN R \ {r} : R[x].size <= T[x].size
    BY <1>5
  <2>3. CASE R[r].avail <= n
    <3>1. \A x \in DOMAIN R : R[x].avail <= T[x].size \/ R[x].size <= T[x].size
      BY <1>3, <1>5, <2>2, <2>3
    <3>2. S0 \in Nat /\ S \in Nat /\ S0 <= S
      BY <1>6, <2>1, <3>1, SurvivingKept
    <3>. QED BY <1>2, <3>2 DEF KeepsAvailable, Below
  <2>4. CASE ~(R[r].avail <= n)
    <3>1. S0 \in Nat /\ S \in Nat
      <4>. DEFINE t == [x \in DOMAIN R |-> R[x].size]
      <4>1. \A x \in DOMAIN R : R[x].size \in Nat /\ T[x].size \in Nat
        BY <1>7, <2>1, SoundFields
      <4>2. \A x \in DOMAIN R : t[x] \in Nat /\ R[x].size <= T[x].size + t[x]
        BY <4>1
      <4>. HIDE DEF t
      <4>. QED BY <1>6, <2>1, <4>2, SurvivingCompared
    <3>. DEFINE g == [x \in DOMAIN R |-> Below(R[x].avail, T[x].size)]
    <3>2. \A x \in DOMAIN R \ {r} : g[x] = 0
      <4>1. \A x \in DOMAIN R \ {r} : R[x].avail \in Nat /\ T[x].size = 0
        BY <1>5, SoundFields
      <4>. QED BY <4>1 DEF Below
    <3>3. g[r] = n
      BY <1>1, <1>2, <1>3, <1>5, <2>4 DEF Below
    <3>4. S = SumOver(g, DOMAIN R) /\ IsFiniteSet(DOMAIN R)
      BY DEF SurvivingIn, Sound
    <3>. HIDE DEF g
    <3>5. SumOver(g, DOMAIN R) = g[r]
      BY <1>2, <3>2, <3>3, <3>4, SumOfOne
    <3>6. S = n
      BY <3>3, <3>4, <3>5
    <3>. QED BY <1>2, <3>1, <3>6 DEF KeepsAvailable, Below
  <2>. QED BY <2>3, <2>4
<1>11. T \in TurnStates(R)
  <2>1. SUFFICES ASSUME NEW s \in DOMAIN R, NEW m \in DOMAIN R,
                        R[s].rev < R[m].rev, T[s].size < Below(R[s].size, R[s].avail)
                 PROVE  T[m].size = 0
    BY <1>7 DEF TurnStates, InTurn
  <2>2. R[s].size \in Nat /\ R[s].avail \in Nat /\ R[s].rev \in Nat
    BY SoundFields
  <2>3. s = r
    BY <1>5, <2>1, <2>2 DEF Below
  <2>4. m # r
    BY <2>1, <2>2, <2>3
  <2>. QED BY <1>5, <2>4
<1>. QED BY <1>5, <1>7, <1>8, <1>9, <1>10, <1>11 DEF RolledFrom

\* The native controller takes the pods of the old ReplicaSets when the new one
\* has all of its own.
LEMMA NativeSaturated ==
  ASSUME dep \in Deployments, NEW R, Sound(R), IsSaturated(R),
         NEW T, T = [r \in DOMAIN R |-> IF r = dep.template THEN R[r]
                                        ELSE [R[r] EXCEPT !.size = 0]]
  PROVE  Sound(T) /\ T \in RolledFrom(R) /\ T \in TurnStates(R)
<1>. DEFINE n == dep.replicas
            w == dep.template
<1>1. w \in DOMAIN R /\ R[w].size = n /\ R[w].avail = n
  <2>1. {R[w].size, R[w].desired, R[w].avail} = {n}
    BY DEF IsSaturated
  <2>. QED BY <2>1 DEF IsSaturated, HasNew
<1>2. n \in Nat /\ MinAvailable \in Nat /\ MinAvailable <= n
  BY DeploymentFields, BudgetBounds
<1>3. ASSUME NEW r \in DOMAIN R
      PROVE  /\ T[r] \in ReplicaSets /\ T[r].avail = R[r].avail /\ T[r].born = R[r].born
             /\ T[r].size \in Nat /\ R[r].size \in Nat /\ T[r].size <= R[r].size
             /\ r = w => T[r] = R[r]
  <2>1. R[r] \in ReplicaSets /\ R[r].size \in Nat
    BY SoundFields
  <2>. DEFINE y == [R[r] EXCEPT !.size = 0]
  <2>2. y \in ReplicaSets /\ y.size = 0 /\ y.avail = R[r].avail /\ y.born = R[r].born
    BY <2>1 DEF ReplicaSets, Counts
  <2>3. T[r] = IF r = w THEN R[r] ELSE y
    OBVIOUS
  <2>. HIDE DEF y
  <2>. QED BY <2>1, <2>2, <2>3
<1>4. DOMAIN T = DOMAIN R
  OBVIOUS
<1>5. T \in [DOMAIN R -> ReplicaSets]
  BY <1>3
<1>6. Resized(R, T)
  BY <1>3, <1>4, <1>5 DEF Resized
<1>7. Sound(T) /\ T \in AllStates
  BY <1>6, ResizedSound DEF Sound
<1>8. PartitionFrom(R, T)
  <2>1. NewSizeIn(T) = n /\ NewSizeIn(R) = n
    BY <1>1, <1>3, <1>4 DEF NewSizeIn, HasNew
  <2>. QED BY <1>2, <2>1 DEF PartitionFrom
<1>9. SurgeFrom(R, T)
  <2>1. SizeOf(T, DOMAIN R) <= SizeOf(R, DOMAIN R)
    <3>1. \A r \in DOMAIN R : T[r].size <= R[r].size
      BY <1>3
    <3>2. DOMAIN R \in SUBSET DOMAIN T /\ DOMAIN R \in SUBSET DOMAIN R
      BY <1>4
    <3>. QED BY <1>7, <3>1, <3>2, SizesCompared
  <2>2. SizeOf(T, DOMAIN T) \in Nat /\ SizeOf(R, DOMAIN R) \in Nat
    BY <1>7, TotalsAreNat
  <2>. QED BY <1>4, <2>1, <2>2 DEF SurgeFrom
<1>10. KeepsAvailable(R, T)
  <2>1. Available(R, {w}) <= SurvivingIn(R, T)
    <3>1. {w} \in SUBSET DOMAIN R /\ \A r \in {w} : R[r].avail <= T[r].size
      BY <1>1, <1>2, <1>3
    <3>. QED BY <1>6, <3>1, SurvivingAtLeast
  <2>2. Available(R, {w}) = n
    <3>. DEFINE f == [r \in {w} |-> R[r].avail]
    <3>1. IsFiniteSet({w}) /\ w \in {w} /\ f[w] = n /\ \A r \in {w} \ {w} : f[r] = 0
      BY <1>1, FS_Singleton
    <3>. HIDE DEF f
    <3>2. SumOver(f, {w}) = f[w]
      BY <1>2, <3>1, SumOfOne
    <3>. QED BY <3>1, <3>2 DEF Available, f
  <2>3. SurvivingIn(R, R) \in Nat /\ SurvivingIn(R, T) \in Nat
    <3>2. \A r \in DOMAIN R : R[r].avail <= R[r].size \/ T[r].size <= R[r].size
      BY <1>3
    <3>. QED BY <1>6, <3>2, SameResized, SurvivingKept
  <2>. QED BY <1>2, <2>1, <2>2, <2>3 DEF KeepsAvailable, Below
<1>11. T \in TurnStates(R)
  <2>1. \A m \in DOMAIN R \ {w} : T[m].size = 0
    <3>1. \A m \in DOMAIN R : R[m] \in ReplicaSets
      BY SoundFields
    <3>. QED BY <3>1 DEF ReplicaSets
  <2>. QED BY <1>7, <2>1 DEF TurnStates, InTurn
<1>. QED BY <1>4, <1>7, <1>8, <1>9, <1>10, <1>11 DEF RolledFrom

-----------------------------------------------------------------------------
(* The specification.                                                       *)

\* Every ReplicaSet has its place in the order of creation: without it, the
\* orders in which a round writes would not exist, and its states have no type.
IInv == TypeOK /\ Sound(rs)

\* The Deployment with one field changed.
LEMMA DeploymentChanged ==
  ASSUME dep \in Deployments
  PROVE  /\ \A p \in Partitions : [dep EXCEPT !.part = p] \in Deployments
         /\ \A r \in Revisions : [dep EXCEPT !.template = r, !.paused = TRUE] \in Deployments
         /\ \A n \in Sizes : [dep EXCEPT !.replicas = n] \in Deployments
         /\ [dep EXCEPT !.claimed = FALSE] \in Deployments
         /\ [dep EXCEPT !.claimed = FALSE, !.paused = FALSE, !.native = TRUE] \in Deployments
         /\ [dep EXCEPT !.claimed = TRUE, !.paused = FALSE, !.part = Int32(0)] \in Deployments
         /\ [dep EXCEPT !.native = @ \/ UnderControl] \in Deployments
<1>1. TRUE \in Flags /\ FALSE \in Flags /\ Int32(0) \in Partitions
  BY PartitionsAssumption DEF Flags
<1>2. \A p \in Partitions : [dep EXCEPT !.part = p] \in Deployments
  BY DEF Deployments
<1>3. \A r \in Revisions : [dep EXCEPT !.template = r, !.paused = TRUE] \in Deployments
  BY <1>1 DEF Deployments
<1>4. \A n \in Sizes : [dep EXCEPT !.replicas = n] \in Deployments
  BY DEF Deployments
<1>5. [dep EXCEPT !.claimed = FALSE] \in Deployments
  BY <1>1 DEF Deployments
<1>6. [dep EXCEPT !.claimed = FALSE, !.paused = FALSE, !.native = TRUE] \in Deployments
  BY <1>1 DEF Deployments
<1>7. [dep EXCEPT !.claimed = TRUE, !.paused = FALSE, !.part = Int32(0)] \in Deployments
  BY <1>1 DEF Deployments
<1>8. [dep EXCEPT !.native = @ \/ UnderControl] \in Deployments
  <2>1. (dep.native \/ UnderControl) \in Flags
    BY DEF Flags
  <2>. DEFINE b == dep.native \/ UnderControl
  <2>2. [dep EXCEPT !.native = @ \/ UnderControl] = [dep EXCEPT !.native = b]
    BY DEF Deployments
  <2>. HIDE DEF b
  <2>3. b \in Flags
    BY <2>1 DEF b
  <2>. QED BY <2>2, <2>3 DEF Deployments
<1>. QED BY <1>2, <1>3, <1>4, <1>5, <1>6, <1>7, <1>8

\* The ReplicaSet controller changes the available pods of one ReplicaSet.
LEMMA PodsChanged ==
  ASSUME NEW R, Sound(R), NEW r \in DOMAIN R, NEW n \in Nat
  PROVE  LET T == [R EXCEPT ![r].avail = n] IN
           Sound(T) /\ DOMAIN T = DOMAIN R /\ T[r].avail = n
<1>. DEFINE y == [R[r] EXCEPT !.avail = n]
            T == [R EXCEPT ![r].avail = n]
<1>1. R \in [DOMAIN R -> ReplicaSets] /\ R[r] \in ReplicaSets /\ DOMAIN R \subseteq Revisions
  BY SoundFields DEF Sound
<1>2. y \in ReplicaSets /\ y.avail = n /\ y.born = R[r].born
  BY <1>1 DEF ReplicaSets, Counts
<1>3. T = [R EXCEPT ![r] = y]
  OBVIOUS
<1>. HIDE DEF y, T
<1>4. /\ DOMAIN T = DOMAIN R /\ T \in [DOMAIN R -> ReplicaSets] /\ T[r] = y
      /\ \A x \in DOMAIN R : T[x].born = R[x].born
  BY <1>1, <1>2, <1>3
<1>5. T \in AllStates
  BY <1>1, <1>4 DEF AllStates
<1>6. Sound(T)
  BY <1>4, <1>5 DEF Sound
<1>. QED BY <1>2, <1>4, <1>6 DEF T

\* Initially there is the stable ReplicaSet.
LEMMA InitSound == Init => IInv
<1>. SUFFICES ASSUME Init PROVE IInv
  OBVIOUS
<1>. DEFINE w == CHOOSE r \in Revisions : r # Stable
<1>1. Stable \in Revisions /\ w \in Revisions
  <2>1. PICK r, s \in Revisions : r # s
    BY TwoRevisionsAssumption
  <2>2. Stable \in Revisions
    BY <2>1 DEF Stable
  <2>3. \E x \in Revisions : x # Stable
    BY <2>1
  <2>. QED BY <2>2, <2>3
<1>. HIDE DEF w
<1>2. PICK n \in Sizes, b \in Budgets :
        /\ dep = [template |-> w, replicas |-> n,
                  part |-> Int32(0), budget |-> b, claimed |-> TRUE, paused |-> FALSE,
                  native |-> FALSE]
        /\ rs = [r \in {Stable} |-> [size |-> n, avail |-> n, desired |-> n,
                                     max |-> n + Scaled(b.surge, n, TRUE), rev |-> 1, born |-> 1]]
        /\ guarded = TRUE /\ queued = TRUE /\ ops = 0
  BY DEF Init, w
<1>3. dep \in Deployments
  BY <1>1, <1>2, PartitionsAssumption DEF Deployments, Flags
<1>4. n \in Nat /\ n + Scaled(b.surge, n, TRUE) \in Counts
  <2>1. n \in Nat /\ b.surge \in Knobs
    BY SizesAssumption, BudgetAssumption DEF Counts
  <2>. DEFINE s == Scaled(b.surge, n, TRUE)
  <2>2. s \in Nat
    BY <2>1, ScaledIsNat
  <2>. HIDE DEF s
  <2>3. n + s \in Nat
    BY <2>1, <2>2
  <2>. QED BY <2>1, <2>3 DEF Counts, s
<1>. DEFINE m == n + Scaled(b.surge, n, TRUE)
            x == [size |-> n, avail |-> n, desired |-> n, max |-> m, rev |-> 1, born |-> 1]
<1>5. x \in ReplicaSets /\ x.born = 1
  <2>. HIDE DEF m
  <2>1. m \in Counts /\ n \in Counts /\ 1 \in Counts
    BY <1>4 DEF Counts, m
  <2>. QED BY <2>1 DEF ReplicaSets
<1>6. rs = [r \in {Stable} |-> x]
  BY <1>2
<1>. HIDE DEF x
<1>7. DOMAIN rs = {Stable} /\ rs \in [{Stable} -> ReplicaSets] /\ rs[Stable].born = 1
  BY <1>5, <1>6
<1>8. Sound(rs)
  <2>1. rs \in AllStates
    BY <1>1, <1>7 DEF AllStates
  <2>2. IsFiniteSet(DOMAIN rs) /\ Cardinality(DOMAIN rs) = 1
    BY <1>7, FS_Singleton
  <2>. QED BY <1>1, <1>7, <2>1, <2>2 DEF Sound
<1>9. TypeOK
  <2>1. DOMAIN rs \subseteq Revisions /\ rs \in [DOMAIN rs -> ReplicaSets]
    BY <1>8 DEF Sound
  <2>2. guarded \in Flags /\ queued \in Flags
    BY <1>2 DEF Flags
  <2>3. ops \in 0..MaxOps
    BY <1>2, MaxOpsAssumption DEF Counts
  <2>. QED BY <1>3, <2>1, <2>2, <2>3 DEF TypeOK
<1>. QED BY <1>8, <1>9 DEF IInv

\* What TypeOK says of the next state, from its parts.
LEMMA TypeNext ==
  ASSUME dep' \in Deployments, Sound(rs)', guarded' \in Flags, queued' \in Flags, ops' \in 0..MaxOps
  PROVE  IInv'
<1>1. DOMAIN rs' \subseteq Revisions /\ rs' \in [DOMAIN rs' -> ReplicaSets]
  BY DEF Sound
<1>. QED BY <1>1 DEF IInv, TypeOK

\* A round, whole or cut off, and the native controller: the ReplicaSets stay
\* sound, and what is written while rolling is what a round that rolls may write.
LEMMA WritesSound ==
  ASSUME IInv, Reconcile \/ ReconcileFails \/ NativeSync
  PROVE  /\ Sound(rs') /\ dep' = dep
         /\ ~dep.paused /\ ~IsScalingEvent(rs) => rs' \in RolledFrom(rs) /\ rs' \in TurnStates(rs)
<1>1. dep \in Deployments /\ Sound(rs)
  BY DEF IInv, TypeOK
<1>2. CASE Reconcile
  <2>1. dep' = dep /\ \E h \in {SyncDeployment} : rs' = Last(h)
    BY <1>2 DEF Reconcile
  <2>. QED BY <1>1, <2>1, RoundWrites
<1>3. CASE ReconcileFails
  <2>1. dep' = dep /\ \E h \in {SyncDeployment} : \E i \in 1..(Len(h) - 1) : rs' = h[i]
    BY <1>3 DEF ReconcileFails
  <2>. QED BY <1>1, <2>1, RoundWrites
<1>4. CASE NativeSync
  <2>. DEFINE only == ActiveOrLatest(rs)
              all(r) == [rs[r] EXCEPT !.size = dep.replicas, !.desired = dep.replicas,
                                      !.max = dep.replicas]
  <2>1. \/ \E r \in only : rs[r].size # dep.replicas /\ rs' = [rs EXCEPT ![r] = all(r)]
        \/ /\ only = {} /\ IsSaturated(rs)
           /\ rs' = [r \in DOMAIN rs |-> IF r = dep.template THEN rs[r]
                                         ELSE [rs[r] EXCEPT !.size = 0]]
    BY <1>4 DEF NativeSync
  <2>2. dep' = dep
    BY <1>4 DEF NativeSync
  <2>3. ASSUME NEW r \in only, rs' = [rs EXCEPT ![r] = all(r)]
        PROVE  Sound(rs') /\ rs' \in RolledFrom(rs) /\ rs' \in TurnStates(rs)
    <3>1. r \in DOMAIN rs /\ \A x \in DOMAIN rs \ {r} : rs[x].size = 0
      BY <1>1, OnlyOneActive
    <3>. QED BY <1>1, <2>3, <3>1, NativeScalesOne
  <2>4. ASSUME IsSaturated(rs),
               rs' = [r \in DOMAIN rs |-> IF r = dep.template THEN rs[r]
                                          ELSE [rs[r] EXCEPT !.size = 0]]
        PROVE  Sound(rs') /\ rs' \in RolledFrom(rs) /\ rs' \in TurnStates(rs)
    BY <1>1, <2>4, NativeSaturated
  <2>5. Sound(rs') /\ rs' \in RolledFrom(rs) /\ rs' \in TurnStates(rs)
    BY <2>1, <2>3, <2>4
  <2>. QED BY <2>2, <2>5
<1>. QED BY <1>2, <1>3, <1>4

\* The pods of a ReplicaSet become available or go.
LEMMA PodsSound ==
  ASSUME IInv, PodAvailable \/ PodGone \/ PodFails
  PROVE  Sound(rs') /\ \E r \in DOMAIN rs : rs'[r].avail # rs[r].avail
<1>1. Sound(rs)
  BY DEF IInv
<1>2. PICK r \in DOMAIN rs :
        \/ rs' = [rs EXCEPT ![r].avail = @ + 1]
        \/ rs[r].avail > rs[r].size /\ rs' = [rs EXCEPT ![r].avail = @ - 1]
        \/ rs[r].avail > 0 /\ rs' = [rs EXCEPT ![r].avail = @ - 1]
  BY DEF PodAvailable, PodGone, PodFails
<1>. DEFINE a == rs[r].avail
<1>3. a \in Nat /\ rs[r].size \in Nat
  BY <1>1, SoundFields
<1>4. \E n \in Nat : n # a /\ rs' = [rs EXCEPT ![r].avail = n]
  <2>1. CASE rs' = [rs EXCEPT ![r].avail = @ + 1]
    <3>1. a + 1 \in Nat /\ a + 1 # a /\ rs' = [rs EXCEPT ![r].avail = a + 1]
      BY <1>3, <2>1
    <3>. HIDE DEF a
    <3>. QED BY <3>1
  <2>2. CASE a > 0 /\ rs' = [rs EXCEPT ![r].avail = @ - 1]
    <3>1. a - 1 \in Nat /\ a - 1 # a /\ rs' = [rs EXCEPT ![r].avail = a - 1]
      BY <1>3, <2>2
    <3>. HIDE DEF a
    <3>. QED BY <3>1
  <2>3. a > rs[r].size => a > 0
    BY <1>3
  <2>. QED BY <1>2, <2>1, <2>2, <2>3
<1>5. PICK n \in Nat : n # a /\ rs' = [rs EXCEPT ![r].avail = n]
  BY <1>4
<1>. DEFINE T == [rs EXCEPT ![r].avail = n]
<1>6. Sound(T) /\ T[r].avail = n
  BY <1>1, PodsChanged
<1>7. rs' = T
  BY <1>5
<1>. HIDE DEF T
<1>. QED BY <1>5, <1>6, <1>7

\* One step per action.
LEMMA NextSound == IInv /\ [Next]_vars => IInv'
<1>. SUFFICES ASSUME IInv, [Next]_vars PROVE IInv'
  OBVIOUS
<1>1. /\ dep \in Deployments /\ Sound(rs) /\ guarded \in Flags /\ queued \in Flags
      /\ ops \in 0..MaxOps /\ MaxOps \in Nat
  BY MaxOpsAssumption DEF IInv, TypeOK, Counts
<1>2. Bounded => ops' \in 0..MaxOps
  BY <1>1 DEF Bounded
<1>3. TRUE \in Flags /\ FALSE \in Flags
  BY DEF Flags
<1>4. CASE Reconcile
  <2>1. Sound(rs')
    BY <1>4, WritesSound
  <2>2. dep' = dep /\ guarded' = guarded /\ ops' = ops /\ queued' \in Flags
    BY <1>4 DEF Reconcile, Flags
  <2>. QED BY <1>1, <2>1, <2>2, TypeNext
<1>5. CASE ReconcileFails
  <2>1. Sound(rs')
    BY <1>5, WritesSound
  <2>2. dep' = dep /\ guarded' = guarded /\ Bounded /\ queued' = queued
    BY <1>5 DEF ReconcileFails
  <2>. QED BY <1>1, <1>2, <2>1, <2>2, TypeNext
<1>6. CASE ReconcileUnguarded
  <2>1. /\ dep' = [dep EXCEPT !.native = @ \/ UnderControl] /\ queued' = FALSE
        /\ rs' = rs /\ guarded' = guarded /\ ops' = ops
    BY <1>6 DEF ReconcileUnguarded
  <2>2. dep' \in Deployments
    BY <1>1, <2>1, DeploymentChanged
  <2>. QED BY <1>1, <1>3, <2>1, <2>2, TypeNext
<1>7. CASE RaisePartition
  <2>1. PICK p \in Partitions : dep' = [dep EXCEPT !.part = p] /\ queued' = TRUE
    BY <1>7 DEF RaisePartition, Event
  <2>2. dep' \in Deployments
    BY <1>1, <2>1, DeploymentChanged
  <2>3. rs' = rs /\ guarded' = guarded /\ ops' = ops
    BY <1>7 DEF RaisePartition
  <2>. QED BY <1>1, <1>3, <2>1, <2>2, <2>3, TypeNext
<1>8. CASE ChangeTemplate
  <2>1. PICK r \in Revisions : dep' = [dep EXCEPT !.template = r, !.paused = TRUE] /\ queued' = TRUE
    BY <1>8 DEF ChangeTemplate, Event
  <2>2. dep' \in Deployments
    BY <1>1, <2>1, DeploymentChanged
  <2>3. rs' = rs /\ guarded' = guarded /\ Bounded
    BY <1>8 DEF ChangeTemplate
  <2>. QED BY <1>1, <1>2, <1>3, <2>1, <2>2, <2>3, TypeNext
<1>9. CASE Abandon
  <2>1. /\ dep' = [dep EXCEPT !.claimed = FALSE]
        /\ rs' = rs /\ guarded' = guarded /\ queued' = queued /\ ops' = ops
    BY <1>9 DEF Abandon
  <2>2. dep' \in Deployments
    BY <1>1, <2>1, DeploymentChanged
  <2>. QED BY <1>1, <2>1, <2>2, TypeNext
<1>10. CASE Claim
  <2>1. /\ dep' = [dep EXCEPT !.claimed = TRUE, !.paused = FALSE, !.part = Int32(0)]
        /\ queued' = TRUE /\ rs' = rs /\ guarded' = guarded /\ ops' = ops
    BY <1>10 DEF Claim, Event
  <2>2. dep' \in Deployments
    BY <1>1, <2>1, DeploymentChanged
  <2>. QED BY <1>1, <1>3, <2>1, <2>2, TypeNext
<1>11. CASE Finish
  <2>1. /\ dep' = [dep EXCEPT !.claimed = FALSE, !.paused = FALSE, !.native = TRUE]
        /\ rs' = rs /\ guarded' = guarded /\ queued' = queued /\ ops' = ops
    BY <1>11 DEF Finish
  <2>2. dep' \in Deployments
    BY <1>1, <2>1, DeploymentChanged
  <2>. QED BY <1>1, <2>1, <2>2, TypeNext
<1>12. CASE Scale
  <2>1. PICK n \in Sizes : dep' = [dep EXCEPT !.replicas = n] /\ queued' = TRUE
    BY <1>12 DEF Scale, Event
  <2>2. dep' \in Deployments
    BY <1>1, <2>1, DeploymentChanged
  <2>3. rs' = rs /\ guarded' = guarded /\ Bounded
    BY <1>12 DEF Scale
  <2>. QED BY <1>1, <1>2, <1>3, <2>1, <2>2, <2>3, TypeNext
<1>13. CASE WebhookDeleted
  <2>1. guarded' = FALSE /\ queued' \in Flags /\ dep' = dep /\ rs' = rs /\ Bounded
    BY <1>13 DEF WebhookDeleted, Flags
  <2>. QED BY <1>1, <1>2, <1>3, <2>1, TypeNext
<1>14. CASE PodAvailable \/ PodGone \/ PodFails
  <2>1. Sound(rs')
    BY <1>14, PodsSound
  <2>2. dep' = dep /\ guarded' = guarded /\ queued' = TRUE /\ (ops' = ops \/ Bounded)
    BY <1>14 DEF PodAvailable, PodGone, PodFails
  <2>. QED BY <1>1, <1>2, <1>3, <2>1, <2>2, TypeNext
<1>15. CASE NativeSync
  <2>1. Sound(rs')
    BY <1>15, WritesSound
  <2>2. dep' = dep /\ guarded' = guarded /\ ops' = ops /\ queued' = TRUE
    BY <1>15 DEF NativeSync
  <2>. QED BY <1>1, <1>3, <2>1, <2>2, TypeNext
<1>16. CASE UNCHANGED vars
  BY <1>1, <1>16, TypeNext DEF vars
<1>. QED
  BY <1>4, <1>5, <1>6, <1>7, <1>8, <1>9, <1>10, <1>11, <1>12, <1>13, <1>14, <1>15, <1>16
  DEF Next, Controller, Release, Cluster

\* A step that rolls is a round, whole or cut off, or the native controller.
LEMMA RollsOnly ==
  ASSUME IInv, [Next]_vars, Rolls
  PROVE  rs' \in RolledFrom(rs) /\ rs' \in TurnStates(rs)
<1>1. /\ rs' # rs /\ dep' = dep /\ \A r \in DOMAIN rs : rs'[r].avail = rs[r].avail
      /\ ~dep.paused /\ ~IsScalingEvent(rs)
  BY DEF Rolls, Written
<1>2. ~(PodAvailable \/ PodGone \/ PodFails)
  BY <1>1, PodsSound
<1>3. Reconcile \/ ReconcileFails \/ NativeSync
  BY <1>1, <1>2 DEF Next, Controller, Release, Cluster, vars, ReconcileUnguarded, RaisePartition,
     ChangeTemplate, Abandon, Claim, Finish, Scale, WebhookDeleted
<1>. QED BY <1>1, <1>3, WritesSound

\* The Deployment, its ReplicaSets and their annotations have their types in
\* every reachable state; in particular getReplicaSetFraction never divides by a
\* max-replicas annotation that is zero.
THEOREM TypeCorrect == Spec => []TypeOK
<1>1. IInv => TypeOK
  BY DEF IInv
<1>. QED BY <1>1, InitSound, NextSound, PTL DEF Spec

\* No round that rolls, whole or cut off after any of its writes, and no write of
\* the native controller in between takes the new ReplicaSet beyond the partition
\* while another one has pods.
THEOREM PartitionRespected == Spec => PartitionHolds
<1>1. ASSUME IInv, [Next]_vars
      PROVE  Rolls /\ NewNext > New
               => \/ NewNext <= Above(Limit, NewRSReplicasLowerBound)
                  \/ Active(rs) \subseteq {dep.template}
  <2>1. Rolls => PartitionFrom(rs, rs')
    BY <1>1, RollsOnly DEF RolledFrom
  <2>. QED BY <2>1 DEF PartitionFrom, NewSizeIn, New, NewNext
<1>. QED BY <1>1, InitSound, NextSound, PTL DEF Spec, PartitionHolds

\* The same rounds create no pods beyond maxSurge, but for the first pod of a new
\* ReplicaSet.
THEOREM SurgeRespected == Spec => SurgeHolds
<1>1. ASSUME IInv, [Next]_vars
      PROVE  Rolls /\ SizeOf(rs', DOMAIN rs') > SizeOf(rs, DOMAIN rs)
               => \/ SizeOf(rs', DOMAIN rs') <= dep.replicas + MaxSurge
                  \/ ~HasNew(rs) /\ NewNext = 1
  <2>1. Rolls => SurgeFrom(rs, rs')
    BY <1>1, RollsOnly DEF RolledFrom
  <2>. QED BY <2>1 DEF SurgeFrom, NewSizeIn, NewNext
<1>. QED BY <1>1, InitSound, NextSound, PTL DEF Spec, SurgeHolds

\* The same rounds take no more available pods than maxUnavailable allows, if the
\* statuses are current or only that of a single old ReplicaSet is not.
THEOREM AvailabilityRespected == Spec => AvailabilityKept
<1>1. ASSUME IInv, [Next]_vars
      PROVE  Rolls /\ (Current \/ (Fresh /\ Cardinality(Active(rs) \ {dep.template}) <= 1))
               => Surviving(rs') >= Below(MinAvailable, Surviving(rs))
  <2>1. Rolls => KeepsAvailable(rs, rs')
    BY <1>1, RollsOnly DEF RolledFrom
  <2>2. Current \/ (Fresh /\ Cardinality(Active(rs) \ {dep.template}) <= 1) => Calm(rs)
    BY DEF Current, Fresh, Calm, HasNew, Active
  <2>3. Surviving(rs') = SurvivingIn(rs, rs') /\ Surviving(rs) = SurvivingIn(rs, rs)
    BY DEF Surviving, SurvivingIn
  <2>. QED BY <2>1, <2>2, <2>3 DEF KeepsAvailable
<1>. QED BY <1>1, InitSound, NextSound, PTL DEF Spec, AvailabilityKept

\* The same rounds scale down the middle revisions before the stable one, as long
\* as no more than two old ReplicaSets have pods.
THEOREM MiddleGoesFirst == Spec => MiddleFirst
<1>1. ASSUME IInv, [Next]_vars
      PROVE  Rolls /\ Cardinality(Active(rs) \ {dep.template}) <= 2 => InOrder
  <2>1. Rolls => InTurn(rs, rs')
    BY <1>1, RollsOnly DEF TurnStates
  <2>. QED BY <2>1 DEF InTurn, InOrder
<1>. QED BY <1>1, InitSound, NextSound, PTL DEF Spec, MiddleFirst
=============================================================================
