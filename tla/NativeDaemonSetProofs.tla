----------------------- MODULE NativeDaemonSetProofs -----------------------
(***************************************************************************)
(* Proofs about NativeDaemonSet, for every finite set of nodes, every      *)
(* maxUnavailable and any number of faults.                                *)
(***************************************************************************)
EXTENDS NativeDaemonSet, FiniteSetTheorems, TLAPS

\* The pod the cache shows was asked to go, or is gone, or has a successor.
Departing(n) == pods[n].dying \/ ~pods[n].up \/ pods[n].uid # cache[n].uid

\* Whatever the cache does not show yet is expected, short of a timeout.
Remembered ==
  \A n \in Nodes :
    cache[n].up /\ ~cache[n].dying /\ Departing(n)
      => <<n, cache[n].uid>> \in expect \/ "timeout" \in slips

\* Only the pod the cache knows is ever deleted; as long as the uid is the
\* same, it is the pod the cache shows.
SamePod ==
  \A n \in Nodes :
    /\ pods[n].dying => pods[n].up /\ pods[n].uid = cache[n].uid
    /\ pods[n].up /\ cache[n].up /\ pods[n].uid = cache[n].uid
         => pods[n].rev = cache[n].rev /\ (cache[n].dying => pods[n].dying)
    /\ ~pods[n].up => ~pods[n].ready

\* The inductive invariant.
CacheInv == TypeOK /\ Remembered /\ SamePod

-----------------------------------------------------------------------------
(* Types.                                                                  *)

\* The nodes are finitely many; no partition is beyond every one of them.
LEMMA CountNodes == N \in Nat /\ NoPartition = N + 1 /\ NoPartition \notin 0..(N - 1)
BY NodesAssumption, FS_CardinalityType DEF N, NoPartition

\* The initial states have the types.
LEMMA InitTypes == Init => TypeOK
<1> SUFFICES ASSUME Init PROVE TypeOK
  OBVIOUS
<1>1. Stable \in Revisions
  BY TwoRevisions DEF Stable
<1>2. (CHOOSE r \in Revisions : r # Stable) \in Revisions
  BY TwoRevisions
<1>3. QED
  BY <1>1, <1>2, CountNodes DEF Init, TypeOK, Pods

\* A deletion sets timestamps only.
LEMMA DeletePodsType ==
  ASSUME TypeOK, NEW S \in SUBSET Nodes, DeletePods(S)
  PROVE  /\ pods' \in [Nodes -> Pods]
         /\ expect' \subseteq Nodes \X {0, 1}
         /\ \A n \in Nodes : pods'[n] = [pods[n] EXCEPT !.dying = @ \/ n \in Reached(S)]
BY SMTT(20) DEF TypeOK, DeletePods, Reached, Pods

-----------------------------------------------------------------------------
(* Arithmetic of the walk that sets the quota.                             *)

\* Max is the greatest element: there is one.
LEMMA MaxOfBounded ==
  ASSUME NEW L \in Nat, NEW A \in SUBSET (0..L), A # {}
  PROVE  Max(A) \in A /\ \A y \in A : y <= Max(A)
<1> DEFINE D == {L - k : k \in A}
<1>0. \A k \in A : k \in Nat /\ k <= L
  OBVIOUS
<1>1. D # {} /\ D \subseteq Nat
  <2>1. \A k \in A : L - k \in Nat
    BY <1>0
  <2>2. QED
    BY <2>1
<1>2. PICK d \in D : \A e \in D : ~(<<e, d>> \in OpToRel(<, Nat))
  BY <1>1, WFMin, NatLessThanWellFounded
<1>3. \A e \in D : ~(e < d)
  BY <1>1, <1>2 DEF OpToRel
<1>4. PICK m \in A : d = L - m
  OBVIOUS
<1>5. \A y \in A : m >= y
  <2> SUFFICES ASSUME NEW y \in A PROVE m >= y
    OBVIOUS
  <2>1. ~(L - y < L - m)
    BY <1>3, <1>4
  <2>2. QED
    BY <2>1, <1>0
<1>6. QED
  BY <1>4, <1>5 DEF Max

\* What SortPodsForDeletion returns is a sequence of those pods.
LEMMA OrderIsSequence ==
  ASSUME TypeOK, NEW S \in SUBSET Nodes, NEW order \in Orders(S)
  PROVE  /\ Cardinality(S) \in Nat /\ IsFiniteSet(S)
         /\ order \in [1..Cardinality(S) -> S]
         /\ order \in Seq(S) /\ Len(order) = Cardinality(S)
<1>1. Cardinality(S) \in Nat /\ IsFiniteSet(S)
  BY NodesAssumption, FS_Subset, FS_CardinalityType
<1>2. order \in [1..Cardinality(S) -> S]
  BY DEF Orders
<1>3. QED
  BY <1>1, <1>2

\* Of the first i pods of the list at most i are counted.
LEMMA CountedBound ==
  ASSUME NEW order, NEW i \in Nat
  PROVE  Counted(order, i) \in 0..i
<1> DEFINE C == {j \in 1..i : ~cache[order[j]].dying}
<1>1. IsFiniteSet(1..i) /\ Cardinality(1..i) = i
  BY FS_Interval
<1>2. IsFiniteSet(C) /\ Cardinality(C) <= i
  BY <1>1, FS_Subset
<1>3. Cardinality(C) \in Nat
  BY <1>2, FS_CardinalityType
<1>4. QED
  BY <1>2, <1>3 DEF Counted

\* The next pod adds one at most.
LEMMA CountedStep ==
  ASSUME NEW order, NEW i \in Nat \ {0}
  PROVE  Counted(order, i) <= Counted(order, i - 1) + 1
<1> DEFINE C == {j \in 1..i : ~cache[order[j]].dying}
           B == {j \in 1..(i - 1) : ~cache[order[j]].dying}
<1>1. IsFiniteSet(1..(i - 1))
  BY FS_Interval
<1>2. IsFiniteSet(B)
  BY <1>1, FS_Subset
<1>3. IsFiniteSet(B \cup {i}) /\ Cardinality(B \cup {i}) <= Cardinality(B) + 1
  <2> HIDE DEF B
  <2>1. Cardinality(B) \in Nat
    BY <1>2, FS_CardinalityType
  <2>2. QED
    BY <1>2, <2>1, FS_AddElement
<1>4. C \subseteq B \cup {i}
  OBVIOUS
<1>5. Cardinality(C) <= Cardinality(B \cup {i})
  BY <1>3, <1>4, FS_Subset
<1>6. Cardinality(B) \in Nat /\ Cardinality(C) \in Nat /\ Cardinality(B \cup {i}) \in Nat
  BY <1>2, <1>3, <1>4, FS_Subset, FS_CardinalityType
<1>7. QED
  BY <1>3, <1>5, <1>6 DEF Counted

\* The walk stops somewhere, and did not break before.
LEMMA QuotaWalk ==
  ASSUME TypeOK, NEW S \in SUBSET Nodes, NEW order \in Orders(S)
  PROVE  \E k \in 0..Len(order) :
           /\ CalculateDeletionQuota(order) = Counted(order, k)
           /\ Counted(order, k) \in 0..k
           /\ \A i \in 1..k : GoesOn(order, i)
<1> DEFINE A == {k \in 0..Len(order) : \A i \in 1..k : GoesOn(order, i)}
<1>1. Len(order) \in Nat
  BY OrderIsSequence
<1>2. A \in SUBSET (0..Len(order)) /\ 0 \in A
  BY <1>1
<1>3. Max(A) \in A
  <2> HIDE DEF A
  <2>1. QED
    BY <1>1, <1>2, MaxOfBounded
<1>4. Max(A) \in 0..Len(order) /\ \A i \in 1..Max(A) : GoesOn(order, i)
  BY <1>3
<1>5. Counted(order, Max(A)) \in 0..Max(A)
  BY <1>1, <1>4, CountedBound
<1>6. CalculateDeletionQuota(order) = Counted(order, Max(A))
  BY DEF CalculateDeletionQuota
<1>7. QED
  BY <1>4, <1>5, <1>6

\* CalculateDesiredUpdatedReplicas, and the numbers it is made of.
LEMMA DesiredValue ==
  ASSUME TypeOK
  PROVE  /\ Cardinality(Known) \in Nat /\ Cardinality(ClassifyPods) \in Nat
         /\ IsFiniteSet(Known) /\ IsFiniteSet(ClassifyPods)
         /\ ds.part \in Nat
         /\ Desired \in Nat /\ Desired <= Cardinality(Known)
         /\ Cardinality(Known) >= ds.part => Desired = Cardinality(Known) - ds.part
         /\ Cardinality(Known) < ds.part => Desired = 0
         /\ NeedToDelete \in Int
<1>1. /\ IsFiniteSet(Known) /\ IsFiniteSet(ClassifyPods)
  BY NodesAssumption, FS_Subset DEF Known, ClassifyPods
<1>2. Cardinality(Known) \in Nat /\ Cardinality(ClassifyPods) \in Nat
  BY <1>1, FS_CardinalityType
<1>3. ds.part \in Nat
  BY CountNodes DEF TypeOK
<1>4. ASSUME NEW x \in Int
      PROVE  Max({0, x}) = IF x >= 0 THEN x ELSE 0
  <2>1. /\ Max({0, x}) \in {0, x}
        /\ \A y \in {0, x} : Max({0, x}) >= y
    <3>1. \E m \in {0, x} : \A y \in {0, x} : m >= y
      OBVIOUS
    <3>2. QED
      BY <3>1 DEF Max
  <2>2. QED
    BY <2>1
<1>5. Desired = IF Cardinality(Known) - ds.part >= 0
                THEN Cardinality(Known) - ds.part ELSE 0
  BY <1>2, <1>3, <1>4 DEF Desired
<1>6. QED
  BY <1>1, <1>2, <1>3, <1>5 DEF NeedToDelete

\* What a reconcile deletes: the first q pods of the order, q being no more
\* than are needed and no more than the walk went through.
LEMMA DeletedPrefix ==
  ASSUME TypeOK, NEW S \in SUBSET Nodes, NEW order \in Orders(S),
         Range(PodsToDelete(order)) # {}
  PROVE  /\ NeedToDelete > 0
         /\ \E k \in 0..Len(order) : \E q \in 0..k :
              /\ Range(PodsToDelete(order)) = {order[j] : j \in 1..q}
              /\ q = Counted(order, k)
              /\ \A i \in 1..k : GoesOn(order, i)
<1>1. PICK k \in 0..Len(order) :
           /\ CalculateDeletionQuota(order) = Counted(order, k)
           /\ Counted(order, k) \in 0..k
           /\ \A i \in 1..k : GoesOn(order, i)
  BY QuotaWalk
<1> DEFINE q == Counted(order, k)
<1>2. order \in Seq(S) /\ Len(order) \in Nat
  BY OrderIsSequence
<1>3. ~(NeedToDelete <= 0)
  <2>1. Range(<<>>) = {}
    BY DEF Range
  <2>2. QED
    BY <2>1 DEF PodsToDelete
<1>4. PodsToDelete(order) = SubSeq(order, 1, q)
  BY <1>1, <1>3 DEF PodsToDelete
<1>5. Range(SubSeq(order, 1, q)) = {order[j] : j \in 1..q}
  <2> HIDE DEF q
  <2>1. q \in 0..Len(order)
    BY <1>1, <1>2 DEF q
  <2>2. /\ DOMAIN SubSeq(order, 1, q) = 1..q
        /\ \A j \in 1..q : SubSeq(order, 1, q)[j] = order[j]
    BY <1>2, <2>1
  <2>3. QED
    BY <2>2 DEF Range
<1>6. QED
  BY <1>1, <1>3, <1>4, <1>5, DesiredValue

-----------------------------------------------------------------------------
(* The inductive invariant.                                                *)

\* Pods that are not up to date: only those are ever deleted.
LEMMA DeletedAreOld ==
  ASSUME TypeOK, NEW order \in Orders(Known \ ClassifyPods)
  PROVE  Range(PodsToDelete(order)) \subseteq Known \ ClassifyPods
<1> DEFINE S == Known \ ClassifyPods
<1>1. S \in SUBSET Nodes
  BY DEF Known
<1>2. CASE Range(PodsToDelete(order)) = {}
  BY <1>2
<1>3. CASE Range(PodsToDelete(order)) # {}
  <2> HIDE DEF S
  <2>0. order \in Orders(S)
    BY DEF S
  <2>1. PICK k \in 0..Len(order) : \E q \in 0..k :
          Range(PodsToDelete(order)) = {order[j] : j \in 1..q}
    BY <1>1, <1>3, <2>0, DeletedPrefix
  <2>2. PICK q \in 0..k : Range(PodsToDelete(order)) = {order[j] : j \in 1..q}
    BY <2>1
  <2>3. order \in [1..Len(order) -> S] /\ Len(order) \in Nat
    BY <1>1, <2>0, OrderIsSequence
  <2>4. \A j \in 1..q : order[j] \in S
    BY <2>3
  <2>5. QED
    BY <2>2, <2>4 DEF S
<1>4. QED
  BY <1>2, <1>3

\* The fields of the pods after a deletion.
LEMMA DeleteFields ==
  ASSUME TypeOK, NEW S \in SUBSET Nodes, DeletePods(S), NEW n \in Nodes
  PROVE  /\ pods'[n].up = pods[n].up /\ pods'[n].rev = pods[n].rev
         /\ pods'[n].ready = pods[n].ready /\ pods'[n].uid = pods[n].uid
         /\ pods'[n].dying <=> pods[n].dying \/ n \in Reached(S)
<1> DEFINE b == pods[n].dying \/ n \in Reached(S)
<1>1. pods'[n] = [pods[n] EXCEPT !.dying = b]
  BY DeletePodsType
<1>2. pods[n] \in Pods
  BY DEF TypeOK
<1>3. /\ pods'[n].up = pods[n].up /\ pods'[n].rev = pods[n].rev
      /\ pods'[n].ready = pods[n].ready /\ pods'[n].uid = pods[n].uid
      /\ pods'[n].dying = b
  <2> HIDE DEF b
  <2>1. QED
    BY <1>1, <1>2 DEF Pods
<1>4. QED
  BY <1>3

\* A deletion is expected before anybody can see it.
LEMMA DeleteKeepsInv ==
  ASSUME CacheInv, NEW S \in SUBSET Known, DeletePods(S), UNCHANGED <<ds, cache>>,
         queued' \in BOOLEAN, slips \subseteq slips', slips' \subseteq {"lag", "timeout"}
  PROVE  CacheInv'
<1> S \in SUBSET Nodes
  BY DEF Known
<1>1. TypeOK'
  BY DeletePodsType DEF CacheInv, TypeOK, Pods
<1>2. \A n \in Nodes :
         /\ pods'[n].up = pods[n].up /\ pods'[n].rev = pods[n].rev
         /\ pods'[n].ready = pods[n].ready /\ pods'[n].uid = pods[n].uid
         /\ pods'[n].dying <=> pods[n].dying \/ n \in Reached(S)
  BY DeleteFields DEF CacheInv
<1>3. Remembered'
  BY <1>2 DEF CacheInv, Remembered, Departing, DeletePods, Reached
<1>4. SamePod'
  BY <1>2 DEF CacheInv, SamePod, Reached
<1>5. QED
  BY <1>1, <1>3, <1>4 DEF CacheInv

\* What the cluster may do to a pod without being asked: nothing that the
\* controller has to remember.
LEMMA BecomesKeepsInv ==
  ASSUME CacheInv, NEW n \in Nodes, NEW p \in Pods, Becomes(n, p),
         \/ /\ p.up = pods[n].up /\ p.rev = pods[n].rev /\ p.uid = pods[n].uid
            /\ p.dying = pods[n].dying /\ pods[n].up
         \/ pods[n].up /\ pods[n].dying /\ ~p.up /\ ~p.dying /\ ~p.ready
         \/ ~pods[n].up /\ p.up /\ ~p.dying /\ p.uid # cache[n].uid
  PROVE  CacheInv'
<1>1. pods' = [pods EXCEPT ![n] = p] /\ UNCHANGED <<ds, cache, expect, slips>>
  BY DEF Becomes
<1>2. pods'[n] = p /\ \A m \in Nodes \ {n} : pods'[m] = pods[m]
  BY <1>1 DEF CacheInv, TypeOK
<1>3. TypeOK'
  <2>1. pods' \in [Nodes -> Pods] /\ queued' \in BOOLEAN
    BY <1>1 DEF CacheInv, TypeOK, Becomes
  <2>2. QED
    BY <1>1, <2>1 DEF CacheInv, TypeOK, Pods
<1>4. Remembered'
  <2> SUFFICES ASSUME NEW m \in Nodes, cache'[m].up, ~cache'[m].dying, Departing(m)'
               PROVE  <<m, cache'[m].uid>> \in expect' \/ "timeout" \in slips'
    BY DEF Remembered
  <2>1. CASE m # n
    BY <1>1, <1>2, <2>1 DEF CacheInv, Remembered, Departing
  <2>2. CASE m = n
    BY <1>1, <1>2, <2>2 DEF CacheInv, Remembered, Departing, SamePod
  <2>3. QED
    BY <2>1, <2>2
<1>5. SamePod'
  <2> SUFFICES ASSUME NEW m \in Nodes
      PROVE  /\ pods'[m].dying => pods'[m].up /\ pods'[m].uid = cache'[m].uid
             /\ pods'[m].up /\ cache'[m].up /\ pods'[m].uid = cache'[m].uid
                  => pods'[m].rev = cache'[m].rev /\ (cache'[m].dying => pods'[m].dying)
             /\ ~pods'[m].up => ~pods'[m].ready
    BY DEF SamePod
  <2>1. CASE m # n
    BY <1>1, <1>2, <2>1 DEF CacheInv, SamePod
  <2>2. CASE m = n
    BY <1>1, <1>2, <2>2 DEF CacheInv, SamePod
  <2>3. QED
    BY <2>1, <2>2
<1>6. QED
  BY <1>3, <1>4, <1>5 DEF CacheInv

\* What kubelets and the pod garbage collector do keeps the invariant: the cache learns of it.
LEMMA ClusterKeepsInv ==
  ASSUME CacheInv, Cluster
  PROVE  CacheInv'
<1> PICK n \in Nodes :
      PodUnready(n) \/ PodGone(n) \/ PodCreated(n) \/ PodReady(n) \/ PodFails(n)
  BY DEF Cluster
<1>0. pods[n] \in Pods /\ cache[n] \in Pods
  BY DEF CacheInv, TypeOK
<1>1. CASE PodUnready(n)
  BY <1>0, <1>1, BecomesKeepsInv DEF PodUnready, Pods
<1>2. CASE PodGone(n)
  BY <1>0, <1>2, BecomesKeepsInv DEF PodGone, Pods
<1>3. CASE PodCreated(n)
  <2>1. ds.template \in Revisions
    BY DEF CacheInv, TypeOK
  <2> DEFINE p == [up |-> TRUE, rev |-> ds.template, ready |-> FALSE, dying |-> FALSE,
                   uid |-> 1 - pods[n].uid]
  <2>2. p \in Pods /\ p.up /\ ~p.dying /\ p.uid # cache[n].uid
    BY <1>0, <1>3, <2>1 DEF PodCreated, Pods
  <2>3. ~pods[n].up /\ Becomes(n, p)
    BY <1>3 DEF PodCreated
  <2> HIDE DEF p
  <2>4. QED
    BY <2>2, <2>3, BecomesKeepsInv
<1>4. CASE PodReady(n)
  BY <1>0, <1>4, BecomesKeepsInv DEF PodReady, Pods
<1>5. CASE PodFails(n)
  BY <1>0, <1>5, BecomesKeepsInv DEF PodFails, Pods
<1>6. QED
  BY <1>1, <1>2, <1>3, <1>4, <1>5

\* The informer shows a pod as it is; the expectation it drops is met.
LEMMA ObservedKeepsInv ==
  ASSUME CacheInv, NEW n \in Nodes, PodObserved(n)
  PROVE  CacheInv'
<1>1. cache' = [cache EXCEPT ![n] = pods[n]] /\ UNCHANGED <<ds, pods, queued, slips, ops>>
  BY DEF PodObserved
<1>2. cache'[n] = pods[n] /\ \A m \in Nodes \ {n} : cache'[m] = cache[m]
  BY <1>1 DEF CacheInv, TypeOK
<1>3. expect' = expect \/ expect' = expect \ {<<n, cache[n].uid>>}
  BY DEF PodObserved
<1>4. TypeOK'
  <2>1. cache' \in [Nodes -> Pods] /\ expect' \subseteq Nodes \X {0, 1}
    BY <1>1, <1>3 DEF CacheInv, TypeOK
  <2>2. QED
    BY <1>1, <2>1 DEF CacheInv, TypeOK, Pods
<1>5. Remembered'
  <2> SUFFICES ASSUME NEW m \in Nodes, cache'[m].up, ~cache'[m].dying, Departing(m)'
               PROVE  <<m, cache'[m].uid>> \in expect' \/ "timeout" \in slips'
    BY DEF Remembered
  <2>1. CASE m # n
    BY <1>1, <1>2, <1>3, <2>1 DEF CacheInv, Remembered, Departing
  <2>2. CASE m = n
    BY <1>1, <1>2, <2>2 DEF Departing
  <2>3. QED
    BY <2>1, <2>2
<1>6. SamePod'
  BY <1>1, <1>2 DEF CacheInv, SamePod
<1>7. QED
  BY <1>4, <1>5, <1>6 DEF CacheInv

\* A reconcile, whether it fails or not, deletes some of the pods it chose.
Deletes(order, S) ==
  /\ expect = {} /\ ds.part # NoPartition
  /\ order \in Orders(Known \ ClassifyPods)
  /\ S \subseteq Range(PodsToDelete(order))
  /\ DeletePods(S) /\ UNCHANGED <<ds, cache>>

\* What a round may change: nothing, or pods of a list of the cache in some order.
LEMMA ReconcileCases ==
  ASSUME TypeOK, Reconcile \/ ReconcileFails
  PROVE  /\ queued' \in BOOLEAN /\ slips \subseteq slips' /\ slips' \subseteq {"lag", "timeout"}
         /\ \/ UNCHANGED <<ds, cache, pods, expect>>
            \/ \E order \in Orders(Known \ ClassifyPods) :
                 \E S \in SUBSET Range(PodsToDelete(order)) : Deletes(order, S)
<1>1. CASE Reconcile
  <2>1. queued' \in BOOLEAN /\ slips \subseteq slips' /\ slips' \subseteq {"lag", "timeout"}
    BY <1>1 DEF Reconcile, TypeOK
  <2>2. CASE ds.part = NoPartition
    BY <1>1, <2>1, <2>2 DEF Reconcile
  <2>3. CASE ds.part # NoPartition
    <3>1. PICK order \in Orders(Known \ ClassifyPods) :
            DeletePods(Range(PodsToDelete(order)))
      BY <1>1, <2>3 DEF Reconcile
    <3>2. Deletes(order, Range(PodsToDelete(order)))
      BY <1>1, <2>3, <3>1 DEF Reconcile, Deletes
    <3>3. QED
      BY <2>1, <3>2
  <2>4. QED
    BY <2>2, <2>3
<1>2. CASE ReconcileFails
  <2>1. queued' \in BOOLEAN /\ slips \subseteq slips' /\ slips' \subseteq {"lag", "timeout"}
    BY <1>2 DEF ReconcileFails, TypeOK
  <2>2. PICK order \in Orders(Known \ ClassifyPods) :
          \E S \in SUBSET Range(PodsToDelete(order)) : DeletePods(S)
    BY <1>2 DEF ReconcileFails
  <2>3. PICK S \in SUBSET Range(PodsToDelete(order)) : DeletePods(S)
    BY <2>2
  <2>4. Deletes(order, S)
    BY <1>2, <2>3 DEF ReconcileFails, Deletes
  <2>5. QED
    BY <2>1, <2>4
<1>3. QED
  BY <1>1, <1>2

\* The invariant holds initially.
LEMMA InitInv == Init => CacheInv
<1> SUFFICES ASSUME Init PROVE CacheInv
  OBVIOUS
<1>1. TypeOK
  BY InitTypes
<1>2. Remembered /\ SamePod
  BY DEF Init, Remembered, Departing, SamePod
<1>3. QED
  BY <1>1, <1>2 DEF CacheInv

\* Every step keeps the invariant.
LEMMA NextKeepsInv ==
  ASSUME CacheInv, [Next]_vars
  PROVE  CacheInv'
<1>1. CASE Reconcile \/ ReconcileFails
  <2>1. TypeOK
    BY DEF CacheInv
  <2>2. /\ queued' \in BOOLEAN /\ slips \subseteq slips' /\ slips' \subseteq {"lag", "timeout"}
        /\ \/ UNCHANGED <<ds, cache, pods, expect>>
           \/ \E order \in Orders(Known \ ClassifyPods) :
                \E S \in SUBSET Range(PodsToDelete(order)) : Deletes(order, S)
    BY <1>1, <2>1, ReconcileCases
  <2>3. CASE UNCHANGED <<ds, cache, pods, expect>>
    BY <2>2, <2>3 DEF CacheInv, TypeOK, Pods, Remembered, Departing, SamePod
  <2>4. CASE \E order \in Orders(Known \ ClassifyPods) :
               \E S \in SUBSET Range(PodsToDelete(order)) : Deletes(order, S)
    <3>1. PICK order \in Orders(Known \ ClassifyPods) :
            \E S \in SUBSET Range(PodsToDelete(order)) : Deletes(order, S)
      BY <2>4
    <3>2. PICK S \in SUBSET Range(PodsToDelete(order)) : Deletes(order, S)
      BY <3>1
    <3>3. S \in SUBSET Known
      BY <2>1, DeletedAreOld
    <3>4. QED
      BY <2>2, <3>2, <3>3, DeleteKeepsInv DEF Deletes
  <2>5. QED
    BY <2>2, <2>3, <2>4
<1>2. CASE ExpectationTimeout
  <2>1. UNCHANGED <<ds, pods, cache, queued>> /\ expect' = {} /\ slips' = slips \cup {"timeout"}
    BY <1>2 DEF ExpectationTimeout
  <2>2. QED
    BY <2>1 DEF CacheInv, TypeOK, Pods, Remembered, Departing, SamePod
<1>3. CASE Restart
  <2>1. /\ UNCHANGED <<ds, pods, slips>> /\ expect' = {} /\ cache' = pods
        /\ queued' \in BOOLEAN
    BY <1>3 DEF Restart
  <2>2. QED
    BY <2>1 DEF CacheInv, TypeOK, Pods, Remembered, Departing, SamePod
<1>4. CASE \E n \in Nodes : PodObserved(n)
  BY <1>4, ObservedKeepsInv
<1>5. CASE UpgradeBatch \/ Finalize \/ ChangeTemplate
  <2>1. /\ ds' \in [template : Revisions, rev : Revisions,
                    part : 0..(N - 1) \cup {NoPartition}]
        /\ queued' \in BOOLEAN
        /\ UNCHANGED <<pods, cache, expect, slips>>
    <3>1. CASE UpgradeBatch
      BY <3>1 DEF UpgradeBatch, CacheInv, TypeOK
    <3>2. CASE Finalize
      BY <3>2 DEF Finalize, CacheInv, TypeOK
    <3>3. CASE ChangeTemplate
      BY <3>3 DEF ChangeTemplate, CacheInv, TypeOK
    <3>4. QED
      BY <1>5, <3>1, <3>2, <3>3
  <2>2. QED
    BY <2>1 DEF CacheInv, TypeOK, Pods, Remembered, Departing, SamePod
<1>6. CASE Cluster
  BY <1>6, ClusterKeepsInv
<1>7. CASE UNCHANGED vars
  BY <1>7 DEF vars, CacheInv, TypeOK, Pods, Remembered, Departing, SamePod
<1>8. QED
  BY <1>1, <1>2, <1>3, <1>4, <1>5, <1>6, <1>7 DEF Next

\* The cache may be behind, but never about a deletion that was asked for:
\* that is expected until it is seen, short of a timeout.
THEOREM CacheInvariant == Spec => []CacheInv
<1>1. CacheInv /\ [Next]_vars => CacheInv'
  BY NextKeepsInv
<1>2. QED
  BY InitInv, <1>1, PTL DEF Spec

\* The types of the DaemonSet, of the pods and of what the controller keeps.
THEOREM TypeCorrect == Spec => []TypeOK
<1>1. CacheInv => TypeOK
  BY DEF CacheInv
<1>2. QED
  BY CacheInvariant, <1>1, PTL

-----------------------------------------------------------------------------
(* What a step may delete.                                                 *)

\* Only a reconcile deletes, and only pods it chose that are the ones it knows.
LEMMA OnlyReconcileDeletes ==
  ASSUME CacheInv, [Next]_vars, Deleted # {}
  PROVE  \E order \in Orders(Known \ ClassifyPods) :
           \E S \in SUBSET Range(PodsToDelete(order)) :
             Deletes(order, S) /\ Deleted \subseteq Reached(S)
<1>0. TypeOK
  BY DEF CacheInv
<1>1. PICK d \in Nodes : pods'[d].dying /\ ~pods[d].dying
  BY DEF Deleted
<1>2. pods' # pods
  BY <1>1
<1>3. ~Cluster
  <2> SUFFICES ASSUME NEW n \in Nodes,
                      PodUnready(n) \/ PodGone(n) \/ PodCreated(n) \/ PodReady(n) \/ PodFails(n)
               PROVE  FALSE
    BY DEF Cluster
  <2>1. pods[n] \in Pods /\ pods \in [Nodes -> Pods]
    BY <1>0 DEF TypeOK
  <2>2. d = n
    BY <1>1, <2>1 DEF PodUnready, PodGone, PodCreated, PodReady, PodFails, Becomes
  <2>3. QED
    BY <1>1, <2>1, <2>2 DEF PodUnready, PodGone, PodCreated, PodReady, PodFails, Becomes, Pods
<1>4. Reconcile \/ ReconcileFails
  BY <1>2, <1>3 DEF Next, vars, ExpectationTimeout, Restart, PodObserved, UpgradeBatch,
     Finalize, ChangeTemplate
<1>5. PICK order \in Orders(Known \ ClassifyPods) :
        \E S \in SUBSET Range(PodsToDelete(order)) : Deletes(order, S)
  BY <1>0, <1>2, <1>4, ReconcileCases
<1>6. PICK S \in SUBSET Range(PodsToDelete(order)) : Deletes(order, S)
  BY <1>5
<1>7. S \in SUBSET Nodes
  BY <1>0, DeletedAreOld DEF Known
<1>8. Deleted \subseteq Reached(S)
  BY <1>0, <1>6, <1>7, DeleteFields DEF Deletes, Deleted
<1>9. QED
  BY <1>6, <1>8

\* Between a rewritten batch and the next deletion lies a check of the revision
\* label: a pod of the current template survives, however old the cache is.
THEOREM CurrentPodsKept == Spec => CurrentKept
<1>1. ASSUME CacheInv, [Next]_vars
      PROVE  [ds.rev = ds.template => \A n \in Deleted : pods[n].rev # ds.template]_vars
  <2> SUFFICES ASSUME ds.rev = ds.template, NEW n \in Deleted
               PROVE  pods[n].rev # ds.template
    OBVIOUS
  <2>1. PICK order \in Orders(Known \ ClassifyPods) :
          \E S \in SUBSET Range(PodsToDelete(order)) :
            Deletes(order, S) /\ Deleted \subseteq Reached(S)
    BY <1>1, OnlyReconcileDeletes
  <2>2. PICK S \in SUBSET Range(PodsToDelete(order)) : Deleted \subseteq Reached(S)
    BY <2>1
  <2>3. S \subseteq Known \ ClassifyPods
    BY <1>1, DeletedAreOld DEF CacheInv
  <2>4. n \in Nodes /\ n \in Reached(S)
    BY <2>2 DEF Deleted
  <2>5. QED
    BY <1>1, <2>3, <2>4 DEF Reached, Known, ClassifyPods, CacheInv, SamePod
<1>2. QED
  BY <1>1, CacheInvariant, PTL DEF Spec, CurrentKept

-----------------------------------------------------------------------------
(* Partition and budget.                                                   *)

\* Counting with two sets that overlap or not.
LEMMA UnionBound ==
  ASSUME NEW A, NEW B, IsFiniteSet(A), IsFiniteSet(B), NEW C \in SUBSET (A \cup B)
  PROVE  /\ IsFiniteSet(C) /\ Cardinality(C) \in Nat
         /\ Cardinality(A) \in Nat /\ Cardinality(B) \in Nat
         /\ Cardinality(C) <= Cardinality(A) + Cardinality(B)
<1>1. IsFiniteSet(A \cup B)
      /\ Cardinality(A \cup B) = Cardinality(A) + Cardinality(B) - Cardinality(A \cap B)
  BY FS_Union
<1>2. IsFiniteSet(C) /\ Cardinality(C) <= Cardinality(A \cup B)
  BY <1>1, FS_Subset
<1>3. IsFiniteSet(A \cap B)
  BY FS_Intersection
<1>4. Cardinality(A) \in Nat /\ Cardinality(B) \in Nat /\ Cardinality(C) \in Nat
      /\ Cardinality(A \cap B) \in Nat /\ Cardinality(A \cup B) \in Nat
  BY <1>1, <1>2, <1>3, FS_CardinalityType
<1>5. QED
  BY <1>1, <1>2, <1>4

\* Positions of an order and the pods there.
LEMMA ImageBound ==
  ASSUME NEW f, NEW J, IsFiniteSet(J)
  PROVE  /\ IsFiniteSet({f[j] : j \in J})
         /\ Cardinality({f[j] : j \in J}) <= Cardinality(J)
<1> DEFINE T == {f[j] : j \in J}
           g == [j \in J |-> f[j]]
<1>1. g \in Surjection(J, T)
  BY DEF Surjection
<1>2. QED
  BY <1>1, FS_Surjection

\* The quota is no more than are needed.
LEMMA QuotaIsNeeded ==
  ASSUME NEW order, NEW k \in Nat, Counted(order, k) > 0, NeedToDelete \in Int,
         \A i \in 1..k : GoesOn(order, i)
  PROVE  Counted(order, k) <= NeedToDelete
<1>1. Counted(order, k) \in 0..k
  BY CountedBound
<1>2. k > 0 /\ k - 1 \in Nat
  BY <1>1
<1>3. Counted(order, k - 1) < NeedToDelete /\ Counted(order, k - 1) \in Nat
  BY <1>2, CountedBound DEF GoesOn
<1>4. Counted(order, k) <= Counted(order, k - 1) + 1
  BY <1>2, CountedStep
<1>5. QED
  BY <1>1, <1>3, <1>4

\* A pod that the cache shows, and that is not terminating there, is still the
\* same and not terminating when nothing is expected.
LEMMA NothingExpected ==
  ASSUME CacheInv, expect = {}, "timeout" \notin slips,
         NEW n \in Nodes, cache[n].up, ~cache[n].dying
  PROVE  pods[n].up /\ ~pods[n].dying /\ pods[n].uid = cache[n].uid
         /\ pods[n].rev = cache[n].rev
BY DEF CacheInv, Remembered, Departing, SamePod

\* The partition is kept but for pods that are terminating already.
THEOREM PartitionIsKept == Spec => PartitionKept
<1>1. ASSUME CacheInv, [Next]_vars, Deleted # {}, "timeout" \notin slips
      PROVE  Cardinality(Old \ Deleted) + Cardinality(Terminating) >= ds.part
  <2> DEFINE W == Known \ ClassifyPods
  <2>0. TypeOK /\ W \in SUBSET Nodes
    BY <1>1 DEF CacheInv, Known
  <2>1. PICK order \in Orders(W) :
          \E S \in SUBSET Range(PodsToDelete(order)) :
            Deletes(order, S) /\ Deleted \subseteq Reached(S)
    BY <1>1, OnlyReconcileDeletes
  <2>2. PICK S \in SUBSET Range(PodsToDelete(order)) :
            Deletes(order, S) /\ Deleted \subseteq Reached(S)
    BY <2>1
  <2> DEFINE D == Range(PodsToDelete(order))
  <2>3. Deleted \subseteq D /\ D # {}
    BY <1>1, <2>2 DEF Reached
  <2>4. Len(order) \in Nat
    BY <2>0, OrderIsSequence
  <2>5. NeedToDelete > 0 /\ NeedToDelete \in Int
    <3> HIDE DEF W
    <3>1. QED
      BY <2>0, <2>3, DeletedPrefix, DesiredValue
  <2>6. PICK k \in 0..Len(order) : \E q \in 0..k :
              /\ D = {order[j] : j \in 1..q}
              /\ q = Counted(order, k)
              /\ \A i \in 1..k : GoesOn(order, i)
    <3> HIDE DEF W
    <3>1. QED
      BY <2>0, <2>3, DeletedPrefix
  <2>7. PICK q \in 0..k : /\ D = {order[j] : j \in 1..q}
                          /\ q = Counted(order, k)
                          /\ \A i \in 1..k : GoesOn(order, i)
    BY <2>6
  <2>8. k \in Nat /\ q \in Nat /\ q > 0
    BY <2>3, <2>4, <2>7
  <2>9. q <= NeedToDelete
    BY <2>5, <2>7, <2>8, QuotaIsNeeded
  <2>10. IsFiniteSet(D) /\ Cardinality(D) <= q /\ Cardinality(D) \in Nat
    <3>1. IsFiniteSet(1..q) /\ Cardinality(1..q) = q
      BY <2>8, FS_Interval
    <3>2. QED
      BY <2>7, <3>1, ImageBound, FS_CardinalityType
  <2>11. /\ IsFiniteSet(W) /\ Cardinality(W) = Cardinality(Known) - Cardinality(ClassifyPods)
    <3>1. Known \cap ClassifyPods = ClassifyPods
      BY DEF ClassifyPods
    <3>2. IsFiniteSet(Known)
      BY <2>0, DesiredValue
    <3>3. QED
      BY <3>1, <3>2, FS_Difference
  <2>12. Cardinality(W) >= ds.part + q
    BY <2>0, <2>5, <2>8, <2>9, <2>11, DesiredValue DEF NeedToDelete
  <2>13. W \subseteq D \cup ((Old \ Deleted) \cup Terminating)
    <3> SUFFICES ASSUME NEW n \in W, n \notin D, n \notin Terminating
                 PROVE  n \in Old \ Deleted
      OBVIOUS
    <3>1. n \in Nodes /\ cache[n].up /\ cache[n].rev # ds.rev /\ ~cache[n].dying
      BY DEF Known, ClassifyPods, Terminating
    <3>2. expect = {}
      BY <2>2 DEF Deletes
    <3>3. pods[n].up /\ ~pods[n].dying /\ pods[n].rev # ds.rev
      BY <1>1, <3>1, <3>2, NothingExpected
    <3>4. QED
      BY <2>3, <3>1, <3>3 DEF Old
  <2>14. IsFiniteSet(Old \ Deleted) /\ IsFiniteSet(Terminating)
    BY NodesAssumption, FS_Subset DEF Old, Terminating, Known
  <2> HIDE DEF W, D
  <2>15. /\ IsFiniteSet((Old \ Deleted) \cup Terminating)
         /\ Cardinality((Old \ Deleted) \cup Terminating)
              <= Cardinality(Old \ Deleted) + Cardinality(Terminating)
         /\ Cardinality(Old \ Deleted) \in Nat /\ Cardinality(Terminating) \in Nat
    BY <2>14, UnionBound
  <2>16. /\ Cardinality(W) <= Cardinality(D) + Cardinality((Old \ Deleted) \cup Terminating)
         /\ Cardinality(W) \in Nat /\ Cardinality((Old \ Deleted) \cup Terminating) \in Nat
    BY <2>10, <2>13, <2>15, UnionBound
  <2>17. ds.part \in Nat
    BY <2>0, DesiredValue
  <2>18. QED
    BY <2>8, <2>10, <2>12, <2>15, <2>16, <2>17
<1>2. ASSUME CacheInv, [Next]_vars
      PROVE  [Deleted # {} /\ "timeout" \notin slips
                => Cardinality(Old \ Deleted) + Cardinality(Terminating) >= ds.part]_vars
  BY <1>1, <1>2
<1>3. QED
  BY <1>2, CacheInvariant, PTL DEF Spec, PartitionKept

\* The next pod of the walk makes one more unavailable at most.
LEMMA UnavailableStep ==
  ASSUME TypeOK, NEW order, NEW i \in Nat \ {0}
  PROVE  /\ IsFiniteSet({n \in ClassifyPods : ~cache[n].ready})
         /\ IsFiniteSet({j \in 1..i : cache[order[j]].dying \/ cache[order[j]].ready})
         /\ UnavailableCount(order, i) \in Nat /\ UnavailableCount(order, i - 1) \in Nat
         /\ UnavailableCount(order, i) <= UnavailableCount(order, i - 1) + 1
<1> DEFINE C == {j \in 1..i : cache[order[j]].dying \/ cache[order[j]].ready}
           B == {j \in 1..(i - 1) : cache[order[j]].dying \/ cache[order[j]].ready}
           U == {n \in ClassifyPods : ~cache[n].ready}
<1>1. IsFiniteSet(1..(i - 1)) /\ IsFiniteSet(1..i)
  BY FS_Interval
<1>2. IsFiniteSet(B) /\ IsFiniteSet(C) /\ IsFiniteSet(U)
  BY <1>1, FS_Subset, DesiredValue
<1>3. C \subseteq B \cup {i}
  OBVIOUS
<1>4. UnavailableCount(order, i) = Cardinality(U) + Cardinality(C)
      /\ UnavailableCount(order, i - 1) = Cardinality(U) + Cardinality(B)
  BY DEF UnavailableCount
<1> HIDE DEF B, C, U
<1>5. IsFiniteSet({i}) /\ Cardinality({i}) = 1
  BY FS_Singleton
<1>6. Cardinality(C) <= Cardinality(B) + 1 /\ Cardinality(B) \in Nat /\ Cardinality(C) \in Nat
  BY <1>2, <1>3, <1>5, UnionBound
<1>7. Cardinality(U) \in Nat
  BY <1>2, FS_CardinalityType
<1>8. QED
  BY <1>2, <1>4, <1>6, <1>7 DEF B, C, U

\* maxUnavailable is kept, but for what the quota does not count.
THEOREM BudgetIsKept == Spec => BudgetKept
<1>1. ASSUME CacheInv, [Next]_vars, NEW d \in Deleted, cache[d].ready, "timeout" \notin slips
      PROVE  Cardinality(Unavailable(pods') \ Uncounted) <= MaxUnavailable
  <2> DEFINE W == Known \ ClassifyPods
  <2>0. TypeOK /\ W \in SUBSET Nodes
    BY <1>1 DEF CacheInv, Known
  <2>1. PICK order \in Orders(W) :
          \E S \in SUBSET Range(PodsToDelete(order)) :
            Deletes(order, S) /\ Deleted \subseteq Reached(S)
    BY <1>1, OnlyReconcileDeletes
  <2>2. PICK S \in SUBSET Range(PodsToDelete(order)) :
            Deletes(order, S) /\ Deleted \subseteq Reached(S)
    BY <2>1
  <2> DEFINE D == Range(PodsToDelete(order))
  <2>3. d \in Nodes /\ d \in Reached(S) /\ d \in D /\ ~pods[d].dying /\ cache[d].up
    BY <2>0, <2>2, DeletedAreOld DEF Reached, Deleted, Known
  <2>4. ~cache[d].dying
    BY <1>1, <2>3 DEF CacheInv, SamePod, Reached
  <2>5. Len(order) \in Nat /\ order \in [1..Len(order) -> W] /\ Len(order) = Cardinality(W)
    <3> HIDE DEF W
    <3>1. QED
      BY <2>0, OrderIsSequence
  <2>6. PICK k \in 0..Len(order) : \E q \in 0..k :
              /\ D = {order[j] : j \in 1..q}
              /\ \A i \in 1..k : GoesOn(order, i)
    <3> HIDE DEF W
    <3>1. QED
      BY <2>0, <2>3, DeletedPrefix
  <2>7. PICK q \in 0..k : /\ D = {order[j] : j \in 1..q}
                          /\ \A i \in 1..k : GoesOn(order, i)
    BY <2>6
  <2> DEFINE R == {j \in 1..q : cache[order[j]].ready /\ ~cache[order[j]].dying}
             m == Max(R)
  <2>8. m \in R /\ \A j \in R : j <= m
    <3>1. R \in SUBSET (0..q) /\ q \in Nat
      BY <2>5
    <3>2. R # {}
      BY <1>1, <2>3, <2>4, <2>7
    <3> HIDE DEF R
    <3>3. QED
      BY <3>1, <3>2, MaxOfBounded
  <2>9. /\ m \in 1..q /\ m \in 1..Len(order) /\ m \in Nat \ {0}
        /\ cache[order[m]].ready /\ ~cache[order[m]].dying /\ GoesOn(order, m)
    <3>1. m \in 1..q /\ cache[order[m]].ready /\ ~cache[order[m]].dying
      BY <2>8, Zenon
    <3>. HIDE DEF m, R
    <3>2. Len(order) \in Nat /\ k \in 0..Len(order) /\ q \in 0..k
      BY <2>5
    <3>3. m \in 1..k /\ m \in 1..Len(order) /\ m \in Nat \ {0}
      BY <3>1, <3>2
    <3>. QED BY <2>7, <3>1, <3>3
  <2> HIDE DEF m
  <2>10. UnavailableCount(order, m - 1) < MaxUnavailable
    BY <2>9 DEF GoesOn
  <2> DEFINE U == {n \in ClassifyPods : ~cache[n].ready}
             J == {j \in 1..m : cache[order[j]].dying \/ cache[order[j]].ready}
             X == Unavailable(pods') \ Uncounted
  <2>11. X \subseteq U \cup {order[j] : j \in J}
    <3> SUFFICES ASSUME NEW x \in X, x \notin U
                 PROVE  x \in {order[j] : j \in J}
      OBVIOUS
    <3>1. x \in Nodes /\ cache[x].up
      BY DEF Unavailable, Uncounted
    <3>2. expect = {} /\ S \in SUBSET Nodes /\ DeletePods(S)
      BY <2>0, <2>2, DeletedAreOld DEF Deletes, Known
    <3>3. CASE cache[x].dying
      <4>1. ~cache[x].ready
        BY <3>1, <3>3 DEF Uncounted
      <4>2. x \in W
        BY <3>1, <4>1 DEF Known
      <4>3. PICK j \in 1..Len(order) : order[j] = x
        <5>1. order \in Injection(1..Len(order), W)
          BY <2>0, <2>5 DEF Orders, Injection, IsInjective
        <5>2. /\ IsFiniteSet(W) /\ IsFiniteSet(1..Len(order))
              /\ Cardinality(1..Len(order)) = Cardinality(W)
          <6>1. IsFiniteSet(W)
            BY <2>0, NodesAssumption, FS_Subset
          <6>2. IsFiniteSet(1..Len(order)) /\ Cardinality(1..Len(order)) = Len(order)
            BY <2>5, FS_Interval
          <6>3. QED
            BY <2>5, <6>1, <6>2
        <5>3. order \in Surjection(1..Len(order), W)
          <6> HIDE DEF W
          <6>1. QED
            BY <5>1, <5>2, FS_Injection
        <5>4. QED
          BY <4>2, <5>3 DEF Surjection
      <4>4. ~(m < j)
        BY <2>0, <2>5, <2>9, <4>1, <4>3 DEF Orders
      <4>5. j \in 1..m
        BY <2>9, <4>3, <4>4
      <4>6. QED
        BY <3>3, <4>3, <4>5
    <3>4. CASE ~cache[x].dying
      <4>1. cache[x].ready
        BY <3>1, <3>4 DEF Uncounted, ClassifyPods, Known
      <4>2. pods[x].up /\ ~pods[x].dying /\ pods[x].uid = cache[x].uid
        BY <1>1, <3>1, <3>2, <3>4, NothingExpected
      <4>3. pods[x].ready
        BY <3>1, <3>4, <4>1, <4>2 DEF Uncounted
      <4>4. x \in Reached(S)
        BY <2>0, <3>1, <3>2, <4>2, <4>3, DeleteFields DEF Unavailable
      <4>5. PICK j \in 1..q : order[j] = x
        BY <2>2, <2>7, <4>4 DEF Reached
      <4>6. j \in R
        BY <3>4, <4>1, <4>5
      <4>7. j \in 1..m
        BY <2>8, <2>9, <4>5, <4>6
      <4>8. QED
        BY <4>1, <4>5, <4>7
    <3>5. QED
      BY <3>3, <3>4
  <2>12. /\ IsFiniteSet(U) /\ IsFiniteSet(J)
         /\ UnavailableCount(order, m) = Cardinality(U) + Cardinality(J)
         /\ UnavailableCount(order, m) \in Nat /\ UnavailableCount(order, m - 1) \in Nat
         /\ UnavailableCount(order, m) <= UnavailableCount(order, m - 1) + 1
    BY <2>0, <2>9, UnavailableStep DEF UnavailableCount
  <2> HIDE DEF U, J, X
  <2>13. /\ IsFiniteSet({order[j] : j \in J})
         /\ Cardinality({order[j] : j \in J}) <= Cardinality(J)
    BY <2>12, ImageBound
  <2>14. /\ Cardinality(X) <= Cardinality(U) + Cardinality({order[j] : j \in J})
         /\ Cardinality(X) \in Nat /\ Cardinality(U) \in Nat
         /\ Cardinality({order[j] : j \in J}) \in Nat
    BY <2>11, <2>12, <2>13, UnionBound
  <2>15. Cardinality(J) \in Nat
    BY <2>12, FS_CardinalityType
  <2>16. Cardinality(X) <= MaxUnavailable
    BY <2>10, <2>12, <2>13, <2>14, <2>15, MaxUnavailableAssumption
  <2>17. QED
    BY <2>16 DEF X
<1>2. ASSUME CacheInv, [Next]_vars
      PROVE  [(\E n \in Deleted : cache[n].ready) /\ "timeout" \notin slips
                => Cardinality(Unavailable(pods') \ Uncounted) <= MaxUnavailable]_vars
  BY <1>1, <1>2
<1>3. QED
  BY <1>2, CacheInvariant, PTL DEF Spec, BudgetKept
=============================================================================
