--------------------------- MODULE NativeDaemonSet ---------------------------
(***************************************************************************)
(* The native DaemonSet controller (pkg/controller/nativedaemonset).  A      *)
(* release sets a DaemonSet to OnDelete and annotates it with the number of  *)
(* pods to keep and the revision to reach; this controller deletes pods, and *)
(* the DaemonSet recreates them with its current template.                   *)
(*                                                                         *)
(* Pods are read from a cache.  Between a deletion and the event that shows  *)
(* it, expectations hold the controller back; changes of the DaemonSet's      *)
(* status wake it up, changes of pods do not.                                *)
(***************************************************************************)
EXTENDS PodRevisions, FiniteSetsExt, Functions, Sequences, Integers

CONSTANTS
  Nodes,          \* one pod each
  MaxUnavailable, \* GetMaxUnavailable
  Ops,            \* what the user does: "template"
  Faults,         \* "lag", "podfail", "deletefail", "timeout", "restart"
  MaxOps          \* bound on Ops and Faults taken together

ASSUME MaxUnavailableAssumption == MaxUnavailable \in Nat \ {0}
ASSUME NodesAssumption == IsFiniteSet(Nodes)
ASSUME TwoRevisions == \E r, s \in Revisions : r # s

VARIABLES
  ds,     \* the DaemonSet: template, and the annotation's partition and revision
  pods,   \* the pod of each node
  cache,  \* the pods as the informer knows them
  expect, \* deletions that are expected to be seen, as <<node, uid>>
  queued, \* a reconcile request is in the work queue
  slips,  \* "lag": it once acted on a cache that was behind; "timeout"
  ops     \* Ops and Faults so far

vars == <<ds, pods, cache, expect, queued, slips, ops>>

N == Cardinality(Nodes)
NoPartition == N + 1

\* The cache is never two pods behind: two uids tell a pod from the next.
Pods == [up : BOOLEAN, rev : Revisions, ready : BOOLEAN, dying : BOOLEAN, uid : {0, 1}]

TypeOK ==
  /\ ds \in [template : Revisions, rev : Revisions, part : 0..(N - 1) \cup {NoPartition}]
  /\ pods \in [Nodes -> Pods] /\ cache \in [Nodes -> Pods]
  /\ expect \subseteq Nodes \X {0, 1} /\ queued \in BOOLEAN
  /\ slips \subseteq {"lag", "timeout"}

-----------------------------------------------------------------------------
(* analyzePods, on the cache.                                              *)

Known == {n \in Nodes : cache[n].up}

\* Variant with a bug: only ready pods count as updated.
ClassifyReadyPods == {n \in Known : cache[n].rev = ds.rev /\ cache[n].ready}
\* ClassifyPods: the updated ones; the others are to be deleted.
ClassifyPods == {n \in Known : cache[n].rev = ds.rev}

\* Variant with a bug: of the nodes, not of the pods there are.
DesiredOfNodes == N - ds.part
\* CalculateDesiredUpdatedReplicas.
Desired == Max({0, Cardinality(Known) - ds.part})

NeedToDelete == Desired - Cardinality(ClassifyPods)

\* SortPodsForDeletion: pods that are not ready first; costs and ages, which
\* are anything, decide between the others.
Orders(S) ==
  {f \in [1..Cardinality(S) -> S] :
     /\ IsInjective(f)
     /\ \A i, j \in 1..Cardinality(S) : i < j /\ cache[f[i]].ready => cache[f[j]].ready}

\* CalculateDeletionQuota walks through the sorted pods.  Of the first i, it
\* takes those that are not terminating; the ready and the terminating ones
\* are unavailable, like updated pods that are not ready.
Counted(order, i) == Cardinality({j \in 1..i : ~cache[order[j]].dying})
UnavailableCount(order, i) ==
  Cardinality({n \in ClassifyPods : ~cache[n].ready})
    + Cardinality({j \in 1..i : cache[order[j]].dying \/ cache[order[j]].ready})

\* It does not break at the i-th: more are needed, and the pod is terminating,
\* not ready, or within maxUnavailable.
GoesOn(order, i) ==
  /\ Counted(order, i - 1) < NeedToDelete
  /\ \/ cache[order[i]].dying \/ ~cache[order[i]].ready
     \/ UnavailableCount(order, i - 1) < MaxUnavailable

CalculateDeletionQuota(order) ==
  Counted(order, Max({k \in 0..Len(order) : \A i \in 1..k : GoesOn(order, i)}))

\* The first of them, terminating ones included.
PodsToDelete(order) ==
  IF NeedToDelete <= 0 THEN <<>> ELSE SubSeq(order, 1, CalculateDeletionQuota(order))

-----------------------------------------------------------------------------
(* Actions.                                                                *)

Bounded == ops < MaxOps /\ ops' = ops + 1

\* A deletion reaches the pod that the cache knows, or no pod.
Reached(S) == {n \in S : pods[n].up /\ pods[n].uid = cache[n].uid}

\* Variant with a bug: nothing is expected.
DeleteUnexpected(S) ==
  /\ pods' = [n \in Nodes |-> [pods[n] EXCEPT !.dying = @ \/ n \in Reached(S)]]
  /\ UNCHANGED expect
\* executePodDeletion, of those whose deletion did not fail: expected before it
\* is asked for, no longer expected if there is no such pod.
DeletePods(S) ==
  /\ pods' = [n \in Nodes |-> [pods[n] EXCEPT !.dying = @ \/ n \in Reached(S)]]
  /\ expect' = expect \cup {<<n, cache[n].uid>> : n \in Reached(S)}

\* SlowStartBatch: rounds of 1, 2, 4, ... deletions at a time; none after the
\* round in which some failed.
SlowStartBatch(order, S) ==
  \E i \in 0..2 : LET sent == 2^(i + 1) - 1
                      before == 2^i - 1 IN
    /\ before < Len(order)
    /\ {order[k] : k \in 1..before} \subseteq S
    /\ S \subseteq {order[k] : k \in 1..Min({sent, Len(order)})}
    /\ \E k \in (before + 1)..Min({sent, Len(order)}) : order[k] \notin S

\* Without a partition nothing is to be done; with expectations left the
\* request is repeated later, as it is after an error.
Reconcile ==
  /\ queued
  /\ ds.part = NoPartition \/ expect = {}
  /\ \/ cache = pods /\ UNCHANGED <<slips, ops>>
     \/ cache # pods /\ "lag" \in Faults /\ Bounded /\ slips' = slips \cup {"lag"}
  /\ IF ds.part = NoPartition THEN queued' = FALSE /\ UNCHANGED <<pods, expect>>
     ELSE \E order \in Orders(Known \ ClassifyPods) :
            DeletePods(Range(PodsToDelete(order))) /\ queued' = FALSE
  /\ UNCHANGED <<ds, cache>>

ReconcileFails ==
  /\ "deletefail" \in Faults /\ Bounded
  /\ queued /\ ds.part # NoPartition /\ expect = {} /\ cache = pods
  /\ \E order \in Orders(Known \ ClassifyPods) : \E S \in SUBSET Range(PodsToDelete(order)) :
       SlowStartBatch(PodsToDelete(order), S) /\ DeletePods(S)
  /\ UNCHANGED <<ds, cache, queued, slips>>

\* An expectation that is not met for five minutes is given up.
ExpectationTimeout ==
  /\ "timeout" \in Faults /\ Bounded
  /\ queued /\ ds.part # NoPartition /\ expect # {}
  /\ expect' = {} /\ slips' = slips \cup {"timeout"}
  /\ UNCHANGED <<ds, pods, cache, queued>>

\* The controller starts again: a new list of pods, no expectations.
Restart ==
  /\ "restart" \in Faults /\ Bounded
  /\ expect' = {} /\ cache' = pods /\ queued' = (ds.part # NoPartition)
  /\ UNCHANGED <<ds, pods, slips>>

\* Variant with a bug: only the deletion timestamp is observed.
TimestampObserved(n) ==
  /\ cache[n] # pods[n]
  /\ cache' = [cache EXCEPT ![n] = pods[n]]
  /\ expect' = IF pods[n].dying /\ ~cache[n].dying THEN expect \ {<<n, cache[n].uid>>} ELSE expect
  /\ UNCHANGED <<ds, pods, queued, slips, ops>>
\* The pod watch: a deletion timestamp, or a pod that is gone, is observed.
PodObserved(n) ==
  /\ cache[n] # pods[n]
  /\ cache' = [cache EXCEPT ![n] = pods[n]]
  /\ expect' = IF \/ pods[n].dying /\ ~cache[n].dying
                  \/ ~pods[n].up \/ pods[n].uid # cache[n].uid
               THEN expect \ {<<n, cache[n].uid>>} ELSE expect
  /\ UNCHANGED <<ds, pods, queued, slips, ops>>

\* External: a change of the DaemonSet's status wakes the controller up.
Becomes(n, p) ==
  /\ pods' = [pods EXCEPT ![n] = p]
  /\ queued' = (queued \/ ds.part # NoPartition)
  /\ UNCHANGED <<ds, cache, expect, slips>>

\* External: kubelet and the DaemonSet controller of Kubernetes.
PodUnready(n) ==
  pods[n].up /\ pods[n].dying /\ pods[n].ready /\ UNCHANGED ops
    /\ Becomes(n, [pods[n] EXCEPT !.ready = FALSE])
PodGone(n) ==
  pods[n].up /\ pods[n].dying /\ UNCHANGED ops
    /\ Becomes(n, [pods[n] EXCEPT !.up = FALSE, !.dying = FALSE, !.ready = FALSE])
PodCreated(n) ==
  ~pods[n].up /\ cache[n].uid = pods[n].uid /\ UNCHANGED ops
    /\ Becomes(n, [up |-> TRUE, rev |-> ds.template, ready |-> FALSE, dying |-> FALSE,
                   uid |-> 1 - pods[n].uid])
PodReady(n) ==
  pods[n].up /\ ~pods[n].dying /\ ~pods[n].ready /\ UNCHANGED ops
    /\ Becomes(n, [pods[n] EXCEPT !.ready = TRUE])
PodFails(n) ==
  "podfail" \in Faults /\ pods[n].up /\ pods[n].ready /\ Bounded
    /\ Becomes(n, [pods[n] EXCEPT !.ready = FALSE])

\* Variant with a bug: more updated pods than pods are not ruled out.
UpgradeUnclamped ==
  /\ \E p \in -1..(N - 1) : p < ds.part /\ ds' = [ds EXCEPT !.part = p, !.rev = ds.template]
  /\ queued' = TRUE
  /\ UNCHANGED <<pods, cache, expect, slips, ops>>
\* UpgradeBatch of the release: only a different partition is written.
UpgradeBatch ==
  /\ \E p \in 0..(N - 1) : p < ds.part /\ ds' = [ds EXCEPT !.part = p, !.rev = ds.template]
  /\ queued' = TRUE
  /\ UNCHANGED <<pods, cache, expect, slips, ops>>

\* Finalize of the release, before the next one upgrades.
Finalize ==
  /\ ds.part # NoPartition /\ ds.rev # ds.template
  /\ ds' = [ds EXCEPT !.part = NoPartition]
  /\ queued' = TRUE
  /\ UNCHANGED <<pods, cache, expect, slips, ops>>

ChangeTemplate ==
  /\ "template" \in Ops /\ Bounded
  /\ \E r \in Revisions \ {ds.template} : ds' = [ds EXCEPT !.template = r]
  /\ UNCHANGED <<pods, cache, expect, queued, slips>>

\* A new template, held by OnDelete; which revision is which is of no matter.
Stable == CHOOSE r \in Revisions : TRUE
Init ==
  /\ ds = [template |-> CHOOSE r \in Revisions : r # Stable, part |-> NoPartition,
           rev |-> Stable]
  /\ pods = [n \in Nodes |-> [up |-> TRUE, rev |-> Stable, ready |-> TRUE,
                              dying |-> FALSE, uid |-> 0]]
  /\ cache = pods /\ expect = {} /\ queued = FALSE /\ slips = {} /\ ops = 0

Cluster == \E n \in Nodes :
  PodUnready(n) \/ PodGone(n) \/ PodCreated(n) \/ PodReady(n) \/ PodFails(n)

Next ==
  \/ Reconcile \/ ReconcileFails \/ ExpectationTimeout \/ Restart
  \/ \E n \in Nodes : PodObserved(n)
  \/ UpgradeBatch \/ Finalize \/ ChangeTemplate \/ Cluster

Spec == Init /\ [][Next]_vars

\* The work queue, the informer, kubelet and the DaemonSet controller go on.
FairSpec ==
  /\ Spec /\ WF_vars(Reconcile)
  /\ \A n \in Nodes : WF_vars(PodObserved(n)) /\ WF_vars(PodGone(n))
                      /\ WF_vars(PodCreated(n)) /\ WF_vars(PodReady(n))

-----------------------------------------------------------------------------
(* What the release relies on.                                             *)

Deleted == {n \in Nodes : pods'[n].dying /\ ~pods[n].dying}
Unavailable(P) == {n \in Nodes : ~P[n].up \/ P[n].dying \/ ~P[n].ready}

\* maxUnavailable is strict: a ready pod is only deleted if no more than that
\* many pods are unavailable then.
StrictBudget ==
  [][(\E n \in Deleted : pods[n].ready)
       => Cardinality(Unavailable(pods')) <= MaxUnavailable]_vars

\* What the quota leaves out: nodes without a pod, pods of another revision
\* that are not ready, terminating pods that still are, wherever the order has
\* them, and what the informer has not told.
Uncounted ==
  {n \in Nodes : \/ ~cache[n].up
                 \/ cache[n].dying /\ cache[n].ready
                 \/ ~cache[n].dying /\ ~cache[n].ready /\ cache[n].rev # ds.rev
                 \/ ~cache[n].dying /\ cache[n].ready /\ ~pods[n].dying /\ ~pods[n].ready}

\* maxUnavailable holds for the others whenever a pod is deleted that the
\* controller takes to be ready, however far the cache is behind: a deletion
\* that was asked for is never forgotten, short of a timeout.
BudgetKept ==
  [][(\E n \in Deleted : cache[n].ready) /\ "timeout" \notin slips
       => Cardinality(Unavailable(pods') \ Uncounted) <= MaxUnavailable]_vars

\* A pod that has the current template is never deleted, unless the template
\* changed after the batch was written.
CurrentKept ==
  [][ds.rev = ds.template => \A n \in Deleted : pods[n].rev # ds.template]_vars

\* The partition is the number of pods that keep their revision.
Old == {n \in Nodes : pods[n].up /\ ~pods[n].dying /\ pods[n].rev # ds.rev}
PartitionStrict ==
  [][Deleted # {} => Cardinality(Old \ Deleted) >= ds.part]_vars

\* It holds but for terminating pods, which are not counted as updated, however
\* far the cache is behind.
Terminating == {n \in Known : cache[n].dying /\ cache[n].rev # ds.rev}
PartitionKept ==
  [][Deleted # {} /\ "timeout" \notin slips
       => Cardinality(Old \ Deleted) + Cardinality(Terminating) >= ds.part]_vars

\* A batch gets its pods: every wake-up that is needed comes, if the cache is
\* not behind when it does.
Updated == {n \in Nodes : pods[n].up /\ pods[n].ready /\ ~pods[n].dying /\ pods[n].rev = ds.rev}
InBatch(p) == ds.part = p /\ ds.rev = ds.template
BatchGetsDone ==
  \A p \in 0..(N - 1) :
    InBatch(p) ~> (~InBatch(p) \/ Cardinality(Updated) >= N - p \/ "lag" \in slips)
==============================================================================
