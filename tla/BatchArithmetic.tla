--------------------------- MODULE BatchArithmetic ---------------------------
(***************************************************************************)
(* The arithmetic of a batch release: from the release plan and the        *)
(* replicas of a workload to the number of pods a batch updates, to the    *)
(* knob of the workload (partition, surge, replicas of a copy) and to the  *)
(* number of pods that carry each batch label.                             *)
(***************************************************************************)
EXTENDS Integers, Sequences, FiniteSetsExt

\* intstr.IntOrString.
Int32(n) == [pct |-> FALSE, n |-> n]
Percent(n) == [pct |-> TRUE, n |-> n]

Above(m, n) == IF m > n THEN m ELSE n
Below(m, n) == IF m < n THEN m ELSE n
Clamp(n, top) == Above(0, Below(n, top))

\* intstr.GetScaledValueFromIntOrPercent.
Scaled(x, total, roundUp) ==
  IF x.pct THEN (x.n * total + (IF roundUp THEN 99 ELSE 0)) \div 100 ELSE x.n

\* The updated replicas that batch (from 0) of the plan asks for.
CalculateBatchReplicas(batches, replicas, batch) ==
  Clamp(Scaled(batches[batch + 1], replicas, TRUE), replicas)

\* Variant with a bug: the percentage is rounded up.
PercentageRoundedUp(stable, all, canary) ==
  IF stable >= all THEN Percent(100) ELSE Percent((stable * 100 + all - 1) \div all)
\* The number of stable pods as a percentage, for a plan in percentages.
ParseIntegerAsPercentageIfPossible(stable, all, canary) ==
  LET p == Percent((stable * 100) \div all) IN
    CASE stable >= all -> Percent(100)
      [] stable < all /\ stable <= 0 -> Percent(0)
      [] OTHER -> IF Scaled(p, all, TRUE) <= 0 /\ canary # Percent(100)
                  THEN Percent(1) ELSE p

\* IsCurrentMoreThanOrEqualToDesired: compared on ten million replicas.
MoreThanOrEqualTo(current, desired) ==
  Scaled(current, 10000000, TRUE) >= Scaled(desired, 10000000, TRUE)

\* The updated replicas a Deployment's partition admits: all of them only for
\* a partition of 100%, or an integer.
NewRSReplicasLimit(partition, replicas) ==
  LET limit == Clamp(Scaled(partition, replicas, TRUE), replicas) IN
    IF replicas > 1 /\ partition.pct /\ partition # Percent(100)
    THEN Below(limit, replicas - 1) ELSE limit

-----------------------------------------------------------------------------
(* Batch contexts: planned is the number of pods to label, desired the     *)
(* number of updated pods to wait for, knob the value to give to the       *)
(* workload.  kept counts the pods that a rollback in batches leaves alone, *)
(* -1 when the release is no such rollback.                                 *)

\* CloneSet, both DaemonSets and the unordered StatefulSet keep desiredStable
\* pods on the old revision.
DesiredStable(batches, replicas, batch, kept) ==
  LET base == replicas - Above(kept, 0) IN
    base - CalculateBatchReplicas(batches, base, batch)

CloneSetContext(batches, replicas, batch, kept) ==
  LET stable == DesiredStable(batches, replicas, batch, kept) IN
    [planned |-> CalculateBatchReplicas(batches, replicas, batch),
     desired |-> replicas - stable,
     knob |-> IF batches[batch + 1].pct
              THEN ParseIntegerAsPercentageIfPossible(stable, replicas, batches[batch + 1])
              ELSE Int32(stable)]

\* An unordered StatefulSet has the same.
DaemonSetContext(batches, replicas, batch, kept) ==
  LET stable == DesiredStable(batches, replicas, batch, kept) IN
    [planned |-> CalculateBatchReplicas(batches, replicas, batch),
     desired |-> replicas - stable,
     knob |-> Int32(Above(stable, 0))]

NativeDaemonSetContext(batches, replicas, batch, kept) ==
  DaemonSetContext(batches, replicas, batch, kept)

\* Variant with a bug: ordinals of kept pods are not added to the partition.
OrdinalsForgotten(batches, replicas, batch, kept) ==
  LET stable == DesiredStable(batches, replicas, batch, kept) IN
    [planned |-> CalculateBatchReplicas(batches, replicas, batch),
     desired |-> replicas - stable, knob |-> Int32(stable)]
\* Ordered updates: the partition is an ordinal, the kept pods are the lowest.
OrderedStatefulSetContext(batches, replicas, batch, kept) ==
  LET stable == DesiredStable(batches, replicas, batch, kept) + Above(kept, 0) IN
    [planned |-> CalculateBatchReplicas(batches, replicas, batch),
     desired |-> replicas - stable + Above(kept, 0),
     knob |-> Int32(stable)]

DeploymentContext(batches, replicas, batch) ==
  LET limit == NewRSReplicasLimit(batches[batch + 1], replicas) IN
    [planned |-> limit, desired |-> limit, knob |-> batches[batch + 1]]

\* The surge is limited like a partition.
BlueGreenDeploymentContext(batches, replicas, batch) ==
  DeploymentContext(batches, replicas, batch)

BlueGreenCloneSetContext(batches, replicas, batch) ==
  LET surge == Scaled(batches[batch + 1], replicas, TRUE) IN
    [planned |-> surge, desired |-> surge, knob |-> batches[batch + 1]]

\* PlannedUpdatedReplicas is not set: canary pods need no label to be ready.
CanaryContext(batches, replicas, batch) ==
  LET n == CalculateBatchReplicas(batches, replicas, batch) IN
    [planned |-> 0, desired |-> n, knob |-> Int32(n)]

MinReadyContext(batches, replicas, batch) ==
  LET n == CalculateBatchReplicas(batches, replicas, batch) IN
    [planned |-> n, desired |-> n, knob |-> Int32(n)]

-----------------------------------------------------------------------------
(* Batch readiness.                                                        *)

NoThreshold == Int32(0)

\* IsBatchReady with batchLabelSatisfied and allowedUnavailable.
IsBatchReady(ctx, updated, ready, labelled, threshold) ==
  /\ updated >= ctx.desired
  /\ Scaled(threshold, updated, TRUE) + ready >= ctx.desired
  /\ ctx.desired > 0 => ready > 0
  /\ labelled >= ctx.planned

-----------------------------------------------------------------------------
(* Batch labels.  labels[b] counts the updated pods that carry the label of *)
(* batch b (from 1) of the current rollout id.                             *)

PlannedUpTo(batches, replicas, batch, b) ==
  IF b \in 1..(batch + 1) THEN CalculateBatchReplicas(batches, replicas, b - 1) ELSE 0

\* calculatePlannedStepIncrements: batches above the current one get none.
PlannedStepIncrements(batches, replicas, batch) ==
  [b \in 1..Len(batches) |->
     IF b > batch + 1 THEN 0
     ELSE PlannedUpTo(batches, replicas, batch, b)
          - PlannedUpTo(batches, replicas, batch, b - 1)]

SumOver(f, S) == MapThenSumSet(LAMBDA b : f[b], S)

\* Variant with a bug: a negative rest is not noticed.
NewLabelsUnchecked(labels, increments, unlabelled) ==
  LET lack == [b \in DOMAIN increments |-> Above(0, increments[b] - labels[b])]
      before(b) == SumOver(lack, {c \in DOMAIN lack : c > b})
  IN [b \in DOMAIN increments |-> Below(unlabelled - before(b), lack[b])]
\* Pods that patchPodBatchLabel labels in batch b: the highest batch takes
\* what it lacks first, as long as unlabelled pods are left.  A label outside
\* the plan is no label.
NewLabels(labels, increments, unlabelled) ==
  LET lack == [b \in DOMAIN increments |-> Above(0, increments[b] - labels[b])]
      before(b) == SumOver(lack, {c \in DOMAIN lack : c > b})
  IN [b \in DOMAIN increments |-> Clamp(unlabelled - before(b), lack[b])]

\* How many of n pods, the last ones of a list, had a label outside the plan,
\* when others have no label and late of the former come last.
Overwritten(n, others, late) == Above(n - others, Below(n, late))

\* The labels afterwards; of those outside the plan, the highest are overwritten.
PatchPodBatchLabel(labels, new, overwritten) ==
  LET before(b) == SumOver(labels, {c \in DOMAIN labels : c > b}) IN
    [b \in DOMAIN labels |->
       IF b \in DOMAIN new THEN labels[b] + new[b]
       ELSE labels[b] - Clamp(overwritten - before(b), labels[b])]

\* FilterPodsForUnorderedUpdate: how many of the kept, not yet labelled pods
\* may be labelled.
KeptPodsToLabel(ctx, keptUnlabelled) ==
  LET needUpdate == ctx.desired - keptUnlabelled IN
    IF needUpdate <= 0 THEN keptUnlabelled
    ELSE Clamp(ctx.planned - needUpdate, keptUnlabelled)

\* FilterPodsForOrderedUpdate: pods below the partition, in ordinal order.
OrderedPodsToLabel(ctx, replicas, keptLabelled, keptUnlabelled) ==
  LET needUpdate == replicas - ctx.knob.n IN
    IF needUpdate <= 0 THEN keptUnlabelled
    ELSE Clamp(Below(ctx.planned - needUpdate, keptLabelled + keptUnlabelled)
                 - keptLabelled, keptUnlabelled)
=============================================================================
