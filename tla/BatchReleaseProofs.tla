------------------------- MODULE BatchReleaseProofs -------------------------
(***************************************************************************)
(* Theorems about the BatchRelease controller, for every kind of workload,  *)
(* plan and size: type correctness (TypeCorrect), the percentage of a        *)
(* CloneSet (KnobIsExactAlways), the blast radius (BlastRadiusHolds), and    *)
(* what a round may make, open and give back (OneCanaryCopyHolds,            *)
(* MinReadyBudgetHolds, HandedBackHolds).                                    *)
(***************************************************************************)
EXTENDS BatchReleaseProperties, SumProofs

\* What a control plane operation returns.
Results == [w : Workloads, mid : Workloads, s : Statuses, ok : Flags]

\* The longest plan has a length, which bounds the labels of pods.
LEMMA MaxBatchIsNat == MaxBatch \in Nat /\ \A p \in Plans : Len(p) <= MaxBatch
<1>1. PICK q \in Plans : \A p \in Plans : Len(p) <= Len(q)
  BY PlansAssumption
<1>2. \A p \in Plans : Len(p) \in Nat
  BY PlansAssumption
<1>. DEFINE S == {Len(p) : p \in Plans}
<1>3. Len(q) \in S /\ \A y \in S : Len(q) >= y
  BY <1>1, <1>2
<1>4. Max(S) \in S /\ \A y \in S : Max(S) >= y
  <2>. HIDE DEF S
  <2>. QED BY <1>3, Zenon DEF Max
<1>. QED BY <1>2, <1>4 DEF MaxBatch

\* A clamped number is a natural number up to the top.
LEMMA ClampIsNat ==
  ASSUME NEW x \in Int, NEW top \in Int
  PROVE  Clamp(x, top) \in Nat /\ (top >= 0 => Clamp(x, top) <= top)
BY DEF Clamp, Above, Below

\* Both kinds of intstr are values a strategy can have.
LEMMA KnobIsTyped ==
  ASSUME NEW n \in Int
  PROVE  Int32(n) \in Knobs /\ Percent(n) \in Knobs
BY DEF Int32, Percent, Knobs, Flags, Indexes

\* Resolving an intstr gives an integer.
LEMMA ScaledIsInt ==
  ASSUME NEW x \in Knobs, NEW total \in Int
  PROVE  Scaled(x, total, TRUE) \in Int
BY DEF Scaled, Knobs, Indexes

\* A batch of a plan asks for a natural number of pods.
LEMMA CalculateIsNat ==
  ASSUME NEW b \in Plans, NEW replicas \in Int, NEW i \in Nat, i < Len(b)
  PROVE  b[i + 1] \in Knobs /\ CalculateBatchReplicas(b, replicas, i) \in Nat
<1>1. b[i + 1] \in Knobs
  BY PlansAssumption
<1>. QED BY <1>1, ScaledIsInt, ClampIsNat DEF CalculateBatchReplicas

Contexts == [planned : Int, desired : Int, knob : Knobs]

\* The pods a batch leaves on the old revision are a number.
LEMMA DesiredStableIsInt ==
  ASSUME NEW b \in Plans, NEW replicas \in Int, NEW i \in Nat, i < Len(b), NEW kept \in Int
  PROVE  DesiredStable(b, replicas, i, kept) \in Int
<1>1. replicas - Above(kept, 0) \in Int
  BY DEF Above
<1>. QED BY <1>1, CalculateIsNat DEF DesiredStable

\* The percentage a CloneSet is given is an intstr.
LEMMA PercentageIsTyped ==
  ASSUME NEW stable \in Int, NEW all \in Nat \ {0}, NEW canary
  PROVE  ParseIntegerAsPercentageIfPossible(stable, all, canary) \in Knobs
<1>1. (stable * 100) \div all \in Int
  OBVIOUS
<1>2. /\ Percent((stable * 100) \div all) \in Knobs /\ Percent(100) \in Knobs
      /\ Percent(0) \in Knobs /\ Percent(1) \in Knobs
  BY <1>1, KnobIsTyped
<1>. QED BY <1>2, Zenon DEF ParseIntegerAsPercentageIfPossible

\* The advanced Deployment controller's limit lies between none and all replicas.
LEMMA LimitIsNat ==
  ASSUME NEW x \in Knobs, NEW n \in Nat
  PROVE  NewRSReplicasLimit(x, n) \in Nat /\ NewRSReplicasLimit(x, n) <= n
<1>. DEFINE c == Clamp(Scaled(x, n, TRUE), n)
<1>1. n \in Int /\ n >= 0
  OBVIOUS
<1>2. c \in Nat /\ c <= n
  BY <1>1, ScaledIsInt, ClampIsNat, Zenon
<1>3. \/ NewRSReplicasLimit(x, n) = c
      \/ n > 1 /\ NewRSReplicasLimit(x, n) = Below(c, n - 1)
  BY Zenon DEF NewRSReplicasLimit
<1>. HIDE DEF c
<1>. QED BY <1>2, <1>3 DEF Below

\* The context of a batch within the plan has two numbers and an intstr, for
\* every kind.
LEMMA ContextIsTyped ==
  ASSUME TypeOK, NEW w \in Workloads, w.replicas # 0,
         NEW s \in Statuses, s.batch < Len(plan.batches)
  PROVE  BatchContext(w, s) \in Contexts
<1>1. /\ w.replicas \in Nat \ {0} /\ s.batch \in Nat /\ s.kept \in Int
      /\ plan.batches \in Plans
  BY DEF TypeOK, BatchReleases, Workloads, Statuses, Counts, Indexes
<1>. DEFINE b == plan.batches
            n == w.replicas
            i == s.batch
            k == s.kept
<1>. HIDE DEF b, n, i, k
<1>2. b \in Plans /\ n \in Nat \ {0} /\ i \in Nat /\ k \in Int /\ i < Len(b)
  BY <1>1 DEF b, n, i, k
<1>3. /\ b[i + 1] \in Knobs /\ CalculateBatchReplicas(b, n, i) \in Nat
      /\ DesiredStable(b, n, i, k) \in Int
  <2>1. b[i + 1] \in Knobs /\ CalculateBatchReplicas(b, n, i) \in Nat
    BY <1>2, CalculateIsNat
  <2>2. DesiredStable(b, n, i, k) \in Int
    BY <1>2, DesiredStableIsInt
  <2>. QED BY <2>1, <2>2
<1>4. CloneSetContext(b, n, i, k) \in Contexts
  <2>1. /\ Int32(DesiredStable(b, n, i, k)) \in Knobs
        /\ ParseIntegerAsPercentageIfPossible(DesiredStable(b, n, i, k), n, b[i + 1]) \in Knobs
    BY <1>2, <1>3, KnobIsTyped, PercentageIsTyped
  <2>. QED BY <1>2, <1>3, <2>1 DEF CloneSetContext, Contexts
<1>5. DaemonSetContext(b, n, i, k) \in Contexts /\ NativeDaemonSetContext(b, n, i, k) \in Contexts
  <2>1. Int32(Above(DesiredStable(b, n, i, k), 0)) \in Knobs
    BY <1>3, KnobIsTyped DEF Above
  <2>. QED BY <1>2, <1>3, <2>1 DEF DaemonSetContext, NativeDaemonSetContext, Contexts
<1>6. OrderedStatefulSetContext(b, n, i, k) \in Contexts
  <2>1. DesiredStable(b, n, i, k) + Above(k, 0) \in Int
    BY <1>2, <1>3 DEF Above
  <2>2. Int32(DesiredStable(b, n, i, k) + Above(k, 0)) \in Knobs /\ Above(k, 0) \in Int
    BY <1>2, <2>1, KnobIsTyped DEF Above
  <2>. QED BY <1>2, <1>3, <2>1, <2>2 DEF OrderedStatefulSetContext, Contexts
<1>7. DeploymentContext(b, n, i) \in Contexts /\ BlueGreenDeploymentContext(b, n, i) \in Contexts
  BY <1>2, <1>3, LimitIsNat DEF DeploymentContext, BlueGreenDeploymentContext, Contexts
<1>8. BlueGreenCloneSetContext(b, n, i) \in Contexts
  <2>1. n \in Int
    BY <1>2
  <2>2. Scaled(b[i + 1], n, TRUE) \in Int
    BY <1>3, <2>1, ScaledIsInt, Zenon
  <2>. QED BY <1>3, <2>2 DEF BlueGreenCloneSetContext, Contexts
<1>9. MinReadyContext(b, n, i) \in Contexts /\ CanaryContext(b, n, i) \in Contexts
  BY <1>2, <1>3, KnobIsTyped DEF MinReadyContext, CanaryContext, Contexts
<1>10. kind \in AllKinds
  BY KindsAssumption DEF TypeOK
<1>. QED
  BY <1>4, <1>5, <1>6, <1>7, <1>8, <1>9, <1>10, Zenon
  DEF BatchContext, AllKinds, PartitionKinds, StableKnob, StatefulSets, BlueGreenKinds, b, n, i, k

-----------------------------------------------------------------------------
(* Pod batch labels.                                                       *)

\* There is one planned increment for every batch of the plan.
LEMMA IncrementsAreTyped ==
  ASSUME NEW b \in Plans, NEW n \in Nat, NEW i \in Nat
  PROVE  PlannedStepIncrements(b, n, i) \in [1..Len(b) -> Int]
<1>1. Len(b) \in Nat
  BY PlansAssumption
<1>2. \A j \in 0..Len(b) : PlannedUpTo(b, n, i, j) \in Int
  <2>1. SUFFICES ASSUME NEW j \in 1..Len(b)
                 PROVE  CalculateBatchReplicas(b, n, j - 1) \in Int
    BY DEF PlannedUpTo
  <2>2. n \in Int /\ j - 1 \in Nat /\ j - 1 < Len(b)
    BY <1>1
  <2>3. CalculateBatchReplicas(b, n, j - 1) \in Nat
    BY <2>2, CalculateIsNat
  <2>. QED BY <2>3
<1>3. \A j \in 1..Len(b) : PlannedUpTo(b, n, i, j) \in Int /\ PlannedUpTo(b, n, i, j - 1) \in Int
  BY <1>1, <1>2
<1>. QED BY <1>3 DEF PlannedStepIncrements

\* The labels add up to a natural number.
LEMMA LabelledIsNat ==
  ASSUME NEW labels \in LabelCounts
  PROVE  SumOver(labels, DOMAIN labels) \in Nat
<1>1. DOMAIN labels = 1..MaxBatch /\ \A b \in 1..MaxBatch : labels[b] \in Nat
  BY DEF LabelCounts
<1>2. IsFiniteSet(1..MaxBatch)
  BY MaxBatchIsNat, FS_Interval
<1>. QED BY <1>1, <1>2, SumIsNat

\* The labels given out are natural numbers, one for every batch of the plan.
LEMMA NewLabelsTyped ==
  ASSUME NEW labels \in LabelCounts, NEW m \in Nat, m <= MaxBatch,
         NEW increments \in [1..m -> Int], NEW unlabelled \in Int
  PROVE  /\ NewLabels(labels, increments, unlabelled) \in [1..m -> Nat]
         /\ SumOver(NewLabels(labels, increments, unlabelled), 1..m) \in Nat
<1>. DEFINE lack == [b \in DOMAIN increments |-> Above(0, increments[b] - labels[b])]
            before(b) == SumOver(lack, {c \in DOMAIN lack : c > b})
            new == NewLabels(labels, increments, unlabelled)
<1>1. MaxBatch \in Nat
  BY MaxBatchIsNat
<1>2. \A b \in 1..m : labels[b] \in Nat
  BY <1>1 DEF LabelCounts
<1>3. DOMAIN lack = 1..m /\ \A b \in 1..m : lack[b] \in Nat
  BY <1>2 DEF Above
<1>. HIDE DEF lack
<1>4. \A b \in 1..m : before(b) \in Nat
  <2>. TAKE b \in 1..m
  <2>1. IsFiniteSet({c \in DOMAIN lack : c > b})
    BY <1>3, FS_Interval, FS_Subset
  <2>. QED BY <1>3, <2>1, SumIsNat
<1>. HIDE DEF before
<1>5. \A b \in 1..m : Clamp(unlabelled - before(b), lack[b]) \in Nat
  <2>. TAKE b \in 1..m
  <2>1. unlabelled - before(b) \in Int /\ lack[b] \in Int
    BY <1>3, <1>4
  <2>. QED BY <2>1, ClampIsNat
<1>6. new = [b \in DOMAIN increments |-> Clamp(unlabelled - before(b), lack[b])]
  BY Zenon DEF NewLabels, before, lack
<1>7. new \in [1..m -> Nat]
  BY <1>5, <1>6
<1>. HIDE DEF new
<1>8. SumOver(new, 1..m) \in Nat
  BY <1>7, FS_Interval, SumIsNat
<1>. QED BY <1>7, <1>8 DEF new

\* Giving out batch labels leaves a number of labels for every batch.
LEMMA LabelsStayTyped ==
  ASSUME NEW labels \in LabelCounts, NEW m \in Nat,
         NEW new \in [1..m -> Nat], NEW overwritten \in Int
  PROVE  PatchPodBatchLabel(labels, new, overwritten) \in LabelCounts
<1>. DEFINE before(b) == SumOver(labels, {c \in DOMAIN labels : c > b})
<1>1. DOMAIN labels = 1..MaxBatch /\ \A b \in 1..MaxBatch : labels[b] \in Nat
  BY DEF LabelCounts
<1>2. \A b \in 1..MaxBatch : before(b) \in Nat
  <2>. TAKE b \in 1..MaxBatch
  <2>1. IsFiniteSet({c \in DOMAIN labels : c > b})
    BY <1>1, MaxBatchIsNat, FS_Interval, FS_Subset
  <2>. QED BY <1>1, <2>1, SumIsNat
<1>. HIDE DEF before
<1>3. \A b \in 1..MaxBatch : labels[b] - Clamp(overwritten - before(b), labels[b]) \in Nat
  BY <1>1, <1>2 DEF Clamp, Above, Below
<1>4. \A b \in DOMAIN new : b \in 1..MaxBatch => labels[b] + new[b] \in Nat
  BY <1>1
<1>5. PatchPodBatchLabel(labels, new, overwritten)
        = [b \in 1..MaxBatch |->
             IF b \in DOMAIN new THEN labels[b] + new[b]
             ELSE labels[b] - Clamp(overwritten - before(b), labels[b])]
  BY <1>1, Zenon DEF PatchPodBatchLabel, before
<1>. QED BY <1>3, <1>4, <1>5 DEF LabelCounts

\* Labels outside a plan add up to a natural number.
LEMMA OutsideIsNat ==
  ASSUME NEW labels \in LabelCounts, NEW batches
  PROVE  LabelsOutside(labels, batches) \in Nat
<1>1. DOMAIN labels = 1..MaxBatch /\ \A b \in 1..MaxBatch : labels[b] \in Nat
  BY DEF LabelCounts
<1>2. IsFiniteSet(DOMAIN labels \ DOMAIN batches)
  BY <1>1, MaxBatchIsNat, FS_Interval, FS_Subset
<1>. QED BY <1>1, <1>2, SumIsNat DEF LabelsOutside

\* The types of a workload's fields.
LEMMA WorkloadFields ==
  ASSUME NEW w \in Workloads
  PROVE  /\ w.exists \in BOOLEAN /\ w.replicas \in Nat /\ w.stable \in Revisions
         /\ w.update \in Revisions /\ w.observed \in BOOLEAN /\ w.owner \in BOOLEAN
         /\ w.own \in BOOLEAN /\ w.knob \in Knobs /\ w.low \in Nat /\ w.paused \in BOOLEAN
         /\ w.frozen \in BOOLEAN /\ w.hpa \in BOOLEAN /\ w.labels \in LabelCounts
         /\ w.marked \in Nat /\ w.markedLabelled \in Int /\ w.copy \in Copies
         /\ w.copy.made \in Nat /\ w.copy.seen \in BOOLEAN /\ w.copy.expected \in Expectations
         /\ w.copy.rev \in RevisionsOrNone /\ w.copy.size \in Nat /\ w.copy.pods \in Nat
         /\ w.copy.synced \in BOOLEAN
<1>1. w.copy \in Copies
  BY DEF Workloads
<1>2. /\ w.copy.made \in Nat /\ w.copy.seen \in BOOLEAN /\ w.copy.expected \in Expectations
      /\ w.copy.rev \in RevisionsOrNone /\ w.copy.size \in Nat /\ w.copy.pods \in Nat
      /\ w.copy.synced \in BOOLEAN
  BY <1>1 DEF Copies, Flags, Counts
<1>. QED BY <1>1, <1>2 DEF Workloads, Flags, Counts, Indexes

\* The updated pods are a natural number.
LEMMA UpdatedIsNat ==
  ASSUME TypeOK, NEW w \in Workloads
  PROVE  UpdatedPods(w) \in Nat
<1>1. w.update \in Revisions /\ w.copy.pods \in Nat
  BY WorkloadFields
<1>. QED BY <1>1 DEF UpdatedPods, TypeOK

\* So are the kept pods that may be labelled, up to the sign.
LEMMA KeptToLabelIsInt ==
  ASSUME TypeOK, NEW w \in Workloads, NEW s \in Statuses, NEW ctx \in Contexts
  PROVE  KeptToLabel(w, s, ctx) \in Int
<1>. DEFINE u == w.marked - w.markedLabelled
<1>1. w.replicas \in Int /\ w.markedLabelled \in Int /\ u \in Int
  BY WorkloadFields
<1>2. ctx.desired \in Int /\ ctx.planned \in Int /\ ctx.knob.n \in Int
  BY DEF Contexts, Knobs, Indexes
<1>. HIDE DEF u
<1>3. KeptPodsToLabel(ctx, u) \in Int
  BY <1>1, <1>2 DEF KeptPodsToLabel, Clamp, Above, Below
<1>4. OrderedPodsToLabel(ctx, w.replicas, w.markedLabelled, u) \in Int
  BY <1>1, <1>2 DEF OrderedPodsToLabel, Clamp, Above, Below
<1>. QED BY <1>1, <1>3, <1>4, Zenon DEF KeptToLabel, u

\* Labelling changes the labels of a workload and nothing else.
LEMMA PatchPodsTyped ==
  ASSUME TypeOK, NEW w \in Workloads, w.replicas # 0,
         NEW s \in Statuses, s.batch < Len(plan.batches)
  PROVE  /\ PatchPods(w, s) \in Workloads
         /\ \E labels, n : PatchPods(w, s) = [w EXCEPT !.labels = labels, !.markedLabelled = n]
<1>. DEFINE ctx == BatchContext(w, s)
            kept == KeptToLabel(w, s, ctx)
            increments == PlannedStepIncrements(plan.batches, w.replicas, s.batch)
            others == UpdatedPods(w) - w.marked - (Labelled(w) - w.markedLabelled)
            outside == LabelsOutside(w.labels, plan.batches)
            given == NewLabels(w.labels, increments, others + outside + kept)
            total == SumOver(given, DOMAIN given)
            over == Overwritten(Above(0, total - kept), others, Below(listed, outside))
            new == PatchPodBatchLabel(w.labels, given, over)
            n == w.markedLabelled + Below(kept, total)
<1>1. CASE plan.rid = 0
  <2>1. PatchPods(w, s) = w
    BY <1>1 DEF PatchPods
  <2>2. w = [w EXCEPT !.labels = w.labels, !.markedLabelled = w.markedLabelled]
    BY DEF Workloads
  <2>. QED BY <2>1, <2>2
<1>2. CASE plan.rid # 0
  <2>1. kept \in Int
    BY ContextIsTyped, KeptToLabelIsInt
  <2>2. w.labels \in LabelCounts /\ w.marked \in Int /\ w.markedLabelled \in Int /\ w.replicas \in Nat
    BY WorkloadFields
  <2>3. Labelled(w) \in Nat
    BY <2>2, LabelledIsNat DEF Labelled
  <2>4. others \in Int /\ outside \in Nat /\ others + outside + kept \in Int /\ listed \in Nat
    <3>1. outside \in Nat
      BY <2>2, OutsideIsNat, Zenon
    <3>2. listed \in Nat
      BY DEF TypeOK
    <3>3. others \in Int
      BY <2>2, <2>3, UpdatedIsNat
    <3>. HIDE DEF others, outside, kept
    <3>. QED BY <2>1, <3>1, <3>2, <3>3
  <2>5. /\ plan.batches \in Plans /\ Len(plan.batches) \in Nat /\ Len(plan.batches) <= MaxBatch
        /\ s.batch \in Nat
    <3>1. plan.batches \in Plans /\ s.batch \in Nat
      BY DEF TypeOK, BatchReleases, Statuses, Counts
    <3>. QED BY <3>1, PlansAssumption, MaxBatchIsNat
  <2>6. increments \in [1..Len(plan.batches) -> Int]
    BY <2>2, <2>5, IncrementsAreTyped
  <2>. HIDE DEF increments, others, kept, outside
  <2>7. given \in [1..Len(plan.batches) -> Nat] /\ total \in Nat
    <3>1. given \in [1..Len(plan.batches) -> Nat] /\ SumOver(given, 1..Len(plan.batches)) \in Nat
      BY <2>2, <2>4, <2>5, <2>6, NewLabelsTyped
    <3>. HIDE DEF given
    <3>. QED BY <3>1
  <2>8. PatchPods(w, s) = [w EXCEPT !.labels = new, !.markedLabelled = n]
    BY <1>2, Zenon DEF PatchPods, increments, others, kept, outside
  <2>. HIDE DEF given, total
  <2>9. over \in Int /\ n \in Int
    BY <2>1, <2>2, <2>4, <2>7 DEF Overwritten, Above, Below
  <2>. HIDE DEF over
  <2>11. new \in LabelCounts
    BY <2>2, <2>5, <2>7, <2>9, LabelsStayTyped
  <2>. HIDE DEF new, n
  <2>10. [w EXCEPT !.labels = new, !.markedLabelled = n] \in Workloads
    BY <2>9, <2>11 DEF Workloads, Indexes
  <2>. QED BY <2>8, <2>10
<1>. QED BY <1>1, <1>2

-----------------------------------------------------------------------------
(* The control planes.                                                     *)

\* The constants the control planes write are values of an intstr.
LEMMA KnobsOfTheCode ==
  Unset \in Knobs /\ Unreached \in Knobs /\ Int32(1) \in Knobs /\ Percent(100) \in Knobs
BY KnobIsTyped DEF Unset, Unreached

\* A patched workload is a workload.
LEMMA PatchedTyped ==
  ASSUME NEW w \in Workloads
  PROVE  Patched(w) \in Workloads /\ \A w1 \in Workloads : Change(w, w1) \in Workloads
<1>1. \A w1 \in Workloads : Patched(w1) \in Workloads
  BY DEF Patched, Workloads, Flags
<1>. QED BY <1>1 DEF Change

\* A claimed workload is a workload.
LEMMA ClaimTyped ==
  ASSUME NEW w \in Workloads
  PROVE  /\ \A knob \in Knobs : Claim(w, knob) \in Workloads
         /\ ClaimNativeDaemonSet(w) \in Workloads
         /\ ClaimDeployment(w) \in Workloads
         /\ ClaimMinReady(w) \in Workloads
<1>. DEFINE p == Patched(w)
<1>1. p \in Workloads
  BY PatchedTyped
<1>. HIDE DEF p
<1>2. \A knob \in Knobs :
        [p EXCEPT !.owner = TRUE, !.own = FALSE, !.paused = FALSE, !.knob = knob] \in Workloads
  BY <1>1 DEF Workloads, Flags
<1>3. [p EXCEPT !.owner = TRUE, !.own = FALSE] \in Workloads
  BY <1>1 DEF Workloads, Flags
<1>4. [p EXCEPT !.owner = TRUE, !.own = FALSE, !.paused = TRUE, !.frozen = FALSE, !.knob = Unset]
        \in Workloads
  BY <1>1, KnobsOfTheCode DEF Workloads, Flags
<1>5. [w EXCEPT !.owner = TRUE, !.own = FALSE, !.paused = FALSE, !.knob = Unset] \in Workloads
  BY KnobsOfTheCode DEF Workloads, Flags
<1>6. ClaimMinReady(w) \in Workloads
  BY <1>5, PatchedTyped DEF ClaimMinReady
<1>. QED BY <1>2, <1>3, <1>4, <1>6 DEF Claim, ClaimNativeDaemonSet, ClaimDeployment, p

\* Every kind has one of the three styles.
LEMMA KindIsKnown ==
  ASSUME TypeOK
  PROVE  /\ kind \in AllKinds
         /\ kind \in PartitionKinds \/ kind \in BlueGreenKinds \/ kind = "Canary"
         /\ kind \in PartitionKinds =>
              kind \in {"CloneSet", "DaemonSet", "StatefulSet", "OrderedStatefulSet",
                        "NativeDaemonSet", "Deployment", "MinReady"}
BY KindsAssumption DEF TypeOK, AllKinds, PartitionKinds, StableKnob, StatefulSets

\* Claiming of any partition-style kind leaves a workload.
LEMMA ClaimPartitionTyped ==
  ASSUME TypeOK, kind \in PartitionKinds, NEW w \in Workloads
  PROVE  ClaimPartition(w) \in Workloads
<1>1. Int32(w.replicas) \in Knobs
  <2>1. w.replicas \in Int
    BY WorkloadFields
  <2>. QED BY <2>1, KnobIsTyped
<1>2. /\ ClaimCloneSet(w) \in Workloads /\ ClaimDaemonSet(w) \in Workloads
      /\ ClaimStatefulSet(w) \in Workloads
  BY <1>1, ClaimTyped, KnobsOfTheCode DEF ClaimCloneSet, ClaimDaemonSet, ClaimStatefulSet
<1>. QED
  BY <1>2, ClaimTyped, KindIsKnown, Zenon DEF ClaimPartition, StatefulSets

\* The types of a status's fields.
LEMMA StatusFields ==
  ASSUME NEW s \in Statuses
  PROVE  /\ s.phase \in Phases /\ s.batch \in Nat /\ s.hash \in Specs /\ s.rid \in Nat
         /\ s.state \in {"", "Upgrading", "Verifying", "Ready"}
         /\ s.replicas \in Int /\ s.stable \in RevisionsOrNone /\ s.update \in RevisionsOrNone
         /\ s.kept \in Int /\ s.updated \in Nat /\ s.ready \in Nat /\ s.seen \in BOOLEAN
BY DEF Statuses, Flags, Counts, Indexes

\* A status with another number of kept pods is a status.
LEMMA KeptTyped ==
  ASSUME NEW s \in Statuses, NEW k \in Int
  PROVE  [s EXCEPT !.kept = k] \in Statuses
BY DEF Statuses, Indexes

\* A status that records the workload is a status.
LEMMA RecordedTyped ==
  ASSUME NEW w \in Workloads, NEW s \in Statuses
  PROVE  Recorded(w, s) \in Statuses
<1>1. StableRevision(w) \in RevisionsOrNone /\ w.update \in RevisionsOrNone
  BY WorkloadFields DEF StableRevision, RevisionsOrNone
<1>2. w.replicas \in Int
  BY WorkloadFields
<1>. QED BY <1>1, <1>2 DEF Recorded, Statuses, Indexes

\* A result of a workload and a status is a result, cut off or not.
LEMMA ResultTyped ==
  ASSUME NEW w \in Workloads, NEW m \in Workloads, NEW s \in Statuses, NEW ok \in BOOLEAN
  PROVE  Result(w, s, ok) \in Results /\ [Result(w, s, ok) EXCEPT !.mid = m] \in Results
BY DEF Result, Results, Flags

\* Initialize of the partition style returns a result.
LEMMA InitializePartitionTyped ==
  ASSUME TypeOK, kind \in PartitionKinds, NEW w \in Workloads, NEW s \in Statuses
  PROVE  InitializePartition(w, s) \in Results
<1>. DEFINE w1 == ClaimPartition(w)
            s1 == Recorded(w, s)
            n == pods[w.update]
<1>1. w1 \in Workloads /\ s1 \in Statuses
  BY ClaimPartitionTyped, RecordedTyped
<1>2. n \in Nat /\ s.updated \in Int
  <2>1. w.update \in Revisions
    BY WorkloadFields
  <2>2. n \in Nat
    BY <2>1 DEF TypeOK
  <2>3. s.updated \in Nat
    BY StatusFields
  <2>. QED BY <2>2, <2>3
<1>. HIDE DEF w1, s1, n
<1>3. [s1 EXCEPT !.kept = n] \in Statuses /\ [s1 EXCEPT !.kept = s.updated] \in Statuses
  BY <1>1, <1>2, KeptTyped
<1>4. [w1 EXCEPT !.marked = n] \in Workloads
  BY <1>1, <1>2 DEF Workloads, Counts
<1>5. /\ Result(w1, s1, TRUE) \in Results
      /\ Result(w1, [s1 EXCEPT !.kept = s.updated], TRUE) \in Results
      /\ Result(w1, [s1 EXCEPT !.kept = n], TRUE) \in Results
      /\ [Result([w1 EXCEPT !.marked = n], s1, FALSE) EXCEPT !.mid = w1] \in Results
  BY <1>1, <1>3, <1>4, ResultTyped, Zenon
<1>6. plan.anno \in BOOLEAN
  BY DEF TypeOK, BatchReleases, Flags
<1>. QED BY <1>5, <1>6, Zenon DEF InitializePartition, w1, s1, n

\* Moving the window leaves a workload.
LEMMA WindowTyped ==
  ASSUME TypeOK, NEW w \in Workloads, NEW target \in Int
  PROVE  Window(w, target) \in Workloads
<1>. DEFINE next == Below(ready + MinReadyStep, target)
<1>1. next \in Int
  BY StepAssumption DEF TypeOK, Below
<1>. HIDE DEF next
<1>2. Int32(target) \in Knobs /\ Int32(next) \in Knobs
  BY <1>1, KnobIsTyped
<1>. DEFINE p == Patched(w)
<1>3. p \in Workloads
  BY PatchedTyped
<1>. HIDE DEF p
<1>4. [p EXCEPT !.knob = Int32(target)] \in Workloads /\ [p EXCEPT !.knob = Int32(next)] \in Workloads
  BY <1>2, <1>3 DEF Workloads
<1>. QED BY <1>4, Zenon DEF Window, p, next

\* Raising a batch leaves a workload.
LEMMA RaiseTyped ==
  ASSUME TypeOK, kind \in PartitionKinds, NEW w \in Workloads, NEW ctx \in Contexts
  PROVE  Raise(w, ctx) \in Workloads
<1>. DEFINE p == Patched(w)
<1>1. p \in Workloads /\ ctx.knob \in Knobs /\ ctx.desired \in Int
  BY PatchedTyped DEF Contexts
<1>. HIDE DEF p
<1>2. [w EXCEPT !.knob = ctx.knob] \in Workloads /\ [p EXCEPT !.knob = ctx.knob] \in Workloads
  BY <1>1 DEF Workloads
<1>3. [p EXCEPT !.own = FALSE, !.knob = Unset] \in Workloads
  BY <1>1, KnobsOfTheCode DEF Workloads, Flags
<1>4. /\ UpgradeCloneSet(w, ctx) \in Workloads /\ UpgradeDaemonSet(w, ctx) \in Workloads
      /\ UpgradeStatefulSet(w, ctx) \in Workloads /\ UpgradeNativeDaemonSet(w, ctx) \in Workloads
      /\ UpgradeDeployment(w, ctx) \in Workloads
  BY <1>2, Zenon
  DEF UpgradeCloneSet, UpgradeDaemonSet, UpgradeStatefulSet, UpgradeNativeDaemonSet,
      UpgradeDeployment, Lower, p
<1>5. UpgradeMinReady(w, ctx) \in Workloads
  BY <1>1, <1>3, WindowTyped, Zenon DEF UpgradeMinReady, p
<1>. QED BY <1>4, <1>5, KindIsKnown, Zenon DEF Raise, StatefulSets

\* Raising a batch does not scale the workload.
LEMMA RaiseKeeps ==
  ASSUME TypeOK, kind \in PartitionKinds, NEW w \in Workloads, NEW ctx \in Contexts
  PROVE  Raise(w, ctx).replicas = w.replicas
<1>. DEFINE p == Patched(w)
<1>1. p.replicas = w.replicas /\ p \in Workloads
  BY PatchedTyped DEF Patched, Workloads
<1>. HIDE DEF p
<1>2. /\ [w EXCEPT !.knob = ctx.knob].replicas = w.replicas
      /\ [p EXCEPT !.knob = ctx.knob].replicas = w.replicas
  BY <1>1 DEF Workloads
<1>3. ASSUME NEW w1 \in Workloads, NEW target
      PROVE  Window(w1, target).replicas = w1.replicas
  <2>1. \A k : [Patched(w1) EXCEPT !.knob = k].replicas = w1.replicas
    BY DEF Patched, Workloads
  <2>. QED BY <2>1, Zenon DEF Window
<1>4. [p EXCEPT !.own = FALSE, !.knob = Unset].replicas = w.replicas
      /\ [p EXCEPT !.own = FALSE, !.knob = Unset] \in Workloads
  BY <1>1, KnobsOfTheCode DEF Workloads, Flags
<1>5. UpgradeMinReady(w, ctx).replicas = w.replicas
  BY <1>3, <1>4, Zenon DEF UpgradeMinReady, p
<1>. QED
  BY <1>2, <1>5, KindIsKnown, Zenon
  DEF Raise, StatefulSets, UpgradeCloneSet, UpgradeDaemonSet, UpgradeStatefulSet,
      UpgradeNativeDaemonSet, UpgradeDeployment, Lower, p

\* UpgradeBatch and the verification of the partition style return results.
LEMMA UpgradePartitionTyped ==
  ASSUME TypeOK, kind \in PartitionKinds, NEW w \in Workloads, w.replicas # 0,
         NEW s \in Statuses, s.batch < Len(plan.batches)
  PROVE  /\ UpgradePartition(w, s) \in Results
         /\ VerifyPartition(w, s) \in Results
<1>. DEFINE s1 == IF plan.rid # 0 /\ s.kept # Nil THEN [s EXCEPT !.kept = w.marked] ELSE s
            w1 == Raise(w, BatchContext(w, s1))
<1>1. w.marked \in Int
  BY WorkloadFields
<1>2. s1 \in Statuses /\ s1.batch = s.batch
  BY <1>1, KeptTyped DEF Statuses
<1>. HIDE DEF s1
<1>3. BatchContext(w, s) \in Contexts /\ BatchContext(w, s1) \in Contexts
  BY <1>2, ContextIsTyped
<1>4. w1 \in Workloads /\ w1.replicas # 0 /\ Raise(w, BatchContext(w, s)) \in Workloads
  BY <1>3, RaiseTyped, RaiseKeeps
<1>. HIDE DEF w1
<1>5. PatchPods(w1, s1) \in Workloads
  BY <1>2, <1>4, PatchPodsTyped
<1>6. UpgradePartition(w, s) = [Result(PatchPods(w1, s1), s1, TRUE) EXCEPT !.mid = w1]
  BY Zenon DEF UpgradePartition, s1, w1
<1>7. BatchReady(w, s) \in BOOLEAN
  BY Zenon DEF BatchReady, IsBatchReady
<1>. QED BY <1>2, <1>4, <1>5, <1>6, <1>7, ResultTyped, Zenon DEF VerifyPartition

\* Finalize of the partition style returns a result.
LEMMA FinalizePartitionTyped ==
  ASSUME TypeOK, kind \in PartitionKinds, NEW w \in Workloads, NEW s \in Statuses
  PROVE  FinalizePartition(w, s) \in Results
<1>1. Freed(w) \in Workloads /\ Left(w) \in Workloads
  <2>. DEFINE p == Patched(w)
  <2>1. p \in Workloads
    BY PatchedTyped
  <2>. HIDE DEF p
  <2>2. [p EXCEPT !.owner = FALSE, !.own = TRUE, !.paused = FALSE, !.knob = Unset] \in Workloads
    BY <2>1, KnobsOfTheCode DEF Workloads, Flags
  <2>3. [w EXCEPT !.owner = FALSE] \in Workloads
    BY DEF Workloads, Flags
  <2>. QED BY <2>2, <2>3 DEF Freed, Left, p
<1>2. [Left(w) EXCEPT !.knob = Unreached] \in Workloads
  BY <1>1, KnobsOfTheCode DEF Workloads
<1>3. [Freed(w) EXCEPT !.paused = Stay, !.frozen = FALSE] \in Workloads
  <2>1. Stay \in BOOLEAN
    BY Zenon DEF Stay
  <2>. QED BY <1>1, <2>1 DEF Workloads, Flags
<1>4. /\ FinalizeCloneSet(w) \in Workloads /\ FinalizeStatefulSet(w) \in Workloads
      /\ FinalizeDaemonSet(w) \in Workloads /\ FinalizeNativeDaemonSet(w) \in Workloads
      /\ FinalizeMinReady(w) \in Workloads
  BY <1>1, <1>2, Zenon DEF FinalizeCloneSet, FinalizeStatefulSet, FinalizeDaemonSet,
                           FinalizeNativeDaemonSet, FinalizeMinReady
<1>5. FinalizeDeployment(w) \in Workloads
  <2>1. Promote \in BOOLEAN
    BY Zenon DEF Promote
  <2>. QED BY <1>1, <1>3, <2>1, Zenon DEF FinalizeDeployment
<1>. DEFINE w1 == CASE kind = "CloneSet" -> FinalizeCloneSet(w)
                    [] kind \in StatefulSets -> FinalizeStatefulSet(w)
                    [] kind = "DaemonSet" -> FinalizeDaemonSet(w)
                    [] kind = "NativeDaemonSet" -> FinalizeNativeDaemonSet(w)
                    [] kind = "Deployment" -> FinalizeDeployment(w)
                    [] kind = "MinReady" -> FinalizeMinReady(w)
<1>6. w1 \in Workloads
  BY <1>4, <1>5, KindIsKnown, Zenon DEF StatefulSets
<1>7. FinalizePartition(w, s) = Result(w1, s, TRUE)
  BY Zenon DEF FinalizePartition
<1>. HIDE DEF w1
<1>. QED BY <1>6, <1>7, ResultTyped, Zenon

\* Initialize of the blue-green style returns a result.
LEMMA InitializeBlueGreenTyped ==
  ASSUME NEW w \in Workloads, NEW s \in Statuses
  PROVE  InitializeBlueGreen(w, s) \in Results
<1>. DEFINE off == DisableHPA(w)
            p == Patched(off)
            w1 == [p EXCEPT !.owner = TRUE, !.own = FALSE, !.knob = Int32(1)]
<1>1. off \in Workloads
  BY DEF DisableHPA, Workloads, Flags
<1>2. p \in Workloads
  BY <1>1, PatchedTyped
<1>. HIDE DEF p
<1>3. w1 \in Workloads
  BY <1>2, KnobsOfTheCode DEF Workloads, Flags
<1>. HIDE DEF off, w1
<1>4. Recorded(w, s) \in Statuses
  BY RecordedTyped
<1>5. /\ Result(w, Recorded(w, s), TRUE) \in Results
      /\ [Result(w1, Recorded(w, s), TRUE) EXCEPT !.mid = off] \in Results
  BY <1>1, <1>3, <1>4, ResultTyped, Zenon
<1>. QED BY <1>5, Zenon DEF InitializeBlueGreen, off, p, w1

\* UpgradeBatch and the verification of the blue-green style return results.
LEMMA UpgradeBlueGreenTyped ==
  ASSUME TypeOK, NEW w \in Workloads, w.replicas # 0,
         NEW s \in Statuses, s.batch < Len(plan.batches)
  PROVE  /\ UpgradeBlueGreen(w, s) \in Results
         /\ VerifyAndLabel(w, s) \in Results
<1>. DEFINE ctx == BatchContext(w, s)
            w1 == [w EXCEPT !.knob = ctx.knob, !.paused = FALSE]
<1>1. ctx \in Contexts
  BY ContextIsTyped
<1>. HIDE DEF ctx
<1>2. w1 \in Workloads
  BY <1>1 DEF Workloads, Contexts, Flags
<1>. HIDE DEF w1
<1>3. Change(w, w1) \in Workloads
  BY <1>2, PatchedTyped
<1>4. /\ Result(w, s, FALSE) \in Results /\ Result(w, s, TRUE) \in Results
      /\ Result(Change(w, w1), s, TRUE) \in Results
  BY <1>3, ResultTyped, Zenon
<1>5. UpgradeBlueGreen(w, s) \in Results
  BY <1>4, Zenon DEF UpgradeBlueGreen, ctx, w1
<1>6. PatchPods(w, s) \in Workloads
  BY PatchPodsTyped
<1>7. BatchReady(w, s) \in BOOLEAN
  BY Zenon DEF BatchReady, IsBatchReady
<1>. QED BY <1>5, <1>6, <1>7, ResultTyped, Zenon DEF VerifyAndLabel

\* Finalize of the blue-green style returns a result.
LEMMA FinalizeBlueGreenTyped ==
  ASSUME NEW w \in Workloads, NEW s \in Statuses
  PROVE  FinalizeBlueGreen(w, s) \in Results
<1>. DEFINE p == Patched(w)
            free == [p EXCEPT !.owner = FALSE, !.own = TRUE, !.paused = @ /\ kind = "BGCloneSet"]
            w1 == IF w.own THEN w ELSE free
            done == IF kind = "BGCloneSet" THEN OnlyUpdatedReady
                    ELSE w.own \/ AllUpdatedAndReady(w)
<1>1. p \in Workloads
  BY PatchedTyped
<1>. HIDE DEF p
<1>2. free \in Workloads
  <2>1. (p.paused /\ kind = "BGCloneSet") \in BOOLEAN
    BY Zenon
  <2>2. \A f \in BOOLEAN : [p EXCEPT !.owner = FALSE, !.own = TRUE, !.paused = f] \in Workloads
    BY <1>1 DEF Workloads, Flags
  <2>. QED BY <2>1, <2>2, Zenon
<1>. HIDE DEF free
<1>3. w1 \in Workloads
  BY <1>2
<1>. HIDE DEF w1
<1>4. RestoreHPA(w1) \in Workloads
  BY <1>3 DEF RestoreHPA, Workloads, Flags
<1>5. /\ Result(w, s, TRUE) \in Results /\ Result(w1, s, FALSE) \in Results
      /\ [Result(RestoreHPA(w1), s, TRUE) EXCEPT !.mid = w1] \in Results
  BY <1>3, <1>4, ResultTyped, Zenon
<1>6. w.own \in BOOLEAN
  BY WorkloadFields
<1>7. done \in BOOLEAN
  BY <1>6, Zenon DEF OnlyUpdatedReady, AllUpdatedAndReady
<1>. QED BY <1>5, <1>7, Zenon DEF FinalizeBlueGreen, w1, free, p

\* Initialize and Finalize of the canary style return results.
LEMMA CanaryTyped ==
  ASSUME TypeOK, NEW w \in Workloads, NEW s \in Statuses
  PROVE  InitializeCanary(w, s) \in Results /\ FinalizeCanary(w, s) \in Results
<1>. DEFINE w1 == ClaimStable(w)
            w2 == FreeStable(w)
<1>1. w1 \in Workloads
  BY DEF ClaimStable, Workloads, Flags
<1>. HIDE DEF w1
<1>2. CreateCopy(w1) \in Workloads
  <2>. DEFINE c == [w1.copy EXCEPT !.made = @ + 1, !.expected = "waiting", !.rev = w1.update,
                                   !.seen = FALSE, !.synced = FALSE, !.size = 0, !.pods = 0]
  <2>0. w1.copy \in Copies /\ w1.copy.made + 1 \in Nat /\ w1.update \in RevisionsOrNone
    BY <1>1, WorkloadFields DEF RevisionsOrNone
  <2>1. c \in Copies
    BY <2>0 DEF Copies, Counts, Flags, Expectations
  <2>2. CreateCopy(w1) = [w1 EXCEPT !.copy = c]
    BY DEF CreateCopy
  <2>. HIDE DEF c
  <2>. QED BY <1>1, <2>1, <2>2 DEF Workloads
<1>3. w2 \in Workloads
  <2>1. (plan.part # Nil) \in BOOLEAN
    BY Zenon
  <2>2. \A f \in BOOLEAN : [w EXCEPT !.owner = FALSE, !.paused = f] \in Workloads
    BY DEF Workloads, Flags
  <2>. QED BY <2>1, <2>2, PatchedTyped, Zenon DEF FreeStable
<1>. HIDE DEF w2
<1>4. DeleteCopies(w2) \in Workloads
  <2>. DEFINE c == [w2.copy EXCEPT !.made = 0, !.seen = FALSE, !.size = 0, !.pods = 0]
  <2>1. c \in Copies
    BY <1>3, WorkloadFields DEF Copies, Counts, Flags
  <2>2. DeleteCopies(w2) = w2 \/ DeleteCopies(w2) = [w2 EXCEPT !.copy = c]
    BY Zenon DEF DeleteCopies
  <2>. HIDE DEF c
  <2>3. [w2 EXCEPT !.copy = c] \in Workloads
    BY <1>3, <2>1 DEF Workloads
  <2>. QED BY <1>3, <2>2, <2>3
<1>5. Recorded(w, s) \in Statuses
  BY RecordedTyped
<1>6. /\ Result(w1, Recorded(w, s), TRUE) \in Results /\ Result(w1, s, FALSE) \in Results
      /\ [Result(CreateCopy(w1), s, FALSE) EXCEPT !.mid = w1] \in Results
      /\ [Result(DeleteCopies(w2), s, TRUE) EXCEPT !.mid = w2] \in Results
      /\ Result(w2, s, FALSE) \in Results
  BY <1>1, <1>2, <1>3, <1>4, <1>5, ResultTyped, Zenon
<1>. QED BY <1>6, Zenon DEF InitializeCanary, FinalizeCanary, w1, w2

\* UpgradeBatch and the verification of the canary style return results.
LEMMA UpgradeCanaryTyped ==
  ASSUME TypeOK, kind = "Canary", NEW w \in Workloads, w.replicas # 0,
         NEW s \in Statuses, s.batch < Len(plan.batches)
  PROVE  UpgradeCanary(w, s) \in Results /\ VerifyCanary(w, s) \in Results
<1>. DEFINE n == BatchContext(w, s).desired
            c == [w.copy EXCEPT !.size = n, !.synced = FALSE]
<1>1. n \in Int /\ w.copy.size \in Nat
  BY WorkloadFields, ContextIsTyped DEF Contexts
<1>. HIDE DEF n
<1>2. w.copy.size < n => c \in Copies
  <2>. SUFFICES ASSUME w.copy.size < n PROVE c \in Copies
    OBVIOUS
  <2>1. n \in Nat /\ w.copy \in Copies
    BY <1>1, WorkloadFields
  <2>. QED BY <2>1 DEF Copies, Counts, Flags
<1>3. ScaleCopy(w, BatchContext(w, s)) = IF w.copy.size >= n THEN w ELSE [w EXCEPT !.copy = c]
  BY Zenon DEF ScaleCopy, n
<1>. HIDE DEF c
<1>4. ScaleCopy(w, BatchContext(w, s)) \in Workloads
  BY <1>1, <1>2, <1>3 DEF Workloads
<1>5. /\ Result(w, s, FALSE) \in Results
      /\ Result(ScaleCopy(w, BatchContext(w, s)), s, TRUE) \in Results
  BY <1>4, ResultTyped, Zenon
<1>6. VerifyAndLabel(w, s) \in Results
  BY UpgradeBlueGreenTyped
<1>. QED BY <1>5, <1>6, Zenon DEF UpgradeCanary, VerifyCanary

\* Every operation of the executor returns a result, on a batch within the plan.
LEMMA OperationsTyped ==
  ASSUME TypeOK, NEW w \in Workloads, NEW s \in Statuses
  PROVE  /\ Initialize(w, s) \in Results /\ Finalize(w, s) \in Results
         /\ s.batch < Len(plan.batches) =>
              /\ UpgradeBatch(w, s) \in Results
              /\ EnsureBatchPodsReadyAndLabeled(w, s) \in Results
<1>1. /\ Failed(w, s) \in Results /\ Result(w, s, TRUE) \in Results
  BY ResultTyped, Zenon DEF Failed
<1>2. /\ InitializeBlueGreen(w, s) \in Results /\ FinalizeBlueGreen(w, s) \in Results
      /\ InitializeCanary(w, s) \in Results /\ FinalizeCanary(w, s) \in Results
  BY InitializeBlueGreenTyped, FinalizeBlueGreenTyped, CanaryTyped
<1>3. kind \in PartitionKinds =>
        InitializePartition(w, s) \in Results /\ FinalizePartition(w, s) \in Results
  BY InitializePartitionTyped, FinalizePartitionTyped
<1>4. w.exists \in BOOLEAN
  BY WorkloadFields
<1>5. kind \in PartitionKinds \/ kind \in BlueGreenKinds \/ kind = "Canary"
  BY KindIsKnown
<1>6. Initialize(w, s) \in Results
  BY <1>1, <1>2, <1>3, <1>4, <1>5, Zenon DEF Initialize
<1>7. Finalize(w, s) \in Results
  BY <1>1, <1>2, <1>3, <1>4, <1>5, Zenon DEF Finalize
<1>8. ASSUME s.batch < Len(plan.batches)
      PROVE  /\ UpgradeBatch(w, s) \in Results
             /\ EnsureBatchPodsReadyAndLabeled(w, s) \in Results
  <2>1. w.replicas # 0 /\ kind \in PartitionKinds =>
          UpgradePartition(w, s) \in Results /\ VerifyPartition(w, s) \in Results
    BY <1>8, UpgradePartitionTyped
  <2>2. w.replicas # 0 => UpgradeBlueGreen(w, s) \in Results /\ VerifyAndLabel(w, s) \in Results
    BY <1>8, UpgradeBlueGreenTyped
  <2>3. w.replicas # 0 /\ kind = "Canary" =>
          UpgradeCanary(w, s) \in Results /\ VerifyCanary(w, s) \in Results
    BY <1>8, UpgradeCanaryTyped
  <2>4. UpgradeBatch(w, s) \in Results
    BY <1>1, <1>4, <1>5, <2>1, <2>2, <2>3, Zenon DEF UpgradeBatch
  <2>5. EnsureBatchPodsReadyAndLabeled(w, s) \in Results
    BY <1>1, <1>4, <1>5, <2>1, <2>2, <2>3, Zenon DEF EnsureBatchPodsReadyAndLabeled
  <2>. QED BY <2>4, <2>5
<1>. QED BY <1>6, <1>7, <1>8

-----------------------------------------------------------------------------
(* The executor.                                                           *)

\* Nothing more is to be decided: the operation of the phase goes ahead.
GoesAhead(s) ==
  /\ st.phase \notin {"Completed", "Finalizing"} /\ ~plan.deleting /\ plan.part # Nil
  /\ WorkloadEvent(s) # "StillReconciling"
  /\ WorkloadEvent(s) = "HasGone" => st.phase = ""
  /\ st.phase = "Progressing" =>
       /\ st.hash = ReleasePlan /\ st.batch < Len(plan.batches)
       /\ WorkloadEvent(s) \notin {"ReplicasChanged", "PodTemplateChanged"}
       /\ st.kept = Nil => WorkloadEvent(s) # "RollbackInBatch" /\ ~plan.anno

\* The outcomes of syncStatusBeforeExecuting, and what is known when the round
\* goes ahead.
LEMMA SyncCases ==
  ASSUME TypeOK, NEW s \in Statuses
  PROVE  \/ SyncStatusBeforeExecuting(s) = Stop(s)
         \/ SyncStatusBeforeExecuting(s) = Stop([s EXCEPT !.update = wl.update])
         \/ /\ \/ plan.deleting \/ st.phase = "Finalizing" \/ plan.part = Nil
               \/ WorkloadEvent(s) = "HasGone"
            /\ SyncStatusBeforeExecuting(s) = Go([s EXCEPT !.phase = "Finalizing"])
         \/ /\ st.phase = "Progressing" /\ st.hash # ReleasePlan /\ plan.part # Nil
            /\ SyncStatusBeforeExecuting(s) = Go(Recalculate(s))
         \/ st.phase = "Progressing" /\ SyncStatusBeforeExecuting(s) = Go(Fresh(s))
         \/ /\ WorkloadEvent(s) = "ReplicasChanged"
            /\ SyncStatusBeforeExecuting(s)
                 = Go([s EXCEPT !.state = "Upgrading", !.replicas = wl.replicas])
         \/ /\ st.phase = "Progressing" /\ plan.anno
            /\ SyncStatusBeforeExecuting(s)
                 = Go([s EXCEPT !.phase = "Preparing", !.state = "Upgrading",
                                !.update = wl.update])
         \/ GoesAhead(s) /\ SyncStatusBeforeExecuting(s) = Go(s)
<1>1. st.batch \in Nat /\ Len(plan.batches) \in Nat
  <2>1. st.batch \in Nat
    BY StatusFields DEF TypeOK
  <2>2. plan.batches \in Plans
    BY DEF TypeOK, BatchReleases
  <2>. QED BY <2>1, <2>2, PlansAssumption
<1>2. st.batch >= Len(plan.batches) \/ st.batch < Len(plan.batches)
  BY <1>1
<1>. QED
  BY <1>2, Zenon DEF SyncStatusBeforeExecuting, GoesAhead

\* The types of the BatchRelease's fields; the partition is within the plan.
LEMMA PlanFields ==
  ASSUME TypeOK
  PROVE  /\ plan.batches \in Plans /\ Len(plan.batches) \in Nat /\ Len(plan.batches) > 0
         /\ plan.part \in Int /\ plan.part >= -1 /\ plan.part < Len(plan.batches)
         /\ plan.exists \in BOOLEAN /\ plan.guarded \in BOOLEAN /\ plan.deleting \in BOOLEAN
         /\ plan.wait \in BOOLEAN /\ plan.rid \in Nat /\ plan.anno \in BOOLEAN
<1>1. /\ plan.batches \in Plans /\ plan.rid \in Nat
      /\ plan.exists \in BOOLEAN /\ plan.guarded \in BOOLEAN /\ plan.deleting \in BOOLEAN
      /\ plan.wait \in BOOLEAN /\ plan.anno \in BOOLEAN
  BY DEF TypeOK, BatchReleases, Flags, Counts
<1>2. Len(plan.batches) \in Nat /\ Len(plan.batches) > 0
  BY <1>1, PlansAssumption
<1>3. plan.part \in -1..(Len(plan.batches) - 1)
  BY DEF TypeOK
<1>4. plan.part \in Int /\ plan.part >= -1 /\ plan.part < Len(plan.batches)
  BY <1>2, <1>3
<1>. QED BY <1>1, <1>2, <1>4

\* The hash of a plan is never the empty one.
LEMMA ReleasePlanTyped ==
  ASSUME TypeOK
  PROVE  ReleasePlan \in Specs /\ NoSpec \in Specs /\ ReleasePlan # NoSpec
<1>1. plan.batches \in Seq(Knobs) /\ plan.batches # <<>>
  BY PlanFields, PlansAssumption
<1>2. ReleasePlan \in Specs
  BY <1>1, PlanFields DEF ReleasePlan, Specs, Flags, Counts, Indexes
<1>3. NoSpec \in Specs
  BY DEF NoSpec, Specs, Flags, Counts, Indexes, Nil
<1>4. ReleasePlan.batches # NoSpec.batches
  BY <1>1 DEF ReleasePlan, NoSpec
<1>. QED BY <1>2, <1>3, <1>4, Zenon

\* A reset status is a status.
LEMMA FreshTyped ==
  ASSUME TypeOK, NEW s \in Statuses
  PROVE  Fresh(s) \in Statuses
<1>1. NoSpec \in Specs /\ NoRevision \in RevisionsOrNone
  BY ReleasePlanTyped DEF RevisionsOrNone
<1>2. -1 \in Indexes /\ Nil \in Indexes /\ 0 \in Counts
  BY DEF Indexes, Nil, Counts
<1>. QED BY <1>1, <1>2 DEF Fresh, Statuses, Phases

\* syncStatusBeforeExecuting returns a status.
LEMMA SyncTyped ==
  ASSUME TypeOK, NEW s \in Statuses
  PROVE  /\ SyncStatusBeforeExecuting(s).s \in Statuses
         /\ SyncStatusBeforeExecuting(s).stop \in BOOLEAN
<1>1. \A x : Stop(x).s = x /\ Stop(x).stop = TRUE /\ Go(x).s = x /\ Go(x).stop = FALSE
  BY DEF Stop, Go
<1>2. wl.update \in RevisionsOrNone /\ wl.replicas \in Int
  BY WorkloadFields DEF TypeOK, RevisionsOrNone
<1>3. [s EXCEPT !.update = wl.update] \in Statuses
  BY <1>2 DEF Statuses
<1>4. [s EXCEPT !.phase = "Finalizing"] \in Statuses
  BY DEF Statuses, Phases
<1>5. [s EXCEPT !.state = "Upgrading", !.replicas = wl.replicas] \in Statuses
  BY <1>2 DEF Statuses, Indexes
<1>6. [s EXCEPT !.phase = "Preparing", !.state = "Upgrading", !.update = wl.update] \in Statuses
  BY <1>2 DEF Statuses, Phases
<1>7. ASSUME plan.part # Nil PROVE Recalculate(s) \in Statuses
  <2>. DEFINE b == IF plan.rid = st.rid THEN Below(plan.part, Len(plan.batches) - 1) ELSE 0
  <2>1. b \in Nat
    BY <1>7, PlanFields DEF Below, Nil
  <2>2. ReleasePlan \in Specs /\ plan.rid \in Nat
    BY ReleasePlanTyped, PlanFields
  <2>3. Recalculate(s) = [s EXCEPT !.batch = b, !.state = "Upgrading", !.hash = ReleasePlan,
                                   !.rid = plan.rid]
    BY Zenon DEF Recalculate
  <2>. HIDE DEF b
  <2>. QED BY <2>1, <2>2, <2>3 DEF Statuses, Counts
<1>8. Fresh(s) \in Statuses
  BY FreshTyped
<1>9. \E x \in Statuses : SyncStatusBeforeExecuting(s) = Stop(x) \/ SyncStatusBeforeExecuting(s) = Go(x)
  BY <1>3, <1>4, <1>5, <1>6, <1>7, <1>8, SyncCases, Zenon
<1>. QED BY <1>1, <1>9

\* refreshStatus changes the counts, the hash if there is none, and the rollout
\* id.
LEMMA RefreshTyped ==
  ASSUME TypeOK, NEW s \in Statuses
  PROVE  /\ RefreshStatus(s) \in Statuses
         /\ RefreshStatus(s).phase = s.phase /\ RefreshStatus(s).batch = s.batch
         /\ RefreshStatus(s).state = s.state /\ RefreshStatus(s).replicas = s.replicas
         /\ RefreshStatus(s).kept = s.kept /\ RefreshStatus(s).update = s.update
         /\ RefreshStatus(s).hash = IF s.hash = NoSpec THEN ReleasePlan ELSE s.hash
<1>. DEFINE known == ~plan.deleting /\ wl.exists
            u == IF known THEN UpdatedPods(wl) ELSE s.updated
            r == IF known THEN ready ELSE s.ready
            h == IF s.hash = NoSpec THEN ReleasePlan ELSE s.hash
<1>1. u \in Nat /\ r \in Nat /\ h \in Specs /\ plan.rid \in Nat
  <2>1. UpdatedPods(wl) \in Nat /\ ready \in Nat
    BY UpdatedIsNat DEF TypeOK
  <2>2. s.updated \in Nat /\ s.ready \in Nat /\ s.hash \in Specs
    BY StatusFields
  <2>. QED BY <2>1, <2>2, ReleasePlanTyped, PlanFields, Zenon
<1>2. RefreshStatus(s) = [s EXCEPT !.updated = u, !.ready = r, !.hash = h, !.rid = plan.rid]
  BY Zenon DEF RefreshStatus
<1>. HIDE DEF u, r, h
<1>3. /\ RefreshStatus(s) \in Statuses
      /\ RefreshStatus(s).phase = s.phase /\ RefreshStatus(s).batch = s.batch
      /\ RefreshStatus(s).state = s.state /\ RefreshStatus(s).replicas = s.replicas
      /\ RefreshStatus(s).kept = s.kept /\ RefreshStatus(s).update = s.update
      /\ RefreshStatus(s).hash = h
  BY <1>1, <1>2 DEF Statuses, Counts
<1>. QED BY <1>3 DEF h

Started == IF st.phase = "" THEN Fresh(st) ELSE st
Published == RefreshStatus(SyncStatusBeforeExecuting(Started).s)

\* The status a round publishes is a status, and has a phase.
LEMMA StartedTyped ==
  ASSUME TypeOK
  PROVE  /\ Started \in Statuses /\ Started.phase # ""
         /\ SyncStatusBeforeExecuting(Started).s \in Statuses /\ Published \in Statuses
<1>1. st \in Statuses
  BY DEF TypeOK
<1>2. Fresh(st) \in Statuses /\ Fresh(st).phase = "Preparing"
  BY <1>1, FreshTyped DEF Fresh, Statuses
<1>3. Started \in Statuses /\ Started.phase # ""
  BY <1>1, <1>2, Zenon DEF Started
<1>4. SyncStatusBeforeExecuting(Started).s \in Statuses
  BY <1>3, SyncTyped
<1>. QED BY <1>3, <1>4, RefreshTyped DEF Published

\* A round publishes a status, or carries out the operation of its phase on a
\* status that is up to date.
LEMMA DoCases ==
  ASSUME TypeOK
  PROVE  \/ \E b \in BOOLEAN : Do = Result(wl, Published, b)
         \/ /\ Do = ExecuteBatchReleasePlan(st)
            /\ \/ st.phase = "Finalizing"
               \/ st.phase \in {"Preparing", "Progressing"} /\ GoesAhead(st)
<1>. DEFINE sync == SyncStatusBeforeExecuting(Started)
<1>1. Do = IF sync.stop \/ Published # st THEN Result(wl, Published, Published # st)
           ELSE ExecuteBatchReleasePlan(Published)
  BY Zenon DEF Do, Started, Published
<1>2. CASE sync.stop \/ Published # st
  BY <1>1, <1>2, Zenon
<1>3. CASE ~sync.stop /\ Published = st
  <2>1. Do = ExecuteBatchReleasePlan(st)
    BY <1>1, <1>3, Zenon
  <2>2. \A x : Stop(x).stop = TRUE /\ Go(x).s = x
    BY DEF Stop, Go
  <2>. DEFINE s == Started
  <2>3. s \in Statuses /\ s.phase # "" /\ sync.s \in Statuses
    BY StartedTyped
  <2>4. /\ sync.s.phase = st.phase /\ sync.s.batch = st.batch
        /\ sync.s.replicas = st.replicas
        /\ st.hash = IF sync.s.hash = NoSpec THEN ReleasePlan ELSE sync.s.hash
    BY <1>3, <2>3, RefreshTyped DEF Published
  <2>5. st.phase \in Phases
    BY StatusFields DEF TypeOK
  <2>6. SyncStatusBeforeExecuting(s) # Stop(s)
        /\ SyncStatusBeforeExecuting(s) # Stop([s EXCEPT !.update = wl.update])
    BY <1>3, <2>2, Zenon
  <2>7. ASSUME SyncStatusBeforeExecuting(s) = Go([s EXCEPT !.phase = "Finalizing"])
        PROVE  st.phase = "Finalizing"
    <3>1. sync.s = [s EXCEPT !.phase = "Finalizing"]
      BY <2>2, <2>7, Zenon
    <3>. QED BY <2>3, <2>4, <3>1 DEF Statuses
  <2>8. ASSUME SyncStatusBeforeExecuting(s) = Go(Recalculate(s)), st.hash # ReleasePlan
        PROVE  FALSE
    <3>1. sync.s = Recalculate(s)
      BY <2>2, <2>8, Zenon
    <3>2. sync.s.hash = ReleasePlan
      BY <2>3, <3>1 DEF Recalculate, Statuses
    <3>. QED BY <2>4, <2>8, <3>2, ReleasePlanTyped
  <2>9. ASSUME SyncStatusBeforeExecuting(s) = Go(Fresh(s)), st.phase = "Progressing"
        PROVE  FALSE
    <3>1. sync.s = Fresh(s)
      BY <2>2, <2>9, Zenon
    <3>2. sync.s.phase = "Preparing"
      BY <2>3, <3>1 DEF Fresh, Statuses
    <3>. QED BY <2>4, <2>9, <3>2
  <2>10. ASSUME SyncStatusBeforeExecuting(s)
                   = Go([s EXCEPT !.state = "Upgrading", !.replicas = wl.replicas]),
                WorkloadEvent(s) = "ReplicasChanged"
         PROVE  FALSE
    <3>1. sync.s = [s EXCEPT !.state = "Upgrading", !.replicas = wl.replicas]
      BY <2>2, <2>10, Zenon
    <3>2. sync.s.replicas = wl.replicas /\ sync.s.phase = s.phase
      BY <2>3, <3>1 DEF Statuses
    <3>3. s = st
      BY <2>3, <2>4, <3>2 DEF Started
    <3>4. s.replicas # wl.replicas
      BY <2>10, Zenon DEF WorkloadEvent
    <3>. QED BY <2>4, <3>2, <3>3, <3>4
  <2>11. ASSUME SyncStatusBeforeExecuting(s)
                   = Go([s EXCEPT !.phase = "Preparing", !.state = "Upgrading",
                                  !.update = wl.update]),
                st.phase = "Progressing"
         PROVE  FALSE
    <3>1. sync.s = [s EXCEPT !.phase = "Preparing", !.state = "Upgrading", !.update = wl.update]
      BY <2>2, <2>11, Zenon
    <3>2. sync.s.phase = "Preparing"
      BY <2>3, <3>1 DEF Statuses
    <3>. QED BY <2>4, <2>11, <3>2
  <2>12. ASSUME SyncStatusBeforeExecuting(s) = Go(s), GoesAhead(s)
         PROVE  st.phase \in {"Preparing", "Progressing"} /\ GoesAhead(st)
    <3>1. s.phase = st.phase
      BY <2>2, <2>4, <2>12, Zenon
    <3>2. s = st
      BY <2>3, <3>1 DEF Started
    <3>. QED BY <2>3, <2>5, <2>12, <3>2 DEF GoesAhead, Phases
  <2>13. \/ st.phase = "Finalizing"
         \/ st.phase \in {"Preparing", "Progressing"} /\ GoesAhead(st)
    BY <2>3, <2>6, <2>7, <2>8, <2>9, <2>10, <2>11, <2>12, SyncCases, Zenon
  <2>. QED BY <2>1, <2>13
<1>. QED BY <1>2, <1>3

\* A status with another phase, state or generation is a status.
LEMMA StatusUpdates ==
  ASSUME NEW s \in Statuses
  PROVE  /\ \A p \in Phases : [s EXCEPT !.phase = p] \in Statuses
         /\ \A x \in {"", "Upgrading", "Verifying", "Ready"} : [s EXCEPT !.state = x] \in Statuses
         /\ \A b \in BOOLEAN : [s EXCEPT !.seen = b] \in Statuses
BY DEF Statuses, Flags

\* d is the result r of an operation, but for the status s.
RoundIs(d, r, s) == d \in Results /\ d.w = r.w /\ d.mid = r.mid /\ d.s = s
RoundOf(r, s) == RoundIs(Do, r, s)

\* A round passes on the workloads of the operation and changes its status.
LEMMA RoundTyped ==
  ASSUME NEW r \in Results, NEW again \in BOOLEAN
  PROVE  /\ \A s \in Statuses : RoundIs(Round([r EXCEPT !.s = s], again), r, s)
         /\ \A x \in {"", "Upgrading", "Verifying", "Ready"} :
              RoundIs(Round([r EXCEPT !.s.state = x], again), r, [r.s EXCEPT !.state = x])
         /\ \A p \in Phases :
              RoundIs(Round([r EXCEPT !.s.phase = p], again), r, [r.s EXCEPT !.phase = p])
<1>1. \A s \in Statuses : RoundIs(Round([r EXCEPT !.s = s], again), r, s)
  BY DEF Round, RoundIs, Results, Flags
<1>2. r.s \in Statuses
  BY DEF Results
<1>3. \A x : [r EXCEPT !.s.state = x] = [r EXCEPT !.s = [r.s EXCEPT !.state = x]]
  BY DEF Results
<1>4. \A x : [r EXCEPT !.s.phase = x] = [r EXCEPT !.s = [r.s EXCEPT !.phase = x]]
  BY DEF Results
<1>. QED BY <1>1, <1>2, <1>3, <1>4, StatusUpdates, Zenon

\* In phase Preparing a round initializes.
LEMMA PreparingRound ==
  ASSUME TypeOK, Do = ExecuteBatchReleasePlan(st), st.phase = "Preparing"
  PROVE  LET r == Initialize(wl, st) IN
           r \in Results /\ RoundOf(r, [r.s EXCEPT !.phase = IF r.ok THEN "Progressing" ELSE @])
<1>. DEFINE r == Initialize(wl, st)
            p == IF r.ok THEN "Progressing" ELSE r.s.phase
<1>1. r \in Results
  BY OperationsTyped DEF TypeOK
<1>2. Do = Round([r EXCEPT !.s.phase = p], TRUE)
  BY Zenon DEF ExecuteBatchReleasePlan
<1>. HIDE DEF r
<1>3. p \in Phases
  BY <1>1 DEF Results, Statuses, Phases
<1>. HIDE DEF p
<1>4. RoundOf(r, [r.s EXCEPT !.phase = p])
  <2>1. RoundIs(Round([r EXCEPT !.s.phase = p], TRUE), r, [r.s EXCEPT !.phase = p])
    BY <1>1, <1>3, RoundTyped
  <2>. QED BY <1>2, <2>1, Zenon DEF RoundOf
<1>. QED BY <1>1, <1>4, Zenon DEF r, p

\* In phase Finalizing a round finalizes.
LEMMA FinalizingRound ==
  ASSUME TypeOK, Do = ExecuteBatchReleasePlan(st), st.phase = "Finalizing"
  PROVE  LET r == Finalize(wl, st) IN
           r \in Results /\ RoundOf(r, [r.s EXCEPT !.phase = IF r.ok THEN "Completed" ELSE @])
<1>. DEFINE r == Finalize(wl, st)
            p == IF r.ok THEN "Completed" ELSE r.s.phase
<1>1. r \in Results
  BY OperationsTyped DEF TypeOK
<1>2. Do = Round([r EXCEPT !.s.phase = p], ~r.ok)
  BY Zenon DEF ExecuteBatchReleasePlan
<1>. HIDE DEF r
<1>3. p \in Phases
  BY <1>1 DEF Results, Statuses, Phases
<1>. HIDE DEF p
<1>4. (~r.ok) \in BOOLEAN
  OBVIOUS
<1>5. RoundOf(r, [r.s EXCEPT !.phase = p])
  <2>1. RoundIs(Round([r EXCEPT !.s.phase = p], ~r.ok), r, [r.s EXCEPT !.phase = p])
    BY <1>1, <1>3, <1>4, RoundTyped
  <2>. QED BY <1>2, <2>1, Zenon DEF RoundOf
<1>. QED BY <1>1, <1>5, Zenon DEF r, p

\* moveToNextBatch goes on by one batch at most, and never beyond the partition.
LEMMA MoveTyped ==
  ASSUME TypeOK
  PROVE  /\ MoveToNextBatch(st) \in Statuses
         /\ MoveToNextBatch(st).hash = st.hash /\ MoveToNextBatch(st).kept = st.kept
         /\ MoveToNextBatch(st).phase = st.phase /\ MoveToNextBatch(st).update = st.update
         /\ \/ MoveToNextBatch(st).batch = st.batch
            \/ MoveToNextBatch(st).batch = st.batch + 1 /\ st.batch + 1 <= plan.part
<1>. DEFINE b == IF plan.part > st.batch THEN st.batch + 1 ELSE st.batch
<1>1. st \in Statuses /\ plan.part \in Int /\ st.batch \in Nat
  BY PlanFields, StatusFields DEF TypeOK
<1>2. b \in Nat /\ (b = st.batch \/ (b = st.batch + 1 /\ st.batch + 1 <= plan.part))
  BY <1>1
<1>3. MoveToNextBatch(st) = st \/ MoveToNextBatch(st) = [st EXCEPT !.batch = b, !.state = "Upgrading"]
  BY Zenon DEF MoveToNextBatch
<1>. HIDE DEF b
<1>. QED BY <1>1, <1>2, <1>3 DEF Statuses, Counts

\* A batch is upgraded, or verified.
Upgrading == [st EXCEPT !.state = "Upgrading"]

\* In phase Progressing a round upgrades the batch, or verifies it and goes on.
LEMMA ProgressingRound ==
  ASSUME TypeOK, Do = ExecuteBatchReleasePlan(st), st.phase = "Progressing",
         st.batch < Len(plan.batches)
  PROVE  /\ Upgrading \in Statuses
         /\ \/ \E x \in {"", "Upgrading", "Verifying", "Ready"} :
                 LET r == UpgradeBatch(wl, Upgrading)
                 IN  r \in Results /\ RoundOf(r, [r.s EXCEPT !.state = x])
            \/ \E x \in {"", "Upgrading", "Verifying", "Ready"} :
                 LET r == EnsureBatchPodsReadyAndLabeled(wl, st)
                 IN  r \in Results /\ RoundOf(r, [r.s EXCEPT !.state = x])
            \/ LET r == EnsureBatchPodsReadyAndLabeled(wl, st)
               IN  r \in Results /\ RoundOf(r, MoveToNextBatch(st))
<1>1. Upgrading \in Statuses /\ Upgrading.batch = st.batch
  BY DEF TypeOK, Upgrading, Statuses
<1>2. Do = ProgressBatches(st)
  BY Zenon DEF ExecuteBatchReleasePlan
<1>. DEFINE r == UpgradeBatch(wl, Upgrading)
            v == EnsureBatchPodsReadyAndLabeled(wl, st)
<1>3. r \in Results /\ v \in Results
  BY <1>1, OperationsTyped DEF TypeOK
<1>4. CASE st.state \in {"", "Upgrading"}
  <2>. DEFINE x == IF r.ok THEN "Verifying" ELSE r.s.state
  <2>1. Do = Round([r EXCEPT !.s.state = x], TRUE)
    BY <1>2, <1>4, Zenon DEF ProgressBatches, Upgrading
  <2>. HIDE DEF r
  <2>2. x \in {"", "Upgrading", "Verifying", "Ready"}
    BY <1>3 DEF Results, Statuses
  <2>. HIDE DEF x
  <2>3. RoundOf(r, [r.s EXCEPT !.state = x])
    <3>1. RoundIs(Round([r EXCEPT !.s.state = x], TRUE), r, [r.s EXCEPT !.state = x])
      BY <1>3, <2>2, RoundTyped
    <3>. QED BY <2>1, <3>1, Zenon DEF RoundOf
  <2>. QED BY <1>1, <1>3, <2>2, <2>3, Zenon DEF r
<1>5. CASE st.state \in {"Verifying", "Ready"}
  <2>1. v.ok \in BOOLEAN
    BY <1>3 DEF Results, Flags
  <2>2. \/ Do = Round([v EXCEPT !.s.state = "Upgrading"], TRUE)
        \/ Do = Round([v EXCEPT !.s.state = "Ready"], TRUE)
        \/ Do = Round([v EXCEPT !.s = MoveToNextBatch(st)], plan.part > st.batch)
    BY <1>2, <1>5, <2>1, Zenon DEF ProgressBatches
  <2>. HIDE DEF v
  <2>3. MoveToNextBatch(st) \in Statuses /\ (plan.part > st.batch) \in BOOLEAN
    BY MoveTyped
  <2>4. \/ RoundOf(v, [v.s EXCEPT !.state = "Upgrading"])
        \/ RoundOf(v, [v.s EXCEPT !.state = "Ready"])
        \/ RoundOf(v, MoveToNextBatch(st))
    <3>1. /\ RoundIs(Round([v EXCEPT !.s.state = "Upgrading"], TRUE), v,
                      [v.s EXCEPT !.state = "Upgrading"])
          /\ RoundIs(Round([v EXCEPT !.s.state = "Ready"], TRUE), v,
                      [v.s EXCEPT !.state = "Ready"])
      BY <1>3, RoundTyped
    <3>2. RoundIs(Round([v EXCEPT !.s = MoveToNextBatch(st)], plan.part > st.batch), v,
                  MoveToNextBatch(st))
      BY <1>3, <2>3, RoundTyped
    <3>. QED BY <2>2, <3>1, <3>2, Zenon DEF RoundOf
  <2>. QED BY <1>1, <1>3, <2>4, Zenon DEF v
<1>6. st.state \in {"", "Upgrading", "Verifying", "Ready"}
  BY StatusFields DEF TypeOK
<1>. QED BY <1>4, <1>5, <1>6

\* A round returns a result.
LEMMA DoTyped ==
  ASSUME TypeOK
  PROVE  Do \in Results
<1>1. ASSUME NEW b \in BOOLEAN, Do = Result(wl, Published, b)
      PROVE  Do \in Results
  BY <1>1, StartedTyped, ResultTyped DEF TypeOK
<1>2. CASE Do = ExecuteBatchReleasePlan(st) /\ st.phase = "Finalizing"
  BY <1>2, FinalizingRound, Zenon DEF RoundOf, RoundIs
<1>3. CASE Do = ExecuteBatchReleasePlan(st) /\ st.phase = "Preparing"
  BY <1>3, PreparingRound, Zenon DEF RoundOf, RoundIs
<1>4. CASE Do = ExecuteBatchReleasePlan(st) /\ st.phase = "Progressing" /\ GoesAhead(st)
  <2>1. st.batch < Len(plan.batches)
    BY <1>4 DEF GoesAhead
  <2>. QED BY <1>4, <2>1, ProgressingRound, Zenon DEF RoundOf, RoundIs
<1>. QED BY <1>1, <1>2, <1>3, <1>4, DoCases

-----------------------------------------------------------------------------
(* Type correctness.                                                       *)

\* No labels are labels.
LEMMA NoLabelsTyped == NoLabels \in LabelCounts
BY DEF NoLabels, LabelCounts

\* No copy is a copy.
LEMMA NoCopyTyped ==
  /\ NoCopy \in Copies
  /\ \A e \in Expectations : [NoCopy EXCEPT !.expected = e] \in Copies
BY DEF NoCopy, Copies, Counts, Flags, RevisionsOrNone, Expectations

\* The webhook's hold leaves a workload.
LEMMA HeldTyped ==
  ASSUME TypeOK \/ kind \in Kinds, NEW w \in Workloads
  PROVE  Held(w) \in Workloads
<1>1. kind \in AllKinds
  BY KindsAssumption DEF TypeOK
<1>2. /\ [w EXCEPT !.own = FALSE, !.knob = Percent(100)] \in Workloads
      /\ [w EXCEPT !.own = FALSE, !.knob = Unreached] \in Workloads
      /\ [w EXCEPT !.own = FALSE, !.knob = Unset] \in Workloads
      /\ [w EXCEPT !.paused = TRUE] \in Workloads
  BY KnobsOfTheCode DEF Workloads, Flags
<1>3. [w EXCEPT !.paused = TRUE, !.frozen = ~w.own] \in Workloads
  BY DEF Workloads, Flags
<1>. QED
  BY <1>1, <1>2, <1>3, Zenon
  DEF Held, AllKinds, PartitionKinds, StableKnob, StatefulSets, BlueGreenKinds

\* The release starts between two revisions.
LEMMA TheRevisions ==
  OldRevision \in Revisions /\ NewRevision \in Revisions /\ NewRevision # OldRevision
<1>1. OldRevision \in Revisions
  BY RevisionsAssumption, Zenon DEF OldRevision
<1>2. \E r \in Revisions : r # OldRevision
  BY RevisionsAssumption
<1>3. NewRevision \in Revisions \ {OldRevision}
  BY <1>2, Zenon DEF NewRevision
<1>. QED BY <1>1, <1>3

\* A new BatchRelease has the type, and its partition is within the plan.
LEMMA CreatedTyped ==
  ASSUME NEW b \in Plans, NEW id \in Nat
  PROVE  /\ Created(b, id) \in BatchReleases
         /\ Created(b, id).part \in -1..(Len(Created(b, id).batches) - 1)
<1>1. Len(b) \in Nat /\ Len(b) > 0
  BY PlansAssumption
<1>2. Created(b, id).part = 0 /\ Created(b, id).batches = b
  BY DEF Created
<1>3. Created(b, id) \in BatchReleases
  BY DEF Created, BatchReleases, Flags, Counts, Indexes
<1>. QED BY <1>1, <1>2, <1>3

\* The empty status is a status.
LEMMA NoStatusTyped == NoStatus \in Statuses
<1>1. NoSpec \in Specs
  BY DEF NoSpec, Specs, Flags, Counts, Indexes, Nil
<1>2. Nil \in Indexes /\ 0 \in Indexes /\ 0 \in Counts /\ NoRevision \in RevisionsOrNone
  BY DEF Nil, Indexes, Counts, RevisionsOrNone
<1>. QED BY <1>1, <1>2 DEF NoStatus, Statuses, Phases, Flags

\* The initial states have the types.
LEMMA InitTyped ==
  ASSUME Init
  PROVE  TypeOK
<1>1. PICK b \in Plans, id \in RolloutIDs : plan = Created(b, id)
  BY DEF Init
<1>2. plan \in BatchReleases /\ plan.part \in -1..(Len(plan.batches) - 1)
  <2>1. id \in Nat
    BY SizesAssumption
  <2>. QED BY <1>1, <2>1, CreatedTyped
<1>. DEFINE w(n) == [exists |-> TRUE, replicas |-> n,
                     stable |-> OldRevision, update |-> NewRevision,
                     observed |-> FALSE, owner |-> FALSE, own |-> TRUE, knob |-> Unset, low |-> 0,
                     paused |-> FALSE, frozen |-> FALSE, hpa |-> TRUE,
                     labels |-> NoLabels, marked |-> 0, markedLabelled |-> 0,
                     copy |-> NoCopy]
<1>3. PICK n \in Sizes : /\ pods = [r \in Revisions |-> IF r = OldRevision THEN n ELSE 0]
                         /\ wl = Held(w(n))
  BY DEF Init
<1>4. n \in Nat
  BY SizesAssumption
<1>5. w(n) \in Workloads
  BY <1>4, TheRevisions, KnobsOfTheCode, NoLabelsTyped, NoCopyTyped
  DEF Workloads, Flags, Counts, Indexes
<1>. HIDE DEF w
<1>6. kind \in Kinds
  BY DEF Init
<1>7. wl \in Workloads
  BY <1>3, <1>5, <1>6, HeldTyped
<1>8. pods \in [Revisions -> Nat]
  BY <1>3, <1>4
<1>9. st \in Statuses /\ ready \in Nat /\ down \in Nat /\ listed \in Nat
  BY NoStatusTyped DEF Init
<1>. QED BY <1>2, <1>6, <1>7, <1>8, <1>9 DEF TypeOK

\* An edit of the BatchRelease keeps the types.
LEMMA EditTyped ==
  ASSUME TypeOK, NEW p \in BatchReleases, p.part \in -1..(Len(p.batches) - 1), Edit(p)
  PROVE  /\ plan' \in BatchReleases /\ plan'.part \in -1..(Len(plan'.batches) - 1)
         /\ st' \in Statuses
<1>1. st' = [st EXCEPT !.seen = FALSE]
  BY DEF Edit
<1>2. st' \in Statuses
  BY <1>1, StatusUpdates DEF TypeOK
<1>. QED BY <1>2 DEF Edit

\* The ready pods left after a round are a natural number.
LEMMA CopyPodsTyped ==
  ASSUME TypeOK, NEW w \in Workloads
  PROVE  CopyPods(w) \in Nat
<1>1. w.copy.pods \in Nat /\ ready \in Nat
  BY WorkloadFields DEF TypeOK
<1>. QED BY <1>1 DEF CopyPods, Below

\* The controller's steps keep the types.
LEMMA ControllerTyped ==
  ASSUME TypeOK, Reconcile \/ RemoveFinalizer \/ ReconcileCrashes
  PROVE  TypeOK'
<1>0. plan \in BatchReleases /\ plan.part \in -1..(Len(plan.batches) - 1)
  BY DEF TypeOK
<1>1. CASE Reconcile
  <2>1. /\ wl' = Do.w /\ st' = [Do.s EXCEPT !.seen = TRUE] /\ ready' = CopyPods(Do.w)
        /\ plan' = [plan EXCEPT !.guarded = TRUE] /\ UNCHANGED <<kind, pods, down>>
        /\ listed' \in 0..LabelsOutside(wl'.labels, plan.batches)
    BY <1>1, Zenon DEF Reconcile
  <2>2. Do.w \in Workloads /\ Do.s \in Statuses
    BY DoTyped DEF Results
  <2>3. ready' \in Nat /\ wl' \in Workloads /\ st' \in Statuses
    BY <2>1, <2>2, CopyPodsTyped, StatusUpdates
  <2>4. plan' \in BatchReleases /\ plan'.part \in -1..(Len(plan'.batches) - 1)
    BY <1>0, <2>1 DEF BatchReleases, Flags
  <2>5. listed' \in Nat
    <3>1. LabelsOutside(wl'.labels, plan.batches) \in Nat
      BY <2>3, WorkloadFields, OutsideIsNat, Zenon
    <3>. QED BY <2>1, <3>1
  <2>. QED BY <2>1, <2>3, <2>4, <2>5 DEF TypeOK
<1>2. CASE RemoveFinalizer
  <2>1. plan' \in BatchReleases /\ plan'.part \in -1..(Len(plan'.batches) - 1)
    BY <1>0, <1>2 DEF RemoveFinalizer, BatchReleases, Flags
  <2>. QED BY <1>2, <2>1 DEF RemoveFinalizer, TypeOK
<1>3. CASE ReconcileCrashes
  <2>1. PICK w \in {wl, Do.mid, Do.w} : wl' = Restarted(w) /\ ready' = CopyPods(w)
    BY <1>3, Zenon DEF ReconcileCrashes
  <2>2. w \in Workloads
    BY <2>1, DoTyped DEF TypeOK, Results
  <2>3. ready' \in Nat
    BY <2>1, <2>2, CopyPodsTyped
  <2>4. wl' \in Workloads
    <3>. DEFINE c == [w.copy EXCEPT !.expected = "none", !.seen = w.copy.made > 0]
    <3>0. w.copy \in Copies /\ (w.copy.made > 0) \in BOOLEAN
      BY <2>2, WorkloadFields
    <3>1. c \in Copies
      BY <3>0 DEF Copies, Flags, Expectations
    <3>2. Restarted(w) = [w EXCEPT !.copy = c]
      BY <2>2 DEF Restarted, Workloads
    <3>. HIDE DEF c
    <3>. QED BY <2>1, <2>2, <3>1, <3>2 DEF Workloads
  <2>5. plan' \in BatchReleases /\ plan'.part \in -1..(Len(plan'.batches) - 1)
    BY <1>0, <1>3 DEF ReconcileCrashes, BatchReleases, Flags
  <2>. QED BY <1>3, <2>3, <2>4, <2>5 DEF ReconcileCrashes, TypeOK
<1>. QED BY <1>1, <1>2, <1>3

\* A workload without labels and marks is a workload.
LEMMA WipedTyped ==
  ASSUME NEW w \in Workloads
  PROVE  [w EXCEPT !.labels = NoLabels, !.marked = 0, !.markedLabelled = 0] \in Workloads
<1>1. NoLabels \in LabelCounts /\ 0 \in Counts /\ 0 \in Indexes
  BY NoLabelsTyped DEF Counts, Indexes
<1>. QED BY <1>1 DEF Workloads

\* The edits of the BatchRelease keep the types.
LEMMA PlanEditsTyped ==
  ASSUME TypeOK, Advance \/ Finish \/ Delete \/ Replan \/ (\E wait \in BOOLEAN : Cancel(wait))
  PROVE  TypeOK'
<1>0. /\ plan \in BatchReleases /\ plan.part \in -1..(Len(plan.batches) - 1)
      /\ Len(plan.batches) \in Nat /\ listed \in Nat
  BY PlanFields DEF TypeOK
<1>1. ASSUME NEW p \in BatchReleases, p.part \in -1..(Len(p.batches) - 1), Edit(p),
             UNCHANGED <<kind, wl, pods, ready, down>>, listed' \in Nat
      PROVE  TypeOK'
  BY <1>1, EditTyped DEF TypeOK
<1>2. CASE Advance
  <2>. DEFINE p == [plan EXCEPT !.part = @ + 1]
  <2>1. p \in BatchReleases /\ p.part \in -1..(Len(p.batches) - 1)
    BY <1>0, <1>2 DEF Advance, BatchReleases, Indexes
  <2>2. Edit(p) /\ UNCHANGED <<kind, wl, pods, ready, down>> /\ listed' \in Nat
    BY <1>0, <1>2 DEF Advance
  <2>. QED BY <1>1, <2>1, <2>2
<1>3. CASE Finish
  <2>. DEFINE p == [plan EXCEPT !.part = Nil, !.wait = TRUE]
  <2>1. p \in BatchReleases /\ p.part \in -1..(Len(p.batches) - 1)
    <3>1. Nil \in Indexes /\ Nil \in -1..(Len(plan.batches) - 1)
      BY <1>0 DEF Indexes, Nil
    <3>2. p \in BatchReleases /\ p.part = Nil /\ p.batches = plan.batches
      BY <1>0, <3>1 DEF BatchReleases, Flags
    <3>. QED BY <3>1, <3>2
  <2>2. Edit(p) /\ UNCHANGED <<kind, wl, pods, ready, down>> /\ listed' \in Nat
    BY <1>0, <1>3 DEF Finish
  <2>. QED BY <1>1, <2>1, <2>2
<1>4. CASE Delete
  <2>1. /\ [plan EXCEPT !.deleting = TRUE] \in BatchReleases
        /\ [plan EXCEPT !.deleting = TRUE].part \in -1..(Len([plan EXCEPT !.deleting = TRUE].batches) - 1)
    BY <1>0 DEF BatchReleases, Flags
  <2>2. /\ [plan EXCEPT !.exists = FALSE] \in BatchReleases
        /\ [plan EXCEPT !.exists = FALSE].part \in -1..(Len([plan EXCEPT !.exists = FALSE].batches) - 1)
    BY <1>0 DEF BatchReleases, Flags
  <2>3. UNCHANGED <<kind, wl, pods, ready, down>> /\ listed' \in Nat
    BY <1>0, <1>4 DEF Delete
  <2>4. Edit([plan EXCEPT !.deleting = TRUE]) \/ Edit([plan EXCEPT !.exists = FALSE])
    BY <1>4, Zenon DEF Delete
  <2>. QED BY <1>1, <2>1, <2>2, <2>3, <2>4
<1>5. CASE Replan
  <2>1. PICK b \in Plans \ {plan.batches} : \E k \in 0..Below(plan.part, Len(b) - 1) :
               Edit([plan EXCEPT !.batches = b, !.part = k])
    BY <1>5, Zenon DEF Replan
  <2>2. PICK k \in 0..Below(plan.part, Len(b) - 1) : Edit([plan EXCEPT !.batches = b, !.part = k])
    BY <2>1
  <2>3. Len(b) \in Nat /\ plan.part \in Int
    BY <1>0, PlansAssumption
  <2>4. k \in Int /\ k >= 0 /\ k <= Len(b) - 1
    BY <2>2, <2>3 DEF Below
  <2>. DEFINE p == [plan EXCEPT !.batches = b, !.part = k]
  <2>5. p \in BatchReleases /\ p.batches = b /\ p.part = k
    BY <1>0, <2>4 DEF BatchReleases, Indexes
  <2>6. p.part \in -1..(Len(p.batches) - 1)
    BY <2>3, <2>4, <2>5
  <2>. HIDE DEF p
  <2>7. Edit(p)
    BY <2>2 DEF p
  <2>8. UNCHANGED <<kind, wl, pods, ready, down>> /\ listed' \in Nat
    <3>1. LabelsOutside(wl.labels, plan'.batches) \in Nat
      <4>1. wl.labels \in LabelCounts
        BY WorkloadFields DEF TypeOK
      <4>. QED BY <4>1, OutsideIsNat, Zenon
    <3>2. listed' \in 0..LabelsOutside(wl.labels, plan'.batches)
      BY <1>5, Zenon DEF Replan
    <3>3. listed' \in Nat
      BY <3>1, <3>2
    <3>. QED BY <1>5, <3>3 DEF Replan
  <2>. QED BY <1>1, <2>5, <2>6, <2>7, <2>8
<1>6. ASSUME NEW wait \in BOOLEAN, Cancel(wait)
      PROVE  TypeOK'
  <2>. DEFINE p == [plan EXCEPT !.part = Nil, !.wait = wait]
  <2>1. p \in BatchReleases /\ p.part \in -1..(Len(p.batches) - 1)
    <3>1. Nil \in Indexes /\ Nil \in -1..(Len(plan.batches) - 1)
      BY <1>0 DEF Indexes, Nil
    <3>2. p \in BatchReleases /\ p.part = Nil /\ p.batches = plan.batches
      BY <1>0, <3>1 DEF BatchReleases, Flags
    <3>. QED BY <3>1, <3>2
  <2>2. Edit(p) /\ UNCHANGED <<kind, wl, pods, ready, down>> /\ listed' \in Nat
    BY <1>0, <1>6 DEF Cancel
  <2>. QED BY <1>1, <2>1, <2>2
<1>. QED BY <1>2, <1>3, <1>4, <1>5, <1>6

\* So do the other steps of the rollout controller and the user.
LEMMA EnvironmentTyped ==
  ASSUME TypeOK, Environment
  PROVE  TypeOK'
<1>0. plan \in BatchReleases /\ plan.part \in -1..(Len(plan.batches) - 1) /\ wl \in Workloads
  BY DEF TypeOK
<1>1. CASE Advance \/ Finish \/ Delete \/ Replan \/ (\E wait \in BOOLEAN : Cancel(wait))
  BY <1>1, PlanEditsTyped
<1>2. CASE Create
  <2>1. PICK b \in Plans : plan' = Created(b, NextID)
    BY <1>2 DEF Create
  <2>2. NextID \in Nat
    BY PlanFields DEF NextID
  <2>3. plan' \in BatchReleases /\ plan'.part \in -1..(Len(plan'.batches) - 1)
    BY <2>1, <2>2, CreatedTyped
  <2>. DEFINE c == [NoCopy EXCEPT !.expected = wl.copy.expected]
  <2>4. c \in Copies
    BY <1>0, WorkloadFields, NoCopyTyped
  <2>. HIDE DEF c
  <2>5. wl' = [wl EXCEPT !.labels = NoLabels, !.marked = 0, !.markedLabelled = 0, !.copy = c]
    BY <1>2 DEF Create, c
  <2>6. NoLabels \in LabelCounts /\ 0 \in Counts /\ 0 \in Indexes
    BY NoLabelsTyped DEF Counts, Indexes
  <2>7. wl' \in Workloads
    BY <1>0, <2>4, <2>5, <2>6 DEF Workloads
  <2>8. st' \in Statuses
    BY <1>2, NoStatusTyped DEF Create
  <2>. QED BY <1>2, <2>3, <2>7, <2>8 DEF Create, TypeOK
<1>3. ASSUME NEW r \in Revisions, ChangeTemplate(r)
      PROVE  TypeOK'
  <2>. DEFINE p == Patched(Held(wl))
              n == IF r = wl.stable THEN pods[r] ELSE 0
  <2>1. p \in Workloads /\ n \in Nat
    <3>1. Held(wl) \in Workloads
      BY <1>0, HeldTyped
    <3>2. n \in Nat
      BY DEF TypeOK
    <3>. QED BY <3>1, <3>2, PatchedTyped
  <2>2. wl' = [p EXCEPT !.update = r, !.labels = NoLabels, !.marked = 0, !.markedLabelled = 0,
                        !.low = n]
    BY <1>3 DEF ChangeTemplate
  <2>. HIDE DEF p, n
  <2>3. NoLabels \in LabelCounts /\ 0 \in Counts /\ 0 \in Indexes /\ n \in Counts
    BY <2>1, NoLabelsTyped DEF Counts, Indexes
  <2>4. wl' \in Workloads
    BY <2>1, <2>2, <2>3 DEF Workloads
  <2>5. ready' \in Nat /\ down' \in Nat
    <3>1. PICK d \in Above(0, down - (OlderPods - pods[r]))..Below(down, pods[r]) :
            /\ ready' = IF kind = "Canary" THEN 0 ELSE pods[r] - d
            /\ down' = IF kind \in BlueGreenKinds
                       THEN (down - d) + Above(0, pods[wl.update] - ready) ELSE 0
      BY <1>3 DEF ChangeTemplate
    <3>2. /\ pods[r] \in Nat /\ pods[wl.update] \in Nat /\ ready \in Nat /\ down \in Nat
          /\ Total \in Nat
      <4>1. \A q \in Revisions : pods[q] \in Nat
        BY DEF TypeOK
      <4>2. Total \in Nat
        BY <4>1, RevisionsAssumption, SumIsNat DEF Total
      <4>. QED BY <1>0, <4>1, <4>2, WorkloadFields DEF TypeOK
    <3>3. d \in Nat /\ d <= down /\ d <= pods[r]
      BY <3>1, <3>2 DEF Above, Below, OlderPods
    <3>. QED BY <3>1, <3>2, <3>3 DEF Above
  <2>. QED BY <1>3, <2>4, <2>5 DEF ChangeTemplate, TypeOK
<1>4. CASE RollbackInBatches
  <2>. DEFINE p == [plan EXCEPT !.anno = TRUE, !.part = 0, !.rid = NextID]
  <2>1. NextID \in Nat /\ Len(plan.batches) \in Nat /\ Len(plan.batches) > 0
    BY PlanFields DEF NextID
  <2>2. p \in BatchReleases /\ p.part = 0 /\ p.batches = plan.batches
    <3>1. NextID \in Counts /\ 0 \in Indexes
      BY <2>1 DEF Counts, Indexes
    <3>. QED BY <1>0, <3>1 DEF BatchReleases, Flags
  <2>3. p.part \in -1..(Len(p.batches) - 1)
    BY <2>1, <2>2
  <2>. HIDE DEF p
  <2>4. Edit(p)
    BY <1>4 DEF RollbackInBatches, p
  <2>5. wl' \in Workloads
    BY <1>0, <1>4, WipedTyped DEF RollbackInBatches
  <2>6. kind' = kind /\ pods' = pods /\ ready' = ready /\ down' = down /\ listed' = listed
    BY <1>4 DEF RollbackInBatches
  <2>. QED BY <2>2, <2>3, <2>4, <2>5, <2>6, EditTyped DEF TypeOK
<1>5. CASE Scale
  <2>1. PICK n \in Targets : wl' = [Patched(wl) EXCEPT !.replicas = n]
    BY <1>5 DEF Scale
  <2>2. n \in Counts /\ Patched(wl) \in Workloads
    BY <1>0, SizesAssumption, PatchedTyped DEF Counts
  <2>3. wl' \in Workloads
    BY <2>1, <2>2 DEF Workloads
  <2>. QED BY <1>5, <2>3 DEF Scale, TypeOK
<1>6. CASE WorkloadDeleted
  <2>1. wl' \in Workloads
    BY <1>0, <1>6 DEF WorkloadDeleted, Workloads, Flags
  <2>2. pods' \in [Revisions -> Nat] /\ ready' \in Nat
    BY <1>6 DEF WorkloadDeleted, TypeOK
  <2>. QED BY <1>6, <2>1, <2>2 DEF WorkloadDeleted, TypeOK
<1>. QED BY <1>1, <1>2, <1>3, <1>4, <1>5, <1>6 DEF Environment

\* A pod that is removed was there.
LEMMA RemovableHasPods ==
  ASSUME TypeOK, PodRemoved, NEW r \in (IF OtherPods # {} THEN OtherPods ELSE {wl.update})
  PROVE  r \in Revisions /\ pods[r] \in Nat /\ pods[r] > 0
<1>0. wl.update \in Revisions /\ wl.replicas \in Nat /\ pods \in [Revisions -> Nat]
  BY WorkloadFields DEF TypeOK
<1>1. CASE OtherPods # {}
  BY <1>0, <1>1 DEF OtherPods
<1>2. CASE OtherPods = {}
  <2>1. r = wl.update
    BY <1>2
  <2>2. Total > wl.replicas
    BY <1>2 DEF PodRemoved
  <2>3. \A x \in Revisions \ {wl.update} : pods[x] = 0
    BY <1>0, <1>2 DEF OtherPods
  <2>4. Total = pods[wl.update]
    BY <1>0, <2>3, RevisionsAssumption, SumOfOne DEF Total
  <2>. QED BY <1>0, <2>1, <2>2, <2>4
<1>. QED BY <1>1, <1>2

\* Scaling down keeps the types: no count of pods or labels falls below zero.
LEMMA PodRemovedTyped ==
  ASSUME TypeOK, PodRemoved
  PROVE  TypeOK'
<1>0. /\ wl \in Workloads /\ wl.update \in Revisions /\ pods \in [Revisions -> Nat] /\ ready \in Nat
      /\ wl.labels \in LabelCounts
  BY WorkloadFields DEF TypeOK
<1>1. PICK r \in (IF OtherPods # {} THEN OtherPods ELSE {wl.update}) :
        /\ pods' = [pods EXCEPT ![r] = @ - 1]
        /\ ready' = IF kind = "Canary" THEN ready ELSE Below(ready, pods'[wl.update])
        /\ \E labels \in {wl.labels}
              \cup {[wl.labels EXCEPT ![b] = @ - 1] : b \in {c \in 1..MaxBatch : wl.labels[c] > 0}} :
             \/ wl' = wl
             \/ LET n == pods'[wl.update] IN
                  wl' = [wl EXCEPT !.labels = labels, !.low = Below(@, n), !.marked = Below(@, n),
                                   !.markedLabelled = Below(@, n)]
  BY Zenon DEF PodRemoved
<1>2. r \in Revisions /\ pods[r] \in Nat /\ pods[r] > 0
  BY RemovableHasPods
<1>3. pods' \in [Revisions -> Nat]
  BY <1>0, <1>1, <1>2
<1>. DEFINE n == pods'[wl.update]
<1>4. n \in Nat
  BY <1>0, <1>3
<1>5. ready' \in Nat
  BY <1>0, <1>1, <1>4 DEF Below
<1>. HIDE DEF n
<1>6. wl' \in Workloads
  <2>1. PICK labels \in {wl.labels}
              \cup {[wl.labels EXCEPT ![b] = @ - 1] : b \in {c \in 1..MaxBatch : wl.labels[c] > 0}} :
           \/ wl' = wl
           \/ wl' = [wl EXCEPT !.labels = labels, !.low = Below(@, n), !.marked = Below(@, n),
                               !.markedLabelled = Below(@, n)]
    BY <1>1, Zenon DEF n
  <2>2. labels \in LabelCounts
    <3>1. CASE labels = wl.labels
      BY <1>0, <3>1
    <3>2. ASSUME NEW b \in 1..MaxBatch, wl.labels[b] > 0, labels = [wl.labels EXCEPT ![b] = @ - 1]
          PROVE  labels \in LabelCounts
      <4>1. wl.labels \in [1..MaxBatch -> Nat]
        BY <1>0 DEF LabelCounts
      <4>0. b \in 1..MaxBatch
        OBVIOUS
      <4>3. wl.labels[b] \in Nat
        BY <4>0, <4>1, Zenon
      <4>2. wl.labels[b] - 1 \in Nat
        BY <3>2, <4>3
      <4>. QED BY <3>2, <4>1, <4>2, Zenon DEF LabelCounts
    <3>3. CASE labels \in {[wl.labels EXCEPT ![b] = @ - 1] : b \in {c \in 1..MaxBatch : wl.labels[c] > 0}}
      BY <3>2, <3>3, Zenon
    <3>. QED BY <2>1, <3>1, <3>3, Zenon
  <2>3. /\ Below(wl.low, n) \in Counts /\ Below(wl.marked, n) \in Counts
        /\ Below(wl.markedLabelled, n) \in Indexes
    BY <1>0, <1>4, WorkloadFields DEF Below, Counts, Indexes
  <2>. QED BY <1>0, <2>1, <2>2, <2>3 DEF Workloads
<1>7. kind' = kind /\ plan' = plan /\ st' = st /\ listed' = listed
  BY DEF PodRemoved
<1>8. down' \in Nat
  BY DEF PodRemoved, TypeOK
<1>. QED BY <1>3, <1>5, <1>6, <1>7, <1>8 DEF TypeOK

\* The steps of the workload's own controllers keep the types.
LEMMA WorkloadTyped ==
  ASSUME TypeOK, WorkloadStep \/ Fault
  PROVE  TypeOK'
<1>0. /\ wl \in Workloads /\ wl.update \in Revisions /\ wl.stable \in Revisions
      /\ pods \in [Revisions -> Nat] /\ ready \in Nat
      /\ wl.copy \in Copies /\ wl.copy.made \in Nat /\ wl.copy.pods \in Nat
  BY WorkloadFields DEF TypeOK
<1>1. CASE WorkloadObserved
  <2>1. wl' \in Workloads
    BY <1>0, <1>1 DEF WorkloadObserved, Workloads, Flags
  <2>. QED BY <1>1, <2>1 DEF WorkloadObserved, TypeOK
<1>2. CASE PodUpdated
  <2>1. OtherPods \subseteq Revisions /\ \A r \in OtherPods : pods[r] > 0 /\ r # wl.update
    BY DEF OtherPods
  <2>2. pods' \in [Revisions -> Nat]
    BY <1>0, <1>2, <2>1 DEF PodUpdated
  <2>. QED BY <1>2, <2>2 DEF PodUpdated, TypeOK
<1>3. CASE PodReady \/ PodLost
  BY <1>0, <1>3 DEF PodReady, PodLost, TypeOK
<1>4. CASE PodAdded
  <2>. DEFINE r == IF pods[wl.update] < Admitted(wl) THEN wl.update ELSE wl.stable
  <2>1. r \in Revisions
    BY <1>0
  <2>2. pods' = [pods EXCEPT ![r] = @ + 1]
    BY <1>4 DEF PodAdded
  <2>. HIDE DEF r
  <2>3. pods' \in [Revisions -> Nat]
    BY <1>0, <2>1, <2>2
  <2>. QED BY <1>4, <2>3 DEF PodAdded, TypeOK
<1>5. CASE PodRemoved
  BY <1>5, PodRemovedTyped
<1>6. CASE Promoted
  <2>1. wl' \in Workloads
    BY <1>0, <1>6 DEF Promoted, Workloads
  <2>. QED BY <1>6, <2>1 DEF Promoted, TypeOK
<1>7. CASE CopyObserved
  <2>. DEFINE c == [wl.copy EXCEPT !.seen = wl.copy.made > 0, !.expected = "none"]
  <2>0. (wl.copy.made > 0) \in BOOLEAN
    BY <1>0
  <2>1. c \in Copies
    BY <1>0, <2>0 DEF Copies, Flags, Expectations
  <2>2. wl' = [wl EXCEPT !.copy = c]
    BY <1>0, <1>7 DEF CopyObserved, Workloads
  <2>. HIDE DEF c
  <2>3. wl' \in Workloads
    BY <1>0, <2>1, <2>2 DEF Workloads
  <2>. QED BY <1>7, <2>3 DEF CopyObserved, TypeOK
<1>8. CASE CopyPodCreated
  <2>. DEFINE c == [wl.copy EXCEPT !.pods = wl.copy.pods + 1]
  <2>1. c \in Copies
    BY <1>0 DEF Copies, Counts
  <2>2. wl' = [wl EXCEPT !.copy = c]
    BY <1>0, <1>8 DEF CopyPodCreated, Workloads
  <2>. HIDE DEF c
  <2>3. wl' \in Workloads
    BY <1>0, <2>1, <2>2 DEF Workloads
  <2>. QED BY <1>8, <2>3 DEF CopyPodCreated, TypeOK
<1>9. CASE CopySynced \/ ExpectationExpires
  <2>. DEFINE c(e, y) == [wl.copy EXCEPT !.expected = e, !.synced = y]
  <2>1. \A e \in Expectations, y \in BOOLEAN : [wl EXCEPT !.copy = c(e, y)] \in Workloads
    <3>. TAKE e \in Expectations, y \in BOOLEAN
    <3>1. c(e, y) \in Copies
      BY <1>0 DEF Copies, Flags
    <3>. HIDE DEF c
    <3>. QED BY <1>0, <3>1 DEF Workloads
  <2>2. \/ wl' = [wl EXCEPT !.copy = c(wl.copy.expected, TRUE)]
        \/ wl' = [wl EXCEPT !.copy = c("expired", wl.copy.synced)]
    BY <1>0, <1>9 DEF CopySynced, ExpectationExpires, Workloads, Copies
  <2>. HIDE DEF c
  <2>3. wl.copy.expected \in Expectations /\ "expired" \in Expectations /\ wl.copy.synced \in BOOLEAN
    BY <1>0, WorkloadFields DEF Expectations
  <2>4. wl' \in Workloads
    BY <2>1, <2>2, <2>3
  <2>. QED BY <1>9, <2>4 DEF CopySynced, ExpectationExpires, TypeOK
<1>10. CASE OldPodFails \/ OldPodReady
  BY <1>10 DEF OldPodFails, OldPodReady, TypeOK
<1>. QED BY <1>1, <1>2, <1>3, <1>4, <1>5, <1>6, <1>7, <1>8, <1>9, <1>10 DEF WorkloadStep, Fault

\* Every step keeps the types.
LEMMA TypeStep ==
  ASSUME TypeOK, [Next]_vars
  PROVE  TypeOK'
<1>1. CASE Reconcile \/ RemoveFinalizer \/ ReconcileCrashes
  BY <1>1, ControllerTyped
<1>2. CASE Environment
  BY <1>2, EnvironmentTyped
<1>3. CASE WorkloadStep \/ Fault
  BY <1>3, WorkloadTyped
<1>4. CASE UNCHANGED vars
  BY <1>4 DEF vars, TypeOK
<1>. QED BY <1>1, <1>2, <1>3, <1>4 DEF Next

\* Type correctness, whatever the kinds, plans, revisions and operations: among
\* others that the counts of pods and of batch labels never become negative.
THEOREM TypeCorrect == Spec => []TypeOK
BY InitTyped, TypeStep, PTL DEF Spec

-----------------------------------------------------------------------------
(* The percentage that a CloneSet gets.                                    *)

\* What integer division promises.
LEMMA DivisionBounds ==
  ASSUME NEW a \in Nat, NEW n \in Nat \ {0}
  PROVE  /\ a \div n \in Int /\ (a \div n) * n \in Int
         /\ (a \div n) * n <= a /\ a < (a \div n) * n + n
<1>1. a \div n \in Int
  OBVIOUS
<1>2. (a \div n) * n \in Int
  BY <1>1
<1>3. a = (a \div n) * n + (a % n) /\ a % n \in 0..(n - 1)
  BY <1>1
<1>. QED BY <1>1, <1>2, <1>3

\* A percentage is rounded up.
LEMMA ScaledPercent ==
  ASSUME NEW m \in Int, NEW n \in Int
  PROVE  Scaled(Percent(m), n, TRUE) = (m * n + 99) \div 100
<1>1. Percent(m).pct = TRUE /\ Percent(m).n = m
  BY DEF Percent
<1>. QED BY <1>1, Zenon DEF Scaled

\* The cases of ParseIntegerAsPercentageIfPossible.
LEMMA CaseParse ==
  ASSUME NEW s, NEW n, NEW canary
  PROVE  LET p == Percent((s * 100) \div n)
             parsed == ParseIntegerAsPercentageIfPossible(s, n, canary) IN
           /\ s >= n /\ ~(s < n) => parsed = Percent(100)
           /\ ~(s >= n) /\ s < n /\ s <= 0 => parsed = Percent(0)
           /\ ~(s >= n) /\ ~(s <= 0) /\ ~(Scaled(p, n, TRUE) <= 0) => parsed = p
BY Zenon DEF ParseIntegerAsPercentageIfPossible

\* The percentage is rounded down, what it stands for is rounded up again: on up
\* to 100 replicas nothing is lost on the way.
LEMMA PercentageIsExact ==
  ASSUME NEW n \in 1..100, NEW s \in 0..n, NEW canary
  PROVE  Scaled(ParseIntegerAsPercentageIfPossible(s, n, canary), n, TRUE) = s
<1>. DEFINE q == (s * 100) \div n
<1>1. s \in Nat /\ n \in Nat \ {0} /\ n \in Int /\ s * 100 \in Nat /\ n <= 100 /\ s <= n
  OBVIOUS
<1>0. 100 \in Int /\ 0 \in Int
  OBVIOUS
<1>2. CASE s = n
  <2>1. s >= n /\ ~(s < n)
    BY <1>1, <1>2
  <2>2. ParseIntegerAsPercentageIfPossible(s, n, canary) = Percent(100)
    BY <2>1, CaseParse, Zenon
  <2>3. Scaled(Percent(100), n, TRUE) = (100 * n + 99) \div 100
    BY <1>0, <1>1, ScaledPercent, Zenon
  <2>4. (100 * n + 99) \div 100 = n
    BY <1>1
  <2>. QED BY <1>2, <2>2, <2>3, <2>4
<1>3. CASE s = 0
  <2>1. ~(s >= n) /\ s < n /\ s <= 0
    BY <1>1, <1>3
  <2>2. ParseIntegerAsPercentageIfPossible(s, n, canary) = Percent(0)
    BY <2>1, CaseParse, Zenon
  <2>3. Scaled(Percent(0), n, TRUE) = (0 * n + 99) \div 100
    BY <1>0, <1>1, ScaledPercent, Zenon
  <2>4. (0 * n + 99) \div 100 = 0
    BY <1>1
  <2>5. Scaled(Percent(0), n, TRUE) = 0
    BY <2>3, <2>4, Zenon
  <2>. QED BY <1>3, <2>2, <2>5, Zenon
<1>4. CASE s > 0 /\ s < n
  <2>1. q \in Int /\ q * n \in Int /\ q * n <= s * 100 /\ s * 100 < q * n + n
    BY <1>1, DivisionBounds
  <2>2. Scaled(Percent(q), n, TRUE) = (q * n + 99) \div 100
    BY <1>1, <2>1, ScaledPercent, Zenon
  <2>3. ~(s >= n) /\ ~(s <= 0)
    BY <1>1, <1>4
  <2>. HIDE DEF q
  <2>. DEFINE m == q * n
  <2>4. m \in Int /\ m <= s * 100 /\ s * 100 < m + 100
    BY <1>1, <2>1
  <2>. HIDE DEF m
  <2>5. (m + 99) \div 100 = s
    BY <1>1, <2>4
  <2>6. Scaled(Percent(q), n, TRUE) = s
    BY <2>2, <2>5 DEF m
  <2>7. ~(Scaled(Percent(q), n, TRUE) <= 0)
    BY <2>3, <2>6
  <2>8. ParseIntegerAsPercentageIfPossible(s, n, canary) = Percent(q)
    BY <2>3, <2>7, CaseParse, Zenon DEF q
  <2>. QED BY <2>6, <2>8, Zenon
<1>5. s = n \/ s = 0 \/ (s > 0 /\ s < n)
  BY <1>1
<1>. QED BY <1>2, <1>3, <1>4, <1>5, Zenon

\* What the percentage a CloneSet gets holds back is what the batch leaves on the
\* old revision (ParseIntegerAsPercentageIfPossible).
THEOREM KnobIsExactAlways == Spec => []KnobIsExact
<1>1. KnobIsExact
  BY PercentageIsExact DEF KnobIsExact
<1>. QED BY <1>1, PTL

-----------------------------------------------------------------------------
(* The blast radius.  Only a round can let the workload update more pods;   *)
(* the theorem goes through what every operation of the control planes may  *)
(* do to the workload.                                                      *)

Scales == Sizes \cup Targets

\* No later batch asks for less.  (The validating webhook compares only
\* neighbours that are both integers or both percentages.)  Without replicas no
\* batch is upgraded, so that a plan need not rise there: 1, 50% does not.
PlansRise ==
  \A p \in Plans, n \in Scales \ {0} : \A i, j \in DOMAIN p : i <= j =>
    /\ Scaled(p[i], n, TRUE) <= Scaled(p[j], n, TRUE)
    /\ NewRSReplicasLimit(p[i], n) <= NewRSReplicasLimit(p[j], n)

\* A partition of 32767 holds back every pod; a percentage does not round away
\* a pod of a CloneSet; the surge of a blue-green Deployment, which is not
\* limited like the pods its batch waits for, does not go beyond them.
SizesFit ==
  \A n \in Scales :
    /\ n <= Unreached.n
    /\ "CloneSet" \in Kinds => n <= 100 \/ \A p \in Plans : \A i \in DOMAIN p : ~p[i].pct
    /\ "BGDeployment" \in Kinds /\ n # 0 =>
         \A p \in Plans : \A i \in DOMAIN p : Scaled(p[i], n, TRUE) <= NewRSReplicasLimit(p[i], n)

\* As long as a partition is left, a plain Deployment is held, and a blue-green
\* workload is held or claimed.
Secured(w) ==
  /\ kind = "Canary" => w.paused
  /\ kind \in BlueGreenKinds => (w.owner <=> ~w.own) /\ (w.owner \/ w.paused)

\* The status never is ahead of the plan it was computed for.
StatusInStep(s) ==
  /\ s.kept = Nil
  /\ s.hash = NoSpec => s.batch = 0
  /\ s.hash.part # Nil => s.batch <= s.hash.part
  /\ s.phase = "Progressing" => s.update # NoRevision

BlastInv ==
  /\ TypeOK
  /\ wl.replicas \in Scales
  /\ ~plan.anno
  /\ StatusInStep(st)
  /\ kind # "Canary" => wl.copy.size = 0
  /\ plan.part # Nil =>
       /\ Secured(wl)
       /\ st.phase = "Finalizing" => plan.deleting \/ ~wl.exists \/ ~plan.exists

\* Admitted, kind by kind.
LEMMA AdmittedIs ==
  ASSUME NEW w
  PROVE  /\ kind \in {"CloneSet", "DaemonSet", "StatefulSet", "NativeDaemonSet"} =>
              Admitted(w) = IF w.own THEN w.replicas
                            ELSE Clamp(w.replicas - Scaled(w.knob, w.replicas, TRUE), w.replicas)
         /\ kind = "OrderedStatefulSet" =>
              Admitted(w) = IF w.own THEN w.replicas
                            ELSE Clamp(w.replicas - w.knob.n, w.replicas)
                                   + Below(w.low, Clamp(w.knob.n, w.replicas))
         /\ kind = "Deployment" =>
              Admitted(w) = IF w.owner /\ w.paused /\ ~w.own /\ ~w.frozen
                            THEN NewRSReplicasLimit(w.knob, w.replicas)
                            ELSE IF w.paused THEN 0 ELSE w.replicas
         /\ kind = "MinReady" =>
              Admitted(w) = IF w.own THEN w.replicas
                            ELSE Clamp(Scaled(w.knob, w.replicas, TRUE), w.replicas)
         /\ kind \in BlueGreenKinds =>
              Admitted(w) = IF w.paused THEN 0
                            ELSE IF w.own THEN w.replicas ELSE Scaled(w.knob, w.replicas, TRUE)
         /\ kind = "Canary" => Admitted(w) = IF w.paused THEN 0 ELSE w.replicas
<1>1. CASE kind \in {"CloneSet", "DaemonSet", "StatefulSet", "NativeDaemonSet"}
  BY <1>1, Zenon DEF Admitted, StableKnob, StatefulSets, BlueGreenKinds
<1>2. CASE kind = "OrderedStatefulSet"
  BY <1>2, Zenon DEF Admitted, StableKnob, StatefulSets, BlueGreenKinds
<1>3. CASE kind = "Deployment"
  BY <1>3, Zenon DEF Admitted, StableKnob, StatefulSets, BlueGreenKinds
<1>4. CASE kind = "MinReady"
  BY <1>4, Zenon DEF Admitted, StableKnob, StatefulSets, BlueGreenKinds
<1>5. CASE kind \in BlueGreenKinds
  BY <1>5, Zenon DEF Admitted, StableKnob, StatefulSets, BlueGreenKinds
<1>6. CASE kind = "Canary"
  BY <1>6, Zenon DEF Admitted, StableKnob, StatefulSets, BlueGreenKinds
<1>. QED BY <1>1, <1>2, <1>3, <1>4, <1>5, <1>6, Zenon

\* No more pods than there are replicas are admitted, but for a surge.
LEMMA AdmittedBounds ==
  ASSUME TypeOK, NEW w \in Workloads
  PROVE  /\ Admitted(w) \in Int
         /\ kind \notin BlueGreenKinds => Admitted(w) >= 0 /\ Admitted(w) <= w.replicas
<1>1. w.replicas \in Nat /\ w.knob \in Knobs /\ w.low \in Nat /\ w.knob.n \in Int
  BY WorkloadFields DEF Knobs, Indexes
<1>2. Scaled(w.knob, w.replicas, TRUE) \in Int
  <2>1. w.replicas \in Int
    BY <1>1
  <2>. QED BY <1>1, <2>1, ScaledIsInt, Zenon
<1>3. NewRSReplicasLimit(w.knob, w.replicas) \in Nat /\ NewRSReplicasLimit(w.knob, w.replicas) <= w.replicas
  BY <1>1, LimitIsNat
<1>. DEFINE n == w.replicas
            k == w.knob.n
            x == Scaled(w.knob, w.replicas, TRUE)
            limit == NewRSReplicasLimit(w.knob, w.replicas)
<1>4. n \in Nat /\ k \in Int /\ w.low \in Nat /\ x \in Int /\ limit \in Nat /\ limit <= n
  BY <1>1, <1>2, <1>3
<1>5. /\ kind \in {"CloneSet", "DaemonSet", "StatefulSet", "NativeDaemonSet"} =>
           Admitted(w) = n \/ Admitted(w) = Clamp(n - x, n)
      /\ kind = "OrderedStatefulSet" =>
           Admitted(w) = n \/ Admitted(w) = Clamp(n - k, n) + Below(w.low, Clamp(k, n))
      /\ kind = "Deployment" => Admitted(w) \in {limit, 0, n}
      /\ kind = "MinReady" => Admitted(w) = n \/ Admitted(w) = Clamp(x, n)
      /\ kind \in BlueGreenKinds => Admitted(w) \in {0, n, x}
      /\ kind = "Canary" => Admitted(w) \in {0, n}
  BY AdmittedIs, Zenon
<1>. HIDE DEF n, k, x, limit
<1>6. /\ Clamp(n - x, n) \in 0..n /\ Clamp(x, n) \in 0..n
      /\ Clamp(n - k, n) + Below(w.low, Clamp(k, n)) \in 0..n
  BY <1>4 DEF Clamp, Above, Below
<1>7. CASE kind \in BlueGreenKinds
  BY <1>4, <1>5, <1>7
<1>8. CASE kind \notin BlueGreenKinds
  <2>1. Admitted(w) \in 0..n
    <3>1. 0 \in 0..n /\ n \in 0..n /\ limit \in 0..n
      BY <1>4
    <3>. QED BY <1>5, <1>6, <1>8, <3>1, KindIsKnown, Zenon
  <2>. QED BY <1>4, <1>8, <2>1 DEF n
<1>. QED BY <1>7, <1>8

\* v and w differ in nothing that decides how many pods may be updated.
SameStrategy(v, w) ==
  /\ v.own = w.own /\ v.knob = w.knob /\ v.paused = w.paused /\ v.owner = w.owner
  /\ v.frozen = w.frozen /\ v.low = w.low /\ v.replicas = w.replicas
  /\ v.exists = w.exists /\ v.update = w.update /\ v.copy.size = w.copy.size

\* Workloads with the same strategy admit the same.
LEMMA SameAdmitted ==
  ASSUME NEW v, NEW w, SameStrategy(v, w)
  PROVE  Admitted(v) = Admitted(w)
BY Zenon DEF Admitted, SameStrategy

\* The same workload, whatever its strategy has become.
SameWorkload(w) ==
  /\ w.exists = wl.exists /\ w.replicas = wl.replicas /\ w.update = wl.update
  /\ kind # "Canary" => w.copy.size = wl.copy.size

NoMore(w) == Admitted(w) <= Admitted(wl) /\ w.copy.size <= wl.copy.size

\* What BlastRadius asks of a workload that may update more.
Justified(w) ==
  /\ wl.observed \/ kind = "Canary"
  /\ st.update = wl.update \/ SingleVersion \/ st.kept # Nil
  /\ Above(Admitted(w), w.copy.size) <= AskedFor(plan.part) + AlreadyThere

\* A workload that a round may leave behind.
Tame(w) ==
  /\ SameWorkload(w)
  /\ plan.part # Nil =>
       /\ Secured(w)
       /\ ~wl.exists \/ NoMore(w) \/ (kind = "MinReady" /\ plan.deleting) \/ Justified(w)

\* Being tame depends on the strategy alone.
LEMMA TameDepends ==
  ASSUME NEW v, NEW w, SameStrategy(v, w), Tame(w)
  PROVE  Tame(v)
<1>1. Admitted(v) = Admitted(w)
  BY SameAdmitted
<1>2. SameWorkload(v) /\ (Secured(w) => Secured(v))
  BY Zenon DEF SameWorkload, Secured, SameStrategy, Tame
<1>3. (NoMore(w) => NoMore(v)) /\ (Justified(w) => Justified(v))
  BY <1>1, Zenon DEF NoMore, Justified, SameStrategy
<1>. QED BY <1>2, <1>3, Zenon DEF Tame

\* Nothing is raised by leaving the workload as it is.
LEMMA TameItself ==
  ASSUME BlastInv
  PROVE  Tame(wl)
<1>1. Admitted(wl) \in Int /\ wl.copy.size \in Int
  BY AdmittedBounds, WorkloadFields DEF BlastInv, TypeOK
<1>2. NoMore(wl)
  BY <1>1 DEF NoMore
<1>. QED BY <1>2, Zenon DEF Tame, SameWorkload, BlastInv

\* Nothing may be updated that could not be before.
LEMMA TameIfNoMore ==
  ASSUME BlastInv, kind \in PartitionKinds, NEW w \in Workloads,
         w.exists = wl.exists, w.replicas = wl.replicas, w.update = wl.update, w.copy = wl.copy,
         Admitted(w) <= Admitted(wl)
  PROVE  Tame(w)
<1>1. wl.copy.size \in Int
  BY WorkloadFields DEF BlastInv, TypeOK
<1>2. NoMore(w)
  BY <1>1 DEF NoMore
<1>3. kind # "Canary" /\ kind \notin BlueGreenKinds
  BY DEF PartitionKinds, StableKnob, StatefulSets, BlueGreenKinds
<1>. QED BY <1>2, <1>3, Zenon DEF Tame, SameWorkload, Secured

\* Claiming a workload admits no more pods than the webhook's hold did.
LEMMA ClaimTame ==
  ASSUME BlastInv, kind \in PartitionKinds, SizesFit
  PROVE  Tame(ClaimPartition(wl)) /\ ClaimPartition(wl) \in Workloads
<1>. DEFINE w == ClaimPartition(wl)
            n == wl.replicas
            m == Unreached.n
<1>0. m \in Int /\ TypeOK /\ wl \in Workloads /\ n \in Nat /\ n <= m /\ wl.low \in Nat /\ wl.knob.n \in Int
      /\ wl.own \in BOOLEAN
  <2>1. TypeOK /\ wl \in Workloads /\ n \in Scales
    BY DEF BlastInv, TypeOK
  <2>2. n \in Nat /\ wl.low \in Nat /\ wl.knob \in Knobs /\ wl.own \in BOOLEAN
    BY <2>1, WorkloadFields
  <2>3. wl.knob.n \in Int
    BY <2>2 DEF Knobs, Indexes
  <2>4. n <= m
    BY <2>1, Zenon DEF SizesFit
  <2>5. m \in Int
    BY DEF Unreached, Int32
  <2>. QED BY <2>1, <2>2, <2>3, <2>4, <2>5
<1>. HIDE DEF m
<1>1. w \in Workloads
  BY <1>0, ClaimPartitionTyped
<1>2. Admitted(wl) \in Int /\ Admitted(wl) >= 0 /\ kind \notin BlueGreenKinds
  <2>1. kind \notin BlueGreenKinds
    BY DEF PartitionKinds, StableKnob, StatefulSets, BlueGreenKinds
  <2>. QED BY <1>0, <2>1, AdmittedBounds
<1>. DEFINE p == Patched(wl)
<1>3. /\ p \in Workloads /\ p.exists = wl.exists /\ p.replicas = n /\ p.update = wl.update
      /\ p.copy = wl.copy /\ p.own = wl.own /\ p.knob = wl.knob /\ p.low = wl.low
  <2>1. p \in Workloads
    BY <1>0, PatchedTyped
  <2>. QED BY <1>0, <2>1 DEF Patched, Workloads
<1>. HIDE DEF p
<1>. DEFINE claimed(k) == [p EXCEPT !.owner = TRUE, !.own = FALSE, !.paused = FALSE, !.knob = k]
<1>4. \A k : /\ claimed(k).exists = wl.exists /\ claimed(k).replicas = n
             /\ claimed(k).update = wl.update /\ claimed(k).copy = wl.copy
             /\ claimed(k).own = FALSE /\ claimed(k).knob = k /\ claimed(k).low = wl.low
  BY <1>3 DEF Workloads
<1>. HIDE DEF claimed
<1>5. CASE w = wl
  BY <1>1, <1>5, TameItself
<1>6. CASE kind = "CloneSet" /\ w # wl
  <2>1. w = claimed(Percent(100))
    BY <1>6, Zenon DEF ClaimPartition, ClaimCloneSet, Claim, claimed, p, StatefulSets
  <2>2. Scaled(Percent(100), n, TRUE) = n
    BY <1>0 DEF Scaled, Percent
  <2>3. Clamp(n - n, n) = 0
    BY <1>0 DEF Clamp, Above, Below
  <2>6. w.own = FALSE /\ w.replicas = n /\ w.knob = Percent(100)
    BY <1>4, <2>1, Zenon
  <2>7. Admitted(w) = Clamp(w.replicas - Scaled(w.knob, w.replicas, TRUE), w.replicas)
    BY <1>6, <2>6, AdmittedIs, Zenon
  <2>4. Admitted(w) = 0
    BY <2>2, <2>3, <2>6, <2>7, Zenon
  <2>5. Admitted(w) <= Admitted(wl)
    BY <1>2, <2>4
  <2>. QED BY <1>1, <1>4, <2>1, <2>5, TameIfNoMore, Zenon
<1>7. CASE kind = "DaemonSet" /\ w # wl
  <2>1. w = claimed(Int32(n))
    BY <1>7, Zenon DEF ClaimPartition, ClaimDaemonSet, Claim, claimed, p, StatefulSets
  <2>2. Scaled(Int32(n), n, TRUE) = n
    BY <1>0 DEF Scaled, Int32
  <2>3. Clamp(n - n, n) = 0
    BY <1>0 DEF Clamp, Above, Below
  <2>6. w.own = FALSE /\ w.replicas = n /\ w.knob = Int32(n)
    BY <1>4, <2>1, Zenon
  <2>7. Admitted(w) = Clamp(w.replicas - Scaled(w.knob, w.replicas, TRUE), w.replicas)
    BY <1>7, <2>6, AdmittedIs, Zenon
  <2>4. Admitted(w) = 0
    BY <2>2, <2>3, <2>6, <2>7, Zenon
  <2>5. Admitted(w) <= Admitted(wl)
    BY <1>2, <2>4
  <2>. QED BY <1>1, <1>4, <2>1, <2>5, TameIfNoMore, Zenon
<1>8. CASE kind \in StatefulSets /\ w # wl
  <2>1. w = claimed(Unreached)
    BY <1>8, Zenon DEF ClaimPartition, ClaimStatefulSet, Claim, claimed, p, StatefulSets
  <2>2. Scaled(Unreached, n, TRUE) = m
    BY <1>0 DEF Scaled, Int32, Unreached, m
  <2>3. Clamp(n - m, n) = 0 /\ Clamp(m, n) = n
    BY <1>0 DEF Clamp, Above, Below
  <2>4. w.own = FALSE /\ w.replicas = n /\ w.knob = Unreached /\ w.low = wl.low
    BY <1>4, <2>1, Zenon
  <2>5. ASSUME kind = "StatefulSet" PROVE Admitted(w) <= Admitted(wl)
    <3>1. Admitted(w) = Clamp(w.replicas - Scaled(w.knob, w.replicas, TRUE), w.replicas)
      BY <2>4, <2>5, AdmittedIs, Zenon
    <3>3. Scaled(w.knob, w.replicas, TRUE) = m
      BY <2>2, <2>4, Zenon
    <3>2. Admitted(w) = 0
      BY <2>3, <2>4, <3>1, <3>3, Zenon
    <3>. QED BY <1>2, <3>2
  <2>6. ASSUME kind = "OrderedStatefulSet" PROVE Admitted(w) <= Admitted(wl)
    <3>1. Admitted(w) = Clamp(w.replicas - w.knob.n, w.replicas)
                          + Below(w.low, Clamp(w.knob.n, w.replicas))
      BY <2>4, <2>6, AdmittedIs, Zenon
    <3>6. w.knob.n = m
      BY <2>4, Zenon DEF m
    <3>7. Admitted(w) = Clamp(n - m, n) + Below(wl.low, Clamp(m, n))
      BY <2>4, <3>1, <3>6, Zenon
    <3>2. Admitted(w) = 0 + Below(wl.low, n)
      BY <2>3, <3>7, Zenon
    <3>3. \/ Admitted(wl) = n
          \/ Admitted(wl) = Clamp(n - wl.knob.n, n) + Below(wl.low, Clamp(wl.knob.n, n))
      BY <2>6, AdmittedIs, Zenon
    <3>. DEFINE k == wl.knob.n
                low == wl.low
    <3>4. /\ Below(low, n) <= n
          /\ Below(low, n) <= Clamp(n - k, n) + Below(low, Clamp(k, n))
      <4>1. n \in Nat /\ k \in Int /\ low \in Nat
        BY <1>0
      <4>. HIDE DEF n, k, low
      <4>. QED BY <4>1 DEF Clamp, Above, Below
    <3>5. 0 + Below(wl.low, n) = Below(wl.low, n)
      BY <1>0 DEF Below
    <3>. QED BY <3>2, <3>3, <3>4, <3>5, Zenon
  <2>7. Admitted(w) <= Admitted(wl)
    BY <1>8, <2>5, <2>6, Zenon DEF StatefulSets
  <2>. QED BY <1>1, <1>4, <2>1, <2>7, TameIfNoMore, Zenon
<1>9. CASE kind = "NativeDaemonSet" /\ w # wl
  <2>1. w = [p EXCEPT !.owner = TRUE, !.own = FALSE]
    BY <1>9, Zenon DEF ClaimPartition, ClaimNativeDaemonSet, p, StatefulSets
  <2>2. /\ w.exists = wl.exists /\ w.replicas = n /\ w.update = wl.update /\ w.copy = wl.copy
        /\ w.own = FALSE /\ w.knob = wl.knob
    BY <1>3, <2>1 DEF Workloads
  <2>3. Admitted(w) \in Int /\ Admitted(w) <= n
    BY <1>0, <1>1, <1>2, <2>2, AdmittedBounds
  <2>4. Admitted(wl) = n \/ Admitted(wl) = Admitted(w)
    BY <1>9, <2>2, AdmittedIs, Zenon
  <2>5. Admitted(w) <= Admitted(wl)
    BY <1>2, <2>3, <2>4
  <2>. QED BY <1>1, <2>2, <2>5, TameIfNoMore, Zenon
<1>10. CASE kind = "Deployment" /\ w # wl
  <2>1. w = [p EXCEPT !.owner = TRUE, !.own = FALSE, !.paused = TRUE, !.frozen = FALSE, !.knob = Unset]
    BY <1>10, Zenon DEF ClaimPartition, ClaimDeployment, p, StatefulSets
  <2>2. /\ w.exists = wl.exists /\ w.replicas = n /\ w.update = wl.update /\ w.copy = wl.copy
        /\ w.own = FALSE /\ w.owner = TRUE /\ w.paused = TRUE /\ w.frozen = FALSE /\ w.knob = Unset
    BY <1>3, <2>1 DEF Workloads
  <2>3. NewRSReplicasLimit(Unset, n) = 0
    BY <1>0 DEF NewRSReplicasLimit, Unset, Int32, Percent, Scaled, Clamp, Above, Below
  <2>4. Admitted(w) = 0
    BY <1>10, <2>2, <2>3, AdmittedIs, Zenon
  <2>5. Admitted(w) <= Admitted(wl)
    BY <1>2, <2>4
  <2>. QED BY <1>1, <2>2, <2>5, TameIfNoMore, Zenon
<1>11. CASE kind = "MinReady" /\ w # wl
  <2>. DEFINE w1 == [wl EXCEPT !.owner = TRUE, !.own = FALSE, !.paused = FALSE, !.knob = Unset]
  <2>1. w = Patched(w1)
    BY <1>11, Zenon DEF ClaimPartition, ClaimMinReady, Change, StatefulSets
  <2>2. /\ w.exists = wl.exists /\ w.replicas = n /\ w.update = wl.update /\ w.copy = wl.copy
        /\ w.own = FALSE /\ w.knob = Unset
    BY <1>0, <2>1 DEF Workloads, Patched
  <2>3. Scaled(Unset, n, TRUE) = 0 /\ Clamp(0, n) = 0
    BY <1>0 DEF Unset, Int32, Scaled, Clamp, Above, Below
  <2>4. Admitted(w) = 0
    BY <1>11, <2>2, <2>3, AdmittedIs, Zenon
  <2>5. Admitted(w) <= Admitted(wl)
    BY <1>2, <2>4
  <2>. QED BY <1>1, <2>2, <2>5, TameIfNoMore, Zenon
<1>12. kind \in {"CloneSet", "DaemonSet", "NativeDaemonSet", "Deployment", "MinReady"}
       \/ kind \in StatefulSets
  BY <1>0, KindIsKnown DEF StatefulSets
<1>. HIDE DEF w
<1>13. Tame(w) /\ w \in Workloads
  BY <1>5, <1>6, <1>7, <1>8, <1>9, <1>10, <1>11, <1>12 DEF w
<1>. QED BY <1>13 DEF w


\* The outcome of an operation that starts from the status s.
Outcome(r, s) ==
  /\ Tame(r.w) /\ Tame(r.mid)
  /\ r.s.kept = Nil /\ r.s.batch = s.batch /\ r.s.hash = s.hash /\ r.s.phase = s.phase
  /\ r.s.update = s.update \/ r.s.update # NoRevision

\* A result of tame workloads and of a status in step is a tame outcome.
LEMMA OutcomeOf ==
  ASSUME NEW w \in Workloads, NEW m \in Workloads, Tame(w), Tame(m), NEW ok,
         NEW s1 \in Statuses, NEW s, s1.kept = Nil, s1.batch = s.batch, s1.hash = s.hash,
         s1.phase = s.phase, s1.update = s.update \/ s1.update # NoRevision
  PROVE  Outcome(Result(w, s1, ok), s) /\ Outcome([Result(w, s1, ok) EXCEPT !.mid = m], s)
<1>1. /\ Result(w, s1, ok).w = w /\ Result(w, s1, ok).mid = w /\ Result(w, s1, ok).s = s1
      /\ [Result(w, s1, ok) EXCEPT !.mid = m].w = w /\ [Result(w, s1, ok) EXCEPT !.mid = m].mid = m
      /\ [Result(w, s1, ok) EXCEPT !.mid = m].s = s1
  BY DEF Result
<1>. QED BY <1>1, Zenon DEF Outcome

\* Recording the workload leaves the batch, the hash and the phase.
LEMMA RecordedInStep ==
  ASSUME NEW w \in Workloads, NEW s \in Statuses
  PROVE  /\ Recorded(w, s).kept = s.kept /\ Recorded(w, s).batch = s.batch
         /\ Recorded(w, s).hash = s.hash /\ Recorded(w, s).phase = s.phase
         /\ Recorded(w, s).update # NoRevision
<1>1. w.update # NoRevision
  BY WorkloadFields, RevisionAssumption
<1>. QED BY <1>1 DEF Recorded, Statuses

\* A revision is recorded when a release is prepared.
Prepared(r) == Outcome(r, st) /\ (r.ok => r.s.update # NoRevision)

\* A tame outcome that records the revision when it succeeds has prepared the
\* release.
LEMMA PreparedIf ==
  ASSUME NEW w, NEW s, NEW ok, NEW m, ok => s.update # NoRevision
  PROVE  /\ Outcome(Result(w, s, ok), st) => Prepared(Result(w, s, ok))
         /\ Outcome([Result(w, s, ok) EXCEPT !.mid = m], st)
              => Prepared([Result(w, s, ok) EXCEPT !.mid = m])
<1>1. /\ Result(w, s, ok).ok = ok /\ Result(w, s, ok).s = s
      /\ [Result(w, s, ok) EXCEPT !.mid = m].ok = ok
      /\ [Result(w, s, ok) EXCEPT !.mid = m].s = s
  BY DEF Result
<1>. QED BY <1>1, Zenon DEF Prepared

\* Preparing never lets a pod be updated.
LEMMA InitializeTame ==
  ASSUME BlastInv, SizesFit
  PROVE  Prepared(Initialize(wl, st))
<1>0. TypeOK /\ wl \in Workloads /\ st \in Statuses /\ st.kept = Nil /\ ~plan.anno
      /\ wl.exists \in BOOLEAN /\ Tame(wl)
  BY WorkloadFields, TameItself DEF BlastInv, TypeOK, StatusInStep
<1>. DEFINE s1 == Recorded(wl, st)
<1>1. /\ s1 \in Statuses /\ s1.kept = Nil /\ s1.batch = st.batch /\ s1.hash = st.hash
      /\ s1.phase = st.phase /\ s1.update # NoRevision
  BY <1>0, RecordedTyped, RecordedInStep
<1>. HIDE DEF s1
<1>3. CASE ~wl.exists
  <2>1. Initialize(wl, st) = Result(wl, st, FALSE)
    BY <1>0, <1>3, Zenon DEF Initialize, Failed
  <2>2. Outcome(Result(wl, st, FALSE), st)
    BY <1>0, OutcomeOf
  <2>3. Prepared(Result(wl, st, FALSE))
    BY <2>2, PreparedIf
  <2>. QED BY <2>1, <2>3, Zenon
<1>4. CASE wl.exists /\ kind \in PartitionKinds
  <2>1. Initialize(wl, st) = InitializePartition(wl, st)
    BY <1>4, Zenon DEF Initialize, PartitionKinds, StableKnob, StatefulSets, BlueGreenKinds
  <2>2. InitializePartition(wl, st) = Result(ClaimPartition(wl), s1, TRUE)
    BY <1>0, Zenon DEF InitializePartition, s1
  <2>3. Tame(ClaimPartition(wl)) /\ ClaimPartition(wl) \in Workloads
    BY <1>4, ClaimTame
  <2>4. Outcome(Result(ClaimPartition(wl), s1, TRUE), st)
    BY <1>1, <2>3, OutcomeOf
  <2>5. Prepared(Result(ClaimPartition(wl), s1, TRUE))
    BY <1>1, <2>4, PreparedIf
  <2>. QED BY <2>1, <2>2, <2>5, Zenon
<1>5. CASE wl.exists /\ kind \in BlueGreenKinds
  <2>1. Initialize(wl, st) = InitializeBlueGreen(wl, st)
    BY <1>5, Zenon DEF Initialize, PartitionKinds, StableKnob, StatefulSets, BlueGreenKinds
  <2>. DEFINE off == DisableHPA(wl)
              w1 == [Patched(off) EXCEPT !.owner = TRUE, !.own = FALSE, !.knob = Int32(1)]
  <2>2. off \in Workloads /\ SameStrategy(off, wl)
    BY <1>0 DEF DisableHPA, Workloads, Flags, SameStrategy
  <2>3. Tame(off)
    BY <1>0, <2>2, TameDepends
  <2>4. /\ w1 \in Workloads /\ w1.exists = wl.exists /\ w1.replicas = wl.replicas
        /\ w1.update = wl.update /\ w1.copy = wl.copy /\ w1.paused = wl.paused
        /\ w1.owner = TRUE /\ w1.own = FALSE
    <3>1. Int32(1) \in Knobs
      BY KnobsOfTheCode
    <3>. QED BY <1>0, <3>1 DEF Patched, DisableHPA, Workloads, Flags
  <2>. HIDE DEF off, w1
  <2>5. ASSUME ~wl.owner PROVE Tame(w1)
    <3>1. kind # "Canary"
      BY <1>5 DEF BlueGreenKinds
    <3>2. SameWorkload(w1) /\ Secured(w1)
      BY <2>4, <3>1, Zenon DEF SameWorkload, Secured
    <3>3. CASE plan.part # Nil
      <4>1. wl.paused
        BY <1>5, <2>5, <3>3, Zenon DEF BlastInv, Secured
      <4>2. Admitted(w1) = 0 /\ Admitted(wl) = 0
        BY <1>5, <2>4, <4>1, AdmittedIs, Zenon
      <4>3. w1.copy.size = wl.copy.size /\ wl.copy.size \in Int
        BY <1>0, <2>4, WorkloadFields
      <4>4. NoMore(w1)
        BY <4>2, <4>3 DEF NoMore
      <4>. QED BY <3>2, <4>4, Zenon DEF Tame
    <3>. QED BY <3>2, <3>3, Zenon DEF Tame
  <2>6. InitializeBlueGreen(wl, st) = IF wl.owner THEN Result(wl, s1, TRUE)
                                      ELSE [Result(w1, s1, TRUE) EXCEPT !.mid = off]
    BY Zenon DEF InitializeBlueGreen, s1, off, w1
  <2>7. Outcome(Result(wl, s1, TRUE), st)
    BY <1>0, <1>1, OutcomeOf
  <2>8. ~wl.owner => Outcome([Result(w1, s1, TRUE) EXCEPT !.mid = off], st)
    BY <1>1, <2>2, <2>3, <2>4, <2>5, OutcomeOf
  <2>9. /\ Prepared(Result(wl, s1, TRUE))
        /\ ~wl.owner => Prepared([Result(w1, s1, TRUE) EXCEPT !.mid = off])
    BY <1>1, <2>7, <2>8, PreparedIf
  <2>. QED BY <2>1, <2>6, <2>9, Zenon
<1>6. CASE wl.exists /\ kind = "Canary"
  <2>1. Initialize(wl, st) = InitializeCanary(wl, st)
    BY <1>6, Zenon DEF Initialize, PartitionKinds, StableKnob, StatefulSets, BlueGreenKinds
  <2>. DEFINE w1 == ClaimStable(wl)
              w2 == CreateCopy(w1)
  <2>2. /\ w1 \in Workloads /\ w1.exists = wl.exists /\ w1.replicas = wl.replicas
        /\ w1.update = wl.update /\ w1.copy = wl.copy /\ w1.paused = wl.paused
    BY <1>0 DEF ClaimStable, Workloads, Flags
  <2>. HIDE DEF w1
  <2>3. /\ w2 \in Workloads /\ w2.exists = wl.exists /\ w2.replicas = wl.replicas
        /\ w2.update = wl.update /\ w2.copy.size = 0 /\ w2.paused = wl.paused
    <3>. DEFINE c == [w1.copy EXCEPT !.made = w1.copy.made + 1, !.expected = "waiting",
                                     !.rev = w1.update, !.seen = FALSE, !.synced = FALSE,
                                     !.size = 0, !.pods = 0]
    <3>1. w1.copy \in Copies /\ w1.copy.made + 1 \in Nat /\ w1.update \in RevisionsOrNone
      BY <2>2, WorkloadFields DEF RevisionsOrNone
    <3>2. c \in Copies /\ c.size = 0
      BY <3>1 DEF Copies, Counts, Flags, Expectations
    <3>3. w2 = [w1 EXCEPT !.copy = c]
      BY DEF CreateCopy
    <3>. HIDE DEF c, w2
    <3>. QED BY <2>2, <3>2, <3>3 DEF Workloads
  <2>. HIDE DEF w2
  <2>4. wl.copy.size \in Nat /\ Admitted(wl) \in Int /\ kind \notin BlueGreenKinds
    BY <1>0, <1>6, WorkloadFields, AdmittedBounds DEF BlueGreenKinds
  <2>5. Admitted(w1) = Admitted(wl) /\ Admitted(w2) = Admitted(wl)
    BY <1>6, <2>2, <2>3, AdmittedIs, Zenon
  <2>6. NoMore(w1) /\ NoMore(w2)
    BY <2>2, <2>3, <2>4, <2>5 DEF NoMore
  <2>7. Tame(w1) /\ Tame(w2)
    BY <1>0, <1>6, <2>2, <2>3, <2>4, <2>6, Zenon DEF Tame, SameWorkload, Secured
  <2>8. /\ Outcome(Result(w1, s1, TRUE), st) /\ Outcome(Result(w1, st, FALSE), st)
        /\ Outcome([Result(w2, st, FALSE) EXCEPT !.mid = w1], st)
    BY <1>0, <1>1, <2>2, <2>3, <2>7, OutcomeOf
  <2>9. \/ InitializeCanary(wl, st) = Result(w1, s1, TRUE)
        \/ InitializeCanary(wl, st) = Result(w1, st, FALSE)
        \/ InitializeCanary(wl, st) = [Result(w2, st, FALSE) EXCEPT !.mid = w1]
    BY Zenon DEF InitializeCanary, s1, w1, w2
  <2>10. /\ Prepared(Result(w1, s1, TRUE)) /\ Prepared(Result(w1, st, FALSE))
         /\ Prepared([Result(w2, st, FALSE) EXCEPT !.mid = w1])
    BY <1>1, <2>8, PreparedIf
  <2>. QED BY <2>1, <2>9, <2>10, Zenon
<1>. QED BY <1>0, <1>3, <1>4, <1>5, <1>6, KindIsKnown

\* What a batch asks for when no pods are kept.
LEMMA DesiredIs ==
  ASSUME BlastInv, NEW s \in Statuses, s.kept = Nil
  PROVE  LET b == plan.batches
             n == wl.replicas
             calc == CalculateBatchReplicas(b, n, s.batch)
             ctx == BatchContext(wl, s)
         IN /\ kind \in (PartitionKinds \ {"Deployment"}) \cup {"Canary"} =>
                 (calc \in Int /\ n \in Int => ctx.desired = calc)
            /\ kind \in {"Deployment", "BGDeployment"} =>
                 ctx.desired = NewRSReplicasLimit(b[s.batch + 1], n) /\ ctx.knob = b[s.batch + 1]
            /\ kind = "BGCloneSet" =>
                 ctx.desired = Scaled(b[s.batch + 1], n, TRUE) /\ ctx.knob = b[s.batch + 1]
            /\ calc \in Int /\ n \in Int =>
                 /\ kind = "CloneSet" =>
                      ctx.knob = IF b[s.batch + 1].pct
                                 THEN ParseIntegerAsPercentageIfPossible(n - calc, n, b[s.batch + 1])
                                 ELSE Int32(n - calc)
                 /\ kind \in {"StatefulSet", "DaemonSet", "NativeDaemonSet"} =>
                      ctx.knob = Int32(Above(n - calc, 0))
                 /\ kind = "OrderedStatefulSet" => ctx.knob = Int32(n - calc)
<1>. DEFINE b == plan.batches
            n == wl.replicas
            i == s.batch
            calc == CalculateBatchReplicas(b, n, i)
            ctx == BatchContext(wl, s)
<1>1. Above(Nil, 0) = 0
  BY DEF Above, Nil
<1>2. ASSUME n \in Int, calc \in Int
      PROVE  DesiredStable(b, n, i, Nil) = n - calc
  <2>1. n - 0 = n
    BY <1>2
  <2>2. DesiredStable(b, n, i, Nil) = (n - 0) - CalculateBatchReplicas(b, n - 0, i)
    BY <1>1, Zenon DEF DesiredStable
  <2>. QED BY <2>1, <2>2, Zenon
<1>3. CASE kind = "CloneSet"
  <2>1. ctx = CloneSetContext(b, n, i, Nil)
    BY <1>3, Zenon DEF BatchContext
  <2>2. ASSUME n \in Int, calc \in Int
        PROVE  /\ ctx.desired = n - (n - calc)
               /\ ctx.knob = IF b[i + 1].pct
                             THEN ParseIntegerAsPercentageIfPossible(n - calc, n, b[i + 1])
                             ELSE Int32(n - calc)
    BY <1>2, <2>1, <2>2 DEF CloneSetContext
  <2>3. n \in Int /\ calc \in Int => ctx.desired = calc
    BY <2>2
  <2>. QED BY <1>3, <2>2, <2>3 DEF BlueGreenKinds
<1>4. CASE kind \in {"StatefulSet", "DaemonSet", "NativeDaemonSet"}
  <2>1. ctx = DaemonSetContext(b, n, i, Nil)
    BY <1>4, Zenon DEF BatchContext, NativeDaemonSetContext
  <2>2. ASSUME n \in Int, calc \in Int
        PROVE  ctx.desired = n - (n - calc) /\ ctx.knob = Int32(Above(n - calc, 0))
    BY <1>2, <2>1, <2>2 DEF DaemonSetContext
  <2>3. n \in Int /\ calc \in Int => ctx.desired = calc
    BY <2>2
  <2>. QED BY <1>4, <2>2, <2>3 DEF BlueGreenKinds
<1>5. CASE kind = "OrderedStatefulSet"
  <2>1. ctx = OrderedStatefulSetContext(b, n, i, Nil)
    BY <1>5, Zenon DEF BatchContext
  <2>2. ASSUME n \in Int, calc \in Int
        PROVE  ctx.desired = n - ((n - calc) + 0) + 0 /\ ctx.knob = Int32((n - calc) + 0)
    BY <1>1, <1>2, <2>1, <2>2 DEF OrderedStatefulSetContext
  <2>3. n \in Int /\ calc \in Int => ctx.desired = calc /\ (n - calc) + 0 = n - calc
    BY <2>2
  <2>4. n \in Int /\ calc \in Int => ctx.knob = Int32(n - calc)
    BY <2>2, <2>3
  <2>. QED BY <1>5, <2>3, <2>4 DEF BlueGreenKinds
<1>6. CASE kind \in {"Deployment", "BGDeployment"}
  <2>1. ctx = DeploymentContext(b, n, i)
    BY <1>6, Zenon DEF BatchContext, BlueGreenDeploymentContext
  <2>2. ctx.desired = NewRSReplicasLimit(b[i + 1], n) /\ ctx.knob = b[i + 1]
    BY <2>1 DEF DeploymentContext
  <2>. QED BY <1>6, <2>2 DEF PartitionKinds, StableKnob, StatefulSets
<1>7. CASE kind = "BGCloneSet"
  <2>1. ctx = BlueGreenCloneSetContext(b, n, i)
    BY <1>7, Zenon DEF BatchContext
  <2>2. ctx.desired = Scaled(b[i + 1], n, TRUE) /\ ctx.knob = b[i + 1]
    BY <2>1 DEF BlueGreenCloneSetContext
  <2>. QED BY <1>7, <2>2 DEF PartitionKinds, StableKnob, StatefulSets
<1>8. CASE kind = "MinReady"
  <2>1. ctx = MinReadyContext(b, n, i)
    BY <1>8, Zenon DEF BatchContext
  <2>2. ctx.desired = calc
    BY <2>1 DEF MinReadyContext
  <2>. QED BY <1>8, <2>2
<1>9. CASE kind = "Canary"
  <2>1. ctx = CanaryContext(b, n, i)
    BY <1>9, Zenon DEF BatchContext
  <2>2. ctx.desired = calc
    BY <2>1 DEF CanaryContext
  <2>. QED BY <1>9, <2>2
<1>10. kind \in {"CloneSet", "DaemonSet", "StatefulSet", "OrderedStatefulSet", "NativeDaemonSet",
                 "Deployment", "MinReady", "BGCloneSet", "BGDeployment", "Canary"}
  BY KindIsKnown DEF BlastInv, BlueGreenKinds
<1>. QED BY <1>3, <1>4, <1>5, <1>6, <1>7, <1>8, <1>9, <1>10

\* A later batch asks for no less.
LEMMA AskedForMore ==
  ASSUME BlastInv, PlansRise, wl.replicas # 0, plan.part # Nil, st.batch <= plan.part,
         NEW s \in Statuses, s.kept = Nil, s.batch = st.batch
  PROVE  /\ BatchContext(wl, s).desired \in Int /\ AskedFor(plan.part) \in Int
         /\ BatchContext(wl, s).desired <= AskedFor(plan.part)
         /\ BatchContext(wl, s) \in Contexts /\ s.batch < Len(plan.batches)
<1>. DEFINE b == plan.batches
            n == wl.replicas
            i == s.batch
            j == plan.part
            t == [st EXCEPT !.batch = j]
            ctx == BatchContext(wl, s)
            asked == BatchContext(wl, t)
<1>0. /\ TypeOK /\ wl \in Workloads /\ n \in Nat /\ n \in Scales /\ n \in Int /\ n >= 0
      /\ st \in Statuses /\ st.kept = Nil
  BY WorkloadFields DEF BlastInv, TypeOK, StatusInStep
<1>1. /\ b \in Plans /\ Len(b) \in Nat /\ i \in Nat /\ j \in Nat /\ i <= j /\ j < Len(b)
  <2>1. b \in Plans /\ Len(b) \in Nat /\ j \in Int /\ j >= -1 /\ j < Len(b)
    BY <1>0, PlanFields
  <2>2. j # -1 /\ i <= j /\ i \in Nat
    BY <1>0, StatusFields DEF Nil
  <2>. QED BY <2>1, <2>2
<1>2. t \in Statuses /\ t.kept = Nil /\ t.batch = j
  BY <1>0, <1>1 DEF Statuses, Counts
<1>3. ctx \in Contexts /\ asked \in Contexts
  <2>1. s.batch < Len(plan.batches) /\ t.batch < Len(plan.batches)
    BY <1>1, <1>2
  <2>. HIDE DEF t
  <2>2. ctx \in Contexts
    BY <1>0, <2>1, ContextIsTyped
  <2>3. asked \in Contexts
    BY <1>0, <1>2, <2>1, ContextIsTyped
  <2>. QED BY <2>2, <2>3
<1>4. AskedFor(plan.part) = asked.desired
  BY DEF AskedFor
<1>5. i + 1 \in DOMAIN b /\ j + 1 \in DOMAIN b /\ i + 1 <= j + 1
  <2>1. b \in Seq(Knobs)
    BY <1>1, PlansAssumption
  <2>. QED BY <1>1, <2>1
<1>6. /\ Scaled(b[i + 1], n, TRUE) <= Scaled(b[j + 1], n, TRUE)
      /\ NewRSReplicasLimit(b[i + 1], n) <= NewRSReplicasLimit(b[j + 1], n)
  <2>1. n \in Scales \ {0}
    BY <1>0
  <2>. QED BY <1>0, <1>1, <1>5, <2>1, Zenon DEF PlansRise
<1>7. /\ b[i + 1] \in Knobs /\ b[j + 1] \in Knobs
      /\ CalculateBatchReplicas(b, n, i) \in Int /\ CalculateBatchReplicas(b, n, j) \in Int
  <2>1. i < Len(b)
    BY <1>1
  <2>2. \A x \in Nat : x \in Int
    OBVIOUS
  <2>. QED BY <1>0, <1>1, <2>1, <2>2, CalculateIsNat, Zenon
<1>8. CalculateBatchReplicas(b, n, i) <= CalculateBatchReplicas(b, n, j)
  <2>. DEFINE x == Scaled(b[i + 1], n, TRUE)
              y == Scaled(b[j + 1], n, TRUE)
  <2>1. x \in Int /\ y \in Int
    BY <1>0, <1>7, ScaledIsInt, Zenon
  <2>2. x <= y
    BY <1>6
  <2>. HIDE DEF x, y
  <2>3. Clamp(x, n) <= Clamp(y, n)
    BY <1>0, <2>1, <2>2 DEF Clamp, Above, Below
  <2>. QED BY <2>3, Zenon DEF x, y, CalculateBatchReplicas
<1>. HIDE DEF ctx, asked, t
<1>9. ctx.desired <= asked.desired
  <2>1. CASE kind \in (PartitionKinds \ {"Deployment"}) \cup {"Canary"}
    <3>1. ctx.desired = CalculateBatchReplicas(b, n, i)
      BY <1>0, <1>7, <2>1, DesiredIs DEF ctx
    <3>2. asked.desired = CalculateBatchReplicas(b, n, j)
      BY <1>0, <1>2, <1>7, <2>1, DesiredIs DEF asked
    <3>. QED BY <1>8, <3>1, <3>2
  <2>2. CASE kind \in {"Deployment", "BGDeployment"}
    <3>1. ctx.desired = NewRSReplicasLimit(b[i + 1], n)
      BY <2>2, DesiredIs DEF ctx
    <3>2. asked.desired = NewRSReplicasLimit(b[j + 1], n)
      BY <1>2, <2>2, DesiredIs DEF asked
    <3>. QED BY <1>6, <3>1, <3>2
  <2>3. CASE kind = "BGCloneSet"
    <3>1. ctx.desired = Scaled(b[i + 1], n, TRUE)
      BY <2>3, DesiredIs DEF ctx
    <3>2. asked.desired = Scaled(b[j + 1], n, TRUE)
      BY <1>2, <2>3, DesiredIs DEF asked
    <3>. QED BY <1>6, <3>1, <3>2
  <2>4. \/ kind \in (PartitionKinds \ {"Deployment"}) \cup {"Canary"}
        \/ kind \in {"Deployment", "BGDeployment"} \/ kind = "BGCloneSet"
    BY <1>0, KindIsKnown DEF BlueGreenKinds
  <2>. QED BY <2>1, <2>2, <2>3, <2>4
<1>. QED BY <1>1, <1>3, <1>4, <1>9 DEF Contexts, ctx, asked, t

\* A batch is upgraded on a workload whose status is current, towards the
\* revision that was recorded, and never ahead of the partition.
LEMMA RoundIsCurrent ==
  ASSUME BlastInv, GoesAhead(st), st.phase = "Progressing"
  PROVE  /\ plan.part # Nil /\ ~plan.deleting /\ wl.exists /\ wl.observed
         /\ st.update = wl.update \/ SingleVersion
         /\ st.batch <= plan.part /\ st.batch < Len(plan.batches)
<1>1. /\ ~plan.deleting /\ plan.part # Nil /\ st.hash = ReleasePlan
      /\ st.batch < Len(plan.batches)
      /\ WorkloadEvent(st) \notin {"StillReconciling", "HasGone", "ReplicasChanged",
                                   "PodTemplateChanged", "RollbackInBatch"}
  BY Zenon DEF GoesAhead, BlastInv, StatusInStep
<1>2. wl.exists \in BOOLEAN /\ wl.observed \in BOOLEAN
  BY WorkloadFields DEF BlastInv, TypeOK
<1>3. wl.exists
  BY <1>1, <1>2, Zenon DEF WorkloadEvent
<1>4. wl.observed
  BY <1>1, <1>2, <1>3, Zenon DEF WorkloadEvent
<1>5. SingleVersion \/ st.update \in {NoRevision, wl.update}
  <2>1. ASSUME ~SingleVersion, st.update \notin {NoRevision, wl.update} PROVE FALSE
    <3>1. WorkloadEvent(st) \in {"ReplicasChanged", "RollbackInBatch", "PodTemplateChanged"}
      BY <1>1, <1>3, <1>4, <2>1, Zenon DEF WorkloadEvent
    <3>. QED BY <1>1, <3>1
  <2>. QED BY <2>1
<1>6. st.update # NoRevision
  BY DEF BlastInv, StatusInStep
<1>7. st.hash.part = plan.part
  BY <1>1 DEF ReleasePlan
<1>8. st.batch <= plan.part
  BY <1>1, <1>7, Zenon DEF BlastInv, StatusInStep
<1>. QED BY <1>1, <1>3, <1>4, <1>5, <1>6, <1>8

\* The pods already there, when no pods are kept.
LEMMA AlreadyThereIsNat ==
  ASSUME BlastInv
  PROVE  AlreadyThere \in Nat /\ (kind = "OrderedStatefulSet" => AlreadyThere = wl.low)
<1>1. wl.low \in Nat /\ st.kept = -1
  BY WorkloadFields DEF BlastInv, TypeOK, StatusInStep, Nil
<1>. QED BY <1>1 DEF AlreadyThere, Above

\* Up to what the batch asks for, a workload is justified.
LEMMA JustifiedIf ==
  ASSUME BlastInv, PlansRise, GoesAhead(st), st.phase = "Progressing", wl.replicas # 0,
         NEW s \in Statuses, s.kept = Nil, s.batch = st.batch,
         NEW w \in Workloads, SameWorkload(w), Secured(w), kind # "Canary", Admitted(w) \in Int,
         BatchContext(wl, s).desired >= 0,
         Admitted(w) <= BatchContext(wl, s).desired + AlreadyThere
  PROVE  Tame(w)
<1>1. w.copy.size = 0
  BY DEF SameWorkload, BlastInv
<1>2. /\ BatchContext(wl, s).desired \in Int /\ AskedFor(plan.part) \in Int
      /\ BatchContext(wl, s).desired <= AskedFor(plan.part)
  BY RoundIsCurrent, AskedForMore
<1>3. Above(Admitted(w), w.copy.size) <= AskedFor(plan.part) + AlreadyThere
  BY <1>1, <1>2, AlreadyThereIsNat DEF Above
<1>4. Justified(w)
  BY <1>3, RoundIsCurrent, Zenon DEF Justified
<1>. QED BY <1>4, Zenon DEF Tame

\* What UpgradeBatch of a partition-style control plane may write.
Rewritten(w, ctx) ==
  /\ w \in Workloads
  /\ w.exists = wl.exists /\ w.replicas = wl.replicas /\ w.update = wl.update
  /\ w.copy = wl.copy /\ w.owner = wl.owner /\ w.paused = wl.paused
  /\ w.frozen = wl.frozen /\ w.low = wl.low
  /\ kind # "MinReady" => w.own = wl.own /\ w.knob = ctx.knob
  /\ kind = "Deployment" => AdvancedControl(wl)
  /\ kind = "MinReady" =>
       /\ w.own = FALSE
       /\ wl.own \/ \E x \in Int : x <= ctx.desired /\ w.knob = Int32(x)

\* Raising a batch leaves the workload, or writes the strategy of the batch.
LEMMA RaiseRewrites ==
  ASSUME BlastInv, kind \in PartitionKinds, NEW ctx \in Contexts
  PROVE  Raise(wl, ctx) = wl \/ Rewritten(Raise(wl, ctx), ctx)
<1>. DEFINE w == Raise(wl, ctx)
            p == Patched(wl)
<1>0. TypeOK /\ wl \in Workloads /\ ctx.knob \in Knobs /\ ctx.desired \in Int /\ wl.own \in BOOLEAN
  BY WorkloadFields DEF BlastInv, TypeOK, Contexts
<1>1. w \in Workloads
  BY <1>0, RaiseTyped
<1>2. /\ p \in Workloads /\ p.exists = wl.exists /\ p.replicas = wl.replicas
      /\ p.update = wl.update /\ p.copy = wl.copy /\ p.owner = wl.owner /\ p.own = wl.own
      /\ p.paused = wl.paused /\ p.frozen = wl.frozen /\ p.low = wl.low /\ p.knob = wl.knob
  <2>1. p \in Workloads
    BY <1>0, PatchedTyped
  <2>. QED BY <1>0, <2>1 DEF Patched, Workloads
<1>. HIDE DEF p
<1>3. CASE kind # "MinReady"
  <2>1. \/ w = wl \/ w = [p EXCEPT !.knob = ctx.knob]
        \/ w = [wl EXCEPT !.knob = ctx.knob] /\ (kind = "Deployment" => AdvancedControl(wl))
    BY <1>0, <1>3, KindIsKnown, Zenon
    DEF Raise, StatefulSets, UpgradeCloneSet, UpgradeDaemonSet, UpgradeStatefulSet,
        UpgradeNativeDaemonSet, UpgradeDeployment, Lower, p
  <2>2. kind = "Deployment" => w = wl \/ AdvancedControl(wl)
    BY Zenon DEF Raise, UpgradeDeployment, StatefulSets
  <2>3. CASE w = [p EXCEPT !.knob = ctx.knob] /\ w # wl
    <3>1. /\ w.exists = wl.exists /\ w.replicas = wl.replicas /\ w.update = wl.update
          /\ w.copy = wl.copy /\ w.owner = wl.owner /\ w.paused = wl.paused
          /\ w.frozen = wl.frozen /\ w.low = wl.low /\ w.own = wl.own /\ w.knob = ctx.knob
      BY <1>2, <2>3 DEF Workloads
    <3>. QED BY <1>1, <1>3, <2>2, <2>3, <3>1, Zenon DEF Rewritten
  <2>4. CASE w = [wl EXCEPT !.knob = ctx.knob] /\ w # wl
    <3>1. /\ w.exists = wl.exists /\ w.replicas = wl.replicas /\ w.update = wl.update
          /\ w.copy = wl.copy /\ w.owner = wl.owner /\ w.paused = wl.paused
          /\ w.frozen = wl.frozen /\ w.low = wl.low /\ w.own = wl.own /\ w.knob = ctx.knob
      BY <1>0, <2>4 DEF Workloads
    <3>. QED BY <1>1, <1>3, <2>2, <2>4, <3>1, Zenon DEF Rewritten
  <2>. QED BY <2>1, <2>3, <2>4
<1>4. CASE kind = "MinReady"
  <2>. DEFINE w0 == IF wl.own THEN [p EXCEPT !.own = FALSE, !.knob = Unset] ELSE wl
              next == Below(ready + MinReadyStep, ctx.desired)
  <2>1. w = Window(w0, ctx.desired)
    BY <1>4, Zenon DEF Raise, UpgradeMinReady, StatefulSets, p
  <2>2. /\ w0 \in Workloads /\ w0.exists = wl.exists /\ w0.replicas = wl.replicas
        /\ w0.update = wl.update /\ w0.copy = wl.copy /\ w0.owner = wl.owner
        /\ w0.paused = wl.paused /\ w0.frozen = wl.frozen /\ w0.low = wl.low /\ w0.own = FALSE
    <3>1. CASE wl.own
      BY <1>2, <3>1, KnobsOfTheCode DEF Workloads, Flags
    <3>2. CASE ~wl.own
      BY <1>0, <3>2
    <3>. QED BY <3>1, <3>2
  <2>3. ready \in Nat /\ next \in Int /\ next <= ctx.desired
    BY <1>0, StepAssumption DEF TypeOK, Below
  <2>4. \/ w = w0 \/ w = [Patched(w0) EXCEPT !.knob = Int32(ctx.desired)]
        \/ w = [Patched(w0) EXCEPT !.knob = Int32(next)]
    BY <2>1, Zenon DEF Window
  <2>5. w0 = wl \/ wl.own
    BY Zenon
  <2>. HIDE DEF w0, next
  <2>6. ASSUME NEW x \in Int, x <= ctx.desired, w = [Patched(w0) EXCEPT !.knob = Int32(x)]
        PROVE  Rewritten(w, ctx)
    <3>1. /\ w.exists = wl.exists /\ w.replicas = wl.replicas /\ w.update = wl.update
          /\ w.copy = wl.copy /\ w.owner = wl.owner /\ w.paused = wl.paused
          /\ w.frozen = wl.frozen /\ w.low = wl.low /\ w.own = FALSE /\ w.knob = Int32(x)
      BY <2>2, <2>6 DEF Workloads, Patched
    <3>. QED BY <1>1, <1>4, <2>6, <3>1, Zenon DEF Rewritten
  <2>7. CASE w = w0 /\ wl.own
    BY <1>1, <1>4, <2>2, <2>7, Zenon DEF Rewritten
  <2>8. ctx.desired <= ctx.desired
    BY <1>0
  <2>. QED BY <1>0, <2>3, <2>4, <2>5, <2>6, <2>7, <2>8
<1>. QED BY <1>3, <1>4

\* The percentage of a CloneSet holds back what the batch leaves on the old
\* revision.
LEMMA CloneSetHoldsBack ==
  ASSUME BlastInv, SizesFit, kind = "CloneSet", wl.replicas # 0, NEW s \in Statuses,
         s.kept = Nil, s.batch < Len(plan.batches)
  PROVE  Scaled(BatchContext(wl, s).knob, wl.replicas, TRUE)
           = wl.replicas - CalculateBatchReplicas(plan.batches, wl.replicas, s.batch)
<1>. DEFINE b == plan.batches
            n == wl.replicas
            i == s.batch
            calc == CalculateBatchReplicas(b, n, i)
            knob == BatchContext(wl, s).knob
<1>0. /\ TypeOK /\ n \in Nat \ {0} /\ n \in Scales /\ n \in Int /\ n >= 0 /\ "CloneSet" \in Kinds
      /\ b \in Plans /\ i \in Nat /\ i < Len(b)
  <2>1. TypeOK /\ wl \in Workloads /\ n \in Scales /\ "CloneSet" \in Kinds
    BY DEF BlastInv, TypeOK
  <2>2. n \in Nat
    BY <2>1, WorkloadFields
  <2>3. b \in Plans /\ i \in Nat
    BY <2>1, PlanFields, StatusFields
  <2>. QED BY <2>1, <2>2, <2>3
<1>1. b[i + 1] \in Knobs /\ calc \in Nat /\ calc <= n
  <2>1. b[i + 1] \in Knobs
    BY <1>0, CalculateIsNat
  <2>2. Scaled(b[i + 1], n, TRUE) \in Int
    BY <1>0, <2>1, ScaledIsInt, Zenon
  <2>3. Clamp(Scaled(b[i + 1], n, TRUE), n) \in Nat /\ Clamp(Scaled(b[i + 1], n, TRUE), n) <= n
    BY <1>0, <2>2, ClampIsNat, Zenon
  <2>4. \A x \in Nat : x \in Int
    OBVIOUS
  <2>. QED BY <2>1, <2>3, <2>4, Zenon DEF CalculateBatchReplicas
<1>2. calc \in Int /\ i + 1 \in DOMAIN b
  <2>1. b \in Seq(Knobs)
    BY <1>0, PlansAssumption
  <2>. QED BY <1>0, <1>1, <2>1
<1>3. knob = IF b[i + 1].pct THEN ParseIntegerAsPercentageIfPossible(n - calc, n, b[i + 1])
             ELSE Int32(n - calc)
  BY <1>0, <1>2, DesiredIs
<1>. HIDE DEF knob, calc
<1>4. CASE b[i + 1].pct
  <2>1. n <= 100
    BY <1>0, <1>2, <1>4, Zenon DEF SizesFit
  <2>2. n \in 1..100 /\ n - calc \in 0..n
    <3>1. n \in Nat /\ n # 0 /\ n <= 100 /\ calc \in Nat /\ calc <= n
      BY <1>0, <1>1, <2>1
    <3>. HIDE DEF n
    <3>. QED BY <3>1
  <2>3. Scaled(ParseIntegerAsPercentageIfPossible(n - calc, n, b[i + 1]), n, TRUE) = n - calc
    BY <2>2, PercentageIsExact, Zenon
  <2>. QED BY <1>3, <1>4, <2>3, Zenon DEF knob, calc
<1>5. CASE ~b[i + 1].pct
  <2>1. knob = Int32(n - calc)
    BY <1>3, <1>5, Zenon
  <2>2. Scaled(Int32(n - calc), n, TRUE) = n - calc
    BY DEF Scaled, Int32
  <2>. QED BY <2>1, <2>2, Zenon DEF knob, calc
<1>. QED BY <1>4, <1>5

\* A batch lets the workload update what it asks for, and no more.
LEMMA RaiseTame ==
  ASSUME BlastInv, PlansRise, SizesFit, GoesAhead(st), st.phase = "Progressing",
         kind \in PartitionKinds, wl.replicas # 0,
         NEW s \in Statuses, s.kept = Nil, s.batch = st.batch
  PROVE  /\ Raise(wl, BatchContext(wl, s)) \in Workloads
         /\ Tame(Raise(wl, BatchContext(wl, s)))
<1>. DEFINE b == plan.batches
            n == wl.replicas
            i == s.batch
            calc == CalculateBatchReplicas(b, n, i)
            ctx == BatchContext(wl, s)
            w == Raise(wl, ctx)
<1>0. /\ TypeOK /\ wl \in Workloads /\ n \in Nat /\ n \in Int /\ n >= 0
      /\ b \in Plans /\ i \in Nat /\ i < Len(b) /\ wl.low \in Nat /\ wl.own \in BOOLEAN
      /\ wl.frozen \in BOOLEAN /\ kind \notin BlueGreenKinds /\ kind # "Canary"
  <2>1. kind \notin BlueGreenKinds /\ kind # "Canary"
    BY DEF PartitionKinds, StableKnob, StatefulSets, BlueGreenKinds
  <2>2. TypeOK /\ wl \in Workloads
    BY DEF BlastInv, TypeOK
  <2>3. n \in Nat /\ wl.low \in Nat /\ wl.own \in BOOLEAN /\ wl.frozen \in BOOLEAN
    BY <2>2, WorkloadFields
  <2>4. b \in Plans /\ i \in Nat
    BY <2>2, PlanFields, StatusFields
  <2>5. i < Len(b)
    BY RoundIsCurrent
  <2>6. n \in Int /\ n >= 0
    BY <2>3
  <2>. QED BY <2>1, <2>2, <2>3, <2>4, <2>5, <2>6
<1>1. ctx \in Contexts /\ ctx.desired \in Int /\ ctx.knob \in Knobs
  BY <1>0, ContextIsTyped DEF Contexts
<1>2. b[i + 1] \in Knobs /\ calc \in Nat /\ calc \in Int /\ calc <= n
  <2>1. b[i + 1] \in Knobs
    BY <1>0, CalculateIsNat
  <2>2. Scaled(b[i + 1], n, TRUE) \in Int
    BY <1>0, <2>1, ScaledIsInt, Zenon
  <2>3. Clamp(Scaled(b[i + 1], n, TRUE), n) \in Nat /\ Clamp(Scaled(b[i + 1], n, TRUE), n) <= n
    BY <1>0, <2>2, ClampIsNat, Zenon
  <2>4. \A x \in Nat : x \in Int
    OBVIOUS
  <2>. QED BY <2>1, <2>3, <2>4, Zenon DEF CalculateBatchReplicas
<1>3. w \in Workloads
  BY <1>0, <1>1, RaiseTyped
<1>4. /\ kind # "Deployment" => ctx.desired = calc
      /\ kind = "Deployment" => ctx.desired = NewRSReplicasLimit(b[i + 1], n) /\ ctx.knob = b[i + 1]
      /\ kind \in {"StatefulSet", "DaemonSet", "NativeDaemonSet"} => ctx.knob = Int32(Above(n - calc, 0))
      /\ kind = "OrderedStatefulSet" => ctx.knob = Int32(n - calc)
  <2>. HIDE DEF calc, ctx
  <2>. QED BY <1>0, <1>2, DesiredIs DEF calc, ctx
<1>5. ctx.desired >= 0
  <2>1. NewRSReplicasLimit(b[i + 1], n) \in Nat
    BY <1>0, <1>2, LimitIsNat
  <2>. HIDE DEF calc, ctx
  <2>. QED BY <1>2, <1>4, <2>1
<1>6. AlreadyThere \in Nat
  BY AlreadyThereIsNat
<1>7. CASE w = wl
  BY <1>3, <1>7, TameItself
<1>8. CASE Rewritten(w, ctx)
  <2>0. /\ w.exists = wl.exists /\ w.replicas = n /\ w.update = wl.update /\ w.copy = wl.copy
        /\ w.low = wl.low
    BY <1>8, Zenon DEF Rewritten
  <2>1. Admitted(w) \in Int /\ Admitted(w) <= n /\ Admitted(wl) \in Int
    BY <1>0, <1>3, <2>0, AdmittedBounds
  <2>2. SameWorkload(w) /\ Secured(w)
    BY <1>0, <2>0, Zenon DEF SameWorkload, Secured
  <2>3. ASSUME Admitted(w) <= ctx.desired PROVE Tame(w)
    <3>1. Admitted(w) <= ctx.desired + AlreadyThere
      BY <1>1, <1>6, <2>1, <2>3
    <3>. QED BY <1>0, <1>3, <1>5, <2>1, <2>2, <3>1, JustifiedIf
  <2>4. ASSUME Admitted(wl) = n PROVE Tame(w)
    <3>1. Admitted(w) <= Admitted(wl)
      BY <2>1, <2>4
    <3>. QED BY <1>3, <2>0, <3>1, TameIfNoMore, Zenon
  <2>. SUFFICES Tame(w)
    BY <1>3
  <2>. HIDE DEF w, calc
  <2>5. CASE kind \in {"CloneSet", "StatefulSet", "DaemonSet", "NativeDaemonSet"}
    <3>1. CASE wl.own
      <4>1. Admitted(wl) = n
        BY <2>5, <3>1, AdmittedIs, Zenon
      <4>. QED BY <2>4, <4>1
    <3>2. CASE ~wl.own
      <4>1. w.own = wl.own /\ w.knob = ctx.knob
        BY <1>8, <2>5 DEF Rewritten
      <4>2. Admitted(w) = Clamp(w.replicas - Scaled(w.knob, w.replicas, TRUE), w.replicas)
        BY <2>5, <3>2, <4>1, AdmittedIs, Zenon
      <4>3. Admitted(w) = Clamp(n - Scaled(ctx.knob, n, TRUE), n)
        BY <2>0, <4>1, <4>2, Zenon
      <4>4. Scaled(ctx.knob, n, TRUE) = n - calc
        <5>1. CASE kind = "CloneSet"
          BY <1>0, <5>1, CloneSetHoldsBack DEF calc
        <5>2. CASE kind # "CloneSet"
          <6>1. ctx.knob = Int32(Above(n - calc, 0))
            BY <1>4, <2>5, <5>2
          <6>2. Above(n - calc, 0) = n - calc
            BY <1>0, <1>2 DEF Above
          <6>3. Scaled(Int32(n - calc), n, TRUE) = n - calc
            BY DEF Scaled, Int32
          <6>. QED BY <6>1, <6>2, <6>3, Zenon
        <5>. QED BY <5>1, <5>2
      <4>5. Clamp(n - (n - calc), n) = calc
        BY <1>0, <1>2 DEF Clamp, Above, Below
      <4>6. Admitted(w) = calc /\ ctx.desired = calc
        BY <1>4, <2>5, <4>3, <4>4, <4>5, Zenon
      <4>. QED BY <1>2, <2>3, <4>6
    <3>. QED BY <1>0, <3>1, <3>2
  <2>6. CASE kind = "OrderedStatefulSet"
    <3>1. CASE wl.own
      <4>1. Admitted(wl) = n
        BY <2>6, <3>1, AdmittedIs, Zenon
      <4>. QED BY <2>4, <4>1
    <3>2. CASE ~wl.own
      <4>1. w.own = wl.own /\ w.knob = ctx.knob
        BY <1>8, <2>6 DEF Rewritten
      <4>2. Admitted(w) = Clamp(w.replicas - w.knob.n, w.replicas)
                            + Below(w.low, Clamp(w.knob.n, w.replicas))
        BY <2>6, <3>2, <4>1, AdmittedIs, Zenon
      <4>3. w.knob.n = n - calc
        <5>1. Int32(n - calc).n = n - calc
          BY DEF Int32
        <5>. QED BY <1>4, <2>6, <4>1, <5>1, Zenon
      <4>4. Admitted(w) = Clamp(n - (n - calc), n) + Below(wl.low, Clamp(n - calc, n))
        BY <2>0, <4>2, <4>3, Zenon
      <4>5. Clamp(n - (n - calc), n) + Below(wl.low, Clamp(n - calc, n)) <= calc + wl.low
        <5>. DEFINE low == wl.low
        <5>1. n \in Nat /\ calc \in Nat /\ calc <= n /\ low \in Nat
          BY <1>0, <1>2
        <5>. HIDE DEF n, low
        <5>2. n - (n - calc) = calc /\ n - calc \in Nat
          BY <5>1
        <5>3. Clamp(calc, n) = calc /\ Clamp(n - calc, n) = n - calc
          BY <5>1, <5>2 DEF Clamp, Above, Below
        <5>4. Below(low, n - calc) <= low /\ Below(low, n - calc) \in Int
          BY <5>1, <5>2 DEF Below
        <5>5. calc + Below(low, n - calc) <= calc + low
          BY <5>1, <5>4
        <5>. QED BY <5>2, <5>3, <5>5 DEF low
      <4>6. ctx.desired = calc /\ AlreadyThere = wl.low
        BY <1>4, <2>6, AlreadyThereIsNat
      <4>7. Admitted(w) <= ctx.desired + AlreadyThere
        BY <4>4, <4>5, <4>6, Zenon
      <4>. QED BY <1>0, <1>3, <1>5, <2>1, <2>2, <4>7, JustifiedIf
    <3>. QED BY <1>0, <3>1, <3>2
  <2>7. CASE kind = "Deployment"
    <3>1. w.own = wl.own /\ w.knob = ctx.knob /\ AdvancedControl(wl)
          /\ w.owner = wl.owner /\ w.paused = wl.paused /\ w.frozen = wl.frozen
      BY <1>8, <2>7 DEF Rewritten
    <3>2. w.owner /\ w.paused /\ ~w.own
      BY <3>1, Zenon DEF AdvancedControl
    <3>3. Admitted(w) = 0 \/ Admitted(w) = NewRSReplicasLimit(w.knob, w.replicas)
      BY <2>7, <3>2, AdmittedIs, Zenon
    <3>4. NewRSReplicasLimit(w.knob, w.replicas) = ctx.desired
      BY <1>4, <2>0, <2>7, <3>1, Zenon
    <3>. QED BY <1>1, <1>5, <2>3, <3>3, <3>4
  <2>8. CASE kind = "MinReady"
    <3>1. CASE wl.own
      <4>1. Admitted(wl) = n
        BY <2>8, <3>1, AdmittedIs, Zenon
      <4>. QED BY <2>4, <4>1
    <3>2. CASE ~wl.own
      <4>1. w.own = FALSE
        BY <1>8, <2>8 DEF Rewritten
      <4>2. PICK x \in Int : x <= ctx.desired /\ w.knob = Int32(x)
        BY <1>8, <2>8, <3>2 DEF Rewritten
      <4>3. Admitted(w) = Clamp(Scaled(w.knob, w.replicas, TRUE), w.replicas)
        BY <2>8, <4>1, AdmittedIs, Zenon
      <4>4. Scaled(Int32(x), n, TRUE) = x
        BY DEF Scaled, Int32
      <4>5. Admitted(w) = Clamp(x, n)
        BY <2>0, <4>2, <4>3, <4>4, Zenon
      <4>6. Clamp(x, n) <= ctx.desired
        BY <1>0, <1>1, <1>5, <4>2 DEF Clamp, Above, Below
      <4>. QED BY <2>3, <4>5, <4>6
    <3>. QED BY <1>0, <3>1, <3>2
  <2>9. kind \in {"CloneSet", "DaemonSet", "StatefulSet", "OrderedStatefulSet",
                  "NativeDaemonSet", "Deployment", "MinReady"}
    BY <1>0, KindIsKnown
  <2>. QED BY <2>5, <2>6, <2>7, <2>8, <2>9
<1>. QED BY <1>1, <1>7, <1>8, RaiseRewrites

\* Labels do not let pods be updated.
LEMMA LabelsTame ==
  ASSUME TypeOK, NEW w \in Workloads, w.replicas # 0, Tame(w),
         NEW s \in Statuses, s.batch < Len(plan.batches)
  PROVE  PatchPods(w, s) \in Workloads /\ Tame(PatchPods(w, s))
<1>1. PICK labels, n : PatchPods(w, s) = [w EXCEPT !.labels = labels, !.markedLabelled = n]
  BY PatchPodsTyped
<1>2. SameStrategy(PatchPods(w, s), w)
  BY <1>1 DEF SameStrategy, Workloads
<1>. QED BY <1>2, PatchPodsTyped, TameDepends

\* The surge of a blue-green batch stays within what the batch asks for.
LEMMA SurgeTame ==
  ASSUME BlastInv, PlansRise, SizesFit, GoesAhead(st), st.phase = "Progressing",
         kind \in BlueGreenKinds, wl.replicas # 0, wl.owner, ~wl.own,
         NEW s \in Statuses, s.kept = Nil, s.batch = st.batch
  PROVE  LET w1 == [wl EXCEPT !.knob = BatchContext(wl, s).knob, !.paused = FALSE]
         IN  Change(wl, w1) \in Workloads /\ Tame(Change(wl, w1))
<1>. DEFINE b == plan.batches
            n == wl.replicas
            i == s.batch
            x == Scaled(b[i + 1], n, TRUE)
            ctx == BatchContext(wl, s)
            w1 == [wl EXCEPT !.knob = ctx.knob, !.paused = FALSE]
            w == Patched(w1)
<1>0. TypeOK /\ wl \in Workloads /\ kind \in Kinds /\ n \in Scales
  BY DEF BlastInv, TypeOK
<1>1. n \in Nat /\ n \in Int /\ n >= 0 /\ b \in Plans /\ i \in Nat /\ i < Len(b)
  <2>1. n \in Nat
    BY <1>0, WorkloadFields
  <2>2. b \in Plans /\ i \in Nat
    BY <1>0, PlanFields, StatusFields
  <2>3. i < Len(b)
    BY RoundIsCurrent
  <2>. QED BY <2>1, <2>2, <2>3
<1>2. b[i + 1] \in Knobs /\ b[i + 1].n >= 0 /\ i + 1 \in DOMAIN b
  <2>1. b \in Seq(Knobs) /\ \A j \in DOMAIN b : b[j].n >= 0
    BY <1>1, PlansAssumption
  <2>2. i + 1 \in DOMAIN b
    BY <1>1, <2>1
  <2>. QED BY <2>1, <2>2
<1>3. x \in Int /\ x >= 0
  <2>1. x \in Int
    BY <1>1, <1>2, ScaledIsInt, Zenon
  <2>. DEFINE m == b[i + 1].n
  <2>2. m \in Int /\ m >= 0
    BY <1>2 DEF Knobs, Indexes
  <2>. HIDE DEF m, n
  <2>3. m * n \in Int /\ m * n >= 0
    BY <1>1, <2>2
  <2>4. (m * n + 99) \div 100 >= 0
    <3>. DEFINE y == m * n
    <3>1. y \in Int /\ y >= 0
      BY <2>3
    <3>. HIDE DEF y
    <3>2. (y + 99) \div 100 >= 0
      BY <3>1
    <3>. QED BY <3>2 DEF y
  <2>5. x = m \/ x = (m * n + 99) \div 100
    BY Zenon DEF Scaled, m
  <2>. HIDE DEF x
  <2>. QED BY <2>1, <2>2, <2>4, <2>5
<1>4. ctx \in Contexts /\ ctx.desired \in Int /\ ctx.knob \in Knobs
  BY <1>0, <1>1, ContextIsTyped DEF Contexts
<1>5. ctx.knob = b[i + 1] /\ ctx.desired >= 0 /\ x <= ctx.desired
  <2>1. CASE kind = "BGCloneSet"
    <3>1. ctx.knob = b[i + 1] /\ ctx.desired = x
      BY <2>1, DesiredIs
    <3>. HIDE DEF ctx, x
    <3>. QED BY <1>3, <3>1
  <2>2. CASE kind = "BGDeployment"
    <3>1. ctx.knob = b[i + 1] /\ ctx.desired = NewRSReplicasLimit(b[i + 1], n)
      BY <2>2, DesiredIs
    <3>2. NewRSReplicasLimit(b[i + 1], n) \in Nat
      BY <1>1, <1>2, LimitIsNat
    <3>3. x <= NewRSReplicasLimit(b[i + 1], n)
      BY <1>0, <1>1, <1>2, <2>2, Zenon DEF SizesFit
    <3>. HIDE DEF ctx, x
    <3>. QED BY <3>1, <3>2, <3>3
  <2>. QED BY <2>1, <2>2 DEF BlueGreenKinds
<1>. HIDE DEF ctx, x
<1>6. /\ w \in Workloads /\ w.exists = wl.exists /\ w.replicas = n /\ w.update = wl.update
      /\ w.copy = wl.copy /\ w.owner = wl.owner /\ w.own = wl.own /\ w.paused = FALSE
      /\ w.knob = ctx.knob
  BY <1>0, <1>4 DEF Patched, Workloads, Flags
<1>. HIDE DEF w
<1>7. SameWorkload(w) /\ Secured(w) /\ kind # "Canary"
  BY <1>6, Zenon DEF SameWorkload, Secured, BlueGreenKinds
<1>8. Admitted(w) = x
  <2>1. Admitted(w) = Scaled(w.knob, w.replicas, TRUE)
    BY <1>6, AdmittedIs, Zenon
  <2>. QED BY <1>5, <1>6, <2>1, Zenon DEF x
<1>9. Admitted(w) <= ctx.desired + AlreadyThere
  BY <1>3, <1>4, <1>5, <1>8, AlreadyThereIsNat
<1>10. Tame(w)
  BY <1>3, <1>5, <1>6, <1>7, <1>8, <1>9, JustifiedIf DEF ctx
<1>11. Change(wl, w1) = wl \/ Change(wl, w1) = w
  BY Zenon DEF Change, w
<1>. QED BY <1>0, <1>6, <1>10, <1>11, TameItself DEF ctx

\* So does the size of the canary copy.
LEMMA ScaleCopyTame ==
  ASSUME BlastInv, PlansRise, GoesAhead(st), st.phase = "Progressing",
         kind = "Canary", wl.replicas # 0,
         NEW s \in Statuses, s.kept = Nil, s.batch = st.batch
  PROVE  LET w == ScaleCopy(wl, BatchContext(wl, s))
         IN  w \in Workloads /\ Tame(w)
<1>. DEFINE ctx == BatchContext(wl, s)
            c == [wl.copy EXCEPT !.size = ctx.desired, !.synced = FALSE]
            w == [wl EXCEPT !.copy = c]
<1>0. TypeOK /\ wl \in Workloads /\ wl.copy \in Copies /\ wl.copy.size \in Nat /\ Tame(wl)
  BY WorkloadFields, TameItself DEF BlastInv, TypeOK
<1>1. /\ ctx.desired \in Int /\ AskedFor(plan.part) \in Int
      /\ ctx.desired <= AskedFor(plan.part)
  BY RoundIsCurrent, AskedForMore
<1>2. ScaleCopy(wl, ctx) = IF wl.copy.size >= ctx.desired THEN wl ELSE w
  BY Zenon DEF ScaleCopy
<1>. HIDE DEF ctx
<1>3. CASE wl.copy.size >= ctx.desired
  BY <1>0, <1>2, <1>3 DEF ctx
<1>4. CASE ~(wl.copy.size >= ctx.desired)
  <2>1. ctx.desired \in Nat
    BY <1>0, <1>1, <1>4
  <2>2. c \in Copies /\ c.size = ctx.desired
    BY <1>0, <2>1 DEF Copies, Counts, Flags
  <2>. HIDE DEF c
  <2>3. /\ w \in Workloads /\ w.exists = wl.exists /\ w.replicas = wl.replicas
        /\ w.update = wl.update /\ w.paused = wl.paused /\ w.copy.size = ctx.desired
    BY <1>0, <2>2 DEF Workloads
  <2>. HIDE DEF w
  <2>4. wl.paused
    BY RoundIsCurrent, Zenon DEF BlastInv, Secured
  <2>5. Admitted(w) = 0
    BY <2>3, <2>4, AdmittedIs, Zenon
  <2>6. SameWorkload(w) /\ Secured(w)
    BY <2>3, <2>4, Zenon DEF SameWorkload, Secured, BlueGreenKinds
  <2>7. Above(Admitted(w), w.copy.size) <= AskedFor(plan.part) + AlreadyThere
    BY <1>1, <2>1, <2>3, <2>5, AlreadyThereIsNat DEF Above
  <2>8. Justified(w)
    BY <2>7, RoundIsCurrent, Zenon DEF Justified
  <2>9. Tame(w)
    BY <2>6, <2>8, Zenon DEF Tame
  <2>. QED BY <1>2, <1>4, <2>3, <2>9, Zenon DEF ctx
<1>. QED BY <1>3, <1>4

\* UpgradeBatch keeps to the blast radius.
LEMMA UpgradeTame ==
  ASSUME BlastInv, PlansRise, SizesFit, GoesAhead(st), st.phase = "Progressing",
         NEW s \in Statuses, s.kept = Nil, s.batch = st.batch
  PROVE  Outcome(UpgradeBatch(wl, s), s)
<1>0. TypeOK /\ wl \in Workloads /\ Tame(wl) /\ wl.exists /\ s.batch < Len(plan.batches)
  BY TameItself, RoundIsCurrent DEF BlastInv, TypeOK
<1>1. \A ok : Outcome(Result(wl, s, ok), s)
  BY <1>0, OutcomeOf
<1>2. CASE wl.replicas = 0
  BY <1>0, <1>1, <1>2, Zenon DEF UpgradeBatch
<1>3. CASE wl.replicas # 0 /\ kind \in PartitionKinds
  <2>. DEFINE w == Raise(wl, BatchContext(wl, s))
  <2>1. w \in Workloads /\ Tame(w) /\ w.replicas # 0
    <3>1. w \in Workloads /\ Tame(w)
      BY <1>3, RaiseTame
    <3>2. w.replicas = wl.replicas
      BY <3>1, Zenon DEF Tame, SameWorkload
    <3>. QED BY <1>3, <3>1, <3>2
  <2>2. PatchPods(w, s) \in Workloads /\ Tame(PatchPods(w, s))
    BY <1>0, <2>1, LabelsTame
  <2>3. UpgradeBatch(wl, s) = UpgradePartition(wl, s)
    BY <1>0, <1>3, Zenon DEF UpgradeBatch, PartitionKinds, StableKnob, StatefulSets, BlueGreenKinds
  <2>4. UpgradePartition(wl, s) = [Result(PatchPods(w, s), s, TRUE) EXCEPT !.mid = w]
    BY Zenon DEF UpgradePartition
  <2>. HIDE DEF w
  <2>5. Outcome([Result(PatchPods(w, s), s, TRUE) EXCEPT !.mid = w], s)
    BY <2>1, <2>2, OutcomeOf
  <2>. QED BY <2>3, <2>4, <2>5, Zenon
<1>4. CASE wl.replicas # 0 /\ kind \in BlueGreenKinds
  <2>. DEFINE w1 == [wl EXCEPT !.knob = BatchContext(wl, s).knob, !.paused = FALSE]
  <2>1. UpgradeBatch(wl, s) = UpgradeBlueGreen(wl, s)
    BY <1>0, <1>4, Zenon DEF UpgradeBatch, PartitionKinds, StableKnob, StatefulSets, BlueGreenKinds
  <2>2. \/ UpgradeBlueGreen(wl, s) = Result(wl, s, FALSE)
        \/ UpgradeBlueGreen(wl, s) = Result(wl, s, TRUE)
        \/ /\ UpgradeBlueGreen(wl, s) = Result(Change(wl, w1), s, TRUE)
           /\ wl.owner /\ ~wl.own
    BY Zenon DEF UpgradeBlueGreen
  <2>3. wl.owner /\ ~wl.own => Outcome(Result(Change(wl, w1), s, TRUE), s)
    <3>1. wl.owner /\ ~wl.own => Change(wl, w1) \in Workloads /\ Tame(Change(wl, w1))
      BY <1>4, SurgeTame
    <3>. HIDE DEF w1
    <3>. QED BY <3>1, OutcomeOf
  <2>. QED BY <1>1, <2>1, <2>2, <2>3, Zenon
<1>5. CASE wl.replicas # 0 /\ kind = "Canary"
  <2>. DEFINE w1 == ScaleCopy(wl, BatchContext(wl, s))
  <2>1. UpgradeBatch(wl, s) = UpgradeCanary(wl, s)
    BY <1>0, <1>5, Zenon DEF UpgradeBatch, PartitionKinds, StableKnob, StatefulSets, BlueGreenKinds
  <2>2. \/ UpgradeCanary(wl, s) = Result(wl, s, FALSE)
        \/ UpgradeCanary(wl, s) = Result(w1, s, TRUE)
    BY Zenon DEF UpgradeCanary
  <2>3. w1 \in Workloads /\ Tame(w1)
    BY <1>5, ScaleCopyTame
  <2>. HIDE DEF w1
  <2>4. Outcome(Result(w1, s, TRUE), s)
    BY <2>3, OutcomeOf
  <2>. QED BY <1>1, <2>1, <2>2, <2>4, Zenon
<1>. QED BY <1>0, <1>2, <1>3, <1>4, <1>5, KindIsKnown

\* So does the verification of a batch, which moves the MinReady window.
LEMMA VerifyTame ==
  ASSUME BlastInv, PlansRise, SizesFit, GoesAhead(st), st.phase = "Progressing"
  PROVE  Outcome(EnsureBatchPodsReadyAndLabeled(wl, st), st)
<1>0. /\ TypeOK /\ wl \in Workloads /\ st \in Statuses /\ Tame(wl) /\ wl.exists /\ st.kept = Nil
      /\ st.batch < Len(plan.batches)
  BY TameItself, RoundIsCurrent DEF BlastInv, TypeOK, StatusInStep
<1>1. \A w \in Workloads, ok \in BOOLEAN : Tame(w) => Outcome(Result(w, st, ok), st)
  BY <1>0, OutcomeOf
<1>2. CASE wl.replicas = 0
  <2>1. EnsureBatchPodsReadyAndLabeled(wl, st) = Result(wl, st, TRUE)
    BY <1>0, <1>2, Zenon DEF EnsureBatchPodsReadyAndLabeled
  <2>. QED BY <1>0, <1>1, <2>1, Zenon
<1>3. CASE wl.replicas # 0 /\ kind \in PartitionKinds
  <2>. DEFINE w == IF kind = "MinReady" THEN Raise(wl, BatchContext(wl, st)) ELSE wl
  <2>1. w \in Workloads /\ Tame(w)
    BY <1>0, <1>3, RaiseTame
  <2>2. EnsureBatchPodsReadyAndLabeled(wl, st) = VerifyPartition(wl, st)
    BY <1>0, <1>3, Zenon
    DEF EnsureBatchPodsReadyAndLabeled, PartitionKinds, StableKnob, StatefulSets, BlueGreenKinds
  <2>3. VerifyPartition(wl, st) = Result(w, st, BatchReady(wl, st))
    BY Zenon DEF VerifyPartition
  <2>4. BatchReady(wl, st) \in BOOLEAN
    BY Zenon DEF BatchReady, IsBatchReady
  <2>. HIDE DEF w
  <2>. QED BY <1>1, <2>1, <2>2, <2>3, <2>4, Zenon
<1>4. CASE wl.replicas # 0 /\ (kind \in BlueGreenKinds \/ kind = "Canary")
  <2>. DEFINE w == PatchPods(wl, st)
  <2>1. w \in Workloads /\ Tame(w)
    BY <1>0, <1>4, LabelsTame
  <2>2. \/ EnsureBatchPodsReadyAndLabeled(wl, st) = VerifyAndLabel(wl, st)
        \/ EnsureBatchPodsReadyAndLabeled(wl, st) = Result(wl, st, FALSE)
    BY <1>0, <1>4, Zenon DEF EnsureBatchPodsReadyAndLabeled, VerifyCanary, PartitionKinds,
                             StableKnob, StatefulSets, BlueGreenKinds
  <2>3. VerifyAndLabel(wl, st) = Result(w, st, BatchReady(wl, st))
    BY Zenon DEF VerifyAndLabel
  <2>4. BatchReady(wl, st) \in BOOLEAN
    BY Zenon DEF BatchReady, IsBatchReady
  <2>. HIDE DEF w
  <2>. QED BY <1>0, <1>1, <2>1, <2>2, <2>3, <2>4, Zenon
<1>. QED BY <1>0, <1>2, <1>3, <1>4, KindIsKnown

\* Finalizing with a partition left lets no pod be updated, but for a MinReady
\* Deployment.
LEMMA FinalizePartitionTame ==
  ASSUME BlastInv, SizesFit, kind \in PartitionKinds, wl.exists,
         plan.part # Nil => plan.deleting
  PROVE  Outcome(FinalizePartition(wl, st), st)
<1>. DEFINE n == wl.replicas
            w == CASE kind = "CloneSet" -> FinalizeCloneSet(wl)
                   [] kind \in StatefulSets -> FinalizeStatefulSet(wl)
                   [] kind = "DaemonSet" -> FinalizeDaemonSet(wl)
                   [] kind = "NativeDaemonSet" -> FinalizeNativeDaemonSet(wl)
                   [] kind = "Deployment" -> FinalizeDeployment(wl)
                   [] kind = "MinReady" -> FinalizeMinReady(wl)
            p == Patched(wl)
            left == Left(wl)
            freed == Freed(wl)
            away == [left EXCEPT !.knob = Unreached]
            resumed == [freed EXCEPT !.paused = Stay, !.frozen = FALSE]
<1>0. /\ TypeOK /\ wl \in Workloads /\ st \in Statuses /\ st.kept = Nil /\ n \in Scales
      /\ kind # "Canary" /\ kind \notin BlueGreenKinds
  BY DEF BlastInv, TypeOK, StatusInStep, PartitionKinds, StableKnob, StatefulSets, BlueGreenKinds
<1>1. Admitted(wl) \in Int /\ Admitted(wl) >= 0 /\ n \in Nat /\ wl.own \in BOOLEAN
  BY <1>0, AdmittedBounds, WorkloadFields
<1>2. FinalizePartition(wl, st) = Result(w, st, TRUE)
  BY Zenon DEF FinalizePartition
<1>3. w \in Workloads
  <2>1. FinalizePartition(wl, st) \in Results
    BY <1>0, FinalizePartitionTyped
  <2>2. FinalizePartition(wl, st).w = w
    <3>1. \A v : Result(v, st, TRUE).w = v
      BY DEF Result
    <3>. HIDE DEF w
    <3>. QED BY <1>2, <3>1, Zenon
  <2>. QED BY <2>1, <2>2 DEF Results
<1>4. /\ p \in Workloads /\ p.exists = wl.exists /\ p.replicas = n /\ p.update = wl.update
      /\ p.copy = wl.copy
  <2>1. p \in Workloads
    BY <1>0, PatchedTyped
  <2>. QED BY <1>0, <2>1 DEF Patched, Workloads
<1>. HIDE DEF p
<1>5. /\ freed \in Workloads /\ freed.exists = wl.exists /\ freed.replicas = n
      /\ freed.update = wl.update /\ freed.copy = wl.copy
  BY <1>4, KnobsOfTheCode DEF Freed, p, Workloads, Flags
<1>6. /\ left \in Workloads /\ left.exists = wl.exists /\ left.replicas = n
      /\ left.update = wl.update /\ left.copy = wl.copy /\ left.own = wl.own
      /\ left.knob = wl.knob /\ left.paused = wl.paused /\ left.low = wl.low
      /\ left.owner = FALSE
  BY <1>0 DEF Left, Workloads, Flags
<1>. HIDE DEF left, freed
<1>7. /\ away.exists = wl.exists /\ away.replicas = n
      /\ away.update = wl.update /\ away.copy = wl.copy /\ away.own = wl.own
      /\ away.knob = Unreached
  BY <1>6 DEF Workloads
<1>8. /\ resumed.exists = wl.exists /\ resumed.replicas = n /\ resumed.update = wl.update
      /\ resumed.copy = wl.copy
  BY <1>5 DEF Workloads
<1>. HIDE DEF away, resumed
<1>9. \A v : v.exists = wl.exists /\ v.replicas = n /\ v.update = wl.update /\ v.copy = wl.copy
             => SameWorkload(v)
  BY Zenon DEF SameWorkload
<1>10. Promote \in BOOLEAN /\ (Promote <=> plan.part = Nil)
  BY Zenon DEF Promote
<1>11. \/ w = wl
       \/ w = left /\ kind # "MinReady" /\ (kind = "Deployment" => wl.paused)
       \/ w = away /\ kind = "NativeDaemonSet"
       \/ (w = freed \/ w = resumed) /\ plan.part = Nil
       \/ w = freed /\ kind = "MinReady"
  <2>1. CASE kind \in {"CloneSet", "StatefulSet", "OrderedStatefulSet", "DaemonSet", "NativeDaemonSet"}
    <3>1. \/ w = FinalizeCloneSet(wl) \/ w = FinalizeStatefulSet(wl)
          \/ w = FinalizeDaemonSet(wl)
          \/ (w = FinalizeNativeDaemonSet(wl) /\ kind = "NativeDaemonSet")
      BY <2>1, Zenon DEF StatefulSets
    <3>2. \/ (w = freed /\ Promote) \/ w = left
          \/ (w = away /\ kind = "NativeDaemonSet")
      <4>. HIDE DEF w
      <4>. QED
        BY <3>1, Zenon
        DEF FinalizeCloneSet, FinalizeStatefulSet, FinalizeDaemonSet, FinalizeNativeDaemonSet,
            freed, left, away
    <3>. QED BY <1>10, <2>1, <3>2
  <2>2. CASE kind = "Deployment"
    <3>1. w = FinalizeDeployment(wl)
      BY <2>2, Zenon DEF StatefulSets
    <3>2. w = wl \/ (w = resumed /\ Promote) \/ (w = left /\ wl.paused)
      BY <1>10, <3>1, Zenon DEF FinalizeDeployment, left, resumed, freed
    <3>. QED BY <1>10, <2>2, <3>2
  <2>3. CASE kind = "MinReady"
    <3>1. w = FinalizeMinReady(wl)
      BY <2>3, Zenon DEF StatefulSets
    <3>. QED BY <2>3, <3>1, Zenon DEF FinalizeMinReady, freed
  <2>. QED BY <1>0, <2>1, <2>2, <2>3, KindIsKnown
<1>. HIDE DEF w
<1>12. Tame(w)
  <2>1. CASE w = wl
    BY <2>1, TameItself
  <2>2. CASE w = left /\ kind # "MinReady" /\ (kind = "Deployment" => wl.paused)
    <3>1. kind = "Deployment" => Admitted(w) = 0
      BY <1>6, <2>2, AdmittedIs, Zenon
    <3>2. kind \in {"CloneSet", "DaemonSet", "StatefulSet", "NativeDaemonSet", "OrderedStatefulSet"}
            => Admitted(w) = Admitted(wl)
      BY <1>6, <2>2, AdmittedIs, Zenon
    <3>3. Admitted(w) <= Admitted(wl)
      BY <1>0, <1>1, <2>2, <3>1, <3>2, KindIsKnown
    <3>. QED BY <1>3, <1>6, <2>2, <3>3, TameIfNoMore, Zenon
  <2>3. CASE w = away /\ kind = "NativeDaemonSet"
    <3>1. CASE wl.own
      <4>1. Admitted(w) = n /\ Admitted(wl) = n
        BY <1>7, <2>3, <3>1, AdmittedIs, Zenon
      <4>2. Admitted(w) <= Admitted(wl)
        BY <1>1, <4>1
      <4>. QED BY <1>3, <1>7, <2>3, <4>2, TameIfNoMore, Zenon
    <3>2. CASE ~wl.own
      <4>. DEFINE m == Unreached.n
      <4>1. Admitted(w) = Clamp(n - Scaled(Unreached, n, TRUE), n)
        BY <1>7, <2>3, <3>2, AdmittedIs, Zenon
      <4>2. Scaled(Unreached, n, TRUE) = m /\ m \in Int
        BY DEF Scaled, Unreached, Int32
      <4>3. n <= m
        BY <1>0, Zenon DEF SizesFit
      <4>. HIDE DEF m
      <4>4. Clamp(n - m, n) = 0
        BY <1>1, <4>2, <4>3 DEF Clamp, Above, Below
      <4>5. Admitted(w) <= Admitted(wl)
        BY <1>1, <4>1, <4>2, <4>4
      <4>. QED BY <1>3, <1>7, <2>3, <4>5, TameIfNoMore, Zenon
    <3>. QED BY <1>1, <3>1, <3>2
  <2>4. CASE (w = freed \/ w = resumed) /\ plan.part = Nil
    <3>1. SameWorkload(w)
      BY <1>5, <1>8, <1>9, <2>4, Zenon
    <3>. QED BY <2>4, <3>1, Zenon DEF Tame
  <2>5. CASE w = freed /\ kind = "MinReady"
    <3>1. SameWorkload(w) /\ Secured(w)
      BY <1>0, <1>5, <1>9, <2>5, Zenon DEF Secured
    <3>. QED BY <2>5, <3>1, Zenon DEF Tame
  <2>. QED BY <1>11, <2>1, <2>2, <2>3, <2>4, <2>5
<1>. QED BY <1>0, <1>2, <1>3, <1>12, OutcomeOf

\* So does Finalize, unless there is no partition.
LEMMA FinalizeTame ==
  ASSUME BlastInv, SizesFit, plan.exists, st.phase = "Finalizing"
  PROVE  Outcome(Finalize(wl, st), st)
<1>0. /\ TypeOK /\ wl \in Workloads /\ st \in Statuses /\ st.kept = Nil /\ Tame(wl)
      /\ wl.exists \in BOOLEAN /\ wl.own \in BOOLEAN
      /\ plan.part # Nil => Secured(wl) /\ (plan.deleting \/ ~wl.exists)
  <2>1. TypeOK /\ wl \in Workloads /\ st \in Statuses /\ st.kept = Nil
    BY DEF BlastInv, TypeOK, StatusInStep
  <2>2. plan.part # Nil => Secured(wl) /\ (plan.deleting \/ ~wl.exists)
    BY Zenon DEF BlastInv
  <2>. QED BY <2>1, <2>2, TameItself, WorkloadFields
<1>1. \A ok : Outcome(Result(wl, st, ok), st)
  BY <1>0, OutcomeOf
<1>2. CASE kind # "Canary" /\ ~wl.exists
  BY <1>0, <1>1, <1>2, Zenon DEF Finalize
<1>3. CASE wl.exists /\ kind \in PartitionKinds
  <2>1. Finalize(wl, st) = FinalizePartition(wl, st)
    BY <1>3, Zenon DEF Finalize, PartitionKinds, StableKnob, StatefulSets, BlueGreenKinds
  <2>2. Outcome(FinalizePartition(wl, st), st)
    BY <1>0, <1>3, FinalizePartitionTame
  <2>. QED BY <2>1, <2>2, Zenon
<1>4. CASE wl.exists /\ kind \in BlueGreenKinds
  <2>. DEFINE w1 == IF wl.own THEN wl
                    ELSE [Patched(wl) EXCEPT !.owner = FALSE, !.own = TRUE,
                                             !.paused = @ /\ kind = "BGCloneSet"]
              w2 == RestoreHPA(w1)
              done == IF kind = "BGCloneSet" THEN OnlyUpdatedReady
                      ELSE wl.own \/ AllUpdatedAndReady(wl)
  <2>1. Finalize(wl, st) = FinalizeBlueGreen(wl, st)
    BY <1>4, Zenon DEF Finalize, PartitionKinds, StableKnob, StatefulSets, BlueGreenKinds
  <2>2. done \in BOOLEAN
    BY <1>0, Zenon DEF OnlyUpdatedReady, AllUpdatedAndReady
  <2>3. \/ FinalizeBlueGreen(wl, st) = Result(wl, st, TRUE)
        \/ /\ plan.part = Nil
           /\ \/ FinalizeBlueGreen(wl, st) = [Result(w2, st, TRUE) EXCEPT !.mid = w1]
              \/ FinalizeBlueGreen(wl, st) = Result(w1, st, FALSE)
    BY <2>2, Zenon DEF FinalizeBlueGreen
  <2>4. /\ w1 \in Workloads /\ w1.exists = wl.exists /\ w1.replicas = wl.replicas
        /\ w1.update = wl.update /\ w1.copy = wl.copy
    <3>1. CASE wl.own
      BY <1>0, <3>1
    <3>2. CASE ~wl.own
      <4>. DEFINE p == Patched(wl)
                  f == p.paused /\ kind = "BGCloneSet"
      <4>1. /\ p \in Workloads /\ p.exists = wl.exists /\ p.replicas = wl.replicas
            /\ p.update = wl.update /\ p.copy = wl.copy
        <5>1. p \in Workloads
          BY <1>0, PatchedTyped
        <5>. QED BY <1>0, <5>1 DEF Patched, Workloads
      <4>2. w1 = [p EXCEPT !.owner = FALSE, !.own = TRUE, !.paused = f]
        BY <3>2, Zenon
      <4>3. f \in BOOLEAN
        BY Zenon
      <4>. HIDE DEF p, f, w1
      <4>. QED BY <4>1, <4>2, <4>3 DEF Workloads, Flags
    <3>. QED BY <1>0, <3>1, <3>2
  <2>. HIDE DEF w1
  <2>5. /\ w2 \in Workloads /\ w2.exists = wl.exists /\ w2.replicas = wl.replicas
        /\ w2.update = wl.update /\ w2.copy = wl.copy
    BY <2>4 DEF RestoreHPA, Workloads, Flags
  <2>. HIDE DEF w2
  <2>6. SameWorkload(w1) /\ SameWorkload(w2)
    BY <2>4, <2>5, Zenon DEF SameWorkload
  <2>7. ASSUME plan.part = Nil
        PROVE  /\ Outcome([Result(w2, st, TRUE) EXCEPT !.mid = w1], st)
               /\ Outcome(Result(w1, st, FALSE), st)
    <3>1. Tame(w1) /\ Tame(w2)
      BY <2>6, <2>7, Zenon DEF Tame
    <3>. QED BY <1>0, <2>4, <2>5, <3>1, OutcomeOf
  <2>. QED BY <1>1, <2>1, <2>3, <2>7, Zenon
<1>5. CASE kind = "Canary"
  <2>. DEFINE w1 == FreeStable(wl)
              w2 == DeleteCopies(w1)
  <2>1. Finalize(wl, st) = FinalizeCanary(wl, st)
    BY <1>5, Zenon DEF Finalize, PartitionKinds, StableKnob, StatefulSets, BlueGreenKinds
  <2>2. \/ FinalizeCanary(wl, st) = [Result(w2, st, TRUE) EXCEPT !.mid = w1]
        \/ FinalizeCanary(wl, st) = Result(w1, st, FALSE)
    BY Zenon DEF FinalizeCanary
  <2>3. /\ w1 \in Workloads /\ w1.exists = wl.exists /\ w1.replicas = wl.replicas
        /\ w1.update = wl.update /\ w1.copy = wl.copy
        /\ plan.part # Nil => w1.paused = TRUE \/ w1 = wl
    <3>. DEFINE f == plan.part # Nil
                v == [wl EXCEPT !.owner = FALSE, !.paused = f]
    <3>1. f \in BOOLEAN
      BY Zenon
    <3>2. w1 = wl \/ w1 = Patched(v)
      BY Zenon DEF FreeStable, Change
    <3>. HIDE DEF f
    <3>3. LET u == Patched(v) IN
            /\ u \in Workloads /\ u.exists = wl.exists /\ u.replicas = wl.replicas
            /\ u.update = wl.update /\ u.copy = wl.copy /\ u.paused = f
      BY <1>0, <3>1 DEF Patched, Workloads, Flags
    <3>. HIDE DEF w1, v
    <3>4. CASE w1 = Patched(v)
      BY <3>3, <3>4 DEF f
    <3>. QED BY <1>0, <3>2, <3>4
  <2>. HIDE DEF w1
  <2>4. /\ w2 \in Workloads /\ w2.exists = wl.exists /\ w2.replicas = wl.replicas
        /\ w2.update = wl.update /\ w2.paused = w1.paused
        /\ w2.copy.size = 0 \/ w2.copy = wl.copy
    <3>. DEFINE c == [w1.copy EXCEPT !.made = 0, !.seen = FALSE, !.size = 0, !.pods = 0]
    <3>1. c \in Copies /\ c.size = 0
      BY <2>3, WorkloadFields DEF Copies, Counts, Flags
    <3>2. w2 = w1 \/ w2 = [w1 EXCEPT !.copy = c]
      BY Zenon DEF DeleteCopies
    <3>. HIDE DEF c, w2
    <3>. QED BY <2>3, <3>1, <3>2 DEF Workloads
  <2>. HIDE DEF w2
  <2>5. SameWorkload(w1) /\ SameWorkload(w2)
    BY <1>5, <2>3, <2>4, Zenon DEF SameWorkload
  <2>6. Tame(w1) /\ Tame(w2)
    <3>1. CASE plan.part # Nil
      <4>1. wl.paused /\ w1.paused /\ w2.paused
        BY <1>0, <1>5, <2>3, <2>4, <3>1, Zenon DEF Secured
      <4>2. Admitted(wl) = 0 /\ Admitted(w1) = 0 /\ Admitted(w2) = 0
        BY <1>5, <4>1, AdmittedIs, Zenon
      <4>3. wl.copy.size \in Nat
        BY <1>0, WorkloadFields
      <4>4. NoMore(w1) /\ NoMore(w2)
        BY <2>3, <2>4, <4>2, <4>3 DEF NoMore
      <4>5. Secured(w1) /\ Secured(w2)
        BY <1>5, <4>1, Zenon DEF Secured, BlueGreenKinds
      <4>. QED BY <2>5, <4>4, <4>5, Zenon DEF Tame
    <3>. QED BY <2>5, <3>1, Zenon DEF Tame
  <2>7. /\ Outcome([Result(w2, st, TRUE) EXCEPT !.mid = w1], st)
        /\ Outcome(Result(w1, st, FALSE), st)
    BY <1>0, <2>3, <2>4, <2>6, OutcomeOf
  <2>. QED BY <2>1, <2>2, <2>7, Zenon
<1>. QED BY <1>0, <1>2, <1>3, <1>4, <1>5, KindIsKnown

\* A change of the phase leaves the rest of a status alone.
LEMMA PhaseChanged ==
  ASSUME NEW y \in Statuses, NEW v, NEW z, z = [y EXCEPT !.phase = v]
  PROVE  /\ z.kept = y.kept /\ z.hash = y.hash /\ z.batch = y.batch /\ z.phase = v
         /\ z.update = y.update
BY DEF Statuses

\* So does a change of the batch state.
LEMMA StateChanged ==
  ASSUME NEW y \in Statuses, NEW v, NEW z, z = [y EXCEPT !.state = v]
  PROVE  /\ z.kept = y.kept /\ z.hash = y.hash /\ z.batch = y.batch /\ z.phase = y.phase
         /\ z.update = y.update
BY DEF Statuses

\* A status that is published without an operation is in step with the plan,
\* and a release that still has a partition is finalized only when its
\* BatchRelease is deleted or its workload gone.
LEMMA PublishedInStep ==
  ASSUME BlastInv, plan.exists
  PROVE  /\ StatusInStep(Published)
         /\ plan.part # Nil /\ Published.phase = "Finalizing" => plan.deleting \/ ~wl.exists
<1>. DEFINE s == Started
            sync == SyncStatusBeforeExecuting(s)
            x == sync.s
<1>0. TypeOK /\ st \in Statuses /\ ~plan.anno /\ StatusInStep(st)
  BY DEF BlastInv, TypeOK
<1>1. s \in Statuses /\ x \in Statuses
  BY <1>0, StartedTyped
<1>2. \A y \in Statuses : /\ Fresh(y).kept = Nil /\ Fresh(y).hash = NoSpec /\ Fresh(y).batch = 0
                          /\ Fresh(y).phase = "Preparing"
  BY DEF Fresh, Statuses
<1>3. NoSpec.part = Nil
  BY DEF NoSpec
<1>4. \A y : /\ y.kept = Nil /\ y.hash = NoSpec /\ y.batch = 0 /\ y.phase = "Preparing"
             => StatusInStep(y)
  BY <1>3 DEF StatusInStep
<1>5. StatusInStep(s) /\ (st.phase # "" => s = st)
  BY <1>0, <1>2, <1>4, Zenon DEF Started
<1>6. wl.update # NoRevision
  BY <1>0, WorkloadFields, RevisionAssumption DEF TypeOK
<1>7. \A y : Stop(y).s = y /\ Go(y).s = y
  BY DEF Stop, Go
<1>8. /\ StatusInStep(x)
      /\ plan.part # Nil /\ x.phase = "Finalizing" => plan.deleting \/ ~wl.exists
  <2>0. plan.part # Nil /\ st.phase = "Finalizing" => plan.deleting \/ ~wl.exists
    BY Zenon DEF BlastInv
  <2>1. plan.part # Nil /\ s.phase = "Finalizing" => plan.deleting \/ ~wl.exists
    <3>1. CASE st.phase = ""
      <4>1. s.phase = "Preparing"
        BY <1>0, <1>2, <3>1, Zenon DEF Started
      <4>. QED BY <4>1
    <3>2. CASE st.phase # ""
      BY <1>5, <2>0, <3>2, Zenon
    <3>. QED BY <3>1, <3>2
  <2>2. CASE x = s
    BY <1>5, <2>1, <2>2, Zenon
  <2>3. CASE x = [s EXCEPT !.update = wl.update]
    <3>. HIDE DEF s, x
    <3>1. /\ x.kept = s.kept /\ x.hash = s.hash /\ x.batch = s.batch /\ x.phase = s.phase
          /\ x.update = wl.update
      BY <1>1, <2>3 DEF Statuses
    <3>. QED BY <1>5, <1>6, <2>1, <3>1, Zenon DEF StatusInStep
  <2>4. CASE /\ x = [s EXCEPT !.phase = "Finalizing"]
             /\ \/ plan.deleting \/ st.phase = "Finalizing" \/ plan.part = Nil
                \/ WorkloadEvent(s) = "HasGone"
    <3>. HIDE DEF s, x
    <3>1. /\ x.kept = s.kept /\ x.hash = s.hash /\ x.batch = s.batch /\ x.phase = "Finalizing"
      BY <1>1, <2>4 DEF Statuses
    <3>2. WorkloadEvent(s) = "HasGone" => ~wl.exists
      BY Zenon DEF WorkloadEvent
    <3>3. StatusInStep(x)
      BY <1>5, <3>1 DEF StatusInStep
    <3>. QED BY <2>0, <2>4, <3>2, <3>3, Zenon
  <2>5. CASE x = Recalculate(s) /\ st.phase = "Progressing" /\ plan.part # Nil
    <3>. DEFINE b == IF plan.rid = st.rid THEN Below(plan.part, Len(plan.batches) - 1) ELSE 0
    <3>1. b <= plan.part
      BY <1>0, <2>5, PlanFields DEF Below, Nil
    <3>2. x = [s EXCEPT !.batch = b, !.state = "Upgrading", !.hash = ReleasePlan,
                        !.rid = plan.rid]
      BY <2>5, Zenon DEF Recalculate
    <3>. HIDE DEF b, x
    <3>3. /\ x.kept = s.kept /\ x.hash = ReleasePlan /\ x.batch = b /\ x.phase = s.phase
          /\ x.update = s.update
      BY <1>1, <3>2 DEF Statuses
    <3>4. ReleasePlan.part = plan.part /\ ReleasePlan # NoSpec
      BY <1>0, ReleasePlanTyped DEF ReleasePlan
    <3>. QED BY <1>5, <2>1, <3>1, <3>3, <3>4, Zenon DEF StatusInStep
  <2>6. CASE x = Fresh(s)
    <3>1. x.phase = "Preparing" /\ StatusInStep(x)
      BY <1>1, <1>2, <1>4, <2>6, Zenon
    <3>. QED BY <3>1
  <2>7. CASE x = [s EXCEPT !.state = "Upgrading", !.replicas = wl.replicas]
    <3>. HIDE DEF s, x
    <3>1. /\ x.kept = s.kept /\ x.hash = s.hash /\ x.batch = s.batch /\ x.phase = s.phase
          /\ x.update = s.update
      BY <1>1, <2>7 DEF Statuses
    <3>. QED BY <1>5, <2>1, <3>1, Zenon DEF StatusInStep
  <2>8. \/ x = s \/ x = [s EXCEPT !.update = wl.update]
        \/ /\ x = [s EXCEPT !.phase = "Finalizing"]
           /\ \/ plan.deleting \/ st.phase = "Finalizing" \/ plan.part = Nil
              \/ WorkloadEvent(s) = "HasGone"
        \/ (x = Recalculate(s) /\ st.phase = "Progressing" /\ plan.part # Nil)
        \/ x = Fresh(s) \/ x = [s EXCEPT !.state = "Upgrading", !.replicas = wl.replicas]
    <3>. HIDE DEF s
    <3>1. \/ sync = Stop(s) \/ sync = Stop([s EXCEPT !.update = wl.update])
          \/ /\ sync = Go([s EXCEPT !.phase = "Finalizing"])
             /\ \/ plan.deleting \/ st.phase = "Finalizing" \/ plan.part = Nil
                \/ WorkloadEvent(s) = "HasGone"
          \/ (sync = Go(Recalculate(s)) /\ st.phase = "Progressing" /\ plan.part # Nil)
          \/ sync = Go(Fresh(s))
          \/ sync = Go([s EXCEPT !.state = "Upgrading", !.replicas = wl.replicas])
          \/ sync = Go(s)
      BY <1>0, <1>1, SyncCases, ZenonT(30)
    <3>. HIDE DEF sync
    <3>. QED BY <1>7, <3>1, ZenonT(40)
  <2>. HIDE DEF s, x
  <2>. QED BY <2>2, <2>3, <2>4, <2>5, <2>6, <2>7, <2>8, Zenon
<1>. HIDE DEF x, s
<1>9. /\ Published.phase = x.phase /\ Published.batch = x.batch /\ Published.kept = x.kept
      /\ Published.update = x.update
      /\ Published.hash = IF x.hash = NoSpec THEN ReleasePlan ELSE x.hash
  BY <1>0, <1>1, RefreshTyped DEF Published, x, s
<1>10. StatusInStep(Published)
  <2>1. CASE x.hash = NoSpec
    <3>1. ReleasePlan.part = plan.part /\ ReleasePlan # NoSpec
      BY <1>0, ReleasePlanTyped DEF ReleasePlan
    <3>2. x.batch = 0 /\ (plan.part # Nil => 0 <= plan.part)
      BY <1>0, <1>8, <2>1, PlanFields DEF StatusInStep, Nil
    <3>. QED BY <1>8, <1>9, <2>1, <3>1, <3>2, Zenon DEF StatusInStep
  <2>2. CASE x.hash # NoSpec
    BY <1>8, <1>9, <2>2, Zenon DEF StatusInStep
  <2>. QED BY <2>1, <2>2
<1>. QED BY <1>8, <1>9, <1>10, Zenon

\* What a round leaves behind: tame workloads, and a status in step.
LEMMA RoundTame ==
  ASSUME BlastInv, PlansRise, SizesFit, plan.exists
  PROVE  /\ Do \in Results /\ Tame(Do.w) /\ Tame(Do.mid) /\ StatusInStep(Do.s)
         /\ plan.part # Nil /\ Do.s.phase = "Finalizing" => plan.deleting \/ ~wl.exists
<1>0. /\ TypeOK /\ st \in Statuses /\ ~plan.anno /\ StatusInStep(st) /\ Tame(wl)
      /\ plan.part # Nil /\ st.phase = "Finalizing" => plan.deleting \/ ~wl.exists
  <2>1. plan.part # Nil /\ st.phase = "Finalizing" => plan.deleting \/ ~wl.exists
    BY Zenon DEF BlastInv
  <2>. QED BY <2>1, TameItself DEF BlastInv, TypeOK
<1>1. Do \in Results
  BY <1>0, DoTyped
<1>2. ASSUME NEW b \in BOOLEAN, Do = Result(wl, Published, b)
      PROVE  /\ Tame(Do.w) /\ Tame(Do.mid) /\ StatusInStep(Do.s)
             /\ plan.part # Nil /\ Do.s.phase = "Finalizing" => plan.deleting \/ ~wl.exists
  <2>1. Do.w = wl /\ Do.mid = wl /\ Do.s = Published
    BY <1>2 DEF Result
  <2>. QED BY <1>0, <2>1, PublishedInStep, Zenon
<1>3. CASE Do = ExecuteBatchReleasePlan(st) /\ st.phase = "Finalizing"
  <2>. DEFINE r == Finalize(wl, st)
              p == IF r.ok THEN "Completed" ELSE r.s.phase
  <2>1. r \in Results /\ RoundOf(r, [r.s EXCEPT !.phase = p])
    BY <1>0, <1>3, FinalizingRound, Zenon
  <2>2. Outcome(r, st)
    BY <1>3, FinalizeTame
  <2>. HIDE DEF r
  <2>3. /\ Do.w = r.w /\ Do.mid = r.mid /\ Do.s = [r.s EXCEPT !.phase = p]
        /\ p # "Progressing"
    BY <1>3, <2>1, <2>2, Zenon DEF RoundOf, RoundIs, Outcome
  <2>. HIDE DEF p
  <2>4. Do.s.kept = r.s.kept /\ Do.s.hash = r.s.hash /\ Do.s.batch = r.s.batch /\ Do.s.phase = p
    <3>1. r.s \in Statuses
      BY <2>1, Zenon DEF Results
    <3>. QED BY <2>3, <3>1, PhaseChanged
  <2>. QED BY <1>0, <1>1, <1>3, <2>2, <2>3, <2>4, Zenon DEF Outcome, StatusInStep
<1>4. CASE Do = ExecuteBatchReleasePlan(st) /\ st.phase = "Preparing"
  <2>. DEFINE r == Initialize(wl, st)
              p == IF r.ok THEN "Progressing" ELSE r.s.phase
  <2>1. r \in Results /\ RoundOf(r, [r.s EXCEPT !.phase = p])
    BY <1>0, <1>4, PreparingRound, Zenon
  <2>2. Prepared(r)
    BY InitializeTame
  <2>. HIDE DEF r
  <2>3. /\ Do.w = r.w /\ Do.mid = r.mid /\ Do.s = [r.s EXCEPT !.phase = p]
        /\ p = "Progressing" => r.s.update # NoRevision
        /\ p # "Finalizing"
    BY <1>4, <2>1, <2>2, Zenon DEF RoundOf, RoundIs, Outcome, Prepared
  <2>. HIDE DEF p
  <2>4. /\ Do.s.kept = r.s.kept /\ Do.s.hash = r.s.hash /\ Do.s.batch = r.s.batch
        /\ Do.s.phase = p /\ Do.s.update = r.s.update
    <3>1. r.s \in Statuses
      BY <2>1, Zenon DEF Results
    <3>. QED BY <2>3, <3>1, PhaseChanged
  <2>. QED BY <1>0, <1>1, <2>2, <2>3, <2>4, Zenon DEF Outcome, StatusInStep, Prepared
<1>5. CASE Do = ExecuteBatchReleasePlan(st) /\ st.phase = "Progressing" /\ GoesAhead(st)
  <2>0. st.batch < Len(plan.batches) /\ st.kept = Nil /\ st.hash = ReleasePlan
    BY <1>0, <1>5 DEF GoesAhead, StatusInStep
  <2>1. /\ Upgrading \in Statuses /\ Upgrading.kept = Nil /\ Upgrading.batch = st.batch
        /\ Upgrading.hash = st.hash /\ Upgrading.phase = st.phase /\ Upgrading.update = st.update
    BY <1>0, <2>0 DEF Upgrading, Statuses
  <2>. DEFINE r == UpgradeBatch(wl, Upgrading)
              v == EnsureBatchPodsReadyAndLabeled(wl, st)
  <2>2. Outcome(r, Upgrading) /\ Outcome(v, st)
    BY <1>5, <2>1, UpgradeTame, VerifyTame
  <2>3. Outcome(r, st)
    BY <2>1, <2>2, Zenon DEF Outcome
  <2>4. \/ \E x \in {"", "Upgrading", "Verifying", "Ready"} :
             r \in Results /\ RoundOf(r, [r.s EXCEPT !.state = x])
        \/ \E x \in {"", "Upgrading", "Verifying", "Ready"} :
             v \in Results /\ RoundOf(v, [v.s EXCEPT !.state = x])
        \/ v \in Results /\ RoundOf(v, MoveToNextBatch(st))
    BY <1>0, <1>5, <2>0, ProgressingRound, Zenon
  <2>. HIDE DEF r, v
  <2>5. ASSUME NEW y \in Results, Outcome(y, st), NEW x, RoundOf(y, [y.s EXCEPT !.state = x])
        PROVE  Tame(Do.w) /\ Tame(Do.mid) /\ StatusInStep(Do.s) /\ Do.s.phase = "Progressing"
    <3>1. Do.w = y.w /\ Do.mid = y.mid /\ Do.s = [y.s EXCEPT !.state = x]
      BY <2>5, Zenon DEF RoundOf, RoundIs
    <3>2. /\ Do.s.kept = y.s.kept /\ Do.s.hash = y.s.hash /\ Do.s.batch = y.s.batch
          /\ Do.s.phase = y.s.phase /\ Do.s.update = y.s.update
      <4>1. y.s \in Statuses
        BY <2>5, Zenon DEF Results
      <4>. QED BY <3>1, <4>1, StateChanged
    <3>. QED BY <1>0, <1>5, <2>5, <3>1, <3>2, Zenon DEF Outcome, StatusInStep
  <2>6. ASSUME RoundOf(v, MoveToNextBatch(st))
        PROVE  Tame(Do.w) /\ Tame(Do.mid) /\ StatusInStep(Do.s) /\ Do.s.phase = "Progressing"
    <3>. DEFINE m == MoveToNextBatch(st)
    <3>1. Do.w = v.w /\ Do.mid = v.mid /\ Do.s = m
      BY <2>6, Zenon DEF RoundOf, RoundIs
    <3>2. /\ m.kept = st.kept /\ m.hash = st.hash /\ m.phase = st.phase /\ m.update = st.update
          /\ m.batch = st.batch \/ (m.batch = st.batch + 1 /\ st.batch + 1 <= plan.part)
      BY <1>0, MoveTyped
    <3>. HIDE DEF m
    <3>3. st.hash # NoSpec /\ st.hash.part = plan.part
      BY <1>0, <2>0, ReleasePlanTyped DEF ReleasePlan
    <3>4. m.batch = st.batch \/ m.batch <= plan.part
      BY <3>2
    <3>5. StatusInStep(m)
      BY <1>0, <3>2, <3>3, <3>4, Zenon DEF StatusInStep
    <3>. QED BY <1>5, <2>2, <3>1, <3>2, <3>5, Zenon DEF Outcome
  <2>7. Tame(Do.w) /\ Tame(Do.mid) /\ StatusInStep(Do.s) /\ Do.s.phase = "Progressing"
    BY <2>2, <2>3, <2>4, <2>5, <2>6
  <2>. QED BY <1>1, <2>7
<1>. QED BY <1>0, <1>1, <1>2, <1>3, <1>4, <1>5, DoCases

\* What BlastRadius says of a step.
BlastStep ==
  Raises => plan.part = Nil \/ (kind = "MinReady" /\ plan.deleting) \/ Justified(wl')

\* A step that leaves a workload a round may leave keeps to the blast radius.
LEMMA TameStep ==
  ASSUME BlastInv, TypeOK', Tame(wl')
  PROVE  BlastStep
<1>1. TypeOK /\ wl \in Workloads /\ wl' \in Workloads
  BY DEF BlastInv, TypeOK
<1>2. /\ Admitted(wl) \in Int /\ Admitted(wl') \in Int
      /\ wl.copy.size \in Int /\ wl'.copy.size \in Int
  BY <1>1, AdmittedBounds, WorkloadFields
<1>3. NoMore(wl') => ~(Admitted(wl') > Admitted(wl) \/ wl'.copy.size > wl.copy.size)
  BY <1>2 DEF NoMore
<1>4. wl'.exists = wl.exists
  BY Zenon DEF Tame, SameWorkload
<1>. QED BY <1>3, <1>4, Zenon DEF Tame, Raises, BlastStep

\* Nor does a step that lets no more pods be updated raise anything.
LEMMA NoRaise ==
  ASSUME TypeOK, TypeOK', Admitted(wl') <= Admitted(wl), wl'.copy.size <= wl.copy.size
  PROVE  BlastStep
<1>1. wl \in Workloads /\ wl' \in Workloads
  BY DEF TypeOK
<1>2. /\ Admitted(wl) \in Int /\ Admitted(wl') \in Int
      /\ wl.copy.size \in Int /\ wl'.copy.size \in Int
  BY <1>1, AdmittedBounds, WorkloadFields
<1>. QED BY <1>2 DEF Raises, BlastStep

\* A step that leaves the strategy raises nothing.
LEMMA SameNoRaise ==
  ASSUME TypeOK, TypeOK', SameStrategy(wl', wl)
  PROVE  BlastStep
<1>1. wl \in Workloads
  BY DEF TypeOK
<1>2. Admitted(wl') = Admitted(wl) /\ Admitted(wl) \in Int /\ wl.copy.size \in Int
  BY <1>1, SameAdmitted, AdmittedBounds, WorkloadFields
<1>3. wl'.copy.size = wl.copy.size
  BY DEF SameStrategy
<1>. QED BY <1>2, <1>3, NoRaise

\* What a step has to keep for the invariant.
LEMMA BlastKept ==
  ASSUME TypeOK', kind' = kind, wl'.replicas \in Scales, ~plan'.anno, StatusInStep(st'),
         kind # "Canary" => wl'.copy.size = 0,
         plan'.part # Nil =>
           /\ Secured(wl')
           /\ st'.phase = "Finalizing" => plan'.deleting \/ ~wl'.exists \/ ~plan'.exists
  PROVE  BlastInv'
<1>1. StatusInStep(st)'
  BY DEF StatusInStep
<1>2. Secured(wl') => Secured(wl)'
  BY Zenon DEF Secured
<1>. QED BY <1>1, <1>2, Zenon DEF BlastInv

\* Whether the generation was seen is not part of the invariant.
LEMMA SeenInStep ==
  ASSUME NEW s \in Statuses, NEW b
  PROVE  /\ StatusInStep(s) => StatusInStep([s EXCEPT !.seen = b])
         /\ [s EXCEPT !.seen = b].phase = s.phase
<1>1. LET t == [s EXCEPT !.seen = b] IN
        /\ t.kept = s.kept /\ t.hash = s.hash /\ t.batch = s.batch /\ t.phase = s.phase
        /\ t.update = s.update
  BY DEF Statuses
<1>. QED BY <1>1, Zenon DEF StatusInStep

\* The workload keeps what the invariant says of it.
Continues ==
  /\ wl'.exists => wl.exists
  /\ wl'.owner = wl.owner /\ wl'.own = wl.own /\ (wl.paused => wl'.paused)
  /\ wl'.copy.size = wl.copy.size \/ wl'.copy.size = 0

\* A step that leaves the claim and the hold keeps the invariant.
LEMMA ContinuesKeeps ==
  ASSUME BlastInv, TypeOK', kind' = kind, Continues, wl'.replicas \in Scales,
         ~plan'.anno, StatusInStep(st'),
         plan'.part # Nil => plan.part # Nil,
         st'.phase = "Finalizing" =>
           /\ st.phase = "Finalizing"
           /\ plan.deleting \/ ~plan.exists => plan'.deleting \/ ~plan'.exists
  PROVE  BlastInv'
<1>1. kind # "Canary" => wl'.copy.size = 0
  BY DEF Continues, BlastInv
<1>2. plan'.part # Nil => Secured(wl')
  <2>1. plan'.part # Nil => Secured(wl)
    BY Zenon DEF BlastInv
  <2>. QED BY <2>1, Zenon DEF Secured, Continues
<1>3. plan'.part # Nil /\ st'.phase = "Finalizing"
        => plan'.deleting \/ ~wl'.exists \/ ~plan'.exists
  BY Zenon DEF BlastInv, Continues
<1>. QED BY <1>1, <1>2, <1>3, BlastKept, Zenon

\* A step that leaves the strategy is such a step.
LEMMA SameContinues ==
  ASSUME SameStrategy(wl', wl)
  PROVE  Continues /\ wl'.replicas = wl.replicas
BY Zenon DEF SameStrategy, Continues

\* The controller's steps keep the invariant and the blast radius.
LEMMA ControllerBlast ==
  ASSUME BlastInv, PlansRise, SizesFit, TypeOK', Reconcile \/ RemoveFinalizer \/ ReconcileCrashes
  PROVE  BlastInv' /\ BlastStep
<1>0. /\ TypeOK /\ plan \in BatchReleases /\ wl \in Workloads /\ ~plan.anno /\ StatusInStep(st)
      /\ wl.replicas \in Scales
  BY DEF BlastInv, TypeOK
<1>1. ASSUME Tame(wl'), kind' = kind, StatusInStep(st'),
             plan' = [plan EXCEPT !.guarded = TRUE],
             plan.part # Nil /\ st'.phase = "Finalizing" => plan.deleting \/ ~wl.exists
      PROVE  BlastInv' /\ BlastStep
  <2>1. BlastStep
    BY <1>1, TameStep
  <2>2. /\ plan'.part = plan.part /\ plan'.anno = plan.anno /\ plan'.deleting = plan.deleting
        /\ plan'.exists = plan.exists
    BY <1>0, <1>1 DEF BatchReleases
  <2>3. /\ wl'.exists = wl.exists /\ wl'.replicas = wl.replicas
        /\ kind # "Canary" => wl'.copy.size = wl.copy.size
        /\ plan.part # Nil => Secured(wl')
    BY <1>1, Zenon DEF Tame, SameWorkload
  <2>4. kind # "Canary" => wl'.copy.size = 0
    BY <2>3 DEF BlastInv
  <2>5. BlastInv'
    BY <1>0, <1>1, <2>2, <2>3, <2>4, BlastKept, Zenon
  <2>. QED BY <2>1, <2>5
<1>2. CASE Reconcile
  <2>1. /\ wl' = Do.w /\ st' = [Do.s EXCEPT !.seen = TRUE] /\ kind' = kind
        /\ plan' = [plan EXCEPT !.guarded = TRUE] /\ plan.exists
    BY <1>2, Zenon DEF Reconcile
  <2>2. /\ Do \in Results /\ Tame(Do.w) /\ StatusInStep(Do.s)
        /\ plan.part # Nil /\ Do.s.phase = "Finalizing" => plan.deleting \/ ~wl.exists
    BY <2>1, RoundTame
  <2>3. Do.s \in Statuses
    BY <2>2 DEF Results
  <2>4. StatusInStep(st') /\ st'.phase = Do.s.phase
    BY <2>1, <2>2, <2>3, SeenInStep
  <2>5. Tame(wl')
    BY <2>1, <2>2, Zenon
  <2>. QED BY <1>1, <2>1, <2>2, <2>4, <2>5
<1>3. CASE ReconcileCrashes
  <2>1. PICK w \in {wl, Do.mid, Do.w} : wl' = Restarted(w)
    BY <1>3, Zenon DEF ReconcileCrashes
  <2>2. st' = st /\ kind' = kind /\ plan' = [plan EXCEPT !.guarded = TRUE] /\ plan.exists
    BY <1>3, Zenon DEF ReconcileCrashes
  <2>3. Do \in Results /\ Tame(Do.w) /\ Tame(Do.mid) /\ Tame(wl)
    BY <2>2, RoundTame, TameItself
  <2>4. w \in Workloads /\ Tame(w)
    BY <1>0, <2>1, <2>3 DEF Results
  <2>5. SameStrategy(Restarted(w), w)
    <3>. DEFINE c == [w.copy EXCEPT !.expected = "none", !.seen = w.copy.made > 0]
    <3>1. w.copy \in Copies
      BY <2>4, WorkloadFields
    <3>2. c.size = w.copy.size
      BY <3>1 DEF Copies
    <3>3. Restarted(w) = [w EXCEPT !.copy = c]
      BY <2>4 DEF Restarted, Workloads
    <3>. HIDE DEF c
    <3>. QED BY <2>4, <3>2, <3>3 DEF SameStrategy, Workloads
  <2>6. Tame(wl')
    BY <2>1, <2>4, <2>5, TameDepends, Zenon
  <2>7. plan.part # Nil /\ st'.phase = "Finalizing" => plan.deleting \/ ~wl.exists
    BY <2>2, Zenon DEF BlastInv
  <2>. QED BY <1>0, <1>1, <2>2, <2>6, <2>7
<1>4. CASE RemoveFinalizer
  <2>1. /\ plan' = [plan EXCEPT !.exists = FALSE, !.guarded = FALSE]
        /\ kind' = kind /\ st' = st /\ wl' = wl
    BY <1>4 DEF RemoveFinalizer
  <2>2. plan'.part = plan.part /\ plan'.anno = plan.anno /\ ~plan'.exists
    BY <1>0, <2>1 DEF BatchReleases
  <2>3. SameStrategy(wl', wl)
    BY <2>1, Zenon DEF SameStrategy
  <2>4. StatusInStep(st')
    BY <1>0, <2>1, Zenon
  <2>5. Continues /\ wl'.replicas \in Scales
    BY <1>0, <2>3, SameContinues, Zenon
  <2>6. BlastInv'
    BY <1>0, <2>1, <2>2, <2>4, <2>5, ContinuesKeeps, Zenon
  <2>. QED BY <1>0, <2>3, <2>6, SameNoRaise
<1>. QED BY <1>2, <1>3, <1>4

\* What the webhook's hold changes.
LEMMA HeldIs ==
  ASSUME TypeOK, NEW w
  PROVE  \/ (Held(w) = [w EXCEPT !.own = FALSE, !.knob = Percent(100)] /\ kind = "CloneSet")
         \/ /\ Held(w) = [w EXCEPT !.own = FALSE, !.knob = Unreached]
            /\ kind \in {"StatefulSet", "OrderedStatefulSet", "DaemonSet", "NativeDaemonSet"}
         \/ /\ Held(w) = [w EXCEPT !.paused = TRUE, !.frozen = ~w.own]
            /\ kind = "Deployment"
         \/ (Held(w) = [w EXCEPT !.own = FALSE, !.knob = Unset] /\ kind = "MinReady")
         \/ Held(w) = [w EXCEPT !.paused = TRUE]
<1>1. kind \in AllKinds
  BY KindIsKnown
<1>2. CASE kind = "CloneSet"
  BY <1>2, Zenon DEF Held, StatefulSets, BlueGreenKinds
<1>3. CASE kind \in {"StatefulSet", "OrderedStatefulSet", "DaemonSet", "NativeDaemonSet"}
  BY <1>3, Zenon DEF Held, StatefulSets, BlueGreenKinds
<1>4. CASE kind = "Deployment"
  BY <1>4, Zenon DEF Held, StatefulSets, BlueGreenKinds
<1>5. CASE kind = "MinReady"
  BY <1>5, Zenon DEF Held, StatefulSets, BlueGreenKinds
<1>6. CASE kind \in {"BGCloneSet", "BGDeployment", "Canary"}
  BY <1>6, Zenon DEF Held, StatefulSets, BlueGreenKinds
<1>. QED
  BY <1>1, <1>2, <1>3, <1>4, <1>5, <1>6, Zenon
  DEF AllKinds, PartitionKinds, StableKnob, StatefulSets, BlueGreenKinds

\* The edits of the BatchRelease keep the invariant and raise nothing.
LEMMA PlanEditsBlast ==
  ASSUME BlastInv, TypeOK',
         Advance \/ Finish \/ Delete \/ Replan \/ (\E wait \in BOOLEAN : Cancel(wait))
  PROVE  BlastInv' /\ BlastStep
<1>0. /\ TypeOK /\ plan \in BatchReleases /\ st \in Statuses /\ ~plan.anno /\ StatusInStep(st)
      /\ wl.replicas \in Scales
  BY DEF BlastInv, TypeOK
<1>1. ASSUME NEW p, Edit(p), UNCHANGED <<kind, wl>>, p.anno = plan.anno,
             p.part # Nil =>
               plan.part # Nil /\ (plan.deleting \/ ~plan.exists => p.deleting \/ ~p.exists)
      PROVE  BlastInv' /\ BlastStep
  <2>1. plan' = p /\ st' = [st EXCEPT !.seen = FALSE] /\ kind' = kind /\ wl' = wl
    BY <1>1 DEF Edit
  <2>2. StatusInStep(st') /\ st'.phase = st.phase
    BY <1>0, <2>1, SeenInStep
  <2>3. SameStrategy(wl', wl)
    BY <2>1, Zenon DEF SameStrategy
  <2>4. BlastStep
    BY <1>0, <2>3, SameNoRaise
  <2>5. kind # "Canary" => wl'.copy.size = 0
    BY <2>1 DEF BlastInv
  <2>6. plan'.part # Nil =>
          /\ Secured(wl')
          /\ st'.phase = "Finalizing" => plan'.deleting \/ ~wl'.exists \/ ~plan'.exists
    BY <1>1, <2>1, <2>2, Zenon DEF BlastInv
  <2>7. ~plan'.anno /\ wl'.replicas \in Scales
    BY <1>0, <1>1, <2>1
  <2>8. BlastInv'
    BY <2>1, <2>2, <2>5, <2>6, <2>7, BlastKept, Zenon
  <2>. QED BY <2>4, <2>8
<1>2. CASE Advance
  <2>. DEFINE p == [plan EXCEPT !.part = @ + 1]
  <2>1. p.anno = plan.anno /\ p.exists = plan.exists /\ p.deleting = plan.deleting
    BY <1>0 DEF BatchReleases
  <2>2. plan.part # Nil /\ Edit(p) /\ UNCHANGED <<kind, wl>>
    BY <1>2 DEF Advance, BatchReported
  <2>. HIDE DEF p
  <2>. QED BY <1>1, <2>1, <2>2
<1>3. CASE Finish
  <2>. DEFINE p == [plan EXCEPT !.part = Nil, !.wait = TRUE]
  <2>1. p.anno = plan.anno /\ p.part = Nil
    BY <1>0 DEF BatchReleases
  <2>2. Edit(p) /\ UNCHANGED <<kind, wl>>
    BY <1>3 DEF Finish
  <2>. HIDE DEF p
  <2>. QED BY <1>1, <2>1, <2>2
<1>4. CASE Delete
  <2>. DEFINE p == [plan EXCEPT !.deleting = TRUE]
              q == [plan EXCEPT !.exists = FALSE]
  <2>1. /\ p.anno = plan.anno /\ p.part = plan.part /\ p.deleting
        /\ q.anno = plan.anno /\ q.part = plan.part /\ ~q.exists
    BY <1>0 DEF BatchReleases
  <2>2. (Edit(p) \/ Edit(q)) /\ UNCHANGED <<kind, wl>>
    BY <1>4 DEF Delete
  <2>. HIDE DEF p, q
  <2>. QED BY <1>1, <2>1, <2>2
<1>5. CASE Replan
  <2>1. PICK b \in Plans \ {plan.batches} : \E k \in 0..Below(plan.part, Len(b) - 1) :
               Edit([plan EXCEPT !.batches = b, !.part = k])
    BY <1>5, Zenon DEF Replan
  <2>2. PICK k \in 0..Below(plan.part, Len(b) - 1) : Edit([plan EXCEPT !.batches = b, !.part = k])
    BY <2>1
  <2>. DEFINE p == [plan EXCEPT !.batches = b, !.part = k]
  <2>3. p.anno = plan.anno /\ p.exists = plan.exists /\ p.deleting = plan.deleting
    BY <1>0 DEF BatchReleases
  <2>4. Edit(p)
    BY <2>2
  <2>5. plan.part # Nil /\ UNCHANGED <<kind, wl>>
    BY <1>5 DEF Replan
  <2>. HIDE DEF p
  <2>. QED BY <1>1, <2>3, <2>4, <2>5
<1>6. ASSUME NEW wait \in BOOLEAN, Cancel(wait)
      PROVE  BlastInv' /\ BlastStep
  <2>. DEFINE p == [plan EXCEPT !.part = Nil, !.wait = wait]
  <2>1. p.anno = plan.anno /\ p.part = Nil
    BY <1>0 DEF BatchReleases
  <2>2. Edit(p) /\ UNCHANGED <<kind, wl>>
    BY <1>6 DEF Cancel
  <2>. HIDE DEF p
  <2>. QED BY <1>1, <2>1, <2>2
<1>. QED BY <1>2, <1>3, <1>4, <1>5, <1>6

\* Neither do the other steps of the rollout controller and the user raise
\* anything.
LEMMA EnvironmentBlast ==
  ASSUME BlastInv, TypeOK', Environment, "rollback" \notin Ops
  PROVE  BlastInv' /\ BlastStep
<1>0. /\ TypeOK /\ plan \in BatchReleases /\ st \in Statuses /\ wl \in Workloads /\ ~plan.anno
      /\ StatusInStep(st) /\ wl.replicas \in Scales /\ wl.copy.size \in Nat
  BY WorkloadFields DEF BlastInv, TypeOK
<1>1. CASE Advance \/ Finish \/ Delete \/ Replan \/ (\E wait \in BOOLEAN : Cancel(wait))
  BY <1>1, PlanEditsBlast
<1>2. ASSUME kind' = kind, plan' = plan, st' = st, Continues, wl'.replicas \in Scales,
             wl'.update # wl.update \/ wl'.replicas # wl.replicas \/ ~wl'.exists
      PROVE  BlastInv' /\ BlastStep
  <2>1. ~plan'.anno /\ StatusInStep(st')
    BY <1>0, <1>2, Zenon
  <2>2. BlastInv'
    BY <1>2, <2>1, ContinuesKeeps, Zenon
  <2>3. BlastStep
    BY <1>2, Zenon DEF BlastStep, Raises
  <2>. QED BY <2>2, <2>3
<1>3. CASE Create
  <2>1. PICK b \in Plans : plan' = Created(b, NextID)
    BY <1>3 DEF Create
  <2>2. ~plan'.anno
    BY <2>1 DEF Created
  <2>3. st' = NoStatus /\ kind' = kind /\ plan.part # Nil
    BY <1>3 DEF Create
  <2>4. StatusInStep(st') /\ st'.phase = ""
    BY <2>3 DEF NoStatus, StatusInStep, NoSpec, Nil
  <2>. DEFINE c == [NoCopy EXCEPT !.expected = wl.copy.expected]
  <2>5. c.size = 0
    BY DEF NoCopy
  <2>6. wl' = [wl EXCEPT !.labels = NoLabels, !.marked = 0, !.markedLabelled = 0, !.copy = c]
    BY <1>3 DEF Create
  <2>. HIDE DEF c
  <2>7. /\ wl'.copy.size = 0
        /\ wl'.own = wl.own /\ wl'.knob = wl.knob /\ wl'.paused = wl.paused
        /\ wl'.owner = wl.owner /\ wl'.frozen = wl.frozen /\ wl'.low = wl.low
        /\ wl'.replicas = wl.replicas /\ wl'.exists = wl.exists
    BY <1>0, <2>5, <2>6 DEF Workloads
  <2>8. Admitted(wl') = Admitted(wl) /\ Admitted(wl) \in Int
    <3>1. Admitted(wl') = Admitted(wl)
      BY <2>7, Zenon DEF Admitted
    <3>. QED BY <1>0, <3>1, AdmittedBounds
  <2>9. BlastStep
    BY <1>0, <2>7, <2>8, NoRaise
  <2>10. BlastInv'
    <3>1. Continues
      BY <2>7, Zenon DEF Continues
    <3>2. wl'.replicas \in Scales
      BY <1>0, <2>7
    <3>. QED BY <2>2, <2>3, <2>4, <3>1, <3>2, ContinuesKeeps
  <2>. QED BY <2>9, <2>10
<1>4. ASSUME NEW r \in Revisions, ChangeTemplate(r)
      PROVE  BlastInv' /\ BlastStep
  <2>. DEFINE h == Held(wl)
              low == IF r = wl.stable THEN pods[r] ELSE 0
  <2>1. wl' = [Patched(h) EXCEPT !.update = r, !.labels = NoLabels, !.marked = 0,
                                 !.markedLabelled = 0, !.low = low]
    BY <1>4 DEF ChangeTemplate
  <2>2. /\ h \in Workloads /\ h.exists = wl.exists /\ h.owner = wl.owner
        /\ h.replicas = wl.replicas /\ h.copy = wl.copy /\ (wl.paused => h.paused)
        /\ kind \in BlueGreenKinds \cup {"Canary", "Deployment"} => h.own = wl.own
    <3>1. h \in Workloads
      BY <1>0, HeldTyped
    <3>2. \/ (h = [wl EXCEPT !.own = FALSE, !.knob = Percent(100)] /\ kind = "CloneSet")
          \/ /\ h = [wl EXCEPT !.own = FALSE, !.knob = Unreached]
             /\ kind \in {"StatefulSet", "OrderedStatefulSet", "DaemonSet", "NativeDaemonSet"}
          \/ h = [wl EXCEPT !.paused = TRUE, !.frozen = ~wl.own]
          \/ (h = [wl EXCEPT !.own = FALSE, !.knob = Unset] /\ kind = "MinReady")
          \/ h = [wl EXCEPT !.paused = TRUE]
      BY <1>0, HeldIs, Zenon
    <3>3. kind \in BlueGreenKinds \cup {"Canary", "Deployment"} =>
            kind \notin {"StatefulSet", "OrderedStatefulSet", "DaemonSet", "NativeDaemonSet",
                          "CloneSet", "MinReady"}
      BY DEF BlueGreenKinds
    <3>. HIDE DEF h
    <3>. QED BY <1>0, <3>1, <3>2, <3>3 DEF Workloads
  <2>. HIDE DEF h, low
  <2>3. /\ wl'.exists = wl.exists /\ wl'.owner = wl.owner /\ wl'.replicas = wl.replicas
        /\ wl'.copy = wl.copy /\ (wl.paused => wl'.paused) /\ wl'.own = h.own /\ wl'.update = r
    BY <2>1, <2>2 DEF Patched, Workloads
  <2>4. r # wl.update /\ kind' = kind /\ plan' = plan /\ st' = st
    BY <1>4 DEF ChangeTemplate
  <2>5. BlastStep
    BY <2>3, <2>4, Zenon DEF BlastStep, Raises
  <2>6. kind # "Canary" => wl'.copy.size = 0
    BY <2>3 DEF BlastInv
  <2>7. plan'.part # Nil => Secured(wl')
    <3>1. plan.part # Nil => Secured(wl)
      BY Zenon DEF BlastInv
    <3>2. kind \in BlueGreenKinds => wl'.own = wl.own
      BY <2>2, <2>3
    <3>. QED BY <2>3, <2>4, <3>1, <3>2, Zenon DEF Secured
  <2>8. plan'.part # Nil /\ st'.phase = "Finalizing"
          => plan'.deleting \/ ~wl'.exists \/ ~plan'.exists
    BY <2>3, <2>4, Zenon DEF BlastInv
  <2>9. ~plan'.anno /\ StatusInStep(st') /\ wl'.replicas \in Scales
    BY <1>0, <2>3, <2>4, Zenon
  <2>10. BlastInv'
    BY <2>4, <2>6, <2>7, <2>8, <2>9, BlastKept, Zenon
  <2>. QED BY <2>5, <2>10
<1>5. CASE Scale
  <2>1. PICK n \in Targets \ {wl.replicas} : wl' = [Patched(wl) EXCEPT !.replicas = n]
    BY <1>5 DEF Scale
  <2>2. /\ wl'.exists = wl.exists /\ wl'.owner = wl.owner /\ wl'.own = wl.own
        /\ wl'.paused = wl.paused /\ wl'.copy = wl.copy /\ wl'.replicas = n
    BY <1>0, <2>1 DEF Patched, Workloads
  <2>3. Continues /\ wl'.replicas \in Scales /\ wl'.replicas # wl.replicas
    BY <2>1, <2>2 DEF Continues, Scales
  <2>4. kind' = kind /\ plan' = plan /\ st' = st
    BY <1>5 DEF Scale
  <2>. QED BY <1>2, <2>3, <2>4
<1>6. CASE WorkloadDeleted
  <2>1. /\ wl' = [wl EXCEPT !.exists = FALSE] /\ kind' = kind /\ plan' = plan /\ st' = st
    BY <1>6 DEF WorkloadDeleted
  <2>2. /\ wl'.exists = FALSE /\ wl'.owner = wl.owner /\ wl'.own = wl.own
        /\ wl'.paused = wl.paused /\ wl'.copy = wl.copy /\ wl'.replicas = wl.replicas
    BY <1>0, <2>1 DEF Workloads
  <2>3. Continues /\ wl'.replicas \in Scales
    BY <1>0, <2>2 DEF Continues
  <2>. QED BY <1>2, <2>1, <2>2, <2>3
<1>7. CASE RollbackInBatches
  BY <1>7 DEF RollbackInBatches
<1>. QED BY <1>1, <1>3, <1>4, <1>5, <1>6, <1>7 DEF Environment

\* Nor do the steps of the workload's own controllers.
LEMMA WorkloadBlast ==
  ASSUME BlastInv, TypeOK', WorkloadStep \/ Fault
  PROVE  BlastInv' /\ BlastStep
<1>0. /\ TypeOK /\ wl \in Workloads /\ ~plan.anno /\ StatusInStep(st) /\ wl.replicas \in Scales
      /\ wl.copy \in Copies /\ wl.copy.size \in Nat /\ wl.low \in Nat /\ wl.replicas \in Nat
      /\ pods \in [Revisions -> Nat] /\ wl.update \in Revisions
  BY WorkloadFields DEF BlastInv, TypeOK
<1>1. kind' = kind /\ plan' = plan /\ st' = st
  BY DEF WorkloadStep, WorkloadObserved, PodUpdated, PodReady, PodAdded, PodRemoved, Promoted,
         OldPodReady, CopyObserved, CopySynced, CopyPodCreated,
         Fault, PodLost, OldPodFails, ExpectationExpires
<1>2. ASSUME Continues, wl'.replicas = wl.replicas PROVE BlastInv'
  <2>1. ~plan'.anno /\ StatusInStep(st') /\ wl'.replicas \in Scales
    BY <1>0, <1>1, <1>2, Zenon
  <2>. QED BY <1>1, <1>2, <2>1, ContinuesKeeps, Zenon
<1>3. ASSUME SameStrategy(wl', wl) PROVE BlastInv' /\ BlastStep
  BY <1>0, <1>2, <1>3, SameContinues, SameNoRaise
<1>4. CASE WorkloadObserved \/ Promoted
  <2>1. SameStrategy(wl', wl)
    BY <1>0, <1>4 DEF WorkloadObserved, Promoted, SameStrategy, Workloads
  <2>. QED BY <1>3, <2>1
<1>5. CASE PodUpdated \/ PodReady \/ PodLost \/ PodAdded \/ OldPodFails \/ OldPodReady
  <2>1. wl' = wl
    BY <1>5 DEF PodUpdated, PodReady, PodLost, PodAdded, OldPodFails, OldPodReady
  <2>. QED BY <1>3, <2>1, Zenon DEF SameStrategy
<1>6. CASE CopyObserved
  <2>. DEFINE c == [wl.copy EXCEPT !.seen = wl.copy.made > 0, !.expected = "none"]
  <2>1. c.size = wl.copy.size
    BY <1>0 DEF Copies
  <2>2. wl' = [wl EXCEPT !.copy = c]
    BY <1>0, <1>6 DEF CopyObserved, Workloads
  <2>. HIDE DEF c
  <2>3. SameStrategy(wl', wl)
    BY <1>0, <2>1, <2>2 DEF SameStrategy, Workloads
  <2>. QED BY <1>3, <2>3
<1>7. CASE CopyPodCreated
  <2>. DEFINE c == [wl.copy EXCEPT !.pods = wl.copy.pods + 1]
  <2>1. c.size = wl.copy.size
    BY <1>0 DEF Copies
  <2>2. wl' = [wl EXCEPT !.copy = c]
    BY <1>0, <1>7 DEF CopyPodCreated, Workloads
  <2>. HIDE DEF c
  <2>3. SameStrategy(wl', wl)
    BY <1>0, <2>1, <2>2 DEF SameStrategy, Workloads
  <2>. QED BY <1>3, <2>3
<1>8. CASE PodRemoved
  <2>1. PICK labels, n :
          \/ wl' = wl
          \/ wl' = [wl EXCEPT !.labels = labels, !.low = Below(@, n), !.marked = Below(@, n),
                              !.markedLabelled = Below(@, n)]
    BY <1>8, Zenon DEF PodRemoved
  <2>2. CASE wl' = wl
    BY <1>3, <2>2, Zenon DEF SameStrategy
  <2>3. CASE wl' = [wl EXCEPT !.labels = labels, !.low = Below(@, n), !.marked = Below(@, n),
                              !.markedLabelled = Below(@, n)]
    <3>1. /\ wl'.own = wl.own /\ wl'.knob = wl.knob /\ wl'.paused = wl.paused
          /\ wl'.owner = wl.owner /\ wl'.frozen = wl.frozen /\ wl'.low = Below(wl.low, n)
          /\ wl'.replicas = wl.replicas /\ wl'.exists = wl.exists /\ wl'.copy = wl.copy
      BY <1>0, <2>3 DEF Workloads
    <3>2. BlastInv'
      <4>1. Continues
        BY <3>1, Zenon DEF Continues
      <4>. QED BY <1>2, <3>1, <4>1
    <3>3. wl'.low \in Nat
      BY WorkloadFields DEF TypeOK
    <3>4. wl'.low <= wl.low
      BY <1>0, <3>1, <3>3 DEF Below
    <3>5. Admitted(wl') <= Admitted(wl)
      <4>0. Admitted(wl) \in Int
        BY <1>0, AdmittedBounds
      <4>1. CASE kind # "OrderedStatefulSet"
        <5>1. CASE kind \in {"CloneSet", "DaemonSet", "StatefulSet", "NativeDaemonSet"}
          <6>1. Admitted(wl') = Admitted(wl)
            BY <3>1, <5>1, AdmittedIs, Zenon
          <6>. QED BY <4>0, <6>1
        <5>2. CASE kind \in {"Deployment", "MinReady"}
          <6>1. Admitted(wl') = Admitted(wl)
            BY <3>1, <5>2, AdmittedIs, Zenon
          <6>. QED BY <4>0, <6>1
        <5>3. CASE kind \in BlueGreenKinds \/ kind = "Canary"
          <6>1. Admitted(wl') = Admitted(wl)
            BY <3>1, <5>3, AdmittedIs, Zenon
          <6>. QED BY <4>0, <6>1
        <5>. QED BY <1>0, <4>1, <5>1, <5>2, <5>3, KindIsKnown
      <4>2. CASE kind = "OrderedStatefulSet" /\ wl.own
        <5>1. Admitted(wl') = Admitted(wl)
          BY <3>1, <4>2, AdmittedIs, Zenon
        <5>. QED BY <4>0, <5>1
      <4>3. CASE kind = "OrderedStatefulSet" /\ ~wl.own
        <5>. DEFINE k == wl.knob.n
                    m == wl.replicas
        <5>1. /\ Admitted(wl') = Clamp(m - k, m) + Below(wl'.low, Clamp(k, m))
              /\ Admitted(wl) = Clamp(m - k, m) + Below(wl.low, Clamp(k, m))
          BY <3>1, <4>3, AdmittedIs, Zenon
        <5>2. k \in Int /\ m \in Nat
          BY <1>0, WorkloadFields DEF Knobs, Indexes
        <5>. HIDE DEF k, m
        <5>3. Clamp(m - k, m) \in Int /\ Clamp(k, m) \in Int
          BY <5>2 DEF Clamp, Above, Below
        <5>. QED BY <1>0, <3>3, <3>4, <5>1, <5>3 DEF Below
      <4>4. wl.own \in BOOLEAN
        BY <1>0, WorkloadFields
      <4>. QED BY <4>1, <4>2, <4>3, <4>4
    <3>6. wl'.copy.size <= wl.copy.size
      BY <1>0, <3>1
    <3>. QED BY <1>0, <3>2, <3>5, <3>6, NoRaise
  <2>. QED BY <2>1, <2>2, <2>3
<1>9. CASE CopySynced
  <2>. DEFINE c == [wl.copy EXCEPT !.synced = TRUE]
  <2>1. c.size = wl.copy.size
    BY <1>0 DEF Copies
  <2>2. wl' = [wl EXCEPT !.copy = c]
    BY <1>0, <1>9 DEF CopySynced, Workloads
  <2>. HIDE DEF c
  <2>3. SameStrategy(wl', wl)
    BY <1>0, <2>1, <2>2 DEF SameStrategy, Workloads
  <2>. QED BY <1>3, <2>3
<1>10. CASE ExpectationExpires
  <2>. DEFINE c == [wl.copy EXCEPT !.expected = "expired"]
  <2>1. c.size = wl.copy.size
    BY <1>0 DEF Copies
  <2>2. wl' = [wl EXCEPT !.copy = c]
    BY <1>0, <1>10 DEF ExpectationExpires, Workloads
  <2>. HIDE DEF c
  <2>3. SameStrategy(wl', wl)
    BY <1>0, <2>1, <2>2 DEF SameStrategy, Workloads
  <2>. QED BY <1>3, <2>3
<1>. QED BY <1>4, <1>5, <1>6, <1>7, <1>8, <1>9, <1>10 DEF WorkloadStep, Fault

\* The invariant holds initially: the webhook holds the release.
LEMMA InitBlast ==
  ASSUME Init
  PROVE  BlastInv
<1>1. TypeOK
  BY InitTyped
<1>2. PICK b \in Plans, id \in RolloutIDs : plan = Created(b, id)
  BY Zenon DEF Init
<1>3. ~plan.anno
  BY <1>2 DEF Created
<1>4. st = NoStatus
  BY DEF Init
<1>5. StatusInStep(st) /\ st.phase = ""
  BY <1>4 DEF NoStatus, StatusInStep, NoSpec, Nil
<1>. DEFINE w(n) == [exists |-> TRUE, replicas |-> n,
                     stable |-> OldRevision, update |-> NewRevision,
                     observed |-> FALSE, owner |-> FALSE, own |-> TRUE, knob |-> Unset, low |-> 0,
                     paused |-> FALSE, frozen |-> FALSE, hpa |-> TRUE,
                     labels |-> NoLabels, marked |-> 0, markedLabelled |-> 0,
                     copy |-> NoCopy]
<1>6. PICK n \in Sizes : wl = Held(w(n))
  BY Zenon DEF Init
<1>. DEFINE v == w(n)
<1>7. /\ v.replicas = n /\ v.owner = FALSE /\ v.own = TRUE /\ v.copy = NoCopy
      /\ DOMAIN v = {"exists", "replicas", "stable", "update", "observed", "owner", "own", "knob",
                     "low", "paused", "frozen", "hpa", "labels", "marked", "markedLabelled",
                     "copy"}
  OBVIOUS
<1>8. wl = Held(v)
  BY <1>6
<1>. HIDE DEF v
<1>9. \/ (wl = [v EXCEPT !.own = FALSE, !.knob = Percent(100)] /\ kind = "CloneSet")
      \/ /\ wl = [v EXCEPT !.own = FALSE, !.knob = Unreached]
         /\ kind \in {"StatefulSet", "OrderedStatefulSet", "DaemonSet", "NativeDaemonSet"}
      \/ (wl = [v EXCEPT !.paused = TRUE, !.frozen = ~v.own] /\ kind = "Deployment")
      \/ (wl = [v EXCEPT !.own = FALSE, !.knob = Unset] /\ kind = "MinReady")
      \/ wl = [v EXCEPT !.paused = TRUE]
  BY <1>1, <1>8, HeldIs, Zenon
<1>10. kind \in BlueGreenKinds \cup {"Canary"} =>
         kind \notin {"StatefulSet", "OrderedStatefulSet", "DaemonSet", "NativeDaemonSet",
                       "CloneSet", "MinReady", "Deployment"}
  BY DEF BlueGreenKinds
<1>11. /\ wl.replicas = n /\ wl.copy = NoCopy /\ wl.owner = FALSE
       /\ kind \in BlueGreenKinds \cup {"Canary"} => wl.own = TRUE /\ wl.paused = TRUE
  BY <1>7, <1>9, <1>10
<1>12. NoCopy.size = 0
  BY DEF NoCopy
<1>13. Secured(wl)
  BY <1>11, Zenon DEF Secured
<1>14. wl.replicas \in Scales /\ wl.copy.size = 0
  BY <1>6, <1>11, <1>12 DEF Scales
<1>. QED BY <1>1, <1>3, <1>5, <1>13, <1>14 DEF BlastInv

\* Every step keeps the invariant and the blast radius.
LEMMA BlastKeeps ==
  ASSUME BlastInv, [Next]_vars, "rollback" \notin Ops, PlansRise, SizesFit
  PROVE  BlastInv' /\ [BlastStep]_vars
<1>0. TypeOK'
  BY TypeStep DEF BlastInv
<1>1. CASE Reconcile \/ RemoveFinalizer \/ ReconcileCrashes
  BY <1>0, <1>1, ControllerBlast
<1>2. CASE Environment
  BY <1>0, <1>2, EnvironmentBlast
<1>3. CASE WorkloadStep \/ Fault
  BY <1>0, <1>3, WorkloadBlast
<1>4. CASE UNCHANGED vars
  <2>1. /\ kind' = kind /\ plan' = plan /\ st' = st /\ wl' = wl
    BY <1>4 DEF vars
  <2>2. BlastInv'
    <3>1. Continues /\ wl'.replicas \in Scales /\ ~plan'.anno /\ StatusInStep(st')
      BY <2>1, Zenon DEF Continues, BlastInv
    <3>. QED BY <1>0, <2>1, <3>1, ContinuesKeeps, Zenon
  <2>. QED BY <1>4, <2>2
<1>. QED BY <1>1, <1>2, <1>3, <1>4 DEF Next

\* The blast radius of a release without rollback in batches: whatever rounds are
\* cut off or repeated, whatever the rollout controller, the user and the
\* workload's controllers do in between, no round lets the workload update more
\* pods than the batch asked for, on a status that is out of date, or to a
\* revision that was not recorded.
THEOREM BlastRadiusHolds ==
  ASSUME "rollback" \notin Ops, PlansRise, SizesFit
  PROVE  Spec => BlastRadius
<1>1. Init => BlastInv
  BY InitBlast
<1>2. BlastInv /\ [Next]_vars => BlastInv' /\ [BlastStep]_vars
  BY BlastKeeps
<1>3. [BlastStep]_vars =>
        [Raises =>
           \/ plan.part = Nil
           \/ kind = "MinReady" /\ plan.deleting
           \/ /\ wl.observed \/ kind = "Canary"
              /\ st.update = wl.update \/ SingleVersion \/ st.kept # Nil
              /\ Above(Admitted(wl'), wl'.copy.size) <= AskedFor(plan.part) + AlreadyThere]_vars
  BY Zenon DEF BlastStep, Justified
<1>. QED BY <1>1, <1>2, <1>3, PTL DEF Spec, BlastRadius

-----------------------------------------------------------------------------
(* What a round may leave of the claim, of the canary copies and of the     *)
(* window: OneCanaryCopy, MinReadyBudget and HandedBack.                    *)

\* A claimed workload does not have its own strategy, and a claimed Deployment
\* is paused; only blue-green releases touch the autoscaler; a canary copy that
\* the cache has not seen yet has an expectation, perhaps one that timed out.
Sound(w) ==
  /\ kind # "Canary" => ~(w.own /\ w.owner)
  /\ kind = "Deployment" /\ w.owner => w.paused
  /\ kind \notin BlueGreenKinds => w.hpa
  /\ w.copy.made > 0 /\ ~w.copy.seen => w.copy.expected # "none"

SoundInv == TypeOK /\ Sound(wl)

\* When a round may create a copy.
CopyIsDue ==
  \/ wl.copy.made = 0 \/ wl.copy.rev # wl.update
  \/ wl.copy.expected = "expired" /\ ~wl.copy.seen

\* What a round may change at most.
Careful(w) ==
  /\ w.replicas = wl.replicas /\ (kind # "Canary" => w.copy = wl.copy)
  /\ w.copy.made > wl.copy.made => CopyIsDue
  /\ kind = "MinReady" =>
       w.own \/ Admitted(w) <= Admitted(wl) \/ Admitted(w) <= ready + MinReadyStep

Fine == {w \in Workloads : Sound(w) /\ Careful(w)}

\* What Sound and Careful look at.
Alike(v, w) ==
  /\ v.own = w.own /\ v.owner = w.owner /\ v.paused = w.paused /\ v.hpa = w.hpa
  /\ v.knob = w.knob /\ v.replicas = w.replicas /\ v.copy = w.copy

\* Being fine depends on the fields of Alike alone.
LEMMA AlikeIsFine ==
  ASSUME NEW v \in Workloads, NEW w \in Fine, Alike(v, w)
  PROVE  v \in Fine
<1>1. kind = "MinReady" => Admitted(v) = Admitted(w)
  BY AdmittedIs, Zenon DEF Alike
<1>2. Sound(w) /\ Careful(w)
  BY DEF Fine
<1>3. Sound(v)
  BY <1>2, Zenon DEF Sound, Alike
<1>4. Careful(v)
  BY <1>1, <1>2, Zenon DEF Careful, Alike
<1>. QED BY <1>3, <1>4, Zenon DEF Fine

\* A workload that is left as it is is fine.
LEMMA ItselfIsFine ==
  ASSUME SoundInv
  PROVE  wl \in Fine
<1>1. wl \in Workloads /\ TypeOK
  BY DEF SoundInv, TypeOK
<1>2. Admitted(wl) \in Int /\ wl.copy.made \in Nat
  BY <1>1, AdmittedBounds, WorkloadFields
<1>. QED BY <1>1, <1>2 DEF SoundInv, Careful, Fine

\* Not the canary style: the copy stays as it is.
LEMMA FineIf ==
  ASSUME SoundInv, NEW w \in Workloads, w.replicas = wl.replicas, w.copy = wl.copy,
         kind # "Canary", ~(w.own /\ w.owner), kind = "Deployment" /\ w.owner => w.paused,
         kind \notin BlueGreenKinds => w.hpa = wl.hpa,
         kind = "MinReady" =>
           w.own \/ Admitted(w) <= Admitted(wl) \/ Admitted(w) <= ready + MinReadyStep
  PROVE  w \in Fine
<1>1. wl.copy.made \in Nat
  BY WorkloadFields DEF SoundInv, TypeOK
<1>2. ~(w.copy.made > wl.copy.made)
  BY <1>1
<1>3. Sound(w)
  BY Zenon DEF Sound, SoundInv
<1>. QED BY <1>2, <1>3, Zenon DEF Fine, Careful

\* The fields of a record after an update of others.
LEMMA ClaimedFields ==
  ASSUME NEW w \in Workloads
  PROVE  LET p == Patched(w) IN
           /\ p \in Workloads /\ Alike(p, w)
           /\ \A k \in Knobs, f \in BOOLEAN :
                LET v == [p EXCEPT !.owner = TRUE, !.own = FALSE, !.paused = f, !.knob = k] IN
                  /\ v.own = FALSE /\ v.owner = TRUE /\ v.paused = f /\ v.knob = k
                  /\ v.hpa = w.hpa /\ v.copy = w.copy /\ v.replicas = w.replicas
<1>. DEFINE p == Patched(w)
<1>1. p \in Workloads
  BY PatchedTyped
<1>2. Alike(p, w)
  BY <1>1 DEF Patched, Alike, Workloads
<1>. HIDE DEF p
<1>3. \A k \in Knobs, f \in BOOLEAN :
        LET v == [p EXCEPT !.owner = TRUE, !.own = FALSE, !.paused = f, !.knob = k] IN
          /\ v.own = FALSE /\ v.owner = TRUE /\ v.paused = f /\ v.knob = k
          /\ v.hpa = p.hpa /\ v.copy = p.copy /\ v.replicas = p.replicas
  BY <1>1 DEF Workloads
<1>. QED BY <1>1, <1>2, <1>3, Zenon DEF p, Alike

\* A MinReady Deployment with a window of none admits no pods.
LEMMA NoKnobAdmitsNone ==
  ASSUME kind = "MinReady", NEW w \in Workloads, ~w.own, w.knob = Unset
  PROVE  Admitted(w) = 0
<1>1. Scaled(Unset, w.replicas, TRUE) = 0
  BY DEF Scaled, Unset, Int32
<1>2. Admitted(w) = Clamp(0, w.replicas)
  BY <1>1, AdmittedIs, Zenon
<1>3. w.replicas \in Nat
  BY WorkloadFields
<1>. QED BY <1>2, <1>3 DEF Clamp, Above, Below

\* Claiming opens no window and pauses a Deployment.
LEMMA ClaimIsFine ==
  ASSUME SoundInv, kind \in PartitionKinds
  PROVE  ClaimPartition(wl) \in Fine
<1>0. /\ TypeOK /\ wl \in Workloads /\ kind # "Canary" /\ wl.owner \in BOOLEAN
      /\ ready \in Nat /\ MinReadyStep \in Nat /\ wl \in Fine
  BY ItselfIsFine, WorkloadFields, StepAssumption
  DEF SoundInv, TypeOK, PartitionKinds, StableKnob, StatefulSets
<1>. DEFINE w == ClaimPartition(wl)
            p == Patched(wl)
<1>1. w \in Workloads
  BY <1>0, ClaimPartitionTyped
<1>2. p \in Workloads /\ Alike(p, wl)
  BY <1>0, ClaimedFields
<1>3. CASE kind \in {"CloneSet", "DaemonSet", "StatefulSet", "OrderedStatefulSet"}
  <2>1. PICK k \in Knobs : w = Claim(wl, k)
    <3>1. Int32(wl.replicas) \in Knobs
      BY <1>0, WorkloadFields, KnobIsTyped
    <3>. QED BY <1>3, <3>1, KnobsOfTheCode, Zenon
         DEF ClaimPartition, ClaimCloneSet, ClaimDaemonSet, ClaimStatefulSet, StatefulSets
  <2>2. w = wl \/ w = [p EXCEPT !.owner = TRUE, !.own = FALSE, !.paused = FALSE, !.knob = k]
    BY <2>1, Zenon DEF Claim
  <2>. HIDE DEF w, p
  <2>3. w # wl => /\ w.own = FALSE /\ w.hpa = wl.hpa /\ w.copy = wl.copy
                  /\ w.replicas = wl.replicas
    <3>1. w # wl => /\ w.own = FALSE /\ w.hpa = p.hpa /\ w.copy = p.copy
                    /\ w.replicas = p.replicas
      BY <1>2, <2>2 DEF Workloads
    <3>. QED BY <1>2, <3>1, Zenon DEF Alike
  <2>4. w # wl => w \in Fine
    <3>1. kind # "MinReady" /\ kind # "Deployment"
      BY <1>3
    <3>. QED BY <1>0, <1>1, <2>3, <3>1, FineIf
  <2>. QED BY <1>0, <2>4 DEF w
<1>4. CASE kind = "NativeDaemonSet"
  <2>1. w = wl \/ w = [p EXCEPT !.owner = TRUE, !.own = FALSE]
    BY <1>4, Zenon DEF ClaimPartition, ClaimNativeDaemonSet, StatefulSets
  <2>. HIDE DEF w, p
  <2>2. w # wl => /\ w.own = FALSE /\ w.hpa = wl.hpa /\ w.copy = wl.copy
                  /\ w.replicas = wl.replicas
    BY <1>2, <2>1 DEF Workloads, Alike
  <2>3. w # wl => w \in Fine
    <3>1. kind # "MinReady" /\ kind # "Deployment"
      BY <1>4
    <3>. QED BY <1>0, <1>1, <2>2, <3>1, FineIf
  <2>. QED BY <1>0, <2>3 DEF w
<1>5. CASE kind = "Deployment"
  <2>1. w = wl \/ w = [p EXCEPT !.owner = TRUE, !.own = FALSE, !.paused = TRUE,
                                !.frozen = FALSE, !.knob = Unset]
    BY <1>5, Zenon DEF ClaimPartition, ClaimDeployment, StatefulSets
  <2>. HIDE DEF w, p
  <2>2. w # wl => /\ w.own = FALSE /\ w.paused = TRUE /\ w.hpa = wl.hpa /\ w.copy = wl.copy
                  /\ w.replicas = wl.replicas
    <3>1. w # wl => /\ w.own = FALSE /\ w.paused = TRUE /\ w.hpa = p.hpa /\ w.copy = p.copy
                    /\ w.replicas = p.replicas
      BY <1>2, <2>1 DEF Workloads
    <3>. QED BY <1>2, <3>1, Zenon DEF Alike
  <2>3. w # wl => w \in Fine
    BY <1>0, <1>1, <1>5, <2>2, FineIf
  <2>. QED BY <1>0, <2>3 DEF w
<1>6. CASE kind = "MinReady"
  <2>. DEFINE v == [wl EXCEPT !.owner = TRUE, !.own = FALSE, !.paused = FALSE, !.knob = Unset]
  <2>1. w = wl \/ w = Patched(v)
    BY <1>6, Zenon DEF ClaimPartition, ClaimMinReady, Change, StatefulSets
  <2>2. /\ v.own = FALSE /\ v.hpa = wl.hpa /\ v.copy = wl.copy /\ v.replicas = wl.replicas
        /\ v.knob = Unset
    BY <1>0 DEF Workloads
  <2>3. v \in Workloads
    BY <1>0, KnobsOfTheCode DEF Workloads, Flags
  <2>. HIDE DEF v, w
  <2>4. CASE w = Patched(v)
    <3>1. Alike(w, v)
      BY <2>3, <2>4, ClaimedFields
    <3>2. /\ w.own = FALSE /\ w.hpa = wl.hpa /\ w.copy = wl.copy /\ w.replicas = wl.replicas
          /\ w.knob = Unset
      BY <2>2, <3>1, Zenon DEF Alike
    <3>3. Admitted(w) = 0
      BY <1>1, <1>6, <3>2, NoKnobAdmitsNone
    <3>4. Admitted(w) <= ready + MinReadyStep
      BY <1>0, <3>3
    <3>. QED BY <1>0, <1>1, <1>6, <3>2, <3>4, FineIf DEF w
  <2>. QED BY <1>0, <2>1, <2>4 DEF w
<1>. QED BY <1>0, <1>3, <1>4, <1>5, <1>6, KindIsKnown

\* The window is opened to what is ready and the user's maxUnavailable, or closed.
LEMMA WindowIsFine ==
  ASSUME SoundInv, kind = "MinReady", NEW target \in Int
  PROVE  LET w0 == IF wl.own THEN [Patched(wl) EXCEPT !.own = FALSE, !.knob = Unset] ELSE wl
         IN  Window(w0, target) \in Fine
<1>. DEFINE p == Patched(wl)
            w0 == IF wl.own THEN [p EXCEPT !.own = FALSE, !.knob = Unset] ELSE wl
            w == Window(w0, target)
            n == wl.replicas
            current == Scaled(w0.knob, w0.replicas, TRUE)
            next == Below(ready + MinReadyStep, target)
<1>0. /\ TypeOK /\ wl \in Workloads /\ wl.own \in BOOLEAN /\ ready \in Nat
      /\ MinReadyStep \in Nat /\ wl \in Fine /\ n \in Nat
      /\ Admitted(wl) \in Int /\ ~(wl.own /\ wl.owner)
  BY ItselfIsFine, WorkloadFields, StepAssumption, AdmittedBounds DEF SoundInv, TypeOK, Sound
<1>1. p \in Workloads /\ Alike(p, wl)
  BY <1>0, ClaimedFields
<1>. HIDE DEF p
<1>2. /\ w0 \in Workloads /\ w0.own = FALSE /\ w0.hpa = wl.hpa /\ w0.copy = wl.copy
      /\ w0.replicas = n /\ w0.knob \in Knobs
  <2>1. CASE wl.own
    BY <1>1, <2>1, KnobsOfTheCode DEF Workloads, Alike, Flags
  <2>2. CASE ~wl.own
    BY <1>0, <2>2, WorkloadFields
  <2>. QED BY <1>0, <2>1, <2>2
<1>3. (wl.own /\ w0.knob = Unset) \/ w0 = wl
  <2>1. wl.own => w0.knob = Unset
    BY <1>1 DEF Workloads
  <2>. QED BY <1>0, <2>1, Zenon
<1>4. wl.own => Admitted(w0) = 0
  BY <1>2, <1>3, NoKnobAdmitsNone, Zenon
<1>5. w0 \in Fine
  <2>1. CASE wl.own
    <3>1. Admitted(w0) <= ready + MinReadyStep
      BY <1>0, <1>4, <2>1
    <3>. HIDE DEF w0
    <3>. QED BY <1>2, <3>1, FineIf
  <2>2. CASE ~wl.own
    BY <1>0, <2>2
  <2>. QED BY <1>0, <2>1, <2>2
<1>. HIDE DEF w0
<1>6. current \in Int /\ next \in Int /\ next <= ready + MinReadyStep
  <2>1. current \in Int
    <3>1. w0.replicas \in Int
      BY <1>0, <1>2
    <3>. QED BY <1>2, <3>1, ScaledIsInt
  <2>2. next \in Int /\ next <= ready + MinReadyStep
    BY <1>0 DEF Below
  <2>. QED BY <2>1, <2>2
<1>7. w \in Workloads
  BY <1>0, <1>2, WindowTyped
<1>8. \/ w = w0
      \/ (w = [Patched(w0) EXCEPT !.knob = Int32(target)] /\ current > target)
      \/ w = [Patched(w0) EXCEPT !.knob = Int32(next)]
  <2>1. CASE current > target
    <3>1. ~(current < target)
      <4>. HIDE DEF current
      <4>. QED BY <1>6, <2>1
    <3>2. Window(w0, target) = [Patched(w0) EXCEPT !.knob = Int32(target)]
      BY <2>1, <3>1, Zenon DEF Window
    <3>. QED BY <2>1, <3>2, Zenon
  <2>2. CASE ~(current > target)
    BY <2>2, Zenon DEF Window
  <2>. QED BY <2>1, <2>2
<1>. HIDE DEF w, current, next
<1>9. ASSUME NEW x \in Int, w = [Patched(w0) EXCEPT !.knob = Int32(x)],
             x <= ready + MinReadyStep \/ x < current
      PROVE  w \in Fine
  <2>1. Patched(w0) \in Workloads /\ Alike(Patched(w0), w0)
    BY <1>2, ClaimedFields
  <2>2. /\ w.own = FALSE /\ w.hpa = wl.hpa /\ w.copy = wl.copy /\ w.replicas = n
        /\ w.knob = Int32(x)
    BY <1>2, <1>9, <2>1 DEF Workloads, Alike
  <2>3. Scaled(Int32(x), n, TRUE) = x
    BY DEF Scaled, Int32
  <2>4. Admitted(w) = Clamp(x, n)
    BY <2>2, <2>3, AdmittedIs, Zenon
  <2>5. Admitted(w0) = Clamp(current, n)
    BY <1>2, AdmittedIs, Zenon DEF current
  <2>6. Admitted(w) <= ready + MinReadyStep \/ Admitted(w) <= Admitted(w0)
    <3>1. CASE x <= ready + MinReadyStep
      BY <1>0, <2>4, <3>1 DEF Clamp, Above, Below
    <3>2. CASE x < current
      BY <1>0, <1>6, <2>4, <2>5, <3>2 DEF Clamp, Above, Below
    <3>. QED BY <1>9, <3>1, <3>2
  <2>7. Admitted(w) <= ready + MinReadyStep \/ Admitted(w) <= Admitted(wl)
    <3>0. Admitted(w) \in Int
      BY <1>0, <1>7, AdmittedBounds
    <3>1. CASE wl.own
      BY <1>0, <1>4, <2>6, <3>0, <3>1
    <3>2. CASE ~wl.own
      BY <1>3, <2>6, <3>2
    <3>. QED BY <1>0, <3>1, <3>2
  <2>. QED BY <1>7, <2>2, <2>7, FineIf
<1>10. w \in Fine
  BY <1>5, <1>6, <1>8, <1>9
<1>. QED BY <1>10 DEF w, w0, p

\* Raising a batch opens the window within the budget.
LEMMA RaiseIsFine ==
  ASSUME SoundInv, kind \in PartitionKinds, NEW ctx \in Contexts
  PROVE  Raise(wl, ctx) \in Fine
<1>. DEFINE w == Raise(wl, ctx)
            p == Patched(wl)
<1>0. /\ TypeOK /\ wl \in Workloads /\ wl \in Fine /\ ctx.desired \in Int /\ kind # "Canary"
      /\ Sound(wl)
  BY ItselfIsFine DEF SoundInv, TypeOK, Contexts, PartitionKinds, StableKnob, StatefulSets
<1>1. w \in Workloads
  BY <1>0, RaiseTyped
<1>2. p \in Workloads /\ Alike(p, wl)
  BY <1>0, ClaimedFields
<1>3. CASE kind # "MinReady"
  <2>1. \/ w = wl \/ w = [p EXCEPT !.knob = ctx.knob] \/ w = [wl EXCEPT !.knob = ctx.knob]
    BY <1>0, <1>3, KindIsKnown, Zenon
    DEF Raise, StatefulSets, UpgradeCloneSet, UpgradeDaemonSet, UpgradeStatefulSet,
        UpgradeNativeDaemonSet, UpgradeDeployment, Lower
  <2>. HIDE DEF w, p
  <2>2. /\ w.own = wl.own /\ w.owner = wl.owner /\ w.paused = wl.paused /\ w.hpa = wl.hpa
        /\ w.copy = wl.copy /\ w.replicas = wl.replicas
    BY <1>0, <1>2, <2>1 DEF Workloads, Alike
  <2>3. ~(w.own /\ w.owner) /\ (kind = "Deployment" /\ w.owner => w.paused)
    BY <1>0, <2>2, Zenon DEF Sound
  <2>4. w \in Fine
    BY <1>0, <1>1, <1>3, <2>2, <2>3, FineIf
  <2>. QED BY <2>4 DEF w
<1>4. CASE kind = "MinReady"
  <2>1. w = Window(IF wl.own THEN [Patched(wl) EXCEPT !.own = FALSE, !.knob = Unset] ELSE wl,
                   ctx.desired)
    BY <1>4, Zenon DEF Raise, UpgradeMinReady, StatefulSets
  <2>. QED BY <1>0, <1>4, <2>1, WindowIsFine
<1>. QED BY <1>3, <1>4

\* Labelling pods changes nothing that matters here.
LEMMA PatchPodsIsFine ==
  ASSUME TypeOK, NEW w \in Fine, w.replicas # 0, NEW s \in Statuses, s.batch < Len(plan.batches)
  PROVE  PatchPods(w, s) \in Fine
<1>0. w \in Workloads
  BY DEF Fine
<1>1. PICK labels, n : PatchPods(w, s) = [w EXCEPT !.labels = labels, !.markedLabelled = n]
  BY <1>0, PatchPodsTyped
<1>2. PatchPods(w, s) \in Workloads
  BY <1>0, PatchPodsTyped
<1>3. Alike(PatchPods(w, s), w)
  BY <1>0, <1>1 DEF Alike, Workloads
<1>. QED BY <1>2, <1>3, AlikeIsFine

\* Both workloads of a result are fine.
FineResult(r) == r.w \in Fine /\ r.mid \in Fine

\* A result of fine workloads is a fine one.
LEMMA FineResultOf ==
  ASSUME NEW w \in Fine, NEW m \in Fine, NEW s, NEW ok
  PROVE  FineResult(Result(w, s, ok)) /\ FineResult([Result(w, s, ok) EXCEPT !.mid = m])
<1>1. /\ Result(w, s, ok).w = w /\ Result(w, s, ok).mid = w
      /\ [Result(w, s, ok) EXCEPT !.mid = m].w = w /\ [Result(w, s, ok) EXCEPT !.mid = m].mid = m
  BY DEF Result
<1>. QED BY <1>1, Zenon DEF FineResult

\* Initialize creates a copy only when none of the template is there or on its
\* way.
LEMMA InitializeIsFine ==
  ASSUME SoundInv
  PROVE  FineResult(Initialize(wl, st))
<1>0. /\ TypeOK /\ wl \in Workloads /\ wl \in Fine /\ Sound(wl) /\ wl.exists \in BOOLEAN
      /\ wl.owner \in BOOLEAN /\ plan.anno \in BOOLEAN
  BY ItselfIsFine, WorkloadFields, PlanFields DEF SoundInv, TypeOK
<1>1. \A s, ok : FineResult(Result(wl, s, ok))
  BY <1>0, FineResultOf
<1>2. CASE ~wl.exists
  BY <1>1, <1>2, Zenon DEF Initialize, Failed
<1>3. CASE wl.exists /\ kind \in PartitionKinds
  <2>. DEFINE w1 == ClaimPartition(wl)
              n == pods[wl.update]
              w2 == [w1 EXCEPT !.marked = n]
  <2>1. w1 \in Fine /\ w1 \in Workloads
    BY <1>3, ClaimIsFine DEF Fine
  <2>2. n \in Nat
    <3>1. wl.update \in Revisions
      BY <1>0, WorkloadFields
    <3>. QED BY <1>0, <3>1 DEF TypeOK
  <2>3. \/ \E s, ok : Initialize(wl, st) = Result(w1, s, ok)
        \/ \E s, ok : Initialize(wl, st) = [Result(w2, s, ok) EXCEPT !.mid = w1]
    BY <1>0, <1>3, Zenon DEF Initialize, InitializePartition, PartitionKinds, StableKnob,
                             StatefulSets, BlueGreenKinds
  <2>. HIDE DEF w1, n
  <2>4. w2 \in Workloads /\ Alike(w2, w1)
    BY <2>1, <2>2 DEF Workloads, Alike, Counts
  <2>. HIDE DEF w2
  <2>5. w2 \in Fine
    BY <2>1, <2>4, AlikeIsFine
  <2>6. CASE \E s, ok : Initialize(wl, st) = Result(w1, s, ok)
    <3>1. PICK s, ok : Initialize(wl, st) = Result(w1, s, ok)
      BY <2>6
    <3>. QED BY <2>1, <3>1, FineResultOf
  <2>7. CASE \E s, ok : Initialize(wl, st) = [Result(w2, s, ok) EXCEPT !.mid = w1]
    <3>1. PICK s, ok : Initialize(wl, st) = [Result(w2, s, ok) EXCEPT !.mid = w1]
      BY <2>7
    <3>2. FineResult([Result(w2, s, ok) EXCEPT !.mid = w1])
      BY <2>1, <2>5, FineResultOf
    <3>. QED BY <3>1, <3>2, Zenon
  <2>. QED BY <2>3, <2>6, <2>7
<1>4. CASE wl.exists /\ kind \in BlueGreenKinds
  <2>. DEFINE off == DisableHPA(wl)
              p == Patched(off)
              w1 == [p EXCEPT !.owner = TRUE, !.own = FALSE, !.knob = Int32(1)]
  <2>0. kind # "Canary" /\ kind # "Deployment" /\ kind # "MinReady"
    BY <1>4 DEF BlueGreenKinds
  <2>1. /\ off \in Workloads /\ off.own = wl.own /\ off.owner = wl.owner /\ off.copy = wl.copy
        /\ off.replicas = wl.replicas
    BY <1>0 DEF DisableHPA, Workloads, Flags
  <2>2. off \in Fine
    <3>. HIDE DEF off
    <3>1. ~(off.own /\ off.owner)
      BY <1>0, <2>0, <2>1, Zenon DEF Sound
    <3>. QED BY <1>4, <2>0, <2>1, <3>1, FineIf
  <2>3. p \in Workloads /\ Alike(p, off)
    BY <2>1, ClaimedFields
  <2>4. \/ \E s, ok : Initialize(wl, st) = Result(wl, s, ok)
        \/ \E s, ok : Initialize(wl, st) = [Result(w1, s, ok) EXCEPT !.mid = off]
    BY <1>0, <1>4, Zenon DEF Initialize, InitializeBlueGreen, PartitionKinds, StableKnob,
                             StatefulSets, BlueGreenKinds
  <2>. HIDE DEF off, p
  <2>5. /\ w1 \in Workloads /\ w1.own = FALSE /\ w1.copy = wl.copy /\ w1.replicas = wl.replicas
    BY <2>1, <2>3, KnobsOfTheCode DEF Workloads, Alike, Flags
  <2>. HIDE DEF w1
  <2>6. w1 \in Fine
    BY <1>4, <2>0, <2>5, FineIf
  <2>7. \A s, ok : FineResult([Result(w1, s, ok) EXCEPT !.mid = off])
    BY <2>2, <2>6, FineResultOf
  <2>. QED BY <1>1, <2>4, <2>7
<1>5. CASE wl.exists /\ kind = "Canary"
  <2>. DEFINE w1 == ClaimStable(wl)
              c == [w1.copy EXCEPT !.made = w1.copy.made + 1, !.expected = "waiting",
                                   !.rev = w1.update, !.seen = FALSE, !.synced = FALSE,
                                   !.size = 0, !.pods = 0]
              w2 == CreateCopy(w1)
  <2>1. /\ w1 \in Workloads /\ w1.copy = wl.copy /\ w1.replicas = wl.replicas /\ w1.hpa = wl.hpa
        /\ w1.update = wl.update
    BY <1>0 DEF ClaimStable, Workloads, Flags
  <2>2. /\ wl.copy \in Copies /\ wl.copy.made \in Nat /\ wl.copy.seen \in BOOLEAN
        /\ wl.copy.expected \in Expectations /\ wl.update \in RevisionsOrNone
    BY <1>0, WorkloadFields DEF RevisionsOrNone, Copies, Flags
  <2>3. w1 \in Fine
    <3>. HIDE DEF w1
    <3>1. Sound(w1)
      BY <1>0, <1>5, <2>1, Zenon DEF Sound
    <3>2. Careful(w1)
      BY <1>5, <2>1, <2>2 DEF Careful
    <3>. QED BY <2>1, <3>1, <3>2 DEF Fine
  <2>4. \/ \E s, ok : Initialize(wl, st) = Result(w1, s, ok)
        \/ /\ \E s, ok : Initialize(wl, st) = [Result(w2, s, ok) EXCEPT !.mid = w1]
           /\ ~CopyFound(wl) /\ wl.copy.expected # "waiting"
    BY <1>0, <1>5, <2>2, Zenon DEF Initialize, InitializeCanary, PartitionKinds, StableKnob,
                             StatefulSets, BlueGreenKinds
  <2>5. ASSUME ~CopyFound(wl), wl.copy.expected # "waiting" PROVE w2 \in Fine
    <3>1. CopyIsDue
      <4>1. wl.copy.made > 0 /\ ~wl.copy.seen => wl.copy.expected # "none"
        BY <1>0, Zenon DEF Sound
      <4>2. ~wl.copy.seen \/ wl.copy.rev # wl.update
        BY <2>5, Zenon DEF CopyFound
      <4>. QED BY <2>2, <2>5, <4>1, <4>2 DEF Expectations, CopyIsDue
    <3>2. w2 = [w1 EXCEPT !.copy = c]
      BY Zenon DEF CreateCopy
    <3>. HIDE DEF w1
    <3>3. c \in Copies /\ c.expected # "none"
      <4>1. w1.copy \in Copies /\ w1.copy.made + 1 \in Nat /\ w1.update \in RevisionsOrNone
        BY <2>1, <2>2
      <4>. QED BY <4>1 DEF Copies, Counts, Flags, Expectations
    <3>. HIDE DEF c, w2
    <3>4. w2 \in Workloads /\ w2.copy = c /\ w2.replicas = wl.replicas /\ w2.hpa = wl.hpa
      BY <2>1, <3>2, <3>3 DEF Workloads
    <3>5. Sound(w2)
      BY <1>0, <1>5, <3>3, <3>4, Zenon DEF Sound
    <3>6. Careful(w2)
      BY <1>5, <3>1, <3>4, Zenon DEF Careful
    <3>. QED BY <3>4, <3>5, <3>6 DEF Fine
  <2>. HIDE DEF w1, w2
  <2>6. CASE \E s, ok : Initialize(wl, st) = Result(w1, s, ok)
    <3>1. PICK s, ok : Initialize(wl, st) = Result(w1, s, ok)
      BY <2>6
    <3>. QED BY <2>3, <3>1, FineResultOf
  <2>7. CASE /\ \E s, ok : Initialize(wl, st) = [Result(w2, s, ok) EXCEPT !.mid = w1]
             /\ ~CopyFound(wl) /\ wl.copy.expected # "waiting"
    <3>1. PICK s, ok : Initialize(wl, st) = [Result(w2, s, ok) EXCEPT !.mid = w1]
      BY <2>7
    <3>2. w2 \in Fine
      BY <2>5, <2>7
    <3>3. FineResult([Result(w2, s, ok) EXCEPT !.mid = w1])
      BY <2>3, <3>2, FineResultOf
    <3>. QED BY <3>1, <3>3, Zenon
  <2>. QED BY <2>4, <2>6, <2>7
<1>. QED BY <1>0, <1>2, <1>3, <1>4, <1>5, KindIsKnown

\* UpgradeBatch makes no copy and opens the window within the budget.
LEMMA UpgradeIsFine ==
  ASSUME SoundInv, NEW s \in Statuses, s.batch < Len(plan.batches)
  PROVE  FineResult(UpgradeBatch(wl, s))
<1>0. /\ TypeOK /\ wl \in Workloads /\ wl \in Fine /\ Sound(wl) /\ wl.exists \in BOOLEAN
  BY ItselfIsFine, WorkloadFields DEF SoundInv, TypeOK
<1>1. \A ok : FineResult(Result(wl, s, ok))
  BY <1>0, FineResultOf
<1>2. CASE ~wl.exists \/ wl.replicas = 0
  BY <1>0, <1>1, <1>2, Zenon DEF UpgradeBatch, Failed
<1>3. CASE wl.exists /\ wl.replicas # 0 /\ kind \in PartitionKinds
  <2>. DEFINE s1 == IF plan.rid # 0 /\ s.kept # Nil THEN [s EXCEPT !.kept = wl.marked] ELSE s
              w1 == Raise(wl, BatchContext(wl, s1))
  <2>1. s1 \in Statuses /\ s1.batch = s.batch
    <3>1. wl.marked \in Int
      BY <1>0, WorkloadFields
    <3>. QED BY <3>1, KeptTyped DEF Statuses
  <2>2. UpgradeBatch(wl, s) = [Result(PatchPods(w1, s1), s1, TRUE) EXCEPT !.mid = w1]
    <3>1. UpgradeBatch(wl, s) = UpgradePartition(wl, s)
      BY <1>3, Zenon DEF UpgradeBatch, PartitionKinds, StableKnob, StatefulSets, BlueGreenKinds
    <3>. QED BY <3>1, Zenon DEF UpgradePartition
  <2>. HIDE DEF s1
  <2>3. w1 \in Fine
    BY <1>0, <1>3, <2>1, ContextIsTyped, RaiseIsFine
  <2>4. w1.replicas # 0
    BY <1>3, <2>3 DEF Fine, Careful
  <2>. HIDE DEF w1
  <2>5. PatchPods(w1, s1) \in Fine
    BY <1>0, <2>1, <2>3, <2>4, PatchPodsIsFine
  <2>. HIDE DEF w1
  <2>6. FineResult([Result(PatchPods(w1, s1), s1, TRUE) EXCEPT !.mid = w1])
    BY <2>3, <2>5, FineResultOf
  <2>. QED BY <2>2, <2>6, Zenon
<1>4. CASE wl.exists /\ wl.replicas # 0 /\ kind \in BlueGreenKinds
  <2>. DEFINE v == [wl EXCEPT !.knob = BatchContext(wl, s).knob, !.paused = FALSE]
              w1 == Change(wl, v)
  <2>0. kind # "Canary" /\ kind # "Deployment" /\ kind # "MinReady"
    BY <1>4 DEF BlueGreenKinds
  <2>1. BatchContext(wl, s).knob \in Knobs
    BY <1>0, <1>4, ContextIsTyped DEF Contexts
  <2>2. UpgradeBatch(wl, s) = UpgradeBlueGreen(wl, s)
    BY <1>4, Zenon DEF UpgradeBatch, PartitionKinds, StableKnob, StatefulSets, BlueGreenKinds
  <2>3. \/ UpgradeBlueGreen(wl, s) = Result(wl, s, FALSE)
        \/ UpgradeBlueGreen(wl, s) = Result(wl, s, TRUE)
        \/ UpgradeBlueGreen(wl, s) = Result(w1, s, TRUE)
    BY Zenon DEF UpgradeBlueGreen
  <2>4. /\ v \in Workloads /\ v.own = wl.own /\ v.owner = wl.owner /\ v.copy = wl.copy
        /\ v.replicas = wl.replicas
    BY <1>0, <2>1 DEF Workloads, Flags
  <2>. HIDE DEF v
  <2>5. v \in Fine
    <3>1. ~(v.own /\ v.owner)
      BY <1>0, <2>0, <2>4, Zenon DEF Sound
    <3>. QED BY <1>4, <2>0, <2>4, <3>1, FineIf
  <2>6. Patched(v) \in Fine
    BY <2>4, <2>5, ClaimedFields, AlikeIsFine
  <2>7. w1 \in Fine
    BY <1>0, <2>6, Zenon DEF Change
  <2>. HIDE DEF w1
  <2>8. FineResult(Result(w1, s, TRUE))
    BY <2>7, FineResultOf
  <2>. QED BY <1>1, <2>2, <2>3, <2>8, Zenon
<1>5. CASE wl.exists /\ wl.replicas # 0 /\ kind = "Canary"
  <2>. DEFINE n == BatchContext(wl, s).desired
              c == [wl.copy EXCEPT !.size = n, !.synced = FALSE]
              v == [wl EXCEPT !.copy = c]
              w1 == ScaleCopy(wl, BatchContext(wl, s))
  <2>1. UpgradeBatch(wl, s) = UpgradeCanary(wl, s)
    BY <1>5, Zenon DEF UpgradeBatch, PartitionKinds, StableKnob, StatefulSets, BlueGreenKinds
  <2>2. \/ UpgradeCanary(wl, s) = Result(wl, s, FALSE)
        \/ UpgradeCanary(wl, s) = Result(w1, s, TRUE)
    BY Zenon DEF UpgradeCanary
  <2>3. n \in Int /\ wl.copy.size \in Nat /\ wl.copy.made \in Nat /\ wl.copy \in Copies
    BY <1>0, <1>5, WorkloadFields, ContextIsTyped DEF Contexts
  <2>4. w1 = wl \/ (w1 = v /\ ~(wl.copy.size >= n))
    BY Zenon DEF ScaleCopy
  <2>. HIDE DEF n, w1
  <2>5. ASSUME ~(wl.copy.size >= n) PROVE v \in Fine
    <3>1. n \in Nat
      BY <2>3, <2>5
    <3>2. /\ c \in Copies /\ c.made = wl.copy.made /\ c.seen = wl.copy.seen
          /\ c.expected = wl.copy.expected
      BY <2>3, <3>1 DEF Copies, Counts, Flags
    <3>. HIDE DEF c
    <3>3. v \in Workloads /\ v.copy = c /\ v.replicas = wl.replicas /\ v.hpa = wl.hpa
      BY <1>0, <3>2 DEF Workloads
    <3>. HIDE DEF v
    <3>4. Sound(v)
      BY <1>0, <1>5, <3>2, <3>3, Zenon DEF Sound
    <3>5. ~(v.copy.made > wl.copy.made)
      BY <2>3, <3>2, <3>3
    <3>6. Careful(v)
      BY <1>5, <3>3, <3>5, Zenon DEF Careful
    <3>. QED BY <3>3, <3>4, <3>6 DEF Fine
  <2>. HIDE DEF v
  <2>6. w1 \in Fine
    BY <1>0, <2>4, <2>5
  <2>7. FineResult(Result(w1, s, TRUE))
    BY <2>6, FineResultOf
  <2>. QED BY <1>1, <2>1, <2>2, <2>7, Zenon
<1>. QED BY <1>0, <1>2, <1>3, <1>4, <1>5, KindIsKnown

\* So does the verification of a batch.
LEMMA VerifyIsFine ==
  ASSUME SoundInv, NEW s \in Statuses, s.batch < Len(plan.batches)
  PROVE  FineResult(EnsureBatchPodsReadyAndLabeled(wl, s))
<1>0. /\ TypeOK /\ wl \in Workloads /\ wl \in Fine /\ wl.exists \in BOOLEAN
  BY ItselfIsFine, WorkloadFields DEF SoundInv, TypeOK
<1>1. \A ok : FineResult(Result(wl, s, ok))
  BY <1>0, FineResultOf
<1>2. CASE ~wl.exists \/ wl.replicas = 0
  BY <1>0, <1>1, <1>2, Zenon DEF EnsureBatchPodsReadyAndLabeled, Failed
<1>3. CASE wl.exists /\ wl.replicas # 0 /\ kind \in PartitionKinds
  <2>. DEFINE w == IF kind = "MinReady" THEN Raise(wl, BatchContext(wl, s)) ELSE wl
  <2>1. w \in Fine
    BY <1>0, <1>3, ContextIsTyped, RaiseIsFine
  <2>2. EnsureBatchPodsReadyAndLabeled(wl, s) = VerifyPartition(wl, s)
    BY <1>3, Zenon
    DEF EnsureBatchPodsReadyAndLabeled, PartitionKinds, StableKnob, StatefulSets, BlueGreenKinds
  <2>3. VerifyPartition(wl, s) = Result(w, s, BatchReady(wl, s))
    BY Zenon DEF VerifyPartition
  <2>. HIDE DEF w
  <2>4. \A ok : FineResult(Result(w, s, ok))
    BY <2>1, FineResultOf
  <2>. QED BY <2>2, <2>3, <2>4, Zenon
<1>4. CASE wl.exists /\ wl.replicas # 0 /\ (kind \in BlueGreenKinds \/ kind = "Canary")
  <2>. DEFINE w == PatchPods(wl, s)
  <2>1. w \in Fine
    BY <1>0, <1>4, PatchPodsIsFine
  <2>2. \/ EnsureBatchPodsReadyAndLabeled(wl, s) = VerifyAndLabel(wl, s)
        \/ EnsureBatchPodsReadyAndLabeled(wl, s) = Result(wl, s, FALSE)
    BY <1>4, Zenon DEF EnsureBatchPodsReadyAndLabeled, VerifyCanary, PartitionKinds,
                       StableKnob, StatefulSets, BlueGreenKinds
  <2>3. VerifyAndLabel(wl, s) = Result(w, s, BatchReady(wl, s))
    BY Zenon DEF VerifyAndLabel
  <2>. HIDE DEF w
  <2>4. \A ok : FineResult(Result(w, s, ok))
    BY <2>1, FineResultOf
  <2>. QED BY <1>1, <2>2, <2>3, <2>4, Zenon
<1>. QED BY <1>0, <1>2, <1>3, <1>4, KindIsKnown

\* What HandedBack asks of a workload that is given back.
Returned(w) ==
  /\ w.own \/ kind = "Canary" \/ (kind = "Deployment" /\ ~wl.owner)
  /\ ~w.owner /\ w.hpa
  /\ kind = "BGCloneSet" => OldReady = 0
  /\ kind \in PartitionKinds /\ wl.owner => Admitted(w) = wl.replicas

\* Finalize of the partition style gives the workload back, all of it admitted.
LEMMA FinalizePartitionReturns ==
  ASSUME SoundInv, kind \in PartitionKinds, wl.exists
  PROVE  LET r == FinalizePartition(wl, st)
         IN  FineResult(r) /\ (plan.part = Nil /\ ~KeepPaused => Returned(r.w))
<1>. DEFINE w == CASE kind = "CloneSet" -> FinalizeCloneSet(wl)
                   [] kind \in StatefulSets -> FinalizeStatefulSet(wl)
                   [] kind = "DaemonSet" -> FinalizeDaemonSet(wl)
                   [] kind = "NativeDaemonSet" -> FinalizeNativeDaemonSet(wl)
                   [] kind = "Deployment" -> FinalizeDeployment(wl)
                   [] kind = "MinReady" -> FinalizeMinReady(wl)
            p == Patched(wl)
            left == Left(wl)
            freed == Freed(wl)
            away == [left EXCEPT !.knob = Unreached]
            resumed == [freed EXCEPT !.paused = Stay, !.frozen = FALSE]
<1>0. /\ TypeOK /\ wl \in Workloads /\ wl \in Fine /\ Sound(wl) /\ st \in Statuses
      /\ kind # "Canary" /\ kind \notin BlueGreenKinds
      /\ wl.own \in BOOLEAN /\ wl.owner \in BOOLEAN /\ wl.paused \in BOOLEAN
  BY ItselfIsFine, WorkloadFields
  DEF SoundInv, TypeOK, PartitionKinds, StableKnob, StatefulSets, BlueGreenKinds
<1>1. FinalizePartition(wl, st) = Result(w, st, TRUE)
  BY Zenon DEF FinalizePartition
<1>2. /\ w \in Workloads
  <2>1. FinalizePartition(wl, st) \in Results
    BY <1>0, FinalizePartitionTyped
  <2>2. \A v : Result(v, st, TRUE).w = v
    BY DEF Result
  <2>. HIDE DEF w
  <2>3. FinalizePartition(wl, st).w = w
    BY <1>1, <2>2, Zenon
  <2>. QED BY <2>1, <2>3 DEF Results
<1>3. p \in Workloads /\ Alike(p, wl)
  BY <1>0, ClaimedFields
<1>4. /\ left.own = wl.own /\ left.owner = FALSE /\ left.hpa = wl.hpa /\ left.copy = wl.copy
      /\ left.replicas = wl.replicas /\ left.knob = wl.knob /\ left \in Workloads
  BY <1>0 DEF Left, Workloads, Flags
<1>. HIDE DEF p
<1>5. /\ freed.own = TRUE /\ freed.owner = FALSE /\ freed.hpa = wl.hpa /\ freed.copy = wl.copy
      /\ freed.replicas = wl.replicas /\ freed.paused = FALSE /\ freed \in Workloads
  BY <1>3, KnobsOfTheCode DEF Freed, p, Workloads, Alike, Flags
<1>. HIDE DEF left, freed
<1>6. /\ away.own = wl.own /\ away.owner = FALSE /\ away.hpa = wl.hpa /\ away.copy = wl.copy
      /\ away.replicas = wl.replicas
  BY <1>4 DEF Workloads
<1>7. /\ resumed.own = TRUE /\ resumed.owner = FALSE /\ resumed.hpa = wl.hpa
      /\ resumed.copy = wl.copy /\ resumed.replicas = wl.replicas /\ resumed.paused = Stay
  BY <1>5 DEF Workloads
<1>. HIDE DEF away, resumed
<1>8. Promote \in BOOLEAN /\ (Promote <=> plan.part = Nil)
  BY Zenon DEF Promote
<1>9. \/ w = freed \/ (w = resumed /\ kind = "Deployment")
      \/ /\ w = left \/ w = away
         /\ kind # "MinReady" /\ (plan.part # Nil \/ KeepPaused)
      \/ (w = wl /\ kind = "Deployment" /\ ~wl.owner)
      \/ (w = wl /\ kind = "MinReady" /\ wl.own)
  <2>1. CASE kind \in {"CloneSet", "StatefulSet", "OrderedStatefulSet", "DaemonSet", "NativeDaemonSet"}
    <3>1. \/ w = FinalizeCloneSet(wl) \/ w = FinalizeStatefulSet(wl)
          \/ w = FinalizeDaemonSet(wl) \/ w = FinalizeNativeDaemonSet(wl)
      BY <2>1, Zenon DEF StatefulSets
    <3>2. \/ w = freed \/ ((w = left \/ w = away) /\ (plan.part # Nil \/ KeepPaused))
      <4>. HIDE DEF w
      <4>. QED
        BY <1>8, <3>1, Zenon
        DEF FinalizeCloneSet, FinalizeStatefulSet, FinalizeDaemonSet, FinalizeNativeDaemonSet,
            Stay, freed, left, away
    <3>. QED BY <2>1, <3>2
  <2>2. CASE kind = "Deployment"
    <3>1. w = FinalizeDeployment(wl)
      BY <2>2, Zenon DEF StatefulSets
    <3>2. wl.owner => wl.paused
      BY <1>0, <2>2, Zenon DEF Sound
    <3>. HIDE DEF w
    <3>3. (w = wl /\ ~wl.owner) \/ w = resumed \/ (w = left /\ plan.part # Nil)
      BY <1>0, <1>8, <3>1, <3>2, Zenon DEF FinalizeDeployment, resumed, freed, left
    <3>. QED BY <2>2, <3>3
  <2>3. CASE kind = "MinReady"
    <3>1. w = FinalizeMinReady(wl)
      BY <2>3, Zenon DEF StatefulSets
    <3>. HIDE DEF w
    <3>2. (w = wl /\ wl.own) \/ w = freed
      BY <1>0, <3>1, Zenon DEF FinalizeMinReady, freed
    <3>. QED BY <2>3, <3>2
  <2>. HIDE DEF w
  <2>. QED BY <1>0, <2>1, <2>2, <2>3, KindIsKnown
<1>. HIDE DEF w
<1>10. w \in Fine
  <2>1. CASE w = wl
    BY <1>0, <2>1
  <2>2. CASE w # wl
    <3>1. /\ w.replicas = wl.replicas /\ w.copy = wl.copy /\ w.owner = FALSE /\ w.hpa = wl.hpa
          /\ kind = "MinReady" => w.own
      BY <1>4, <1>5, <1>6, <1>7, <1>9, <2>2
    <3>. QED BY <1>0, <1>2, <3>1, FineIf
  <2>. QED BY <2>1, <2>2
<1>11. ASSUME plan.part = Nil, ~KeepPaused
       PROVE  Returned(w)
  <2>0. wl.hpa /\ (kind # "Canary" => ~(wl.own /\ wl.owner))
    BY <1>0, Zenon DEF Sound
  <2>1. Stay = FALSE
    BY <1>11, Zenon DEF Stay
  <2>2. \/ w = freed \/ (w = resumed /\ kind = "Deployment")
        \/ (w = wl /\ kind = "Deployment" /\ ~wl.owner) \/ (w = wl /\ kind = "MinReady" /\ wl.own)
    BY <1>9, <1>11
  <2>3. w.own \/ (kind = "Deployment" /\ ~wl.owner)
    BY <1>5, <1>7, <2>2
  <2>4. ~w.owner /\ w.hpa /\ w.replicas = wl.replicas
    BY <1>0, <1>5, <1>7, <2>0, <2>2
  <2>5. kind = "Deployment" /\ wl.owner => ~w.paused
    BY <1>5, <1>7, <2>1, <2>2
  <2>6. wl.owner => Admitted(w) = wl.replicas
    <3>1. CASE kind \in {"CloneSet", "DaemonSet", "StatefulSet", "NativeDaemonSet"}
      BY <2>3, <2>4, <3>1, AdmittedIs, Zenon
    <3>2. CASE kind = "OrderedStatefulSet"
      BY <2>3, <2>4, <3>2, AdmittedIs, Zenon
    <3>3. CASE kind = "Deployment"
      BY <2>4, <2>5, <3>3, AdmittedIs, Zenon
    <3>4. CASE kind = "MinReady"
      BY <2>3, <2>4, <3>4, AdmittedIs, Zenon
    <3>. QED BY <1>0, <3>1, <3>2, <3>3, <3>4, KindIsKnown
  <2>7. kind # "BGCloneSet"
    BY <1>0 DEF BlueGreenKinds
  <2>. QED BY <2>3, <2>4, <2>6, <2>7, Zenon DEF Returned
<1>12. Result(w, st, TRUE).w = w
  BY DEF Result
<1>13. FineResult(Result(w, st, TRUE))
  BY <1>10, FineResultOf
<1>. QED BY <1>1, <1>11, <1>12, <1>13, Zenon

\* Finalize keeps to what a round may change, and gives the workload back.
LEMMA FinalizeReturns ==
  ASSUME SoundInv
  PROVE  LET r == Finalize(wl, st)
         IN  /\ FineResult(r)
             /\ r.ok /\ plan.part = Nil /\ wl.exists /\ ~KeepPaused => Returned(r.w)
<1>0. /\ TypeOK /\ wl \in Workloads /\ st \in Statuses /\ wl \in Fine /\ Sound(wl)
      /\ wl.exists \in BOOLEAN /\ wl.own \in BOOLEAN
  BY ItselfIsFine, WorkloadFields DEF SoundInv, TypeOK
<1>1. \A ok : FineResult(Result(wl, st, ok))
  BY <1>0, FineResultOf
<1>2. CASE kind # "Canary" /\ ~wl.exists
  BY <1>0, <1>1, <1>2, Zenon DEF Finalize
<1>3. CASE wl.exists /\ kind \in PartitionKinds
  <2>1. Finalize(wl, st) = FinalizePartition(wl, st)
    BY <1>3, Zenon DEF Finalize, PartitionKinds, StableKnob, StatefulSets, BlueGreenKinds
  <2>2. /\ FineResult(FinalizePartition(wl, st))
        /\ plan.part = Nil /\ ~KeepPaused => Returned(FinalizePartition(wl, st).w)
    BY <1>3, FinalizePartitionReturns
  <2>. QED BY <2>1, <2>2, Zenon
<1>4. CASE wl.exists /\ kind \in BlueGreenKinds
  <2>. DEFINE w1 == IF wl.own THEN wl
                    ELSE [Patched(wl) EXCEPT !.owner = FALSE, !.own = TRUE,
                                             !.paused = @ /\ kind = "BGCloneSet"]
              w2 == RestoreHPA(w1)
              done == IF kind = "BGCloneSet" THEN OnlyUpdatedReady
                      ELSE wl.own \/ AllUpdatedAndReady(wl)
  <2>0. kind # "Canary" /\ kind # "Deployment" /\ kind # "MinReady" /\ kind \notin PartitionKinds
    BY <1>4 DEF BlueGreenKinds, PartitionKinds, StableKnob, StatefulSets
  <2>1. Finalize(wl, st) = FinalizeBlueGreen(wl, st)
    BY <1>4, Zenon DEF Finalize, PartitionKinds, StableKnob, StatefulSets, BlueGreenKinds
  <2>2. done \in BOOLEAN
    BY <1>0, Zenon DEF OnlyUpdatedReady, AllUpdatedAndReady
  <2>3. \/ FinalizeBlueGreen(wl, st) = Result(wl, st, TRUE) /\ plan.part # Nil
        \/ FinalizeBlueGreen(wl, st) = [Result(w2, st, TRUE) EXCEPT !.mid = w1] /\ done
        \/ FinalizeBlueGreen(wl, st) = Result(w1, st, FALSE)
    BY <2>2, Zenon DEF FinalizeBlueGreen
  <2>4. kind = "BGCloneSet" /\ done => OldReady = 0
    BY Zenon DEF OnlyUpdatedReady
  <2>. HIDE DEF done
  <2>5. /\ w1 \in Workloads /\ w1.replicas = wl.replicas /\ w1.copy = wl.copy /\ w1.own
        /\ ~w1.owner
    <3>1. CASE wl.own
      <4>1. ~wl.owner
        BY <1>0, <2>0, <3>1, Zenon DEF Sound
      <4>. QED BY <1>0, <3>1, <4>1
    <3>2. CASE ~wl.own
      <4>. DEFINE p == Patched(wl)
                  f == p.paused /\ kind = "BGCloneSet"
      <4>1. p \in Workloads /\ p.replicas = wl.replicas /\ p.copy = wl.copy
        BY <1>0, ClaimedFields DEF Alike
      <4>2. w1 = [p EXCEPT !.owner = FALSE, !.own = TRUE, !.paused = f]
        BY <3>2, Zenon
      <4>3. f \in BOOLEAN
        BY Zenon
      <4>. HIDE DEF p, f, w1
      <4>. QED BY <4>1, <4>2, <4>3 DEF Workloads, Flags
    <3>. QED BY <1>0, <3>1, <3>2
  <2>. HIDE DEF w1
  <2>6. /\ w2 \in Workloads /\ w2.replicas = wl.replicas /\ w2.copy = wl.copy /\ w2.own
        /\ ~w2.owner /\ w2.hpa
    BY <2>5 DEF RestoreHPA, Workloads, Flags
  <2>. HIDE DEF w2
  <2>7. w1 \in Fine /\ w2 \in Fine
    BY <1>4, <2>0, <2>5, <2>6, FineIf
  <2>8. /\ FineResult([Result(w2, st, TRUE) EXCEPT !.mid = w1])
        /\ FineResult(Result(w1, st, FALSE))
    BY <2>7, FineResultOf
  <2>9. done => Returned(w2)
    BY <2>0, <2>4, <2>6, Zenon DEF Returned
  <2>10. [Result(w2, st, TRUE) EXCEPT !.mid = w1].w = w2 /\ Result(w1, st, FALSE).ok = FALSE
    BY DEF Result
  <2>. QED BY <1>1, <2>1, <2>3, <2>8, <2>9, <2>10, Zenon
<1>5. CASE kind = "Canary"
  <2>. DEFINE w1 == FreeStable(wl)
              w2 == DeleteCopies(w1)
  <2>1. Finalize(wl, st) = FinalizeCanary(wl, st)
    BY <1>5, Zenon DEF Finalize, PartitionKinds, StableKnob, StatefulSets, BlueGreenKinds
  <2>2. \/ FinalizeCanary(wl, st) = [Result(w2, st, TRUE) EXCEPT !.mid = w1]
        \/ FinalizeCanary(wl, st) = Result(w1, st, FALSE)
    BY Zenon DEF FinalizeCanary
  <2>3. /\ w1 \in Workloads /\ w1.replicas = wl.replicas /\ w1.copy = wl.copy
        /\ w1.hpa = wl.hpa /\ (wl.exists => ~w1.owner)
    <3>. DEFINE f == plan.part # Nil
                v == [wl EXCEPT !.owner = FALSE, !.paused = f]
    <3>1. f \in BOOLEAN
      BY Zenon
    <3>2. (w1 = wl /\ ~wl.exists) \/ w1 = v \/ w1 = Patched(v)
      BY <1>0, Zenon DEF FreeStable, Change
    <3>. HIDE DEF f
    <3>3. /\ v \in Workloads /\ v.replicas = wl.replicas /\ v.copy = wl.copy
          /\ v.hpa = wl.hpa /\ ~v.owner
      BY <1>0, <3>1 DEF Workloads, Flags
    <3>. HIDE DEF v, w1
    <3>4. Patched(v) \in Workloads /\ Alike(Patched(v), v)
      BY <3>3, ClaimedFields
    <3>. QED BY <1>0, <3>2, <3>3, <3>4 DEF Alike
  <2>. HIDE DEF w1
  <2>4. wl.copy \in Copies /\ wl.copy.made \in Nat
    BY <1>0, WorkloadFields
  <2>5. /\ w2 \in Workloads /\ w2.replicas = wl.replicas
        /\ w2.hpa = wl.hpa /\ (wl.exists => ~w2.owner)
        /\ w2.copy.made = 0 \/ w2.copy = wl.copy
    <3>. DEFINE c == [w1.copy EXCEPT !.made = 0, !.seen = FALSE, !.size = 0, !.pods = 0]
    <3>1. c \in Copies /\ c.made = 0
      BY <2>3, <2>4 DEF Copies, Counts, Flags
    <3>2. w2 = w1 \/ w2 = [w1 EXCEPT !.copy = c]
      BY Zenon DEF DeleteCopies
    <3>. HIDE DEF c, w2
    <3>. QED BY <2>3, <3>1, <3>2 DEF Workloads
  <2>. HIDE DEF w2
  <2>6. ASSUME NEW w \in Workloads, w.replicas = wl.replicas, w.hpa = wl.hpa,
               w.copy.made = 0 \/ w.copy = wl.copy
        PROVE  w \in Fine
    <3>1. Sound(w)
      <4>1. w.copy.made > 0 /\ ~w.copy.seen => w.copy.expected # "none"
        <5>1. CASE w.copy.made = 0
          BY <5>1
        <5>2. CASE w.copy = wl.copy
          BY <1>0, <5>2, Zenon DEF Sound
        <5>. QED BY <2>6, <5>1, <5>2
      <4>. QED BY <1>0, <1>5, <2>6, <4>1, Zenon DEF Sound
    <3>2. ~(w.copy.made > wl.copy.made)
      BY <2>4, <2>6
    <3>. QED BY <1>5, <2>6, <3>1, <3>2, Zenon DEF Fine, Careful
  <2>7. w1 \in Fine /\ w2 \in Fine
    BY <2>3, <2>5, <2>6
  <2>8. /\ FineResult([Result(w2, st, TRUE) EXCEPT !.mid = w1])
        /\ FineResult(Result(w1, st, FALSE))
    BY <2>7, FineResultOf
  <2>9. wl.exists => Returned(w2)
    BY <1>0, <1>5, <2>5, Zenon
    DEF Returned, Sound, PartitionKinds, StableKnob, StatefulSets, BlueGreenKinds
  <2>10. [Result(w2, st, TRUE) EXCEPT !.mid = w1].w = w2 /\ Result(w1, st, FALSE).ok = FALSE
    BY DEF Result
  <2>. QED BY <2>1, <2>2, <2>8, <2>9, <2>10, Zenon
<1>. QED BY <1>0, <1>2, <1>3, <1>4, <1>5, KindIsKnown

\* r is a result with status s.
OnlyStatus(r, s) ==
  \/ \E w, ok : r = Result(w, s, ok)
  \/ \E w, m, ok : r = [Result(w, s, ok) EXCEPT !.mid = m]

\* The status of a result.
LEMMA StatusOfResult ==
  ASSUME NEW r, NEW x, OnlyStatus(r, x)
  PROVE  r.s = x
<1>1. \A w, m, ok : Result(w, x, ok).s = x /\ [Result(w, x, ok) EXCEPT !.mid = m].s = x
  BY DEF Result
<1>2. CASE \E w, ok : r = Result(w, x, ok)
  BY <1>1, <1>2
<1>3. CASE \E w, m, ok : r = [Result(w, x, ok) EXCEPT !.mid = m]
  BY <1>1, <1>3
<1>. QED BY <1>2, <1>3 DEF OnlyStatus

\* Finalize leaves the status to the executor.
LEMMA FinalizeStatus ==
  ASSUME TypeOK
  PROVE  OnlyStatus(Finalize(wl, st), st)
<1>0. wl.exists \in BOOLEAN
  BY WorkloadFields DEF TypeOK
<1>1. /\ OnlyStatus(FinalizePartition(wl, st), st) /\ OnlyStatus(FinalizeBlueGreen(wl, st), st)
      /\ OnlyStatus(FinalizeCanary(wl, st), st)
  <2>1. OnlyStatus(FinalizePartition(wl, st), st)
    BY Zenon DEF FinalizePartition, OnlyStatus
  <2>2. OnlyStatus(FinalizeBlueGreen(wl, st), st)
    <3>. DEFINE done == IF kind = "BGCloneSet" THEN OnlyUpdatedReady
                        ELSE wl.own \/ AllUpdatedAndReady(wl)
    <3>1. done \/ ~done
      OBVIOUS
    <3>. QED BY <3>1, Zenon DEF FinalizeBlueGreen, OnlyStatus
  <2>3. OnlyStatus(FinalizeCanary(wl, st), st)
    BY Zenon DEF FinalizeCanary, OnlyStatus
  <2>. QED BY <2>1, <2>2, <2>3
<1>2. CASE kind = "Canary"
  BY <1>1, <1>2, Zenon DEF Finalize, PartitionKinds, StableKnob, StatefulSets, BlueGreenKinds
<1>3. CASE kind # "Canary" /\ ~wl.exists
  BY <1>3, Zenon DEF Finalize, OnlyStatus
<1>4. CASE wl.exists /\ kind \in PartitionKinds
  BY <1>1, <1>4, Zenon DEF Finalize, PartitionKinds, StableKnob, StatefulSets, BlueGreenKinds
<1>5. CASE wl.exists /\ kind \in BlueGreenKinds
  BY <1>1, <1>5, Zenon DEF Finalize, PartitionKinds, StableKnob, StatefulSets, BlueGreenKinds
<1>. QED BY <1>0, <1>2, <1>3, <1>4, <1>5, KindIsKnown

\* No operation touches the phase.
LEMMA PhaseKept ==
  ASSUME TypeOK, NEW s \in Statuses
  PROVE  /\ Initialize(wl, s).s.phase = s.phase
         /\ UpgradeBatch(wl, s).s.phase = s.phase
         /\ EnsureBatchPodsReadyAndLabeled(wl, s).s = s
<1>0. /\ wl \in Workloads /\ wl.exists \in BOOLEAN /\ plan.anno \in BOOLEAN
      /\ wl.owner \in BOOLEAN
  BY WorkloadFields, PlanFields DEF TypeOK
<1>1. \A r, x : OnlyStatus(r, x) => r.s = x
  BY StatusOfResult
<1>2. \A x : [s EXCEPT !.kept = x].phase = s.phase
  BY DEF Statuses
<1>3. /\ Recorded(wl, s).phase = s.phase
      /\ \A x : [Recorded(wl, s) EXCEPT !.kept = x].phase = s.phase
  BY DEF Recorded, Statuses
<1>4. Initialize(wl, s).s.phase = s.phase
  <2>1. CASE ~wl.exists
    <3>1. OnlyStatus(Initialize(wl, s), s)
      BY <2>1, Zenon DEF Initialize, Failed, OnlyStatus
    <3>. QED BY <1>1, <3>1, Zenon
  <2>2. CASE wl.exists /\ kind \in PartitionKinds
    <3>1. Initialize(wl, s) = InitializePartition(wl, s)
      BY <2>2, Zenon DEF Initialize, PartitionKinds, StableKnob, StatefulSets, BlueGreenKinds
    <3>. DEFINE w1 == ClaimPartition(wl)
                s1 == Recorded(wl, s)
                n == pods[wl.update]
                w2 == [w1 EXCEPT !.marked = n]
    <3>2. \/ InitializePartition(wl, s) = Result(w1, s1, TRUE)
          \/ InitializePartition(wl, s) = Result(w1, [s1 EXCEPT !.kept = s.updated], TRUE)
          \/ InitializePartition(wl, s) = Result(w1, [s1 EXCEPT !.kept = n], TRUE)
          \/ InitializePartition(wl, s) = [Result(w2, s1, FALSE) EXCEPT !.mid = w1]
      BY <1>0, Zenon DEF InitializePartition
    <3>. HIDE DEF w1, w2, s1, n
    <3>3. \/ OnlyStatus(InitializePartition(wl, s), s1)
          \/ \E x : OnlyStatus(InitializePartition(wl, s), [s1 EXCEPT !.kept = x])
      BY <3>2, Zenon DEF OnlyStatus
    <3>. QED BY <1>1, <1>3, <3>1, <3>3, Zenon DEF s1
  <2>3. CASE wl.exists /\ kind \in BlueGreenKinds
    <3>1. Initialize(wl, s) = InitializeBlueGreen(wl, s)
      BY <2>3, Zenon DEF Initialize, PartitionKinds, StableKnob, StatefulSets, BlueGreenKinds
    <3>2. OnlyStatus(InitializeBlueGreen(wl, s), Recorded(wl, s))
      BY <1>0, Zenon DEF InitializeBlueGreen, OnlyStatus
    <3>. QED BY <1>1, <1>3, <3>1, <3>2, Zenon
  <2>4. CASE wl.exists /\ kind = "Canary"
    <3>1. Initialize(wl, s) = InitializeCanary(wl, s)
      BY <2>4, Zenon DEF Initialize, PartitionKinds, StableKnob, StatefulSets, BlueGreenKinds
    <3>2. \/ OnlyStatus(InitializeCanary(wl, s), Recorded(wl, s))
          \/ OnlyStatus(InitializeCanary(wl, s), s)
      BY Zenon DEF InitializeCanary, OnlyStatus
    <3>. QED BY <1>1, <1>3, <3>1, <3>2, Zenon
  <2>. QED BY <1>0, <2>1, <2>2, <2>3, <2>4, KindIsKnown
<1>5. UpgradeBatch(wl, s).s.phase = s.phase
  <2>1. \/ UpgradePartition(wl, s).s = s
        \/ \E x : UpgradePartition(wl, s).s = [s EXCEPT !.kept = x]
    <3>. DEFINE s1 == IF plan.rid # 0 /\ s.kept # Nil THEN [s EXCEPT !.kept = wl.marked] ELSE s
    <3>1. OnlyStatus(UpgradePartition(wl, s), s1)
      BY Zenon DEF UpgradePartition, OnlyStatus
    <3>2. UpgradePartition(wl, s).s = s1
      BY <1>1, <3>1, Zenon
    <3>. QED BY <3>2, Zenon
  <2>2. UpgradeBlueGreen(wl, s).s = s
    <3>1. OnlyStatus(UpgradeBlueGreen(wl, s), s)
      BY Zenon DEF UpgradeBlueGreen, OnlyStatus
    <3>. QED BY <1>1, <3>1, Zenon
  <2>3. UpgradeCanary(wl, s).s = s
    <3>1. OnlyStatus(UpgradeCanary(wl, s), s)
      BY Zenon DEF UpgradeCanary, OnlyStatus
    <3>. QED BY <1>1, <3>1, Zenon
  <2>4. \/ UpgradeBatch(wl, s).s = s
        \/ UpgradeBatch(wl, s) = UpgradePartition(wl, s)
    <3>1. CASE ~wl.exists \/ wl.replicas = 0
      <4>1. OnlyStatus(UpgradeBatch(wl, s), s)
        BY <1>0, <3>1, Zenon DEF UpgradeBatch, Failed, OnlyStatus
      <4>. QED BY <1>1, <4>1, Zenon
    <3>2. CASE wl.exists /\ wl.replicas # 0 /\ kind \in PartitionKinds
      BY <3>2, Zenon DEF UpgradeBatch, PartitionKinds, StableKnob, StatefulSets, BlueGreenKinds
    <3>3. CASE wl.exists /\ wl.replicas # 0 /\ kind \in BlueGreenKinds
      BY <2>2, <3>3, Zenon DEF UpgradeBatch, PartitionKinds, StableKnob, StatefulSets, BlueGreenKinds
    <3>4. CASE wl.exists /\ wl.replicas # 0 /\ kind = "Canary"
      BY <2>3, <3>4, Zenon DEF UpgradeBatch, PartitionKinds, StableKnob, StatefulSets, BlueGreenKinds
    <3>. QED BY <1>0, <3>1, <3>2, <3>3, <3>4, KindIsKnown
  <2>. QED BY <1>2, <2>1, <2>4, Zenon
<1>6. EnsureBatchPodsReadyAndLabeled(wl, s).s = s
  <2>1. /\ VerifyPartition(wl, s).s = s /\ VerifyAndLabel(wl, s).s = s
        /\ VerifyCanary(wl, s).s = s
    <3>1. /\ OnlyStatus(VerifyPartition(wl, s), s) /\ OnlyStatus(VerifyAndLabel(wl, s), s)
          /\ OnlyStatus(VerifyCanary(wl, s), s)
      BY Zenon DEF VerifyPartition, VerifyAndLabel, VerifyCanary, OnlyStatus
    <3>. QED BY <1>1, <3>1, Zenon
  <2>2. CASE ~wl.exists \/ wl.replicas = 0
    <3>1. OnlyStatus(EnsureBatchPodsReadyAndLabeled(wl, s), s)
      BY <1>0, <2>2, Zenon DEF EnsureBatchPodsReadyAndLabeled, Failed, OnlyStatus
    <3>. QED BY <1>1, <3>1, Zenon
  <2>3. CASE wl.exists /\ wl.replicas # 0 /\ kind \in PartitionKinds
    BY <2>1, <2>3, Zenon
    DEF EnsureBatchPodsReadyAndLabeled, PartitionKinds, StableKnob, StatefulSets, BlueGreenKinds
  <2>4. CASE wl.exists /\ wl.replicas # 0 /\ kind \in BlueGreenKinds
    BY <2>1, <2>4, Zenon
    DEF EnsureBatchPodsReadyAndLabeled, PartitionKinds, StableKnob, StatefulSets, BlueGreenKinds
  <2>5. CASE wl.exists /\ wl.replicas # 0 /\ kind = "Canary"
    BY <2>1, <2>5, Zenon
    DEF EnsureBatchPodsReadyAndLabeled, PartitionKinds, StableKnob, StatefulSets, BlueGreenKinds
  <2>. QED BY <1>0, <2>2, <2>3, <2>4, <2>5, KindIsKnown
<1>. QED BY <1>4, <1>5, <1>6

\* A status that is published without an operation is not a completed one.
LEMMA PublishedIsNotCompleted ==
  ASSUME TypeOK, st.phase # "Completed"
  PROVE  Published.phase # "Completed"
<1>. DEFINE s == Started
            x == SyncStatusBeforeExecuting(s).s
<1>0. s \in Statuses /\ x \in Statuses /\ s.phase # "Completed"
  <2>1. Fresh(st).phase = "Preparing"
    BY DEF TypeOK, Fresh, Statuses
  <2>. QED BY <2>1, StartedTyped DEF Started
<1>1. Published.phase = x.phase
  BY <1>0, RefreshTyped, Zenon DEF Published
<1>2. \A y : Stop(y).s = y /\ Go(y).s = y
  BY DEF Stop, Go
<1>3. PICK y : /\ SyncStatusBeforeExecuting(s) = Stop(y) \/ SyncStatusBeforeExecuting(s) = Go(y)
               /\ \/ y = s \/ y = [s EXCEPT !.update = wl.update]
                  \/ y = [s EXCEPT !.phase = "Finalizing"]
                  \/ y = Recalculate(s) \/ y = Fresh(s)
                  \/ y = [s EXCEPT !.state = "Upgrading", !.replicas = wl.replicas]
                  \/ y = [s EXCEPT !.phase = "Preparing", !.state = "Upgrading",
                                   !.update = wl.update]
  BY <1>0, SyncCases, Zenon
<1>5. x = y
  BY <1>2, <1>3
<1>. HIDE DEF s, x
<1>4. /\ Recalculate(s).phase = s.phase /\ Fresh(s).phase = "Preparing"
      /\ [s EXCEPT !.update = wl.update].phase = s.phase
      /\ [s EXCEPT !.phase = "Finalizing"].phase = "Finalizing"
      /\ [s EXCEPT !.state = "Upgrading", !.replicas = wl.replicas].phase = s.phase
      /\ [s EXCEPT !.phase = "Preparing", !.state = "Upgrading", !.update = wl.update].phase
           = "Preparing"
  BY <1>0 DEF Recalculate, Fresh, Statuses
<1>. QED BY <1>0, <1>1, <1>3, <1>4, <1>5

\* A round makes no second copy, opens the window within the budget, and
\* completes only when Finalize has given the workload back.
LEMMA RoundIsFine ==
  ASSUME SoundInv
  PROVE  /\ Do \in Results /\ FineResult(Do)
         /\ /\ st.phase # "Completed" /\ Do.s.phase = "Completed"
            /\ plan.part = Nil /\ wl.exists /\ ~KeepPaused
            => Returned(Do.w)
<1>0. TypeOK /\ st \in Statuses /\ wl \in Fine
  BY ItselfIsFine DEF SoundInv, TypeOK
<1>1. Do \in Results
  BY <1>0, DoTyped
<1>2. ASSUME NEW b \in BOOLEAN, Do = Result(wl, Published, b)
      PROVE  FineResult(Do) /\ (st.phase # "Completed" => Do.s.phase # "Completed")
  <2>1. Do.w = wl /\ Do.mid = wl /\ Do.s = Published
    BY <1>2 DEF Result
  <2>. QED BY <1>0, <2>1, PublishedIsNotCompleted, Zenon DEF FineResult
<1>3. CASE Do = ExecuteBatchReleasePlan(st) /\ st.phase = "Finalizing"
  <2>. DEFINE r == Finalize(wl, st)
              p == IF r.ok THEN "Completed" ELSE r.s.phase
  <2>1. r \in Results /\ RoundOf(r, [r.s EXCEPT !.phase = p])
    BY <1>0, <1>3, FinalizingRound, Zenon
  <2>2. /\ FineResult(r)
        /\ r.ok /\ plan.part = Nil /\ wl.exists /\ ~KeepPaused => Returned(r.w)
    BY FinalizeReturns
  <2>3. OnlyStatus(r, st)
    BY <1>0, FinalizeStatus
  <2>4. r.s = st
    BY <2>3, StatusOfResult
  <2>. HIDE DEF r
  <2>5. Do.w = r.w /\ Do.mid = r.mid /\ Do.s = [r.s EXCEPT !.phase = p]
    BY <2>1, Zenon DEF RoundOf, RoundIs
  <2>6. p = "Completed" => r.ok
    BY <1>3, <2>4
  <2>. HIDE DEF p
  <2>7. Do.s.phase = p
    BY <2>1, <2>5 DEF Results, Statuses
  <2>. QED BY <1>1, <2>2, <2>5, <2>6, <2>7, Zenon DEF FineResult
<1>4. CASE Do = ExecuteBatchReleasePlan(st) /\ st.phase = "Preparing"
  <2>. DEFINE r == Initialize(wl, st)
              p == IF r.ok THEN "Progressing" ELSE r.s.phase
  <2>1. r \in Results /\ RoundOf(r, [r.s EXCEPT !.phase = p])
    BY <1>0, <1>4, PreparingRound, Zenon
  <2>2. FineResult(r) /\ r.s.phase = st.phase
    BY <1>0, InitializeIsFine, PhaseKept
  <2>. HIDE DEF r
  <2>3. Do.w = r.w /\ Do.mid = r.mid /\ Do.s = [r.s EXCEPT !.phase = p] /\ p # "Completed"
    BY <1>4, <2>1, <2>2, Zenon DEF RoundOf, RoundIs
  <2>. HIDE DEF p
  <2>4. Do.s.phase = p
    BY <2>1, <2>3 DEF Results, Statuses
  <2>. QED BY <1>1, <2>2, <2>3, <2>4, Zenon DEF FineResult
<1>5. CASE Do = ExecuteBatchReleasePlan(st) /\ st.phase = "Progressing" /\ GoesAhead(st)
  <2>0. st.batch < Len(plan.batches)
    BY <1>5 DEF GoesAhead
  <2>1. Upgrading \in Statuses /\ Upgrading.batch = st.batch /\ Upgrading.phase = st.phase
    BY <1>0 DEF Upgrading, Statuses
  <2>. DEFINE r == UpgradeBatch(wl, Upgrading)
              v == EnsureBatchPodsReadyAndLabeled(wl, st)
  <2>2. FineResult(r) /\ FineResult(v)
    BY <1>0, <2>0, <2>1, UpgradeIsFine, VerifyIsFine
  <2>3. r.s.phase = st.phase /\ v.s.phase = st.phase
    BY <1>0, <2>1, PhaseKept
  <2>4. \/ \E x \in {"", "Upgrading", "Verifying", "Ready"} :
             r \in Results /\ RoundOf(r, [r.s EXCEPT !.state = x])
        \/ \E x \in {"", "Upgrading", "Verifying", "Ready"} :
             v \in Results /\ RoundOf(v, [v.s EXCEPT !.state = x])
        \/ v \in Results /\ RoundOf(v, MoveToNextBatch(st))
    BY <1>0, <1>5, <2>0, ProgressingRound, Zenon
  <2>. HIDE DEF r, v
  <2>5. ASSUME NEW y \in Results, FineResult(y), y.s.phase = st.phase, NEW x,
               RoundOf(y, [y.s EXCEPT !.state = x])
        PROVE  FineResult(Do) /\ Do.s.phase = st.phase
    <3>1. Do.w = y.w /\ Do.mid = y.mid /\ Do.s = [y.s EXCEPT !.state = x]
      BY <2>5, Zenon DEF RoundOf, RoundIs
    <3>2. Do.s.phase = y.s.phase
      BY <3>1 DEF Results, Statuses
    <3>. QED BY <2>5, <3>1, <3>2, Zenon DEF FineResult
  <2>6. ASSUME RoundOf(v, MoveToNextBatch(st))
        PROVE  FineResult(Do) /\ Do.s.phase = st.phase
    BY <1>0, <2>2, <2>6, MoveTyped, Zenon DEF RoundOf, RoundIs, FineResult
  <2>7. FineResult(Do) /\ Do.s.phase = st.phase
    BY <2>2, <2>3, <2>4, <2>5, <2>6
  <2>. QED BY <1>1, <2>7
<1>. QED BY <1>0, <1>1, <1>2, <1>3, <1>4, <1>5, DoCases

\* What OneCanaryCopy, MinReadyBudget and HandedBack say of a step.
CarefulStep ==
  /\ wl'.copy.made > wl.copy.made => CopyIsDue
  /\ Raises /\ kind = "MinReady" /\ ~wl'.own => Admitted(wl') <= ready + MinReadyStep
  /\ /\ st.phase # "Completed" /\ st'.phase = "Completed" /\ plan.part = Nil /\ wl.exists
     /\ ~KeepPaused
     => Returned(wl')

\* A sound workload is all the invariant needs besides the types.
LEMMA SoundKept ==
  ASSUME TypeOK', kind' = kind, Sound(wl')
  PROVE  SoundInv'
BY Zenon DEF SoundInv, Sound

\* A step that leaves a fine workload does what the three properties ask.
LEMMA FineStep ==
  ASSUME SoundInv, TypeOK', kind' = kind, wl' \in Fine,
         /\ st.phase # "Completed" /\ st'.phase = "Completed" /\ plan.part = Nil /\ wl.exists
         /\ ~KeepPaused
         => Returned(wl')
  PROVE  SoundInv' /\ CarefulStep
<1>1. Sound(wl') /\ Careful(wl')
  BY DEF Fine
<1>2. SoundInv'
  BY <1>1, SoundKept
<1>3. Raises /\ kind = "MinReady" /\ ~wl'.own => Admitted(wl') <= ready + MinReadyStep
  <2>1. /\ wl \in Workloads /\ wl' \in Workloads /\ TypeOK
    BY DEF SoundInv, TypeOK
  <2>2. /\ Admitted(wl) \in Int /\ Admitted(wl') \in Int
    BY <2>1, AdmittedBounds
  <2>3. kind = "MinReady" => wl'.copy.size = wl.copy.size
    BY <1>1 DEF Careful
  <2>4. wl.copy.size \in Int
    BY <2>1, WorkloadFields
  <2>5. kind = "MinReady" /\ Raises => Admitted(wl') > Admitted(wl)
    BY <2>3, <2>4 DEF Raises
  <2>6. Admitted(wl') > Admitted(wl) => ~(Admitted(wl') <= Admitted(wl))
    BY <2>2
  <2>. QED BY <1>1, <2>5, <2>6, Zenon DEF Careful
<1>. QED BY <1>1, <1>2, <1>3, Zenon DEF CarefulStep, Careful

\* The user, the rollout controller and the workload's controllers claim nothing,
\* hand nothing back and make no copy.
Settles ==
  /\ wl'.own => wl.own
  /\ wl'.owner = wl.owner /\ (wl.paused => wl'.paused) /\ wl'.hpa = wl.hpa
  /\ \/ wl'.copy = wl.copy \/ wl'.copy.made = 0
     \/ wl'.copy.made = wl.copy.made /\ (wl'.copy.seen \/ wl'.copy.expected # "none")
  /\ kind = "MinReady" =>
       \/ ~wl'.exists \/ wl'.update # wl.update \/ wl'.replicas # wl.replicas
       \/ wl'.own = wl.own /\ wl'.knob = wl.knob /\ wl'.copy.size <= wl.copy.size

\* So does a step that claims nothing, returns nothing and makes no copy.
LEMMA SettledStep ==
  ASSUME SoundInv, TypeOK', kind' = kind, Settles, st'.phase # "Completed" \/ st' = st
  PROVE  SoundInv' /\ CarefulStep
<1>0. /\ wl \in Workloads /\ wl' \in Workloads /\ TypeOK /\ Sound(wl)
      /\ wl.copy.made \in Nat /\ wl.copy.size \in Nat /\ wl'.copy.size \in Nat
  BY WorkloadFields DEF SoundInv, TypeOK
<1>1. ~(wl'.copy.made > wl.copy.made)
  BY <1>0 DEF Settles
<1>2. wl'.copy.made > 0 /\ ~wl'.copy.seen => wl'.copy.expected # "none"
  <2>1. CASE wl'.copy = wl.copy
    BY <1>0, <2>1, Zenon DEF Sound
  <2>2. CASE wl'.copy.made = 0 \/ wl'.copy.seen \/ wl'.copy.expected # "none"
    BY <2>2
  <2>. QED BY <2>1, <2>2 DEF Settles
<1>3. Sound(wl')
  BY <1>0, <1>2, Zenon DEF Sound, Settles
<1>4. SoundInv'
  BY <1>3, SoundKept
<1>5. kind = "MinReady" => ~Raises
  <2>1. CASE ~wl'.exists \/ wl'.update # wl.update \/ wl'.replicas # wl.replicas
    BY <2>1 DEF Raises
  <2>2. CASE /\ kind = "MinReady" /\ wl'.replicas = wl.replicas
             /\ wl'.own = wl.own /\ wl'.knob = wl.knob /\ wl'.copy.size <= wl.copy.size
    <3>1. Admitted(wl') = Admitted(wl)
      BY <2>2, AdmittedIs, Zenon
    <3>2. Admitted(wl) \in Int
      BY <1>0, AdmittedBounds
    <3>. QED BY <1>0, <2>2, <3>1, <3>2 DEF Raises
  <2>. QED BY <2>1, <2>2 DEF Settles
<1>. QED BY <1>1, <1>4, <1>5, Zenon DEF CarefulStep

\* The controller's steps keep the invariant and the three properties.
LEMMA ControllerSound ==
  ASSUME SoundInv, TypeOK', Reconcile \/ RemoveFinalizer \/ ReconcileCrashes
  PROVE  SoundInv' /\ CarefulStep
<1>0. TypeOK /\ wl \in Workloads /\ st \in Statuses /\ wl \in Fine
  BY ItselfIsFine DEF SoundInv, TypeOK
<1>1. CASE Reconcile
  <2>1. wl' = Do.w /\ st' = [Do.s EXCEPT !.seen = TRUE] /\ kind' = kind
    BY <1>1, Zenon DEF Reconcile
  <2>2. /\ Do \in Results /\ Do.w \in Fine
        /\ /\ st.phase # "Completed" /\ Do.s.phase = "Completed"
           /\ plan.part = Nil /\ wl.exists /\ ~KeepPaused
           => Returned(Do.w)
    BY RoundIsFine, Zenon DEF FineResult
  <2>3. st'.phase = Do.s.phase
    BY <2>1, <2>2 DEF Results, Statuses
  <2>. QED BY <2>1, <2>2, <2>3, FineStep
<1>2. CASE ReconcileCrashes
  <2>1. PICK w \in {wl, Do.mid, Do.w} : wl' = Restarted(w)
    BY <1>2, Zenon DEF ReconcileCrashes
  <2>2. st' = st /\ kind' = kind
    BY <1>2, Zenon DEF ReconcileCrashes
  <2>3. Do.w \in Fine /\ Do.mid \in Fine
    BY RoundIsFine, Zenon DEF FineResult
  <2>4. w \in Fine
    BY <1>0, <2>1, <2>3
  <2>5. w \in Workloads /\ Sound(w) /\ Careful(w)
    BY <2>4 DEF Fine
  <2>. DEFINE c == [w.copy EXCEPT !.expected = "none", !.seen = w.copy.made > 0]
  <2>6. w.copy \in Copies /\ w.copy.made \in Nat
    BY <2>5, WorkloadFields DEF Copies, Counts
  <2>7. /\ c.made = w.copy.made /\ c.size = w.copy.size
        /\ c.made > 0 => c.seen
    BY <2>6 DEF Copies
  <2>8. wl' = [w EXCEPT !.copy = c]
    BY <2>1, <2>5 DEF Restarted, Workloads
  <2>. HIDE DEF c
  <2>9. /\ wl'.own = w.own /\ wl'.owner = w.owner /\ wl'.paused = w.paused /\ wl'.hpa = w.hpa
        /\ wl'.knob = w.knob /\ wl'.replicas = w.replicas /\ wl'.copy = c
    BY <2>5, <2>8 DEF Workloads
  <2>10. Sound(wl')
    BY <2>5, <2>7, <2>9, Zenon DEF Sound
  <2>11. SoundInv'
    BY <2>2, <2>10, SoundKept
  <2>12. wl'.copy.made > wl.copy.made => CopyIsDue
    BY <2>5, <2>7, <2>9, Zenon DEF Careful
  <2>13. Raises /\ kind = "MinReady" /\ ~wl'.own => Admitted(wl') <= ready + MinReadyStep
    <3>. SUFFICES ASSUME Raises, kind = "MinReady", ~wl'.own
                  PROVE  Admitted(wl') <= ready + MinReadyStep
      OBVIOUS
    <3>1. Admitted(wl') = Admitted(w)
      BY <2>9, AdmittedIs, Zenon
    <3>2. /\ Admitted(wl) \in Int /\ Admitted(w) \in Int
      BY <1>0, <2>5, AdmittedBounds
    <3>3. wl'.copy.size = wl.copy.size /\ wl.copy.size \in Nat
      BY <1>0, <2>5, <2>7, <2>9, WorkloadFields DEF Careful
    <3>4. Admitted(w) > Admitted(wl)
      BY <3>1, <3>3 DEF Raises
    <3>5. ~(Admitted(w) <= Admitted(wl))
      BY <3>2, <3>4
    <3>. QED BY <2>5, <2>9, <3>1, <3>5, Zenon DEF Careful
  <2>. QED BY <2>2, <2>11, <2>12, <2>13, Zenon DEF CarefulStep
<1>3. CASE RemoveFinalizer
  <2>1. kind' = kind /\ st' = st /\ wl' = wl
    BY <1>3 DEF RemoveFinalizer
  <2>2. wl.copy.size <= wl.copy.size
    <3>1. wl.copy.size \in Nat
      BY <1>0, WorkloadFields
    <3>. QED BY <3>1
  <2>3. Settles
    BY <2>1, <2>2, Zenon DEF Settles
  <2>. QED BY <2>1, <2>3, SettledStep
<1>. QED BY <1>1, <1>2, <1>3

\* So do those of the rollout controller and the user.
LEMMA EnvironmentSound ==
  ASSUME SoundInv, TypeOK', Environment
  PROVE  SoundInv' /\ CarefulStep
<1>0. /\ TypeOK /\ st \in Statuses /\ wl \in Workloads /\ wl.copy.size \in Nat
  BY WorkloadFields DEF SoundInv, TypeOK
<1>1. wl.copy.size <= wl.copy.size
  BY <1>0
<1>2. ASSUME kind' = kind, wl' = wl, st' = [st EXCEPT !.seen = FALSE]
      PROVE  SoundInv' /\ CarefulStep
  <2>1. Settles
    BY <1>1, <1>2, Zenon DEF Settles
  <2>2. st'.phase = st.phase
    BY <1>0, <1>2 DEF Statuses
  <2>3. SoundInv'
    BY <1>2, SoundKept, Zenon DEF SoundInv
  <2>4. Admitted(wl) \in Int /\ wl.copy.made \in Nat
    BY <1>0, AdmittedBounds, WorkloadFields
  <2>5. ~(wl'.copy.made > wl.copy.made) /\ ~Raises
    BY <1>0, <1>2, <2>4 DEF Raises
  <2>. QED BY <2>2, <2>3, <2>5, Zenon DEF CarefulStep
<1>3. CASE Advance \/ Finish \/ Delete \/ Replan \/ (\E wait \in BOOLEAN : Cancel(wait))
  <2>1. kind' = kind /\ wl' = wl /\ st' = [st EXCEPT !.seen = FALSE]
    BY <1>3, Zenon DEF Advance, Finish, Delete, Replan, Cancel, Edit
  <2>. QED BY <1>2, <2>1
<1>4. CASE Create
  <2>. DEFINE c == [NoCopy EXCEPT !.expected = wl.copy.expected]
  <2>1. c.made = 0 /\ c.size = 0
    BY DEF NoCopy
  <2>2. /\ wl' = [wl EXCEPT !.labels = NoLabels, !.marked = 0, !.markedLabelled = 0, !.copy = c]
        /\ st' = NoStatus /\ kind' = kind
    BY <1>4 DEF Create
  <2>. HIDE DEF c
  <2>3. /\ wl'.own = wl.own /\ wl'.owner = wl.owner /\ wl'.paused = wl.paused /\ wl'.hpa = wl.hpa
        /\ wl'.knob = wl.knob /\ wl'.copy = c
    BY <1>0, <2>2 DEF Workloads
  <2>4. st'.phase # "Completed" /\ wl'.copy.size <= wl.copy.size /\ wl'.copy.made = 0
    <3>1. NoStatus.phase = ""
      BY DEF NoStatus
    <3>2. st'.phase # "Completed"
      BY <2>2, <3>1
    <3>3. wl'.copy.size <= wl.copy.size /\ wl'.copy.made = 0
      BY <1>0, <2>1, <2>3
    <3>. QED BY <3>2, <3>3
  <2>5. Settles
    BY <2>3, <2>4, Zenon DEF Settles
  <2>. QED BY <2>2, <2>4, <2>5, SettledStep
<1>5. ASSUME NEW r \in Revisions, ChangeTemplate(r)
      PROVE  SoundInv' /\ CarefulStep
  <2>. DEFINE h == Held(wl)
              low == IF r = wl.stable THEN pods[r] ELSE 0
  <2>1. wl' = [Patched(h) EXCEPT !.update = r, !.labels = NoLabels, !.marked = 0,
                                 !.markedLabelled = 0, !.low = low]
    BY <1>5 DEF ChangeTemplate
  <2>2. /\ h \in Workloads /\ h.owner = wl.owner /\ h.hpa = wl.hpa /\ h.copy = wl.copy
        /\ (wl.paused => h.paused) /\ (h.own => wl.own)
    <3>1. h \in Workloads
      BY <1>0, HeldTyped
    <3>2. \/ h = [wl EXCEPT !.own = FALSE, !.knob = Percent(100)]
          \/ h = [wl EXCEPT !.own = FALSE, !.knob = Unreached]
          \/ h = [wl EXCEPT !.paused = TRUE, !.frozen = ~wl.own]
          \/ h = [wl EXCEPT !.own = FALSE, !.knob = Unset]
          \/ h = [wl EXCEPT !.paused = TRUE]
      BY <1>0, HeldIs, Zenon
    <3>. HIDE DEF h
    <3>. QED BY <1>0, <3>1, <3>2 DEF Workloads
  <2>. HIDE DEF h, low
  <2>3. /\ wl'.owner = h.owner /\ wl'.hpa = h.hpa /\ wl'.copy = h.copy
        /\ wl'.paused = h.paused /\ wl'.own = h.own /\ wl'.update = r
    BY <2>1, <2>2 DEF Patched, Workloads
  <2>4. r # wl.update /\ kind' = kind /\ st' = st
    BY <1>5 DEF ChangeTemplate
  <2>5. Settles
    BY <2>2, <2>3, <2>4, Zenon DEF Settles
  <2>. QED BY <2>4, <2>5, SettledStep
<1>6. CASE RollbackInBatches
  <2>1. /\ wl' = [wl EXCEPT !.labels = NoLabels, !.marked = 0, !.markedLabelled = 0]
        /\ st' = [st EXCEPT !.seen = FALSE] /\ kind' = kind
        /\ kind \in StatefulSets \cup {"CloneSet"}
    BY <1>6 DEF RollbackInBatches, Edit
  <2>2. /\ wl'.own = wl.own /\ wl'.owner = wl.owner /\ wl'.paused = wl.paused /\ wl'.hpa = wl.hpa
        /\ wl'.copy = wl.copy
    BY <1>0, <2>1 DEF Workloads
  <2>3. st'.phase = st.phase /\ kind # "MinReady" /\ wl.copy.made \in Nat
    BY <1>0, <2>1, WorkloadFields DEF Statuses, StatefulSets
  <2>4. Sound(wl')
    BY <2>2, Zenon DEF Sound, SoundInv
  <2>5. SoundInv'
    BY <2>1, <2>4, SoundKept
  <2>6. ~(wl'.copy.made > wl.copy.made)
    BY <2>2, <2>3
  <2>. QED BY <2>3, <2>5, <2>6, Zenon DEF CarefulStep
<1>7. CASE Scale
  <2>1. PICK n \in Targets \ {wl.replicas} : wl' = [Patched(wl) EXCEPT !.replicas = n]
    BY <1>7 DEF Scale
  <2>2. /\ wl'.owner = wl.owner /\ wl'.own = wl.own /\ wl'.hpa = wl.hpa
        /\ wl'.paused = wl.paused /\ wl'.copy = wl.copy /\ wl'.replicas = n
    BY <1>0, <2>1 DEF Patched, Workloads
  <2>3. kind' = kind /\ st' = st /\ n # wl.replicas
    BY <1>7, <2>1 DEF Scale
  <2>4. Settles
    BY <2>2, <2>3, Zenon DEF Settles
  <2>. QED BY <2>3, <2>4, SettledStep
<1>8. CASE WorkloadDeleted
  <2>1. wl' = [wl EXCEPT !.exists = FALSE] /\ kind' = kind /\ st' = st
    BY <1>8 DEF WorkloadDeleted
  <2>2. /\ wl'.exists = FALSE /\ wl'.owner = wl.owner /\ wl'.own = wl.own /\ wl'.hpa = wl.hpa
        /\ wl'.paused = wl.paused /\ wl'.copy = wl.copy
    BY <1>0, <2>1 DEF Workloads
  <2>3. Settles
    BY <2>2, Zenon DEF Settles
  <2>. QED BY <2>1, <2>3, SettledStep
<1>. QED BY <1>3, <1>4, <1>5, <1>6, <1>7, <1>8 DEF Environment

\* So do those of the workload's own controllers and the informer.
LEMMA WorkloadSound ==
  ASSUME SoundInv, TypeOK', WorkloadStep \/ Fault
  PROVE  SoundInv' /\ CarefulStep
<1>0. /\ TypeOK /\ wl \in Workloads /\ wl.copy \in Copies /\ wl.copy.size \in Nat
      /\ wl.copy.made \in Nat
  BY WorkloadFields DEF SoundInv, TypeOK
<1>1. kind' = kind /\ st' = st /\ wl.copy.size <= wl.copy.size
  <2>1. kind' = kind /\ st' = st
    BY DEF WorkloadStep, WorkloadObserved, PodUpdated, PodReady, PodAdded, PodRemoved, Promoted,
           OldPodReady, CopyObserved, CopySynced, CopyPodCreated,
           Fault, PodLost, OldPodFails, ExpectationExpires
  <2>2. wl.copy.size <= wl.copy.size
    BY <1>0
  <2>. QED BY <2>1, <2>2
<1>2. ASSUME Alike(wl', wl) PROVE Settles
  BY <1>1, <1>2, Zenon DEF Settles, Alike
<1>3. CASE WorkloadObserved \/ Promoted
  <2>1. Alike(wl', wl)
    BY <1>0, <1>3 DEF WorkloadObserved, Promoted, Alike, Workloads
  <2>. QED BY <1>1, <1>2, <2>1, SettledStep
<1>4. CASE PodUpdated \/ PodReady \/ PodLost \/ PodAdded \/ OldPodFails \/ OldPodReady
  <2>1. wl' = wl
    BY <1>4 DEF PodUpdated, PodReady, PodLost, PodAdded, OldPodFails, OldPodReady
  <2>2. Alike(wl', wl)
    BY <2>1, Zenon DEF Alike
  <2>. QED BY <1>1, <1>2, <2>2, SettledStep
<1>5. ASSUME NEW c, c.made = wl.copy.made, c.size = wl.copy.size,
             c.made > 0 => c.seen \/ c.expected # "none",
             wl' = [wl EXCEPT !.copy = c]
      PROVE  SoundInv' /\ CarefulStep
  <2>1. /\ wl'.own = wl.own /\ wl'.owner = wl.owner /\ wl'.paused = wl.paused /\ wl'.hpa = wl.hpa
        /\ wl'.knob = wl.knob /\ wl'.copy = c
    BY <1>0, <1>5 DEF Workloads
  <2>2. c.made = 0 \/ c.seen \/ c.expected # "none"
    BY <1>0, <1>5
  <2>3. /\ wl'.copy.made = 0 \/ (wl'.copy.made = wl.copy.made
                                 /\ (wl'.copy.seen \/ wl'.copy.expected # "none"))
        /\ wl'.copy.size <= wl.copy.size
    <3>1. c.made = wl.copy.made /\ c.size = wl.copy.size /\ wl'.copy = c
      BY <1>5, <2>1
    <3>2. /\ wl'.copy.made = c.made /\ wl'.copy.size = c.size
          /\ wl'.copy.seen = c.seen /\ wl'.copy.expected = c.expected
      BY <3>1
    <3>. QED BY <1>1, <2>2, <3>1, <3>2
  <2>4. Settles
    BY <2>1, <2>3, Zenon DEF Settles
  <2>. QED BY <1>1, <2>4, SettledStep
<1>6. CASE CopyObserved
  <2>. DEFINE c == [wl.copy EXCEPT !.seen = wl.copy.made > 0, !.expected = "none"]
  <2>1. c.size = wl.copy.size /\ c.made = wl.copy.made /\ (c.made > 0 => c.seen)
    BY <1>0 DEF Copies
  <2>2. wl' = [wl EXCEPT !.copy = c]
    BY <1>0, <1>6 DEF CopyObserved, Workloads
  <2>. HIDE DEF c
  <2>. QED BY <1>5, <2>1, <2>2
<1>7. CASE CopyPodCreated
  <2>. DEFINE c == [wl.copy EXCEPT !.pods = wl.copy.pods + 1]
  <2>1. c.size = wl.copy.size /\ c.made = wl.copy.made /\ c.seen
    BY <1>0, <1>7 DEF Copies, CopyPodCreated
  <2>2. wl' = [wl EXCEPT !.copy = c]
    BY <1>0, <1>7 DEF CopyPodCreated, Workloads
  <2>. HIDE DEF c
  <2>. QED BY <1>5, <2>1, <2>2
<1>8. CASE PodRemoved
  <2>1. PICK labels, n :
          \/ wl' = wl
          \/ wl' = [wl EXCEPT !.labels = labels, !.low = Below(@, n), !.marked = Below(@, n),
                              !.markedLabelled = Below(@, n)]
    BY <1>8, Zenon DEF PodRemoved
  <2>2. Alike(wl', wl)
    BY <1>0, <2>1 DEF Alike, Workloads
  <2>. QED BY <1>1, <1>2, <2>2, SettledStep
<1>9. CASE CopySynced
  <2>. DEFINE c == [wl.copy EXCEPT !.synced = TRUE]
  <2>1. c.size = wl.copy.size /\ c.made = wl.copy.made /\ c.seen
    BY <1>0, <1>9 DEF Copies, CopySynced
  <2>2. wl' = [wl EXCEPT !.copy = c]
    BY <1>0, <1>9 DEF CopySynced, Workloads
  <2>. HIDE DEF c
  <2>. QED BY <1>5, <2>1, <2>2
<1>10. CASE ExpectationExpires
  <2>. DEFINE c == [wl.copy EXCEPT !.expected = "expired"]
  <2>1. c.size = wl.copy.size /\ c.made = wl.copy.made /\ c.expected # "none"
    BY <1>0 DEF Copies
  <2>2. wl' = [wl EXCEPT !.copy = c]
    BY <1>0, <1>10 DEF ExpectationExpires, Workloads
  <2>. HIDE DEF c
  <2>. QED BY <1>5, <2>1, <2>2
<1>. QED BY <1>3, <1>4, <1>6, <1>7, <1>8, <1>9, <1>10 DEF WorkloadStep, Fault

\* The invariant holds initially: nothing is claimed and no copy made.
LEMMA InitSound ==
  ASSUME Init
  PROVE  SoundInv
<1>1. TypeOK
  BY InitTyped
<1>. DEFINE w(n) == [exists |-> TRUE, replicas |-> n,
                     stable |-> OldRevision, update |-> NewRevision,
                     observed |-> FALSE, owner |-> FALSE, own |-> TRUE, knob |-> Unset, low |-> 0,
                     paused |-> FALSE, frozen |-> FALSE, hpa |-> TRUE,
                     labels |-> NoLabels, marked |-> 0, markedLabelled |-> 0,
                     copy |-> NoCopy]
<1>2. PICK n \in Sizes : wl = Held(w(n))
  BY Zenon DEF Init
<1>. DEFINE v == w(n)
<1>3. /\ v.owner = FALSE /\ v.hpa = TRUE /\ v.copy = NoCopy
      /\ DOMAIN v = {"exists", "replicas", "stable", "update", "observed", "owner", "own", "knob",
                     "low", "paused", "frozen", "hpa", "labels", "marked", "markedLabelled",
                     "copy"}
  OBVIOUS
<1>4. wl = Held(v)
  BY <1>2
<1>. HIDE DEF v
<1>5. \/ wl = [v EXCEPT !.own = FALSE, !.knob = Percent(100)]
      \/ wl = [v EXCEPT !.own = FALSE, !.knob = Unreached]
      \/ wl = [v EXCEPT !.paused = TRUE, !.frozen = ~v.own]
      \/ wl = [v EXCEPT !.own = FALSE, !.knob = Unset]
      \/ wl = [v EXCEPT !.paused = TRUE]
  BY <1>1, <1>4, HeldIs, Zenon
<1>6. wl.owner = FALSE /\ wl.hpa = TRUE /\ wl.copy = NoCopy
  BY <1>3, <1>5
<1>7. NoCopy.made = 0
  BY DEF NoCopy
<1>8. ~(wl.copy.made > 0)
  BY <1>6, <1>7
<1>. QED BY <1>1, <1>6, <1>8, Zenon DEF SoundInv, Sound

\* Every step keeps the invariant and the three properties.
LEMMA SoundKeeps ==
  ASSUME SoundInv, [Next]_vars
  PROVE  SoundInv' /\ [CarefulStep]_vars
<1>0. TypeOK'
  BY TypeStep DEF SoundInv
<1>1. CASE Reconcile \/ RemoveFinalizer \/ ReconcileCrashes
  BY <1>0, <1>1, ControllerSound
<1>2. CASE Environment
  BY <1>0, <1>2, EnvironmentSound
<1>3. CASE WorkloadStep \/ Fault
  BY <1>0, <1>3, WorkloadSound
<1>4. CASE UNCHANGED vars
  <2>1. kind' = kind /\ wl' = wl
    BY <1>4 DEF vars
  <2>2. SoundInv'
    BY <1>0, <2>1, SoundKept, Zenon DEF SoundInv
  <2>. QED BY <1>4, <2>2
<1>. QED BY <1>1, <1>2, <1>3, <1>4 DEF Next

\* A second canary Deployment of one template is made only after the expectation
\* to see the first one has timed out: not by a round that runs before the cache
\* has shown it, not by one that repeats a round cut off after the creation, and
\* not after a restart that lost the expectation; for any number of template
\* changes, cancellations and new BatchReleases.
THEOREM OneCanaryCopyHolds == Spec => OneCanaryCopy
<1>1. Init => SoundInv
  BY InitSound
<1>2. SoundInv /\ [Next]_vars => SoundInv' /\ [CarefulStep]_vars
  BY SoundKeeps
<1>3. [CarefulStep]_vars =>
        [wl'.copy.made > wl.copy.made =>
           \/ wl.copy.made = 0 \/ wl.copy.rev # wl.update
           \/ wl.copy.expected = "expired" /\ ~wl.copy.seen]_vars
  BY Zenon DEF CarefulStep, CopyIsDue
<1>. QED BY <1>1, <1>2, <1>3, PTL DEF Spec, OneCanaryCopy

\* The window of a MinReady Deployment never opens beyond the updated pods that
\* are ready and the user's maxUnavailable, whatever the batches ask for.
THEOREM MinReadyBudgetHolds == Spec => MinReadyBudget
<1>1. Init => SoundInv
  BY InitSound
<1>2. SoundInv /\ [Next]_vars => SoundInv' /\ [CarefulStep]_vars
  BY SoundKeeps
<1>3. [CarefulStep]_vars =>
        [Raises /\ kind = "MinReady" /\ ~wl'.own => Admitted(wl') <= ready + MinReadyStep]_vars
  BY Zenon DEF CarefulStep
<1>. QED BY <1>1, <1>2, <1>3, PTL DEF Spec, MinReadyBudget

\* Without the gate that keeps cancelled workloads paused, a BatchRelease that
\* completes without a partition has given back what it took: the strategy, the
\* claim and the autoscaler; of a blue-green CloneSet no pod of an older revision
\* is ready.
THEOREM HandedBackHolds ==
  ASSUME ~KeepPaused
  PROVE  Spec => HandedBack
<1>1. Init => SoundInv
  BY InitSound
<1>2. SoundInv /\ [Next]_vars => SoundInv' /\ [CarefulStep]_vars
  BY SoundKeeps
<1>3. [CarefulStep]_vars =>
        [(st.phase # "Completed" /\ st'.phase = "Completed" /\ plan.part = Nil /\ wl.exists) =>
           /\ wl'.own \/ kind = "Canary" \/ (kind = "Deployment" /\ ~wl.owner)
           /\ ~wl'.owner /\ wl'.hpa
           /\ kind = "BGCloneSet" => OldReady = 0
           /\ kind \in PartitionKinds /\ wl.owner => Admitted(wl') = wl.replicas]_vars
  BY Zenon DEF CarefulStep, Returned
<1>. QED BY <1>1, <1>2, <1>3, PTL DEF Spec, HandedBack
=============================================================================
