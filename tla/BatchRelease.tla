----------------------------- MODULE BatchRelease -----------------------------
(***************************************************************************)
(* The BatchRelease controller (pkg/controller/batchrelease): the executor, *)
(* which keeps its state machine in the status of the BatchRelease, and the *)
(* control planes through which it drives every kind of workload.           *)
(*                                                                         *)
(* A control plane operation is an operator from the workload w and the     *)
(* new status s to a result: the workload it leaves (w), the workload if it *)
(* is cut off half-way (mid), the status it leaves (s) and whether it        *)
(* succeeded (ok).                                                           *)
(***************************************************************************)
EXTENDS BatchArithmetic, FiniteSets, PodRevisions

CONSTANTS
  Kinds,       \* kinds of workload and rolling style
  Sizes,       \* workload.spec.replicas when the release starts
  Targets,     \* what it may be scaled to
  Plans,       \* release plans: sequences of intstr
  RolloutIDs,  \* the first releasePlan.rolloutID; 0 is the empty string
  Threshold,   \* releasePlan.failureThreshold
  KeepPaused,  \* feature gate KeepWorkloadPausedOnRolloutDeletion
  MinReadyStep,\* the user's maxUnavailable, resolved (MinReady)
  Ops,         \* what the rollout controller and the user do: see Environment
  Faults,      \* what goes wrong: "crash", "podlost", "olddown", "expire"
  MaxOps       \* bound on Ops and Faults taken together

StatefulSets == {"StatefulSet", "OrderedStatefulSet"}
StableKnob == StatefulSets \cup {"CloneSet", "DaemonSet", "NativeDaemonSet"}
PartitionKinds == StableKnob \cup {"Deployment", "MinReady"}
BlueGreenKinds == {"BGCloneSet", "BGDeployment"}
AllKinds == PartitionKinds \cup BlueGreenKinds \cup {"Canary"}

ASSUME KindsAssumption == Kinds \subseteq AllKinds
ASSUME SizesAssumption ==
  Sizes \subseteq Nat \ {0} /\ Targets \subseteq Nat /\ RolloutIDs \subseteq Nat
ASSUME RevisionsAssumption == IsFiniteSet(Revisions) /\ \E r, s \in Revisions : r # s

\* Values of intstr, as a plan and the workloads' strategies have them.
Knobs == [pct : Flags, n : Indexes]
\* Plans are not empty, and there is a longest one.
ASSUME PlansAssumption ==
  /\ \A p \in Plans : p \in Seq(Knobs) /\ p # <<>> /\ \A i \in DOMAIN p : p[i].n >= 0
  /\ \E q \in Plans : \A p \in Plans : Len(p) <= Len(q)
ASSUME StepAssumption == MinReadyStep \in Nat

VARIABLES
  kind,    \* kind of the workload, with the rolling style
  plan,    \* the BatchRelease but its status
  st,      \* the status of the BatchRelease
  wl,      \* the workload and what the control planes write next to it
  pods,    \* pods[r]: pods of the workload of revision r
  ready,   \* ready pods of the update revision (of the copy, canary style)
  down,    \* pods of older revisions that are not ready (blue-green)
  listed,  \* labels outside the plan that the list of the pods has last
  queued,  \* a reconcile request is in the work queue
  ops      \* Ops and Faults so far

vars == <<kind, plan, st, wl, pods, ready, down, listed, queued, ops>>

Nil == -1
Unset == Int32(0)
Unreached == Int32(32767)  \* math.MaxInt16
NoSpec == [batches |-> <<>>, part |-> Nil, wait |-> FALSE, rid |-> 0]
Phases == {"", "Preparing", "Progressing", "Finalizing", "Completed"}

MaxBatch == Max({Len(p) : p \in Plans})
NoLabels == [b \in 1..MaxBatch |-> 0]

\* The part of the BatchRelease that HashReleasePlanBatches hashes: all of
\* spec.releasePlan.
ReleasePlan == [batches |-> plan.batches, part |-> plan.part,
                wait |-> plan.wait, rid |-> plan.rid]

Specs == [batches : Seq(Knobs), part : Indexes, wait : Flags, rid : Counts]
BatchReleases ==
  [exists : Flags, guarded : Flags, deleting : Flags, batches : Plans, part : Indexes,
   wait : Flags, rid : Counts, anno : Flags]
Statuses ==
  [phase : Phases, batch : Counts, state : {"", "Upgrading", "Verifying", "Ready"},
   hash : Specs, rid : Counts, replicas : Indexes, stable : RevisionsOrNone,
   update : RevisionsOrNone, kept : Indexes, updated : Counts, ready : Counts, seen : Flags]
Expectations == {"none", "waiting", "expired"}
Copies == [made : Counts, seen : Flags, expected : Expectations, rev : RevisionsOrNone,
           synced : Flags, size : Counts, pods : Counts]
LabelCounts == [1..MaxBatch -> Nat]
Workloads ==
  [exists : Flags, replicas : Counts, stable : Revisions, update : Revisions,
   observed : Flags, owner : Flags, own : Flags, knob : Knobs, low : Counts,
   paused : Flags, frozen : Flags, hpa : Flags, labels : LabelCounts, marked : Counts,
   markedLabelled : Indexes, copy : Copies]

TypeOK ==
  /\ kind \in Kinds
  /\ plan \in BatchReleases /\ plan.part \in -1..(Len(plan.batches) - 1)
  /\ st \in Statuses /\ wl \in Workloads
  /\ pods \in [Revisions -> Nat] /\ ready \in Nat /\ down \in Nat /\ listed \in Nat

-----------------------------------------------------------------------------
(* The workload as the control planes read it.                             *)

OtherPods == {r \in Revisions \ {wl.update} : pods[r] > 0}
\* IsPromoted.
SingleVersion == OtherPods = {}
Total == SumOver(pods, Revisions)
OlderPods == Total - pods[wl.update]
\* status.readyReplicas without the updated ones.
OldReady == OlderPods - down
\* BuildCanaryController finds the copy of the current template.
CopyFound(w) == w.copy.seen /\ w.copy.rev = w.update
UpdatedPods(w) ==
  IF kind # "Canary" THEN pods[w.update] ELSE IF CopyFound(w) THEN w.copy.pods ELSE 0
Labelled(w) == SumOver(w.labels, DOMAIN w.labels)

\* status.stableRevision: an Advanced DaemonSet and a plain Deployment report
\* none.
StableRevision(w) == IF kind \in {"DaemonSet", "Canary"} THEN NoRevision ELSE w.stable

BatchContext(w, s) ==
  CASE kind = "CloneSet" -> CloneSetContext(plan.batches, w.replicas, s.batch, s.kept)
    [] kind \in {"StatefulSet", "DaemonSet"} ->
         DaemonSetContext(plan.batches, w.replicas, s.batch, s.kept)
    [] kind = "NativeDaemonSet" ->
         NativeDaemonSetContext(plan.batches, w.replicas, s.batch, s.kept)
    [] kind = "OrderedStatefulSet" ->
         OrderedStatefulSetContext(plan.batches, w.replicas, s.batch, s.kept)
    [] kind = "Deployment" -> DeploymentContext(plan.batches, w.replicas, s.batch)
    [] kind = "BGDeployment" -> BlueGreenDeploymentContext(plan.batches, w.replicas, s.batch)
    [] kind = "BGCloneSet" -> BlueGreenCloneSetContext(plan.batches, w.replicas, s.batch)
    [] kind = "MinReady" -> MinReadyContext(plan.batches, w.replicas, s.batch)
    [] kind = "Canary" -> CanaryContext(plan.batches, w.replicas, s.batch)

\* Labels are awaited only if there is a rollout id.
Planned(ctx) == IF plan.rid = 0 THEN 0 ELSE ctx.planned

BatchReady(w, s) ==
  LET isReady(ctx) ==
        IsBatchReady([ctx EXCEPT !.planned = Planned(ctx)], UpdatedPods(w), ready,
                     Labelled(w), IF kind \in BlueGreenKinds THEN NoThreshold ELSE Threshold)
  IN isReady(BatchContext(w, s))

\* External: the number of updated pods the workload's controller may reach
\* with the strategy the workload has.
Admitted(w) ==
  CASE kind \in StableKnob \ {"OrderedStatefulSet"} ->
         IF w.own THEN w.replicas
         ELSE Clamp(w.replicas - Scaled(w.knob, w.replicas, TRUE), w.replicas)
    [] kind = "OrderedStatefulSet" ->
         IF w.own THEN w.replicas
         ELSE Clamp(w.replicas - w.knob.n, w.replicas)
              + Below(w.low, Clamp(w.knob.n, w.replicas))
    [] kind = "Deployment" ->
         IF w.owner /\ w.paused /\ ~w.own /\ ~w.frozen
         THEN NewRSReplicasLimit(w.knob, w.replicas)
         ELSE IF w.paused THEN 0 ELSE w.replicas
    [] kind = "MinReady" ->
         IF w.own THEN w.replicas ELSE Clamp(Scaled(w.knob, w.replicas, TRUE), w.replicas)
    [] kind \in BlueGreenKinds ->
         IF w.paused THEN 0
         ELSE IF w.own THEN w.replicas ELSE Scaled(w.knob, w.replicas, TRUE)
    [] kind = "Canary" -> IF w.paused THEN 0 ELSE w.replicas

Result(w, s, ok) == [w |-> w, mid |-> w, s |-> s, ok |-> ok]
\* A patch of the spec; one that changes nothing is no new generation.
Patched(w) == [w EXCEPT !.observed = FALSE]
Change(w, w1) == IF w1 = w THEN w ELSE Patched(w1)

-----------------------------------------------------------------------------
(* Pod batch labels.                                                       *)

\* The pods that may be labelled: all the updated ones that carry no label,
\* but for the pods a rollback in batches keeps, of which the filter takes
\* as many as the plan counts on top of the pods really rolled back.
KeptToLabel(w, s, ctx) ==
  LET unlabelled == w.marked - w.markedLabelled IN
    CASE s.kept = Nil -> unlabelled
      [] s.kept # Nil /\ kind = "OrderedStatefulSet" ->
           OrderedPodsToLabel(ctx, w.replicas, w.markedLabelled, unlabelled)
      [] s.kept # Nil /\ kind # "OrderedStatefulSet" ->
           KeptPodsToLabel(ctx, unlabelled)

\* Pods with a label outside the plan count as unlabelled.
LabelsOutside(labels, batches) == SumOver(labels, DOMAIN labels \ DOMAIN batches)

\* Variant with a bug: a label outside the plan is left as it is.
PatchPodsOnce(w, s) ==
  LET new == NewLabels(w.labels, PlannedStepIncrements(plan.batches, w.replicas, s.batch),
                       UpdatedPods(w) - Labelled(w))
  IN [w EXCEPT !.labels = PatchPodBatchLabel(w.labels, new, 0)]
\* PatchPodBatchLabel: the last pods of the list come first, which are the kept
\* ones, and then unlabelled ones and ones labelled outside the plan as the
\* cache happens to list them.
PatchPods(w, s) ==
  LET others == UpdatedPods(w) - w.marked - (Labelled(w) - w.markedLabelled)
      outside == LabelsOutside(w.labels, plan.batches)
      new(kept) == NewLabels(w.labels,
                             PlannedStepIncrements(plan.batches, w.replicas, s.batch),
                             others + outside + kept)
      patched(kept, n) ==
        [w EXCEPT !.labels = PatchPodBatchLabel(w.labels, new(kept),
                               Overwritten(Above(0, n - kept), others, Below(listed, outside))),
                  !.markedLabelled = @ + Below(kept, n)]
      patchedWith(kept) == patched(kept, SumOver(new(kept), DOMAIN new(kept)))
  IN IF plan.rid = 0 THEN w ELSE patchedWith(KeptToLabel(w, s, BatchContext(w, s)))

-----------------------------------------------------------------------------
(* Partition style.                                                        *)

\* Initialize of the partition-style controllers: nothing is updated yet.
Claim(w, knob) ==
  IF w.owner THEN w
  ELSE [Patched(w) EXCEPT !.owner = TRUE, !.own = FALSE, !.paused = FALSE, !.knob = knob]

ClaimCloneSet(w) == Claim(w, Percent(100))
ClaimDaemonSet(w) == Claim(w, Int32(w.replicas))
ClaimStatefulSet(w) == Claim(w, Unreached)
\* OnDelete; the partition is written with the first batch.
ClaimNativeDaemonSet(w) ==
  IF w.owner THEN w ELSE [Patched(w) EXCEPT !.owner = TRUE, !.own = FALSE]

\* IsUnderRolloutControl.
AdvancedControl(w) == w.owner /\ w.paused /\ ~w.own
ClaimDeployment(w) ==
  IF AdvancedControl(w) THEN w
  ELSE [Patched(w) EXCEPT !.owner = TRUE, !.own = FALSE, !.paused = TRUE,
                          !.frozen = FALSE, !.knob = Unset]

\* Inflated again whenever it is initialized.
ClaimMinReady(w) ==
  Change(w, [w EXCEPT !.owner = TRUE, !.own = FALSE, !.paused = FALSE, !.knob = Unset])

ClaimPartition(w) ==
  CASE kind = "CloneSet" -> ClaimCloneSet(w)
    [] kind = "DaemonSet" -> ClaimDaemonSet(w)
    [] kind \in StatefulSets -> ClaimStatefulSet(w)
    [] kind = "NativeDaemonSet" -> ClaimNativeDaemonSet(w)
    [] kind = "Deployment" -> ClaimDeployment(w)
    [] kind = "MinReady" -> ClaimMinReady(w)

Recorded(w, s) ==
  [s EXCEPT !.stable = StableRevision(w), !.update = w.update, !.replicas = w.replicas]

\* Variant with a bug: kept pods are counted before they are marked.
InitializeUnmarked(w, s) ==
  LET s1 == Recorded(w, s) IN
    Result(ClaimPartition(w),
           IF plan.anno THEN [s1 EXCEPT !.kept = w.marked] ELSE s1, TRUE)
\* Initialize with markNoNeedUpdatePodsIfNeeds: pods are marked in one round
\* and counted in the next.
InitializePartition(w, s) ==
  LET w1 == ClaimPartition(w)
      s1 == Recorded(w, s)
      n == pods[w.update] IN
    CASE ~plan.anno -> Result(w1, s1, TRUE)
      [] plan.anno /\ plan.rid = 0 -> Result(w1, [s1 EXCEPT !.kept = s.updated], TRUE)
      [] plan.anno /\ plan.rid # 0 /\ w.marked = n ->
           Result(w1, [s1 EXCEPT !.kept = n], TRUE)
      [] plan.anno /\ plan.rid # 0 /\ w.marked # n ->
           [Result([w1 EXCEPT !.marked = n], s1, FALSE) EXCEPT !.mid = w1]

\* Variant with a bug: the whole batch is opened at once.
WindowOpen(w, target) == Change(w, [w EXCEPT !.knob = Int32(target)])
\* reconcileMaxUnavailable: a window of MinReadyStep updated pods that are
\* not ready yet, never beyond the batch.
Window(w, target) ==
  LET current == Scaled(w.knob, w.replicas, TRUE)
      next == Below(ready + MinReadyStep, target) IN
    CASE current > target -> [Patched(w) EXCEPT !.knob = Int32(target)]
      [] current < target /\ next > current -> [Patched(w) EXCEPT !.knob = Int32(next)]
      [] OTHER -> w

\* UpgradeBatch of the partition-style controllers.  Only the native DaemonSet
\* and MinReady ever take back what they gave.
Lower(w, ctx) ==
  IF Scaled(w.knob, w.replicas, TRUE) <= Scaled(ctx.knob, w.replicas, TRUE) THEN w
  ELSE [Patched(w) EXCEPT !.knob = ctx.knob]

UpgradeCloneSet(w, ctx) == Lower(w, ctx)
UpgradeDaemonSet(w, ctx) == Lower(w, ctx)
UpgradeStatefulSet(w, ctx) == Lower(w, ctx)
UpgradeNativeDaemonSet(w, ctx) == [w EXCEPT !.knob = ctx.knob]
UpgradeDeployment(w, ctx) ==
  IF ~AdvancedControl(w) \/ MoreThanOrEqualTo(w.knob, ctx.knob) THEN w
  ELSE [w EXCEPT !.knob = ctx.knob]

\* ensureInflatedDeploymentStrategy, and the window.
UpgradeMinReady(w, ctx) ==
  Window(IF w.own THEN [Patched(w) EXCEPT !.own = FALSE, !.knob = Unset] ELSE w, ctx.desired)

Raise(w, ctx) ==
  CASE kind = "CloneSet" -> UpgradeCloneSet(w, ctx)
    [] kind = "DaemonSet" -> UpgradeDaemonSet(w, ctx)
    [] kind \in StatefulSets -> UpgradeStatefulSet(w, ctx)
    [] kind = "NativeDaemonSet" -> UpgradeNativeDaemonSet(w, ctx)
    [] kind = "Deployment" -> UpgradeDeployment(w, ctx)
    [] kind = "MinReady" -> UpgradeMinReady(w, ctx)

\* UpgradeBatch with countAndUpdateNoNeedUpdateReplicas and the labels.
UpgradePartition(w, s) ==
  LET s1 == IF plan.rid # 0 /\ s.kept # Nil THEN [s EXCEPT !.kept = w.marked] ELSE s
      labelled(w1) == [Result(PatchPods(w1, s1), s1, TRUE) EXCEPT !.mid = w1] IN
    labelled(Raise(w, BatchContext(w, s1)))

\* EnsureBatchPodsReadyAndLabeled: MinReady keeps its window moving.
VerifyPartition(w, s) ==
  Result(IF kind = "MinReady" THEN Raise(w, BatchContext(w, s)) ELSE w, s, BatchReady(w, s))

\* Finalize: the control annotation goes; without a partition the workload is
\* promoted, unless the gate keeps a cancelled release as it is.
Promote == plan.part = Nil
Stay == KeepPaused /\ ~plan.wait
Freed(w) ==
  [Patched(w) EXCEPT !.owner = FALSE, !.own = TRUE, !.paused = FALSE, !.knob = Unset]
Left(w) == [w EXCEPT !.owner = FALSE]

FinalizeCloneSet(w) == IF Promote /\ ~Stay THEN Freed(w) ELSE Left(w)
FinalizeStatefulSet(w) == IF Promote /\ ~Stay THEN Freed(w) ELSE Left(w)
\* The gate alone keeps it.
FinalizeDaemonSet(w) == IF Promote /\ ~KeepPaused THEN Freed(w) ELSE Left(w)
FinalizeNativeDaemonSet(w) ==
  IF Promote /\ ~Stay THEN Freed(w) ELSE [Left(w) EXCEPT !.knob = Unreached]
FinalizeDeployment(w) ==
  CASE ~(w.owner /\ w.paused) -> w
    [] w.owner /\ w.paused /\ Promote -> [Freed(w) EXCEPT !.paused = Stay, !.frozen = FALSE]
    [] w.owner /\ w.paused /\ ~Promote -> Left(w)
\* Whatever the partition.
FinalizeMinReady(w) == IF w.own THEN w ELSE Freed(w)

FinalizePartition(w, s) ==
  Result(CASE kind = "CloneSet" -> FinalizeCloneSet(w)
           [] kind \in StatefulSets -> FinalizeStatefulSet(w)
           [] kind = "DaemonSet" -> FinalizeDaemonSet(w)
           [] kind = "NativeDaemonSet" -> FinalizeNativeDaemonSet(w)
           [] kind = "Deployment" -> FinalizeDeployment(w)
           [] kind = "MinReady" -> FinalizeMinReady(w),
         s, TRUE)

-----------------------------------------------------------------------------
(* Blue-green style.                                                       *)

\* The target of the autoscaler gets a name that does not exist, and back.
DisableHPA(w) == [w EXCEPT !.hpa = FALSE]
RestoreHPA(w) == [w EXCEPT !.hpa = TRUE]

\* Initialize: the autoscaler is disabled, then the strategy saved and
\* inflated.  The webhook's hold stays until the first batch.
InitializeBlueGreen(w, s) ==
  LET off == DisableHPA(w) IN
    IF w.owner THEN Result(w, Recorded(w, s), TRUE)
    ELSE [Result([Patched(off) EXCEPT !.owner = TRUE, !.own = FALSE, !.knob = Int32(1)],
                 Recorded(w, s), TRUE) EXCEPT !.mid = off]

\* UpgradeBatch: a surge of 1 is the initial value and counts as none.
UpgradeBlueGreen(w, s) ==
  LET ctx == BatchContext(w, s)
      current == IF w.knob = Int32(1) THEN 0 ELSE Scaled(w.knob, w.replicas, TRUE) IN
    CASE ~w.owner \/ w.own -> Result(w, s, FALSE)
      [] w.owner /\ ~w.own /\ current >= Scaled(ctx.knob, w.replicas, TRUE) ->
           Result(w, s, TRUE)
      [] OTHER -> Result(Change(w, [w EXCEPT !.knob = ctx.knob, !.paused = FALSE]), s, TRUE)

\* The pods are judged by the list from before they are labelled.
VerifyAndLabel(w, s) == Result(PatchPods(w, s), s, BatchReady(w, s))

\* For a CloneSet, readyReplicas = updatedReadyReplicas: older pods that are not
\* ready may be left.
OnlyUpdatedReady == OldReady = 0
\* waitAllUpdatedAndReady: readyReplicas = updatedReplicas.  (Its second test,
\* on the available pods, is left out.)
AllUpdatedAndReady(w) == OldReady + ready = pods[w.update]

\* Variant with a bug: the release completes before its pods are replaced.
FinalizeAtOnce(w, s) ==
  LET w1 == [Patched(w) EXCEPT !.owner = FALSE, !.own = TRUE, !.hpa = TRUE,
                               !.paused = @ /\ kind = "BGCloneSet"] IN
    Result(IF plan.part # Nil THEN w ELSE w1, s, TRUE)
\* Variant with a bug: the strategy is restored when the pods are replaced.
FinalizeUnrestored(w, s) ==
  IF plan.part = Nil /\ ~OnlyUpdatedReady THEN Result(w, s, FALSE)
  ELSE Result([w EXCEPT !.owner = FALSE, !.own = TRUE, !.paused = FALSE, !.hpa = TRUE], s, TRUE)
\* Finalize restores the strategy, waits until no older pod is ready and
\* then gives the workload back to its autoscaler.  The status a Deployment
\* is judged by is the one that the restoring patch returned; when there is
\* nothing to restore the object is empty and passes.
FinalizeBlueGreen(w, s) ==
  LET w1 == IF w.own THEN w
            ELSE [Patched(w) EXCEPT !.owner = FALSE, !.own = TRUE,
                                    !.paused = @ /\ kind = "BGCloneSet"]
      done == IF kind = "BGCloneSet" THEN OnlyUpdatedReady
              ELSE w.own \/ AllUpdatedAndReady(w) IN
    CASE plan.part # Nil -> Result(w, s, TRUE)
      [] plan.part = Nil /\ done ->
           [Result(RestoreHPA(w1), s, TRUE) EXCEPT !.mid = w1]
      [] plan.part = Nil /\ ~done -> Result(w1, s, FALSE)

-----------------------------------------------------------------------------
(* Canary style: a copy of the Deployment, scaled up batch by batch.       *)

\* Initialize of the stable controller.
ClaimStable(w) == [w EXCEPT !.owner = TRUE]

\* create: a copy without pods, and the expectation to see it in the cache.
CreateCopy(w) ==
  [w EXCEPT !.copy = [w.copy EXCEPT !.made = w.copy.made + 1, !.expected = "waiting",
                                    !.rev = w.update, !.seen = FALSE, !.synced = FALSE,
                                    !.size = 0, !.pods = 0]]

\* Variant with a bug: the expectation is not consulted.
InitializeWithoutExpectation(w, s) ==
  IF CopyFound(w) THEN Result(ClaimStable(w), Recorded(w, s), TRUE)
  ELSE Result(CreateCopy(ClaimStable(w)), s, FALSE)
\* Initialize: the stable Deployment is claimed; a copy is created, and
\* awaited in the cache before another may be, for five minutes.
InitializeCanary(w, s) ==
  LET w1 == ClaimStable(w) IN
    CASE CopyFound(w) -> Result(w1, Recorded(w, s), TRUE)
      [] ~CopyFound(w) /\ w.copy.expected = "waiting" -> Result(w1, s, FALSE)
      [] OTHER -> [Result(CreateCopy(w1), s, FALSE) EXCEPT !.mid = w1]

\* UpgradeBatch of the copy, which is never scaled down.
ScaleCopy(w, ctx) ==
  IF w.copy.size >= ctx.desired THEN w
  ELSE [w EXCEPT !.copy = [w.copy EXCEPT !.size = ctx.desired, !.synced = FALSE]]

\* The copy is there, and its status that of its present generation (IsStable).
CopyCurrent(w) == CopyFound(w) /\ w.copy.synced

UpgradeCanary(w, s) ==
  IF ~CopyCurrent(w) THEN Result(w, s, FALSE)
  ELSE Result(ScaleCopy(w, BatchContext(w, s)), s, TRUE)

VerifyCanary(w, s) ==
  IF ~CopyCurrent(w) THEN Result(w, s, FALSE) ELSE VerifyAndLabel(w, s)

\* Finalize of the stable controller: resumed unless a partition is left.
FreeStable(w) ==
  IF ~w.exists THEN w
  ELSE Change(w, [w EXCEPT !.owner = FALSE, !.paused = plan.part # Nil])

\* waitAllUpdatedAndReady.
StableReady(w) == ~w.paused /\ SingleVersion /\ pods[w.update] = w.replicas

\* Delete: the copies that the cache has lose their finalizers.
DeleteCopies(w) ==
  IF ~w.copy.seen THEN w
  ELSE [w EXCEPT !.copy = [@ EXCEPT !.made = 0, !.seen = FALSE, !.size = 0, !.pods = 0]]

\* Variant with a bug: the pods are awaited whether asked to or not.
FinalizeCanaryWaits(w, s) ==
  LET w1 == FreeStable(w) IN
    IF ~w.exists \/ StableReady(w1) THEN Result(DeleteCopies(w1), s, TRUE)
    ELSE Result(w1, s, FALSE)
\* Finalize: the stable Deployment is given back, and awaited if asked to be;
\* then the copies go.
FinalizeCanary(w, s) ==
  LET w1 == FreeStable(w) IN
    IF ~plan.wait \/ ~w.exists \/ StableReady(w1)
    THEN [Result(DeleteCopies(w1), s, TRUE) EXCEPT !.mid = w1]
    ELSE Result(w1, s, FALSE)

-----------------------------------------------------------------------------
(* getReleaseController: the control plane of the kind.                    *)

Failed(w, s) == Result(w, s, FALSE)

Initialize(w, s) ==
  CASE ~w.exists -> Failed(w, s)
    [] w.exists /\ kind \in PartitionKinds -> InitializePartition(w, s)
    [] w.exists /\ kind \in BlueGreenKinds -> InitializeBlueGreen(w, s)
    [] w.exists /\ kind = "Canary" -> InitializeCanary(w, s)

UpgradeBatch(w, s) ==
  CASE ~w.exists -> Failed(w, s)
    [] w.exists /\ w.replicas = 0 -> Result(w, s, TRUE)
    [] w.exists /\ w.replicas # 0 /\ kind \in PartitionKinds -> UpgradePartition(w, s)
    [] w.exists /\ w.replicas # 0 /\ kind \in BlueGreenKinds -> UpgradeBlueGreen(w, s)
    [] w.exists /\ w.replicas # 0 /\ kind = "Canary" -> UpgradeCanary(w, s)

EnsureBatchPodsReadyAndLabeled(w, s) ==
  CASE ~w.exists -> Failed(w, s)
    [] w.exists /\ w.replicas = 0 -> Result(w, s, TRUE)
    [] w.exists /\ w.replicas # 0 /\ kind \in PartitionKinds -> VerifyPartition(w, s)
    [] w.exists /\ w.replicas # 0 /\ kind \in BlueGreenKinds -> VerifyAndLabel(w, s)
    [] w.exists /\ w.replicas # 0 /\ kind = "Canary" -> VerifyCanary(w, s)

\* A workload that is gone needs no finalizing (the canary copies do).
Finalize(w, s) ==
  CASE kind = "Canary" -> FinalizeCanary(w, s)
    [] kind # "Canary" /\ ~w.exists -> Result(w, s, TRUE)
    [] w.exists /\ kind \in PartitionKinds -> FinalizePartition(w, s)
    [] w.exists /\ kind \in BlueGreenKinds -> FinalizeBlueGreen(w, s)

-----------------------------------------------------------------------------
(* The executor.                                                           *)

\* resetStatus.
Fresh(s) ==
  [s EXCEPT !.phase = "Preparing", !.batch = 0, !.state = "", !.hash = NoSpec,
            !.replicas = -1, !.stable = NoRevision, !.update = NoRevision,
            !.kept = Nil, !.updated = 0, !.ready = 0]

\* SyncWorkloadInformation, in the order of its tests.  The canary style has
\* no rollback in batches.
WorkloadEvent(s) ==
  IF plan.deleting THEN "NormalState"
  ELSE IF ~wl.exists THEN "HasGone"
  ELSE IF ~wl.observed THEN "StillReconciling"
  ELSE IF SingleVersion THEN "NormalState"
  ELSE IF s.replicas \notin {-1, wl.replicas} THEN "ReplicasChanged"
  ELSE IF /\ kind # "Canary" /\ s.update # NoRevision /\ s.stable # s.update
          /\ wl.update = StableRevision(wl) /\ s.stable = wl.update
       THEN "RollbackInBatch"
  ELSE IF s.update \notin {NoRevision, wl.update} THEN "PodTemplateChanged"
  ELSE "NormalState"

Stop(s) == [s |-> s, stop |-> TRUE]
Go(s) == [s |-> s, stop |-> FALSE]

\* signalRecalculate: the rollout controller's partition is the batch to go
\* to, unless the pods have to be labelled for a new rollout id.
Recalculate(s) ==
  [s EXCEPT !.batch = IF plan.rid = st.rid THEN Below(plan.part, Len(plan.batches) - 1) ELSE 0,
            !.state = "Upgrading", !.hash = ReleasePlan, !.rid = plan.rid]

\* Variant with a bug: a template change does not stop the round.
SyncAndGoOn(s) ==
  IF st.phase = "Completed" THEN Stop(s)
  ELSE IF plan.deleting \/ st.phase = "Finalizing" \/ plan.part = Nil
       THEN Go([s EXCEPT !.phase = "Finalizing"])
  ELSE IF st.phase = "Progressing" /\ st.hash # ReleasePlan THEN Go(Recalculate(s))
  ELSE Go([s EXCEPT !.update = IF st.phase = "Progressing" THEN wl.update ELSE @])
\* The special cases of syncStatusBeforeExecuting, in the order of the code.
SyncStatusBeforeExecuting(s) ==
  LET event == WorkloadEvent(s)
      progressing == st.phase = "Progressing" IN
    IF st.phase = "Completed" THEN Stop(s)
    ELSE IF plan.deleting \/ st.phase = "Finalizing" \/ plan.part = Nil
         THEN Go([s EXCEPT !.phase = "Finalizing"])
    ELSE IF progressing /\ st.hash # ReleasePlan THEN Go(Recalculate(s))
    ELSE IF progressing /\ st.batch >= Len(plan.batches) THEN Go(Fresh(s))
    ELSE IF event = "HasGone" /\ st.phase # "" THEN Go([s EXCEPT !.phase = "Finalizing"])
    ELSE IF event = "ReplicasChanged" /\ progressing
         THEN Go([s EXCEPT !.state = "Upgrading", !.replicas = wl.replicas])
    ELSE IF event = "PodTemplateChanged" /\ progressing
         THEN Stop([s EXCEPT !.update = wl.update])
    ELSE IF event = "StillReconciling" THEN Stop(s)
    ELSE IF progressing /\ st.kept = Nil /\ (event = "RollbackInBatch" \/ plan.anno)
         THEN IF plan.anno /\ StableRevision(wl) = wl.update
              THEN Go([s EXCEPT !.phase = "Preparing", !.state = "Upgrading",
                                !.update = wl.update])
              ELSE Stop(s)
    ELSE Go(s)

\* refreshStatus.
RefreshStatus(s) ==
  LET known == ~plan.deleting /\ wl.exists IN
    [s EXCEPT !.updated = IF known THEN UpdatedPods(wl) ELSE @,
              !.ready = IF known THEN ready ELSE @,
              !.hash = IF @ = NoSpec THEN ReleasePlan ELSE @,
              !.rid = plan.rid]

\* A round's outcome: its result, and whether it asks to be called again
\* (an error or RequeueAfter).
Round(result, again) == [result EXCEPT !.ok = again]
\* isPartitioned and moveToNextBatch.
MoveToNextBatch(s) ==
  IF plan.part <= st.batch THEN s
  ELSE [s EXCEPT !.batch = IF plan.part > @ THEN @ + 1 ELSE @, !.state = "Upgrading"]

\* progressBatches: a batch that cannot be verified, or is no longer ready, is
\* upgraded again.
ProgressBatches(s) ==
  LET upgraded(r) == Round([r EXCEPT !.s.state = IF r.ok THEN "Verifying" ELSE @], TRUE)
      verified(r) ==
        CASE ~r.ok -> Round([r EXCEPT !.s.state = "Upgrading"], TRUE)
          [] r.ok /\ s.state = "Verifying" -> Round([r EXCEPT !.s.state = "Ready"], TRUE)
          [] r.ok /\ s.state = "Ready" ->
               Round([r EXCEPT !.s = MoveToNextBatch(s)], plan.part > st.batch)
  IN IF s.state \in {"", "Upgrading"}
     THEN upgraded(UpgradeBatch(wl, [s EXCEPT !.state = "Upgrading"]))
     ELSE verified(EnsureBatchPodsReadyAndLabeled(wl, s))

\* executeBatchReleasePlan: the phase's operation.
ExecuteBatchReleasePlan(s) ==
  LET prepared(r) == Round([r EXCEPT !.s.phase = IF r.ok THEN "Progressing" ELSE @], TRUE)
      finalized(r) == Round([r EXCEPT !.s.phase = IF r.ok THEN "Completed" ELSE @], ~r.ok) IN
    CASE s.phase = "Preparing" -> prepared(Initialize(wl, s))
      [] s.phase = "Progressing" -> ProgressBatches(s)
      [] s.phase = "Finalizing" -> finalized(Finalize(wl, s))

\* Do: a status that changed is published before anything is executed.
Do ==
  LET sync == SyncStatusBeforeExecuting(IF st.phase = "" THEN Fresh(st) ELSE st)
      s == RefreshStatus(sync.s) IN
    IF sync.stop \/ s # st THEN Result(wl, s, s # st) ELSE ExecuteBatchReleasePlan(s)

-----------------------------------------------------------------------------
(* Reconcile, and what wakes it.                                           *)

Bounded == ops < MaxOps /\ ops' = ops + 1
CopyPods(w) == IF kind = "Canary" THEN Below(ready, w.copy.pods) ELSE ready

\* handleFinalizer: the last step of a BatchRelease that was deleted.
RemoveFinalizer ==
  /\ plan.exists /\ queued /\ plan.deleting /\ st.phase = "Completed"
  /\ plan' = [plan EXCEPT !.exists = FALSE, !.guarded = FALSE]
  /\ queued' = FALSE
  /\ UNCHANGED <<kind, st, wl, pods, ready, down, listed, ops>>

\* A status change of a BatchRelease under deletion is an event, and so is a
\* new generation of the workload.
Reconcile ==
  /\ plan.exists /\ queued /\ ~(plan.deleting /\ st.phase = "Completed")
  /\ \E r \in {Do} :
       /\ wl' = r.w
       /\ st' = [r.s EXCEPT !.seen = TRUE]
       /\ ready' = CopyPods(r.w)
       /\ queued' = (r.ok \/ wl.observed # r.w.observed
                     \/ (plan.deleting /\ st' # st))
  /\ plan' = [plan EXCEPT !.guarded = TRUE]
  /\ listed' \in 0..LabelsOutside(wl'.labels, plan.batches)
  /\ UNCHANGED <<kind, pods, down, ops>>

\* A restarted controller has a complete cache and no expectations.
Restarted(w) == [w EXCEPT !.copy.expected = "none", !.copy.seen = w.copy.made > 0]

\* The round is cut off: the status is lost, and any part of the changes made.
ReconcileCrashes ==
  /\ "crash" \in Faults /\ Bounded
  /\ plan.exists /\ queued /\ ~(plan.deleting /\ st.phase = "Completed")
  /\ \E r \in {Do} : \E w \in {wl, r.mid, r.w} :
       wl' = Restarted(w) /\ ready' = CopyPods(w)
  /\ plan' = [plan EXCEPT !.guarded = TRUE]
  /\ UNCHANGED <<kind, st, pods, down, listed, queued>>

-----------------------------------------------------------------------------
(* The rollout controller and the user.                                    *)

NoStatus == [phase |-> "", batch |-> 0, state |-> "", hash |-> NoSpec, rid |-> 0,
             replicas |-> 0, stable |-> NoRevision, update |-> NoRevision,
             kept |-> Nil, updated |-> 0, ready |-> 0, seen |-> FALSE]

Created(batches, rid) ==
  [exists |-> TRUE, guarded |-> FALSE, deleting |-> FALSE, batches |-> batches,
   part |-> 0, wait |-> FALSE, rid |-> rid, anno |-> FALSE]

\* Ids are never used again; a release without one has none later.
NextID == IF plan.rid = 0 THEN 0 ELSE plan.rid + 1

Edit(p) == plan' = p /\ st' = [st EXCEPT !.seen = FALSE] /\ queued' = TRUE

\* The status says that the batch the rollout controller asked for is ready.
BatchReported ==
  /\ plan.exists /\ ~plan.deleting /\ plan.part # Nil
  /\ st.phase = "Progressing" /\ st.hash = ReleasePlan
  /\ st.state = "Ready" /\ st.batch = plan.part

Advance ==
  /\ BatchReported /\ plan.part + 1 < Len(plan.batches)
  /\ Edit([plan EXCEPT !.part = @ + 1])
  /\ UNCHANGED <<kind, wl, pods, ready, down, listed, ops>>

\* finalizingPolicy WaitResume, and no partition.
Finish ==
  /\ BatchReported /\ plan.part + 1 = Len(plan.batches)
  /\ Edit([plan EXCEPT !.part = Nil, !.wait = TRUE])
  /\ UNCHANGED <<kind, wl, pods, ready, down, listed, ops>>

Cancel(wait) ==
  /\ "cancel" \in Ops /\ Bounded
  /\ plan.exists /\ ~plan.deleting /\ plan.part # Nil
  /\ Edit([plan EXCEPT !.part = Nil, !.wait = wait])
  /\ UNCHANGED <<kind, wl, pods, ready, down, listed>>

\* removeBatchRelease, after completion or, continuous release, in the middle.
\* Without its finalizer the object is gone at once.
Delete ==
  /\ plan.exists /\ ~plan.deleting
  /\ \/ plan.part = Nil /\ st.phase = "Completed" /\ UNCHANGED ops
     \/ plan.part # Nil /\ "abandon" \in Ops /\ Bounded
  /\ IF plan.guarded THEN Edit([plan EXCEPT !.deleting = TRUE])
     ELSE Edit([plan EXCEPT !.exists = FALSE])
  /\ UNCHANGED <<kind, wl, pods, ready, down, listed>>

\* A copy belongs to one BatchRelease; the expectation is kept by its name.
NoCopy == [made |-> 0, seen |-> FALSE, expected |-> "none", rev |-> NoRevision,
           synced |-> FALSE, size |-> 0, pods |-> 0]

\* A new BatchRelease for what is left to update; it follows one that was
\* abandoned.  Blue-green there is none: Finalize with a partition left leaves the
\* workload claimed by the release that is gone ("not supported yet").
Create ==
  /\ "create" \in Ops /\ kind \notin BlueGreenKinds
  /\ ~plan.exists /\ wl.exists /\ plan.part # Nil
  /\ \E b \in Plans : plan' = Created(b, NextID)
  /\ st' = NoStatus /\ queued' = TRUE
  /\ wl' = [wl EXCEPT !.labels = NoLabels, !.marked = 0, !.markedLabelled = 0,
                      !.copy = [NoCopy EXCEPT !.expected = wl.copy.expected]]
  /\ UNCHANGED <<kind, pods, ready, down, listed, ops>>

\* The plan's batches change; the rollout controller goes back or stays.
Replan ==
  /\ "replan" \in Ops /\ Bounded
  /\ plan.exists /\ ~plan.deleting /\ plan.part # Nil
  /\ \E b \in Plans \ {plan.batches} : \E k \in 0..Below(plan.part, Len(b) - 1) :
       Edit([plan EXCEPT !.batches = b, !.part = k])
  /\ listed' \in 0..LabelsOutside(wl.labels, plan'.batches)
  /\ UNCHANGED <<kind, wl, pods, ready, down>>

\* The mutating webhook holds a new pod template (what it reads and writes is
\* in StrategyCustody).
Held(w) ==
  CASE kind = "CloneSet" -> [w EXCEPT !.own = FALSE, !.knob = Percent(100)]
    [] kind \in StatefulSets \cup {"DaemonSet", "NativeDaemonSet"} ->
         [w EXCEPT !.own = FALSE, !.knob = Unreached]
    [] kind = "Deployment" -> [w EXCEPT !.paused = TRUE, !.frozen = ~w.own]
    [] kind = "MinReady" -> [w EXCEPT !.own = FALSE, !.knob = Unset]
    [] kind \in BlueGreenKinds \cup {"Canary"} -> [w EXCEPT !.paused = TRUE]

\* The user changes the pod template during the release, in any way or only back
\* to the stable revision (of a native DaemonSet see NativeDaemonSet).
ChangeTemplate(r) ==
  /\ "template" \in Ops \/ ("back" \in Ops /\ r = wl.stable)
  /\ Bounded
  /\ wl.exists /\ r # wl.update /\ kind # "NativeDaemonSet"
  /\ wl' = [Patched(Held(wl)) EXCEPT !.update = r, !.labels = NoLabels,
                                     !.marked = 0, !.markedLabelled = 0,
                                     !.low = IF r = wl.stable THEN pods[r] ELSE 0]
  /\ \E d \in Above(0, down - (OlderPods - pods[r]))..Below(down, pods[r]) :
       /\ ready' = IF kind = "Canary" THEN 0 ELSE pods[r] - d
       /\ down' = IF kind \in BlueGreenKinds
                  THEN (down - d) + Above(0, pods[wl.update] - ready) ELSE 0
  /\ queued' = TRUE
  /\ UNCHANGED <<kind, plan, st, pods, listed>>

\* IsRollbackInBatchPolicy: CloneSets and StatefulSets; the rollout
\* controller starts over from the first batch with a new id.
RollbackInBatches ==
  /\ "rollback" \in Ops
  /\ kind \in StatefulSets \cup {"CloneSet"} /\ wl.exists
  /\ plan.exists /\ ~plan.deleting /\ plan.part # Nil /\ ~plan.anno
  /\ wl.update = wl.stable /\ ~SingleVersion
  /\ Edit([plan EXCEPT !.anno = TRUE, !.part = 0, !.rid = NextID])
  /\ wl' = [wl EXCEPT !.labels = NoLabels, !.marked = 0, !.markedLabelled = 0]
  /\ UNCHANGED <<kind, pods, ready, down, listed, ops>>

Scale ==
  /\ "scale" \in Ops /\ Bounded
  /\ wl.exists
  /\ \E n \in Targets \ {wl.replicas} : wl' = [Patched(wl) EXCEPT !.replicas = n]
  /\ queued' = TRUE
  /\ UNCHANGED <<kind, plan, st, pods, ready, down, listed>>

WorkloadDeleted ==
  /\ "gone" \in Ops /\ Bounded
  /\ wl.exists
  /\ wl' = [wl EXCEPT !.exists = FALSE]
  /\ pods' = [r \in Revisions |-> 0]
  /\ ready' = IF kind = "Canary" THEN ready ELSE 0
  /\ down' = 0
  /\ queued' = TRUE
  /\ UNCHANGED <<kind, plan, st, listed>>

Environment ==
  \/ Advance \/ Finish \/ Delete \/ Create \/ Replan
  \/ \E wait \in BOOLEAN : Cancel(wait)
  \/ \E r \in Revisions : ChangeTemplate(r)
  \/ RollbackInBatches \/ Scale \/ WorkloadDeleted

-----------------------------------------------------------------------------
(* The workload's own controller (external).  Each step is an event.       *)

\* workloadEventHandler: a generation or a status that changed is an event for
\* the BatchRelease of the workload, if there is one.
WorkloadEventHandler == queued' = plan.exists
Running == wl.exists /\ wl.observed /\ WorkloadEventHandler

WorkloadObserved ==
  /\ wl.exists /\ ~wl.observed
  /\ wl' = [wl EXCEPT !.observed = TRUE] /\ WorkloadEventHandler
  /\ UNCHANGED <<kind, plan, st, pods, ready, down, listed, ops>>

\* A pod is replaced; blue-green, it is added.
PodUpdated ==
  /\ Running /\ pods[wl.update] < Admitted(wl) /\ OtherPods # {}
  /\ IF kind \in BlueGreenKinds
     THEN pods' = [pods EXCEPT ![wl.update] = @ + 1]
     ELSE \E r \in OtherPods : pods' = [pods EXCEPT ![r] = @ - 1, ![wl.update] = @ + 1]
  /\ UNCHANGED <<kind, plan, st, wl, ready, down, listed, ops>>

PodReady ==
  /\ Running /\ ready < UpdatedPods(wl)
  /\ ready' = ready + 1
  /\ UNCHANGED <<kind, plan, st, wl, pods, down, listed, ops>>

PodLost ==
  /\ "podlost" \in Faults /\ Bounded
  /\ Running /\ ready > 0
  /\ ready' = ready - 1
  /\ UNCHANGED <<kind, plan, st, wl, pods, down, listed>>

\* Blue-green, the readiness of older pods counts as well.
OldPodFails ==
  /\ "olddown" \in Faults /\ Bounded
  /\ Running /\ kind \in BlueGreenKinds /\ OldReady > 0
  /\ down' = down + 1
  /\ UNCHANGED <<kind, plan, st, wl, pods, ready, listed>>

OldPodReady ==
  /\ Running /\ down > 0
  /\ down' = down - 1
  /\ UNCHANGED <<kind, plan, st, wl, pods, ready, listed, ops>>

\* Scaling up; the revision of the pod is the update one if it may be.
PodAdded ==
  /\ Running /\ Total < wl.replicas
  /\ LET r == IF pods[wl.update] < Admitted(wl) THEN wl.update ELSE wl.stable IN
       /\ pods' = [pods EXCEPT ![r] = @ + 1]
       /\ down' = IF kind \in BlueGreenKinds /\ r # wl.update THEN down + 1 ELSE down
  /\ UNCHANGED <<kind, plan, st, wl, ready, listed, ops>>

\* Scaling down; older pods go first.  Blue-green, they go when enough
\* updated pods are ready.
PodRemoved ==
  /\ Running
  /\ IF kind \in BlueGreenKinds /\ OtherPods # {}
     THEN \/ Total - pods[wl.update] > wl.replicas
          \/ /\ wl.own /\ ready >= wl.replicas
             /\ wl.paused => kind = "BGCloneSet" /\ wl.update = wl.stable
     ELSE Total > wl.replicas
  /\ \E r \in (IF OtherPods # {} THEN OtherPods ELSE {wl.update}) :
       /\ pods' = [pods EXCEPT ![r] = @ - 1]
       /\ ready' = IF kind = "Canary" THEN ready ELSE Below(ready, pods'[wl.update])
       /\ \E d \in {0, 1} :
            /\ down' = down - d
            /\ r # wl.update => d <= down /\ d >= down - (OlderPods - 1)
            /\ r = wl.update => d = 0
       /\ \E labels \in {wl.labels}
              \cup {[wl.labels EXCEPT ![b] = @ - 1] : b \in {c \in 1..MaxBatch : wl.labels[c] > 0}} :
            LET n == pods'[wl.update] IN
              IF kind = "Canary" THEN wl' = wl
              ELSE /\ SumOver(labels, 1..MaxBatch) = Below(Labelled(wl), n)
                   /\ wl' = [wl EXCEPT !.labels = labels, !.low = Below(@, n),
                                       !.marked = Below(@, n),
                                       !.markedLabelled = Below(@, n)]
  /\ UNCHANGED <<kind, plan, st, listed, ops>>

\* status.currentRevision.
Promoted ==
  /\ Running /\ wl.stable # wl.update /\ SingleVersion
  /\ Admitted(wl) >= wl.replicas /\ Total = wl.replicas
  /\ kind # "Canary" => ready = Total
  /\ wl' = [wl EXCEPT !.stable = wl.update]
  /\ UNCHANGED <<kind, plan, st, pods, ready, down, listed, ops>>

\* The informer delivers the canary copy, and its controller creates pods.
CopyObserved ==
  /\ ~wl.copy.seen /\ (wl.copy.made > 0 \/ wl.copy.expected # "none")
  /\ wl' = [wl EXCEPT !.copy.seen = wl.copy.made > 0, !.copy.expected = "none"]
  /\ WorkloadEventHandler
  /\ UNCHANGED <<kind, plan, st, pods, ready, down, listed, ops>>

CopySynced ==
  /\ wl.copy.seen /\ ~wl.copy.synced
  /\ wl' = [wl EXCEPT !.copy.synced = TRUE] /\ WorkloadEventHandler
  /\ UNCHANGED <<kind, plan, st, pods, ready, down, listed, ops>>

CopyPodCreated ==
  /\ wl.copy.seen /\ wl.copy.synced /\ wl.copy.pods < wl.copy.size
  /\ wl' = [wl EXCEPT !.copy.pods = @ + 1] /\ WorkloadEventHandler
  /\ UNCHANGED <<kind, plan, st, pods, ready, down, listed, ops>>

\* SatisfiedExpectations: the copy is not in the cache after ExpectationTimeout.
ExpectationExpires ==
  /\ "expire" \in Faults /\ Bounded
  /\ wl.copy.expected = "waiting"
  /\ wl' = [wl EXCEPT !.copy.expected = "expired"]
  /\ UNCHANGED <<kind, plan, st, pods, ready, down, listed, queued>>

WorkloadStep ==
  \/ WorkloadObserved \/ PodUpdated \/ PodReady \/ PodAdded \/ PodRemoved
  \/ Promoted \/ OldPodReady \/ CopyObserved \/ CopySynced \/ CopyPodCreated

Fault == PodLost \/ OldPodFails \/ ExpectationExpires

-----------------------------------------------------------------------------

\* A release from one revision to another (which does not matter) that the
\* webhook holds, and its BatchRelease.
OldRevision == CHOOSE r \in Revisions : TRUE
NewRevision == CHOOSE r \in Revisions \ {OldRevision} : TRUE

Init ==
  /\ kind \in Kinds
  /\ \E b \in Plans, id \in RolloutIDs : plan = Created(b, id)
  /\ st = NoStatus
  /\ \E n \in Sizes :
       /\ pods = [r \in Revisions |-> IF r = OldRevision THEN n ELSE 0]
       /\ wl = Held([exists |-> TRUE, replicas |-> n,
                     stable |-> OldRevision, update |-> NewRevision,
                     observed |-> FALSE, owner |-> FALSE, own |-> TRUE, knob |-> Unset, low |-> 0,
                     paused |-> FALSE, frozen |-> FALSE, hpa |-> TRUE,
                     labels |-> NoLabels, marked |-> 0, markedLabelled |-> 0,
                     copy |-> NoCopy])
  /\ ready = 0 /\ down = 0 /\ listed = 0 /\ queued = TRUE /\ ops = 0

Next ==
  \/ Reconcile \/ RemoveFinalizer \/ ReconcileCrashes
  \/ Environment \/ WorkloadStep \/ Fault

Spec == Init /\ [][Next]_vars

\* A round that changes something is due: ENABLED <<Reconcile>>_vars.
RoundDue ==
  /\ plan.exists /\ queued /\ ~(plan.deleting /\ st.phase = "Completed")
  /\ LET r == Do IN
       ~(plan.guarded /\ r.ok /\ r.w = wl /\ [r.s EXCEPT !.seen = TRUE] = st)

\* The work queue delivers every request (weak fairness of Reconcile), and the
\* controllers of the workload and the informer keep working.  Nothing is
\* assumed of the rollout controller or the user.
FairSpec ==
  /\ Spec
  /\ []<>~RoundDue \/ []<><<Reconcile>>_vars
  /\ WF_vars(RemoveFinalizer)
  /\ WF_vars(WorkloadObserved) /\ WF_vars(PodUpdated) /\ WF_vars(PodReady)
  /\ WF_vars(PodAdded) /\ WF_vars(PodRemoved) /\ WF_vars(Promoted)
  /\ WF_vars(CopyObserved) /\ WF_vars(CopySynced) /\ WF_vars(CopyPodCreated)

=============================================================================
