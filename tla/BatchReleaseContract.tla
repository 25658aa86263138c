------------------------ MODULE BatchReleaseContract ------------------------
(***************************************************************************)
(* What the rollout controller relies on below it: the BatchRelease        *)
(* resource as its controller (pkg/controller/batchrelease) promises to    *)
(* drive it, and the CloneSet that the BatchRelease controls.              *)
(*                                                                         *)
(* The BatchRelease controller is described by what it promises, one       *)
(* action per kind of status change it may publish.  The CloneSet           *)
(* controller is external: it moves pods up to the number of updated pods   *)
(* the partition (or, blue-green, the surge) admits.                        *)
(***************************************************************************)
EXTENDS Integers, Sequences, FiniteSets, PodRevisions

CONSTANTS
  Replicas,     \* workload.spec.replicas
  BlueGreen,    \* rolling style: blue-green, else partition
  WorkloadLag   \* the workload controller may lag behind workload.generation

ASSUME ReplicasAssumption == Replicas \in Nat \ {0}
ASSUME StyleAssumption == BlueGreen \in BOOLEAN /\ WorkloadLag \in BOOLEAN

VARIABLES
  br,     \* the BatchRelease, spec and status
  wl,     \* the CloneSet: revisions, annotation, how many pods may be updated
  pods,   \* pods[r]: pods of revision r
  ready   \* ready pods of the update revision

brVars == <<br, wl, pods, ready>>

\* releasePlan.batchPartition = nil.
NoPartition == -1
\* canaryStatus.noNeedUpdateReplicas = nil.
NotCounted == -1

BatchStates == {"Upgrading", "Verifying", "Ready"}

\* getRolloutID: the workload's update revision, prefixed when rolling back.
RolloutIDs == [rev : Revisions, rollback : Flags]

BatchLists == Seq(Nat)

\* No BatchRelease object of this name.
NoBatchRelease ==
  [exists |-> FALSE, guarded |-> FALSE, deleting |-> FALSE,
   batches |-> <<>>, part |-> NoPartition, wait |-> FALSE,
   rid |-> [rev |-> wl.update, rollback |-> FALSE],
   observed |-> FALSE, seen |-> FALSE, completed |-> FALSE,
   batch |-> 0, state |-> "Upgrading", updated |-> 0,
   anno |-> FALSE, rev |-> NoRevision, kept |-> NotCounted]

BatchReleases ==
  [exists : Flags,
   guarded : Flags,        \* has the controller's finalizer
   deleting : Flags,
   batches : BatchLists,   \* releasePlan.batches, updated pods
   part : Indexes,         \* releasePlan.batchPartition
   wait : Flags,           \* finalizingPolicy is WaitResume
   rid : RolloutIDs,       \* releasePlan.rolloutID
   observed : Flags,       \* status.observedReleasePlanHash is current
   seen : Flags,           \* status.observedGeneration is current
   completed : Flags,      \* status.phase is Completed
   batch : Counts,         \* canaryStatus.currentBatch
   state : BatchStates,    \* canaryStatus.batchState
   updated : Counts,       \* canaryStatus.updatedReplicas
   anno : Flags,           \* annotation rollback-in-batch
   rev : RevisionsOrNone,  \* status.updateRevision
   kept : Indexes]         \* canaryStatus.noNeedUpdateReplicas

Workloads ==
  [stable : Revisions,
   update : Revisions,
   anno : Flags,           \* annotation in-rolling-progressing
   consistent : Flags,     \* status.observedGeneration is current
   target : Counts,        \* pods the partition lets the controller update
   open : Flags]           \* the workload's own strategy is in force

BatchReleaseTypeOK ==
  /\ br \in BatchReleases
  /\ wl \in Workloads
  /\ pods \in [Revisions -> Nat]
  /\ ready \in Nat

-----------------------------------------------------------------------------
(* The workload as the controllers read it.                                *)

OtherPods == {r \in Revisions \ {wl.update} : pods[r] > 0}

\* status.updatedReplicas = status.replicas.
SingleVersion == OtherPods = {}

\* getKruiseCloneSet: currentRevision = updateRevision with older pods left.
IsInRollback == wl.anno /\ wl.stable = wl.update /\ ~SingleVersion

RolloutID == [rev |-> wl.update, rollback |-> IsInRollback]

WorkloadInit ==
  \E r \in Revisions :
    /\ wl = [stable |-> r, update |-> r, anno |-> FALSE, consistent |-> TRUE,
             target |-> Replicas, open |-> TRUE]
    /\ pods = [x \in Revisions |-> IF x = r THEN Replicas ELSE 0]
    /\ ready = Replicas
    /\ br = [exists |-> FALSE, guarded |-> FALSE, deleting |-> FALSE,
             batches |-> <<>>, part |-> NoPartition, wait |-> FALSE,
             rid |-> [rev |-> r, rollback |-> FALSE],
             observed |-> FALSE, seen |-> FALSE, completed |-> FALSE,
             batch |-> 0, state |-> "Upgrading", updated |-> 0,
             anno |-> FALSE, rev |-> NoRevision, kept |-> NotCounted]

-----------------------------------------------------------------------------
(* The BatchRelease controller's promise.                                  *)

Greater(m, n) == IF m > n THEN m ELSE n
Lesser(m, n) == IF m < n THEN m ELSE n

Unfinished == br.exists /\ ~br.completed
Finishing == br.deleting \/ br.part = NoPartition
Working == Unfinished /\ ~Finishing

\* SyncWorkloadInformation: events of a stable, not yet promoted workload.
TemplateEvent(rollback) ==
  /\ ~SingleVersion /\ br.rev \notin {NoRevision, wl.update}
  /\ rollback <=> wl.update = wl.stable

\* Variant with a bug: a rollback that is under way is started again.
RollbackInBatchAgain == TemplateEvent(TRUE) \/ br.anno
\* isWorkloadRollbackInBatch.
WorkloadRollbackInBatch == (TemplateEvent(TRUE) \/ br.anno) /\ br.kept = NotCounted

\* No special case stops the round: batches are processed.
Processing ==
  /\ Working /\ br.observed /\ wl.consistent /\ br.rev # NoRevision
  /\ ~TemplateEvent(FALSE) /\ ~WorkloadRollbackInBatch

\* CalculateBatchContext: the updated pods the current batch asks for, on top
\* of the pods a rollback in batches keeps.
DesiredUpdatedReplicas ==
  Lesser(Replicas, Greater(br.kept, 0) + br.batches[br.batch + 1])

\* Variant with a bug: updated pods count before they are ready.
BatchUpdated ==
  br.batch < Len(br.batches) /\ pods[wl.update] >= DesiredUpdatedReplicas

\* IsBatchReady: the current batch's pods are updated and ready.
BatchReady ==
  /\ br.batch < Len(br.batches)
  /\ pods[wl.update] >= DesiredUpdatedReplicas
  /\ ready >= DesiredUpdatedReplicas

\* Publishing a status reports the updated pods and the generation; the
\* finalizer is in place before the first status.
Report(b) == br' = [b EXCEPT !.updated = pods[wl.update], !.seen = TRUE,
                             !.guarded = TRUE]

\* A changed (or new) plan is taken up: the batch restarts at the partition,
\* or at the first batch when the rollout id changed.
BRObserve ==
  /\ Working /\ ~br.observed
  /\ \E b \in {0, Lesser(br.part, Len(br.batches) - 1)} :
       Report([br EXCEPT !.observed = TRUE, !.batch = b, !.state = "Upgrading"])
  /\ UNCHANGED <<wl, pods, ready>>

\* Initialize takes the workload under control and records its revision.
BRPrepare ==
  /\ Working /\ br.observed /\ wl.consistent /\ br.rev = NoRevision
  /\ Report([br EXCEPT !.rev = wl.update,
                       !.kept = IF br.anno THEN pods[wl.update] ELSE NotCounted])
  /\ wl' = [wl EXCEPT !.target = IF BlueGreen THEN @ ELSE 0, !.open = FALSE,
                      !.consistent = ~WorkloadLag]
  /\ UNCHANGED <<pods, ready>>

\* isWorkloadRevisionChanged: the new revision is recorded, the round stops.
BRRevision ==
  /\ Working /\ br.observed /\ wl.consistent /\ TemplateEvent(FALSE)
  /\ Report([br EXCEPT !.rev = wl.update])
  /\ UNCHANGED <<wl, pods, ready>>

\* isRollbackInBatchSatisfied: the batch is prepared again, without the pods
\* that run the stable revision already.
BRRollback ==
  /\ Working /\ br.observed /\ wl.consistent /\ br.rev # NoRevision
  /\ ~TemplateEvent(FALSE) /\ WorkloadRollbackInBatch
  /\ br.anno /\ wl.stable = wl.update
  /\ Report([br EXCEPT !.rev = wl.update, !.kept = pods[wl.update],
                       !.state = "Upgrading"])
  /\ UNCHANGED <<wl, pods, ready>>

\* UpgradeBatch lets the workload update the batch's pods.
BRUpgrade ==
  /\ Processing /\ br.state = "Upgrading" /\ br.batch < Len(br.batches)
  /\ LET t == Greater(wl.target, DesiredUpdatedReplicas) IN
       wl' = [wl EXCEPT !.target = t,
                        !.consistent = @ /\ (WorkloadLag => t = wl.target)]
  /\ Report([br EXCEPT !.state = "Verifying"])
  /\ UNCHANGED <<pods, ready>>

\* EnsureBatchPodsReadyAndLabeled in the Verifying state.
BRVerify ==
  /\ Processing /\ br.state = "Verifying"
  /\ Report([br EXCEPT !.state = IF BatchReady THEN "Ready" ELSE "Upgrading"])
  /\ UNCHANGED <<wl, pods, ready>>

\* The Ready state is checked again; a ready batch below the partition moves on.
BRRecheck ==
  /\ Processing /\ br.state = "Ready"
  /\ \/ ~BatchReady /\ Report([br EXCEPT !.state = "Upgrading"])
     \/ BatchReady /\ br.batch < br.part
        /\ Report([br EXCEPT !.batch = @ + 1, !.state = "Upgrading"])
  /\ UNCHANGED <<wl, pods, ready>>

\* Finalize without a partition hands the workload back to its own strategy.
BRResume ==
  /\ Unfinished /\ br.part = NoPartition /\ ~wl.open
  /\ wl' = [wl EXCEPT !.open = TRUE, !.target = Replicas,
                      !.consistent = @ /\ ~WorkloadLag]
  /\ UNCHANGED <<br, pods, ready>>

\* Finalize succeeds.  Blue-green waits until every ready pod is updated (the
\* older pods are all ready).
BRComplete ==
  /\ Unfinished /\ Finishing
  /\ br.part = NoPartition =>
       wl.open /\ (BlueGreen => SingleVersion)
  /\ Report([br EXCEPT !.completed = TRUE])
  /\ UNCHANGED <<wl, pods, ready>>

\* The finalizer is removed from a deleted, completed BatchRelease.
BRGone ==
  /\ br.exists /\ br.deleting /\ br.completed
  /\ br' = NoBatchRelease
  /\ UNCHANGED <<wl, pods, ready>>

BatchReleaseStep ==
  \/ BRObserve \/ BRPrepare \/ BRRevision \/ BRRollback
  \/ BRUpgrade \/ BRVerify \/ BRRecheck \/ BRResume
  \/ BRComplete \/ BRGone

-----------------------------------------------------------------------------
(* The CloneSet controller (external).                                     *)

\* A pod of the update revision appears: in place of an older one, or, while
\* a blue-green release holds the workload, next to the older ones.
PodUpdated ==
  /\ pods[wl.update] < wl.target
  /\ \/ /\ BlueGreen
        /\ pods' = [pods EXCEPT ![wl.update] = @ + 1]
     \/ /\ ~BlueGreen
        /\ \E r \in OtherPods :
             pods' = [pods EXCEPT ![wl.update] = @ + 1, ![r] = @ - 1]
  /\ UNCHANGED <<br, wl, ready>>

PodBecomesReady ==
  /\ ready < pods[wl.update]
  /\ ready' = ready + 1
  /\ UNCHANGED <<br, wl, pods>>

\* Blue-green, control handed back: the surplus pods go once enough updated
\* ones are ready.
PodScaledDown ==
  /\ BlueGreen /\ wl.open /\ ready >= Replicas
  /\ \E r \in OtherPods : pods' = [pods EXCEPT ![r] = @ - 1]
  /\ UNCHANGED <<br, wl, ready>>

\* status.currentRevision becomes the update revision.
Promoted ==
  /\ wl.stable # wl.update /\ SingleVersion /\ ready = pods[wl.update]
  /\ ready >= Replicas
  /\ wl' = [wl EXCEPT !.stable = wl.update]
  /\ UNCHANGED <<br, pods, ready>>

\* status.observedGeneration catches up.
WorkloadObserved ==
  /\ ~wl.consistent
  /\ wl' = [wl EXCEPT !.consistent = TRUE]
  /\ UNCHANGED <<br, pods, ready>>

WorkloadStep ==
  PodUpdated \/ PodBecomesReady \/ PodScaledDown \/ Promoted \/ WorkloadObserved
=============================================================================
