----------------------- MODULE RolloutTypeProofs -----------------------
(***************************************************************************)
(* Type lemmas for the rollout controller, the traffic-routing manager and *)
(* the controllers below: each operator that modules TrafficRouting,       *)
(* BatchReleaseContract and Rollout build their steps from yields a value  *)
(* of the right type.  Module RolloutProofs rests on them.                 *)
(***************************************************************************)
EXTENDS RolloutProperties, WellFoundedInduction, TLAPS

\* The constants that the fields of the resources are set to have their types.
LEMMA Members ==
  /\ TRUE \in Flags /\ FALSE \in Flags
  /\ 0 \in Counts /\ 1 \in Counts /\ 0 \in Indexes /\ -1 \in Indexes
  /\ NoRevision \in RevisionsOrNone /\ Revisions \subseteq RevisionsOrNone
  /\ NoHash \in Hashes /\ <<>> \in BatchLists
BY DEF Flags, Counts, Indexes, RevisionsOrNone, NoHash, Hashes, BatchLists

\* So do the names the controllers write.
LEMMA Names ==
  /\ {"Initial", "Healthy", "Progressing", "Terminating", "Disabling", "Disabled"}
       \subseteq Phases
  /\ {"None", "Initializing", "InRolling", "Paused", "Finalising", "Cancelling",
      "Completed"} \subseteq Reasons
  /\ {"None", "Init", "Upgrade", "TrafficRouting", "MetricsAnalysis", "Paused",
      "Ready", "Completed"} \subseteq StepStates
  /\ {"None", "END", "RouteTrafficToStable", "ReleaseWorkloadControl"}
       \subseteq FinalisingSteps
  /\ {"None", "True", "False"} \subseteq Outcomes
  /\ {"Upgrading", "Verifying", "Ready"} \subseteq BatchStates
BY DEF Phases, Reasons, StepStates, FinalisingSteps, Outcomes, BatchStates

\* The fields of a Rollout's status.
LEMMA StatusFields ==
  ASSUME NEW s \in Statuses
  PROVE  /\ s.phase \in Phases /\ s.reason \in Reasons /\ s.succeeded \in Outcomes
         /\ s.terminated \in Flags /\ s.sub \in Flags
         /\ s.fresh \in Flags /\ s.cfresh \in Flags
         /\ s.idx \in Counts /\ s.nxt \in Indexes /\ s.reps \in Counts
         /\ s.state \in StepStates /\ s.hash \in Hashes /\ s.fin \in FinalisingSteps
         /\ s.cr \in RevisionsOrNone /\ s.sr \in RevisionsOrNone
         /\ s.pth \in RevisionsOrNone
BY DEF Statuses

\* The plan of a Rollout is a nonempty sequence of steps.
LEMMA StepsType ==
  ASSUME rollout \in Rollouts
  PROVE  /\ steps \in Seq(StepSet) /\ Len(steps) \in Nat \ {0}
         /\ DOMAIN steps = 1 .. Len(steps)
         /\ \A i \in 1 .. Len(steps) : steps[i] \in StepSet
BY PlanAssumption DEF Rollouts, steps

\* calculateRolloutHash yields a hash.
LEMMA HashType ==
  ASSUME rollout \in Rollouts
  PROVE  HashOf(steps) \in Hashes
<1>1. \A i \in 1 .. Len(steps) :
        [replicas |-> steps[i].replicas, traffic |-> steps[i].traffic,
         full |-> steps[i].full] \in HashSet
  BY StepsType DEF StepSet, HashSet
<1> QED  BY <1>1, StepsType DEF HashOf, Hashes

\* createBatchRelease writes one batch per step.
LEMMA BatchesType ==
  ASSUME rollout \in Rollouts
  PROVE  Batches \in BatchLists /\ Len(Batches) = Len(steps)
<1>1. \A i \in 1 .. Len(steps) : steps[i].replicas \in Nat
  BY StepsType DEF StepSet
<1> QED  BY <1>1, StepsType DEF Batches, BatchLists

\* A nonempty set of step numbers has a least one (recalculateCanaryStep).
LEMMA LeastExists ==
  ASSUME NEW S \in SUBSET Nat, S # {}
  PROVE  \E i \in S : \A j \in S : i <= j
<1> DEFINE R == OpToRel(<, Nat)
<1>0. IsWellFoundedOn(R, Nat)
  BY NatLessThanWellFounded
<1> HIDE DEF R
<1>1. PICK x \in S : \A y \in S : ~(<<y, x>> \in R)
  <2>1. S \subseteq Nat
    OBVIOUS
  <2> QED  BY <1>0, <2>1, WFMin, Zenon
<1>2. \A a, b \in Nat : a < b => <<a, b>> \in R
  BY DEF R, OpToRel
<1>3. ASSUME NEW y \in S
      PROVE  x <= y
  <2>1. x \in Nat /\ y \in Nat
    OBVIOUS
  <2>2. ~(y < x)
    BY <1>1, <1>2, <2>1
  <2> QED  BY <2>1, <2>2
<1> QED  BY <1>3

\* NextBatchIndex yields a step number or -1.
LEMMA NextBatchIndexType ==
  ASSUME rollout \in Rollouts, NEW i \in Nat
  PROVE  NextBatchIndex(i) \in Indexes
BY StepsType DEF NextBatchIndex, Indexes

\* calculateRolloutStatus keeps the status well-typed.
LEMMA NewStatusType ==
  ASSUME TypeOK
  PROVE  newStatus \in Statuses
<1>1. status \in Statuses /\ rollout \in Rollouts /\ wl \in Workloads
  BY DEF TypeOK, RolloutTypeOK, BatchReleaseTypeOK
<1>2. Disabled(status) \in Statuses
  BY <1>1, Names DEF Disabled, Statuses
<1>3. HashOf(steps) \in Hashes /\ Len(steps) \in Counts
  BY <1>1, StepsType, HashType DEF Counts
<1>4. \A s \in Statuses : Deployed(s) \in Statuses
  BY <1>1, <1>3, Names, Members DEF Deployed, Statuses, Workloads
<1>5. PhaseTransition(Disabled(status)) \in Statuses
  <2>1. \A s \in Statuses :
          [s EXCEPT !.phase = "Progressing", !.reason = "Initializing",
                    !.cfresh = TRUE, !.succeeded = "None"] \in Statuses
    BY Names, Members DEF Statuses
  <2>2. \A s \in Statuses : [s EXCEPT !.phase = "Healthy"] \in Statuses
    BY Names DEF Statuses
  <2> QED  BY <1>2, <1>4, <2>1, <2>2 DEF PhaseTransition
<1>6. ASSUME NEW t \in Flags
      PROVE  [status EXCEPT !.phase = "Terminating", !.terminated = t] \in Statuses
  BY <1>1, Names DEF Statuses
<1>7. (status.terminated /\ status.phase = "Terminating") \in Flags
  BY DEF Flags
<1>8. [status EXCEPT !.phase = "Terminating",
                     !.terminated = @ /\ status.phase = "Terminating"] \in Statuses
  BY <1>6, <1>7
<1> QED  BY <1>5, <1>8 DEF newStatus

-----------------------------------------------------------------------------
(* The traffic-routing manager preserves its types.                        *)

\* Nothing happens to the network.
LEMMA TrafficSame ==
  ASSUME TrafficTypeOK, UNCHANGED trVars
  PROVE  TrafficTypeOK'
BY DEF TrafficTypeOK, trVars

\* Recording a grace expectation.
LEMMA ExpectType ==
  ASSUME TrafficTypeOK, NEW a \in GraceActions, Expect(a)
  PROVE  grace' \subseteq GraceActions /\ settling' \subseteq GraceActions
BY DEF TrafficTypeOK, Expect

\* Every operation of the manager wrapped in RunWithGraceSeconds keeps the
\* Services, the canary ingress and the expectations well-typed.
LEMMA ManagerType ==
  ASSUME TrafficTypeOK, NEW l, NEW r \in RevisionsOrNone,
         \/ RestoreStableService(l) \/ PatchStableService(r) \/ RestoreGateway
         \/ RemoveCanaryService \/ RouteAllTrafficToNewVersion
         \/ FinalisingTrafficRouting(l)
  PROVE  TrafficTypeOK'
<1>1. {"updateRoute", "restoreGateway", "removeCanaryService", "patchService",
       "restoreService"} \subseteq GraceActions
  BY DEF GraceActions
<1>2. NoRoute \in {NoRoute} \cup (0 .. FullTraffic) /\ 0 \in 0 .. FullTraffic
      /\ FullTraffic \in 0 .. FullTraffic
  BY DEF FullTraffic
<1>3. CASE RestoreStableService(l)
  BY <1>1, <1>3, ExpectType, TrafficSame, Members
  DEF RestoreStableService, TrafficTypeOK
<1>4. CASE PatchStableService(r)
  BY <1>1, <1>4, ExpectType, TrafficSame DEF PatchStableService, TrafficTypeOK
<1>5. CASE RestoreGateway
  BY <1>1, <1>2, <1>5, ExpectType, TrafficSame DEF RestoreGateway, TrafficTypeOK
<1>6. CASE RemoveCanaryService
  BY <1>1, <1>6, ExpectType, TrafficSame, Members
  DEF RemoveCanaryService, TrafficTypeOK
<1>7. CASE RouteAllTrafficToNewVersion
  BY <1>1, <1>2, <1>7, ExpectType, TrafficSame
  DEF RouteAllTrafficToNewVersion, EnsureRoutes, TrafficTypeOK
<1>8. CASE FinalisingTrafficRouting(l)
  BY <1>3, <1>5, <1>6, <1>8 DEF FinalisingTrafficRouting
<1> QED  BY <1>3, <1>4, <1>5, <1>6, <1>7, <1>8

\* So does DoTrafficRouting.
LEMMA DoTrafficRoutingType ==
  ASSUME TrafficTypeOK, NEW st \in RevisionsOrNone, NEW ca \in RevisionsOrNone,
         NEW w \in {NoRoute} \cup (0 .. FullTraffic), NEW recent,
         DoTrafficRouting(st, ca, w, recent)
  PROVE  TrafficTypeOK'
<1>1. 0 \in 0 .. FullTraffic
  BY DEF FullTraffic
<1> QED
  BY <1>1, TrafficSame DEF DoTrafficRouting, EnsureRoutes, TrafficTypeOK

-----------------------------------------------------------------------------
(* The BatchRelease and the workload.                                      *)

\* The fields of the BatchRelease and of the workload.
LEMMA BatchReleaseFields ==
  ASSUME BatchReleaseTypeOK
  PROVE  /\ br.batches \in BatchLists /\ br.part \in Int /\ br.batch \in Nat
         /\ br.updated \in Counts /\ br.kept \in Int
         /\ wl.update \in Revisions /\ wl.stable \in Revisions /\ wl.target \in Nat
         /\ \A r \in Revisions : pods[r] \in Nat
BY DEF BatchReleaseTypeOK, BatchReleases, Workloads, Counts, Indexes

\* An absent BatchRelease is well-typed.
LEMMA NoBatchReleaseType ==
  ASSUME BatchReleaseTypeOK
  PROVE  NoBatchRelease \in BatchReleases
<1>1. [rev |-> wl.update, rollback |-> FALSE] \in RolloutIDs
  BY BatchReleaseFields, Members DEF RolloutIDs
<1>2. NoPartition \in Indexes /\ NotCounted \in Indexes
  BY Members DEF NoPartition, NotCounted
<1> QED  BY <1>1, <1>2, Members, Names DEF NoBatchRelease, BatchReleases

\* getRolloutID yields a rollout id.
LEMMA RolloutIDType ==
  ASSUME BatchReleaseTypeOK
  PROVE  RolloutID \in RolloutIDs /\ IsInRollback \in Flags
<1>1. IsInRollback \in Flags
  BY DEF Flags, IsInRollback
<1> QED  BY <1>1, BatchReleaseFields DEF RolloutID, RolloutIDs

\* syncBatchRelease keeps the BatchRelease well-typed.
LEMMA SyncedBRType ==
  ASSUME BatchReleaseTypeOK
  PROVE  syncedBR \in BatchReleases
BY RolloutIDType, Members DEF syncedBR, BatchReleaseTypeOK, BatchReleases

\* So does removeBatchRelease.
LEMMA RemoveBatchReleaseType ==
  ASSUME BatchReleaseTypeOK, RemoveBatchRelease
  PROVE  br' \in BatchReleases
BY NoBatchReleaseType, Members
DEF RemoveBatchRelease, BatchReleaseTypeOK, BatchReleases

\* So does publishing a status.
LEMMA ReportType ==
  ASSUME BatchReleaseTypeOK, NEW b \in BatchReleases, Report(b)
  PROVE  br' \in BatchReleases
<1>1. pods[wl.update] \in Counts
  BY BatchReleaseFields DEF Counts
<1> QED  BY <1>1, Members DEF Report, BatchReleases

\* CalculateBatchContext yields a number of pods.
LEMMA DesiredType ==
  ASSUME BatchReleaseTypeOK, br.batch < Len(br.batches)
  PROVE  DesiredUpdatedReplicas \in Nat
<1>1. br.batches[br.batch + 1] \in Nat
  BY BatchReleaseFields DEF BatchLists
<1> QED
  BY <1>1, BatchReleaseFields, ReplicasAssumption
  DEF DesiredUpdatedReplicas, Lesser, Greater

\* The BatchRelease controller keeps the types, as long as the partition is a
\* batch of the plan (recalculation of the current batch in signalRecalculate).
LEMMA BatchReleaseStepType ==
  ASSUME BatchReleaseTypeOK, PartitionInRange, BatchReleaseStep
  PROVE  BatchReleaseTypeOK'
<1>1. /\ br \in BatchReleases /\ wl \in Workloads
      /\ pods \in [Revisions -> Nat] /\ ready \in Nat
      /\ wl.update \in RevisionsOrNone /\ pods[wl.update] \in Indexes
      /\ wl.consistent \in Flags
  BY BatchReleaseFields, Members DEF BatchReleaseTypeOK, Workloads, Indexes
<1>2. NotCounted \in Indexes /\ Replicas \in Counts
      /\ (~WorkloadLag) \in Flags /\ (wl.consistent /\ ~WorkloadLag) \in Flags
  BY Members, ReplicasAssumption DEF NotCounted, Counts, Flags
<1>3. CASE BRObserve
  <2>1. PICK b \in {0, Lesser(br.part, Len(br.batches) - 1)} :
          Report([br EXCEPT !.observed = TRUE, !.batch = b, !.state = "Upgrading"])
    BY <1>3 DEF BRObserve
  <2>2. b \in Counts
    BY <1>3, BatchReleaseFields
    DEF BRObserve, Counts, Lesser, BatchLists, Working, Unfinished, Finishing,
        PartitionInRange
  <2> QED
    BY <1>1, <1>3, <2>1, <2>2, ReportType, Members, Names
    DEF BRObserve, BatchReleaseTypeOK, BatchReleases
<1>4. CASE BRPrepare
  <2>1. [br EXCEPT !.rev = wl.update,
                   !.kept = IF br.anno THEN pods[wl.update] ELSE NotCounted]
          \in BatchReleases
    BY <1>1, <1>2 DEF BatchReleases
  <2>2. wl' \in Workloads
    BY <1>1, <1>2, <1>4, Members DEF BRPrepare, Workloads
  <2> QED
    BY <1>1, <1>4, <2>1, <2>2, ReportType DEF BRPrepare, BatchReleaseTypeOK
<1>5. CASE BRRevision
  BY <1>1, <1>5, ReportType DEF BRRevision, BatchReleaseTypeOK, BatchReleases
<1>6. CASE BRRollback
  BY <1>1, <1>6, ReportType, Names DEF BRRollback, BatchReleaseTypeOK, BatchReleases
<1>7. CASE BRUpgrade
  <2>1. wl' \in Workloads
    <3>1. Greater(wl.target, DesiredUpdatedReplicas) \in Counts
      BY <1>7, DesiredType, BatchReleaseFields DEF BRUpgrade, Greater, Counts
    <3>2. ASSUME NEW t \in Counts, NEW c \in Flags
          PROVE  [wl EXCEPT !.target = t, !.consistent = c] \in Workloads
      BY <1>1 DEF Workloads
    <3>3. \A t : (wl.consistent /\ (WorkloadLag => t = wl.target)) \in Flags
      BY DEF Flags
    <3> QED  BY <1>7, <3>1, <3>2, <3>3 DEF BRUpgrade
  <2>2. [br EXCEPT !.state = "Verifying"] \in BatchReleases
    BY <1>1, Names DEF BatchReleases
  <2> QED
    BY <1>1, <1>7, <2>1, <2>2, ReportType DEF BRUpgrade, BatchReleaseTypeOK
<1>8. CASE BRVerify
  BY <1>1, <1>8, ReportType, Names DEF BRVerify, BatchReleaseTypeOK, BatchReleases
<1>9. CASE BRRecheck
  <2>1. br.batch + 1 \in Counts
    BY BatchReleaseFields DEF Counts
  <2>2. /\ [br EXCEPT !.state = "Upgrading"] \in BatchReleases
        /\ [br EXCEPT !.batch = @ + 1, !.state = "Upgrading"] \in BatchReleases
    BY <1>1, <2>1, Names DEF BatchReleases
  <2> QED
    BY <1>1, <1>9, <2>2, ReportType DEF BRRecheck, BatchReleaseTypeOK
<1>10. CASE BRResume
  BY <1>1, <1>2, <1>10, Members DEF BRResume, BatchReleaseTypeOK, Workloads
<1>11. CASE BRComplete
  BY <1>1, <1>11, ReportType, Members DEF BRComplete, BatchReleaseTypeOK, BatchReleases
<1>12. CASE BRGone
  BY <1>1, <1>12, NoBatchReleaseType DEF BRGone, BatchReleaseTypeOK
<1> QED
  BY <1>3, <1>4, <1>5, <1>6, <1>7, <1>8, <1>9, <1>10, <1>11, <1>12
  DEF BatchReleaseStep

\* So does the CloneSet controller.
LEMMA WorkloadStepType ==
  ASSUME BatchReleaseTypeOK, WorkloadStep
  PROVE  BatchReleaseTypeOK'
<1>1. /\ br \in BatchReleases /\ wl \in Workloads
      /\ pods \in [Revisions -> Nat] /\ ready \in Nat /\ wl.update \in Revisions
  BY BatchReleaseFields DEF BatchReleaseTypeOK
<1>2. CASE PodUpdated
  BY <1>1, <1>2 DEF PodUpdated, OtherPods, BatchReleaseTypeOK
<1>3. CASE PodBecomesReady
  BY <1>1, <1>3 DEF PodBecomesReady, BatchReleaseTypeOK
<1>4. CASE PodScaledDown
  BY <1>1, <1>4 DEF PodScaledDown, OtherPods, BatchReleaseTypeOK
<1>5. CASE Promoted
  BY <1>1, <1>5 DEF Promoted, BatchReleaseTypeOK, Workloads
<1>6. CASE WorkloadObserved
  BY <1>1, <1>6, Members DEF WorkloadObserved, BatchReleaseTypeOK, Workloads
<1> QED  BY <1>2, <1>3, <1>4, <1>5, <1>6 DEF WorkloadStep
=============================================================================
