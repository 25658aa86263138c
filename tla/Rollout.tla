------------------------------ MODULE Rollout ------------------------------
(***************************************************************************)
(* The rollout controller (pkg/controller/rollout): one Rollout that       *)
(* drives a CloneSet through the steps of its plan, composed with the      *)
(* traffic-routing manager it calls (module TrafficRouting) and with the   *)
(* BatchRelease controller and the CloneSet controller below it (module    *)
(* BatchReleaseContract).                                                  *)
(*                                                                         *)
(* One call of Reconcile is one action: it reads the Rollout, the workload *)
(* and the BatchRelease, performs at most one modification of each, and    *)
(* writes the new status last.  The branch that a call takes is selected   *)
(* by the guards, in the order of the code.                                *)
(***************************************************************************)
EXTENDS TrafficRouting, BatchReleaseContract

CONSTANTS
  Plans,            \* the step lists a user may write
  RollbackInBatch,  \* annotation rollouts.kruise.io/rollback-in-batch
  Ops,              \* what the user may do in the instance
  Faults,           \* what may fail in the instance: "lost", "restart"
  MaxUserOps        \* bound on the number of user operations

\* A step: canary replicas (scaled to a number), traffic weight (NoRoute when
\* the step has none), a pause with a duration, replicas written as "100%".
StepSet == [replicas : Nat \ {0}, traffic : {NoRoute} \cup (0 .. FullTraffic),
            auto : BOOLEAN, full : BOOLEAN]

ASSUME PlanAssumption ==
  /\ Plans # {}
  /\ \A p \in Plans : p \in Seq(StepSet) /\ Len(p) > 0
ASSUME OpsAssumption ==
  /\ RollbackInBatch \in BOOLEAN
  /\ Ops \subseteq {"release", "continuous", "rollback", "approve", "jump",
                    "revert", "plan", "pause", "disable", "delete"}
  /\ Faults \subseteq {"lost", "restart"}
  /\ MaxUserOps \in Nat

VARIABLES
  rollout,   \* the Rollout's metadata and spec
  status,    \* the Rollout's status
  userOps    \* operations performed by the user so far

rolloutVars == <<rollout, status, userOps>>
vars == <<rolloutVars, trVars, brVars>>

Phases == {"Initial", "Healthy", "Progressing", "Terminating",
           "Disabling", "Disabled"}
Reasons == {"None", "Initializing", "InRolling", "Paused", "Finalising",
            "Cancelling", "Completed"}
StepStates == {"None", "Init", "Upgrade", "TrafficRouting",
               "MetricsAnalysis", "Paused", "Ready", "Completed"}
FinalisingSteps == {"None", "RouteTrafficToStable", "RouteTrafficToNew",
                    "RestoreStableService", "RemoveCanaryService",
                    "ResumeWorkload", "ReleaseWorkloadControl", "END"}

\* The release plan as calculateRolloutHash sees it: pauses are left out.
NoHash == <<>>
HashOf(plan) == [i \in DOMAIN plan |->
                   [replicas |-> plan[i].replicas, traffic |-> plan[i].traffic,
                    full |-> plan[i].full]]
HashSet == [replicas : Nat \ {0}, traffic : {NoRoute} \cup (0 .. FullTraffic),
            full : BOOLEAN]
Hashes == Seq(HashSet)

Outcomes == {"None", "True", "False"}

Rollouts == [exists : Flags, deleting : Flags, disabled : Flags,
             paused : Flags, plan : Plans]
Statuses ==
  [phase : Phases,
   reason : Reasons,       \* Progressing condition
   terminated : Flags,     \* Terminating condition
   succeeded : Outcomes,   \* Succeeded condition
   sub : Flags,            \* canaryStatus or blueGreenStatus is set
   idx : Counts,           \* currentStepIndex
   nxt : Indexes,          \* nextStepIndex
   state : StepStates,     \* currentStepState
   hash : Hashes,          \* rolloutHash
   cr : RevisionsOrNone,   \* canaryRevision
   sr : RevisionsOrNone,   \* stableRevision
   pth : RevisionsOrNone,  \* podTemplateHash
   fin : FinalisingSteps,  \* finalisingStep
   reps : Counts,          \* canaryReplicas
   fresh : Flags,          \* lastUpdateTime is less than a grace period (a
                           \* pause duration) ago
   cfresh : Flags]         \* so is the Progressing condition's

RolloutTypeOK ==
  /\ rollout \in Rollouts
  /\ status \in Statuses
  /\ userOps \in 0 .. MaxUserOps

TypeOK == TrafficTypeOK /\ BatchReleaseTypeOK /\ RolloutTypeOK

\* RolloutStatus.Clear: no canaryStatus, no blueGreenStatus.
Clear(s) ==
  [s EXCEPT !.sub = FALSE, !.idx = 0, !.nxt = 0, !.state = "None",
            !.hash = NoHash, !.cr = NoRevision, !.sr = NoRevision,
            !.pth = NoRevision, !.fin = "None", !.reps = 0, !.fresh = FALSE]

RolloutInit ==
  /\ \E p \in Plans :
       rollout = [exists |-> TRUE, deleting |-> FALSE, disabled |-> FALSE,
                  paused |-> FALSE, plan |-> p]
  /\ status = [phase |-> "Initial", reason |-> "None", terminated |-> FALSE,
               succeeded |-> "None", sub |-> FALSE, idx |-> 0, nxt |-> 0,
               state |-> "None", hash |-> NoHash, cr |-> NoRevision,
               sr |-> NoRevision, pth |-> NoRevision, fin |-> "None",
               reps |-> 0, fresh |-> FALSE, cfresh |-> FALSE]
  /\ userOps = 0

Init == TrafficInit /\ WorkloadInit /\ RolloutInit

-----------------------------------------------------------------------------
(* Reading the plan.                                                       *)

steps == rollout.plan

\* NextBatchIndex.
NextBatchIndex(i) == IF i >= Len(steps) THEN -1 ELSE i + 1

Batches == [i \in DOMAIN steps |-> steps[i].replicas]

\* The step asks for neither a weight nor matches.
NoTraffic(i) == steps[i].traffic = NoRoute

\* IsRealPartition holds for every CloneSet that is not blue-green; the step
\* then leaves no stable pod.
ReplacesAllPods(i) == ~BlueGreen /\ steps[i].replicas >= Replicas

-----------------------------------------------------------------------------
(* Writing the status.                                                     *)

\* updateRolloutStatusInternal, last in every reconcile.  When it fails the
\* modifications made by the reconcile stay.
Write(s) ==
  \/ status' = s
  \/ "lost" \in Faults /\ status' = status

\* calculateRolloutStatus: the status every branch starts from.
\* Variant with a bug: disabling skips the clean-up.
DisabledAtOnce(s) ==
  IF rollout.disabled THEN [s EXCEPT !.phase = "Disabled"] ELSE s

Disabled(s) ==
  IF rollout.disabled /\ s.phase \notin {"Disabled", "Disabling"}
  THEN [s EXCEPT !.phase = IF @ = "Progressing" THEN "Disabling" ELSE "Disabled"]
  ELSE s

\* The first deployment is reported as a completed rollout.
Deployed(s) ==
  [s EXCEPT !.sub = TRUE, !.idx = Len(steps), !.nxt = -1,
            !.state = "Completed", !.hash = HashOf(steps),
            !.cr = wl.update, !.sr = wl.stable, !.pth = wl.update]

PhaseTransition(s) ==
  CASE s.phase = "Initial" -> [s EXCEPT !.phase = "Healthy"]
    [] s.phase = "Healthy" /\ wl.anno ->
         [s EXCEPT !.phase = "Progressing", !.reason = "Initializing",
                   !.cfresh = TRUE, !.succeeded = "None"]
    [] s.phase = "Healthy" /\ ~wl.anno /\ ~s.sub -> Deployed(s)
    [] s.phase = "Disabled" /\ ~rollout.disabled -> [s EXCEPT !.phase = "Healthy"]
    [] OTHER -> s

newStatus ==
  IF rollout.deleting
  THEN [status EXCEPT !.phase = "Terminating",
                      !.terminated = @ /\ status.phase = "Terminating"]
  ELSE PhaseTransition(Disabled(status))

\* An inconsistent workload ends the reconcile unless the Rollout is deleted.
Reconciling(phase) ==
  /\ rollout.exists
  /\ ~(rollout.deleting /\ status.terminated)
  /\ rollout.deleting \/ wl.consistent
  /\ status.phase = phase

\* reconcileRolloutProgressing waits for a consistent workload.
Progressing(reason) ==
  /\ Reconciling("Progressing") /\ wl.consistent
  /\ status.reason = reason

\* No handler runs, or the handler only waits.
ReconcileIdle ==
  /\ \/ \E phase \in {"Initial", "Healthy", "Disabled"} : Reconciling(phase)
     \/ Reconciling("Progressing") /\ ~wl.consistent
  /\ Write(newStatus)
  /\ UNCHANGED <<rollout, userOps, trVars, brVars>>

-----------------------------------------------------------------------------
(* Reasons Initializing, Paused and Completed.                             *)

\* The sub-status at the start of a rollout.
Started(s) ==
  [s EXCEPT !.sub = TRUE, !.idx = 1, !.nxt = NextBatchIndex(1),
            !.state = "Init", !.hash = HashOf(steps), !.cr = wl.update,
            !.sr = wl.stable, !.pth = NoRevision, !.fin = "None",
            !.reps = 0, !.fresh = TRUE]

ProgressingInitializing ==
  /\ Progressing("Initializing")
  /\ IF status.cfresh
     THEN Write(Started(newStatus))
     ELSE Write([Started(newStatus) EXCEPT !.reason = "InRolling"])
  /\ UNCHANGED <<rollout, userOps, trVars, brVars>>

ProgressingPaused ==
  /\ Progressing("Paused")
  /\ IF rollout.paused THEN Write(newStatus)
     ELSE Write([newStatus EXCEPT !.reason = "InRolling"])
  /\ UNCHANGED <<rollout, userOps, trVars, brVars>>

ProgressingCompleted ==
  /\ Progressing("Completed")
  /\ Write([newStatus EXCEPT !.phase = "Healthy"])
  /\ UNCHANGED <<rollout, userOps, trVars, brVars>>

-----------------------------------------------------------------------------
(* Reason InRolling: the special cases, in the code's order.               *)

RollbackInBatchPolicy == RollbackInBatch /\ ~HasTrafficRoutings

isRollingBackDirectly ==
  IsInRollback /\ wl.update # status.cr /\ ~RollbackInBatchPolicy
isRolloutPaused == rollout.paused
isRollingBackInBatches ==
  IsInRollback /\ wl.update # status.cr /\ RollbackInBatchPolicy
isContinuousRelease ==
  status.cr # NoRevision /\ wl.update # status.cr /\ ~IsInRollback
isRolloutPlanChanged ==
  status.hash # NoHash /\ status.hash # HashOf(steps)

RollbackDirectly ==
  /\ Progressing("InRolling") /\ isRollingBackDirectly
  /\ Write([newStatus EXCEPT !.cr = wl.update, !.reason = "Cancelling"])
  /\ UNCHANGED <<rollout, userOps, trVars, brVars>>

RolloutPaused ==
  /\ Progressing("InRolling") /\ ~isRollingBackDirectly /\ isRolloutPaused
  /\ Write([newStatus EXCEPT !.reason = "Paused"])
  /\ UNCHANGED <<rollout, userOps, trVars, brVars>>

\* Every later case: the rollout is not paused, nor rolled back directly.
Rolling ==
  Progressing("InRolling") /\ ~isRollingBackDirectly /\ ~isRolloutPaused

\* Variant with a bug: the first step is counted from zero.
RollbackToStepZero ==
  /\ Rolling /\ isRollingBackInBatches
  /\ Write([newStatus EXCEPT !.idx = 0, !.nxt = NextBatchIndex(0),
                             !.cr = wl.update, !.state = "Init",
                             !.fresh = TRUE, !.hash = HashOf(steps)])
  /\ UNCHANGED <<rollout, userOps, trVars, brVars>>

RollbackInBatches ==
  /\ Rolling /\ isRollingBackInBatches
  /\ Write([newStatus EXCEPT !.idx = 1, !.nxt = NextBatchIndex(1),
                             !.cr = wl.update, !.state = "Init",
                             !.fresh = TRUE, !.hash = HashOf(steps)])
  /\ UNCHANGED <<rollout, userOps, trVars, brVars>>

\* removeBatchRelease; done once the BatchRelease is not found.
RemoveBatchRelease ==
  br' = IF br.deleting THEN br
        ELSE IF br.guarded THEN [br EXCEPT !.deleting = TRUE, !.seen = FALSE]
        ELSE NoBatchRelease

Continuous == Rolling /\ isContinuousRelease

\* Blue-green refuses: "please rollback first".
ContinuousRefused ==
  /\ Continuous /\ BlueGreen
  /\ Write(newStatus)
  /\ UNCHANGED <<rollout, userOps, trVars, brVars>>

\* doProgressingReset starts from the persisted finalisingStep.
ResetStep ==
  IF status.fin \in {"ReleaseWorkloadControl", "RemoveCanaryService"}
  THEN status.fin ELSE "RouteTrafficToStable"

\* The reset has got past the gateway.
ResetRouted ==
  \/ ~HasTrafficRoutings
  \/ ResetStep # "RouteTrafficToStable"
  \/ RestoreGatewayDone

ResetGateway ==
  /\ Continuous /\ ~BlueGreen /\ ~ResetRouted
  /\ RestoreGateway
  /\ Write([newStatus EXCEPT !.fin = "RouteTrafficToStable",
                             !.fresh = @ \/ route' # route])
  /\ UNCHANGED <<rollout, userOps, brVars>>

ResetRelease ==
  /\ Continuous /\ ~BlueGreen /\ ResetRouted /\ br.exists
  /\ ResetStep # "RemoveCanaryService"
  /\ RemoveBatchRelease
  /\ IF HasTrafficRoutings
     THEN Write([newStatus EXCEPT !.fin = "ReleaseWorkloadControl",
                   !.fresh = @ \/ ResetStep = "RouteTrafficToStable"])
     ELSE Write(newStatus)
  /\ UNCHANGED <<rollout, userOps, trVars, wl, pods, ready>>

\* The canary Service goes (no grace period), the sub-status is cleared and
\* the rollout starts again.
ResetDone ==
  /\ Continuous /\ ~BlueGreen /\ ResetRouted
  /\ ~br.exists \/ (HasTrafficRoutings /\ ResetStep = "RemoveCanaryService")
  /\ IF RemoveCanaryServiceDone THEN UNCHANGED trVars ELSE RemoveCanaryService
  /\ Write([Clear(newStatus) EXCEPT !.reason = "Initializing"])
  /\ UNCHANGED <<rollout, userOps, brVars>>

\* doStepJump: follow a nextStepIndex that is not the natural next one.
Jumps(s) == s.nxt # NextBatchIndex(s.idx) /\ s.nxt \in 1 .. Len(steps)
Jumped(s) ==
  [s EXCEPT !.idx = s.nxt, !.nxt = NextBatchIndex(s.nxt), !.fresh = TRUE,
            !.state = IF steps[s.nxt].replicas = s.reps
                      THEN "TrafficRouting" ELSE "Init"]

\* recalculateCanaryStep: the current step if it still covers the batch the
\* BatchRelease is at, else the first one that does, else the last one tried.
RecalculatedStep ==
  LET covering == {i \in DOMAIN steps :
                     br.batches[br.part + 1] <= steps[i].replicas}
  IN IF ~br.exists THEN 1
     ELSE IF status.idx \in covering THEN status.idx
     ELSE IF covering # {}
          THEN CHOOSE i \in covering : \A j \in covering : i <= j
     ELSE IF status.idx = Len(steps) /\ Len(steps) > 1
          THEN Len(steps) - 1 ELSE Len(steps)

PlanChanged ==
  /\ Rolling /\ ~isRollingBackInBatches /\ ~isContinuousRelease
  /\ isRolloutPlanChanged
  /\ LET s == [newStatus EXCEPT !.nxt = RecalculatedStep, !.fresh = TRUE,
                                !.hash = HashOf(steps)]
     IN IF status.nxt = RecalculatedStep
        THEN Write([s EXCEPT !.state = "Ready"])
        ELSE Write(IF Jumps(s) THEN Jumped(s) ELSE s)
  /\ UNCHANGED <<rollout, userOps, trVars, brVars>>

-----------------------------------------------------------------------------
(* Normal rolling: runCanary of the canary and the blue-green manager.     *)

NormalRolling ==
  /\ Rolling /\ ~isRollingBackInBatches /\ ~isContinuousRelease
  /\ ~isRolloutPlanChanged

RollingDone ==
  /\ NormalRolling /\ status.state = "Completed"
  /\ Write([newStatus EXCEPT !.reason = "Finalising"])
  /\ UNCHANGED <<rollout, userOps, trVars, brVars>>

\* syncBatchRelease: the rollout id goes down, the replicas come up.
syncedBR ==
  IF br.exists /\ br.rid # RolloutID
  THEN [br EXCEPT !.rid = RolloutID, !.observed = FALSE, !.seen = FALSE] ELSE br
SyncBatchRelease == br' = syncedBR /\ UNCHANGED <<wl, pods, ready>>

synced ==
  [newStatus EXCEPT !.reps = IF br.exists THEN br.updated ELSE @,
                    !.pth = IF @ = NoRevision THEN wl.update ELSE @]

RunCanary == NormalRolling /\ status.state # "Completed"

StepJump ==
  /\ RunCanary /\ Jumps(synced)
  /\ SyncBatchRelease
  /\ Write(Jumped(synced))
  /\ UNCHANGED <<rollout, userOps, trVars>>

\* A step without traffic first removes what earlier steps routed.
StepCleanUp ==
  /\ RunCanary /\ ~Jumps(synced) /\ NoTraffic(status.idx)
  /\ ~FinalisingTrafficRoutingDone(TRUE)
  /\ SyncBatchRelease
  /\ FinalisingTrafficRouting(TRUE)
  /\ Write([synced EXCEPT !.fresh = @ \/ stableSel' # stableSel \/ route' # route])
  /\ UNCHANGED <<rollout, userOps>>

InState(state) ==
  /\ RunCanary /\ ~Jumps(synced)
  /\ NoTraffic(status.idx) => FinalisingTrafficRoutingDone(TRUE)
  /\ status.state = state

\* Before the first batch the stable Service is pinned to the stable pods;
\* before the last stable pod goes it is unpinned (partition style).
InitUnpins ==
  /\ ~NoTraffic(status.idx) /\ ReplacesAllPods(status.idx)
  /\ ~RestoreStableServiceDone(TRUE)
\* Variant with a bug: the first step is counted from zero.
InitPinsStepZero ==
  /\ ~NoTraffic(status.idx) /\ status.idx = 0
  /\ ~PatchStableServiceDone(status.sr)
InitPins ==
  /\ ~NoTraffic(status.idx) /\ status.idx = 1 /\ ~InitUnpins
  /\ BlueGreen \/ ~DisableGenerateCanaryService
  /\ ~PatchStableServiceDone(status.sr)

StepInitUnpin ==
  /\ InState("Init") /\ InitUnpins
  /\ SyncBatchRelease
  /\ RestoreStableService(TRUE)
  /\ Write(synced)
  /\ UNCHANGED <<rollout, userOps>>

StepInitPin ==
  /\ InState("Init") /\ InitPins
  /\ SyncBatchRelease
  /\ PatchStableService(status.sr)
  /\ Write(synced)
  /\ UNCHANGED <<rollout, userOps>>

\* The canary manager ends the call here for a step without traffic.
StepInitSkip ==
  /\ InState("Init") /\ ~BlueGreen /\ NoTraffic(status.idx)
  /\ SyncBatchRelease
  /\ Write([synced EXCEPT !.state = "Upgrade"])
  /\ UNCHANGED <<rollout, userOps, trVars>>

\* The Upgrade state is entered from Init without leaving the call.
Upgrading ==
  \/ InState("Upgrade")
  \/ InState("Init") /\ ~InitUnpins /\ ~InitPins
     /\ (BlueGreen \/ ~NoTraffic(status.idx))
upgrading ==
  IF status.state = "Init"
  THEN [synced EXCEPT !.state = "Upgrade", !.fresh = TRUE] ELSE synced

\* runBatchRelease: the spec and the annotation this step wants.
SpecUpToDate ==
  /\ br.exists /\ br.batches = Batches /\ br.part = status.idx - 1 /\ ~br.wait
RollbackAnnotation == IsInRollback /\ RollbackInBatch
BatchReleaseUpToDate == SpecUpToDate /\ br.anno = RollbackAnnotation

\* Variant with a bug: the state of the batch is not looked at.
StepStarted == BatchReleaseUpToDate /\ syncedBR.observed /\ syncedBR.seen
StepUpgraded ==
  /\ BatchReleaseUpToDate
  /\ syncedBR.observed /\ syncedBR.seen
  /\ br.state = "Ready" /\ br.batch + 1 >= status.idx

StepUpgradeApply ==
  /\ Upgrading /\ ~BatchReleaseUpToDate
  /\ br' = IF SpecUpToDate THEN [syncedBR EXCEPT !.anno = RollbackAnnotation]
           ELSE [(IF br.exists THEN br
                  ELSE [NoBatchRelease EXCEPT !.exists = TRUE])
                   EXCEPT !.batches = Batches, !.part = status.idx - 1,
                          !.wait = FALSE, !.rid = RolloutID,
                          !.anno = RollbackAnnotation,
                          !.observed = FALSE, !.seen = FALSE]
  /\ Write(upgrading)
  /\ UNCHANGED <<rollout, userOps, trVars, wl, pods, ready>>

StepUpgradeWait ==
  /\ Upgrading /\ BatchReleaseUpToDate /\ ~StepUpgraded
  /\ SyncBatchRelease
  /\ Write(upgrading)
  /\ UNCHANGED <<rollout, userOps, trVars>>

StepUpgradeDone ==
  /\ Upgrading /\ StepUpgraded
  /\ SyncBatchRelease
  /\ Write([upgrading EXCEPT !.pth = wl.update, !.fresh = TRUE,
              !.state = IF ReplacesAllPods(status.idx)
                        THEN "MetricsAnalysis" ELSE "TrafficRouting"])
  /\ UNCHANGED <<rollout, userOps, trVars>>

\* The arguments newTrafficRoutingContext gives DoTrafficRouting.
RoutingDone ==
  DoTrafficRoutingDone(synced.sr, synced.pth, steps[status.idx].traffic, synced.fresh)

StepRoute ==
  /\ InState("TrafficRouting") /\ ~RoutingDone
  /\ SyncBatchRelease
  /\ DoTrafficRouting(synced.sr, synced.pth, steps[status.idx].traffic, synced.fresh)
  /\ Write([synced EXCEPT
       !.fresh = @ \/ DoTrafficRoutingPatches(synced.sr, synced.pth, synced.fresh)])
  /\ UNCHANGED <<rollout, userOps>>

StepRouted ==
  /\ InState("TrafficRouting") /\ RoutingDone
  /\ SyncBatchRelease
  /\ Write([synced EXCEPT !.state = "MetricsAnalysis", !.fresh = TRUE])
  /\ UNCHANGED <<rollout, userOps, trVars>>

\* doCanaryMetricsAnalysis has nothing to do.
StepAnalysed ==
  /\ InState("MetricsAnalysis")
  /\ SyncBatchRelease
  /\ Write([synced EXCEPT !.state = "Paused"])
  /\ UNCHANGED <<rollout, userOps, trVars>>

\* doCanaryPaused; only the canary manager lets a last "100%" step pass.
\* Variant with a bug: a pause with a duration waits for the user.
PauseForever == ~BlueGreen /\ status.idx = Len(steps) /\ steps[status.idx].full
PauseOver ==
  \/ ~BlueGreen /\ status.idx = Len(steps) /\ steps[status.idx].full
  \/ steps[status.idx].auto /\ ~status.fresh

StepPaused ==
  /\ InState("Paused")
  /\ SyncBatchRelease
  /\ IF PauseOver THEN Write([synced EXCEPT !.state = "Ready", !.fresh = TRUE])
     ELSE Write(synced)
  /\ UNCHANGED <<rollout, userOps, trVars>>

\* Variant with a bug: the last step is left out.
StepReadyEarly ==
  /\ InState("Ready")
  /\ SyncBatchRelease
  /\ IF status.idx < Len(steps) - 1
     THEN Write([synced EXCEPT !.idx = @ + 1, !.fresh = TRUE, !.state = "Init",
                               !.nxt = NextBatchIndex(status.idx + 1)])
     ELSE Write([synced EXCEPT !.state = "Completed", !.fresh = TRUE])
  /\ UNCHANGED <<rollout, userOps, trVars>>

StepReady ==
  /\ InState("Ready")
  /\ SyncBatchRelease
  /\ IF status.idx < Len(steps)
     THEN Write([synced EXCEPT !.idx = @ + 1, !.fresh = TRUE, !.state = "Init",
                               !.nxt = NextBatchIndex(status.idx + 1)])
     ELSE Write([synced EXCEPT !.state = "Completed", !.fresh = TRUE])
  /\ UNCHANGED <<rollout, userOps, trVars>>

StepStep ==
  \/ StepJump \/ StepCleanUp
  \/ StepInitUnpin \/ StepInitPin \/ StepInitSkip
  \/ StepUpgradeApply \/ StepUpgradeWait \/ StepUpgradeDone
  \/ StepRoute \/ StepRouted \/ StepAnalysed \/ StepPaused \/ StepReady

-----------------------------------------------------------------------------
(* doCanaryFinalising of both managers.                                    *)

\* Variants with a bug: the canary Service goes first; the pods, or the stable
\* Service, are given back before the traffic is.
ServiceFirstSequence(why) ==
  <<"RemoveCanaryService", "RestoreStableService", "RouteTrafficToStable",
    "ResumeWorkload", "ReleaseWorkloadControl">>
ResumeFirstSequence(why) ==
  <<"RestoreStableService", "ResumeWorkload", "ReleaseWorkloadControl",
    "RouteTrafficToStable", "RemoveCanaryService">>

\* taskSequence of nextCanaryTask and nextBlueGreenTask.
TaskSequence(why) ==
  CASE why = "success" /\ BlueGreen ->
         <<"RouteTrafficToNew", "RestoreStableService", "ResumeWorkload",
           "RouteTrafficToStable", "RemoveCanaryService", "ReleaseWorkloadControl">>
    [] why = "rollback" /\ BlueGreen ->
         <<"RouteTrafficToStable", "ResumeWorkload", "RestoreStableService",
           "RemoveCanaryService", "ReleaseWorkloadControl">>
    [] why = "rollback" /\ ~BlueGreen ->
         <<"RouteTrafficToStable", "ResumeWorkload", "ReleaseWorkloadControl",
           "RestoreStableService", "RemoveCanaryService">>
    [] OTHER ->
         <<"RestoreStableService", "RouteTrafficToStable", "RemoveCanaryService",
           "ResumeWorkload", "ReleaseWorkloadControl">>

\* Variant with a bug: the last task is left out.
NextTaskEarly(why, task) ==
  LET seq == TaskSequence(why) IN
  IF task = "None" THEN seq[1]
  ELSE IF \E i \in 1 .. Len(seq) - 2 : seq[i] = task
       THEN seq[1 + CHOOSE i \in 1 .. Len(seq) - 2 : seq[i] = task]
  ELSE "END"

\* An unknown task, like the last one, is followed by END.
NextTask(why, task) ==
  LET seq == TaskSequence(why) IN
  IF task = "None" THEN seq[1]
  ELSE IF \E i \in 1 .. Len(seq) - 1 : seq[i] = task
       THEN seq[1 + CHOOSE i \in 1 .. Len(seq) - 1 : seq[i] = task]
  ELSE "END"

\* The task the call works on.
Task(why) == IF status.fin = "None" THEN NextTask(why, "None") ELSE status.fin

\* Variant with a bug: the partition stays.
ResumeKeepsPartition(why) == br' = br

\* finalizingBatchRelease.
ResumeWorkloadDone == ~br.exists \/ (br.part = NoPartition /\ br.completed)
ResumeWorkload(why) ==
  br' = IF br.part = NoPartition /\ br.wait = (why = "success") THEN br
        ELSE [br EXCEPT !.part = NoPartition, !.wait = (why = "success"),
                        !.observed = FALSE, !.seen = FALSE]

TaskDone(task) ==
  CASE task = "ResumeWorkload" -> ResumeWorkloadDone
    [] task = "ReleaseWorkloadControl" -> ~br.exists
    [] task = "RouteTrafficToStable" -> RestoreGatewayDone
    [] task = "RestoreStableService" -> RestoreStableServiceDone(wl.consistent)
    [] task = "RemoveCanaryService" -> RemoveCanaryServiceDone
    [] task = "RouteTrafficToNew" -> RouteAllTrafficToNewVersionDone

\* removeRolloutProgressingAnnotation; an inconsistent workload is read
\* without its annotations.
RemoveProgressingAnnotation ==
  wl' = [wl EXCEPT !.anno = @ /\ ~wl.consistent]

NothingToFinalise == ~status.sub \/ status.fin = "END"

\* The call answers "not done": the task needs another call, ...
FinaliseRetry(why, task) ==
  /\ ~NothingToFinalise /\ task = Task(why) /\ ~TaskDone(task)
  /\ RemoveProgressingAnnotation
  /\ \/ task = "ResumeWorkload" /\ ResumeWorkload(why) /\ UNCHANGED trVars
     \/ task = "ReleaseWorkloadControl" /\ RemoveBatchRelease /\ UNCHANGED trVars
     \/ /\ \/ task = "RouteTrafficToStable" /\ RestoreGateway
           \/ task = "RestoreStableService" /\ RestoreStableService(wl.consistent)
           \/ task = "RemoveCanaryService" /\ RemoveCanaryService
           \/ task = "RouteTrafficToNew" /\ RouteAllTrafficToNewVersion
        /\ UNCHANGED br
  /\ UNCHANGED <<pods, ready>>
  /\ Write([newStatus EXCEPT !.fin = task, !.fresh = @ \/ status.fin = "None"])

\* ... or it is done and another one follows.
FinaliseNext(why) ==
  /\ ~NothingToFinalise /\ TaskDone(Task(why))
  /\ NextTask(why, status.fin) # "END"
  /\ RemoveProgressingAnnotation
  /\ Write([newStatus EXCEPT !.fin = NextTask(why, status.fin), !.fresh = TRUE])
  /\ UNCHANGED <<trVars, br, pods, ready>>

\* The call answers "done"; the caller then completes the status.
FinaliseLast(why, done) ==
  /\ ~NothingToFinalise /\ TaskDone(Task(why))
  /\ NextTask(why, status.fin) = "END"
  /\ RemoveProgressingAnnotation
  /\ Write([done EXCEPT !.fin = "END", !.fresh = TRUE])
  /\ UNCHANGED <<trVars, br, pods, ready>>

FinaliseNothing(done) ==
  /\ NothingToFinalise
  /\ IF status.sub THEN RemoveProgressingAnnotation ELSE UNCHANGED wl
  /\ Write(done)
  /\ UNCHANGED <<trVars, br, pods, ready>>

doFinalising(why, done) ==
  /\ \/ \E task \in FinalisingSteps : FinaliseRetry(why, task)
     \/ FinaliseNext(why)
     \/ FinaliseLast(why, done)
     \/ FinaliseNothing(done)
  /\ UNCHANGED <<rollout, userOps>>

ProgressingFinalising ==
  /\ Progressing("Finalising")
  /\ doFinalising("success",
       [newStatus EXCEPT !.reason = "Completed", !.succeeded = "True"])

ProgressingCancelling ==
  /\ Progressing("Cancelling")
  /\ doFinalising("rollback",
       [newStatus EXCEPT !.reason = "Completed", !.succeeded = "False"])

\* Variants with a bug: the end of the sequence is not recorded.
TerminatingForever ==
  Reconciling("Terminating") /\ doFinalising("delete", newStatus)
DisablingForever ==
  Reconciling("Disabling") /\ doFinalising("disabled", newStatus)

RolloutTerminating ==
  /\ Reconciling("Terminating")
  /\ doFinalising("delete", [newStatus EXCEPT !.terminated = TRUE])

RolloutDisabling ==
  /\ Reconciling("Disabling")
  /\ doFinalising("disabled", [newStatus EXCEPT !.phase = "Disabled"])

\* handleFinalizer: the finalizer goes once termination is complete.
FinalizerRemoved ==
  /\ rollout.exists /\ rollout.deleting /\ status.terminated
  /\ rollout' = [rollout EXCEPT !.exists = FALSE]
  /\ UNCHANGED <<status, userOps, trVars, brVars>>

Reconcile ==
  \/ ReconcileIdle
  \/ ProgressingInitializing \/ ProgressingPaused \/ ProgressingCompleted
  \/ RollbackDirectly \/ RolloutPaused \/ RollbackInBatches
  \/ ContinuousRefused \/ ResetGateway \/ ResetRelease \/ ResetDone
  \/ PlanChanged \/ RollingDone \/ StepStep
  \/ ProgressingFinalising \/ ProgressingCancelling
  \/ RolloutTerminating \/ RolloutDisabling
  \/ FinalizerRemoved

-----------------------------------------------------------------------------
(* The environment: time, restarts, garbage collection, the user.          *)

\* A grace period, or a pause duration, passes since the last status change.
StatusAges ==
  /\ status.fresh
  /\ status' = [status EXCEPT !.fresh = FALSE]
  /\ UNCHANGED <<rollout, userOps, trVars, brVars>>

ConditionAges ==
  /\ status.cfresh
  /\ status' = [status EXCEPT !.cfresh = FALSE]
  /\ UNCHANGED <<rollout, userOps, trVars, brVars>>

Time ==
  \/ StatusAges
  \/ ConditionAges
  \/ \E a \in GraceActions : GraceElapses(a) /\ UNCHANGED <<rolloutVars, brVars>>

\* The controller restarts and loses its grace expectations.
Restart ==
  /\ "restart" \in Faults
  /\ ForgetExpectations
  /\ UNCHANGED <<rolloutVars, brVars>>

\* The garbage collector deletes what the Rollout owned: the canary ingress,
\* the canary Service and the BatchRelease.
GarbageCollected ==
  /\ ~rollout.exists
  /\ \/ route # NoRoute \/ canarySvc # NoRevision
     \/ br.exists /\ ~br.deleting
  /\ route' = NoRoute /\ canarySvc' = NoRevision
  /\ IF br.exists THEN RemoveBatchRelease ELSE UNCHANGED br
  /\ UNCHANGED <<rolloutVars, stableSel, grace, settling, wl, pods, ready>>

UserOp(op) ==
  /\ op \in Ops
  /\ userOps < MaxUserOps
  /\ userOps' = userOps + 1

\* The workload webhook (handleCloneSet, fetchMatchedRollout) holds a release:
\* partition 100% and the in-progressing annotation.
Held ==
  /\ rollout.exists /\ ~rollout.deleting /\ status.phase # "Disabled"
  /\ HasTrafficRoutings => SingleVersion

\* "rollback" and "revert" return to the stable revision with and without
\* pods of the new one; "continuous" overtakes an unfinished rollout.
ReleaseKind(r) ==
  IF r = wl.stable THEN IF pods[wl.update] > 0 THEN "rollback" ELSE "revert"
  ELSE IF wl.update = wl.stable /\ status.phase # "Progressing" THEN "release"
  ELSE "continuous"

\* The user changes the workload's pod template.
Release(r) ==
  /\ r # wl.update
  /\ UserOp(ReleaseKind(r))
  /\ wl' = [wl EXCEPT !.update = r, !.consistent = ~WorkloadLag,
                      !.anno = @ \/ Held, !.open = @ /\ ~Held,
                      !.target = IF Held THEN 0 ELSE @]
  /\ ready' = pods[r]
  /\ UNCHANGED <<rollout, status, trVars, br, pods>>

\* The user confirms a paused step (currentStepState patched to StepReady).
Approve ==
  /\ UserOp("approve")
  /\ rollout.exists /\ status.phase = "Progressing" /\ status.state = "Paused"
  /\ status' = [status EXCEPT !.state = "Ready"]
  /\ UNCHANGED <<rollout, trVars, brVars>>

\* The user patches nextStepIndex.
Jump(n) ==
  /\ UserOp("jump")
  /\ rollout.exists /\ status.phase = "Progressing" /\ status.sub
  /\ n # status.nxt
  /\ status' = [status EXCEPT !.nxt = n]
  /\ UNCHANGED <<rollout, trVars, brVars>>

\* Variant with a bug: the number of steps may change at any time.
ChangePlanLength(p) ==
  /\ UserOp("plan")
  /\ rollout.exists /\ p # rollout.plan
  /\ rollout' = [rollout EXCEPT !.plan = p]
  /\ UNCHANGED <<status, trVars, brVars>>

\* The user rewrites the steps; validateRolloutUpdate keeps their number
\* while the rollout progresses or terminates.
ChangePlan(p) ==
  /\ UserOp("plan")
  /\ rollout.exists /\ p # rollout.plan
  /\ status.phase \in {"Progressing", "Terminating"} => Len(p) = Len(rollout.plan)
  /\ rollout' = [rollout EXCEPT !.plan = p]
  /\ UNCHANGED <<status, trVars, brVars>>

Pause ==
  /\ UserOp("pause") /\ rollout.exists
  /\ rollout' = [rollout EXCEPT !.paused = ~@]
  /\ UNCHANGED <<status, trVars, brVars>>

Disable ==
  /\ UserOp("disable") /\ rollout.exists
  /\ rollout' = [rollout EXCEPT !.disabled = ~@]
  /\ UNCHANGED <<status, trVars, brVars>>

Delete ==
  /\ UserOp("delete") /\ rollout.exists /\ ~rollout.deleting
  /\ rollout' = [rollout EXCEPT !.deleting = TRUE]
  /\ UNCHANGED <<status, trVars, brVars>>

User ==
  \/ \E r \in Revisions : Release(r)
  \/ Approve
  \/ \E n \in 0 .. Len(steps) : Jump(n)
  \/ \E p \in Plans : ChangePlan(p)
  \/ Pause \/ Disable \/ Delete

Below == (BatchReleaseStep \/ WorkloadStep) /\ UNCHANGED <<rolloutVars, trVars>>

Next == Reconcile \/ Below \/ Time \/ Restart \/ GarbageCollected \/ User

Spec == Init /\ [][Next]_vars
=============================================================================
