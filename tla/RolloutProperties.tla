------------------------- MODULE RolloutProperties -------------------------
(***************************************************************************)
(* What the rollout controller promises, for both release styles.          *)
(***************************************************************************)
EXTENDS Rollout

Routed == HasTrafficRoutings /\ ~DisableGenerateCanaryService

\* No release overtakes an unfinished one.  The reset of an overtaken release
\* (doProgressingReset) leaves its finalisingStep in the status; when the
\* user goes back to the first release meanwhile, the rollout rolls on with
\* it, and whatever resets or finalises it next starts in mid-sequence.
NoOvertaking == "continuous" \notin Ops

\* The canary ingress never sends traffic to a canary Service that does not
\* exist: DoTrafficRouting creates the Service before the route, and every
\* clean-up (FinalisingTrafficRouting, doProgressingReset,
\* doCanaryFinalising) removes the route before the Service.  (Blue-green is
\* left out: after a last step without traffic RouteAllTrafficToNewVersion
\* creates a route and no Service.)
CanaryRouteHasService ==
  Routed /\ ~BlueGreen /\ NoOvertaking /\ route # NoRoute =>
    canarySvc # NoRevision

\* Nothing of the rollout is left: the stable Service selects all pods again,
\* the canary ingress and Service are gone and the BatchRelease is deleted.
Clean ==
  /\ stableSel = NoRevision /\ canarySvc = NoRevision /\ route = NoRoute
  /\ ~br.exists

\* A rollout that completes, in success or rolled back, has cleaned up
\* everything: no task of doCanaryFinalising's sequence is skipped, whatever
\* write was lost and from whichever step the release was cancelled.
CompletedIsClean ==
  /\ NoOvertaking
  /\ status.phase = "Progressing" /\ status.reason = "Completed"
  => Clean

\* Whenever doCanaryFinalising reports END nothing of the rollout is left.
FinalisedIsClean == status.sub /\ status.fin = "END" => Clean

\* The step a rolling rollout is at exists.
StepInRange ==
  status.phase = "Progressing" /\ status.reason \in {"InRolling", "Paused"} =>
    status.sub /\ status.idx \in 1 .. Len(steps)

\* The batch a BatchRelease may proceed to exists.
PartitionInRange ==
  br.exists => br.part = NoPartition \/ br.part + 1 \in 1 .. Len(br.batches)

\* No index that the controller takes is out of range and no pointer nil:
\* Steps[CurrentStepIndex-1] in runCanary, GetSubStatus() in the InRolling
\* cases, Batches[*BatchPartition] in recalculateCanaryStep.
RollingIsAddressable ==
  status.phase = "Progressing" /\ status.reason \in {"InRolling", "Paused"} =>
    /\ status.sub
    /\ status.idx \in 1 .. Len(steps)
    /\ br.exists => br.part + 1 \in 1 .. Len(br.batches)

\* The workload is handed back to its own strategy (batchPartition nil) only
\* by a finalising sequence, and no sequence ends, is abandoned for another
\* one or restarted while the BatchRelease still stands: whatever interrupts
\* doCanaryFinalising, ReleaseWorkloadControl is still ahead.
HandedBackIsReleased ==
  br.exists /\ br.part = NoPartition =>
    /\ \/ status.phase \in {"Terminating", "Disabling"}
       \/ status.phase = "Progressing" /\ status.reason \in {"Finalising", "Cancelling"}
    /\ status.sub /\ status.fin \notin {"None", "RouteTrafficToNew", "END"}
    /\ status.phase = "Progressing" /\ status.reason = "Cancelling" /\ ~BlueGreen =>
         status.fin \in {"ResumeWorkload", "ReleaseWorkloadControl"}

\* Only a Rollout that is being deleted is terminating.
TerminatingIsDeleted == status.phase = "Terminating" => rollout.deleting

\* The inductive invariant behind RollingIsAddressable: the types, and what
\* the step, the partition and the finalising step have to do with each other.
RollingInv ==
  /\ TypeOK
  /\ StepInRange /\ PartitionInRange
  /\ HandedBackIsReleased /\ TerminatingIsDeleted

\* Every step of every plan is routed and keeps a stable pod.
PlansKeepStable ==
  \A p \in Plans : \A i \in DOMAIN p :
    p[i].traffic # NoRoute /\ (BlueGreen \/ p[i].replicas < Replicas)

\* The user lets the steps follow each other.  A jump over the first step
\* before it has pinned the stable Service leaves it open until TrafficRouting:
\* only step 1 pins before its pods are updated.
NoJumps == "jump" \notin Ops

\* The user does not disable the Rollout, nor rewrite its steps.
NeverDisabled == "disable" \notin Ops
NeverReplanned == "plan" \notin Ops

\* While old and new pods coexist in a progressing rollout whose plans are
\* all routed and keep a stable pod, the stable Service selects the stable
\* pods only, so that no request reaches a new pod except through the canary
\* route (the reason runCanary patches the stable Service before the first
\* batch, and doProgressingReset leaves it alone).
StableServicePinned ==
  /\ Routed /\ PlansKeepStable /\ NoJumps
  /\ status.phase = "Progressing"
  /\ status.reason \in {"Initializing", "InRolling", "Paused"}
  /\ wl.update # wl.stable /\ pods[wl.stable] > 0
  /\ \E r \in Revisions \ {wl.stable} : pods[r] > 0
  => stableSel = wl.stable

-----------------------------------------------------------------------------
(* What a step may never do.                                               *)

\* The canary Service is removed, and a rolled back workload is given back to
\* its own strategy, only when the gateway has been restored for a whole
\* grace period: no proxy still routes to the pods that go away.  (A restart
\* of the controller forgets the grace period.)
DrainedFirst ==
  [][/\ NoOvertaking /\ "restart" \notin Faults /\ rollout.exists
     /\ \/ canarySvc # NoRevision /\ canarySvc' = NoRevision
        \/ /\ status.reason = "Cancelling"
           /\ br.part # NoPartition /\ br'.exists /\ br'.part = NoPartition
     => route = NoRoute /\ "restoreGateway" \notin settling]_vars

\* The pods a step asks for, of which there are no more than replicas.
StepPods(i) == Lesser(Replicas, steps[i].replicas)

\* A step raises the weight of the canary route only when the canary Service
\* selects the new revision and the pods of the step are updated and ready.
TrafficFollowsPods ==
  [][status.reason = "InRolling" /\ route' > route /\ route' > 0 =>
       /\ DisableGenerateCanaryService \/ canarySvc = wl.update
       /\ pods[wl.update] >= StepPods(status.idx)
       /\ ready >= StepPods(status.idx)]_vars

\* A rollout is reported as succeeded only when its revision is really
\* released: the pods of the last step run, whatever was lost or repeated on
\* the way.
SucceededIsReleased ==
  [][status.succeeded # "True" /\ status'.succeeded = "True"
     /\ status.cr = wl.update
     => pods[wl.update] >= StepPods(Len(steps))]_vars

\* A rollback never opens the stable Service to all pods while pods of the
\* rejected revision are left.
RollbackUnpinsLast ==
  [][status.phase = "Progressing" /\ status.reason = "Cancelling"
     /\ stableSel # NoRevision /\ stableSel' = NoRevision
     => Cardinality({r \in Revisions : pods[r] > 0}) = 1]_vars

\* An invalid nextStepIndex does not survive a reconcile of a running step.
NextStepIndexCorrected ==
  [][status.nxt = 0 /\ userOps' = userOps /\ status.idx < Len(steps)
     /\ status.reason = "InRolling" /\ status'.state # status.state
     => status'.nxt # 0]_vars

-----------------------------------------------------------------------------
(* What must happen eventually.                                            *)

\* Kubernetes requeues a reconcile that asks for it or whose objects changed;
\* grace periods and pause durations pass; the BatchRelease and the CloneSet
\* controllers keep working.
Fairness ==
  /\ WF_vars(Reconcile)
  /\ WF_vars(BatchReleaseStep /\ UNCHANGED <<rolloutVars, trVars>>)
  /\ WF_vars(WorkloadStep /\ UNCHANGED <<rolloutVars, trVars>>)
  /\ WF_vars(StatusAges) /\ WF_vars(ConditionAges)
  /\ \A a \in GraceActions :
       WF_vars(GraceElapses(a) /\ UNCHANGED <<rolloutVars, brVars>>)

FairSpec == Spec /\ Fairness

\* A progressing rollout whose pauses have durations comes to an end,
\* whatever is released, rolled back or disabled on the way.
ProgressingEnds == status.phase = "Progressing" ~> status.phase # "Progressing"

\* A deleted Rollout goes away: termination never waits forever.
DeletionEnds == rollout.deleting ~> ~rollout.exists

\* A disabled Rollout reaches the phase Disabled, unless it is enabled again.
DisablingEnds ==
  (rollout.disabled /\ ~rollout.deleting) ~>
    (status.phase = "Disabled" \/ ~rollout.disabled \/ rollout.deleting)
=============================================================================
