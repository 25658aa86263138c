----------------------- MODULE BatchReleaseProperties -----------------------
(* What the BatchRelease controller must guarantee.                        *)
EXTENDS BatchRelease

\* Updated pods that batch k of the plan asks for.
AskedFor(k) == BatchContext(wl, [st EXCEPT !.batch = k]).desired

\* The partition of an ordered StatefulSet is an ordinal.  Pods below it that run
\* the update revision already, because the user went back to it, come on top
\* of what the batch asks for, unless the release counts them as kept.
AlreadyThere ==
  IF kind = "OrderedStatefulSet" THEN Above(0, wl.low - Above(st.kept, 0)) ELSE 0

\* The step lets the workload update more pods than before.
Raises ==
  /\ wl'.exists /\ wl'.update = wl.update /\ wl'.replicas = wl.replicas
  /\ Admitted(wl') > Admitted(wl) \/ wl'.copy.size > wl.copy.size

\* Blast radius: the workload may update more pods only when the release is
\* being promoted (no partition), or up to what the batch the rollout
\* controller asked for needs, on a workload whose status is current and whose
\* revision the BatchRelease has recorded; whatever round was cut off or
\* repeated before.  The exceptions: a MinReady Deployment whose BatchRelease is
\* deleted (see PartitionRespected); the pods AlreadyThere; and a second rollback
\* within one BatchRelease, an event the executor does not handle once it has
\* counted kept pods, so that it goes on without having recorded the revision.
BlastRadius ==
  [][Raises =>
       \/ plan.part = Nil
       \/ kind = "MinReady" /\ plan.deleting
       \/ /\ wl.observed \/ kind = "Canary"
          /\ st.update = wl.update \/ SingleVersion \/ st.kept # Nil
          /\ Above(Admitted(wl'), wl'.copy.size) <= AskedFor(plan.part) + AlreadyThere]_vars

\* The same without the exception: does not hold.  The webhook promises that a
\* MinReady Deployment never runs on the user's own budget before it is
\* initialized.
PartitionRespected == [][Raises => ~(plan.deleting /\ plan.part # Nil)]_vars

\* Once a template change was noticed ("then abort"), this BatchRelease lets no
\* pod of the new template be updated.  Does not hold: the revision is adopted.
TemplateChangeAborts ==
  [][Raises /\ ~plan.deleting /\ plan.part # Nil /\ ~plan.anno
       => wl.update = NewRevision]_vars

\* Labels follow the plan in force, although it is replaced between the rounds.
\* No batch gets more of them than it has pods, although every round that repeats
\* a batch gives labels out again; and a batch is reported ready only when as many
\* pods carry a label of a batch of the plan as it plans, although the check counts
\* any label of the rollout id: labels of batches that a new plan no longer has were
\* overwritten by then.  (A canary release waits for no labels.)
LabelsFollowPlan ==
  [][/\ \A b \in 1..MaxBatch :
          wl'.labels[b] > wl.labels[b] =>
            /\ b <= Len(plan.batches)
            /\ wl'.labels[b] <= PlannedStepIncrements(plan.batches, wl.replicas, st.batch)[b]
            /\ Labelled(wl') <= UpdatedPods(wl)
     /\ st.state = "Verifying" /\ st'.state = "Ready" /\ kind # "Canary" /\ wl.replicas > 0 =>
          SumOver(wl'.labels, DOMAIN plan.batches) >= Planned(BatchContext(wl, st))]_vars

\* A second canary Deployment of one template is made only when the cache has
\* not shown the first one within the expectation's timeout: not sooner, not
\* after it has been seen, and not by a controller that restarted.
OneCanaryCopy ==
  [][wl'.copy.made > wl.copy.made =>
       \/ wl.copy.made = 0 \/ wl.copy.rev # wl.update
       \/ wl.copy.expected = "expired" /\ ~wl.copy.seen]_vars

\* The canary Deployments "will be cascaded deleted when BatchRelease is
\* deleted": none is left with its finalizer.  Does not hold for a copy the
\* cache has not seen when Finalize runs.
CopiesRemoved == ~plan.exists => wl.copy.made = 0

\* The window of a MinReady Deployment opens to no more than the user's
\* maxUnavailable above the updated pods that are ready at that moment, whatever
\* round was repeated or cut off.  (It stays open when pods are lost, or when the
\* Deployment is scaled to zero and back.)
MinReadyBudget ==
  [][Raises /\ kind = "MinReady" /\ ~wl'.own => Admitted(wl') <= ready + MinReadyStep]_vars

\* The percentage a CloneSet gets holds back exactly the pods the batch leaves
\* on the old revision, whatever their number: for up to 100 replicas.  (With
\* 101 to 199 replicas and one pod to hold back it holds back two.)
KnobIsExact ==
  kind = "CloneSet" /\ st = NoStatus /\ ops = 0 =>
    \A n \in 1..100 : \A s \in 0..n :
      Scaled(ParseIntegerAsPercentageIfPossible(s, n, Percent(50)), n, TRUE) = s

\* The pods a rollback in batches keeps, whenever a batch is sized by them: none
\* that the cut-off rounds of marking and counting missed, and none that is gone.
\* Of the pods left, those that ran the stable revision when the user rolled back
\* (low) are all among them, and all of them run it.  Of the user's template changes
\* only those back to the stable revision are considered: a second rollback within
\* one BatchRelease, see BlastRadius, is not marked again.
KeptIsExact ==
  [][st.state = "Upgrading" /\ st'.state = "Verifying" /\ st'.kept # Nil
       /\ plan.rid # 0 /\ wl.replicas > 0 /\ wl.update = st.update /\ wl.update = wl.stable
       => wl.low <= st'.kept /\ st'.kept <= pods[wl.update]]_vars

\* Completing without a partition, the workload has its own strategy back, is
\* no longer claimed and has its autoscaler; a blue-green CloneSet has no ready
\* pod of an older revision left, and of partition style nothing holds pods back.  (A hold
\* on a workload that is not claimed may stay, see CancelledIsReleased, and so
\* may the strategy of a Deployment that an earlier, deleted BatchRelease has
\* left behind: Finalize passes over a Deployment that is not claimed.)
HandedBack ==
  [][(st.phase # "Completed" /\ st'.phase = "Completed" /\ plan.part = Nil /\ wl.exists) =>
       /\ wl'.own \/ kind = "Canary" \/ (kind = "Deployment" /\ ~wl.owner)
       /\ ~wl'.owner /\ wl'.hpa
       /\ kind = "BGCloneSet" => OldReady = 0
       /\ kind \in PartitionKinds /\ wl.owner => Admitted(wl') = wl.replicas]_vars

\* A blue-green Deployment: "wait all pods updated and ready".  Does not hold:
\* the round after the one that restores the strategy judges an empty object.
BlueGreenWaits ==
  [][(st.phase # "Completed" /\ st'.phase = "Completed" /\ plan.part = Nil /\ wl.exists
        /\ kind = "BGDeployment") => AllUpdatedAndReady(wl)]_vars

\* Finalize of a blue-green Deployment sets "pause to false, restore[s] the
\* original setting": a cancelled release does not stay held.  Does not hold
\* when it is cancelled before Initialize.
CancelledIsReleased ==
  [][(st.phase # "Completed" /\ st'.phase = "Completed" /\ plan.part = Nil /\ wl.exists)
       => Admitted(wl') = wl.replicas]_vars

Finishing == plan.exists /\ plan.part = Nil /\ st.phase # "Completed"

\* A BatchRelease without a partition completes.  (A blue-green CloneSet that
\* the webhook holds at 100% is the exception: see CancellingEnds.)
FinalizingEnds == Finishing ~> (~Finishing \/ (kind = "BGCloneSet" /\ wl.paused))

\* The same without the exception: does not hold.
CancellingEnds == Finishing ~> ~Finishing

\* A deleted BatchRelease goes away.
ReleaseGoesAway == plan.deleting ~> ~plan.exists

\* The hold of a second template change: only Initialize clears the
\* strategy.paused of a partition Deployment and makes a canary copy, only a
\* rising surge clears the hold of a blue-green workload.
HeldAgain ==
  \/ wl.frozen
  \/ kind \in BlueGreenKinds /\ wl.paused /\ wl.knob \notin {Unset, Int32(1)}
  \/ kind = "Canary" /\ st.phase = "Progressing" /\ wl.copy.rev # wl.update

\* The batch the rollout controller asked for gets ready, whatever round was cut
\* off, pod lost, plan or size changed on the way.  After another template change
\* the rollout controller has to act: it replaces the BatchRelease, or says
\* that this is a rollback in batches.  A Deployment or blue-green workload whose
\* template was changed and changed back before that is the exception.
Asked ==
  /\ plan.exists /\ ~plan.deleting /\ plan.part # Nil /\ wl.exists
  /\ wl.update = IF plan.anno THEN wl.stable ELSE NewRevision
  /\ ~HeldAgain
BatchGetsReady == Asked ~> (BatchReported \/ ~Asked)
=============================================================================
