------------------------- MODULE AdvancedDeployment -------------------------
(***************************************************************************)
(* The advanced Deployment controller (pkg/controller/deployment): while a *)
(* partition-style release holds a Deployment (paused, type Recreate), this *)
(* controller moves pods between its ReplicaSets within the partition, the  *)
(* surge and the unavailability of the saved strategy; next to the native   *)
(* Deployment controller, which keeps syncing the paused Deployment.        *)
(*                                                                         *)
(* A round writes ReplicaSets one after the other.  It is computed as the    *)
(* sequence of the states of rs it goes through, so that a round that fails  *)
(* half-way is a prefix of it.                                               *)
(***************************************************************************)
EXTENDS BatchArithmetic, PodRevisions, SequencesExt

CONSTANTS
  Sizes,      \* deployment.spec.replicas
  Partitions, \* values of strategy.partition
  Budgets,    \* records surge, unavailable: strategy.rollingUpdate
  Ops,        \* what others do: "template", "scale", "unprotect", "finish"
  Faults,     \* what goes wrong: "conflict", "podfail", "native"
  MaxInt32,   \* what int32 gives for a float that is too big
  MaxOps      \* bound on Ops and Faults taken together

Knobs == [pct : Flags, n : Counts]

ASSUME SizesAssumption == Sizes \subseteq Counts
ASSUME MaxInt32Assumption == MaxInt32 \in Counts
ASSUME PartitionsAssumption == Partitions \subseteq Knobs /\ Int32(0) \in Partitions
\* Validation: not both 0.
ASSUME BudgetAssumption ==
  /\ Budgets \subseteq [surge : Knobs, unavailable : Knobs]
  /\ \A b \in Budgets : Scaled(b.surge, 100, TRUE) + Scaled(b.unavailable, 100, TRUE) > 0
\* The stable revision and one to release.
ASSUME TwoRevisionsAssumption == \E r, s \in Revisions : r # s
ASSUME MaxOpsAssumption == MaxOps \in Counts

VARIABLES
  dep,     \* the Deployment and its strategy annotation
  rs,      \* ReplicaSets that exist, by revision
  guarded, \* the MutatingWebhookConfiguration exists
  queued,  \* a reconcile request is in the work queue
  ops      \* Ops and Faults so far

vars == <<dep, rs, guarded, queued, ops>>

Deployments ==
  [template : Revisions, replicas : Sizes, part : Partitions, budget : Budgets,
   claimed : Flags,  \* the control annotation of a BatchRelease
   paused : Flags,   \* strategy.paused
   native : Flags]   \* without the label: the native controller's own

ReplicaSets == [size : Counts,        \* spec.replicas
                avail : Counts,       \* status.availableReplicas
                desired : Sizes,      \* annotation desired-replicas
                max : Counts,         \* annotation max-replicas
                rev : Counts,         \* annotation revision
                born : Counts]        \* order of creation

\* No size, and no number of available pods, is ever negative.
TypeOK ==
  /\ dep \in Deployments
  /\ DOMAIN rs \subseteq Revisions /\ rs \in [DOMAIN rs -> ReplicaSets]
  /\ guarded \in Flags /\ queued \in Flags /\ ops \in 0..MaxOps

-----------------------------------------------------------------------------
(* The ReplicaSets, in a state R of them.                                  *)

SizeOf(R, S) == SumOver([r \in S |-> R[r].size], S)
Available(R, S) == SumOver([r \in S |-> R[r].avail], S)
Active(R) == {r \in DOMAIN R : R[r].size > 0}
Olds(R) == DOMAIN R \ {dep.template}
\* FindNewReplicaSet.
HasNew(R) == dep.template \in DOMAIN R

\* The members of S, each after those it is paired with in before.
Sorted(S, before) ==
  CHOOSE s \in SetToSeqs(S) : \A i, j \in DOMAIN s : i < j => <<s[i], s[j]>> \in before

\* ReplicaSetsByCreationTimestamp and its reverse, ByRevision (descending),
\* BySizeOlder and BySizeNewer.
Older(R, a, b) == R[a].born < R[b].born
ByCreation(R, S) == Sorted(S, {p \in S \X S : Older(R, p[1], p[2])})
ByNewest(R, S) == Sorted(S, {p \in S \X S : Older(R, p[2], p[1])})
BySmallerRevision(R, S) ==
  Sorted(S, {p \in S \X S : \/ R[p[1]].rev > R[p[2]].rev
                            \/ R[p[1]].rev = R[p[2]].rev /\ Older(R, p[1], p[2])})
BySizeOlder(R, S) ==
  Sorted(S, {p \in S \X S : \/ R[p[1]].size > R[p[2]].size
                            \/ R[p[1]].size = R[p[2]].size /\ Older(R, p[1], p[2])})
BySizeNewer(R, S) ==
  Sorted(S, {p \in S \X S : \/ R[p[1]].size > R[p[2]].size
                            \/ R[p[1]].size = R[p[2]].size /\ Older(R, p[2], p[1])})

\* ResolveFenceposts: MaxSurge and MaxUnavailable.
MaxSurge == Scaled(dep.budget.surge, dep.replicas, TRUE)
MaxUnavailable ==
  LET n == Scaled(dep.budget.unavailable, dep.replicas, FALSE) IN
    IF dep.replicas = 0 THEN 0
    ELSE Below(dep.replicas, IF n = 0 /\ MaxSurge = 0 THEN 1 ELSE n)
MinAvailable == dep.replicas - MaxUnavailable

Limit == NewRSReplicasLimit(dep.part, dep.replicas)

\* scaleReplicaSet: the replicas and their annotations.
ScaleReplicaSet(x, n) ==
  [x EXCEPT !.size = n, !.desired = dep.replicas, !.max = dep.replicas + MaxSurge]

\* scaleReplicaSetAndRecordEvent: annotations alone are not worth a write.
ScaleAndRecord(x, n) == IF x.size = n THEN x ELSE ScaleReplicaSet(x, n)

\* The states between R and R1 when ReplicaSets are written in this order.
Along(R, R1, order) ==
  [k \in DOMAIN order |->
     [r \in DOMAIN R |-> IF \E j \in 1..k : order[j] = r THEN R1[r] ELSE R[r]]]

\* n pods are taken from ReplicaSets in this order, at most cap[r] from each.
TakenUpTo(order, cap, n, i) == Below(n, SumOver([j \in 1..i |-> cap[order[j]]], 1..i))
Taken(order, cap, n) ==
  [r \in Range(order) |->
     LET i == CHOOSE i \in DOMAIN order : order[i] = r
     IN TakenUpTo(order, cap, n, i) - TakenUpTo(order, cap, n, i - 1)]

\* The ReplicaSets without them.
Without(R, taken) ==
  [r \in DOMAIN R |-> IF r \in DOMAIN taken THEN ScaleAndRecord(R[r], R[r].size - taken[r])
                      ELSE R[r]]

-----------------------------------------------------------------------------
(* Rolling.                                                                *)

\* Variants with a bug: the partition, or the surge, does not bound the new one.
NewRSUnlimited(R) ==
  Below(dep.replicas, Above(R[dep.template].size,
                            R[dep.template].size + dep.replicas + MaxSurge - SizeOf(R, DOMAIN R)))
NewRSAtOnce(R) == Above(R[dep.template].size, Limit)
\* NewRSNewReplicas: up to the partition, as far as the surge allows; all of
\* the replicas if no other ReplicaSet has any.
NewRSNewReplicas(R) ==
  LET n == R[dep.template].size
      total == SizeOf(R, DOMAIN R)
      top == dep.replicas + MaxSurge IN
    IF total <= n THEN dep.replicas
    ELSE IF n >= Limit \/ total >= top THEN n
    ELSE Below(n + Below(top - total, dep.replicas - n), Limit)

\* Variant with a bug: the new ReplicaSet may start empty.
NewRSWithoutLowerBound == 0
\* NewRSReplicasLowerBound: without a surge at least one, or the native
\* controller sees a single active ReplicaSet and scales that.
NewRSReplicasLowerBound == IF MaxSurge > 0 THEN 0 ELSE Below(1, dep.replicas)

MaxRevision(R, S) == Max({0} \cup {R[r].rev : r \in S})

\* getNewReplicaSet of one that exists: its revision is the highest.
SyncRevision(R) ==
  LET next == MaxRevision(R, Olds(R)) + 1 IN
    IF HasNew(R) /\ R[dep.template].rev < next
    THEN [R EXCEPT ![dep.template].rev = next] ELSE R

\* getNewReplicaSet, createIfNotExisted.
GetNewReplicaSet(R) ==
  LET empty == [size |-> 0, avail |-> 0, desired |-> dep.replicas,
                max |-> dep.replicas + MaxSurge, rev |-> MaxRevision(R, DOMAIN R) + 1,
                born |-> Cardinality(DOMAIN R) + 1]
      R1 == [r \in DOMAIN R \cup {dep.template} |-> IF r \in DOMAIN R THEN R[r] ELSE empty]
  IN IF HasNew(R) THEN SyncRevision(R)
     ELSE [R1 EXCEPT ![dep.template].size =
             Above(NewRSNewReplicas(R1), NewRSReplicasLowerBound)]

ReconcileNewReplicaSet(R) ==
  LET n == R[dep.template].size IN
    [R EXCEPT ![dep.template] =
       ScaleAndRecord(@, IF n >= dep.replicas THEN dep.replicas ELSE NewRSNewReplicas(R))]

\* Old pods beyond what the partition leaves to them.
ScaleDownLimitForOld(R, olds) ==
  SizeOf(R, olds) - (dep.replicas - Above(Limit, R[dep.template].size))

\* cleanupUnhealthyReplicas: at most n pods that are not available, from the
\* oldest ReplicaSet on; an error at one whose status counts pods it should no
\* longer have.
CleanupUnhealthyReplicas(R, olds, n) ==
  LET all == ByCreation(R, olds)
      cap == [r \in DOMAIN R |-> Above(0, R[r].size - R[r].avail)]
      stale == {i \in DOMAIN all : 0 < R[all[i]].size /\ R[all[i]].size < R[all[i]].avail}
      order == SubSeq(all, 1, Min(stale \cup {Len(all) + 1}) - 1)
      most == SumOver(cap, Range(order))
  IN [to |-> Without(R, Taken(order, cap, n)), order |-> order, n |-> Below(n, most),
      ok |-> stale = {} \/ most >= n]

\* A slice of n elements, grown by append, has room for one more: the list of
\* all ReplicaSets is then built in its place.
RoomLeft(n) == n \in {3, 5, 6, 7}

\* Variant with a bug: the oldest first.
ScaleDownOldestFirst(R, olds) == ByCreation(R, olds)
\* The old ReplicaSets in the order they are scaled down.  They are sorted by
\* revision; FindNewReplicaSet then sorts the list of all by creation.
ScaleDownOrder(R, olds) ==
  IF RoomLeft(Cardinality(olds))
  THEN SubSeq(ByCreation(R, olds \cup {dep.template}), 1, Cardinality(olds))
  ELSE BySmallerRevision(R, olds)

\* scaleDownOldReplicaSetsForRollingUpdate.
ScaleDownOldReplicaSets(R, olds) ==
  LET order == ScaleDownOrder(R, olds)
      spare == Available(R, olds \cup {dep.template}) - MinAvailable
      n == Below(spare, ScaleDownLimitForOld(R, Range(order)))
      cap == [r \in DOMAIN R |-> R[r].size]
  IN IF spare <= 0 \/ n <= 0 THEN <<>>
     ELSE Along(R, Without(R, Taken(order, cap, n)), order)

\* Variant with a bug: the difference is taken away.
ScaleUpOldBackwards(R, olds, n) ==
  <<[R EXCEPT ![BySizeOlder(R, olds)[1]] = ScaleAndRecord(@, @.size - n)]>>
\* scaleUpOldReplicaSets: the biggest, or older, gets the pods.
ScaleUpOldReplicaSets(R, olds, n) ==
  <<[R EXCEPT ![BySizeOlder(R, olds)[1]] = ScaleAndRecord(@, @.size + n)]>>

\* Variant with a bug: pods of the new ReplicaSet that are not available count.
ReconcileOldUnchecked(R) ==
  LET olds == Active(R) \ {dep.template}
      limit == ScaleDownLimitForOld(R, olds)
      order == BySmallerRevision(R, olds)
      cap == [r \in DOMAIN R |-> R[r].size]
  IN IF olds = {} \/ limit <= 0 THEN <<>> ELSE Along(R, Without(R, Taken(order, cap, limit)), order)
\* reconcileOldReplicaSets: scaled up to their share, or down to it as far as
\* availability allows, pods that are not available first.  An error on the
\* way down ends the round as if nothing was to be done.
ReconcileOldReplicaSets(R) ==
  LET new == R[dep.template]
      olds == Active(R) \ {dep.template}
      limit == ScaleDownLimitForOld(R, olds)
      most == Below(SizeOf(R, DOMAIN R) - MinAvailable - (new.size - new.avail), limit)
      clean == CleanupUnhealthyReplicas(R, olds, most)
  IN IF olds = {} THEN <<>>
     ELSE IF limit <= 0 THEN ScaleUpOldReplicaSets(R, olds, -limit)
     ELSE IF most <= 0 THEN <<>>
     ELSE Along(R, clean.to, clean.order)
          \o (IF clean.ok THEN ScaleDownOldReplicaSets(clean.to, olds) ELSE <<>>)

\* rolloutRolling: scaled up or down, not both.
RolloutRolling(R) ==
  LET R1 == GetNewReplicaSet(R)
      R2 == ReconcileNewReplicaSet(R1)
  IN <<R1>> \o (IF R2 # R1 THEN <<R2>> ELSE ReconcileOldReplicaSets(R1))

-----------------------------------------------------------------------------
(* Scaling, when the size changed or the strategy is paused.               *)

\* FindActiveOrLatest: the only active ReplicaSet, or the one to scale up if
\* none is; {} if there are several.
ActiveOrLatest(R) ==
  CASE Cardinality(Active(R)) > 1 -> {}
    [] Cardinality(Active(R)) = 1 -> Active(R)
    [] Active(R) = {} /\ HasNew(R) -> {dep.template}
    [] OTHER -> {r \in DOMAIN R : \A x \in DOMAIN R : R[x].born <= R[r].born}

IsSaturated(R) ==
  HasNew(R) /\ LET new == R[dep.template] IN {new.size, new.desired, new.avail} = {dep.replicas}

\* getReplicaSetFraction, rounded to the nearest.  Divided by 0 it is infinite,
\* and int32 of that the biggest one (on amd64 the smallest: a negative size,
\* which the API server refuses, where this gives a huge one).
Fraction(R, r) ==
  LET a == R[r].size * (dep.replicas + MaxSurge) IN
    CASE dep.replicas = 0 -> -R[r].size
      [] dep.replicas # 0 /\ R[r].max = 0 -> MaxInt32 - R[r].size
      [] OTHER -> (2 * a + R[r].max) \div (2 * R[r].max) - R[r].size

\* GetProportion: never beyond what is still to be added or removed.
GetProportion(R, r, toAdd, added) ==
  CASE toAdd = added -> 0
    [] toAdd # added /\ toAdd > 0 -> Below(Fraction(R, r), toAdd - added)
    [] toAdd # added /\ toAdd <= 0 -> Above(Fraction(R, r), toAdd - added)

\* The proportions of the first i together.
Added(R, order, toAdd) ==
  LET added[i \in 0..Len(order)] ==
        IF i = 0 THEN 0 ELSE added[i - 1] + GetProportion(R, order[i], toAdd, added[i - 1])
  IN added

\* Variant with a bug: what rounding leaves over is lost.
ScaleWithoutLeftover(R, toAdd) ==
  Along(R, [r \in DOMAIN R |-> IF r \in Active(R)
                               THEN ScaleReplicaSet(R[r], R[r].size + Fraction(R, r)) ELSE R[r]],
        BySizeOlder(R, Active(R)))

\* The larger first; of the same size the newer when scaling up.
ScalingOrder(R, toAdd) ==
  IF toAdd > 0 THEN BySizeNewer(R, Active(R)) ELSE BySizeOlder(R, Active(R))

\* Every active ReplicaSet gets its proportion, the first of them the rest.
ScaleProportionally(R, toAdd) ==
  LET order == ScalingOrder(R, toAdd)
      added == Added(R, order, toAdd)
      size(i) == R[order[i]].size + added[i] - added[i - 1]
                   + (IF i = 1 THEN toAdd - added[Len(order)] ELSE 0)
      sized(r) == Above(0, size(CHOOSE i \in DOMAIN order : order[i] = r))
  IN Along(R, [r \in DOMAIN R |-> IF r \in Range(order) THEN ScaleReplicaSet(R[r], sized(r))
                                  ELSE R[r]], order)

\* scale.
ScaleRound(R) ==
  LET only == ActiveOrLatest(R)
      olds == Active(R) \ {dep.template}
      toAdd == dep.replicas - SizeOf(R, Active(R))
      clean == CleanupUnhealthyReplicas(R, Olds(R), -toAdd) IN
    CASE only # {} -> <<[r \in DOMAIN R |-> IF r \in only THEN ScaleAndRecord(R[r], dep.replicas)
                                            ELSE R[r]]>>
      [] only = {} /\ IsSaturated(R) ->
           Along(R, [r \in DOMAIN R |-> IF r \in olds THEN ScaleAndRecord(R[r], 0) ELSE R[r]],
                 ByNewest(R, olds))
      [] only = {} /\ ~IsSaturated(R) /\ toAdd < 0 ->
           Along(R, clean.to, clean.order)
             \o (IF clean.ok THEN ScaleProportionally(clean.to, toAdd + clean.n) ELSE <<>>)
      [] only = {} /\ ~IsSaturated(R) /\ toAdd >= 0 -> ScaleProportionally(R, toAdd)

IsScalingEvent(R) == \E r \in Active(R) : R[r].desired # dep.replicas

\* IsUnderRolloutControl.
UnderControl == dep.claimed /\ ~dep.native

\* syncDeployment: the states of rs in a round.
SyncDeployment ==
  <<rs>> \o (IF dep.paused \/ IsScalingEvent(rs)
             THEN LET R == SyncRevision(rs) IN <<R>> \o ScaleRound(R)
             ELSE RolloutRolling(rs))

\* DeploymentRolloutSatisfied; if not, the request is repeated, which does
\* nothing as long as nothing changes.
Satisfied(R) ==
  HasNew(R) /\ SizeOf(R, DOMAIN R) = dep.replicas /\ R[dep.template].size >= Limit

-----------------------------------------------------------------------------
(* Actions.                                                                *)

Bounded == ops < MaxOps /\ ops' = ops + 1

Reconcile ==
  /\ queued /\ UnderControl /\ guarded
  /\ \E h \in {SyncDeployment} :
       rs' = Last(h) /\ queued' = (Last(h) # rs)
  /\ UNCHANGED <<dep, guarded, ops>>

\* A write is refused (optimistic lock) or the controller dies: those before
\* it stay.  Retried, because of an error, an event or a restart.
ReconcileFails ==
  /\ "conflict" \in Faults /\ Bounded
  /\ queued /\ UnderControl /\ guarded
  /\ \E h \in {SyncDeployment} : \E i \in 1..(Len(h) - 1) : rs' = h[i]
  /\ UNCHANGED <<dep, guarded, queued>>

\* Not under control, or, mutatingProtectionInvalid, given back to the native
\* controller because no webhook holds it any more.
ReconcileUnguarded ==
  /\ queued /\ ~(UnderControl /\ guarded)
  /\ dep' = [dep EXCEPT !.native = @ \/ UnderControl]
  /\ queued' = FALSE
  /\ UNCHANGED <<rs, guarded, ops>>

Event(d) == dep' = d /\ queued' = TRUE

\* UpgradeBatch.
RaisePartition ==
  /\ UnderControl
  /\ \E p \in Partitions : ~MoreThanOrEqualTo(dep.part, p) /\ Event([dep EXCEPT !.part = p])
  /\ UNCHANGED <<rs, guarded, ops>>

\* The webhook freezes a Deployment whose template changes.
ChangeTemplate ==
  /\ "template" \in Ops /\ Bounded /\ ~dep.native
  /\ \E r \in Revisions \ {dep.template} :
       Event([dep EXCEPT !.template = r, !.paused = TRUE])
  /\ UNCHANGED <<rs, guarded>>

\* Continuous release: the BatchRelease lets go, the next one claims again.
Abandon ==
  /\ UnderControl /\ dep.paused
  /\ dep' = [dep EXCEPT !.claimed = FALSE]
  /\ UNCHANGED <<rs, guarded, queued, ops>>

Claim ==
  /\ ~dep.claimed /\ ~dep.native
  /\ Event([dep EXCEPT !.claimed = TRUE, !.paused = FALSE, !.part = Int32(0)])
  /\ UNCHANGED <<rs, guarded, ops>>

\* Finalize without a partition.
Finish ==
  /\ "finish" \in Ops /\ UnderControl
  /\ dep' = [dep EXCEPT !.claimed = FALSE, !.paused = FALSE, !.native = TRUE]
  /\ UNCHANGED <<rs, guarded, queued, ops>>

Scale ==
  /\ "scale" \in Ops /\ Bounded /\ ~dep.native
  /\ \E n \in Sizes \ {dep.replicas} : Event([dep EXCEPT !.replicas = n])
  /\ UNCHANGED <<rs, guarded>>

\* The handler of webhook configurations enqueues what is labelled.
WebhookDeleted ==
  /\ "unprotect" \in Ops /\ Bounded /\ guarded
  /\ guarded' = FALSE
  /\ queued' = (queued \/ ~dep.native)
  /\ UNCHANGED <<dep, rs>>

\* External: the ReplicaSet controller.  Every change of status is an event.
PodAvailable ==
  /\ \E r \in DOMAIN rs : rs[r].avail < rs[r].size /\ rs' = [rs EXCEPT ![r].avail = @ + 1]
  /\ queued' = TRUE
  /\ UNCHANGED <<dep, guarded, ops>>

PodGone ==
  /\ \E r \in DOMAIN rs : rs[r].avail > rs[r].size /\ rs' = [rs EXCEPT ![r].avail = @ - 1]
  /\ queued' = TRUE
  /\ UNCHANGED <<dep, guarded, ops>>

PodFails ==
  /\ "podfail" \in Faults /\ Bounded
  /\ \E r \in DOMAIN rs : rs[r].avail > 0 /\ rs' = [rs EXCEPT ![r].avail = @ - 1]
  /\ queued' = TRUE
  /\ UNCHANGED <<dep, guarded>>

\* External: the native controller syncs the paused Deployment: the only
\* active ReplicaSet gets all replicas, a saturated new one the old ones'.
NativeSync ==
  /\ "native" \in Faults /\ ~dep.native
  /\ LET only == ActiveOrLatest(rs)
         all(r) == [rs[r] EXCEPT !.size = dep.replicas, !.desired = dep.replicas,
                                 !.max = dep.replicas] IN
       \/ \E r \in only : rs[r].size # dep.replicas /\ rs' = [rs EXCEPT ![r] = all(r)]
       \/ /\ only = {} /\ IsSaturated(rs)
          /\ rs' = [r \in DOMAIN rs |-> IF r = dep.template THEN rs[r]
                                        ELSE [rs[r] EXCEPT !.size = 0]]
  /\ queued' = TRUE
  /\ UNCHANGED <<dep, guarded, ops>>

\* A partition-style release has just claimed the Deployment, which the webhook
\* only lets it do when there are pods.  Which of the revisions is which makes no
\* difference.
Stable == CHOOSE r \in Revisions : TRUE
Init ==
  \E n \in Sizes \ {0}, b \in Budgets :
    /\ dep = [template |-> CHOOSE r \in Revisions : r # Stable, replicas |-> n,
              part |-> Int32(0), budget |-> b, claimed |-> TRUE, paused |-> FALSE,
              native |-> FALSE]
    /\ rs = [r \in {Stable} |-> [size |-> n, avail |-> n, desired |-> n,
                                 max |-> n + Scaled(b.surge, n, TRUE), rev |-> 1, born |-> 1]]
    /\ guarded = TRUE /\ queued = TRUE /\ ops = 0

Controller == Reconcile \/ ReconcileFails \/ ReconcileUnguarded
Release == RaisePartition \/ ChangeTemplate \/ Abandon \/ Claim \/ Finish \/ Scale \/ WebhookDeleted
Cluster == PodAvailable \/ PodGone \/ PodFails \/ NativeSync

Next == Controller \/ Release \/ Cluster

Spec == Init /\ [][Next]_vars

\* The work queue and the ReplicaSet controller keep going; nothing is assumed
\* of the release, the user or the native controller.
\* A round always changes vars, so that the first conjunct is WF_vars(Reconcile)
\* with its ENABLED written out.
FairSpec ==
  /\ Spec
  /\ []<>~(queued /\ UnderControl /\ guarded) \/ []<><<Reconcile>>_vars
  /\ WF_vars(ReconcileUnguarded)
  /\ WF_vars(PodAvailable) /\ WF_vars(PodGone)

-----------------------------------------------------------------------------
(* What the release relies on.                                             *)

New == IF HasNew(rs) THEN rs[dep.template].size ELSE 0
NewNext == IF HasNew(rs') THEN rs'[dep.template].size ELSE 0
Written == rs' # rs /\ dep' = dep /\ \A r \in DOMAIN rs : rs'[r].avail = rs[r].avail

Rolls == Written /\ ~dep.paused /\ ~IsScalingEvent(rs)

\* A round that rolls never takes the new ReplicaSet beyond the partition (or
\* the one pod that keeps the native controller away) while others have pods,
\* also when the native controller has written in between.
PartitionHolds ==
  [][Rolls /\ NewNext > New
       => \/ NewNext <= Above(Limit, NewRSReplicasLowerBound)
          \/ Active(rs) \subseteq {dep.template}]_vars

\* Pods that stay available when the sizes in R are carried out.
Surviving(R) == SumOver([r \in DOMAIN rs |-> Below(rs[r].avail, R[r].size)], DOMAIN rs)
Current == \A r \in DOMAIN rs : rs[r].avail <= rs[r].size
Fresh == HasNew(rs) => rs[dep.template].avail <= rs[dep.template].size

\* Availability: a round that rolls takes no more available pods than
\* maxUnavailable allows, however the rounds before were cut off, and also when
\* the status of the only old ReplicaSet lags behind its size.
AvailabilityKept ==
  [][Rolls /\ (Current \/ (Fresh /\ Cardinality(Active(rs) \ {dep.template}) <= 1))
       => Surviving(rs') >= Below(MinAvailable, Surviving(rs))]_vars

\* maxSurge: a round that rolls creates no pods beyond it, but for the first pod
\* of a new ReplicaSet.
SurgeHolds ==
  [][Rolls /\ SizeOf(rs', DOMAIN rs') > SizeOf(rs, DOMAIN rs)
       => \/ SizeOf(rs', DOMAIN rs') <= dep.replicas + MaxSurge
          \/ ~HasNew(rs) /\ NewNext = 1]_vars

\* The middle revisions are scaled down before the stable one.  MiddleFirstAlways
\* does not hold for three old ReplicaSets with pods.
InOrder ==
  \A s, m \in DOMAIN rs \ {dep.template} :
    rs[s].rev < rs[m].rev /\ rs'[s].size < Below(rs[s].size, rs[s].avail)
      => rs'[m].size = 0
MiddleFirstAlways == [][Rolls => InOrder]_vars

\* The same for up to two old ReplicaSets with pods.
MiddleFirst == [][Rolls /\ Cardinality(Active(rs) \ {dep.template}) <= 2 => InOrder]_vars

\* A ReplicaSet keeps pods from when the Deployment was scaled to none: that
\* round was cut off.
FromZero == dep.replicas > 0 /\ \E r \in Active(rs) : rs[r].max = 0

\* A scaling round that is not cut off, with current statuses, reaches the size
\* of the Deployment, 0 included: rounding neither loses nor adds a pod.
ScaleReached ==
  [][Reconcile /\ Current /\ IsScalingEvent(rs) /\ ~FromZero
       => SizeOf(rs', DOMAIN rs') = dep.replicas]_vars

\* The ReplicaSets whose fraction is computed when pods are scaled up.
Divided(R) ==
  LET toAdd == dep.replicas - SizeOf(R, Active(R))
      order == ScalingOrder(R, toAdd)
      added == Added(R, order, toAdd)
  IN IF toAdd <= 0 THEN {}
     ELSE {order[i] : i \in {i \in DOMAIN order : added[i - 1] # toAdd}}

\* The comment in getReplicaSetFraction: pods are never scaled up in proportion
\* to zero, neither the size of a ReplicaSet nor its max-replicas is zero.  Does
\* not hold for a Deployment that is scaled to zero without surge and up again.
NeverFromZero ==
  queued /\ UnderControl /\ guarded /\ (dep.paused \/ IsScalingEvent(rs))
    /\ ActiveOrLatest(rs) = {} /\ ~IsSaturated(rs)
    => \A r \in Divided(rs) : rs[r].max # 0

\* The batch that was asked for gets its pods: neither this controller nor the
\* native one undoes for ever what the other did.  Does not hold: see Reused.
Rolling == UnderControl /\ guarded /\ ~dep.paused
ConvergesAlways == Rolling ~> (Satisfied(rs) \/ ~Rolling)

\* The same, unless the new ReplicaSet is an older one without pods (its
\* revision was raised) and there is no surge: the first pod is only ensured
\* when a ReplicaSet is created.
Reused ==
  /\ HasNew(rs) /\ MaxSurge = 0
  /\ rs[dep.template].size = 0 /\ rs[dep.template].rev # rs[dep.template].born
Converges == Rolling ~> (Satisfied(rs) \/ ~Rolling \/ Reused)
=============================================================================
