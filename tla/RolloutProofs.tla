--------------------------- MODULE RolloutProofs ---------------------------
(***************************************************************************)
(* Proof that RollingInv is an inductive invariant of Spec, for every set  *)
(* of plans and revisions, every number of replicas, both release styles   *)
(* and all faults; and what follows from it.                               *)
(*                                                                         *)
(* A reconcile outside the finalising sequences keeps the step in range    *)
(* and the BatchRelease partitioned (RollingStep); a call of doFinalising  *)
(* is the only one that may hand the workload back, and it does so at a    *)
(* task that ReleaseWorkloadControl still follows (TaskOrder, DoneTask).   *)
(***************************************************************************)
EXTENDS RolloutTypeProofs

-----------------------------------------------------------------------------
(* The status a reconcile starts from, and how a step changes it.          *)

StepOK(s) ==
  s.phase = "Progressing" /\ s.reason \in {"InRolling", "Paused"} =>
    s.sub /\ s.idx \in 1 .. Len(steps)
TermOK(s) == s.phase = "Terminating" => rollout.deleting
HeldOK(b) == b.exists => b.part + 1 \in 1 .. Len(b.batches)
SameCore(s, t) ==
  s.reason = t.reason /\ s.sub = t.sub /\ s.idx = t.idx /\ s.fin = t.fin

\* The types that the invariant contains.
LEMMA InvTypes ==
  ASSUME RollingInv
  PROVE  /\ TrafficTypeOK /\ BatchReleaseTypeOK /\ TypeOK
         /\ status \in Statuses /\ rollout \in Rollouts
         /\ br \in BatchReleases /\ wl \in Workloads
         /\ newStatus \in Statuses
BY NewStatusType DEF RollingInv, TypeOK, RolloutTypeOK, BatchReleaseTypeOK

\* calculateRolloutStatus leaves the step, the reason and the finalising step of
\* a progressing rollout alone, and moves a phase only forward.
LEMMA NewStatusCore ==
  ASSUME RollingInv
  PROVE  /\ TermOK(newStatus)
         /\ status.phase = "Progressing" =>
              /\ newStatus.phase \in {"Progressing", "Disabling", "Terminating"}
              /\ SameCore(newStatus, status)
         /\ status.phase \in {"Terminating", "Disabling"} =>
              /\ newStatus.phase \in {"Terminating", "Disabling"}
              /\ SameCore(newStatus, status)
         /\ status.phase \in {"Initial", "Healthy", "Disabled"} => StepOK(newStatus)
<1>1. status \in Statuses
  BY InvTypes
<1>2. CASE rollout.deleting
  <2>1. newStatus.phase = "Terminating" /\ SameCore(newStatus, status)
    BY <1>1, <1>2 DEF newStatus, Statuses, SameCore
  <2> QED  BY <1>2, <2>1 DEF TermOK, StepOK
<1>3. CASE ~rollout.deleting
  <2>1. status.phase # "Terminating"
    BY <1>3 DEF RollingInv, TerminatingIsDeleted
  <2>2. CASE status.phase \in {"Progressing", "Disabling"}
    BY <1>1, <1>3, <2>2
    DEF newStatus, PhaseTransition, Disabled, Statuses, SameCore, TermOK
  <2>3. CASE status.phase \in {"Initial", "Healthy", "Disabled"}
    BY <1>1, <1>3, <2>3
    DEF newStatus, PhaseTransition, Disabled, Deployed, Statuses, TermOK, StepOK
  <2> QED  BY <1>1, <2>1, <2>2, <2>3, StatusFields DEF Phases
<1> QED  BY <1>2, <1>3

\* A rollout starts at its first step.
LEMMA StartedType ==
  ASSUME RollingInv, NEW s \in Statuses
  PROVE  /\ Started(s) \in Statuses /\ Started(s).phase = s.phase
         /\ StepOK(Started(s)) /\ [Started(s) EXCEPT !.reason = "InRolling"] \in Statuses
         /\ StepOK([Started(s) EXCEPT !.reason = "InRolling"])
         /\ [Started(s) EXCEPT !.reason = "InRolling"].phase = s.phase
<1>1. HashOf(steps) \in Hashes /\ NextBatchIndex(1) \in Indexes
      /\ wl.update \in RevisionsOrNone /\ wl.stable \in RevisionsOrNone
  BY InvTypes, HashType, NextBatchIndexType, BatchReleaseFields, Members
<1>2. Started(s) \in Statuses /\ Started(s).phase = s.phase
      /\ Started(s).sub /\ Started(s).idx = 1
  BY <1>1, Members, Names DEF Started, Statuses
<1>3. [Started(s) EXCEPT !.reason = "InRolling"] \in Statuses
      /\ [Started(s) EXCEPT !.reason = "InRolling"].phase = s.phase
      /\ [Started(s) EXCEPT !.reason = "InRolling"].sub
      /\ [Started(s) EXCEPT !.reason = "InRolling"].idx = 1
  BY <1>2, Names DEF Statuses
<1>4. 1 \in 1 .. Len(steps)
  BY InvTypes, StepsType
<1> QED  BY <1>2, <1>3, <1>4 DEF StepOK

\* A cleared status is not rolling.
LEMMA ClearType ==
  ASSUME NEW s \in Statuses
  PROVE  /\ [Clear(s) EXCEPT !.reason = "Initializing"] \in Statuses
         /\ [Clear(s) EXCEPT !.reason = "Initializing"].phase = s.phase
         /\ StepOK([Clear(s) EXCEPT !.reason = "Initializing"])
<1>1. Clear(s) \in Statuses /\ Clear(s).phase = s.phase
  BY Members, Names DEF Clear, Statuses
<1> QED  BY <1>1, Names DEF Statuses, StepOK

\* doStepJump goes to a step of the plan.
LEMMA JumpedType ==
  ASSUME RollingInv, NEW s \in Statuses, s.sub, Jumps(s)
  PROVE  Jumped(s) \in Statuses /\ StepOK(Jumped(s)) /\ Jumped(s).phase = s.phase
<1>1. s.nxt \in 1 .. Len(steps) /\ s.nxt \in Counts /\ NextBatchIndex(s.nxt) \in Indexes
  BY InvTypes, StepsType, NextBatchIndexType DEF Jumps, Counts
<1>2. Jumped(s) \in Statuses /\ Jumped(s).phase = s.phase /\ Jumped(s).sub
      /\ Jumped(s).idx = s.nxt
  BY <1>1, Members, Names DEF Jumped, Statuses
<1> QED  BY <1>1, <1>2 DEF StepOK

\* syncBatchRelease changes the replicas and the pod template hash only.
LEMMA SyncedType ==
  ASSUME RollingInv
  PROVE  /\ synced \in Statuses /\ synced.phase = newStatus.phase
         /\ SameCore(synced, newStatus)
<1>1. wl.update \in RevisionsOrNone /\ br.updated \in Counts
  BY InvTypes, BatchReleaseFields, Members
<1> QED  BY <1>1, InvTypes DEF synced, Statuses, SameCore

-----------------------------------------------------------------------------
(* A reconcile outside the finalising sequences.                           *)

\* What such a reconcile does to the invariant.
LEMMA RollingStep ==
  ASSUME RollingInv, HeldOK(br'), TrafficTypeOK', br' \in BatchReleases,
         NEW s \in Statuses, StepOK(s), TermOK(s), Write(s),
         UNCHANGED <<rollout, userOps, wl, pods, ready>>
  PROVE  RollingInv'
<1>1. status' \in Statuses
  BY InvTypes DEF Write
<1>2. TypeOK'
  BY <1>1 DEF RollingInv, TypeOK, RolloutTypeOK, BatchReleaseTypeOK
<1>3. steps' = steps
  BY DEF steps
<1>4. StepInRange' /\ TerminatingIsDeleted'
  BY <1>3 DEF RollingInv, StepInRange, TerminatingIsDeleted, StepOK, TermOK, Write
<1>5. PartitionInRange' /\ HandedBackIsReleased'
  <2>1. br'.part \in Int /\ Len(br'.batches) \in Nat
    BY DEF BatchReleases, BatchLists, Indexes
  <2> QED
    BY <2>1 DEF HeldOK, PartitionInRange, HandedBackIsReleased, NoPartition
<1> QED  BY <1>2, <1>4, <1>5 DEF RollingInv

\* Outside the finalising sequences the BatchRelease has a partition.
LEMMA HeldBefore ==
  ASSUME RollingInv,
         \/ status.phase \in {"Initial", "Healthy", "Disabled"}
         \/ /\ status.phase = "Progressing"
            /\ status.reason \notin {"Finalising", "Cancelling"}
  PROVE  HeldOK(br) /\ HeldOK(syncedBR)
<1>1. HeldOK(br)
  BY DEF RollingInv, PartitionInRange, HandedBackIsReleased, HeldOK
<1>2. syncedBR.exists = br.exists /\ syncedBR.part = br.part
      /\ syncedBR.batches = br.batches
  BY InvTypes DEF syncedBR, BatchReleases
<1> QED  BY <1>1, <1>2 DEF HeldOK

\* A reconcile that only writes the status.
LEMMA WriteOnly ==
  ASSUME RollingInv, HeldOK(br), NEW s \in Statuses, StepOK(s), TermOK(s), Write(s),
         UNCHANGED <<rollout, userOps, trVars, brVars>>
  PROVE  RollingInv'
<1>1. UNCHANGED <<br, wl, pods, ready>>
  BY DEF brVars
<1>2. br' \in BatchReleases /\ HeldOK(br') /\ TrafficTypeOK'
  BY <1>1, InvTypes, TrafficSame DEF HeldOK
<1> QED  BY <1>1, <1>2, RollingStep

\* A reconcile in which no handler acts preserves the invariant.
LEMMA ReconcileIdleInv ==
  ASSUME RollingInv, ReconcileIdle
  PROVE  RollingInv'
<1>1. CASE status.phase \in {"Initial", "Healthy", "Disabled"}
  BY <1>1, InvTypes, NewStatusCore, HeldBefore, WriteOnly DEF ReconcileIdle
<1>2. CASE status.phase = "Progressing"
  <2>1. StepOK(newStatus) /\ TermOK(newStatus)
    BY <1>2, NewStatusCore DEF RollingInv, StepInRange, StepOK, SameCore
  <2>2. CASE HeldOK(br)
    BY <2>1, <2>2, InvTypes, WriteOnly DEF ReconcileIdle
  <2>3. CASE ~HeldOK(br)
    <3>1. UNCHANGED <<br, wl, pods, ready, rollout, userOps>> /\ Write(newStatus)
      BY DEF ReconcileIdle, brVars
    <3>2. TypeOK'
      BY <3>1, InvTypes, TrafficSame
      DEF ReconcileIdle, TypeOK, RolloutTypeOK, BatchReleaseTypeOK, Write
    <3>3. steps' = steps
      BY <3>1 DEF steps
    <3>4. /\ status'.phase \in {"Progressing", "Disabling", "Terminating"}
          /\ SameCore(status', status)
      BY <1>2, <3>1, NewStatusCore DEF Write, SameCore
    <3>5. HandedBackIsReleased'
      BY <1>2, <3>1, <3>4 DEF RollingInv, HandedBackIsReleased, SameCore
    <3>6. StepInRange' /\ TerminatingIsDeleted' /\ PartitionInRange'
      BY <2>1, <3>1, <3>3
      DEF RollingInv, StepInRange, TerminatingIsDeleted, PartitionInRange,
          StepOK, TermOK, Write
    <3> QED  BY <3>2, <3>5, <3>6 DEF RollingInv
  <2> QED  BY <2>2, <2>3
<1> QED  BY <1>1, <1>2 DEF ReconcileIdle, Reconciling

\* What holds when reconcileRolloutProgressing runs outside the finalising
\* reasons.
LEMMA ProgressingFacts ==
  ASSUME RollingInv, NEW reason, Progressing(reason),
         reason \notin {"Finalising", "Cancelling"}
  PROVE  /\ status.phase = "Progressing" /\ status.reason = reason
         /\ HeldOK(br) /\ HeldOK(syncedBR) /\ SameCore(newStatus, status)
         /\ StepOK(newStatus) /\ TermOK(newStatus)
<1>1. status.phase = "Progressing" /\ status.reason = reason
  BY DEF Progressing, Reconciling
<1>2. StepOK(newStatus)
  BY <1>1, NewStatusCore DEF RollingInv, StepInRange, StepOK, SameCore
<1> QED  BY <1>1, <1>2, HeldBefore, NewStatusCore

\* The reasons Initializing, Paused and Completed preserve the invariant.
LEMMA WaitingInv ==
  ASSUME RollingInv,
         ProgressingInitializing \/ ProgressingPaused \/ ProgressingCompleted
  PROVE  RollingInv'
<1>1. newStatus \in Statuses /\ TermOK(newStatus)
  BY InvTypes, NewStatusCore
<1>2. CASE ProgressingInitializing
  <2>1. HeldOK(br)
    BY <1>2, ProgressingFacts DEF ProgressingInitializing
  <2>2. TermOK(Started(newStatus))
        /\ TermOK([Started(newStatus) EXCEPT !.reason = "InRolling"])
    BY <1>1, StartedType DEF TermOK
  <2> QED
    BY <1>1, <1>2, <2>1, <2>2, StartedType, WriteOnly DEF ProgressingInitializing
<1>3. CASE ProgressingPaused
  <2>1. /\ HeldOK(br) /\ SameCore(newStatus, status) /\ StepOK(newStatus)
        /\ status.phase = "Progressing" /\ status.reason = "Paused"
    BY <1>3, ProgressingFacts DEF ProgressingPaused
  <2>2. LET s == [newStatus EXCEPT !.reason = "InRolling"]
        IN  s \in Statuses /\ StepOK(s) /\ TermOK(s)
    BY <1>1, <2>1, Names DEF Statuses, StepOK, TermOK, SameCore
  <2> QED  BY <1>1, <1>3, <2>1, <2>2, WriteOnly DEF ProgressingPaused
<1>4. CASE ProgressingCompleted
  <2>1. HeldOK(br)
    BY <1>4, ProgressingFacts DEF ProgressingCompleted
  <2>2. LET s == [newStatus EXCEPT !.phase = "Healthy"]
        IN  s \in Statuses /\ StepOK(s) /\ TermOK(s)
    BY <1>1, Names DEF Statuses, StepOK, TermOK
  <2> QED  BY <1>4, <2>1, <2>2, WriteOnly DEF ProgressingCompleted
<1> QED  BY <1>2, <1>3, <1>4

\* What holds when doProgressingInRolling runs.
LEMMA RollingFacts ==
  ASSUME RollingInv, Progressing("InRolling")
  PROVE  /\ HeldOK(br) /\ HeldOK(syncedBR)
         /\ status.idx \in 1 .. Len(steps) /\ status.idx \in Counts
         /\ newStatus \in Statuses /\ StepOK(newStatus) /\ TermOK(newStatus)
         /\ newStatus.sub /\ newStatus.idx = status.idx
         /\ synced \in Statuses /\ StepOK(synced) /\ TermOK(synced)
         /\ synced.sub /\ synced.idx = status.idx
<1>1. /\ status.phase = "Progressing" /\ status.reason = "InRolling"
      /\ HeldOK(br) /\ HeldOK(syncedBR) /\ SameCore(newStatus, status)
      /\ StepOK(newStatus) /\ TermOK(newStatus)
  BY ProgressingFacts
<1>2. status.sub /\ status.idx \in 1 .. Len(steps)
  BY <1>1 DEF RollingInv, StepInRange
<1>3. synced \in Statuses /\ synced.phase = newStatus.phase
      /\ SameCore(synced, newStatus)
  BY SyncedType
<1> QED
  BY <1>1, <1>2, <1>3, InvTypes, StatusFields DEF SameCore, StepOK, TermOK

\* recalculateCanaryStep finds a step of the plan.
LEMMA RecalculatedStepType ==
  ASSUME RollingInv, status.idx \in 1 .. Len(steps)
  PROVE  RecalculatedStep \in 1 .. Len(steps)
<1>1. Len(steps) \in Nat \ {0} /\ DOMAIN steps = 1 .. Len(steps)
  BY InvTypes, StepsType
<1> DEFINE covering == {i \in DOMAIN steps :
                          br.batches[br.part + 1] <= steps[i].replicas}
           least == CHOOSE i \in covering : \A j \in covering : i <= j
<1>2. covering # {} => least \in 1 .. Len(steps)
  <2>1. covering \in SUBSET Nat /\ covering \subseteq 1 .. Len(steps)
    BY <1>1
  <2> HIDE DEF covering
  <2>2. covering # {} => \E i \in covering : \A j \in covering : i <= j
    BY <2>1, LeastExists
  <2>3. covering # {} => least \in covering
    BY <2>2, Zenon
  <2> HIDE DEF least
  <2> QED  BY <2>1, <2>3
<1> QED  BY <1>1, <1>2 DEF RecalculatedStep

\* The special cases that only write the status.
LEMMA SpecialCasesInv ==
  ASSUME RollingInv,
         \/ RollbackDirectly \/ RolloutPaused \/ RollbackInBatches
         \/ ContinuousRefused \/ PlanChanged \/ RollingDone
  PROVE  RollingInv'
<1>1. /\ Progressing("InRolling") /\ UNCHANGED <<rollout, userOps, trVars, brVars>>
  BY DEF RollbackDirectly, RolloutPaused, RollbackInBatches, ContinuousRefused,
         Continuous, PlanChanged, RollingDone, NormalRolling, Rolling
<1>2. /\ HeldOK(br) /\ status.idx \in 1 .. Len(steps)
      /\ newStatus \in Statuses /\ StepOK(newStatus) /\ TermOK(newStatus)
      /\ newStatus.sub /\ newStatus.idx = status.idx
  BY <1>1, RollingFacts
<1>3. HashOf(steps) \in Hashes /\ NextBatchIndex(1) \in Indexes
      /\ wl.update \in RevisionsOrNone /\ 1 \in 1 .. Len(steps)
  BY InvTypes, HashType, StepsType, NextBatchIndexType, BatchReleaseFields, Members
<1>4. CASE RollbackDirectly
  <2>1. LET s == [newStatus EXCEPT !.cr = wl.update, !.reason = "Cancelling"]
        IN  s \in Statuses /\ StepOK(s) /\ TermOK(s)
    BY <1>2, <1>3, Names DEF Statuses, StepOK, TermOK
  <2> QED  BY <1>1, <1>2, <1>4, <2>1, WriteOnly DEF RollbackDirectly
<1>5. CASE RolloutPaused
  <2>1. LET s == [newStatus EXCEPT !.reason = "Paused"]
        IN  s \in Statuses /\ StepOK(s) /\ TermOK(s)
    BY <1>2, Names DEF Statuses, StepOK, TermOK
  <2> QED  BY <1>1, <1>2, <1>5, <2>1, WriteOnly DEF RolloutPaused
<1>6. CASE RollbackInBatches
  <2> DEFINE s == [newStatus EXCEPT !.idx = 1, !.nxt = NextBatchIndex(1),
                                    !.cr = wl.update, !.state = "Init",
                                    !.fresh = TRUE, !.hash = HashOf(steps)]
  <2>1. s \in Statuses /\ s.phase = newStatus.phase /\ s.sub /\ s.idx = 1
    BY <1>2, <1>3, Names, Members DEF Statuses
  <2>2. StepOK(s) /\ TermOK(s)
    BY <1>2, <1>3, <2>1 DEF StepOK, TermOK
  <2>3. Write(s)
    BY <1>6 DEF RollbackInBatches
  <2> QED  BY <1>1, <1>2, <2>1, <2>2, <2>3, WriteOnly
<1>7. CASE ContinuousRefused
  BY <1>1, <1>2, <1>7, WriteOnly DEF ContinuousRefused
<1>8. CASE PlanChanged
  <2> DEFINE s == [newStatus EXCEPT !.nxt = RecalculatedStep, !.fresh = TRUE,
                                    !.hash = HashOf(steps)]
             t == [s EXCEPT !.state = "Ready"]
  <2>1. RecalculatedStep \in Indexes
    BY <1>2, RecalculatedStepType, InvTypes, StepsType DEF Indexes
  <2>2. s \in Statuses /\ s.phase = newStatus.phase /\ s.sub /\ s.idx = status.idx
    BY <1>2, <1>3, <2>1, Members DEF Statuses
  <2>3. t \in Statuses /\ t.phase = newStatus.phase /\ t.sub /\ t.idx = status.idx
    BY <2>2, Names DEF Statuses
  <2>4. StepOK(s) /\ TermOK(s) /\ StepOK(t) /\ TermOK(t)
    BY <1>2, <2>2, <2>3 DEF StepOK, TermOK
  <2>5. Jumps(s) => Jumped(s) \in Statuses /\ StepOK(Jumped(s)) /\ TermOK(Jumped(s))
    BY <1>2, <2>2, JumpedType DEF TermOK
  <2>6. Write(t) \/ Write(s) \/ (Jumps(s) /\ Write(Jumped(s)))
    BY <1>8 DEF PlanChanged
  <2> QED  BY <1>1, <1>2, <2>2, <2>3, <2>4, <2>5, <2>6, WriteOnly
<1>9. CASE RollingDone
  <2>1. LET s == [newStatus EXCEPT !.reason = "Finalising"]
        IN  s \in Statuses /\ StepOK(s) /\ TermOK(s)
    BY <1>2, Names DEF Statuses, StepOK, TermOK
  <2> QED  BY <1>1, <1>2, <1>9, <2>1, WriteOnly DEF RollingDone
<1> QED  BY <1>4, <1>5, <1>6, <1>7, <1>8, <1>9

-----------------------------------------------------------------------------
(* The reset of a continuous release.                                      *)

\* doProgressingReset preserves the invariant.
LEMMA ResetInv ==
  ASSUME RollingInv, ResetGateway \/ ResetRelease \/ ResetDone
  PROVE  RollingInv'
<1>1. Progressing("InRolling") /\ UNCHANGED <<rollout, userOps, wl, pods, ready>>
  BY DEF ResetGateway, ResetRelease, ResetDone, Continuous, Rolling, brVars
<1>2. /\ HeldOK(br) /\ status.idx \in 1 .. Len(steps)
      /\ newStatus \in Statuses /\ StepOK(newStatus) /\ TermOK(newStatus)
      /\ newStatus.sub /\ newStatus.idx = status.idx
  BY <1>1, RollingFacts
<1>3. ASSUME NEW f \in Flags,
             NEW task \in {"RouteTrafficToStable", "ReleaseWorkloadControl"}
      PROVE  LET s == [newStatus EXCEPT !.fin = task, !.fresh = f]
             IN  s \in Statuses /\ StepOK(s) /\ TermOK(s)
  BY <1>2, Names DEF Statuses, StepOK, TermOK
<1>4. CASE ResetGateway
  <2>1. (newStatus.fresh \/ route' # route) \in Flags
    BY DEF Flags
  <2>2. br' = br /\ RestoreGateway
    BY <1>4 DEF ResetGateway, brVars
  <2>3. TrafficTypeOK'
    BY <2>2, InvTypes, ManagerType, Members
  <2>4. br' \in BatchReleases /\ HeldOK(br')
    BY <1>2, <2>2, InvTypes
  <2> QED  BY <1>1, <1>3, <1>4, <2>1, <2>3, <2>4, RollingStep DEF ResetGateway
<1>5. CASE ResetRelease
  <2>1. (newStatus.fresh \/ ResetStep = "RouteTrafficToStable") \in Flags
    BY DEF Flags
  <2>2. TrafficTypeOK' /\ br' \in BatchReleases
    BY <1>5, InvTypes, TrafficSame, RemoveBatchReleaseType DEF ResetRelease
  <2>3. HeldOK(br')
    BY <1>2, <1>5, InvTypes
    DEF ResetRelease, RemoveBatchRelease, HeldOK, NoBatchRelease, BatchReleases
  <2> QED
    BY <1>1, <1>2, <1>3, <1>5, <2>1, <2>2, <2>3, RollingStep DEF ResetRelease
<1>6. CASE ResetDone
  <2> DEFINE s == [Clear(newStatus) EXCEPT !.reason = "Initializing"]
  <2>1. s \in Statuses /\ StepOK(s) /\ TermOK(s)
    BY <1>2, ClearType DEF TermOK
  <2>2. TrafficTypeOK'
    BY <1>6, InvTypes, TrafficSame, ManagerType, Members DEF ResetDone
  <2>3. br' \in BatchReleases /\ HeldOK(br') /\ Write(s)
    BY <1>2, <1>6, InvTypes DEF ResetDone, brVars
  <2> QED  BY <1>1, <2>1, <2>2, <2>3, RollingStep
<1> QED  BY <1>4, <1>5, <1>6

-----------------------------------------------------------------------------
(* runCanary.                                                              *)

\* A step that synchronises the BatchRelease and writes the status s.
LEMMA SyncWrite ==
  ASSUME RollingInv, Progressing("InRolling"), SyncBatchRelease, TrafficTypeOK',
         NEW s \in Statuses, StepOK(s), TermOK(s), Write(s),
         UNCHANGED <<rollout, userOps>>
  PROVE  RollingInv'
<1>1. br' = syncedBR /\ UNCHANGED <<wl, pods, ready>>
  BY DEF SyncBatchRelease
<1>2. br' \in BatchReleases /\ HeldOK(br')
  BY <1>1, InvTypes, SyncedBRType, RollingFacts
<1> QED  BY <1>1, <1>2, RollingStep

\* The changes runCanary makes to the synchronised status.
LEMMA SyncedExcept ==
  ASSUME RollingInv, Progressing("InRolling"), NEW x \in StepStates, NEW f \in Flags
  PROVE  LET s == [synced EXCEPT !.state = x, !.fresh = f]
             t == [synced EXCEPT !.state = x]
             u == [synced EXCEPT !.fresh = f]
         IN  /\ s \in Statuses /\ StepOK(s) /\ TermOK(s)
             /\ t \in Statuses /\ StepOK(t) /\ TermOK(t)
             /\ u \in Statuses /\ StepOK(u) /\ TermOK(u)
<1>1. synced \in Statuses /\ StepOK(synced) /\ TermOK(synced)
  BY RollingFacts
<1> DEFINE s == [synced EXCEPT !.state = x, !.fresh = f]
           t == [synced EXCEPT !.state = x]
           u == [synced EXCEPT !.fresh = f]
<1>2. s \in Statuses /\ StepOK(s) /\ TermOK(s)
  BY <1>1 DEF Statuses, StepOK, TermOK
<1>3. t \in Statuses /\ StepOK(t) /\ TermOK(t)
  BY <1>1 DEF Statuses, StepOK, TermOK
<1>4. u \in Statuses /\ StepOK(u) /\ TermOK(u)
  BY <1>1 DEF Statuses, StepOK, TermOK
<1> QED  BY <1>2, <1>3, <1>4

\* The status with which doCanaryUpgrade is entered.
LEMMA UpgradingType ==
  ASSUME RollingInv, Progressing("InRolling")
  PROVE  /\ upgrading \in Statuses /\ StepOK(upgrading) /\ TermOK(upgrading)
         /\ upgrading.phase = synced.phase /\ upgrading.sub
         /\ upgrading.idx = status.idx
<1>1. synced \in Statuses /\ StepOK(synced) /\ TermOK(synced) /\ synced.sub
      /\ synced.idx = status.idx
  BY RollingFacts
<1>2. [synced EXCEPT !.state = "Upgrade", !.fresh = TRUE] \in Statuses
  BY <1>1, Names, Members DEF Statuses
<1>3. upgrading \in Statuses /\ upgrading.phase = synced.phase
      /\ upgrading.reason = synced.reason /\ upgrading.sub
      /\ upgrading.idx = status.idx
  BY <1>1, <1>2 DEF upgrading, Statuses
<1> QED  BY <1>1, <1>3 DEF StepOK, TermOK

\* runBatchRelease writes a partition that is a batch of the plan it writes.
LEMMA StepUpgradeApplyInv ==
  ASSUME RollingInv, StepUpgradeApply
  PROVE  RollingInv'
<1>1. Progressing("InRolling") /\ UNCHANGED <<rollout, userOps, wl, pods, ready, trVars>>
  BY DEF StepUpgradeApply, Upgrading, InState, RunCanary, NormalRolling, Rolling
<1>2. /\ HeldOK(syncedBR) /\ status.idx \in 1 .. Len(steps)
      /\ Len(steps) \in Nat /\ syncedBR \in BatchReleases
  BY <1>1, InvTypes, RollingFacts, StepsType, SyncedBRType
<1>3. RolloutID \in RolloutIDs /\ RollbackAnnotation \in Flags
      /\ Batches \in BatchLists /\ Len(Batches) = Len(steps)
      /\ status.idx - 1 \in Indexes
  <2>1. RollbackAnnotation \in Flags
    BY DEF RollbackAnnotation, Flags
  <2> QED  BY <1>2, <2>1, InvTypes, RolloutIDType, BatchesType DEF Indexes
<1>4. br' \in BatchReleases /\ HeldOK(br')
  <2>1. CASE SpecUpToDate
    <3>1. br' = [syncedBR EXCEPT !.anno = RollbackAnnotation]
      BY <2>1 DEF StepUpgradeApply
    <3> QED  BY <1>2, <1>3, <3>1 DEF HeldOK, BatchReleases
  <2>2. CASE ~SpecUpToDate
    <3> DEFINE b == IF br.exists THEN br ELSE [NoBatchRelease EXCEPT !.exists = TRUE]
    <3>1. b \in BatchReleases
      BY InvTypes, NoBatchReleaseType, Members DEF BatchReleases
    <3>2. br' = [b EXCEPT !.batches = Batches, !.part = status.idx - 1,
                          !.wait = FALSE, !.rid = RolloutID,
                          !.anno = RollbackAnnotation,
                          !.observed = FALSE, !.seen = FALSE]
      BY <2>2 DEF StepUpgradeApply
    <3> HIDE DEF b
    <3>3. br' \in BatchReleases /\ br'.part = status.idx - 1 /\ br'.batches = Batches
      BY <1>3, <3>1, <3>2, Members DEF BatchReleases
    <3> QED  BY <1>2, <1>3, <3>3 DEF HeldOK
  <2> QED  BY <2>1, <2>2
<1>5. TrafficTypeOK'
  BY <1>1, InvTypes, TrafficSame
<1>6. upgrading \in Statuses /\ StepOK(upgrading) /\ TermOK(upgrading)
  BY <1>1, UpgradingType
<1> QED  BY <1>1, <1>4, <1>5, <1>6, RollingStep DEF StepUpgradeApply

\* Every step of runCanary preserves the invariant.
LEMMA StepStepInv ==
  ASSUME RollingInv, StepStep
  PROVE  RollingInv'
<1>1. Progressing("InRolling")
  BY DEF StepStep, StepJump, StepCleanUp, StepInitUnpin, StepInitPin, StepInitSkip,
         StepUpgradeApply, StepUpgradeWait, StepUpgradeDone, StepRoute, StepRouted,
         StepAnalysed, StepPaused, StepReady, Upgrading, InState, RunCanary,
         NormalRolling, Rolling
<1>2. /\ status.idx \in 1 .. Len(steps) /\ status.idx \in Nat /\ Len(steps) \in Nat
      /\ synced \in Statuses /\ StepOK(synced) /\ TermOK(synced)
      /\ synced.sub /\ synced.idx = status.idx
  BY <1>1, InvTypes, RollingFacts, StepsType
<1>3. /\ TrafficTypeOK /\ synced.sr \in RevisionsOrNone
      /\ synced.pth \in RevisionsOrNone /\ status.sr \in RevisionsOrNone
  BY <1>2, InvTypes, StatusFields
<1>4. UNCHANGED trVars => TrafficTypeOK'
  BY <1>3, TrafficSame
<1>5. CASE StepJump
  <2>1. Jumped(synced) \in Statuses /\ StepOK(Jumped(synced)) /\ TermOK(Jumped(synced))
    BY <1>2, <1>5, JumpedType DEF StepJump, TermOK
  <2> QED  BY <1>1, <1>4, <1>5, <2>1, SyncWrite DEF StepJump
<1>6. CASE StepCleanUp
  <2>1. (synced.fresh \/ stableSel' # stableSel \/ route' # route) \in Flags
    BY DEF Flags
  <2>2. TrafficTypeOK'
    BY <1>3, <1>6, ManagerType DEF StepCleanUp
  <2> QED
    BY <1>1, <1>6, <2>1, <2>2, SyncedExcept, SyncWrite, Names DEF StepCleanUp
<1>7. CASE StepInitUnpin \/ StepInitPin
  <2>1. TrafficTypeOK' /\ SyncBatchRelease /\ Write(synced) /\ UNCHANGED <<rollout, userOps>>
    BY <1>3, <1>7, ManagerType DEF StepInitUnpin, StepInitPin
  <2> QED  BY <1>1, <1>2, <2>1, SyncWrite
<1>8. CASE StepInitSkip
  BY <1>1, <1>4, <1>8, SyncedExcept, SyncWrite, Names, Members DEF StepInitSkip
<1>9. CASE StepUpgradeApply
  BY <1>9, StepUpgradeApplyInv
<1>10. CASE StepUpgradeWait
  BY <1>1, <1>4, <1>10, UpgradingType, SyncWrite DEF StepUpgradeWait
<1>11. CASE StepUpgradeDone
  <2> DEFINE s == [upgrading EXCEPT !.pth = wl.update, !.fresh = TRUE,
                     !.state = IF ReplacesAllPods(status.idx)
                               THEN "MetricsAnalysis" ELSE "TrafficRouting"]
  <2>1. upgrading \in Statuses /\ StepOK(upgrading) /\ TermOK(upgrading)
        /\ wl.update \in RevisionsOrNone
    BY <1>1, InvTypes, UpgradingType, BatchReleaseFields, Members
  <2>2. s \in Statuses /\ s.phase = upgrading.phase /\ s.reason = upgrading.reason
        /\ s.sub = upgrading.sub /\ s.idx = upgrading.idx
    BY <2>1, Names, Members DEF Statuses
  <2>3. StepOK(s) /\ TermOK(s)
    BY <2>1, <2>2 DEF StepOK, TermOK
  <2>4. Write(s)
    BY <1>11 DEF StepUpgradeDone
  <2> QED  BY <1>1, <1>4, <1>11, <2>2, <2>3, <2>4, SyncWrite DEF StepUpgradeDone
<1>12. CASE StepRoute
  <2>1. steps[status.idx].traffic \in {NoRoute} \cup (0 .. FullTraffic)
    BY <1>2, InvTypes, StepsType DEF StepSet
  <2>2. TrafficTypeOK'
    BY <1>3, <1>12, <2>1, DoTrafficRoutingType DEF StepRoute
  <2>3. (synced.fresh \/ DoTrafficRoutingPatches(synced.sr, synced.pth, synced.fresh))
          \in Flags
    BY DEF Flags
  <2> QED
    BY <1>1, <1>12, <2>2, <2>3, SyncedExcept, SyncWrite, Names DEF StepRoute
<1>13. CASE StepRouted
  BY <1>1, <1>4, <1>13, SyncedExcept, SyncWrite, Names, Members DEF StepRouted
<1>14. CASE StepAnalysed
  BY <1>1, <1>4, <1>14, SyncedExcept, SyncWrite, Names, Members DEF StepAnalysed
<1>15. CASE StepPaused
  BY <1>1, <1>2, <1>4, <1>15, SyncedExcept, SyncWrite, Names, Members DEF StepPaused
<1>16. CASE StepReady
  <2> DEFINE s == [synced EXCEPT !.idx = @ + 1, !.fresh = TRUE, !.state = "Init",
                                 !.nxt = NextBatchIndex(status.idx + 1)]
  <2>1. CASE status.idx < Len(steps)
    <3>1. /\ status.idx + 1 \in Counts /\ status.idx + 1 \in 1 .. Len(steps)
          /\ NextBatchIndex(status.idx + 1) \in Indexes
      BY <1>2, <2>1, InvTypes, NextBatchIndexType DEF Counts
    <3>2. s \in Statuses /\ s.phase = synced.phase /\ s.sub /\ s.idx = status.idx + 1
      BY <1>2, <3>1, Names, Members DEF Statuses
    <3>3. StepOK(s) /\ TermOK(s)
      BY <1>2, <3>1, <3>2 DEF StepOK, TermOK
    <3>4. Write(s)
      BY <1>16, <2>1 DEF StepReady
    <3> QED  BY <1>1, <1>4, <1>16, <3>2, <3>3, <3>4, SyncWrite DEF StepReady
  <2>2. CASE ~(status.idx < Len(steps))
    BY <1>1, <1>4, <1>16, <2>2, SyncedExcept, SyncWrite, Names, Members DEF StepReady
  <2> QED  BY <2>1, <2>2
<1> QED
  BY <1>5, <1>6, <1>7, <1>8, <1>9, <1>10, <1>11, <1>12, <1>13, <1>14, <1>15, <1>16
  DEF StepStep

-----------------------------------------------------------------------------
(* doCanaryFinalising.                                                     *)

\* The order of the tasks: no sequence starts with ResumeWorkload or later,
\* RouteTrafficToNew comes first only, and a sequence ends only after
\* ReleaseWorkloadControl, but for the canary rollback, which ends after
\* RemoveCanaryService and resumes the workload just before releasing it.
LEMMA TaskOrder ==
  ASSUME NEW why, NEW t \in FinalisingSteps
  PROVE  LET next == NextTask(why, t) IN
         /\ next \in FinalisingSteps /\ next # "None"
         /\ t # "None" => next # "RouteTrafficToNew"
         /\ t = "None" => next \notin {"ResumeWorkload", "ReleaseWorkloadControl", "END"}
         /\ /\ t \in {"RouteTrafficToStable", "RestoreStableService",
                      "RemoveCanaryService", "ResumeWorkload"}
            /\ next = "END"
            => why = "rollback" /\ ~BlueGreen /\ t = "RemoveCanaryService"
         /\ why = "rollback" /\ ~BlueGreen /\ t = "ResumeWorkload" =>
              next = "ReleaseWorkloadControl"
<1> DEFINE q == TaskSequence(why)
           j == CHOOSE i \in 1 .. Len(q) - 1 : q[i] = t
<1>1. NextTask(why, t) = IF t = "None" THEN q[1]
                         ELSE IF \E i \in 1 .. Len(q) - 1 : q[i] = t THEN q[1 + j]
                         ELSE "END"
  BY Zenon DEF NextTask
<1>2. (\E i \in 1 .. Len(q) - 1 : q[i] = t) => j \in 1 .. Len(q) - 1 /\ q[j] = t
  BY Zenon
<1>3. \/ /\ why = "success" /\ BlueGreen
         /\ q = <<"RouteTrafficToNew", "RestoreStableService", "ResumeWorkload",
                  "RouteTrafficToStable", "RemoveCanaryService", "ReleaseWorkloadControl">>
      \/ /\ why = "rollback" /\ BlueGreen
         /\ q = <<"RouteTrafficToStable", "ResumeWorkload", "RestoreStableService",
                  "RemoveCanaryService", "ReleaseWorkloadControl">>
      \/ /\ why = "rollback" /\ ~BlueGreen
         /\ q = <<"RouteTrafficToStable", "ResumeWorkload", "ReleaseWorkloadControl",
                  "RestoreStableService", "RemoveCanaryService">>
      \/ /\ why # "rollback" \/ BlueGreen
         /\ q = <<"RestoreStableService", "RouteTrafficToStable",
                  "RemoveCanaryService", "ResumeWorkload", "ReleaseWorkloadControl">>
  BY DEF TaskSequence
<1> HIDE DEF q, j
<1>4. CASE /\ why = "success" /\ BlueGreen
           /\ q = <<"RouteTrafficToNew", "RestoreStableService", "ResumeWorkload",
                    "RouteTrafficToStable", "RemoveCanaryService", "ReleaseWorkloadControl">>
  BY <1>1, <1>2, <1>4 DEF FinalisingSteps
<1>5. CASE /\ why = "rollback" /\ BlueGreen
           /\ q = <<"RouteTrafficToStable", "ResumeWorkload", "RestoreStableService",
                    "RemoveCanaryService", "ReleaseWorkloadControl">>
  BY <1>1, <1>2, <1>5 DEF FinalisingSteps
<1>6. CASE /\ why = "rollback" /\ ~BlueGreen
           /\ q = <<"RouteTrafficToStable", "ResumeWorkload", "ReleaseWorkloadControl",
                    "RestoreStableService", "RemoveCanaryService">>
  BY <1>1, <1>2, <1>6 DEF FinalisingSteps
<1>7. CASE /\ why # "rollback" \/ BlueGreen
           /\ q = <<"RestoreStableService", "RouteTrafficToStable",
                    "RemoveCanaryService", "ResumeWorkload", "ReleaseWorkloadControl">>
  BY <1>1, <1>2, <1>7 DEF FinalisingSteps
<1> QED  BY <1>3, <1>4, <1>5, <1>6, <1>7

HandedOK(s, b) ==
  b.exists /\ b.part = NoPartition =>
    /\ \/ s.phase \in {"Terminating", "Disabling"}
       \/ s.phase = "Progressing" /\ s.reason \in {"Finalising", "Cancelling"}
    /\ s.sub /\ s.fin \notin {"None", "RouteTrafficToNew", "END"}
    /\ s.phase = "Progressing" /\ s.reason = "Cancelling" /\ ~BlueGreen =>
         s.fin \in {"ResumeWorkload", "ReleaseWorkloadControl"}
InFinalising(s) ==
  \/ s.phase \in {"Terminating", "Disabling"}
  \/ s.phase = "Progressing" /\ s.reason \in {"Finalising", "Cancelling"}

\* What a call of doCanaryFinalising does to the invariant.
LEMMA FinaliseWrite ==
  ASSUME RollingInv, TrafficTypeOK', br' \in BatchReleases, wl' \in Workloads,
         PartitionInRange', UNCHANGED <<rollout, userOps, pods, ready>>,
         NEW s \in Statuses, StepOK(s), TermOK(s), Write(s),
         HandedOK(status, br'), HandedOK(s, br')
  PROVE  RollingInv'
<1>1. status' \in Statuses
  BY InvTypes DEF Write
<1>2. TypeOK'
  BY <1>1 DEF RollingInv, TypeOK, RolloutTypeOK, BatchReleaseTypeOK
<1>3. steps' = steps
  BY DEF steps
<1>4. StepInRange' /\ TerminatingIsDeleted'
  BY <1>3 DEF RollingInv, StepInRange, TerminatingIsDeleted, StepOK, TermOK, Write
<1>5. HandedBackIsReleased'
  BY DEF HandedBackIsReleased, HandedOK, Write
<1> QED  BY <1>2, <1>4, <1>5 DEF RollingInv

\* The annotation's removal.
LEMMA AnnotationType ==
  ASSUME RollingInv, RemoveProgressingAnnotation \/ UNCHANGED wl
  PROVE  wl' \in Workloads
<1>1. ASSUME NEW f \in Flags
      PROVE  [wl EXCEPT !.anno = f] \in Workloads
  BY InvTypes DEF Workloads
<1>2. (wl.anno /\ ~wl.consistent) \in Flags
  BY DEF Flags
<1> QED  BY <1>1, <1>2, InvTypes DEF RemoveProgressingAnnotation

\* The status of a finalising sequence that goes on with a task.
LEMMA FinalisingStatus ==
  ASSUME RollingInv, InFinalising(status), status.sub,
         NEW task \in FinalisingSteps, NEW f \in Flags
  PROVE  LET s == [newStatus EXCEPT !.fin = task, !.fresh = f] IN
         /\ s \in Statuses /\ StepOK(s) /\ TermOK(s)
         /\ InFinalising(s) /\ s.sub /\ s.fin = task
         /\ s.phase = "Progressing" =>
              status.phase = "Progressing" /\ s.reason = status.reason
<1> DEFINE s == [newStatus EXCEPT !.fin = task, !.fresh = f]
<1>1. /\ newStatus \in Statuses /\ status \in Statuses /\ TermOK(newStatus)
      /\ SameCore(newStatus, status)
      /\ newStatus.phase \in {"Progressing", "Disabling", "Terminating"}
      /\ newStatus.phase = "Progressing" => status.phase = "Progressing"
  BY InvTypes, NewStatusCore DEF InFinalising
<1>2. s \in Statuses /\ s.phase = newStatus.phase /\ s.reason = status.reason
      /\ s.sub = status.sub /\ s.fin = task
  BY <1>1 DEF Statuses, SameCore
<1> HIDE DEF s
<1>3. s.phase = "Progressing" => s.reason \in {"Finalising", "Cancelling"}
  BY <1>1, <1>2 DEF InFinalising
<1>4. StepOK(s) /\ TermOK(s) /\ InFinalising(s)
  BY <1>1, <1>2, <1>3 DEF StepOK, TermOK, InFinalising
<1> QED  BY <1>1, <1>2, <1>4 DEF s

\* A task that asks for another call preserves the invariant.
LEMMA FinaliseRetryInv ==
  ASSUME RollingInv, InFinalising(status), NEW why, NEW task \in FinalisingSteps,
         status.phase = "Progressing" /\ status.reason = "Cancelling" => why = "rollback",
         FinaliseRetry(why, task), UNCHANGED <<rollout, userOps>>
  PROVE  RollingInv'
<1> DEFINE f == newStatus.fresh \/ status.fin = "None"
           s == [newStatus EXCEPT !.fin = task, !.fresh = f]
<1>1. status.sub /\ status.fin # "END" /\ f \in Flags /\ Write(s)
  BY DEF FinaliseRetry, NothingToFinalise, Flags
<1>2. /\ s \in Statuses /\ StepOK(s) /\ TermOK(s)
      /\ InFinalising(s) /\ s.sub /\ s.fin = task
      /\ s.phase = "Progressing" =>
           status.phase = "Progressing" /\ s.reason = status.reason
  BY <1>1, FinalisingStatus, ZenonT(40)
<1> HIDE DEF s, f
<1>3. UNCHANGED <<pods, ready>> /\ wl' \in Workloads
  BY AnnotationType DEF FinaliseRetry
<1>4. CASE task = "ResumeWorkload"
  <2>1. UNCHANGED trVars /\ ResumeWorkload(why)
    BY <1>4 DEF FinaliseRetry
  <2>2. status.fin = "ResumeWorkload"
    BY <1>4, TaskOrder DEF FinaliseRetry, Task, FinalisingSteps
  <2>3. br' \in BatchReleases /\ (br' = br \/ br'.part = NoPartition)
    <3>1. ASSUME NEW w \in Flags
          PROVE  [br EXCEPT !.part = NoPartition, !.wait = w,
                            !.observed = FALSE, !.seen = FALSE] \in BatchReleases
      BY InvTypes, Members DEF BatchReleases, NoPartition
    <3>2. (why = "success") \in Flags
      BY DEF Flags
    <3> QED  BY <2>1, <3>1, <3>2, InvTypes DEF ResumeWorkload, BatchReleases
  <2>4. PartitionInRange'
    BY <2>3 DEF RollingInv, PartitionInRange
  <2>5. HandedOK(status, br') /\ HandedOK(s, br')
    BY <1>1, <1>2, <1>4, <2>2 DEF HandedOK, InFinalising
  <2> QED
    BY <1>1, <1>2, <1>3, <2>1, <2>3, <2>4, <2>5, InvTypes, TrafficSame, FinaliseWrite
<1>5. CASE task # "ResumeWorkload"
  <2>1. TrafficTypeOK'
    BY <1>5, InvTypes, TrafficSame, ManagerType, Members DEF FinaliseRetry
  <2>2. br' = br \/ RemoveBatchRelease
    BY <1>5 DEF FinaliseRetry
  <2>3. /\ br' \in BatchReleases
        /\ br'.exists => br.exists /\ br'.part = br.part /\ br'.batches = br.batches
    <3>1. CASE br' = br
      BY <3>1, InvTypes
    <3>2. CASE RemoveBatchRelease
      BY <3>2, InvTypes, RemoveBatchReleaseType
      DEF RemoveBatchRelease, NoBatchRelease, BatchReleases
    <3> QED  BY <2>2, <3>1, <3>2
  <2>4. PartitionInRange' /\ HandedOK(status, br')
    BY <2>3 DEF RollingInv, PartitionInRange, HandedBackIsReleased, HandedOK
  <2>5. HandedOK(s, br')
    <3>1. SUFFICES ASSUME br'.exists /\ br'.part = NoPartition
                   PROVE  HandedOK(s, br')
      BY DEF HandedOK
    <3>2. status.fin \notin {"None", "RouteTrafficToNew", "END"}
          /\ (status.phase = "Progressing" /\ status.reason = "Cancelling" /\ ~BlueGreen =>
                status.fin \in {"ResumeWorkload", "ReleaseWorkloadControl"})
      BY <2>4, <3>1 DEF HandedOK
    <3>3. task = status.fin
      BY <3>2 DEF FinaliseRetry, Task
    <3> QED  BY <1>2, <3>2, <3>3 DEF HandedOK, InFinalising
  <2> QED  BY <1>1, <1>2, <1>3, <2>1, <2>3, <2>4, <2>5, FinaliseWrite
<1> QED  BY <1>4, <1>5

\* A task that is done while the workload is handed back is followed by
\* another one that keeps HandedBackIsReleased.
LEMMA DoneTask ==
  ASSUME RollingInv, NEW why, br.exists, br.part = NoPartition,
         status.phase = "Progressing" /\ status.reason = "Cancelling" <=> why = "rollback",
         ~NothingToFinalise, TaskDone(Task(why))
  PROVE  /\ NextTask(why, status.fin) \notin {"None", "RouteTrafficToNew", "END"}
         /\ why = "rollback" /\ ~BlueGreen =>
              NextTask(why, status.fin) \in {"ResumeWorkload", "ReleaseWorkloadControl"}
<1>1. /\ status.fin \notin {"None", "RouteTrafficToNew", "END"}
      /\ why = "rollback" /\ ~BlueGreen =>
           status.fin \in {"ResumeWorkload", "ReleaseWorkloadControl"}
  BY DEF RollingInv, HandedBackIsReleased
<1>2. Task(why) = status.fin
  BY <1>1 DEF Task
<1>3. status.fin # "ReleaseWorkloadControl"
  BY <1>2 DEF TaskDone
<1>4. status.fin \in FinalisingSteps
  BY InvTypes, StatusFields
<1>5. status.fin \in {"RouteTrafficToStable", "RestoreStableService",
                      "RemoveCanaryService", "ResumeWorkload"}
  BY <1>1, <1>3, <1>4 DEF FinalisingSteps
<1> QED  BY <1>1, <1>3, <1>4, <1>5, TaskOrder

\* Every call of doFinalising preserves the invariant.
LEMMA DoFinalisingInv ==
  ASSUME RollingInv, InFinalising(status), NEW why,
         status.phase = "Progressing" /\ status.reason = "Cancelling" <=> why = "rollback",
         NEW done \in Statuses, StepOK(done), TermOK(done), doFinalising(why, done)
  PROVE  RollingInv'
<1>1. UNCHANGED <<rollout, userOps>>
  BY DEF doFinalising
<1>2. ASSUME NEW task \in FinalisingSteps, FinaliseRetry(why, task)
      PROVE  RollingInv'
  BY <1>1, <1>2, FinaliseRetryInv
<1>3. ASSUME UNCHANGED <<trVars, br, pods, ready>>,
             RemoveProgressingAnnotation \/ UNCHANGED wl
      PROVE  /\ TrafficTypeOK' /\ br' \in BatchReleases /\ wl' \in Workloads
             /\ PartitionInRange' /\ HandedOK(status, br') /\ UNCHANGED <<pods, ready>>
  BY <1>3, InvTypes, TrafficSame, AnnotationType
  DEF RollingInv, PartitionInRange, HandedBackIsReleased, HandedOK
<1>4. CASE FinaliseNext(why)
  <2> DEFINE s == [newStatus EXCEPT !.fin = NextTask(why, status.fin), !.fresh = TRUE]
  <2>1. status.sub /\ NextTask(why, status.fin) \in FinalisingSteps
    BY <1>4, InvTypes, StatusFields, TaskOrder DEF FinaliseNext, NothingToFinalise
  <2>2. /\ s \in Statuses /\ StepOK(s) /\ TermOK(s)
        /\ InFinalising(s) /\ s.sub /\ s.fin = NextTask(why, status.fin)
        /\ s.phase = "Progressing" =>
             status.phase = "Progressing" /\ s.reason = status.reason
    BY <2>1, FinalisingStatus, Members
  <2>3. Write(s) /\ br' = br
    BY <1>4 DEF FinaliseNext
  <2> HIDE DEF s
  <2>4. HandedOK(s, br')
    <3>1. SUFFICES ASSUME br.exists, br.part = NoPartition
                   PROVE  HandedOK(s, br')
      BY <2>3 DEF HandedOK
    <3> QED  BY <1>4, <2>2, <3>1, DoneTask DEF FinaliseNext, HandedOK, InFinalising
  <2> QED  BY <1>1, <1>3, <1>4, <2>2, <2>3, <2>4, FinaliseWrite DEF FinaliseNext
<1>5. CASE FinaliseLast(why, done)
  <2> DEFINE s == [done EXCEPT !.fin = "END", !.fresh = TRUE]
  <2>1. s \in Statuses /\ s.phase = done.phase /\ s.reason = done.reason
        /\ s.sub = done.sub /\ s.idx = done.idx
    BY Names, Members DEF Statuses
  <2>2. Write(s) /\ br' = br
    BY <1>5 DEF FinaliseLast
  <2> HIDE DEF s
  <2>3. StepOK(s) /\ TermOK(s)
    BY <2>1 DEF StepOK, TermOK
  <2>4. HandedOK(s, br')
    BY <1>5, <2>2, DoneTask DEF FinaliseLast, HandedOK
  <2> QED  BY <1>1, <1>3, <1>5, <2>1, <2>2, <2>3, <2>4, FinaliseWrite DEF FinaliseLast
<1>6. CASE FinaliseNothing(done)
  <2>1. Write(done) /\ br' = br /\ HandedOK(done, br')
    BY <1>6
    DEF FinaliseNothing, NothingToFinalise, RollingInv, HandedBackIsReleased, HandedOK
  <2> QED  BY <1>1, <1>3, <1>6, <2>1, FinaliseWrite DEF FinaliseNothing
<1> QED  BY <1>2, <1>4, <1>5, <1>6 DEF doFinalising

\* So do its four callers.
LEMMA FinalisingInv ==
  ASSUME RollingInv,
         \/ ProgressingFinalising \/ ProgressingCancelling
         \/ RolloutTerminating \/ RolloutDisabling
  PROVE  RollingInv'
<1>1. newStatus \in Statuses /\ TermOK(newStatus)
  BY InvTypes, NewStatusCore
<1>2. ASSUME NEW o \in {"True", "False"}
      PROVE  LET d == [newStatus EXCEPT !.reason = "Completed", !.succeeded = o]
             IN  d \in Statuses /\ StepOK(d) /\ TermOK(d)
  BY <1>1, Names DEF Statuses, StepOK, TermOK
<1>3. CASE ProgressingFinalising
  BY <1>2, <1>3, DoFinalisingInv
  DEF ProgressingFinalising, Progressing, Reconciling, InFinalising
<1>4. CASE ProgressingCancelling
  BY <1>2, <1>4, DoFinalisingInv
  DEF ProgressingCancelling, Progressing, Reconciling, InFinalising
<1>5. CASE RolloutTerminating
  <2> DEFINE d == [newStatus EXCEPT !.terminated = TRUE]
  <2>1. status.phase = "Terminating" /\ doFinalising("delete", d)
    BY <1>5 DEF RolloutTerminating, Reconciling
  <2>2. newStatus.phase \in {"Terminating", "Disabling"}
    BY <2>1, NewStatusCore
  <2>3. d \in Statuses /\ d.phase = newStatus.phase
    BY <1>1, Members DEF Statuses
  <2>4. StepOK(d) /\ TermOK(d)
    BY <1>1, <2>2, <2>3 DEF StepOK, TermOK
  <2> HIDE DEF d
  <2> QED  BY <2>1, <2>3, <2>4, DoFinalisingInv DEF InFinalising
<1>6. CASE RolloutDisabling
  <2> DEFINE d == [newStatus EXCEPT !.phase = "Disabled"]
  <2>1. status.phase = "Disabling" /\ doFinalising("disabled", d)
    BY <1>6 DEF RolloutDisabling, Reconciling
  <2>2. d \in Statuses /\ d.phase = "Disabled"
    BY <1>1, Names DEF Statuses
  <2>3. StepOK(d) /\ TermOK(d)
    BY <2>2 DEF StepOK, TermOK
  <2> HIDE DEF d
  <2> QED  BY <2>1, <2>2, <2>3, DoFinalisingInv DEF InFinalising
<1> QED  BY <1>3, <1>4, <1>5, <1>6

-----------------------------------------------------------------------------
(* The environment.                                                        *)

\* The status does not change in what the invariant says, and the
\* BatchRelease neither gets nor loses a partition.
LEMMA SameInv ==
  ASSUME RollingInv, TypeOK', SameCore(status', status), status'.phase = status.phase,
         br'.exists => br.exists /\ br'.part = br.part /\ br'.batches = br.batches,
         rollout.deleting => rollout'.deleting,
         status.phase = "Progressing" => Len(steps') = Len(steps)
  PROVE  RollingInv'
BY DEF RollingInv, StepInRange, PartitionInRange, HandedBackIsReleased,
       TerminatingIsDeleted, SameCore

\* The BatchRelease and the CloneSet controllers neither create a
\* BatchRelease nor change its plan.
LEMMA BelowRelease ==
  ASSUME RollingInv, Below
  PROVE  br'.exists => br.exists /\ br'.part = br.part /\ br'.batches = br.batches
<1>1. br \in BatchReleases
  BY InvTypes
<1>2. CASE WorkloadStep
  BY <1>2 DEF WorkloadStep, PodUpdated, PodBecomesReady, PodScaledDown, Promoted,
              WorkloadObserved
<1>3. CASE BatchReleaseStep /\ ~BRGone /\ ~BRResume
  <2>1. br.exists
    BY <1>3
    DEF BatchReleaseStep, BRObserve, BRPrepare, BRRevision, BRRollback, BRUpgrade,
        BRVerify, BRRecheck, BRComplete, Processing, Working, Unfinished
  <2>2. br'.part = br.part /\ br'.batches = br.batches
    BY <1>1, <1>3
    DEF BatchReleaseStep, BRObserve, BRPrepare, BRRevision, BRRollback, BRUpgrade,
        BRVerify, BRRecheck, BRComplete, Report, BatchReleases
  <2> QED  BY <2>1, <2>2
<1>4. CASE BRGone \/ BRResume
  BY <1>4 DEF BRGone, BRResume, NoBatchRelease
<1> QED  BY <1>2, <1>3, <1>4 DEF Below

\* They preserve the invariant.
LEMMA BelowInv ==
  ASSUME RollingInv, Below
  PROVE  RollingInv'
<1>1. UNCHANGED <<rollout, status, userOps>> /\ UNCHANGED trVars
  BY DEF Below, rolloutVars
<1>2. BatchReleaseTypeOK'
  BY InvTypes, BatchReleaseStepType, WorkloadStepType DEF Below, RollingInv
<1>3. TypeOK'
  BY <1>1, <1>2, InvTypes, TrafficSame DEF TypeOK, RolloutTypeOK
<1>4. br'.exists => br.exists /\ br'.part = br.part /\ br'.batches = br.batches
  BY BelowRelease
<1>5. steps' = steps
  BY <1>1 DEF steps
<1> QED  BY <1>1, <1>3, <1>4, <1>5, SameInv DEF SameCore

\* So do time, restarts and the garbage collector.
LEMMA EnvironmentInv ==
  ASSUME RollingInv, Time \/ Restart \/ GarbageCollected \/ FinalizerRemoved
  PROVE  RollingInv'
<1>1. status \in Statuses /\ rollout \in Rollouts
  BY InvTypes
<1>2. CASE StatusAges \/ ConditionAges
  <2>1. /\ status' \in Statuses /\ SameCore(status', status)
        /\ status'.phase = status.phase
        /\ UNCHANGED <<rollout, userOps>> /\ UNCHANGED trVars /\ UNCHANGED brVars
    BY <1>1, <1>2, Members DEF StatusAges, ConditionAges, Statuses, SameCore
  <2>2. TypeOK' /\ br' = br /\ steps' = steps
    BY <2>1, InvTypes, TrafficSame
    DEF TypeOK, RolloutTypeOK, BatchReleaseTypeOK, brVars, steps
  <2> QED  BY <2>1, <2>2, SameInv
<1>3. CASE (\E a \in GraceActions : GraceElapses(a) /\ UNCHANGED <<rolloutVars, brVars>>)
           \/ Restart
  <2>1. UNCHANGED <<rollout, status, userOps>> /\ UNCHANGED <<br, wl, pods, ready>>
    BY <1>3 DEF Restart, rolloutVars, brVars
  <2>2. TrafficTypeOK'
    BY <1>3, InvTypes
    DEF Restart, ForgetExpectations, GraceElapses, netVars, TrafficTypeOK
  <2>3. TypeOK' /\ steps' = steps
    BY <2>1, <2>2, InvTypes DEF TypeOK, RolloutTypeOK, BatchReleaseTypeOK, steps
  <2> QED  BY <2>1, <2>3, SameInv DEF SameCore
<1>4. CASE GarbageCollected
  <2>1. UNCHANGED <<rollout, status, userOps, wl, pods, ready>>
    BY <1>4 DEF GarbageCollected, rolloutVars
  <2>2. TrafficTypeOK'
    BY <1>4, InvTypes, Members DEF GarbageCollected, TrafficTypeOK
  <2>3. CASE RemoveBatchRelease
    <3>1. /\ br' \in BatchReleases
          /\ br'.exists => br.exists /\ br'.part = br.part /\ br'.batches = br.batches
      BY <2>3, InvTypes, RemoveBatchReleaseType
      DEF RemoveBatchRelease, NoBatchRelease, BatchReleases
    <3>2. TypeOK' /\ steps' = steps
      BY <2>1, <2>2, <3>1, InvTypes DEF TypeOK, RolloutTypeOK, BatchReleaseTypeOK, steps
    <3> QED  BY <2>1, <3>1, <3>2, SameInv DEF SameCore
  <2>4. CASE br' = br
    <3>1. TypeOK' /\ steps' = steps
      BY <2>1, <2>2, <2>4, InvTypes DEF TypeOK, RolloutTypeOK, BatchReleaseTypeOK, steps
    <3> QED  BY <2>1, <2>4, <3>1, SameInv DEF SameCore
  <2> QED  BY <1>4, <2>3, <2>4 DEF GarbageCollected
<1>5. CASE FinalizerRemoved
  <2>1. /\ rollout' \in Rollouts /\ rollout'.plan = rollout.plan
        /\ rollout'.deleting = rollout.deleting
        /\ UNCHANGED <<status, userOps>> /\ UNCHANGED trVars /\ UNCHANGED brVars
    BY <1>1, <1>5, Members DEF FinalizerRemoved, Rollouts
  <2>2. TypeOK' /\ br' = br /\ steps' = steps
    BY <2>1, InvTypes, TrafficSame
    DEF TypeOK, RolloutTypeOK, BatchReleaseTypeOK, brVars, steps
  <2> QED  BY <2>1, <2>2, SameInv DEF SameCore
<1> QED  BY <1>2, <1>3, <1>4, <1>5 DEF Time

\* So does the user.
LEMMA UserInv ==
  ASSUME RollingInv, User
  PROVE  RollingInv'
<1>1. status \in Statuses /\ rollout \in Rollouts /\ wl \in Workloads
      /\ userOps \in 0 .. MaxUserOps
  BY InvTypes DEF TypeOK, RolloutTypeOK
<1>2. userOps' \in 0 .. MaxUserOps
  <2>1. userOps < MaxUserOps /\ userOps' = userOps + 1
    BY DEF User, Release, Approve, Jump, ChangePlan, Pause, Disable, Delete, UserOp
  <2> QED  BY <1>1, <2>1, OpsAssumption
<1>3. ASSUME NEW r \in Revisions, Release(r)
      PROVE  RollingInv'
  <2>1. UNCHANGED <<rollout, status, br, pods>> /\ UNCHANGED trVars
    BY <1>3 DEF Release
  <2>2. wl' \in Workloads /\ ready' \in Nat
    <3>1. ASSUME NEW a \in Flags, NEW o \in Flags, NEW c \in Flags, NEW t \in Counts
          PROVE  [wl EXCEPT !.update = r, !.consistent = c, !.anno = a, !.open = o,
                            !.target = t] \in Workloads
      BY <1>1 DEF Workloads
    <3>2. /\ (wl.anno \/ Held) \in Flags /\ (wl.open /\ ~Held) \in Flags
          /\ (~WorkloadLag) \in Flags
      BY DEF Flags
    <3>3. (IF Held THEN 0 ELSE wl.target) \in Counts
      BY <1>1, Members DEF Workloads
    <3>4. wl' \in Workloads
      BY <1>3, <3>1, <3>2, <3>3 DEF Release
    <3> QED  BY <1>3, <3>4, InvTypes, BatchReleaseFields DEF Release
  <2>3. TypeOK' /\ steps' = steps
    BY <1>1, <1>2, <2>1, <2>2, InvTypes, TrafficSame
    DEF TypeOK, RolloutTypeOK, BatchReleaseTypeOK, steps
  <2> QED  BY <2>1, <2>3, SameInv DEF SameCore
<1>4. CASE Approve \/ \E n \in 0 .. Len(steps) : Jump(n)
  <2>1. \A n \in 0 .. Len(steps) : n \in Indexes
    BY DEF Indexes
  <2>2. /\ status' \in Statuses /\ SameCore(status', status)
        /\ status'.phase = status.phase
        /\ UNCHANGED rollout /\ UNCHANGED trVars /\ UNCHANGED brVars
    BY <1>1, <1>4, <2>1, Names DEF Approve, Jump, Statuses, SameCore
  <2>3. TypeOK' /\ br' = br /\ steps' = steps
    BY <1>2, <2>2, InvTypes, TrafficSame
    DEF TypeOK, RolloutTypeOK, BatchReleaseTypeOK, brVars, steps
  <2> QED  BY <2>2, <2>3, SameInv
<1>5. CASE (\E p \in Plans : ChangePlan(p)) \/ Pause \/ Disable \/ Delete
  <2>1. (~rollout.paused) \in Flags /\ (~rollout.disabled) \in Flags
    BY DEF Flags
  <2>2. /\ rollout' \in Rollouts
        /\ rollout.deleting => rollout'.deleting
        /\ UNCHANGED status /\ UNCHANGED trVars /\ UNCHANGED brVars
    BY <1>1, <1>5, <2>1, Members DEF ChangePlan, Pause, Disable, Delete, Rollouts
  <2>3. status.phase = "Progressing" => Len(rollout'.plan) = Len(rollout.plan)
    BY <1>1, <1>5 DEF ChangePlan, Pause, Disable, Delete, Rollouts
  <2>4. TypeOK' /\ br' = br
    BY <1>2, <2>2, InvTypes, TrafficSame
    DEF TypeOK, RolloutTypeOK, BatchReleaseTypeOK, brVars
  <2> QED  BY <2>2, <2>3, <2>4, SameInv DEF SameCore, steps
<1> QED  BY <1>3, <1>4, <1>5 DEF User

-----------------------------------------------------------------------------

\* The invariant holds initially.
LEMMA InitInv == Init => RollingInv
<1> SUFFICES ASSUME Init PROVE RollingInv
  OBVIOUS
<1>1. TrafficTypeOK
  BY Members DEF Init, TrafficInit, TrafficTypeOK
<1>2. PICK r \in Revisions :
        /\ wl = [stable |-> r, update |-> r, anno |-> FALSE, consistent |-> TRUE,
                 target |-> Replicas, open |-> TRUE]
        /\ pods = [x \in Revisions |-> IF x = r THEN Replicas ELSE 0]
        /\ ready = Replicas
        /\ br = [exists |-> FALSE, guarded |-> FALSE, deleting |-> FALSE,
                 batches |-> <<>>, part |-> NoPartition, wait |-> FALSE,
                 rid |-> [rev |-> r, rollback |-> FALSE],
                 observed |-> FALSE, seen |-> FALSE, completed |-> FALSE,
                 batch |-> 0, state |-> "Upgrading", updated |-> 0,
                 anno |-> FALSE, rev |-> NoRevision, kept |-> NotCounted]
  BY DEF Init, WorkloadInit
<1>3. br \in BatchReleases /\ ~br.exists
  <2>1. [rev |-> r, rollback |-> FALSE] \in RolloutIDs
    BY Members DEF RolloutIDs
  <2>2. NoPartition \in Indexes /\ NotCounted \in Indexes
    BY Members DEF NoPartition, NotCounted
  <2> QED  BY <1>2, <2>1, <2>2, Members, Names DEF BatchReleases
<1>4. wl \in Workloads /\ pods \in [Revisions -> Nat] /\ ready \in Nat
  <2>1. Replicas \in Counts /\ Replicas \in Nat
    BY ReplicasAssumption DEF Counts
  <2> QED  BY <1>2, <2>1, Members DEF Workloads
<1>5. rollout \in Rollouts /\ userOps \in 0 .. MaxUserOps
  <2>1. rollout \in Rollouts
    <3>1. PICK p \in Plans :
            rollout = [exists |-> TRUE, deleting |-> FALSE, disabled |-> FALSE,
                       paused |-> FALSE, plan |-> p]
      BY DEF Init, RolloutInit
    <3> QED  BY <3>1, Members DEF Rollouts
  <2>2. userOps = 0
    BY DEF Init, RolloutInit
  <2> QED  BY <2>1, <2>2, OpsAssumption
<1>6. status \in Statuses /\ status.phase = "Initial"
  BY Members, Names DEF Init, RolloutInit, Statuses
<1> QED
  BY <1>1, <1>3, <1>4, <1>5, <1>6
  DEF RollingInv, TypeOK, BatchReleaseTypeOK, RolloutTypeOK, StepInRange,
      PartitionInRange, HandedBackIsReleased, TerminatingIsDeleted

\* Every step preserves it.
LEMMA NextInv == RollingInv /\ [Next]_vars => RollingInv'
<1> SUFFICES ASSUME RollingInv, [Next]_vars PROVE RollingInv'
  OBVIOUS
<1>1. CASE UNCHANGED vars
  <2>1. UNCHANGED <<rollout, status, userOps>> /\ UNCHANGED trVars
        /\ UNCHANGED <<br, wl, pods, ready>>
    BY <1>1 DEF vars, rolloutVars, brVars
  <2>2. TypeOK' /\ steps' = steps
    BY <2>1, InvTypes, TrafficSame DEF TypeOK, RolloutTypeOK, BatchReleaseTypeOK, steps
  <2> QED  BY <2>1, <2>2, SameInv DEF SameCore
<1>2. CASE Reconcile
  BY <1>2, ReconcileIdleInv, WaitingInv, SpecialCasesInv, ResetInv, StepStepInv,
     FinalisingInv, EnvironmentInv
  DEF Reconcile
<1>3. CASE Below
  BY <1>3, BelowInv
<1>4. CASE Time \/ Restart \/ GarbageCollected
  BY <1>4, EnvironmentInv
<1>5. CASE User
  BY <1>5, UserInv
<1> QED  BY <1>1, <1>2, <1>3, <1>4, <1>5 DEF Next

\* The inductive invariant holds in every reachable state.
THEOREM RollingInvariant == Spec => []RollingInv
BY InitInv, NextInv, PTL DEF Spec

\* Every field of the Rollout, the BatchRelease, the workload and the
\* network keeps its type.
THEOREM TypeCorrect == Spec => []TypeOK
<1>1. RollingInv => TypeOK
  BY DEF RollingInv
<1> QED  BY <1>1, RollingInvariant, PTL

\* runCanary, the InRolling cases and recalculateCanaryStep never use an
\* index that is out of range or a sub-status that is nil.
THEOREM RollingAddressable == Spec => []RollingIsAddressable
<1>1. RollingInv => RollingIsAddressable
  BY DEF RollingInv, StepInRange, PartitionInRange, HandedBackIsReleased,
         RollingIsAddressable
<1> QED  BY <1>1, RollingInvariant, PTL

\* A BatchRelease that has handed its workload back is on the way to being
\* deleted, whatever interrupts the finalising sequence.
THEOREM HandedBackReleased == Spec => []HandedBackIsReleased
<1>1. RollingInv => HandedBackIsReleased
  BY DEF RollingInv
<1> QED  BY <1>1, RollingInvariant, PTL
=============================================================================
