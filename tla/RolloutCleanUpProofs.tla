------------------------ MODULE RolloutCleanUpProofs ------------------------
(***************************************************************************)
(* Proof that a rollout takes down its Services, route and BatchRelease in *)
(* the right order and completely, for every set of plans and revisions,   *)
(* every number of replicas, all faults and interruptions, as long as no   *)
(* release overtakes an unfinished one.                                    *)
(*                                                                         *)
(* The finalisingStep in the status is all a call of doCanaryFinalising    *)
(* knows of the calls before it.  The invariant therefore says what the    *)
(* persisted step tells about the network: which tasks are behind it       *)
(* (SequenceOK), and that the gateway has been drained (DrainedOK) even    *)
(* when the sequence is exchanged for that of another reason.  It needs    *)
(* that a rolling rollout carries no such step unless it is being reset    *)
(* (RollingOK), and that the manager's "done" means what it says           *)
(* (NetworkOK).                                                            *)
(*                                                                         *)
(* On top of it, and for rollouts that nobody disables: the stable Service *)
(* is pinned before the first pod is updated (PinInv), and a blue-green    *)
(* rollback opens it only after the rejected pods are gone (HoldInv).      *)
(*                                                                         *)
(* And for rollouts whose plan stays: traffic is raised only on pods that  *)
(* are ready, and success reported only of pods that run (FollowInv).      *)
(***************************************************************************)
EXTENDS RolloutProofs, FiniteSetTheorems

-----------------------------------------------------------------------------
(* The inductive invariant.                                                *)

\* Without traffic routings nothing is touched, without generated canary
\* Services there is none, and without restarts no grace period is forgotten.
NetworkOK ==
  /\ ~HasTrafficRoutings =>
       /\ stableSel = NoRevision /\ canarySvc = NoRevision /\ route = NoRoute
       /\ settling = {}
  /\ DisableGenerateCanaryService => canarySvc = NoRevision
  /\ "restart" \notin Faults => settling \subseteq grace

\* The canary ingress has its Service.
ServedOK ==
  ~BlueGreen /\ ~DisableGenerateCanaryService /\ route # NoRoute =>
    canarySvc # NoRevision

\* A rolling rollout is at the workload's update revision, or the workload
\* was put back to the stable one.  It carries a finalising step only while
\* the latter, with no pod of the canary, is being reset.
RollingOK(s) ==
  s.phase = "Progressing" /\ s.reason \in {"InRolling", "Paused"} =>
    /\ s.cr # NoRevision
    /\ s.cr = wl.update \/ wl.update = wl.stable
    /\ s.fin # "None" =>
         /\ ~BlueGreen /\ s.cr # wl.update /\ ~IsInRollback
         /\ s.fin \in {"RouteTrafficToStable", "ReleaseWorkloadControl"}

\* The gateway is restored, and for a whole grace period.
Drained ==
  route = NoRoute /\ ("restart" \notin Faults => "restoreGateway" \notin settling)

\* The persisted finalising step tells that the gateway is drained, in every
\* sequence that may take it up.
DrainedOK(s, drained) ==
  /\ s.fin = "RemoveCanaryService" => drained
  /\ s.reason = "Cancelling" /\ s.fin = "ResumeWorkload" => drained
  /\ s.phase = "Progressing" /\ s.reason = "Cancelling" /\ s.fin = "RestoreStableService"
     => drained
  /\ ~BlueGreen =>
       /\ s.fin # "RouteTrafficToNew"
       /\ s.fin \in {"ResumeWorkload", "ReleaseWorkloadControl", "END"} => drained

\* The tasks whose effect shows.
Effects == {"RestoreStableService", "RouteTrafficToStable", "RemoveCanaryService",
            "ReleaseWorkloadControl"}
Achieved ==
  {t \in Effects :
     /\ t = "RestoreStableService" => stableSel = NoRevision
     /\ t = "RouteTrafficToStable" => route = NoRoute
     /\ t = "RemoveCanaryService" => canarySvc = NoRevision
     /\ t = "ReleaseWorkloadControl" => ~br.exists}

\* The tasks of a sequence, and those that come before one of them.
Tasks(why) == {TaskSequence(why)[i] : i \in DOMAIN TaskSequence(why)}
Behind(why, task) ==
  LET seq == TaskSequence(why) IN
  {seq[i] : i \in {k \in DOMAIN seq :
                     task = "END" \/ \E j \in DOMAIN seq : k < j /\ seq[j] = task}}

\* What the sequence in force has behind it is achieved.
InSequence(s, why, achieved) ==
  /\ s.sub
  /\ s.fin \in Tasks(why) \cup {"None", "END"}
  /\ Behind(why, s.fin) \cap Effects \subseteq achieved
SequenceOK(s, achieved) ==
  s.phase = "Progressing" =>
    /\ s.reason = "Finalising" => InSequence(s, "success", achieved)
    /\ s.reason = "Cancelling" => InSequence(s, "rollback", achieved)
    /\ s.reason = "Completed" => Effects \subseteq achieved

CleanUpInv ==
  /\ RollingInv
  /\ NetworkOK /\ ServedOK
  /\ RollingOK(status) /\ DrainedOK(status, Drained) /\ SequenceOK(status, Achieved)

-----------------------------------------------------------------------------
(* The task sequences.                                                     *)

\* A sequence goes through its tasks one after the other: what is behind the
\* next task is what was behind this one, and this one.
LEMMA BehindNext ==
  ASSUME NEW why, NEW t \in FinalisingSteps
  PROVE  LET next == NextTask(why, t) IN
         /\ Behind(why, "None") = {}
         /\ t = "None" => next \in Tasks(why) /\ Behind(why, next) = {}
         /\ t \in Tasks(why) =>
              /\ next \in Tasks(why) \cup {"END"}
              /\ Behind(why, next) \subseteq Behind(why, t) \cup {t}
         /\ Effects \subseteq Tasks(why) /\ Tasks(why) = Behind(why, "END")
         /\ "None" \notin Tasks(why) /\ "END" \notin Tasks(why)
<1> DEFINE q == TaskSequence(why)
           j == CHOOSE i \in 1 .. Len(q) - 1 : q[i] = t
<1>1. NextTask(why, t) = IF t = "None" THEN q[1]
                         ELSE IF \E i \in 1 .. Len(q) - 1 : q[i] = t THEN q[1 + j]
                         ELSE "END"
  BY Zenon DEF NextTask
<1>2. (\E i \in 1 .. Len(q) - 1 : q[i] = t) => j \in 1 .. Len(q) - 1 /\ q[j] = t
  BY Zenon
<1>3. \/ q = <<"RouteTrafficToNew", "RestoreStableService", "ResumeWorkload",
               "RouteTrafficToStable", "RemoveCanaryService", "ReleaseWorkloadControl">>
      \/ q = <<"RouteTrafficToStable", "ResumeWorkload", "RestoreStableService",
               "RemoveCanaryService", "ReleaseWorkloadControl">>
      \/ q = <<"RouteTrafficToStable", "ResumeWorkload", "ReleaseWorkloadControl",
               "RestoreStableService", "RemoveCanaryService">>
      \/ q = <<"RestoreStableService", "RouteTrafficToStable",
               "RemoveCanaryService", "ResumeWorkload", "ReleaseWorkloadControl">>
  BY DEF TaskSequence
<1>4. \A x : Behind(why, x) =
        {q[i] : i \in {k \in DOMAIN q : x = "END" \/ \E l \in DOMAIN q : k < l /\ q[l] = x}}
  BY Zenon DEF Behind
<1>5. Tasks(why) = {q[i] : i \in DOMAIN q}
  BY Zenon DEF Tasks
<1> HIDE DEF q, j
<1>6. CASE q = <<"RouteTrafficToNew", "RestoreStableService", "ResumeWorkload",
                 "RouteTrafficToStable", "RemoveCanaryService", "ReleaseWorkloadControl">>
  BY <1>1, <1>2, <1>4, <1>5, <1>6 DEF FinalisingSteps, Effects
<1>7. CASE q = <<"RouteTrafficToStable", "ResumeWorkload", "RestoreStableService",
                 "RemoveCanaryService", "ReleaseWorkloadControl">>
  BY <1>1, <1>2, <1>4, <1>5, <1>7 DEF FinalisingSteps, Effects
<1>8. CASE q = <<"RouteTrafficToStable", "ResumeWorkload", "ReleaseWorkloadControl",
                 "RestoreStableService", "RemoveCanaryService">>
  BY <1>1, <1>2, <1>4, <1>5, <1>8 DEF FinalisingSteps, Effects
<1>9. CASE q = <<"RestoreStableService", "RouteTrafficToStable",
                 "RemoveCanaryService", "ResumeWorkload", "ReleaseWorkloadControl">>
  BY <1>1, <1>2, <1>4, <1>5, <1>9 DEF FinalisingSteps, Effects
<1> QED  BY <1>3, <1>6, <1>7, <1>8, <1>9

\* Which task a task may follow: the canary Service is removed after the
\* gateway was restored, or, in a rollback, after the stable Service was; the
\* workload is resumed after one of the two, but for a blue-green success.
LEMMA Follows ==
  ASSUME NEW why, NEW t \in FinalisingSteps
  PROVE  LET next == NextTask(why, t) IN
         /\ next = "RemoveCanaryService" =>
              \/ t = "RouteTrafficToStable"
              \/ why = "rollback" /\ t = "RestoreStableService"
         /\ next = "ResumeWorkload" =>
              \/ why = "rollback" /\ t = "RouteTrafficToStable"
              \/ why = "success" /\ BlueGreen
              \/ t = "RemoveCanaryService"
         /\ why = "rollback" /\ next = "RestoreStableService" =>
              \/ ~BlueGreen /\ t = "ReleaseWorkloadControl"
              \/ t = "ResumeWorkload"
         /\ ~BlueGreen /\ next \in {"ResumeWorkload", "ReleaseWorkloadControl", "END"} =>
              t \in {"RouteTrafficToNew", "RouteTrafficToStable", "RemoveCanaryService",
                     "ResumeWorkload", "ReleaseWorkloadControl", "END"}
         /\ ~BlueGreen => next # "RouteTrafficToNew"
         /\ t # "None" => next # "RouteTrafficToNew"
         /\ t = "None" =>
              next \in {"RouteTrafficToNew", "RouteTrafficToStable", "RestoreStableService"}
         /\ t = "None" /\ why = "rollback" => next = "RouteTrafficToStable"
         /\ "RouteTrafficToNew" \in Tasks(why) =>
              Behind(why, "RouteTrafficToNew") = {}
<1> DEFINE q == TaskSequence(why)
           j == CHOOSE i \in 1 .. Len(q) - 1 : q[i] = t
<1>1. NextTask(why, t) = IF t = "None" THEN q[1]
                         ELSE IF \E i \in 1 .. Len(q) - 1 : q[i] = t THEN q[1 + j]
                         ELSE "END"
  BY Zenon DEF NextTask
<1>2. (\E i \in 1 .. Len(q) - 1 : q[i] = t) => j \in 1 .. Len(q) - 1 /\ q[j] = t
  BY Zenon
<1>3. \/ /\ why = "success" /\ BlueGreen
         /\ q = <<"RouteTrafficToNew", "RestoreStableService", "ResumeWorkload",
                  "RouteTrafficToStable", "RemoveCanaryService", "ReleaseWorkloadControl">>
      \/ /\ why = "rollback" /\ BlueGreen
         /\ q = <<"RouteTrafficToStable", "ResumeWorkload", "RestoreStableService",
                  "RemoveCanaryService", "ReleaseWorkloadControl">>
      \/ /\ why = "rollback" /\ ~BlueGreen
         /\ q = <<"RouteTrafficToStable", "ResumeWorkload", "ReleaseWorkloadControl",
                  "RestoreStableService", "RemoveCanaryService">>
      \/ /\ why # "rollback"
         /\ q = <<"RestoreStableService", "RouteTrafficToStable",
                  "RemoveCanaryService", "ResumeWorkload", "ReleaseWorkloadControl">>
  BY StyleAssumption DEF TaskSequence
<1>4. Behind(why, "RouteTrafficToNew") =
        {q[i] : i \in {k \in DOMAIN q : "RouteTrafficToNew" = "END"
                          \/ \E l \in DOMAIN q : k < l /\ q[l] = "RouteTrafficToNew"}}
  BY Zenon DEF Behind
<1> HIDE DEF q, j
<1>5. CASE /\ why = "success" /\ BlueGreen
           /\ q = <<"RouteTrafficToNew", "RestoreStableService", "ResumeWorkload",
                    "RouteTrafficToStable", "RemoveCanaryService", "ReleaseWorkloadControl">>
  BY <1>1, <1>2, <1>4, <1>5 DEF FinalisingSteps
<1>6. CASE /\ why = "rollback" /\ BlueGreen
           /\ q = <<"RouteTrafficToStable", "ResumeWorkload", "RestoreStableService",
                    "RemoveCanaryService", "ReleaseWorkloadControl">>
  BY <1>1, <1>2, <1>4, <1>6 DEF FinalisingSteps
<1>7. CASE /\ why = "rollback" /\ ~BlueGreen
           /\ q = <<"RouteTrafficToStable", "ResumeWorkload", "ReleaseWorkloadControl",
                    "RestoreStableService", "RemoveCanaryService">>
  BY <1>1, <1>2, <1>4, <1>7 DEF FinalisingSteps
<1>8. CASE /\ why # "rollback"
           /\ q = <<"RestoreStableService", "RouteTrafficToStable",
                    "RemoveCanaryService", "ResumeWorkload", "ReleaseWorkloadControl">>
  BY <1>1, <1>2, <1>4, <1>8 DEF FinalisingSteps
<1> QED  BY <1>3, <1>5, <1>6, <1>7, <1>8

-----------------------------------------------------------------------------
(* The manager.                                                            *)

\* A restored gateway is drained.
LEMMA GatewayDrained ==
  ASSUME NetworkOK, RestoreGatewayDone
  PROVE  Drained
BY DEF NetworkOK, RestoreGatewayDone, SatisfiedExpectations, Drained

\* Every operation of the manager that answers "retry" keeps NetworkOK.
LEMMA ManagerNetwork ==
  ASSUME NetworkOK, HasTrafficRoutings, NEW l, NEW r,
         \/ RestoreStableService(l) \/ PatchStableService(r) \/ RestoreGateway
         \/ RemoveCanaryService \/ RouteAllTrafficToNewVersion
         \/ FinalisingTrafficRouting(l)
  PROVE  NetworkOK'
<1>1. UNCHANGED trVars => NetworkOK'
  BY DEF NetworkOK, trVars
<1>2. ASSUME NEW a, Expect(a), canarySvc' \in {canarySvc, NoRevision}
      PROVE  NetworkOK'
  BY <1>2 DEF NetworkOK, Expect
<1>3. RestoreGateway \/ RemoveCanaryService \/ RestoreStableService(l) => NetworkOK'
  BY <1>1, <1>2 DEF RestoreGateway, RemoveCanaryService, RestoreStableService
<1>4. PatchStableService(r) \/ RouteAllTrafficToNewVersion => NetworkOK'
  BY <1>1, <1>2 DEF PatchStableService, RouteAllTrafficToNewVersion
<1> QED  BY <1>3, <1>4 DEF FinalisingTrafficRouting

\* An operation other than restoring the gateway and routing everything to
\* the new version leaves a drained gateway drained.
LEMMA ManagerDrained ==
  ASSUME NEW l, NEW r, Drained,
         RestoreStableService(l) \/ PatchStableService(r) \/ RemoveCanaryService
  PROVE  Drained'
BY DEF RestoreStableService, PatchStableService, RemoveCanaryService, Drained, Expect, trVars

\* No task but RouteTrafficToNew undoes what another one achieved.
LEMMA ManagerAchieved ==
  ASSUME NEW l, br' = br,
         RestoreStableService(l) \/ RestoreGateway \/ RemoveCanaryService
  PROVE  Achieved \subseteq Achieved'
BY DEF RestoreStableService, RestoreGateway, RemoveCanaryService, trVars, Achieved

\* The route keeps its Service in everything runCanary asks the manager for.
LEMMA RollingServed ==
  ASSUME NetworkOK, ServedOK, NEW l, NEW r, HasTrafficRoutings,
         \/ RestoreStableService(l) \/ PatchStableService(r) \/ RestoreGateway
         \/ FinalisingTrafficRouting(l)
  PROVE  ServedOK'
<1>1. RestoreStableService(l) \/ PatchStableService(r) \/ RestoreGateway => ServedOK'
  BY DEF RestoreStableService, PatchStableService, RestoreGateway, trVars, ServedOK
<1>2. RestoreGatewayDone /\ RemoveCanaryService => ServedOK'
  BY DEF RestoreGatewayDone, RemoveCanaryService, trVars, ServedOK
<1> QED  BY <1>1, <1>2 DEF FinalisingTrafficRouting

\* DoTrafficRouting creates the Service before the route.
LEMMA RouteServed ==
  ASSUME NetworkOK, ServedOK, HasTrafficRoutings, NEW st, NEW ca, NEW w, NEW recent,
         DoTrafficRouting(st, ca, w, recent)
  PROVE  NetworkOK' /\ ServedOK'
<1>1. NetworkOK'
  BY DEF DoTrafficRouting, DoTrafficRoutingPatches, NetworkOK, trVars
<1>2. ServedOK'
  BY DEF DoTrafficRouting, DoTrafficRoutingPatches, ServicesReady, ServedOK, trVars
<1> QED  BY <1>1, <1>2

-----------------------------------------------------------------------------
(* Reconciles that only write the status.                                  *)

\* calculateRolloutStatus keeps the finalising step; a status that progresses
\* in another reason than Initializing did so before.
LEMMA NewStatusClean ==
  ASSUME RollingInv
  PROVE  /\ newStatus \in Statuses
         /\ newStatus.fin = status.fin /\ newStatus.reason \in {status.reason, "Initializing"}
         /\ newStatus.phase = "Progressing" /\ newStatus.reason # "Initializing" =>
              /\ status.phase = "Progressing" /\ newStatus.reason = status.reason
              /\ newStatus.sub = status.sub /\ newStatus.cr = status.cr
         /\ status.phase \in {"Progressing", "Terminating", "Disabling"} =>
              /\ newStatus.reason = status.reason
              /\ newStatus.sub = status.sub /\ newStatus.cr = status.cr
<1>1. status \in Statuses /\ newStatus \in Statuses /\ status.phase \in Phases
  BY InvTypes, StatusFields
<1>2. CASE rollout.deleting
  BY <1>1, <1>2 DEF newStatus, Statuses
<1>3. CASE ~rollout.deleting
  <2>1. CASE status.phase \in {"Progressing", "Disabling", "Terminating"}
    BY <1>1, <1>3, <2>1 DEF newStatus, PhaseTransition, Disabled, Statuses
  <2>2. CASE status.phase \in {"Initial", "Healthy", "Disabled"}
    BY <1>1, <1>3, <2>2
    DEF newStatus, PhaseTransition, Disabled, Deployed, Statuses
  <2> QED  BY <1>1, <2>1, <2>2 DEF Phases
<1> QED  BY <1>2, <1>3

\* So what the invariant says of the status it says of the new one.
LEMMA NewStatusOK ==
  ASSUME CleanUpInv
  PROVE  /\ RollingOK(newStatus) /\ DrainedOK(newStatus, Drained)
         /\ SequenceOK(newStatus, Achieved)
<1>1. RollingInv /\ RollingOK(status) /\ DrainedOK(status, Drained)
      /\ SequenceOK(status, Achieved)
  BY DEF CleanUpInv
<1>2. RollingOK(newStatus)
  BY <1>1, NewStatusClean DEF RollingOK
<1>3. DrainedOK(newStatus, Drained)
  BY <1>1, NewStatusClean DEF DrainedOK
<1>4. SequenceOK(newStatus, Achieved)
  BY <1>1, NewStatusClean DEF SequenceOK, InSequence
<1> QED  BY <1>2, <1>3, <1>4

\* A reconcile that writes the status s and leaves the network alone.
LEMMA CleanWrite ==
  ASSUME CleanUpInv, RollingInv', UNCHANGED trVars, UNCHANGED <<wl, pods>>,
         br'.exists => br.exists,
         NEW s, Write(s), RollingOK(s), DrainedOK(s, Drained), SequenceOK(s, Achieved)
  PROVE  CleanUpInv'
<1>1. NetworkOK' /\ ServedOK' /\ (Drained' <=> Drained)
  BY DEF CleanUpInv, NetworkOK, ServedOK, Drained, trVars
<1>2. Achieved \subseteq Achieved'
  BY DEF Achieved, trVars
<1>3. status' = s \/ status' = status
  BY DEF Write
<1>4. RollingOK(status)'
  BY <1>3 DEF CleanUpInv, RollingOK, IsInRollback, SingleVersion, OtherPods
<1>5. DrainedOK(status, Drained)'
  BY <1>1, <1>3 DEF CleanUpInv, DrainedOK
<1>6. SequenceOK(status, Achieved)'
  BY <1>2, <1>3, Zenon DEF CleanUpInv, SequenceOK, InSequence
<1> QED  BY <1>1, <1>4, <1>5, <1>6 DEF CleanUpInv

\* A reconcile in which no handler acts.
LEMMA ReconcileIdleClean ==
  ASSUME CleanUpInv, RollingInv', ReconcileIdle
  PROVE  CleanUpInv'
BY NewStatusOK, CleanWrite DEF ReconcileIdle, brVars

\* The reasons Initializing, Paused and Completed.
LEMMA WaitingClean ==
  ASSUME CleanUpInv, RollingInv',
         ProgressingInitializing \/ ProgressingPaused \/ ProgressingCompleted
  PROVE  CleanUpInv'
<1>1. /\ UNCHANGED trVars /\ UNCHANGED <<wl, pods>> /\ br' = br
      /\ status.phase = "Progressing" /\ RollingInv
  BY DEF ProgressingInitializing, ProgressingPaused, ProgressingCompleted,
         Progressing, Reconciling, brVars, CleanUpInv
<1>2. newStatus \in Statuses /\ newStatus.reason = status.reason
      /\ RollingOK(newStatus) /\ DrainedOK(newStatus, Drained)
      /\ SequenceOK(newStatus, Achieved)
  BY <1>1, NewStatusOK, NewStatusClean
<1>3. CASE ProgressingInitializing
  <2>1. Started(newStatus).reason = "Initializing" /\ Started(newStatus).fin = "None"
        /\ Started(newStatus) \in Statuses /\ Started(newStatus).cr = wl.update
    BY <1>1, <1>2, <1>3, StartedType
    DEF Started, Statuses, ProgressingInitializing, Progressing
  <2> DEFINE s == Started(newStatus)
             t == [Started(newStatus) EXCEPT !.reason = "InRolling"]
  <2>2. t.reason = "InRolling" /\ t.fin = "None" /\ t.cr = wl.update
    BY <2>1 DEF Statuses
  <2> HIDE DEF s, t
  <2>3. wl.update # NoRevision
    BY <1>1, InvTypes, RevisionAssumption DEF Workloads
  <2>4. RollingOK(s) /\ DrainedOK(s, Drained) /\ SequenceOK(s, Achieved)
    BY <2>1 DEF RollingOK, DrainedOK, SequenceOK, s
  <2>5. RollingOK(t) /\ DrainedOK(t, Drained) /\ SequenceOK(t, Achieved)
    BY <2>2, <2>3 DEF RollingOK, DrainedOK, SequenceOK
  <2> QED  BY <1>1, <1>3, <2>4, <2>5, CleanWrite DEF ProgressingInitializing, s, t
<1>4. CASE ProgressingPaused
  <2> DEFINE s == [newStatus EXCEPT !.reason = "InRolling"]
  <2>1. newStatus.reason = "Paused"
    BY <1>2, <1>4 DEF ProgressingPaused, Progressing
  <2>2. s.reason = "InRolling" /\ s.fin = newStatus.fin /\ s.cr = newStatus.cr
        /\ s.phase = newStatus.phase
    BY <1>2 DEF Statuses
  <2>3. RollingOK(s) /\ DrainedOK(s, Drained) /\ SequenceOK(s, Achieved)
    BY <1>2, <2>1, <2>2 DEF RollingOK, DrainedOK, SequenceOK
  <2> QED  BY <1>1, <1>2, <1>4, <2>3, CleanWrite DEF ProgressingPaused
<1>5. CASE ProgressingCompleted
  <2> DEFINE s == [newStatus EXCEPT !.phase = "Healthy"]
  <2>1. s.reason = newStatus.reason /\ s.fin = newStatus.fin /\ s.phase = "Healthy"
    BY <1>2 DEF Statuses
  <2>2. RollingOK(s) /\ DrainedOK(s, Drained) /\ SequenceOK(s, Achieved)
    BY <1>2, <2>1 DEF RollingOK, DrainedOK, SequenceOK
  <2> QED  BY <1>1, <1>5, <2>2, CleanWrite DEF ProgressingCompleted
<1> QED  BY <1>3, <1>4, <1>5

\* What the invariant says of a rolling rollout: unless it is a continuous
\* release it carries no finalising step.
LEMMA RollingClean ==
  ASSUME CleanUpInv, Progressing("InRolling")
  PROVE  /\ status.phase = "Progressing" /\ status.reason = "InRolling" /\ status.sub
         /\ status.cr # NoRevision
         /\ newStatus \in Statuses /\ newStatus.reason = "InRolling" /\ newStatus.sub
         /\ newStatus.fin = status.fin /\ newStatus.cr = status.cr
         /\ ~isContinuousRelease \/ BlueGreen => status.fin = "None"
         /\ status.fin \in {"None", "RouteTrafficToStable", "ReleaseWorkloadControl"}
<1>1. status.phase = "Progressing" /\ status.reason = "InRolling" /\ RollingInv
      /\ RollingOK(status)
  BY DEF Progressing, Reconciling, CleanUpInv
<1>2. status.sub
  BY <1>1 DEF RollingInv, StepInRange
<1> QED  BY <1>1, <1>2, NewStatusClean DEF RollingOK, isContinuousRelease

\* A reconcile of a rolling rollout that carries no finalising step, and gets none.
LEMMA CleanRolling ==
  ASSUME CleanUpInv, RollingInv', NetworkOK', ServedOK', Progressing("InRolling"),
         UNCHANGED <<wl, pods>>,
         status'.reason = "InRolling", status'.fin = "None", status'.cr = status.cr
  PROVE  CleanUpInv'
<1>1. RollingOK(status)'
  BY RollingClean
  DEF CleanUpInv, RollingOK, IsInRollback, SingleVersion, OtherPods
<1>2. DrainedOK(status, Drained)' /\ SequenceOK(status, Achieved)'
  BY DEF DrainedOK, SequenceOK
<1> QED  BY <1>1, <1>2 DEF CleanUpInv

\* The special cases that only write the status.
LEMMA SpecialCasesClean ==
  ASSUME CleanUpInv, RollingInv',
         \/ RollbackDirectly \/ RolloutPaused \/ RollbackInBatches
         \/ ContinuousRefused \/ PlanChanged \/ RollingDone
  PROVE  CleanUpInv'
<1>1. /\ Progressing("InRolling") /\ UNCHANGED trVars /\ UNCHANGED <<wl, pods>>
      /\ br' = br /\ RollingInv
  BY DEF RollbackDirectly, RolloutPaused, RollbackInBatches, ContinuousRefused,
         Continuous, PlanChanged, RollingDone, NormalRolling, Rolling, brVars, CleanUpInv
<1>2. /\ status.phase = "Progressing" /\ status.reason = "InRolling" /\ status.sub
      /\ newStatus \in Statuses /\ newStatus.reason = "InRolling" /\ newStatus.sub
      /\ newStatus.fin = status.fin /\ newStatus.cr = status.cr
      /\ ~isContinuousRelease \/ BlueGreen => status.fin = "None"
  BY <1>1, RollingClean
<1>3. RollingOK(newStatus) /\ DrainedOK(newStatus, Drained)
      /\ SequenceOK(newStatus, Achieved)
  BY NewStatusOK
<1>4. CASE RollbackDirectly
  <2> DEFINE s == [newStatus EXCEPT !.cr = wl.update, !.reason = "Cancelling"]
  <2>1. status.fin = "None"
    BY <1>2, <1>4 DEF RollbackDirectly, isRollingBackDirectly, isContinuousRelease
  <2>2. s.reason = "Cancelling" /\ s.fin = "None" /\ s.sub
    BY <1>2, <2>1 DEF Statuses
  <2>3. SequenceOK(s, Achieved)
    BY <2>2, BehindNext DEF SequenceOK, InSequence, FinalisingSteps
  <2>4. RollingOK(s) /\ DrainedOK(s, Drained)
    BY <2>2 DEF RollingOK, DrainedOK
  <2> QED  BY <1>1, <1>4, <2>3, <2>4, CleanWrite DEF RollbackDirectly
<1>5. CASE RolloutPaused
  <2> DEFINE s == [newStatus EXCEPT !.reason = "Paused"]
  <2>1. s.reason = "Paused" /\ s.fin = newStatus.fin /\ s.cr = newStatus.cr
        /\ s.phase = newStatus.phase
    BY <1>2 DEF Statuses
  <2>2. RollingOK(s) /\ DrainedOK(s, Drained) /\ SequenceOK(s, Achieved)
    BY <1>2, <1>3, <2>1 DEF RollingOK, DrainedOK, SequenceOK
  <2> QED  BY <1>1, <1>5, <2>2, CleanWrite DEF RolloutPaused
<1>6. CASE RollbackInBatches
  <2> DEFINE s == [newStatus EXCEPT !.idx = 1, !.nxt = NextBatchIndex(1),
                                    !.cr = wl.update, !.state = "Init",
                                    !.fresh = TRUE, !.hash = HashOf(steps)]
  <2>1. status.fin = "None" /\ wl.update # NoRevision
    BY <1>1, <1>2, <1>6, InvTypes, RevisionAssumption
    DEF RollbackInBatches, isRollingBackInBatches, isContinuousRelease, Workloads
  <2>2. s.reason = "InRolling" /\ s.fin = "None" /\ s.cr = wl.update
    BY <1>2, <2>1 DEF Statuses
  <2>3. Write(s)
    BY <1>6 DEF RollbackInBatches
  <2> HIDE DEF s
  <2>4. RollingOK(s) /\ DrainedOK(s, Drained) /\ SequenceOK(s, Achieved)
    BY <2>1, <2>2 DEF RollingOK, DrainedOK, SequenceOK
  <2> QED  BY <1>1, <2>3, <2>4, CleanWrite
<1>7. CASE ContinuousRefused
  BY <1>1, <1>3, <1>7, CleanWrite DEF ContinuousRefused
<1>8. CASE PlanChanged
  <2> DEFINE s == [newStatus EXCEPT !.nxt = RecalculatedStep, !.fresh = TRUE,
                                    !.hash = HashOf(steps)]
             t == [s EXCEPT !.state = "Ready"]
             Kept(u) == /\ u.reason = "InRolling" /\ u.fin = newStatus.fin
                        /\ u.cr = newStatus.cr /\ u.phase = newStatus.phase
  <2>1. Kept(s) /\ Kept(t) /\ Kept(Jumped(s))
    BY <1>2 DEF Statuses, Jumped
  <2>2. Write(t) \/ Write(s) \/ Write(Jumped(s))
    BY <1>8 DEF PlanChanged
  <2>3. ASSUME NEW u, Kept(u)
        PROVE  RollingOK(u) /\ DrainedOK(u, Drained) /\ SequenceOK(u, Achieved)
    BY <1>2, <1>3, <2>3 DEF RollingOK, DrainedOK, SequenceOK
  <2> HIDE DEF s, t, Kept
  <2> QED  BY <1>1, <2>1, <2>2, <2>3, CleanWrite
<1>9. CASE RollingDone
  <2> DEFINE s == [newStatus EXCEPT !.reason = "Finalising"]
  <2>1. status.fin = "None"
    BY <1>2, <1>9 DEF RollingDone, NormalRolling
  <2>2. s.reason = "Finalising" /\ s.fin = "None" /\ s.sub
    BY <1>2, <2>1 DEF Statuses
  <2>3. SequenceOK(s, Achieved)
    BY <2>2, BehindNext DEF SequenceOK, InSequence, FinalisingSteps
  <2>4. RollingOK(s) /\ DrainedOK(s, Drained)
    BY <2>2 DEF RollingOK, DrainedOK
  <2> QED  BY <1>1, <1>9, <2>3, <2>4, CleanWrite DEF RollingDone
<1> QED  BY <1>4, <1>5, <1>6, <1>7, <1>8, <1>9

-----------------------------------------------------------------------------
(* The reset.                                                              *)

\* A reset that is past the gateway found it drained, in this call or in the
\* one that persisted its step.
LEMMA ResetDrained ==
  ASSUME CleanUpInv, Progressing("InRolling"), ~BlueGreen, ResetRouted
  PROVE  Drained
<1>1. NetworkOK /\ DrainedOK(status, Drained)
  BY DEF CleanUpInv
<1>2. CASE ~HasTrafficRoutings
  BY <1>1, <1>2 DEF NetworkOK, Drained
<1>3. CASE HasTrafficRoutings
  BY <1>1, <1>3, GatewayDrained DEF ResetRouted, ResetStep, DrainedOK
<1> QED  BY <1>2, <1>3

\* doProgressingReset preserves the invariant.
LEMMA ResetClean ==
  ASSUME CleanUpInv, RollingInv', ResetGateway \/ ResetRelease \/ ResetDone
  PROVE  CleanUpInv'
<1>1. /\ Progressing("InRolling") /\ UNCHANGED <<wl, pods>> /\ RollingInv
      /\ isContinuousRelease /\ ~BlueGreen /\ NetworkOK /\ ServedOK
  BY DEF ResetGateway, ResetRelease, ResetDone, Continuous, Rolling, brVars, CleanUpInv
<1>2. /\ status.phase = "Progressing" /\ status.reason = "InRolling" /\ status.sub
      /\ status.cr # NoRevision
      /\ newStatus \in Statuses /\ newStatus.reason = "InRolling" /\ newStatus.sub
      /\ newStatus.fin = status.fin /\ newStatus.cr = status.cr
      /\ status.fin \in {"None", "RouteTrafficToStable", "ReleaseWorkloadControl"}
  BY <1>1, RollingClean
<1>3. /\ RollingOK(newStatus) /\ DrainedOK(newStatus, Drained)
      /\ SequenceOK(newStatus, Achieved) /\ RollingOK(status) /\ DrainedOK(status, Drained)
  BY NewStatusOK DEF CleanUpInv
<1>4. ASSUME NEW task \in {"RouteTrafficToStable", "ReleaseWorkloadControl"}, NEW f
      PROVE  LET s == [newStatus EXCEPT !.fin = task, !.fresh = f] IN
             s.fin = task /\ s.reason = "InRolling" /\ RollingOK(s)
  <2> DEFINE s == [newStatus EXCEPT !.fin = task, !.fresh = f]
  <2>1. s.fin = task /\ s.reason = "InRolling" /\ s.cr = status.cr
        /\ s.phase = newStatus.phase
    BY <1>2 DEF Statuses
  <2>2. status.cr # wl.update /\ ~IsInRollback /\ wl.update = wl.stable
    BY <1>1, <1>2, <1>3 DEF isContinuousRelease, RollingOK
  <2> QED  BY <1>1, <1>2, <2>1, <2>2 DEF RollingOK
<1>5. CASE ResetGateway
  <2> DEFINE s == [newStatus EXCEPT !.fin = "RouteTrafficToStable",
                                    !.fresh = newStatus.fresh \/ route' # route]
  <2>1. Write(s) /\ RestoreGateway /\ HasTrafficRoutings
        /\ status.fin \notin {"ReleaseWorkloadControl"}
    BY <1>5 DEF ResetGateway, ResetRouted, ResetStep
  <2>2. NetworkOK' /\ ServedOK'
    BY <1>1, <2>1, ManagerNetwork, RollingServed
  <2>3. s.fin = "RouteTrafficToStable" /\ s.reason = "InRolling" /\ RollingOK(s)
    BY <1>4
  <2> HIDE DEF s
  <2>4. status' = s \/ status' = status
    BY <2>1 DEF Write
  <2>5. RollingOK(status)'
    BY <1>1, <1>3, <2>3, <2>4 DEF RollingOK, IsInRollback, SingleVersion, OtherPods
  <2>6. status'.fin \in {"None", "RouteTrafficToStable"} /\ status'.reason = "InRolling"
    BY <1>2, <2>1, <2>3, <2>4
  <2>7. DrainedOK(status, Drained)' /\ SequenceOK(status, Achieved)'
    BY <2>6 DEF DrainedOK, SequenceOK
  <2> QED  BY <2>2, <2>5, <2>7 DEF CleanUpInv
<1>6. CASE ResetRelease
  <2> DEFINE s == [newStatus EXCEPT !.fin = "ReleaseWorkloadControl",
                     !.fresh = newStatus.fresh \/ ResetStep = "RouteTrafficToStable"]
  <2>1. Write(s) \/ Write(newStatus)
    BY <1>6 DEF ResetRelease
  <2>2. UNCHANGED trVars /\ (br'.exists => br.exists)
    BY <1>1, <1>6, InvTypes
    DEF ResetRelease, RemoveBatchRelease, NoBatchRelease, BatchReleases
  <2>3. Drained
    BY <1>1, <1>6, ResetDrained DEF ResetRelease
  <2>4. s.fin = "ReleaseWorkloadControl" /\ s.reason = "InRolling" /\ RollingOK(s)
    BY <1>4
  <2> HIDE DEF s
  <2>5. DrainedOK(s, Drained) /\ SequenceOK(s, Achieved)
    BY <2>3, <2>4 DEF DrainedOK, SequenceOK
  <2> QED  BY <1>1, <1>3, <2>1, <2>2, <2>4, <2>5, CleanWrite
<1>7. CASE ResetDone
  <2> DEFINE s == [Clear(newStatus) EXCEPT !.reason = "Initializing"]
  <2>1. Write(s) /\ br' = br
    BY <1>7 DEF ResetDone, brVars
  <2>2. s.fin = "None" /\ s.reason = "Initializing"
    BY <1>2 DEF Clear, Statuses
  <2>3. RollingOK(s) /\ \A d, a : DrainedOK(s, d) /\ SequenceOK(s, a)
    BY <2>2 DEF RollingOK, DrainedOK, SequenceOK
  <2> HIDE DEF s
  <2>4. Drained
    BY <1>1, <1>7, ResetDrained DEF ResetDone
  <2>5. CASE UNCHANGED trVars
    BY <1>1, <2>1, <2>3, <2>5, CleanWrite
  <2>6. CASE ~RemoveCanaryServiceDone /\ RemoveCanaryService
    <3>1. NetworkOK' /\ Drained' /\ HasTrafficRoutings
      BY <1>1, <2>4, <2>6, ManagerNetwork, ManagerDrained DEF RemoveCanaryServiceDone
    <3>2. ServedOK'
      BY <3>1 DEF ServedOK, Drained
    <3>3. status' = s \/ status' = status
      BY <2>1 DEF Write
    <3>4. RollingOK(status)'
      BY <1>1, <1>3, <2>3, <3>3 DEF RollingOK, IsInRollback, SingleVersion, OtherPods
    <3>5. DrainedOK(status, Drained)'
      BY <1>3, <2>3, <2>4, <3>1, <3>3 DEF DrainedOK
    <3>6. SequenceOK(status, Achieved)'
      BY <1>2, <2>2, <3>3 DEF SequenceOK
    <3> QED  BY <3>1, <3>2, <3>4, <3>5, <3>6 DEF CleanUpInv
  <2> QED  BY <1>7, <2>5, <2>6 DEF ResetDone
<1> QED  BY <1>5, <1>6, <1>7

-----------------------------------------------------------------------------
(* runCanary.                                                              *)

\* What every status written in a step has of the one it starts from.
FromNew(s) ==
  s.phase = newStatus.phase /\ s.terminated = newStatus.terminated /\ s.sr = newStatus.sr

\* A step of runCanary leaves reason, revision and finalising step alone.
LEMMA StepStatus ==
  ASSUME CleanUpInv, StepStep
  PROVE  /\ Progressing("InRolling") /\ UNCHANGED <<wl, pods>>
         /\ status'.reason = "InRolling" /\ status'.fin = "None"
         /\ status'.cr = status.cr
         /\ status' = status \/ FromNew(status')
<1>1. RunCanary
  BY DEF StepStep, StepJump, StepCleanUp, StepInitUnpin, StepInitPin, StepInitSkip,
         StepUpgradeApply, StepUpgradeWait, StepUpgradeDone, StepRoute, StepRouted,
         StepAnalysed, StepPaused, StepReady, Upgrading, InState
<1>2. Progressing("InRolling") /\ ~isContinuousRelease /\ RollingInv
  BY <1>1 DEF RunCanary, NormalRolling, Rolling, CleanUpInv
<1>3. /\ status.reason = "InRolling" /\ status.fin = "None"
      /\ newStatus \in Statuses /\ newStatus.reason = "InRolling"
      /\ newStatus.fin = "None" /\ newStatus.cr = status.cr
  BY <1>2, RollingClean
<1> DEFINE Kept(s) == /\ s.reason = "InRolling" /\ s.fin = "None" /\ s.cr = status.cr
                      /\ FromNew(s)
<1>4. synced \in Statuses /\ Kept(synced)
  BY <1>2, <1>3, SyncedType DEF synced, Statuses, FromNew
<1>5. upgrading \in Statuses /\ Kept(upgrading)
  BY <1>2, <1>4, UpgradingType DEF upgrading, Statuses, FromNew
<1>6. UNCHANGED <<wl, pods>>
  BY DEF StepStep, StepJump, StepCleanUp, StepInitUnpin, StepInitPin, StepInitSkip,
         StepUpgradeApply, StepUpgradeWait, StepUpgradeDone, StepRoute, StepRouted,
         StepAnalysed, StepPaused, StepReady, SyncBatchRelease
<1>7. ASSUME NEW x, NEW f, NEW p
      PROVE  /\ Kept([synced EXCEPT !.state = x, !.fresh = f])
             /\ Kept([synced EXCEPT !.state = x]) /\ Kept([synced EXCEPT !.fresh = f])
             /\ Kept([upgrading EXCEPT !.pth = p, !.fresh = f, !.state = x])
  BY <1>4, <1>5 DEF Statuses, FromNew
<1>8. ASSUME NEW i, NEW n, NEW x, NEW f
      PROVE  Kept([synced EXCEPT !.idx = i, !.fresh = f, !.state = x, !.nxt = n])
  BY <1>4 DEF Statuses, FromNew
<1>9. Kept(Jumped(synced))
  BY <1>4 DEF Statuses, Jumped, FromNew
<1>10. \E s : Write(s) /\ Kept(s)
  <2> HIDE DEF Kept
  <2>1. CASE StepJump \/ StepInitUnpin \/ StepInitPin
    BY <1>4, <1>9, <2>1 DEF StepJump, StepInitUnpin, StepInitPin
  <2>2. CASE StepCleanUp \/ StepInitSkip \/ StepRoute \/ StepRouted
    BY <1>7, <2>2 DEF StepCleanUp, StepInitSkip, StepRoute, StepRouted
  <2>3. CASE StepAnalysed \/ StepPaused
    BY <1>4, <1>7, <2>3 DEF StepAnalysed, StepPaused
  <2>4. CASE StepUpgradeApply \/ StepUpgradeWait \/ StepUpgradeDone
    BY <1>5, <1>7, <2>4 DEF StepUpgradeApply, StepUpgradeWait, StepUpgradeDone
  <2>5. CASE StepReady
    BY <1>7, <1>8, <2>5 DEF StepReady
  <2> QED  BY <2>1, <2>2, <2>3, <2>4, <2>5 DEF StepStep
<1> QED  BY <1>2, <1>3, <1>6, <1>10 DEF Write

\* Every step of runCanary preserves the invariant.
LEMMA StepStepClean ==
  ASSUME CleanUpInv, RollingInv', StepStep
  PROVE  CleanUpInv'
<1>1. NetworkOK /\ ServedOK
  BY DEF CleanUpInv
<1>2. NetworkOK' /\ ServedOK'
  <2>1. CASE UNCHANGED trVars
    BY <1>1, <2>1 DEF NetworkOK, ServedOK, trVars
  <2>2. CASE StepCleanUp
    <3>1. FinalisingTrafficRouting(TRUE) /\ HasTrafficRoutings
      BY <2>2
      DEF StepCleanUp, FinalisingTrafficRoutingDone, RestoreStableServiceDone,
          RestoreGatewayDone, RemoveCanaryServiceDone
    <3> QED  BY <1>1, <3>1, ManagerNetwork, RollingServed
  <2>3. CASE StepInitUnpin
    <3>1. RestoreStableService(TRUE) /\ HasTrafficRoutings
      BY <2>3 DEF StepInitUnpin, InitUnpins, RestoreStableServiceDone
    <3> QED  BY <1>1, <3>1, ManagerNetwork, RollingServed
  <2>4. CASE StepInitPin
    <3>1. PatchStableService(status.sr) /\ HasTrafficRoutings
      BY <2>4 DEF StepInitPin, InitPins, PatchStableServiceDone
    <3> QED  BY <1>1, <3>1, ManagerNetwork, RollingServed
  <2>5. CASE StepRoute
    <3>1. /\ DoTrafficRouting(synced.sr, synced.pth, steps[status.idx].traffic, synced.fresh)
          /\ HasTrafficRoutings
      BY <2>5 DEF StepRoute, RoutingDone, DoTrafficRoutingDone
    <3> QED  BY <1>1, <3>1, RouteServed
  <2> QED
    BY <2>1, <2>2, <2>3, <2>4, <2>5
    DEF StepStep, StepJump, StepInitSkip, StepUpgradeApply, StepUpgradeWait,
        StepUpgradeDone, StepRouted, StepAnalysed, StepPaused, StepReady
<1> QED  BY <1>2, StepStatus, CleanRolling

-----------------------------------------------------------------------------
(* doCanaryFinalising.                                                     *)

\* The reason a sequence runs for, as the four callers give it.
RunsFor(why) ==
  \/ status.phase = "Progressing" /\ status.reason = "Finalising" /\ why = "success"
  \/ status.phase = "Progressing" /\ status.reason = "Cancelling" /\ why = "rollback"
  \/ status.phase \in {"Terminating", "Disabling"} /\ why \in {"delete", "disabled"}

\* What the caller writes when the sequence has ended.
EndOf(done) ==
  /\ done \in Statuses /\ done.fin = status.fin /\ done.sub = status.sub
  /\ \/ done.phase # "Progressing" /\ done.reason = status.reason
     \/ status.phase = "Progressing" /\ done.reason = "Completed"

\* A task that answers "done" has achieved its effect (the workload of a
\* progressing rollout is consistent, so that its label is known).
LEMMA DoneAchieved ==
  ASSUME CleanUpInv, NEW t \in Effects, TaskDone(t), wl.consistent
  PROVE  t \in Achieved
BY DEF CleanUpInv, NetworkOK, Effects, Achieved, TaskDone, RestoreStableServiceDone,
       RestoreGatewayDone, RemoveCanaryServiceDone, ResumeWorkloadDone

\* A task creates no BatchRelease, and only ResumeWorkload takes its
\* partition away.
LEMMA RetryRelease ==
  ASSUME RollingInv, NEW why, NEW task, FinaliseRetry(why, task)
  PROVE  br'.exists =>
           br.exists /\ (task # "ResumeWorkload" => br'.part = br.part)
<1>1. br \in BatchReleases
  BY InvTypes
<1>2. CASE ResumeWorkload(why) /\ task = "ResumeWorkload"
  BY <1>1, <1>2 DEF ResumeWorkload, BatchReleases
<1>3. CASE RemoveBatchRelease
  BY <1>1, <1>3 DEF RemoveBatchRelease, NoBatchRelease, BatchReleases
<1> QED  BY <1>2, <1>3 DEF FinaliseRetry

\* A task that has to be called again preserves the invariant.
LEMMA FinaliseRetryClean ==
  ASSUME CleanUpInv, RollingInv', NEW why, RunsFor(why), NEW task \in FinalisingSteps,
         FinaliseRetry(why, task)
  PROVE  CleanUpInv'
<1> DEFINE s == [newStatus EXCEPT !.fin = task,
                                  !.fresh = newStatus.fresh \/ status.fin = "None"]
<1>1. /\ RollingInv /\ NetworkOK /\ ServedOK /\ RollingOK(status)
      /\ DrainedOK(status, Drained) /\ SequenceOK(status, Achieved)
  BY DEF CleanUpInv
<1>2. status.fin # "END" /\ status.fin \in FinalisingSteps
      /\ task = Task(why) /\ ~TaskDone(task) /\ Write(s)
  BY <1>1, InvTypes, StatusFields DEF FinaliseRetry, NothingToFinalise
<1>3. /\ s.fin = task /\ s.reason = status.reason /\ s.sub = status.sub
      /\ s.phase = newStatus.phase /\ (s.phase = "Progressing" => status.phase = "Progressing")
      /\ newStatus.reason = status.reason
  <2>1. /\ newStatus \in Statuses /\ newStatus.reason = status.reason
        /\ newStatus.sub = status.sub
        /\ newStatus.phase = "Progressing" => status.phase = "Progressing"
    BY <1>1, NewStatusClean, NewStatusCore DEF RunsFor
  <2> QED  BY <2>1 DEF Statuses
<1> HIDE DEF s
<1>4. status' = s \/ status' = status
  BY <1>2 DEF Write
<1>5. /\ status'.reason = status.reason /\ status'.sub = status.sub
      /\ status'.phase = "Progressing" => status.phase = "Progressing"
      /\ status'.fin \in {status.fin, task}
  BY <1>3, <1>4
<1>6. RollingOK(status)'
  BY <1>5 DEF RunsFor, RollingOK
<1>7. /\ status.fin # "None" => task = status.fin
      /\ status.fin = "None" =>
           /\ task \in {"RouteTrafficToNew", "RouteTrafficToStable", "RestoreStableService"}
           /\ why = "rollback" => task = "RouteTrafficToStable"
           /\ ~BlueGreen => task # "RouteTrafficToNew"
           /\ task \in Tasks(why) /\ Behind(why, task) = {} /\ Behind(why, "None") = {}
  BY <1>2, Follows, BehindNext DEF Task
<1>8. NetworkOK'
  <2>1. UNCHANGED trVars => NetworkOK'
    BY <1>1 DEF NetworkOK, trVars
  <2>2. task \in {"RouteTrafficToStable", "RestoreStableService", "RemoveCanaryService",
                  "RouteTrafficToNew"} => HasTrafficRoutings
    BY <1>2 DEF TaskDone, RestoreGatewayDone, RestoreStableServiceDone,
                RemoveCanaryServiceDone, RouteAllTrafficToNewVersionDone
  <2> QED  BY <1>1, <2>1, <2>2, ManagerNetwork DEF FinaliseRetry
<1>9. ServedOK' /\ DrainedOK(status, Drained)'
  <2>1. CASE task = "RouteTrafficToNew"
    <3>1. BlueGreen /\ status'.fin \in {"None", "RouteTrafficToNew"}
      BY <1>1, <1>5, <1>7, <2>1 DEF DrainedOK
    <3> QED  BY <3>1 DEF ServedOK, DrainedOK
  <2>2. CASE task = "RouteTrafficToStable"
    <3>1. RestoreGateway
      BY <2>2 DEF FinaliseRetry
    <3>2. ServedOK'
      BY <1>1, <3>1 DEF RestoreGateway, ServedOK, trVars
    <3>3. status'.fin \in {"None", "RouteTrafficToStable"}
      BY <1>5, <1>7, <2>2
    <3> QED  BY <3>2, <3>3 DEF DrainedOK
  <2>3. CASE task \notin {"RouteTrafficToNew", "RouteTrafficToStable"}
    <3>1. \/ UNCHANGED trVars
          \/ task = "RestoreStableService" /\ RestoreStableService(wl.consistent)
          \/ task = "RemoveCanaryService" /\ RemoveCanaryService
      BY <2>3 DEF FinaliseRetry
    <3>2. Drained => Drained'
      BY <3>1, ManagerDrained DEF Drained, trVars
    <3>3. task = "RemoveCanaryService" => Drained
      BY <1>1, <1>7 DEF DrainedOK
    <3>4. ServedOK'
      BY <1>1, <3>1, <3>2, <3>3
      DEF ServedOK, Drained, RestoreStableService, trVars
    <3>5. DrainedOK(status', Drained)
      BY <1>1, <1>5, <1>7, <2>3 DEF DrainedOK, RunsFor
    <3>6. DrainedOK(status, Drained)'
      BY <3>2, <3>5 DEF DrainedOK
    <3> QED  BY <3>4, <3>6
  <2> QED  BY <2>1, <2>2, <2>3
<1>10. SequenceOK(status, Achieved)'
  <2>1. SUFFICES ASSUME status.phase = "Progressing",
                        status.reason \in {"Finalising", "Cancelling"},
                        why = IF status.reason = "Finalising" THEN "success" ELSE "rollback"
                 PROVE  InSequence(status, why, Achieved)'
    BY <1>5 DEF SequenceOK, RunsFor
  <2>2. InSequence(status, why, Achieved)
    BY <1>1, <2>1 DEF SequenceOK
  <2>3. /\ status'.sub /\ status'.fin \in Tasks(why) \cup {"None", "END"}
        /\ Behind(why, status'.fin) \subseteq Behind(why, status.fin)
    BY <1>5, <1>7, <2>2 DEF InSequence
  <2>4. CASE task = "RouteTrafficToNew"
    <3>1. Behind(why, status'.fin) = {}
      BY <1>2, <1>5, <1>7, <2>2, <2>4, Follows DEF InSequence
    <3> QED  BY <2>3, <3>1 DEF InSequence, Tasks, Behind, TaskSequence
  <2>5. CASE task # "RouteTrafficToNew"
    <3>1. Achieved \subseteq Achieved'
      <4>1. CASE br' = br /\ ~UNCHANGED trVars
        BY <2>5, <4>1, ManagerAchieved DEF FinaliseRetry
      <4>2. CASE UNCHANGED trVars
        <5>1. br'.exists => br.exists
          BY <1>1, RetryRelease
        <5> QED  BY <4>2, <5>1 DEF Achieved, trVars
      <4> QED  BY <2>5, <4>1, <4>2 DEF FinaliseRetry
    <3> QED  BY <2>2, <2>3, <3>1 DEF InSequence, Tasks, Behind, TaskSequence
  <2> QED  BY <2>4, <2>5
<1> QED  BY <1>6, <1>8, <1>9, <1>10 DEF CleanUpInv

\* A call that leaves the network and the BatchRelease alone.
LEMMA FinaliseWriteClean ==
  ASSUME CleanUpInv, RollingInv', NEW why, RunsFor(why), UNCHANGED trVars, br' = br,
         NEW s, Write(s), DrainedOK(s, Drained), SequenceOK(s, Achieved),
         s.phase = "Progressing" => s.reason \in {"Finalising", "Cancelling", "Completed"}
  PROVE  CleanUpInv'
<1>1. NetworkOK' /\ ServedOK' /\ (Drained' <=> Drained)
  BY DEF CleanUpInv, NetworkOK, ServedOK, Drained, trVars
<1>2. Achieved' = Achieved
  BY DEF Achieved, trVars
<1>3. status' = s \/ status' = status
  BY DEF Write
<1>4. RollingOK(status)'
  BY <1>3 DEF RunsFor, RollingOK
<1>5. DrainedOK(status, Drained)'
  BY <1>1, <1>3 DEF CleanUpInv, DrainedOK
<1>6. SequenceOK(status, Achieved)'
  BY <1>2, <1>3, Zenon DEF CleanUpInv, SequenceOK, InSequence
<1> QED  BY <1>1, <1>4, <1>5, <1>6 DEF CleanUpInv

\* The task that follows one that is done: what DrainedOK and SequenceOK say
\* of the next one holds.
LEMMA TaskDoneClean ==
  ASSUME CleanUpInv, NEW why, RunsFor(why), ~NothingToFinalise, TaskDone(Task(why)),
         status.phase = "Progressing" => wl.consistent,
         NEW s, s.fin = NextTask(why, status.fin), s.sub,
         s.phase = "Progressing" => status.phase = "Progressing",
         \/ s.reason = status.reason
         \/ s.reason = "Completed" /\ s.fin = "END"
  PROVE  DrainedOK(s, Drained) /\ SequenceOK(s, Achieved)
<1> DEFINE next == NextTask(why, status.fin)
<1>1. /\ RollingInv /\ NetworkOK /\ DrainedOK(status, Drained)
      /\ SequenceOK(status, Achieved)
      /\ status.fin # "END" /\ status.fin \in FinalisingSteps
  BY InvTypes, StatusFields DEF CleanUpInv, NothingToFinalise
<1>2. status.fin = "RouteTrafficToStable" => Drained
  BY <1>1, GatewayDrained DEF Task, TaskDone
<1>3. DrainedOK(s, Drained)
  <2>1. next = "RemoveCanaryService" => Drained
    BY <1>1, <1>2, Follows DEF DrainedOK, RunsFor
  <2>2. status.reason = "Cancelling" /\ next = "ResumeWorkload" => Drained
    BY <1>1, <1>2, Follows DEF DrainedOK, RunsFor
  <2>3. status.phase = "Progressing" /\ status.reason = "Cancelling"
        /\ next = "RestoreStableService" => Drained
    BY <1>1, <1>2, Follows DEF DrainedOK, RunsFor
  <2>4. ~BlueGreen => next # "RouteTrafficToNew"
    BY <1>1, Follows
  <2>5. ~BlueGreen /\ next \in {"ResumeWorkload", "ReleaseWorkloadControl", "END"}
        => Drained
    BY <1>1, <1>2, Follows DEF DrainedOK
  <2> QED  BY <2>1, <2>2, <2>3, <2>4, <2>5 DEF DrainedOK
<1>4. SequenceOK(s, Achieved)
  <2>1. SUFFICES ASSUME s.phase = "Progressing"
                 PROVE  SequenceOK(s, Achieved)
    BY DEF SequenceOK
  <2>2. status.phase = "Progressing" /\ wl.consistent
        /\ why = (IF status.reason = "Finalising" THEN "success" ELSE "rollback")
        /\ status.reason \in {"Finalising", "Cancelling"}
    BY <2>1 DEF RunsFor
  <2>3. InSequence(status, why, Achieved)
    BY <1>1, <2>2 DEF SequenceOK
  <2>4. status.fin \in Effects => status.fin \in Achieved
    BY <2>2, DoneAchieved DEF Task, Effects
  <2>5. next \in Tasks(why) \cup {"END"} /\ Behind(why, next) \cap Effects \subseteq Achieved
    BY <1>1, <2>3, <2>4, BehindNext DEF InSequence
  <2>6. next = "END" => Effects \subseteq Achieved
    BY <1>1, <2>5, BehindNext
  <2> HIDE DEF next
  <2>7. s.fin = next
    BY DEF next
  <2> QED  BY <2>2, <2>5, <2>6, <2>7 DEF SequenceOK, InSequence
<1> QED  BY <1>3, <1>4

\* Every call of doFinalising preserves the invariant.
LEMMA DoFinalisingClean ==
  ASSUME CleanUpInv, RollingInv', NEW why, RunsFor(why), NEW done, EndOf(done),
         status.phase = "Progressing" => wl.consistent, doFinalising(why, done)
  PROVE  CleanUpInv'
<1>1. /\ RollingInv /\ DrainedOK(status, Drained) /\ SequenceOK(status, Achieved)
      /\ status.fin \in FinalisingSteps
  BY InvTypes, StatusFields DEF CleanUpInv
<1>2. /\ newStatus \in Statuses /\ newStatus.reason = status.reason
      /\ newStatus.sub = status.sub
      /\ newStatus.phase = "Progressing" => status.phase = "Progressing"
  BY <1>1, NewStatusClean, NewStatusCore DEF RunsFor
<1>3. CASE \E task \in FinalisingSteps : FinaliseRetry(why, task)
  BY <1>3, FinaliseRetryClean
<1>4. CASE FinaliseNext(why)
  <2> DEFINE s == [newStatus EXCEPT !.fin = NextTask(why, status.fin), !.fresh = TRUE]
  <2>1. /\ s.fin = NextTask(why, status.fin) /\ s.reason = status.reason
        /\ s.sub = status.sub
        /\ s.phase = "Progressing" => status.phase = "Progressing"
    BY <1>2 DEF Statuses
  <2>2. /\ ~NothingToFinalise /\ TaskDone(Task(why)) /\ Write(s) /\ UNCHANGED trVars
        /\ br' = br /\ status.sub
    BY <1>4 DEF FinaliseNext, NothingToFinalise
  <2> HIDE DEF s
  <2>3. DrainedOK(s, Drained) /\ SequenceOK(s, Achieved)
    BY <2>1, <2>2, TaskDoneClean
  <2> QED  BY <2>1, <2>2, <2>3, FinaliseWriteClean DEF RunsFor
<1>5. CASE FinaliseLast(why, done)
  <2> DEFINE s == [done EXCEPT !.fin = "END", !.fresh = TRUE]
  <2>1. /\ s.fin = "END" /\ s.reason = done.reason /\ s.phase = done.phase
        /\ s.sub = done.sub
    BY DEF Statuses, EndOf
  <2>2. /\ ~NothingToFinalise /\ TaskDone(Task(why)) /\ Write(s) /\ UNCHANGED trVars
        /\ br' = br /\ status.sub /\ NextTask(why, status.fin) = "END"
    BY <1>5 DEF FinaliseLast, NothingToFinalise
  <2> HIDE DEF s
  <2>3. DrainedOK(s, Drained) /\ SequenceOK(s, Achieved)
    BY <2>1, <2>2, TaskDoneClean DEF EndOf
  <2> QED  BY <2>1, <2>2, <2>3, FinaliseWriteClean DEF EndOf
<1>6. CASE FinaliseNothing(done)
  <2>1. DrainedOK(done, Drained)
    BY <1>1 DEF EndOf, DrainedOK
  <2>2. SequenceOK(done, Achieved)
    <3>1. SUFFICES ASSUME done.phase = "Progressing", done.reason = "Completed",
                          status.phase = "Progressing"
                   PROVE  Effects \subseteq Achieved
      BY DEF EndOf, SequenceOK
    <3>2. InSequence(status, why, Achieved)
      BY <1>1, <3>1 DEF SequenceOK, RunsFor
    <3>3. status.fin = "END"
      BY <1>6, <3>2 DEF FinaliseNothing, NothingToFinalise, InSequence
    <3> QED  BY <1>1, <3>2, <3>3, BehindNext DEF InSequence
  <2>3. Write(done) /\ UNCHANGED trVars /\ br' = br
    BY <1>6 DEF FinaliseNothing
  <2> QED  BY <2>1, <2>2, <2>3, FinaliseWriteClean DEF EndOf
<1> QED  BY <1>3, <1>4, <1>5, <1>6 DEF doFinalising

\* So do its four callers.
LEMMA FinalisingClean ==
  ASSUME CleanUpInv, RollingInv',
         \/ ProgressingFinalising \/ ProgressingCancelling
         \/ RolloutTerminating \/ RolloutDisabling
  PROVE  CleanUpInv'
<1>1. RollingInv /\ newStatus \in Statuses /\ newStatus.fin = status.fin
  BY NewStatusClean DEF CleanUpInv
<1>2. status.phase \in {"Progressing", "Terminating", "Disabling"} =>
        /\ newStatus.reason = status.reason /\ newStatus.sub = status.sub
        /\ newStatus.phase = "Progressing" => status.phase = "Progressing"
  BY <1>1, NewStatusClean, NewStatusCore
<1>3. ASSUME NEW o \in {"True", "False"}, status.phase = "Progressing"
      PROVE  EndOf([newStatus EXCEPT !.reason = "Completed", !.succeeded = o])
  BY <1>1, <1>2, <1>3, Names DEF EndOf, Statuses
<1>4. CASE ProgressingFinalising
  BY <1>3, <1>4, DoFinalisingClean
  DEF ProgressingFinalising, Progressing, Reconciling, RunsFor
<1>5. CASE ProgressingCancelling
  BY <1>3, <1>5, DoFinalisingClean
  DEF ProgressingCancelling, Progressing, Reconciling, RunsFor
<1>6. CASE RolloutTerminating
  <2> DEFINE d == [newStatus EXCEPT !.terminated = TRUE]
  <2>1. status.phase = "Terminating" /\ doFinalising("delete", d)
    BY <1>6 DEF RolloutTerminating, Reconciling
  <2>2. EndOf(d)
    BY <1>1, <1>2, <2>1, Members DEF EndOf, Statuses
  <2> HIDE DEF d
  <2> QED  BY <2>1, <2>2, DoFinalisingClean DEF RunsFor
<1>7. CASE RolloutDisabling
  <2> DEFINE d == [newStatus EXCEPT !.phase = "Disabled"]
  <2>1. status.phase = "Disabling" /\ doFinalising("disabled", d)
    BY <1>7 DEF RolloutDisabling, Reconciling
  <2>2. EndOf(d)
    BY <1>1, <1>2, <2>1, Names DEF EndOf, Statuses
  <2> HIDE DEF d
  <2> QED  BY <2>1, <2>2, DoFinalisingClean DEF RunsFor
<1> QED  BY <1>4, <1>5, <1>6, <1>7

-----------------------------------------------------------------------------
(* The environment.                                                        *)

\* A step that does not touch what the invariant says of the status, and
\* takes nothing of the clean-up back.
LEMMA SameClean ==
  ASSUME CleanUpInv, RollingInv', NetworkOK', ServedOK', RollingOK(status)',
         Drained => Drained', Achieved \subseteq Achieved',
         SameCore(status', status), status'.phase = status.phase
  PROVE  CleanUpInv'
<1>1. DrainedOK(status, Drained)'
  BY DEF CleanUpInv, DrainedOK, SameCore
<1>2. SequenceOK(status, Achieved)'
  BY Zenon DEF CleanUpInv, SequenceOK, InSequence, SameCore
<1> QED  BY <1>1, <1>2 DEF CleanUpInv

\* Below the rollout the stable revision only ever becomes the update
\* revision, and no pods of another revision appear.
LEMMA BelowPods ==
  ASSUME RollingInv, Below
  PROVE  /\ wl'.update = wl.update /\ wl'.anno = wl.anno
         /\ wl'.stable \in {wl.stable, wl.update}
         /\ OtherPods' \subseteq OtherPods
<1>1. wl \in Workloads /\ pods \in [Revisions -> Nat]
  BY InvTypes DEF BatchReleaseTypeOK
<1>2. /\ wl'.update = wl.update /\ wl'.anno = wl.anno
      /\ wl'.stable \in {wl.stable, wl.update}
  <2>1. CASE BatchReleaseStep
    BY <1>1, <2>1
    DEF BatchReleaseStep, BRObserve, BRPrepare, BRRevision, BRRollback, BRUpgrade,
        BRVerify, BRRecheck, BRResume, BRComplete, BRGone, Workloads
  <2>2. CASE WorkloadStep
    BY <1>1, <2>2
    DEF WorkloadStep, PodUpdated, PodBecomesReady, PodScaledDown, Promoted,
        WorkloadObserved, Workloads
  <2> QED  BY <2>1, <2>2 DEF Below
<1>3. OtherPods' \subseteq OtherPods
  <2>1. CASE UNCHANGED pods
    BY <1>2, <2>1 DEF OtherPods
  <2>2. CASE PodUpdated \/ PodScaledDown
    <3>1. \A r \in Revisions \ {wl.update} : pods'[r] > 0 => pods[r] > 0
      BY <1>1, <2>2 DEF PodUpdated, PodScaledDown, OtherPods
    <3> QED  BY <1>2, <3>1 DEF OtherPods
  <2> QED
    BY <2>1, <2>2
    DEF Below, WorkloadStep, PodBecomesReady, Promoted, WorkloadObserved,
        BatchReleaseStep, BRObserve, BRPrepare, BRRevision, BRRollback, BRUpgrade,
        BRVerify, BRRecheck, BRResume, BRComplete, BRGone
<1> QED  BY <1>2, <1>3

\* So the BatchRelease and the CloneSet controllers preserve the invariant.
LEMMA BelowClean ==
  ASSUME CleanUpInv, RollingInv', Below
  PROVE  CleanUpInv'
<1>1. /\ UNCHANGED <<rollout, status, userOps>> /\ UNCHANGED trVars
      /\ RollingInv /\ NetworkOK /\ ServedOK /\ RollingOK(status)
  BY DEF Below, rolloutVars, CleanUpInv
<1>2. br'.exists => br.exists
  BY <1>1, BelowRelease
<1>3. RollingOK(status)'
  BY <1>1, BelowPods DEF RollingOK, IsInRollback, SingleVersion
<1>4. NetworkOK' /\ ServedOK' /\ (Drained => Drained') /\ Achieved \subseteq Achieved'
  BY <1>1, <1>2 DEF NetworkOK, ServedOK, Drained, Achieved, trVars
<1> QED  BY <1>1, <1>3, <1>4, SameClean DEF SameCore

\* So do time, restarts, the garbage collector and the finalizer's removal.
LEMMA EnvironmentClean ==
  ASSUME CleanUpInv, RollingInv', Time \/ Restart \/ GarbageCollected \/ FinalizerRemoved
  PROVE  CleanUpInv'
<1>1. RollingInv /\ NetworkOK /\ ServedOK /\ RollingOK(status) /\ status \in Statuses
      /\ br \in BatchReleases
  BY InvTypes DEF CleanUpInv
<1>2. /\ SameCore(status', status) /\ status'.phase = status.phase
      /\ status'.cr = status.cr /\ UNCHANGED <<wl, pods>>
  BY <1>1
  DEF Time, StatusAges, ConditionAges, Restart, GarbageCollected, FinalizerRemoved,
      rolloutVars, brVars, Statuses, SameCore
<1>3. RollingOK(status)'
  BY <1>1, <1>2 DEF RollingOK, IsInRollback, SingleVersion, OtherPods, SameCore
<1>4. NetworkOK' /\ ServedOK' /\ (Drained => Drained') /\ Achieved \subseteq Achieved'
  <2>1. CASE StatusAges \/ ConditionAges \/ FinalizerRemoved
    <3>1. UNCHANGED trVars /\ br' = br
      BY <2>1 DEF StatusAges, ConditionAges, FinalizerRemoved, brVars
    <3> QED  BY <1>1, <3>1 DEF NetworkOK, ServedOK, Drained, Achieved, trVars
  <2>2. CASE Restart
    <3>1. "restart" \in Faults /\ UNCHANGED <<netVars, settling>> /\ br' = br
      BY <2>2 DEF Restart, ForgetExpectations, brVars
    <3> QED  BY <1>1, <3>1 DEF NetworkOK, ServedOK, Drained, Achieved, netVars
  <2>3. ASSUME NEW a \in GraceActions, GraceElapses(a), UNCHANGED brVars
        PROVE  NetworkOK' /\ ServedOK' /\ (Drained => Drained')
               /\ Achieved \subseteq Achieved'
    BY <1>1, <2>3
    DEF GraceElapses, NetworkOK, ServedOK, Drained, Achieved, netVars, brVars
  <2>4. CASE GarbageCollected
    <3>1. br'.exists => br.exists
      BY <1>1, <2>4 DEF GarbageCollected, RemoveBatchRelease, NoBatchRelease
    <3>2. route' = NoRoute /\ canarySvc' = NoRevision
          /\ UNCHANGED <<stableSel, grace, settling>>
      BY <2>4 DEF GarbageCollected
    <3> QED  BY <1>1, <3>1, <3>2 DEF NetworkOK, ServedOK, Drained, Achieved
  <2> QED  BY <2>1, <2>2, <2>3, <2>4 DEF Time
<1> QED  BY <1>2, <1>3, <1>4, SameClean

\* So does a user who lets no release overtake an unfinished one.
LEMMA UserClean ==
  ASSUME CleanUpInv, RollingInv', NoOvertaking, User
  PROVE  CleanUpInv'
<1>1. /\ RollingInv /\ NetworkOK /\ ServedOK /\ RollingOK(status) /\ status \in Statuses
      /\ wl \in Workloads
  BY InvTypes DEF CleanUpInv
<1>2. UNCHANGED trVars /\ br' = br /\ pods' = pods
  BY DEF User, Release, Approve, Jump, ChangePlan, Pause, Disable, Delete, brVars
<1>3. NetworkOK' /\ ServedOK' /\ (Drained => Drained') /\ Achieved \subseteq Achieved'
  BY <1>1, <1>2 DEF NetworkOK, ServedOK, Drained, Achieved, trVars
<1>4. CASE \E r \in Revisions : Release(r)
  <2>1. PICK r \in Revisions : Release(r)
    BY <1>4
  <2>2. status' = status /\ wl'.update = r /\ wl'.stable = wl.stable /\ r # wl.update
    BY <1>1, <2>1 DEF Release, Workloads
  <2>3. status.phase = "Progressing" => r = wl.stable
    BY <2>1 DEF Release, UserOp, ReleaseKind, NoOvertaking
  <2>4. RollingOK(status)'
    BY <1>1, <2>2, <2>3 DEF RollingOK
  <2> QED  BY <1>3, <2>2, <2>4, SameClean DEF SameCore
<1>5. CASE ~\E r \in Revisions : Release(r)
  <2>1. /\ SameCore(status', status) /\ status'.phase = status.phase
        /\ status'.cr = status.cr /\ UNCHANGED wl
    BY <1>1, <1>5
    DEF User, Approve, Jump, ChangePlan, Pause, Disable, Delete, brVars, Statuses, SameCore
  <2>2. RollingOK(status)'
    BY <1>1, <1>2, <2>1 DEF RollingOK, IsInRollback, SingleVersion, OtherPods, SameCore
  <2> QED  BY <1>3, <2>1, <2>2, SameClean
<1> QED  BY <1>4, <1>5

-----------------------------------------------------------------------------

\* The invariant holds initially: nothing has been touched.
LEMMA InitClean == Init => CleanUpInv
<1> SUFFICES ASSUME Init PROVE CleanUpInv
  OBVIOUS
<1>1. RollingInv
  BY InitInv
<1>2. NetworkOK /\ ServedOK
  BY DEF Init, TrafficInit, NetworkOK, ServedOK
<1>3. status.phase = "Initial" /\ status.fin = "None"
  BY DEF Init, RolloutInit
<1>4. RollingOK(status) /\ DrainedOK(status, Drained) /\ SequenceOK(status, Achieved)
  BY <1>3 DEF RollingOK, DrainedOK, SequenceOK
<1> QED  BY <1>1, <1>2, <1>4 DEF CleanUpInv

\* Every step preserves it.
LEMMA NextClean ==
  ASSUME NoOvertaking, CleanUpInv, [Next]_vars
  PROVE  CleanUpInv'
<1>1. RollingInv /\ RollingInv'
  BY NextInv DEF CleanUpInv
<1>2. CASE UNCHANGED vars
  <2>1. UNCHANGED status /\ UNCHANGED trVars /\ UNCHANGED <<br, wl, pods>>
    BY <1>2 DEF vars, rolloutVars, brVars
  <2>2. NetworkOK' /\ ServedOK' /\ (Drained => Drained') /\ Achieved \subseteq Achieved'
    BY <2>1 DEF CleanUpInv, NetworkOK, ServedOK, Drained, Achieved, trVars
  <2>3. RollingOK(status)'
    BY <2>1 DEF CleanUpInv, RollingOK, IsInRollback, SingleVersion, OtherPods
  <2> QED  BY <1>1, <2>1, <2>2, <2>3, SameClean DEF SameCore
<1>3. CASE Reconcile
  BY <1>1, <1>3, ReconcileIdleClean, WaitingClean, SpecialCasesClean, ResetClean,
     StepStepClean, FinalisingClean, EnvironmentClean
  DEF Reconcile
<1>4. CASE Below
  BY <1>1, <1>4, BelowClean
<1>5. CASE Time \/ Restart \/ GarbageCollected
  BY <1>1, <1>5, EnvironmentClean
<1>6. CASE User
  BY <1>1, <1>6, UserClean
<1> QED  BY <1>2, <1>3, <1>4, <1>5, <1>6 DEF Next

\* As long as no release overtakes an unfinished one the finalising step in
\* the status tells the truth about the Services, the route and the
\* BatchRelease, whatever is lost, restarted, cancelled, disabled or deleted.
THEOREM CleanUpInvariant == Spec => [](NoOvertaking => CleanUpInv)
<1>1. Init => (NoOvertaking => CleanUpInv)
  BY InitClean
<1>2. (NoOvertaking => CleanUpInv) /\ [Next]_vars => (NoOvertaking => CleanUpInv)'
  BY NextClean DEF NoOvertaking
<1> QED  BY <1>1, <1>2, PTL DEF Spec

\* The canary ingress never points at a canary Service that does not exist.
THEOREM CanaryRouteServed == Spec => []CanaryRouteHasService
<1>1. (NoOvertaking => CleanUpInv) => CanaryRouteHasService
  BY DEF CleanUpInv, ServedOK, CanaryRouteHasService, Routed
<1> QED  BY <1>1, CleanUpInvariant, PTL

\* A rollout that reports Completed has restored the stable Service, removed
\* the canary ingress and Service, and deleted the BatchRelease.
THEOREM CompletedClean == Spec => []CompletedIsClean
<1>1. (NoOvertaking => CleanUpInv) => CompletedIsClean
  BY DEF CleanUpInv, SequenceOK, Effects, Achieved, CompletedIsClean, Clean
<1> QED  BY <1>1, CleanUpInvariant, PTL

-----------------------------------------------------------------------------
(* What is taken away is drained first.                                    *)

Undoes ==
  \/ canarySvc # NoRevision /\ canarySvc' = NoRevision
  \/ /\ status.reason = "Cancelling"
     /\ br.part # NoPartition /\ br'.exists /\ br'.part = NoPartition

\* A rolling rollout removes the canary Service after the gateway, in a step
\* without traffic as in a reset.
LEMMA RollingDrains ==
  ASSUME CleanUpInv, StepStep \/ ResetGateway \/ ResetRelease \/ ResetDone, Undoes
  PROVE  Drained
<1>1. Progressing("InRolling") /\ status.reason = "InRolling" /\ NetworkOK
  BY StepStatus
  DEF ResetGateway, ResetRelease, ResetDone, Continuous, Rolling, Progressing, CleanUpInv
<1>2. canarySvc # NoRevision /\ canarySvc' = NoRevision
  BY <1>1 DEF Undoes
<1>3. CASE ResetDone
  BY <1>1, <1>3, ResetDrained DEF ResetDone
<1>4. CASE StepCleanUp
  BY <1>1, <1>2, <1>4, GatewayDrained
  DEF StepCleanUp, FinalisingTrafficRouting, RestoreStableService, RestoreGateway, trVars
<1>5. CASE StepRoute
  BY <1>2, <1>5
  DEF StepRoute, DoTrafficRouting, DoTrafficRoutingPatches, trVars
<1> QED
  BY <1>2, <1>3, <1>4, <1>5
  DEF ResetGateway, ResetRelease, RestoreGateway, StepStep, StepJump, StepInitUnpin,
      StepInitPin, StepInitSkip, StepUpgradeApply, StepUpgradeWait, StepUpgradeDone,
      StepRouted, StepAnalysed, StepPaused, StepReady, RestoreStableService,
      PatchStableService, trVars

\* A finalising sequence removes the canary Service, and cancels the
\* partition of a rollback, in a task that has the gateway's behind it.
LEMMA FinalisingDrains ==
  ASSUME CleanUpInv, NEW why, NEW done, doFinalising(why, done), Undoes
  PROVE  Drained
<1>1. RollingInv /\ DrainedOK(status, Drained) /\ status.fin \in FinalisingSteps
  BY InvTypes, StatusFields DEF CleanUpInv
<1>2. PICK task \in FinalisingSteps : FinaliseRetry(why, task)
  BY DEF doFinalising, FinaliseNext, FinaliseLast, FinaliseNothing, Undoes, trVars
<1>3. task \in {"RemoveCanaryService", "ResumeWorkload"} => status.fin = task
  BY <1>1, <1>2, Follows DEF FinaliseRetry, Task
<1>4. CASE canarySvc # NoRevision /\ canarySvc' = NoRevision
  <2>1. task = "RemoveCanaryService"
    BY <1>2, <1>4
    DEF FinaliseRetry, RestoreGateway, RestoreStableService, RouteAllTrafficToNewVersion,
        trVars
  <2> QED  BY <1>1, <1>3, <2>1 DEF DrainedOK
<1>5. CASE status.reason = "Cancelling" /\ br.part # NoPartition
           /\ br'.exists /\ br'.part = NoPartition
  <2>1. task = "ResumeWorkload"
    BY <1>1, <1>2, <1>5, RetryRelease
  <2> QED  BY <1>1, <1>3, <1>5, <2>1 DEF DrainedOK
<1> QED  BY <1>4, <1>5 DEF Undoes

\* Whoever takes the canary Service or, in a rollback, the partition away
\* finds the gateway drained.
LEMMA NextDrains ==
  ASSUME CleanUpInv, [Next]_vars, rollout.exists, Undoes
  PROVE  Drained
<1>1. CASE canarySvc' = canarySvc /\ br' = br
  BY <1>1 DEF Undoes
<1>2. CASE StepStep \/ ResetGateway \/ ResetRelease \/ ResetDone
  BY <1>2, RollingDrains
<1>3. CASE ProgressingFinalising \/ ProgressingCancelling
           \/ RolloutTerminating \/ RolloutDisabling
  BY <1>3, FinalisingDrains
  DEF ProgressingFinalising, ProgressingCancelling, RolloutTerminating, RolloutDisabling
<1>4. CASE Below
  <2>1. canarySvc' = canarySvc /\ RollingInv
    BY <1>4 DEF Below, trVars, CleanUpInv
  <2>2. br'.exists => br'.part = br.part
    BY <1>4, <2>1, BelowRelease
  <2> QED  BY <2>1, <2>2 DEF Undoes
<1>5. CASE UNCHANGED vars \/ User \/ Time \/ Restart \/ GarbageCollected
  <2>1. canarySvc' = canarySvc /\ br' = br
    BY <1>5
    DEF vars, User, Release, Approve, Jump, ChangePlan, Pause, Disable, Delete, Time,
        StatusAges, ConditionAges, GraceElapses, Restart, ForgetExpectations,
        GarbageCollected, netVars, trVars, brVars
  <2> QED  BY <1>1, <2>1
<1>6. CASE \/ ReconcileIdle \/ ProgressingInitializing \/ ProgressingPaused
           \/ ProgressingCompleted \/ RollbackDirectly \/ RolloutPaused
           \/ RollbackInBatches \/ ContinuousRefused \/ PlanChanged \/ RollingDone
           \/ FinalizerRemoved
  <2>1. canarySvc' = canarySvc /\ br' = br
    BY <1>6
    DEF ReconcileIdle, ProgressingInitializing, ProgressingPaused, ProgressingCompleted,
        RollbackDirectly, RolloutPaused, RollbackInBatches, ContinuousRefused,
        PlanChanged, RollingDone, FinalizerRemoved, trVars, brVars
  <2> QED  BY <1>1, <2>1
<1> QED  BY <1>2, <1>3, <1>4, <1>5, <1>6 DEF Next, Reconcile

\* While the Rollout exists, the canary Service is removed and a rolled back
\* workload given back only after the gateway was restored for a whole grace
\* period.
THEOREM GatewayDrainedFirst == Spec => DrainedFirst
<1>1. (NoOvertaking => CleanUpInv) /\ [Next]_vars =>
        [/\ NoOvertaking /\ "restart" \notin Faults /\ rollout.exists
         /\ \/ canarySvc # NoRevision /\ canarySvc' = NoRevision
            \/ /\ status.reason = "Cancelling"
               /\ br.part # NoPartition /\ br'.exists /\ br'.part = NoPartition
         => route = NoRoute /\ "restoreGateway" \notin settling]_vars
  BY NextDrains DEF Undoes, Drained
<1> QED  BY <1>1, CleanUpInvariant, PTL DEF Spec, DrainedFirst
-----------------------------------------------------------------------------
(* The stable Service is pinned before pods are updated, and opened after   *)
(* the pods of a rejected revision are gone.                               *)
(*                                                                         *)
(* Both rest on the webhook: it lets a release begin only while all pods    *)
(* run one revision, and with a partition that updates none (Untouched).   *)
(* That lasts until runCanary creates the BatchRelease, which it does only *)
(* after it has pinned the Service.                                        *)

\* All pods are of one revision.
Uniform == \E r \in Revisions : \A x \in Revisions \ {r} : pods[x] = 0
\* And none may be updated.
Untouched == wl.target = 0 /\ Uniform

PodsOK == ready <= pods[wl.update] /\ \E r \in Revisions : pods[r] > 0

\* The Rollout is never disabled; it goes away when it has terminated.
LifeOK ==
  /\ ~rollout.disabled /\ status.phase \notin {"Disabling", "Disabled"}
  /\ ~rollout.exists \/ status.terminated => status.phase = "Terminating"

\* Between two rollouts: a release that is admitted has touched nothing.
RestOK(s) ==
  \/ s.phase \in {"Initial", "Healthy"}
  \/ s.phase = "Progressing" /\ s.reason = "Completed"
  => ~br.exists /\ (wl.anno => Untouched)

\* A canary release that is put back before its first pod is reset and starts
\* again: a BatchRelease may have raised the partition already.
NotReset == BlueGreen \/ wl.update # wl.stable

StartOK(s) ==
  s.phase = "Progressing" /\ s.reason = "Initializing" /\ NotReset =>
    ~br.exists /\ Untouched

IsRolling(s) == s.phase = "Progressing" /\ s.reason \in {"InRolling", "Paused"}

\* Before the BatchRelease is created nothing is touched; it stays until the
\* rollout finalises.
RollOK(s) ==
  IsRolling(s) /\ NotReset =>
    /\ ~br.exists => Untouched
    /\ br.exists => ~br.deleting /\ ~br.completed

\* A blue-green rollback: what has been resumed runs one revision.
Past == {"RestoreStableService", "RemoveCanaryService", "ReleaseWorkloadControl", "END"}
CancelOK(s) ==
  BlueGreen /\ s.phase = "Progressing" /\ s.reason = "Cancelling" =>
    /\ wl.update = wl.stable
    /\ ~br.exists => SingleVersion \/ Untouched
    /\ br.exists /\ (br.completed \/ br.deleting \/ s.fin \in Past) => SingleVersion

HoldInv ==
  /\ CleanUpInv
  /\ PodsOK /\ LifeOK
  /\ RestOK(status) /\ StartOK(status) /\ RollOK(status) /\ CancelOK(status)

\* Once step 1 is past its Init, or there is a BatchRelease, the Service is
\* pinned.
PinOK(s) ==
  IsRolling(s) /\ wl.update # wl.stable =>
    /\ s.sr = wl.stable
    /\ s.nxt = NextBatchIndex(s.idx)
    /\ ~br.exists => s.reps = 0
    /\ br.exists \/ s.idx # 1 \/ s.state # "Init" => stableSel = wl.stable

PinInv == HoldInv /\ PinOK(status)

\* What no user does who lets a rollout finish: overtake it, or disable it.
Unhurried == HasTrafficRoutings /\ NoOvertaking /\ NeverDisabled

HoldOK(s) == RestOK(s) /\ StartOK(s) /\ RollOK(s) /\ CancelOK(s)
LivesOK(s) ==
  /\ s.phase \notin {"Disabling", "Disabled"}
  /\ s.terminated => s.phase = "Terminating"

\* A reconcile of a progressing Rollout starts from the status as it is,
\* unless the Rollout is being deleted.
LEMMA NewStatusHold ==
  ASSUME HoldInv
  PROVE  /\ newStatus \in Statuses /\ status \in Statuses
         /\ LivesOK(newStatus) /\ HoldOK(newStatus)
         /\ status.phase = "Progressing" =>
              newStatus = status \/ newStatus.phase = "Terminating"
         /\ status.phase = "Terminating" => newStatus.phase = "Terminating"
<1>1. /\ RollingInv /\ LifeOK /\ HoldOK(status)
      /\ status \in Statuses /\ newStatus \in Statuses /\ status.phase \in Phases
  BY InvTypes, StatusFields DEF HoldInv, CleanUpInv, HoldOK
<1>2. CASE rollout.deleting
  <2>1. newStatus.phase = "Terminating"
    BY <1>1, <1>2 DEF newStatus, Statuses
  <2>. QED BY <1>1, <2>1 DEF HoldOK, RestOK, StartOK, RollOK, IsRolling, CancelOK, LivesOK
<1>3. CASE ~rollout.deleting
  <2>1. ~rollout.disabled /\ status.phase \in {"Initial", "Healthy", "Progressing"}
    BY <1>1, <1>3 DEF LifeOK, RollingInv, TerminatingIsDeleted, Phases
  <2>2. newStatus = PhaseTransition(status)
    BY <1>3, <2>1 DEF newStatus, Disabled
  <2>3. ~status.terminated
    BY <1>1, <2>1 DEF LifeOK
  <2>4. CASE status.phase = "Progressing"
    <3>1. newStatus = status
      BY <2>2, <2>4 DEF PhaseTransition
    <3>. QED BY <1>1, <2>3, <2>4, <3>1 DEF LivesOK
  <2>5. CASE status.phase = "Initial" \/ (status.phase = "Healthy" /\ ~wl.anno)
    <3>1. newStatus.phase = "Healthy" /\ newStatus.terminated = status.terminated
      BY <1>1, <2>2, <2>5 DEF PhaseTransition, Deployed, Statuses
    <3>. QED
      BY <1>1, <2>3, <2>5, <3>1
      DEF HoldOK, RestOK, StartOK, RollOK, IsRolling, CancelOK, LivesOK
  <2>6. CASE status.phase = "Healthy" /\ wl.anno
    <3>1. /\ newStatus.phase = "Progressing" /\ newStatus.reason = "Initializing"
          /\ newStatus.terminated = status.terminated
      BY <1>1, <2>2, <2>6 DEF PhaseTransition, Statuses
    <3>2. ~br.exists /\ Untouched
      BY <1>1, <2>6 DEF HoldOK, RestOK
    <3>. QED
      BY <1>1, <2>3, <2>6, <3>1, <3>2
      DEF HoldOK, RestOK, StartOK, RollOK, IsRolling, CancelOK, LivesOK
  <2>. QED BY <2>1, <2>4, <2>5, <2>6
<1>. QED BY <1>2, <1>3

\* A reconcile that writes s and leaves the workload alone.
LEMMA HoldWrite ==
  ASSUME HoldInv, CleanUpInv', UNCHANGED <<rollout, wl, pods, ready, br>>,
         NEW s, Write(s), LivesOK(s), rollout.exists, HoldOK(s)
  PROVE  HoldInv'
<1>1. status' = s \/ status' = status
  BY DEF Write
<1>2. PodsOK'
  BY DEF HoldInv, PodsOK
<1>3. LifeOK'
  BY <1>1 DEF HoldInv, LifeOK, LivesOK
<1>4. HoldOK(status) /\ (Untouched' <=> Untouched) /\ (SingleVersion' <=> SingleVersion)
  BY DEF HoldInv, HoldOK, Untouched, Uniform, SingleVersion, OtherPods
<1>5. RestOK(status)' /\ StartOK(status)'
  BY <1>1, <1>4 DEF HoldOK, RestOK, StartOK, NotReset
<1>6. RollOK(status)'
  BY <1>1, <1>4 DEF HoldOK, RollOK, NotReset, IsRolling
<1>7. CancelOK(status)'
  BY <1>1, <1>4 DEF HoldOK, CancelOK
<1>. QED BY <1>2, <1>3, <1>5, <1>6, <1>7 DEF HoldInv

\* A reconcile in which no handler acts, and the reasons Initializing, Paused
\* and Completed.
LEMMA WaitingHold ==
  ASSUME HoldInv, CleanUpInv',
         \/ ReconcileIdle \/ ProgressingInitializing \/ ProgressingPaused
         \/ ProgressingCompleted
  PROVE  HoldInv'
<1>1. UNCHANGED <<rollout, wl, pods, ready, br>> /\ rollout.exists
  BY DEF ReconcileIdle, ProgressingInitializing, ProgressingPaused, ProgressingCompleted,
         Progressing, Reconciling, brVars
<1>2. newStatus \in Statuses /\ LivesOK(newStatus) /\ HoldOK(newStatus)
  BY NewStatusHold
<1>3. CASE ReconcileIdle
  BY <1>1, <1>2, <1>3, HoldWrite DEF ReconcileIdle
<1>4. CASE ProgressingInitializing
  <2> DEFINE s == Started(newStatus)
             t == [Started(newStatus) EXCEPT !.reason = "InRolling"]
  <2>1. /\ s.phase = newStatus.phase /\ s.reason = newStatus.reason
        /\ s.terminated = newStatus.terminated /\ s.fin = "None"
        /\ t.phase = newStatus.phase /\ t.reason = "InRolling"
        /\ t.terminated = newStatus.terminated
    BY <1>2 DEF Started, Statuses
  <2>2. newStatus.phase = "Terminating" \/ newStatus = status
    BY <1>4, NewStatusHold DEF ProgressingInitializing, Progressing, Reconciling
  <2>3. status.phase = "Progressing" /\ status.reason = "Initializing"
    BY <1>4 DEF ProgressingInitializing, Progressing, Reconciling
  <2>. HIDE DEF s, t
  <2>4. LivesOK(s) /\ LivesOK(t)
    BY <1>2, <2>1 DEF LivesOK
  <2>5. HoldOK(s)
    BY <1>2, <2>1, <2>2, <2>3 DEF HoldOK, RestOK, StartOK, RollOK, IsRolling, CancelOK
  <2>6. HoldOK(t)
    BY <1>2, <2>1, <2>2, <2>3 DEF HoldOK, RestOK, StartOK, RollOK, IsRolling, CancelOK
  <2>7. Write(s) \/ Write(t)
    BY <1>4 DEF ProgressingInitializing, s, t
  <2>. QED BY <1>1, <2>4, <2>5, <2>6, <2>7, HoldWrite
<1>5. CASE ProgressingPaused
  <2> DEFINE s == [newStatus EXCEPT !.reason = "InRolling"]
  <2>1. /\ s.phase = newStatus.phase /\ s.reason = "InRolling"
        /\ s.terminated = newStatus.terminated
    BY <1>2 DEF Statuses
  <2>2. newStatus.phase = "Terminating" \/ newStatus.reason = "Paused"
    BY <1>5, NewStatusHold DEF ProgressingPaused, Progressing, Reconciling
  <2>3. Write(s) \/ Write(newStatus)
    BY <1>5 DEF ProgressingPaused
  <2>. HIDE DEF s
  <2>4. LivesOK(s) /\ HoldOK(s)
    BY <1>2, <2>1, <2>2 DEF HoldOK, RestOK, StartOK, RollOK, IsRolling, CancelOK, LivesOK
  <2>. QED BY <1>1, <1>2, <2>3, <2>4, HoldWrite
<1>6. CASE ProgressingCompleted
  <2> DEFINE s == [newStatus EXCEPT !.phase = "Healthy"]
  <2>1. s.phase = "Healthy" /\ s.terminated = newStatus.terminated /\ Write(s)
    BY <1>2, <1>6 DEF Statuses, ProgressingCompleted
  <2>2. status.phase = "Progressing" /\ status.reason = "Completed" /\ HoldOK(status)
    BY <1>6 DEF ProgressingCompleted, Progressing, Reconciling, HoldInv, HoldOK
  <2>3. ~newStatus.terminated
    <3>1. status \in Statuses /\ ~status.terminated
      BY <2>2, NewStatusHold DEF HoldInv, LifeOK
    <3>2. CASE rollout.deleting
      BY <2>2, <3>1, <3>2 DEF newStatus, Statuses
    <3>3. CASE ~rollout.deleting
      <4>1. ~rollout.disabled
        BY DEF HoldInv, LifeOK
      <4>2. newStatus = status
        BY <2>2, <3>3, <4>1 DEF newStatus, Disabled, PhaseTransition
      <4>. QED BY <3>1, <4>2
    <3>. QED BY <3>2, <3>3
  <2>. HIDE DEF s
  <2>4. LivesOK(s) /\ HoldOK(s)
    BY <2>1, <2>2, <2>3 DEF HoldOK, RestOK, StartOK, RollOK, IsRolling, CancelOK, LivesOK
  <2>. QED BY <1>1, <2>1, <2>4, HoldWrite
<1>. QED BY <1>3, <1>4, <1>5, <1>6

\* What is said of a rolling rollout does not depend on the step it is at.
LEMMA RollingHold ==
  ASSUME HoldInv, Progressing("InRolling"), NEW s,
         s.phase = newStatus.phase, s.terminated = newStatus.terminated,
         s.reason \in {"InRolling", "Paused", "Finalising"}
  PROVE  LivesOK(s) /\ HoldOK(s) /\ rollout.exists
<1>1. /\ status.phase = "Progressing" /\ status.reason = "InRolling" /\ rollout.exists
  BY DEF Progressing, Reconciling
<1>2. /\ LivesOK(newStatus) /\ HoldOK(newStatus)
      /\ newStatus = status \/ newStatus.phase = "Terminating"
  BY <1>1, NewStatusHold
<1>3. LivesOK(s)
  BY <1>2 DEF LivesOK
<1>4. HoldOK(s)
  BY <1>1, <1>2 DEF HoldOK, RestOK, StartOK, RollOK, IsRolling, CancelOK
<1>. QED BY <1>1, <1>3, <1>4

\* The special cases that only write the status.
LEMMA SpecialCasesHold ==
  ASSUME HoldInv, CleanUpInv', HasTrafficRoutings,
         \/ RollbackDirectly \/ RolloutPaused \/ RollbackInBatches
         \/ ContinuousRefused \/ PlanChanged \/ RollingDone
  PROVE  HoldInv'
<1>1. Progressing("InRolling") /\ UNCHANGED <<rollout, wl, pods, ready, br>>
  BY DEF RollbackDirectly, RolloutPaused, RollbackInBatches, ContinuousRefused,
         Continuous, PlanChanged, RollingDone, NormalRolling, Rolling, brVars
<1>2. /\ status.phase = "Progressing" /\ status.reason = "InRolling"
      /\ newStatus \in Statuses /\ newStatus.reason = "InRolling"
      /\ newStatus.fin = status.fin
      /\ ~isContinuousRelease \/ BlueGreen => status.fin = "None"
  BY <1>1, RollingClean DEF HoldInv
<1>3. CASE RollbackDirectly
  <2> DEFINE s == [newStatus EXCEPT !.cr = wl.update, !.reason = "Cancelling"]
  <2>1. /\ s.reason = "Cancelling" /\ s.fin = status.fin /\ s.phase = newStatus.phase
        /\ s.terminated = newStatus.terminated /\ Write(s)
    BY <1>2, <1>3 DEF Statuses, RollbackDirectly
  <2>2. wl.update = wl.stable
    BY <1>3 DEF RollbackDirectly, isRollingBackDirectly, IsInRollback
  <2>3. /\ LivesOK(newStatus) /\ rollout.exists /\ RollOK(status)
        /\ newStatus = status \/ newStatus.phase = "Terminating"
    BY <1>1, <1>2, NewStatusHold DEF Progressing, Reconciling, HoldInv
  <2>. HIDE DEF s
  <2>4. LivesOK(s)
    BY <2>1, <2>3 DEF LivesOK
  <2>5. CancelOK(s)
    BY <1>2, <2>1, <2>2, <2>3 DEF CancelOK, RollOK, IsRolling, NotReset, Past
  <2>6. HoldOK(s)
    BY <1>2, <2>1, <2>3, <2>5 DEF HoldOK, RestOK, StartOK, RollOK, IsRolling
  <2>. QED BY <1>1, <2>1, <2>3, <2>4, <2>6, HoldWrite
<1>4. CASE RolloutPaused \/ RollingDone
  <2> DEFINE s == [newStatus EXCEPT !.reason = "Paused"]
             t == [newStatus EXCEPT !.reason = "Finalising"]
  <2>1. /\ s.reason = "Paused" /\ s.phase = newStatus.phase
        /\ s.terminated = newStatus.terminated
        /\ t.reason = "Finalising" /\ t.phase = newStatus.phase
        /\ t.terminated = newStatus.terminated
    BY <1>2 DEF Statuses
  <2>2. Write(s) \/ Write(t)
    BY <1>4 DEF RolloutPaused, RollingDone
  <2>. HIDE DEF s, t
  <2>. QED BY <1>1, <2>1, <2>2, RollingHold, HoldWrite
<1>5. CASE RollbackInBatches
  BY <1>5 DEF RollbackInBatches, isRollingBackInBatches, RollbackInBatchPolicy
<1>6. CASE ContinuousRefused
  BY <1>1, <1>2, <1>6, RollingHold, HoldWrite DEF ContinuousRefused
<1>7. CASE PlanChanged
  <2> DEFINE s == [newStatus EXCEPT !.nxt = RecalculatedStep, !.fresh = TRUE,
                                    !.hash = HashOf(steps)]
             t == [s EXCEPT !.state = "Ready"]
             Kept(u) == /\ u.reason = "InRolling" /\ u.phase = newStatus.phase
                        /\ u.terminated = newStatus.terminated
  <2>1. Kept(s) /\ Kept(t) /\ Kept(Jumped(s))
    BY <1>2 DEF Statuses, Jumped
  <2>2. Write(t) \/ Write(s) \/ Write(Jumped(s))
    BY <1>7 DEF PlanChanged
  <2>. HIDE DEF s, t
  <2>. QED BY <1>1, <2>1, <2>2, RollingHold, HoldWrite
<1>. QED BY <1>3, <1>4, <1>5, <1>6, <1>7

\* A reset ends where it began: the workload is at its stable revision.
LEMMA ResetHold ==
  ASSUME HoldInv, CleanUpInv', ResetGateway \/ ResetRelease \/ ResetDone
  PROVE  HoldInv'
<1>1. /\ Progressing("InRolling") /\ UNCHANGED <<rollout, wl, pods, ready>>
      /\ isContinuousRelease /\ ~BlueGreen
  BY DEF ResetGateway, ResetRelease, ResetDone, Continuous, Rolling, brVars
<1>2. /\ status.phase = "Progressing" /\ status.reason = "InRolling" /\ rollout.exists
      /\ status.cr # NoRevision
      /\ newStatus \in Statuses /\ newStatus.reason = "InRolling"
  BY <1>1, RollingClean DEF HoldInv, Progressing, Reconciling
<1>3. wl.update = wl.stable
  BY <1>1, <1>2 DEF HoldInv, CleanUpInv, RollingOK, isContinuousRelease
<1>4. /\ status'.reason \in {"InRolling", "Initializing"}
      /\ status'.phase \in {"Progressing", "Terminating"}
      /\ status'.terminated => status'.phase = "Terminating"
  <2> DEFINE f == newStatus.fresh \/ route' # route
             g == newStatus.fresh \/ ResetStep = "RouteTrafficToStable"
             s == [newStatus EXCEPT !.fin = "RouteTrafficToStable", !.fresh = f]
             t == [newStatus EXCEPT !.fin = "ReleaseWorkloadControl", !.fresh = g]
             u == [Clear(newStatus) EXCEPT !.reason = "Initializing"]
             Kept(x) == /\ x.reason \in {"InRolling", "Initializing"}
                        /\ x.phase = newStatus.phase /\ x.terminated = newStatus.terminated
  <2>1. Kept(s) /\ Kept(t) /\ Kept(u) /\ Kept(newStatus)
    BY <1>2 DEF Statuses, Clear
  <2>2. Write(s) \/ Write(t) \/ Write(u) \/ Write(newStatus)
    BY DEF ResetGateway, ResetRelease, ResetDone
  <2>. HIDE DEF s, t, u
  <2>3. LivesOK(newStatus) /\ newStatus.phase \in {"Progressing", "Terminating"}
    BY <1>2, NewStatusHold
  <2>4. status' = status \/ Kept(status')
    BY <2>1, <2>2 DEF Write
  <2>. QED BY <1>2, <2>3, <2>4 DEF LivesOK, HoldInv, LifeOK
<1>5. PodsOK' /\ LifeOK'
  BY <1>1, <1>2, <1>4 DEF HoldInv, PodsOK, LifeOK
<1>6. RestOK(status)' /\ StartOK(status)' /\ RollOK(status)' /\ CancelOK(status)'
  BY <1>1, <1>3, <1>4 DEF RestOK, StartOK, RollOK, NotReset, CancelOK
<1>. QED BY <1>5, <1>6 DEF HoldInv

\* A step of runCanary creates the BatchRelease, or leaves its life alone.
LEMMA StepRelease ==
  ASSUME HoldInv, StepStep
  PROVE  /\ UNCHANGED <<rollout, wl, pods, ready>>
         /\ br.exists =>
              br'.exists /\ br'.deleting = br.deleting /\ br'.completed = br.completed
         /\ br'.exists /\ ~br.exists =>
              ~br'.deleting /\ ~br'.completed /\ StepUpgradeApply
<1>1. br \in BatchReleases
  BY InvTypes DEF HoldInv, CleanUpInv
<1>2. CASE SyncBatchRelease
  <2>1. br'.deleting = br.deleting /\ br'.completed = br.completed /\ br'.exists = br.exists
    BY <1>1, <1>2 DEF SyncBatchRelease, syncedBR, BatchReleases
  <2>2. UNCHANGED <<rollout, wl, pods, ready>>
    BY <1>2
    DEF SyncBatchRelease, StepStep, StepJump, StepCleanUp, StepInitUnpin, StepInitPin,
        StepInitSkip, StepUpgradeApply, StepUpgradeWait, StepUpgradeDone, StepRoute,
        StepRouted, StepAnalysed, StepPaused, StepReady
  <2>. QED BY <2>1, <2>2
<1>3. CASE StepUpgradeApply
  <2>1. UNCHANGED <<rollout, wl, pods, ready>>
    BY <1>3 DEF StepUpgradeApply
  <2>2. CASE SpecUpToDate
    <3>1. br.exists /\ br' = [syncedBR EXCEPT !.anno = RollbackAnnotation]
      BY <1>3, <2>2 DEF StepUpgradeApply, SpecUpToDate
    <3>. QED BY <1>1, <2>1, <3>1 DEF syncedBR, BatchReleases
  <2>3. CASE ~SpecUpToDate
    <3> DEFINE b == IF br.exists THEN br ELSE [NoBatchRelease EXCEPT !.exists = TRUE]
    <3>1. br' = [b EXCEPT !.batches = Batches, !.part = status.idx - 1,
                          !.wait = FALSE, !.rid = RolloutID,
                          !.anno = RollbackAnnotation,
                          !.observed = FALSE, !.seen = FALSE]
      BY <1>3, <2>3 DEF StepUpgradeApply
    <3>2. br'.exists = b.exists /\ br'.deleting = b.deleting /\ br'.completed = b.completed
      BY <1>1, <3>1 DEF BatchReleases, NoBatchRelease
    <3>3. CASE br.exists
      BY <1>3, <2>1, <3>2, <3>3
    <3>4. CASE ~br.exists
      BY <1>3, <2>1, <3>2, <3>4 DEF NoBatchRelease
    <3>. QED BY <3>3, <3>4
  <2>. QED BY <2>2, <2>3
<1>. QED
  BY <1>2, <1>3
  DEF StepStep, StepJump, StepCleanUp, StepInitUnpin, StepInitPin, StepInitSkip,
      StepUpgradeWait, StepUpgradeDone, StepRoute, StepRouted, StepAnalysed,
      StepPaused, StepReady

\* Every step of runCanary preserves the invariant.
LEMMA StepStepHold ==
  ASSUME HoldInv, CleanUpInv', StepStep
  PROVE  HoldInv'
<1>1. /\ Progressing("InRolling") /\ status'.reason = "InRolling"
      /\ status' = status \/ FromNew(status')
      /\ CleanUpInv
  BY StepStatus DEF HoldInv
<1>2. status.phase = "Progressing" /\ status.reason = "InRolling" /\ rollout.exists
  BY <1>1 DEF Progressing, Reconciling
<1>3. LivesOK(newStatus) /\ newStatus.phase \in {"Progressing", "Terminating"}
  BY <1>2, NewStatusHold
<1>4. /\ status'.phase \in {"Progressing", "Terminating"}
      /\ status'.terminated => status'.phase = "Terminating"
  BY <1>1, <1>2, <1>3 DEF FromNew, LivesOK, HoldInv, LifeOK
<1>5. /\ UNCHANGED <<rollout, wl, pods, ready>>
      /\ br.exists =>
           br'.exists /\ br'.deleting = br.deleting /\ br'.completed = br.completed
      /\ br'.exists /\ ~br.exists => ~br'.deleting /\ ~br'.completed
  BY StepRelease
<1>6. PodsOK' /\ LifeOK'
  BY <1>2, <1>4, <1>5 DEF HoldInv, PodsOK, LifeOK
<1>7. RestOK(status)' /\ StartOK(status)' /\ CancelOK(status)'
  BY <1>1, <1>4 DEF RestOK, StartOK, CancelOK
<1>8. RollOK(status)'
  BY <1>2, <1>5 DEF HoldInv, RollOK, IsRolling, NotReset, Untouched, Uniform
<1>. QED BY <1>6, <1>7, <1>8 DEF HoldInv

\* In a blue-green rollback the tasks of Past follow ResumeWorkload.
LEMMA RollbackOrder ==
  ASSUME BlueGreen, NEW t \in FinalisingSteps
  PROVE  LET next == NextTask("rollback", t) IN
         /\ next \in Past /\ next # "END" => t \in Past \cup {"ResumeWorkload"}
         /\ t = "None" => next \notin Past
<1> DEFINE q == TaskSequence("rollback")
           j == CHOOSE i \in 1 .. Len(q) - 1 : q[i] = t
<1>1. NextTask("rollback", t) =
        IF t = "None" THEN q[1]
        ELSE IF \E i \in 1 .. Len(q) - 1 : q[i] = t THEN q[1 + j]
        ELSE "END"
  BY Zenon DEF NextTask
<1>2. (\E i \in 1 .. Len(q) - 1 : q[i] = t) => j \in 1 .. Len(q) - 1 /\ q[j] = t
  BY Zenon
<1>3. q = <<"RouteTrafficToStable", "ResumeWorkload", "RestoreStableService",
            "RemoveCanaryService", "ReleaseWorkloadControl">>
  BY DEF TaskSequence
<1>. HIDE DEF q, j
<1>. QED BY <1>1, <1>2, <1>3 DEF FinalisingSteps, Past

\* Only ReleaseWorkloadControl deletes the BatchRelease.
LEMMA RetryLife ==
  ASSUME RollingInv, NEW why, NEW task, FinaliseRetry(why, task)
  PROVE  /\ br'.exists =>
              /\ br.exists /\ br'.completed = br.completed
              /\ br'.deleting => br.deleting \/ task = "ReleaseWorkloadControl"
         /\ br.exists /\ ~br'.exists => task = "ReleaseWorkloadControl"
<1>1. br \in BatchReleases
  BY InvTypes
<1>2. CASE ResumeWorkload(why)
  BY <1>1, <1>2 DEF ResumeWorkload, BatchReleases
<1>3. CASE RemoveBatchRelease /\ task = "ReleaseWorkloadControl"
  BY <1>1, <1>3 DEF RemoveBatchRelease, NoBatchRelease, BatchReleases
<1>. QED BY <1>2, <1>3 DEF FinaliseRetry

\* A call of doFinalising leaves the pods alone, and the workload but for its
\* annotation; it goes on, or ends as its caller says.
LEMMA FinalisingStep ==
  ASSUME HoldInv, NEW why, NEW done \in Statuses, doFinalising(why, done),
         RunsFor(why)
  PROVE  /\ UNCHANGED <<rollout, pods, ready>>
         /\ wl'.update = wl.update /\ wl'.stable = wl.stable /\ wl'.target = wl.target
         /\ br'.exists => br.exists
         /\ \/ status' = status
            \/ /\ status'.phase = newStatus.phase /\ status'.reason = newStatus.reason
               /\ status'.terminated = newStatus.terminated
            \/ /\ status'.phase = done.phase /\ status'.reason = done.reason
               /\ status'.terminated = done.terminated
               /\ status.sub => wl'.anno = (wl.anno /\ ~wl.consistent)
<1>1. br \in BatchReleases /\ wl \in Workloads /\ RollingInv
      /\ newStatus \in Statuses
  BY InvTypes DEF HoldInv, CleanUpInv
<1>2. rollout' = rollout
  BY DEF doFinalising
<1>3. ASSUME RemoveProgressingAnnotation
      PROVE  /\ wl'.update = wl.update /\ wl'.stable = wl.stable
             /\ wl'.target = wl.target /\ wl'.anno = (wl.anno /\ ~wl.consistent)
  BY <1>1, <1>3 DEF RemoveProgressingAnnotation, Workloads
<1>4. CASE \E task \in FinalisingSteps : FinaliseRetry(why, task)
  <2>1. PICK task \in FinalisingSteps : FinaliseRetry(why, task)
    BY <1>4
  <2> DEFINE f == newStatus.fresh \/ status.fin = "None"
             s == [newStatus EXCEPT !.fin = task, !.fresh = f]
  <2>2. /\ s.phase = newStatus.phase /\ s.reason = newStatus.reason
        /\ s.terminated = newStatus.terminated
    BY <1>1 DEF Statuses
  <2>3. Write(s) /\ RemoveProgressingAnnotation /\ UNCHANGED <<pods, ready>>
    BY <2>1 DEF FinaliseRetry
  <2>. HIDE DEF s
  <2>4. br'.exists => br.exists
    BY <1>1, <2>1, RetryLife
  <2>. QED BY <1>2, <1>3, <2>2, <2>3, <2>4 DEF Write
<1>5. CASE FinaliseNext(why)
  <2> DEFINE s == [newStatus EXCEPT !.fin = NextTask(why, status.fin), !.fresh = TRUE]
  <2>1. /\ s.phase = newStatus.phase /\ s.reason = newStatus.reason
        /\ s.terminated = newStatus.terminated
    BY <1>1 DEF Statuses
  <2>2. Write(s) /\ RemoveProgressingAnnotation /\ UNCHANGED <<br, pods, ready>>
    BY <1>5 DEF FinaliseNext
  <2>. HIDE DEF s
  <2>. QED BY <1>2, <1>3, <2>1, <2>2 DEF Write
<1>6. CASE FinaliseLast(why, done)
  <2> DEFINE s == [done EXCEPT !.fin = "END", !.fresh = TRUE]
  <2>1. /\ s.phase = done.phase /\ s.reason = done.reason
        /\ s.terminated = done.terminated
    BY DEF Statuses
  <2>2. Write(s) /\ RemoveProgressingAnnotation /\ UNCHANGED <<br, pods, ready>>
    BY <1>6 DEF FinaliseLast
  <2>. HIDE DEF s
  <2>. QED BY <1>2, <1>3, <2>1, <2>2 DEF Write
<1>7. CASE FinaliseNothing(done)
  BY <1>2, <1>3, <1>7 DEF FinaliseNothing, Write
<1>. QED BY <1>4, <1>5, <1>6, <1>7 DEF doFinalising

\* A blue-green rollback that goes on knows what it has resumed.
LEMMA CancellingHold ==
  ASSUME HoldInv, NEW done \in Statuses, doFinalising("rollback", done), BlueGreen,
         status.phase = "Progressing", status.reason = "Cancelling",
         done.reason = "Completed",
         status'.phase = "Progressing", status'.reason = "Cancelling"
  PROVE  CancelOK(status)'
<1>1. /\ RollingInv /\ newStatus \in Statuses /\ status.fin \in FinalisingSteps
      /\ CancelOK(status)
  BY InvTypes, StatusFields DEF HoldInv, CleanUpInv
<1>2. /\ UNCHANGED <<rollout, pods, ready>> /\ (br'.exists => br.exists)
      /\ wl'.update = wl.update /\ wl'.stable = wl.stable /\ wl'.target = wl.target
  BY FinalisingStep DEF RunsFor
<1>3. (SingleVersion' <=> SingleVersion) /\ (Untouched' <=> Untouched)
  BY <1>2 DEF SingleVersion, OtherPods, Untouched, Uniform
<1>4. wl'.update = wl'.stable
  BY <1>1, <1>2 DEF CancelOK
<1>5. ASSUME br.exists /\ ~br'.exists PROVE SingleVersion
  <2>1. PICK task \in FinalisingSteps : FinaliseRetry("rollback", task)
    BY <1>5 DEF doFinalising, FinaliseNext, FinaliseLast, FinaliseNothing
  <2>2. task = "ReleaseWorkloadControl" /\ task = Task("rollback")
    BY <1>1, <1>5, <2>1, RetryLife DEF FinaliseRetry
  <2>3. status.fin \in Past
    BY <1>1, <2>2, RollbackOrder DEF Task, Past
  <2>. QED BY <1>1, <1>5, <2>3 DEF CancelOK
<1>6. ASSUME br'.exists, br'.completed \/ br'.deleting \/ status'.fin \in Past
      PROVE  SingleVersion
  <2>1. br.exists
    BY <1>2, <1>6
  <2>2. CASE status.fin \in Past
    BY <1>1, <2>1, <2>2 DEF CancelOK
  <2>3. CASE status.fin \notin Past
    <3>1. CASE \E task \in FinalisingSteps : FinaliseRetry("rollback", task)
      <4>1. PICK task \in FinalisingSteps : FinaliseRetry("rollback", task)
        BY <3>1
      <4>2. task = Task("rollback")
        BY <4>1 DEF FinaliseRetry
      <4>3. task \notin Past
        BY <1>1, <2>3, <4>2, RollbackOrder DEF Task
      <4> DEFINE f == newStatus.fresh \/ status.fin = "None"
                 s == [newStatus EXCEPT !.fin = task, !.fresh = f]
      <4>4. s.fin = task
        BY <1>1 DEF Statuses
      <4>5. Write(s)
        BY <4>1 DEF FinaliseRetry
      <4>. HIDE DEF s
      <4>6. status'.fin \notin Past
        BY <2>3, <4>3, <4>4, <4>5 DEF Write
      <4>7. br.completed \/ br.deleting
        BY <1>1, <1>6, <4>1, <4>3, <4>6, RetryLife DEF Past
      <4>. QED BY <1>1, <2>1, <4>7 DEF CancelOK
    <3>2. CASE FinaliseNext("rollback")
      <4> DEFINE next == NextTask("rollback", status.fin)
                 s == [newStatus EXCEPT !.fin = next, !.fresh = TRUE]
      <4>1. s.fin = next
        BY <1>1 DEF Statuses
      <4>2. Write(s) /\ next # "END" /\ br' = br /\ TaskDone(Task("rollback"))
        BY <3>2 DEF FinaliseNext
      <4>. HIDE DEF s
      <4>3. CASE status' = status
        BY <1>1, <1>6, <2>1, <4>2, <4>3 DEF CancelOK
      <4>4. CASE status' = s
        <5>1. CASE next \in Past
          <6>1. status.fin = "ResumeWorkload"
            BY <1>1, <2>3, <4>2, <5>1, RollbackOrder
          <6>2. ResumeWorkloadDone
            BY <4>2, <6>1 DEF Task, TaskDone
          <6>. QED BY <1>1, <2>1, <6>2 DEF ResumeWorkloadDone, CancelOK
        <5>2. CASE next \notin Past
          BY <1>1, <1>6, <2>1, <4>1, <4>2, <4>4, <5>2 DEF CancelOK
        <5>. QED BY <5>1, <5>2
      <4>. QED BY <4>2, <4>3, <4>4 DEF Write
    <3>3. CASE FinaliseLast("rollback", done) \/ FinaliseNothing(done)
      <4> DEFINE s == [done EXCEPT !.fin = "END", !.fresh = TRUE]
      <4>1. s.reason = "Completed"
        BY DEF Statuses
      <4>2. (Write(s) \/ Write(done)) /\ br' = br
        BY <3>3 DEF FinaliseLast, FinaliseNothing
      <4>. HIDE DEF s
      <4>3. status' = status
        BY <4>1, <4>2 DEF Write
      <4>. QED BY <1>1, <1>6, <2>1, <4>2, <4>3 DEF CancelOK
    <3>. QED BY <3>1, <3>2, <3>3 DEF doFinalising
  <2>. QED BY <2>2, <2>3
<1>7. ~br'.exists => SingleVersion \/ Untouched
  BY <1>1, <1>5 DEF CancelOK
<1>. QED BY <1>3, <1>4, <1>6, <1>7 DEF CancelOK

\* The callers of doFinalising preserve the invariant.
LEMMA FinalisingHold ==
  ASSUME HoldInv, CleanUpInv',
         \/ ProgressingFinalising \/ ProgressingCancelling
         \/ RolloutTerminating \/ RolloutDisabling
  PROVE  HoldInv'
<1>1. /\ LivesOK(newStatus) /\ newStatus \in Statuses /\ RollingInv /\ CleanUpInv
      /\ status.phase = "Terminating" => newStatus.phase = "Terminating"
      /\ status.phase = "Progressing" =>
           newStatus = status \/ newStatus.phase = "Terminating"
  BY NewStatusHold DEF HoldInv, CleanUpInv
<1>2. /\ rollout.exists /\ ~RolloutDisabling
  BY DEF ProgressingFinalising, ProgressingCancelling, RolloutTerminating,
         RolloutDisabling, Progressing, Reconciling, HoldInv, LifeOK
<1>3. ASSUME rollout' = rollout, UNCHANGED <<pods, ready>>, wl'.update = wl.update,
             status'.phase \in {"Progressing", "Terminating"},
             status'.terminated => status'.phase = "Terminating"
      PROVE  PodsOK' /\ LifeOK'
  BY <1>2, <1>3 DEF HoldInv, PodsOK, LifeOK
<1>4. CASE RolloutTerminating
  <2> DEFINE d == [newStatus EXCEPT !.terminated = TRUE]
  <2>1. status.phase = "Terminating" /\ doFinalising("delete", d)
    BY <1>4 DEF RolloutTerminating, Reconciling
  <2>2. d.phase = "Terminating" /\ d \in Statuses
    BY <1>1, <2>1, Members DEF Statuses
  <2>. HIDE DEF d
  <2>3. /\ UNCHANGED <<rollout, pods, ready>> /\ wl'.update = wl.update
        /\ status'.phase = "Terminating"
    BY <1>1, <2>1, <2>2, FinalisingStep DEF RunsFor
  <2>4. RestOK(status)' /\ StartOK(status)' /\ RollOK(status)' /\ CancelOK(status)'
    BY <2>3 DEF RestOK, StartOK, RollOK, IsRolling, CancelOK
  <2>. QED BY <1>3, <2>3, <2>4 DEF HoldInv
<1>5. ASSUME NEW why, NEW o \in {"True", "False"}, status.phase = "Progressing", RunsFor(why),
             wl.consistent,
             doFinalising(why, [newStatus EXCEPT !.reason = "Completed", !.succeeded = o])
      PROVE  HoldInv'
  <2> DEFINE d == [newStatus EXCEPT !.reason = "Completed", !.succeeded = o]
  <2>1. /\ d \in Statuses /\ d.reason = "Completed" /\ d.phase = newStatus.phase
        /\ d.terminated = newStatus.terminated
    BY <1>1, <1>5, Names DEF Statuses
  <2>2. doFinalising(why, d)
    BY <1>5
  <2>. HIDE DEF d
  <2>3. /\ UNCHANGED <<rollout, pods, ready>>
        /\ wl'.update = wl.update /\ wl'.stable = wl.stable /\ wl'.target = wl.target
        /\ \/ status' = status
           \/ /\ status'.phase = newStatus.phase /\ status'.reason = newStatus.reason
              /\ status'.terminated = newStatus.terminated
           \/ /\ status'.phase = d.phase /\ status'.reason = d.reason
              /\ status'.terminated = d.terminated
              /\ status.sub => wl'.anno = (wl.anno /\ ~wl.consistent)
    BY <1>5, <2>1, <2>2, FinalisingStep
  <2>4. status.reason \in {"Finalising", "Cancelling"} /\ status.sub
    BY <1>1, <1>5 DEF RunsFor, CleanUpInv, SequenceOK, InSequence
  <2>5. /\ status'.phase \in {"Progressing", "Terminating"}
        /\ status'.terminated => status'.phase = "Terminating"
    BY <1>1, <1>5, <2>1, <2>3 DEF LivesOK, HoldInv, LifeOK
  <2>6. PodsOK' /\ LifeOK'
    BY <1>3, <2>3, <2>5
  <2>7. status'.phase = "Progressing" =>
          \/ status'.reason = status.reason
          \/ status'.reason = "Completed" /\ ~wl'.anno
    BY <1>1, <1>5, <2>1, <2>3, <2>4
  <2>8. RestOK(status)'
    <3>1. SUFFICES ASSUME status'.phase = "Progressing", status'.reason = "Completed"
                   PROVE  ~br'.exists /\ ~wl'.anno
      BY <2>5 DEF RestOK
    <3>2. ~br'.exists
      BY <3>1 DEF CleanUpInv, SequenceOK, Effects, Achieved
    <3>. QED BY <2>4, <2>7, <3>1, <3>2
  <2>9. StartOK(status)' /\ RollOK(status)'
    BY <2>4, <2>7 DEF StartOK, RollOK, IsRolling
  <2>10. CancelOK(status)'
    <3>1. SUFFICES ASSUME BlueGreen, status'.phase = "Progressing",
                          status'.reason = "Cancelling"
                   PROVE  CancelOK(status)'
      BY DEF CancelOK
    <3>2. status.reason = "Cancelling" /\ why = "rollback"
      BY <1>5, <2>7, <3>1 DEF RunsFor
    <3>. QED BY <1>5, <2>1, <2>2, <3>1, <3>2, CancellingHold
  <2>. QED BY <2>6, <2>8, <2>9, <2>10 DEF HoldInv
<1>6. CASE ProgressingFinalising
  BY <1>5, <1>6 DEF ProgressingFinalising, Progressing, Reconciling, RunsFor
<1>7. CASE ProgressingCancelling
  BY <1>5, <1>7 DEF ProgressingCancelling, Progressing, Reconciling, RunsFor
<1>. QED BY <1>2, <1>4, <1>6, <1>7

\* What the controllers below do to the life of the BatchRelease.
LEMMA BelowLife ==
  ASSUME HoldInv, Below
  PROVE  /\ br'.exists =>
              /\ br.exists /\ br'.deleting = br.deleting
              /\ br'.completed => \/ br.completed \/ br.deleting
                                  \/ br.part = NoPartition /\ (BlueGreen => SingleVersion)
         /\ br.exists /\ ~br'.exists => br.deleting /\ br.completed
<1>1. br \in BatchReleases
  BY InvTypes DEF HoldInv, CleanUpInv
<1>2. CASE br' = br
  BY <1>2
<1>3. CASE BRObserve \/ BRPrepare \/ BRRevision \/ BRRollback \/ BRUpgrade \/ BRVerify
           \/ BRRecheck
  <2>1. br.exists
    BY <1>3
    DEF BRObserve, BRPrepare, BRRevision, BRRollback, BRUpgrade, BRVerify, BRRecheck,
        Processing, Working, Unfinished
  <2>2. br'.deleting = br.deleting /\ br'.completed = br.completed /\ br'.exists = br.exists
    <3>1. CASE BRObserve
      BY <1>1, <3>1 DEF BRObserve, Report, BatchReleases
    <3>2. CASE BRPrepare
      <4>1. PICK k : Report([br EXCEPT !.rev = wl.update, !.kept = k])
        BY <3>2 DEF BRPrepare
      <4>. QED BY <1>1, <4>1 DEF Report, BatchReleases
    <3>3. CASE BRRevision \/ BRRollback
      BY <1>1, <3>3 DEF BRRevision, BRRollback, Report, BatchReleases
    <3>4. CASE BRUpgrade \/ BRVerify \/ BRRecheck
      BY <1>1, <3>4 DEF BRUpgrade, BRVerify, BRRecheck, Report, BatchReleases
    <3>. QED BY <1>3, <3>1, <3>2, <3>3, <3>4
  <2>. QED BY <2>1, <2>2
<1>4. CASE BRComplete
  BY <1>1, <1>4 DEF BRComplete, Report, Unfinished, Finishing, BatchReleases
<1>5. CASE BRGone
  BY <1>5 DEF BRGone, NoBatchRelease
<1>. QED
  BY <1>2, <1>3, <1>4, <1>5
  DEF Below, BatchReleaseStep, BRResume, WorkloadStep, PodUpdated, PodBecomesReady,
      PodScaledDown, Promoted, WorkloadObserved

\* Without a BatchRelease, and with a partition that updates no pod, nothing
\* below touches the pods.
LEMMA BelowUntouched ==
  ASSUME HoldInv, Below, ~br.exists, Untouched
  PROVE  Untouched'
<1>1. /\ wl \in Workloads /\ pods \in [Revisions -> Nat] /\ ready \in Nat
      /\ wl.update \in Revisions
  BY InvTypes DEF HoldInv, CleanUpInv, BatchReleaseTypeOK, Workloads
<1>2. WorkloadStep
  BY DEF Below, BatchReleaseStep, BRObserve, BRPrepare, BRRevision, BRRollback, BRUpgrade,
         BRVerify, BRRecheck, BRResume, BRComplete, BRGone, Processing, Working, Unfinished
<1>3. ~PodUpdated
  BY <1>1 DEF PodUpdated, Untouched
<1>4. wl'.target = wl.target
  BY <1>1, <1>2
  DEF WorkloadStep, PodUpdated, PodBecomesReady, PodScaledDown, Promoted,
      WorkloadObserved, Workloads
<1>5. \A x \in Revisions : pods[x] = 0 => pods'[x] = 0
  <2>1. CASE pods' = pods
    BY <2>1
  <2>2. CASE PodScaledDown
    BY <1>1, <2>2 DEF PodScaledDown, OtherPods
  <2>. QED
    BY <1>2, <1>3, <2>1, <2>2 DEF WorkloadStep, PodBecomesReady, Promoted, WorkloadObserved
<1>. QED BY <1>4, <1>5 DEF Untouched, Uniform

\* The workload always has a pod: the last one of a revision goes when ready
\* ones of the update revision are there.
LEMMA BelowAlive ==
  ASSUME HoldInv, Below
  PROVE  PodsOK'
<1>1. /\ wl \in Workloads /\ pods \in [Revisions -> Nat] /\ ready \in Nat
      /\ wl.update \in Revisions /\ wl'.update = wl.update /\ PodsOK
  BY InvTypes, BelowPods DEF HoldInv, CleanUpInv, BatchReleaseTypeOK, Workloads
<1>2. CASE UNCHANGED <<pods, ready>>
  BY <1>1, <1>2 DEF PodsOK
<1>3. CASE PodUpdated
  <2>1. pods'[wl.update] = pods[wl.update] + 1 /\ ready' = ready
    BY <1>1, <1>3 DEF PodUpdated, OtherPods
  <2>. QED BY <1>1, <2>1 DEF PodsOK
<1>4. CASE PodBecomesReady
  BY <1>1, <1>4 DEF PodBecomesReady, PodsOK
<1>5. CASE PodScaledDown
  <2>1. pods'[wl.update] = pods[wl.update] /\ ready' = ready /\ ready >= Replicas
    BY <1>1, <1>5 DEF PodScaledDown, OtherPods
  <2>. QED BY <1>1, <2>1, ReplicasAssumption DEF PodsOK
<1>. QED
  BY <1>2, <1>3, <1>4, <1>5
  DEF Below, WorkloadStep, Promoted, WorkloadObserved, BatchReleaseStep, BRObserve,
      BRPrepare, BRRevision, BRRollback, BRUpgrade, BRVerify, BRRecheck, BRResume,
      BRComplete, BRGone

\* The BatchRelease and the CloneSet controllers preserve the invariant.
LEMMA BelowHold ==
  ASSUME HoldInv, CleanUpInv', Below
  PROVE  HoldInv'
<1>1. /\ RollingInv /\ UNCHANGED <<rollout, status>> /\ LifeOK
      /\ RestOK(status) /\ StartOK(status) /\ RollOK(status) /\ CancelOK(status)
  BY DEF HoldInv, CleanUpInv, Below, rolloutVars
<1>2. /\ wl'.update = wl.update /\ wl'.anno = wl.anno
      /\ wl'.stable \in {wl.stable, wl.update} /\ (SingleVersion => SingleVersion')
  BY <1>1, BelowPods DEF SingleVersion
<1>3. NotReset' => NotReset
  BY <1>2 DEF NotReset
<1>4. ~br.exists => ~br'.exists /\ (Untouched => Untouched')
  BY BelowLife, BelowUntouched
<1>5. RestOK(status)'
  BY <1>1, <1>2, <1>4 DEF RestOK
<1>6. StartOK(status)'
  BY <1>1, <1>3, <1>4 DEF StartOK
<1>7. RollOK(status)'
  <2>1. br.exists /\ br.part = NoPartition => ~IsRolling(status)
    BY <1>1 DEF RollingInv, HandedBackIsReleased, IsRolling
  <2>. QED BY <1>1, <1>3, <1>4, <2>1, BelowLife DEF RollOK, IsRolling
<1>8. CancelOK(status)'
  BY <1>1, <1>2, <1>4, BelowLife DEF CancelOK
<1>9. PodsOK' /\ LifeOK'
  BY <1>1, BelowAlive DEF LifeOK
<1>. QED BY <1>5, <1>6, <1>7, <1>8, <1>9 DEF HoldInv

\* So do time, restarts, the garbage collector and the finalizer's removal.
LEMMA EnvironmentHold ==
  ASSUME HoldInv, CleanUpInv', Time \/ Restart \/ GarbageCollected \/ FinalizerRemoved
  PROVE  HoldInv'
<1>1. /\ RollingInv /\ LifeOK /\ status \in Statuses
      /\ RestOK(status) /\ StartOK(status) /\ RollOK(status) /\ CancelOK(status)
  BY InvTypes DEF HoldInv, CleanUpInv
<1>2. /\ status'.phase = status.phase /\ status'.reason = status.reason
      /\ status'.terminated = status.terminated /\ status'.fin = status.fin
      /\ UNCHANGED <<wl, pods, ready>>
  BY <1>1
  DEF Time, StatusAges, ConditionAges, Restart, GarbageCollected, FinalizerRemoved,
      rolloutVars, brVars, Statuses
<1>3. PodsOK'
  BY <1>2 DEF HoldInv, PodsOK
<1>4. (SingleVersion' <=> SingleVersion) /\ (Untouched' <=> Untouched)
      /\ (NotReset' <=> NotReset)
  BY <1>2 DEF SingleVersion, OtherPods, Untouched, Uniform, NotReset
<1>5. CASE GarbageCollected
  <2>1. status.phase = "Terminating" /\ rollout' = rollout
    BY <1>1, <1>5 DEF GarbageCollected, LifeOK, rolloutVars
  <2>2. LifeOK'
    BY <1>1, <1>2, <2>1 DEF LifeOK
  <2>3. RestOK(status)' /\ StartOK(status)' /\ RollOK(status)' /\ CancelOK(status)'
    BY <1>2, <2>1 DEF RestOK, StartOK, RollOK, IsRolling, CancelOK
  <2>. QED BY <1>3, <2>2, <2>3 DEF HoldInv
<1>6. CASE Time \/ Restart \/ FinalizerRemoved
  <2>1. br' = br
    BY <1>6 DEF Time, StatusAges, ConditionAges, Restart, FinalizerRemoved, brVars
  <2>2. LifeOK'
    <3>1. CASE rollout' = rollout
      BY <1>1, <1>2, <3>1 DEF LifeOK
    <3>2. CASE FinalizerRemoved
      <4>1. rollout'.disabled = rollout.disabled /\ status.terminated
        BY <1>1, <3>2, InvTypes DEF FinalizerRemoved, Rollouts
      <4>. QED BY <1>1, <1>2, <4>1 DEF LifeOK
    <3>. QED BY <1>6, <3>1, <3>2 DEF Time, StatusAges, ConditionAges, Restart, rolloutVars
  <2>3. RestOK(status)' /\ StartOK(status)' /\ RollOK(status)'
    BY <1>1, <1>2, <1>4, <2>1 DEF RestOK, StartOK, RollOK, IsRolling
  <2>4. CancelOK(status)'
    BY <1>1, <1>2, <1>4, <2>1 DEF CancelOK
  <2>. QED BY <1>3, <2>2, <2>3, <2>4 DEF HoldInv
<1>. QED BY <1>5, <1>6

\* So does a user who neither overtakes nor disables: the webhook holds a
\* release only while all pods are of one revision.
LEMMA UserHold ==
  ASSUME HoldInv, CleanUpInv', Unhurried, User
  PROVE  HoldInv'
<1>1. /\ RollingInv /\ PodsOK /\ LifeOK /\ status \in Statuses /\ rollout \in Rollouts
      /\ wl \in Workloads /\ pods \in [Revisions -> Nat]
      /\ RestOK(status) /\ StartOK(status) /\ RollOK(status) /\ CancelOK(status)
  BY InvTypes DEF HoldInv, CleanUpInv, BatchReleaseTypeOK
<1>2. UNCHANGED <<br, pods>>
  BY DEF User, Release, Approve, Jump, ChangePlan, Pause, Disable, Delete, brVars
<1>3. CASE \E r \in Revisions : Release(r)
  <2>1. PICK r \in Revisions : Release(r)
    BY <1>3
  <2>2. /\ UNCHANGED <<rollout, status>> /\ r # wl.update /\ ready' = pods[r]
        /\ wl'.update = r /\ wl'.stable = wl.stable /\ wl'.anno = (wl.anno \/ Held)
        /\ wl'.target = IF Held THEN 0 ELSE wl.target
    BY <1>1, <2>1 DEF Release, Workloads
  <2>3. status.phase = "Progressing" => r = wl.stable
    BY <2>1 DEF Release, UserOp, ReleaseKind, Unhurried, NoOvertaking
  <2>4. Held => Uniform
    BY <1>1 DEF Held, Unhurried, SingleVersion, OtherPods, Uniform, Workloads
  <2>5. (Held => Untouched') /\ (Untouched => Untouched')
    BY <1>2, <2>2, <2>4 DEF Untouched, Uniform
  <2>6. PodsOK' /\ LifeOK'
    BY <1>1, <1>2, <2>2 DEF PodsOK, LifeOK
  <2>7. RestOK(status)'
    BY <1>1, <1>2, <2>2, <2>5 DEF RestOK
  <2>8. StartOK(status)' /\ RollOK(status)'
    BY <1>1, <1>2, <2>2, <2>3, <2>5 DEF StartOK, RollOK, IsRolling, NotReset
  <2>9. CancelOK(status)'
    BY <1>1, <2>2, <2>3 DEF CancelOK
  <2>. QED BY <2>6, <2>7, <2>8, <2>9 DEF HoldInv
<1>4. CASE ~\E r \in Revisions : Release(r)
  <2>1. ~Disable
    BY DEF Disable, UserOp, Unhurried, NeverDisabled
  <2>2. /\ UNCHANGED <<wl, ready>>
        /\ status'.phase = status.phase /\ status'.reason = status.reason
        /\ status'.terminated = status.terminated /\ status'.fin = status.fin
    BY <1>1, <1>4
    DEF User, Approve, Jump, ChangePlan, Pause, Disable, Delete, brVars, Statuses
  <2>3. rollout'.disabled = rollout.disabled /\ rollout'.exists = rollout.exists
    BY <1>1, <1>4, <2>1
    DEF User, Approve, Jump, ChangePlan, Pause, Delete, Rollouts
  <2>4. (SingleVersion' <=> SingleVersion) /\ (Untouched' <=> Untouched)
        /\ (NotReset' <=> NotReset)
    BY <1>2, <2>2 DEF SingleVersion, OtherPods, Untouched, Uniform, NotReset
  <2>5. PodsOK' /\ LifeOK'
    BY <1>1, <1>2, <2>2, <2>3 DEF PodsOK, LifeOK
  <2>6. RestOK(status)' /\ StartOK(status)' /\ RollOK(status)'
    BY <1>1, <1>2, <2>2, <2>4 DEF RestOK, StartOK, RollOK, IsRolling
  <2>7. CancelOK(status)'
    BY <1>1, <1>2, <2>2, <2>4 DEF CancelOK
  <2>. QED BY <2>5, <2>6, <2>7 DEF HoldInv
<1>. QED BY <1>3, <1>4

\* The invariant holds initially.
LEMMA InitHold == Init => HoldInv
<1>. SUFFICES ASSUME Init PROVE HoldInv
  OBVIOUS
<1>1. CleanUpInv
  BY InitClean
<1>2. /\ status.phase = "Initial" /\ ~status.terminated
      /\ rollout.exists /\ ~rollout.disabled
  BY DEF Init, RolloutInit
<1>3. PICK r \in Revisions :
        /\ wl.update = r /\ ~wl.anno /\ ready = Replicas /\ ~br.exists
        /\ pods = [x \in Revisions |-> IF x = r THEN Replicas ELSE 0]
  BY DEF Init, WorkloadInit
<1>4. PodsOK
  BY <1>3, ReplicasAssumption DEF PodsOK
<1>5. LifeOK /\ RestOK(status) /\ StartOK(status) /\ RollOK(status) /\ CancelOK(status)
  BY <1>2, <1>3 DEF LifeOK, RestOK, StartOK, RollOK, IsRolling, CancelOK
<1>. QED BY <1>1, <1>4, <1>5 DEF HoldInv

\* Every step preserves it.
LEMMA NextHold ==
  ASSUME Unhurried, HoldInv, [Next]_vars
  PROVE  HoldInv'
<1>1. CleanUpInv'
  BY NextClean DEF HoldInv, Unhurried
<1>2. CASE UNCHANGED vars
  <2>1. UNCHANGED <<rollout, status, br, wl, pods, ready>>
    BY <1>2 DEF vars, rolloutVars, brVars
  <2>2. PodsOK' /\ LifeOK'
    BY <2>1 DEF HoldInv, PodsOK, LifeOK
  <2>3. RestOK(status)' /\ StartOK(status)' /\ RollOK(status)' /\ CancelOK(status)'
    BY <2>1
    DEF HoldInv, RestOK, StartOK, RollOK, IsRolling, NotReset, CancelOK, Untouched,
        Uniform, SingleVersion, OtherPods
  <2>. QED BY <1>1, <2>2, <2>3 DEF HoldInv
<1>3. CASE Reconcile
  BY <1>1, <1>3, WaitingHold, SpecialCasesHold, ResetHold, StepStepHold, FinalisingHold,
     EnvironmentHold
  DEF Reconcile, Unhurried
<1>4. CASE Below
  BY <1>1, <1>4, BelowHold
<1>5. CASE Time \/ Restart \/ GarbageCollected
  BY <1>1, <1>5, EnvironmentHold
<1>6. CASE User
  BY <1>1, <1>6, UserHold
<1>. QED BY <1>2, <1>3, <1>4, <1>5, <1>6 DEF Next

\* Without overtaking and disabling, a release that has not created its
\* BatchRelease has touched no pod, and a blue-green rollback that is past
\* ResumeWorkload runs one revision.
THEOREM HoldInvariant == Spec => [](Unhurried => HoldInv)
<1>1. Init => (Unhurried => HoldInv)
  BY InitHold
<1>2. (Unhurried => HoldInv) /\ [Next]_vars => (Unhurried => HoldInv)'
  BY NextHold DEF Unhurried, NoOvertaking, NeverDisabled
<1>. QED BY <1>1, <1>2, PTL DEF Spec

-----------------------------------------------------------------------------
(* A rollback opens the stable Service last.                               *)

\* A call of a blue-green rollback that opens the stable Service works on
\* RestoreStableService, which comes after ResumeWorkload.
LEMMA CancellingUnpins ==
  ASSUME HoldInv, BlueGreen, ProgressingCancelling,
         stableSel # NoRevision, stableSel' = NoRevision
  PROVE  Uniform
<1>1. /\ RollingInv /\ status.fin \in FinalisingSteps /\ wl \in Workloads
      /\ status.phase = "Progressing" /\ status.reason = "Cancelling" /\ CancelOK(status)
  BY InvTypes, StatusFields
  DEF HoldInv, CleanUpInv, ProgressingCancelling, Progressing, Reconciling
<1>2. PICK task \in FinalisingSteps : FinaliseRetry("rollback", task)
  BY DEF ProgressingCancelling, doFinalising, FinaliseNext, FinaliseLast,
         FinaliseNothing, trVars
<1>3. task = "RestoreStableService"
  BY <1>2
  DEF FinaliseRetry, RestoreGateway, RemoveCanaryService, RouteAllTrafficToNewVersion,
      trVars
<1>4. status.fin \in Past
  BY <1>1, <1>2, <1>3, RollbackOrder DEF FinaliseRetry, Task, Past
<1>5. SingleVersion \/ Untouched
  BY <1>1, <1>4 DEF CancelOK
<1>6. SingleVersion => Uniform
  BY <1>1, InvTypes
  DEF SingleVersion, OtherPods, Uniform, Workloads, BatchReleaseTypeOK
<1>. QED BY <1>5, <1>6 DEF Untouched

\* A cancelling reconcile and a stuttering or other step: which of them opens
\* the Service.
LEMMA NextUnpins ==
  ASSUME HoldInv, BlueGreen, [Next]_vars,
         status.phase = "Progressing", status.reason = "Cancelling",
         stableSel # NoRevision, stableSel' = NoRevision
  PROVE  Uniform
<1>1. ~UNCHANGED vars /\ ~Below /\ ~Time /\ ~Restart /\ ~GarbageCollected /\ ~User
  BY DEF vars, Below, Time, StatusAges, ConditionAges, GraceElapses, Restart,
         ForgetExpectations, GarbageCollected, User, Release, Approve, Jump, ChangePlan,
         Pause, Disable, Delete, netVars, trVars
<1>2. Reconcile
  BY <1>1 DEF Next
<1>3. ~StepStep
  BY StepStatus DEF HoldInv, Progressing, Reconciling
<1>4. ProgressingCancelling
  BY <1>2, <1>3
  DEF Reconcile, ReconcileIdle, ProgressingInitializing, ProgressingPaused,
      ProgressingCompleted, RollbackDirectly, RolloutPaused, RollbackInBatches,
      ContinuousRefused, ResetGateway, ResetRelease, ResetDone, PlanChanged, RollingDone,
      Continuous, NormalRolling, Rolling, Progressing, Reconciling,
      ProgressingFinalising, RolloutTerminating, RolloutDisabling, FinalizerRemoved,
      trVars
<1>. QED BY <1>4, CancellingUnpins

\* A blue-green rollback opens the stable Service to all pods only when one
\* revision is left, whatever is lost or restarted, as long as no release
\* overtakes it and nobody disables the Rollout.
THEOREM RollbackUnpinsAtTheEnd ==
  ASSUME BlueGreen, NoOvertaking, NeverDisabled
  PROVE  Spec => RollbackUnpinsLast
<1>1. (Unhurried => HoldInv) /\ (NoOvertaking => CleanUpInv) /\ [Next]_vars =>
        [status.phase = "Progressing" /\ status.reason = "Cancelling"
         /\ stableSel # NoRevision /\ stableSel' = NoRevision
         => Cardinality({r \in Revisions : pods[r] > 0}) = 1]_vars
  <2>1. SUFFICES ASSUME Unhurried => HoldInv, CleanUpInv, [Next]_vars,
                        status.phase = "Progressing", status.reason = "Cancelling",
                        stableSel # NoRevision, stableSel' = NoRevision
                 PROVE  Cardinality({r \in Revisions : pods[r] > 0}) = 1
    OBVIOUS
  <2>2. HasTrafficRoutings
    BY <2>1 DEF CleanUpInv, NetworkOK
  <2>3. HoldInv
    BY <2>1, <2>2 DEF Unhurried
  <2>4. pods \in [Revisions -> Nat]
    BY <2>1, InvTypes DEF CleanUpInv, BatchReleaseTypeOK
  <2>5. PICK r \in Revisions : \A x \in Revisions \ {r} : pods[x] = 0
    BY <2>1, <2>3, NextUnpins DEF Uniform
  <2>6. pods[r] > 0
    BY <2>3, <2>4, <2>5 DEF HoldInv, PodsOK
  <2>7. {x \in Revisions : pods[x] > 0} = {r}
    BY <2>4, <2>5, <2>6
  <2>. QED BY <2>7, FS_Singleton
<1>. QED BY <1>1, HoldInvariant, CleanUpInvariant, PTL DEF Spec, RollbackUnpinsLast

-----------------------------------------------------------------------------
(* The stable Service is pinned while two versions run.                    *)

\* Every step of every plan is routed and keeps a stable pod, and the steps
\* follow each other.
Stepwise == Unhurried /\ Routed /\ PlansKeepStable /\ NoJumps

\* Such a step has traffic, and does not replace all pods.
LEMMA StepKeeps ==
  ASSUME PlansKeepStable, rollout \in Rollouts, NEW i \in 1 .. Len(steps)
  PROVE  ~NoTraffic(i) /\ ~ReplacesAllPods(i)
<1>1. steps \in Plans /\ i \in DOMAIN steps /\ steps[i] \in StepSet
  BY StepsType DEF Rollouts, steps
<1>2. steps[i].traffic # NoRoute /\ (BlueGreen \/ steps[i].replicas < Replicas)
  BY <1>1 DEF PlansKeepStable
<1>3. steps[i].replicas \in Nat
  BY <1>1 DEF StepSet
<1>. QED BY <1>2, <1>3, ReplicasAssumption DEF NoTraffic, ReplacesAllPods

\* The status a step of runCanary starts from is at the step it was at.
LEMMA SyncedStep ==
  ASSUME HoldInv, status.phase = "Progressing"
  PROVE  /\ synced \in Statuses /\ newStatus \in Statuses
         /\ newStatus.idx = status.idx /\ newStatus.nxt = status.nxt
         /\ newStatus.sr = status.sr /\ newStatus.state = status.state
         /\ newStatus.reps = status.reps
         /\ synced.idx = status.idx /\ synced.nxt = status.nxt
         /\ synced.sr = status.sr /\ synced.state = status.state
         /\ ~br.exists => synced.reps = status.reps
<1>1. RollingInv /\ status \in Statuses /\ newStatus \in Statuses /\ ~rollout.disabled
  BY InvTypes DEF HoldInv, CleanUpInv, LifeOK
<1>2. synced \in Statuses
  BY <1>1, SyncedType
<1>3. /\ newStatus.idx = status.idx /\ newStatus.nxt = status.nxt
      /\ newStatus.sr = status.sr /\ newStatus.state = status.state
      /\ newStatus.reps = status.reps
  <2>1. CASE rollout.deleting
    BY <1>1, <2>1 DEF newStatus, Statuses
  <2>2. CASE ~rollout.deleting
    BY <1>1, <2>2 DEF newStatus, Disabled, PhaseTransition
  <2>. QED BY <2>1, <2>2
<1>. QED BY <1>1, <1>2, <1>3 DEF synced, Statuses

\* A rollout that upgrades has pinned the Service: step 1 does not leave its
\* Init before.
LEMMA UpgradingPinned ==
  ASSUME PinInv, Stepwise, Progressing("InRolling"), wl.update # wl.stable, Upgrading
  PROVE  stableSel = wl.stable
<1>1. /\ HoldInv /\ PinOK(status) /\ IsRolling(status) /\ RollingInv
      /\ rollout \in Rollouts
  BY InvTypes DEF PinInv, HoldInv, CleanUpInv, IsRolling, Progressing, Reconciling
<1>2. status.idx \in 1 .. Len(steps)
  BY <1>1 DEF RollingInv, StepInRange, IsRolling
<1>3. CASE status.state # "Init" \/ status.idx # 1
  BY <1>1, <1>3 DEF PinOK
<1>4. CASE status.state = "Init" /\ status.idx = 1
  <2>1. ~InitUnpins /\ ~InitPins
    BY <1>4 DEF Upgrading, InState
  <2>2. ~NoTraffic(status.idx)
    BY <1>1, <1>2, StepKeeps DEF Stepwise
  <2>3. PatchStableServiceDone(status.sr)
    BY <1>4, <2>1, <2>2 DEF InitPins, Stepwise, Routed
  <2>4. status.sr = wl.stable
    BY <1>1 DEF PinOK
  <2>. QED BY <2>3, <2>4 DEF PatchStableServiceDone, Stepwise, Routed
<1>. QED BY <1>3, <1>4

\* What a step of runCanary writes, when the steps follow each other: the same
\* step, or the next one once this one is ready.
LEMMA StepFollows ==
  ASSUME PinInv, Stepwise, StepStep, wl.update # wl.stable
  PROVE  /\ ~StepJump /\ ~StepCleanUp /\ ~StepInitUnpin /\ ~StepInitSkip
         /\ \/ status' = status
            \/ /\ ~br.exists => status'.reps = status.reps
               /\ \/ status'.idx = status.idx /\ status'.nxt = status.nxt
                  \/ status'.nxt = NextBatchIndex(status'.idx) /\ status.state = "Ready"
               /\ StepInitPin => status'.idx = status.idx /\ status'.state = status.state
<1>1. Progressing("InRolling") /\ HoldInv /\ PinOK(status)
  BY StepStatus DEF PinInv, HoldInv
<1>2. /\ status.phase = "Progressing" /\ IsRolling(status) /\ RollingInv
      /\ rollout \in Rollouts
  BY <1>1, InvTypes DEF Progressing, Reconciling, IsRolling, HoldInv, CleanUpInv
<1>3. /\ synced \in Statuses
      /\ synced.idx = status.idx /\ synced.nxt = status.nxt
      /\ synced.state = status.state /\ (~br.exists => synced.reps = status.reps)
  BY <1>1, <1>2, SyncedStep
<1>4. status.idx \in 1 .. Len(steps)
  BY <1>2 DEF RollingInv, StepInRange, IsRolling
<1>5. ~NoTraffic(status.idx) /\ ~ReplacesAllPods(status.idx)
  BY <1>2, <1>4, StepKeeps DEF Stepwise
<1>6. ~Jumps(synced)
  BY <1>1, <1>2, <1>3 DEF PinOK, Jumps
<1>7. ~StepJump /\ ~StepCleanUp /\ ~StepInitUnpin /\ ~StepInitSkip
  BY <1>5, <1>6 DEF StepJump, StepCleanUp, StepInitUnpin, InitUnpins, StepInitSkip
<1> DEFINE Kept(s) ==
             /\ s.idx = status.idx /\ s.nxt = status.nxt
             /\ ~br.exists => s.reps = status.reps
<1>8. ASSUME NEW x, NEW f, NEW p
      PROVE  /\ Kept([synced EXCEPT !.state = x, !.fresh = f])
             /\ Kept([synced EXCEPT !.state = x]) /\ Kept([synced EXCEPT !.fresh = f])
             /\ Kept(synced) /\ Kept(upgrading) /\ upgrading \in Statuses
             /\ Kept([upgrading EXCEPT !.pth = p, !.fresh = f, !.state = x])
  <2>1. upgrading \in Statuses
    BY <1>1, <1>2, UpgradingType
  <2>2. Kept(upgrading)
    BY <1>3 DEF upgrading, Statuses
  <2>. QED BY <1>3, <2>1, <2>2 DEF Statuses
<1>9. CASE StepInitPin
  BY <1>3, <1>7, <1>9 DEF StepInitPin, Write
<1>10. CASE StepReady
  <2> DEFINE s == [synced EXCEPT !.idx = status.idx + 1, !.fresh = TRUE, !.state = "Init",
                                 !.nxt = NextBatchIndex(status.idx + 1)]
             t == [synced EXCEPT !.state = "Completed", !.fresh = TRUE]
  <2>1. s.idx = status.idx + 1 /\ s.nxt = NextBatchIndex(s.idx)
        /\ (~br.exists => s.reps = status.reps)
    BY <1>3 DEF Statuses
  <2>2. Kept(t)
    BY <1>8
  <2>3. (Write(s) \/ Write(t)) /\ status.state = "Ready"
    BY <1>3, <1>10 DEF StepReady, InState
  <2>4. ~StepInitPin
    BY <2>3 DEF StepInitPin, InState
  <2>. HIDE DEF s, t
  <2>. QED BY <1>7, <2>1, <2>2, <2>3, <2>4 DEF Write
<1>11. CASE StepUpgradeApply \/ StepUpgradeWait \/ StepUpgradeDone
  <2>1. \E s : Write(s) /\ Kept(s)
    <3>. HIDE DEF Kept
    <3>. QED BY <1>8, <1>11 DEF StepUpgradeApply, StepUpgradeWait, StepUpgradeDone
  <2>2. ~StepInitPin
    BY <1>11
    DEF StepInitPin, StepUpgradeApply, StepUpgradeWait, StepUpgradeDone, Upgrading, InState
  <2>. QED BY <1>7, <2>1, <2>2 DEF Write
<1>12. CASE StepRoute \/ StepRouted \/ StepAnalysed \/ StepPaused
  <2>1. \E s : Write(s) /\ Kept(s)
    <3>. HIDE DEF Kept
    <3>. QED BY <1>8, <1>12 DEF StepRoute, StepRouted, StepAnalysed, StepPaused
  <2>2. ~StepInitPin
    BY <1>12 DEF StepInitPin, StepRoute, StepRouted, StepAnalysed, StepPaused, InState
  <2>. QED BY <1>7, <2>1, <2>2 DEF Write
<1>. QED BY <1>7, <1>9, <1>10, <1>11, <1>12 DEF StepStep

\* Every step of runCanary keeps the Service pinned, and creates the
\* BatchRelease with the Service pinned.
LEMMA StepStepPin ==
  ASSUME PinInv, Stepwise, StepStep
  PROVE  PinOK(status)'
<1>1. SUFFICES ASSUME IsRolling(status'), wl'.update # wl'.stable
               PROVE  PinOK(status)'
  BY DEF PinOK
<1>2. /\ HoldInv /\ PinOK(status) /\ RollingInv /\ rollout \in Rollouts
      /\ Progressing("InRolling") /\ IsRolling(status) /\ status.phase = "Progressing"
      /\ status' = status \/ FromNew(status')
  BY InvTypes, StepStatus DEF PinInv, HoldInv, CleanUpInv, Progressing, Reconciling, IsRolling
<1>3. UNCHANGED <<rollout, wl>> /\ (br.exists => br'.exists)
      /\ (br'.exists /\ ~br.exists => StepUpgradeApply)
  BY <1>2, StepRelease
<1>4. wl.update # wl.stable
  BY <1>1, <1>3
<1>5. /\ status.sr = wl.stable /\ status.nxt = NextBatchIndex(status.idx)
      /\ ~br.exists => status.reps = 0
      /\ br.exists \/ status.idx # 1 \/ status.state # "Init" => stableSel = wl.stable
  BY <1>2, <1>4 DEF PinOK
<1>6. /\ ~StepJump /\ ~StepCleanUp /\ ~StepInitUnpin /\ ~StepInitSkip
      /\ \/ status' = status
         \/ /\ ~br.exists => status'.reps = status.reps
            /\ \/ status'.idx = status.idx /\ status'.nxt = status.nxt
               \/ status'.nxt = NextBatchIndex(status'.idx) /\ status.state = "Ready"
            /\ StepInitPin => status'.idx = status.idx /\ status'.state = status.state
  BY <1>4, StepFollows
<1>7. status'.sr = wl.stable
  BY <1>2, <1>5, SyncedStep DEF FromNew
<1>8. (status.nxt = NextBatchIndex(status.idx))' /\ (~br'.exists => status'.reps = 0)
  BY <1>3, <1>5, <1>6 DEF NextBatchIndex, steps
<1>9. synced.sr = wl.stable
  BY <1>2, <1>5, SyncedStep
<1>10. stableSel = wl.stable => stableSel' = wl.stable
  <2>1. CASE UNCHANGED trVars
    BY <2>1 DEF trVars
  <2>2. CASE StepInitPin
    BY <1>5, <2>2 DEF StepInitPin, PatchStableService, trVars
  <2>3. CASE StepRoute
    BY <1>9, <2>3 DEF StepRoute, DoTrafficRouting, trVars
  <2>. QED
    BY <1>6, <2>1, <2>2, <2>3
    DEF StepStep, StepUpgradeApply, StepUpgradeWait, StepUpgradeDone, StepRouted,
        StepAnalysed, StepPaused, StepReady
<1>11. CASE stableSel = wl.stable
  BY <1>3, <1>7, <1>8, <1>10, <1>11 DEF PinOK
<1>12. CASE stableSel # wl.stable
  <2>1. ~br.exists /\ status.idx = 1 /\ status.state = "Init"
    BY <1>5, <1>12
  <2>2. ~Upgrading
    BY <1>2, <1>4, <1>12, UpgradingPinned
  <2>3. StepInitPin
    BY <1>6, <2>1, <2>2
    DEF StepStep, StepUpgradeApply, StepUpgradeWait, StepUpgradeDone, StepRoute,
        StepRouted, StepAnalysed, StepPaused, StepReady, InState
  <2>4. ~br'.exists
    BY <1>3, <2>1, <2>2 DEF StepUpgradeApply
  <2>5. status'.idx = 1 /\ status'.state = "Init"
    BY <1>6, <2>1, <2>3
  <2>. QED BY <1>3, <1>7, <1>8, <2>4, <2>5 DEF PinOK
<1>. QED BY <1>11, <1>12

\* A reconcile that leaves the step alone, and everything but the status.
LEMMA SamePin ==
  ASSUME PinInv, UNCHANGED <<wl, stableSel>>, br'.exists = br.exists,
         Len(steps)' = Len(steps) \/ ~IsRolling(status'),
         IsRolling(status') => IsRolling(status),
         status'.sr = status.sr, status'.idx = status.idx, status'.nxt = status.nxt,
         status'.reps = status.reps, status'.state = "Init" <=> status.state = "Init"
  PROVE  PinOK(status)'
BY DEF PinInv, PinOK, NextBatchIndex

\* A changed plan is followed from step 1 as long as there is no
\* BatchRelease.
LEMMA PlanChangedPin ==
  ASSUME PinInv, Stepwise, PlanChanged
  PROVE  PinOK(status)'
<1>1. /\ HoldInv /\ PinOK(status) /\ RollingInv /\ rollout \in Rollouts
      /\ Progressing("InRolling") /\ UNCHANGED <<rollout, wl, br, stableSel>>
  BY InvTypes
  DEF PinInv, HoldInv, CleanUpInv, PlanChanged, Rolling, trVars, brVars
<1>2. status.phase = "Progressing" /\ IsRolling(status) /\ status.reason = "InRolling"
  BY <1>1 DEF Progressing, Reconciling, IsRolling
<1>3. /\ newStatus \in Statuses
      /\ newStatus.idx = status.idx /\ newStatus.nxt = status.nxt
      /\ newStatus.sr = status.sr /\ newStatus.state = status.state
      /\ newStatus.reps = status.reps
  BY <1>1, <1>2, SyncedStep
<1>4. SUFFICES ASSUME IsRolling(status'), wl.update # wl.stable
               PROVE  PinOK(status)'
  BY <1>1 DEF PinOK
<1>5. /\ status.sr = wl.stable /\ status.nxt = NextBatchIndex(status.idx)
      /\ ~br.exists => status.reps = 0
      /\ br.exists \/ status.idx # 1 \/ status.state # "Init" => stableSel = wl.stable
  BY <1>1, <1>2, <1>4 DEF PinOK
<1>6. status.idx \in 1 .. Len(steps) /\ Len(steps) \in Nat
  BY <1>1, <1>2, StepsType DEF RollingInv, StepInRange, IsRolling
<1>7. RecalculatedStep \in 1 .. Len(steps) /\ (~br.exists => RecalculatedStep = 1)
  BY <1>1, <1>6, RecalculatedStepType DEF RecalculatedStep
<1> DEFINE n == RecalculatedStep
           s == [newStatus EXCEPT !.nxt = n, !.fresh = TRUE, !.hash = HashOf(steps)]
           t == [s EXCEPT !.state = "Ready"]
           u == [s EXCEPT !.idx = s.nxt, !.nxt = NextBatchIndex(s.nxt), !.fresh = TRUE,
                          !.state = IF steps[s.nxt].replicas = s.reps
                                    THEN "TrafficRouting" ELSE "Init"]
<1>8. /\ s.nxt = n /\ s.idx = status.idx /\ s.reps = status.reps
      /\ t.nxt = n /\ t.idx = status.idx /\ t.reps = status.reps /\ t.sr = status.sr
      /\ t.state = "Ready"
      /\ u.nxt = NextBatchIndex(n) /\ u.idx = n /\ u.reps = status.reps
      /\ u.sr = status.sr
      /\ u.state = IF steps[n].replicas = status.reps THEN "TrafficRouting" ELSE "Init"
  BY <1>3 DEF Statuses
<1>9. IF status.nxt = n THEN Write(t) ELSE Write(IF Jumps(s) THEN Jumped(s) ELSE s)
  BY DEF PlanChanged
<1>10. Jumped(s) = u
  BY DEF Jumped
<1>11. status.nxt # n => Jumps(s)
  BY <1>5, <1>7, <1>8 DEF Jumps
<1>. HIDE DEF n, s, t, u
<1>12. CASE status' = status
  BY <1>1, <1>5, <1>12 DEF PinOK, NextBatchIndex, steps
<1>13. CASE status.nxt = n /\ status' = t
  <2>1. br.exists
    BY <1>5, <1>6, <1>7, <1>13 DEF NextBatchIndex, n
  <2>. QED BY <1>1, <1>5, <1>8, <1>13, <2>1 DEF PinOK, NextBatchIndex, steps
<1>14. CASE status.nxt # n /\ status' = u
  <2>1. CASE br.exists
    BY <1>1, <1>5, <1>8, <1>14, <2>1 DEF PinOK, NextBatchIndex, steps
  <2>2. CASE ~br.exists
    <3>1. n = 1 /\ steps[n].replicas # 0
      BY <1>1, <1>6, <1>7, <2>2, StepsType DEF n, StepSet
    <3>2. u.idx = 1 /\ u.state = "Init" /\ u.reps = 0
      BY <1>5, <1>8, <2>2, <3>1
    <3>. QED BY <1>1, <1>5, <1>8, <1>14, <2>2, <3>2 DEF PinOK, NextBatchIndex, steps
  <2>. QED BY <2>1, <2>2
<1>. QED BY <1>9, <1>10, <1>11, <1>12, <1>13, <1>14 DEF Write

\* The other reconciles of a rollout that only write the status.
LEMMA WaitingPin ==
  ASSUME PinInv, Stepwise,
         \/ ReconcileIdle \/ ProgressingInitializing \/ ProgressingPaused
         \/ ProgressingCompleted \/ RollbackDirectly \/ RolloutPaused
         \/ RollbackInBatches \/ ContinuousRefused \/ RollingDone
  PROVE  PinOK(status)'
<1>1. /\ UNCHANGED <<rollout, wl, br, stableSel>> /\ HoldInv /\ RollingInv
      /\ newStatus \in Statuses
  BY InvTypes
  DEF ReconcileIdle, ProgressingInitializing, ProgressingPaused, ProgressingCompleted,
      RollbackDirectly, RolloutPaused, RollbackInBatches, ContinuousRefused,
      RollingDone, brVars, trVars, PinInv, HoldInv, CleanUpInv
<1>2. CASE status' = status
  BY <1>1, <1>2, SamePin DEF steps
<1>3. CASE ReconcileIdle /\ status' = newStatus
  <2>1. IsRolling(newStatus) => newStatus = status
    <3>1. newStatus.phase = "Progressing" /\ newStatus.reason # "Initializing" =>
            status.phase = "Progressing"
      BY <1>1, NewStatusClean
    <3>. QED BY <1>1, <3>1, NewStatusHold DEF IsRolling
  <2>. QED BY <1>2, <1>3, <2>1 DEF PinOK
<1>4. CASE ~ReconcileIdle
  <2>1. /\ status.phase = "Progressing" /\ rollout.exists
        /\ newStatus = status \/ newStatus.phase = "Terminating"
    BY <1>1, <1>4, NewStatusHold
    DEF ProgressingInitializing, ProgressingPaused, ProgressingCompleted,
        RollbackDirectly, RolloutPaused, RollbackInBatches, ContinuousRefused,
        RollingDone, Continuous, NormalRolling, Rolling, Progressing, Reconciling
  <2>2. /\ newStatus.idx = status.idx /\ newStatus.nxt = status.nxt
        /\ newStatus.sr = status.sr /\ newStatus.state = status.state
        /\ newStatus.reps = status.reps
    BY <1>1, <2>1, SyncedStep
  <2>3. CASE ProgressingInitializing
    <3> DEFINE s == Started(newStatus)
               t == [Started(newStatus) EXCEPT !.reason = "InRolling"]
    <3>1. /\ s.reason = newStatus.reason /\ s.phase = newStatus.phase
          /\ t.sr = wl.stable /\ t.idx = 1 /\ t.nxt = NextBatchIndex(1)
          /\ t.state = "Init" /\ t.reps = 0
      BY <1>1 DEF Started, Statuses
    <3>2. Write(s) \/ Write(t)
      BY <2>3 DEF ProgressingInitializing
    <3>3. status.reason = "Initializing"
      BY <2>3 DEF ProgressingInitializing, Progressing
    <3>. HIDE DEF s, t
    <3>4. CASE status' = s
      <4>1. ~IsRolling(status')
        BY <2>1, <3>1, <3>3, <3>4 DEF IsRolling
      <4>. QED BY <4>1 DEF PinOK
    <3>5. CASE status' = t
      <4>1. wl.update # wl.stable => ~br.exists
        BY <1>1, <2>1, <3>3 DEF HoldInv, StartOK, NotReset
      <4>. QED BY <1>1, <3>1, <3>5, <4>1 DEF PinOK, NextBatchIndex, steps
    <3>. QED BY <1>2, <3>2, <3>4, <3>5 DEF Write
  <2>4. CASE ProgressingPaused \/ RolloutPaused \/ ContinuousRefused
    <3> DEFINE s == [newStatus EXCEPT !.reason = "InRolling"]
               t == [newStatus EXCEPT !.reason = "Paused"]
               Kept(x) == /\ x.idx = status.idx /\ x.nxt = status.nxt /\ x.sr = status.sr
                          /\ x.state = status.state /\ x.reps = status.reps
    <3>1. Kept(s) /\ Kept(t) /\ Kept(newStatus)
      BY <1>1, <2>2 DEF Statuses
    <3>2. Write(s) \/ Write(t) \/ Write(newStatus)
      BY <2>4 DEF ProgressingPaused, RolloutPaused, ContinuousRefused
    <3>3. IsRolling(status)
      BY <2>1, <2>4
      DEF ProgressingPaused, RolloutPaused, ContinuousRefused, Continuous, Rolling,
          Progressing, IsRolling
    <3>. HIDE DEF s, t
    <3>4. Kept(status')
      BY <3>1, <3>2 DEF Write
    <3>. QED BY <1>1, <3>3, <3>4, SamePin DEF steps
  <2>5. CASE ProgressingCompleted \/ RollbackDirectly \/ RollingDone
    <3> DEFINE s == [newStatus EXCEPT !.phase = "Healthy"]
               t == [newStatus EXCEPT !.cr = wl.update, !.reason = "Cancelling"]
               u == [newStatus EXCEPT !.reason = "Finalising"]
    <3>1. s.phase = "Healthy" /\ t.reason = "Cancelling" /\ u.reason = "Finalising"
      BY <1>1 DEF Statuses
    <3>2. Write(s) \/ Write(t) \/ Write(u)
      BY <2>5 DEF ProgressingCompleted, RollbackDirectly, RollingDone
    <3>. HIDE DEF s, t, u
    <3>. QED BY <1>2, <3>1, <3>2 DEF Write, PinOK, IsRolling
  <2>6. CASE RollbackInBatches
    BY <2>6
    DEF RollbackInBatches, isRollingBackInBatches, RollbackInBatchPolicy, Stepwise, Routed
  <2>. QED BY <1>4, <2>3, <2>4, <2>5, <2>6
<1>. QED BY <1>2, <1>3, <1>4 DEF ReconcileIdle, Write

\* A finalising or resetting rollout is not about the pinned Service.
LEMMA FinalisingPin ==
  ASSUME PinInv, HoldInv',
         \/ ProgressingFinalising \/ ProgressingCancelling
         \/ RolloutTerminating \/ RolloutDisabling
         \/ ResetGateway \/ ResetRelease \/ ResetDone
  PROVE  PinOK(status)'
<1>1. HoldInv /\ CleanUpInv /\ RollingInv /\ newStatus \in Statuses
  BY InvTypes DEF PinInv, HoldInv, CleanUpInv
<1>2. CASE ResetGateway \/ ResetRelease \/ ResetDone
  <2>1. /\ Progressing("InRolling") /\ isContinuousRelease /\ wl' = wl
    BY <1>2 DEF ResetGateway, ResetRelease, ResetDone, Continuous, Rolling, brVars
  <2>2. wl.update = wl.stable
    BY <1>1, <2>1, RollingClean
    DEF CleanUpInv, RollingOK, isContinuousRelease
  <2>. QED BY <2>1, <2>2 DEF PinOK
<1>3. ASSUME NEW why, NEW done \in Statuses, RunsFor(why), doFinalising(why, done),
             done.phase = "Terminating" \/ done.reason = "Completed"
      PROVE  PinOK(status)'
  <2>1. \/ status' = status
        \/ status'.phase = newStatus.phase /\ status'.reason = newStatus.reason
        \/ status'.phase = done.phase /\ status'.reason = done.reason
    BY <1>1, <1>3, FinalisingStep
  <2>2. ~IsRolling(status)
    BY <1>3 DEF RunsFor, IsRolling
  <2>3. newStatus.phase = "Progressing" => newStatus = status
    BY <1>1, <1>3, NewStatusHold DEF RunsFor, HoldInv, LifeOK
  <2>4. ~IsRolling(status')
    BY <1>3, <2>1, <2>2, <2>3 DEF IsRolling
  <2>. QED BY <2>4 DEF PinOK
<1>4. ASSUME NEW o \in {"True", "False"}
      PROVE  LET d == [newStatus EXCEPT !.reason = "Completed", !.succeeded = o]
             IN  d \in Statuses /\ d.reason = "Completed"
  BY <1>1, Names DEF Statuses
<1>5. CASE ProgressingFinalising
  BY <1>3, <1>4, <1>5 DEF ProgressingFinalising, Progressing, Reconciling, RunsFor
<1>6. CASE ProgressingCancelling
  BY <1>3, <1>4, <1>6 DEF ProgressingCancelling, Progressing, Reconciling, RunsFor
<1>7. CASE RolloutTerminating
  <2> DEFINE d == [newStatus EXCEPT !.terminated = TRUE]
  <2>1. status.phase = "Terminating" /\ doFinalising("delete", d)
    BY <1>7 DEF RolloutTerminating, Reconciling
  <2>2. d.phase = "Terminating" /\ d \in Statuses
    BY <1>1, <2>1, NewStatusHold, Members DEF Statuses
  <2>. HIDE DEF d
  <2>. QED BY <1>3, <2>1, <2>2 DEF RunsFor
<1>8. ~RolloutDisabling
  BY <1>1 DEF RolloutDisabling, Reconciling, HoldInv, LifeOK
<1>. QED BY <1>2, <1>5, <1>6, <1>7, <1>8

\* The controllers below neither create a BatchRelease nor remove that of a
\* rolling rollout, and change the stable revision to the update revision only.
LEMMA BelowPin ==
  ASSUME PinInv, Below
  PROVE  PinOK(status)'
<1>1. /\ RollingInv /\ HoldInv /\ PinOK(status)
      /\ UNCHANGED <<rollout, status, stableSel>>
  BY DEF PinInv, HoldInv, CleanUpInv, Below, rolloutVars, trVars
<1>2. wl'.update # wl'.stable => wl.update # wl.stable /\ wl'.stable = wl.stable
  BY <1>1, BelowPods
<1>3. IsRolling(status) /\ wl.update # wl.stable => br'.exists = br.exists
  <2>1. br \in BatchReleases /\ br' \in BatchReleases
    BY <1>1, InvTypes, BelowInv DEF RollingInv, TypeOK, BatchReleaseTypeOK
  <2>2. (br'.exists => br.exists) /\ (br.exists /\ ~br'.exists => br.deleting)
    BY <1>1, BelowLife
  <2>3. IsRolling(status) /\ wl.update # wl.stable => (br.exists => ~br.deleting)
    BY <1>1 DEF HoldInv, RollOK, NotReset
  <2>4. br.exists \in BOOLEAN /\ br'.exists \in BOOLEAN
    BY <2>1 DEF BatchReleases, Flags
  <2>. QED BY <2>2, <2>3, <2>4
<1>. QED BY <1>1, <1>2, <1>3 DEF PinOK, IsRolling, NextBatchIndex, steps

\* So do time, restarts, the garbage collector and the finalizer's removal.
LEMMA EnvironmentPin ==
  ASSUME PinInv, Time \/ Restart \/ GarbageCollected \/ FinalizerRemoved
  PROVE  PinOK(status)'
<1>1. /\ RollingInv /\ HoldInv /\ status \in Statuses /\ rollout \in Rollouts
  BY InvTypes DEF PinInv, HoldInv, CleanUpInv
<1>2. CASE GarbageCollected
  <2>1. status' = status /\ status.phase = "Terminating"
    BY <1>1, <1>2 DEF GarbageCollected, rolloutVars, HoldInv, LifeOK
  <2>. QED BY <2>1 DEF PinOK, IsRolling
<1>3. CASE Time \/ Restart \/ FinalizerRemoved
  <2>1. /\ IsRolling(status') => IsRolling(status)
        /\ status'.sr = status.sr /\ status'.idx = status.idx
        /\ status'.nxt = status.nxt /\ status'.reps = status.reps
        /\ status'.state = status.state
    BY <1>1, <1>3
    DEF Time, StatusAges, ConditionAges, Restart, FinalizerRemoved, rolloutVars,
        Statuses, IsRolling
  <2>2. UNCHANGED <<wl, br, stableSel>> /\ rollout'.plan = rollout.plan
    BY <1>1, <1>3
    DEF Time, StatusAges, ConditionAges, GraceElapses, Restart, ForgetExpectations,
        FinalizerRemoved, rolloutVars, brVars, trVars, netVars, Rollouts
  <2>. QED BY <2>1, <2>2, SamePin DEF steps
<1>. QED BY <1>2, <1>3

\* So does a user who neither overtakes, disables nor jumps.
LEMMA UserPin ==
  ASSUME PinInv, Stepwise, User
  PROVE  PinOK(status)'
<1>1. /\ RollingInv /\ HoldInv /\ status \in Statuses /\ rollout \in Rollouts
      /\ wl \in Workloads /\ UNCHANGED <<br, stableSel>> /\ PinOK(status)
  BY InvTypes
  DEF PinInv, HoldInv, CleanUpInv, User, Release, Approve, Jump, ChangePlan, Pause,
      Disable, Delete, brVars, trVars
<1>2. CASE \E r \in Revisions : Release(r)
  <2>1. PICK r \in Revisions : Release(r)
    BY <1>2
  <2>2. status' = status /\ wl'.update = r /\ wl'.stable = wl.stable
    BY <1>1, <2>1 DEF Release, Workloads
  <2>3. status.phase = "Progressing" => r = wl.stable
    BY <2>1 DEF Release, UserOp, ReleaseKind, Stepwise, Unhurried, NoOvertaking
  <2>. QED BY <2>2, <2>3 DEF PinOK, IsRolling
<1>3. CASE Approve
  <2>1. /\ status.state = "Paused" /\ UNCHANGED <<rollout, wl>>
        /\ status' = [status EXCEPT !.state = "Ready"]
    BY <1>3 DEF Approve, brVars
  <2>2. /\ status'.phase = status.phase /\ status'.reason = status.reason
        /\ status'.sr = status.sr /\ status'.idx = status.idx
        /\ status'.nxt = status.nxt /\ status'.reps = status.reps
        /\ status'.state = "Ready"
    BY <1>1, <2>1 DEF Statuses
  <2>. QED BY <1>1, <2>1, <2>2, SamePin DEF IsRolling, steps
<1>4. CASE (\E p \in Plans : ChangePlan(p)) \/ Pause \/ Disable \/ Delete
  <2>1. UNCHANGED <<status, wl>>
    BY <1>4 DEF ChangePlan, Pause, Disable, Delete, brVars
  <2>2. status.phase = "Progressing" => Len(rollout'.plan) = Len(rollout.plan)
    BY <1>1, <1>4 DEF ChangePlan, Pause, Disable, Delete, Rollouts
  <2>. QED BY <1>1, <2>1, <2>2, SamePin DEF IsRolling, steps
<1>5. ~\E n \in 0 .. Len(steps) : Jump(n)
  BY DEF Jump, UserOp, Stepwise, NoJumps
<1>. QED BY <1>2, <1>3, <1>4, <1>5 DEF User

\* Every step preserves the invariant.
LEMMA NextPin ==
  ASSUME Stepwise, PinInv, [Next]_vars
  PROVE  PinInv'
<1>1. HoldInv'
  BY NextHold DEF PinInv, Stepwise
<1>2. PinOK(status)'
  <2>1. CASE UNCHANGED vars
    BY <2>1, SamePin DEF vars, rolloutVars, trVars, brVars, steps
  <2>2. CASE Reconcile
    BY <1>1, <2>2, WaitingPin, PlanChangedPin, StepStepPin, FinalisingPin, EnvironmentPin
    DEF Reconcile
  <2>3. CASE Below
    BY <2>3, BelowPin
  <2>4. CASE Time \/ Restart \/ GarbageCollected
    BY <2>4, EnvironmentPin
  <2>5. CASE User
    BY <2>5, UserPin
  <2>. QED BY <2>1, <2>2, <2>3, <2>4, <2>5 DEF Next
<1>. QED BY <1>1, <1>2 DEF PinInv

\* Two versions run, so the BatchRelease has been created, so the Service is
\* pinned.
LEMMA PinnedByInv ==
  ASSUME PinInv, Stepwise
  PROVE  StableServicePinned
<1>1. SUFFICES ASSUME status.phase = "Progressing",
                      status.reason \in {"Initializing", "InRolling", "Paused"},
                      wl.update # wl.stable, pods[wl.stable] > 0,
                      NEW r \in Revisions \ {wl.stable}, pods[r] > 0
               PROVE  stableSel = wl.stable
  BY DEF StableServicePinned
<1>2. /\ wl.stable \in Revisions /\ pods \in [Revisions -> Nat]
      /\ StartOK(status) /\ RollOK(status) /\ PinOK(status)
  BY InvTypes
  DEF PinInv, HoldInv, CleanUpInv, BatchReleaseTypeOK, Workloads
<1>3. ~Uniform
  BY <1>1, <1>2 DEF Uniform
<1>4. IsRolling(status) /\ br.exists
  BY <1>1, <1>2, <1>3 DEF StartOK, RollOK, IsRolling, NotReset, Untouched
<1>. QED BY <1>1, <1>2, <1>4 DEF PinOK

\* While old and new pods coexist in a rollout that follows its routed steps,
\* the stable Service selects the stable pods only: for every set of such
\* plans, in both styles, whatever is lost or restarted, and across changes
\* of the plan, rollbacks and deletion.
THEOREM StableIsPinned ==
  ASSUME NoOvertaking, NeverDisabled
  PROVE  Spec => []StableServicePinned
<1>1. Init => (Stepwise => PinInv)
  <2>1. Init => PinOK(status)
    BY DEF Init, RolloutInit, PinOK, IsRolling
  <2>. QED BY <2>1, InitHold DEF PinInv
<1>2. (Stepwise => PinInv) /\ [Next]_vars => (Stepwise => PinInv)'
  BY NextPin
  DEF Stepwise, Unhurried, NoOvertaking, NeverDisabled, Routed, PlansKeepStable, NoJumps
<1>3. (Stepwise => PinInv) => StableServicePinned
  <2>1. ~Stepwise => StableServicePinned
    BY DEF Stepwise, Unhurried, Routed, StableServicePinned
  <2>. QED BY <2>1, PinnedByInv
<1>. QED BY <1>1, <1>2, <1>3, PTL DEF Spec

-----------------------------------------------------------------------------
(* Traffic follows the pods, and success is reported for released pods.    *)
(*                                                                         *)
(* The pods of the update revision, and the ready ones among them, only    *)
(* grow in number while the revision stays the same.  So what the          *)
(* BatchRelease has verified once holds until the revision changes; what   *)
(* needs an invariant is that the rollout never takes the verdict on       *)
(* another revision, batch or plan for its own.                            *)

\* No BatchRelease before a rollout starts to roll, nor after its clean-up.
Gone(s) ==
  \/ s.phase \in {"Initial", "Healthy", "Disabled"}
  \/ s.phase = "Progressing" /\ s.reason \in {"Initializing", "Completed"}
  \/ s.phase # "Terminating" /\ (~s.sub \/ s.fin = "END")
GoneOK(s) == Gone(s) => ~br.exists

\* Only a rollout that succeeds routes all traffic to the new version.
ToNewOK(s) ==
  s.fin = "RouteTrafficToNew" =>
    /\ s.reason = "Finalising"
    /\ s.phase \in {"Progressing", "Terminating", "Disabling"}

\* A blue-green Rollout is not disabled.
StyleOK(s) == BlueGreen => ~rollout.disabled /\ s.phase \notin {"Disabling", "Disabled"}

\* The plan is the one the rollout has started with.
PlanOK(s) ==
  IsRolling(s) =>
    s.hash = HashOf(steps) /\ (NoJumps => s.nxt = NextBatchIndex(s.idx))

\* The pods that a number of the update revision's run, and are ready.
Run(n) == pods[wl.update] >= n
RunReady(n) == Run(n) /\ ready >= n

\* The states of a step behind Upgrade.
Upgraded == {"TrafficRouting", "MetricsAnalysis", "Paused", "Ready", "Completed"}

\* A step that is upgraded runs its pods; a jump looks at updated pods only.
FollowOK(s) ==
  IsRolling(s) /\ s.cr = wl.update =>
    /\ s.pth \in {NoRevision, wl.update}
    /\ Run(s.reps)
    /\ s.state \in Upgraded =>
         Run(StepPods(s.idx)) /\ (NoJumps => RunReady(StepPods(s.idx)))
    /\ s.state = "Completed" => s.idx = Len(steps)

\* A rollout that succeeds runs the pods of its last step.
EndOK(s) ==
  s.phase = "Progressing" /\ s.reason = "Finalising" =>
    /\ s.cr = wl.update \/ wl.update = wl.stable
    /\ s.cr = wl.update => Run(StepPods(Len(steps)))

\* What the BatchRelease reports of the rollout's revision is true.
BatchOK(b) ==
  b.exists =>
    /\ Run(b.updated)
    /\ b.observed => b.batch <= b.part
    /\ b.observed /\ b.state = "Ready" =>
         RunReady(Lesser(Replicas, b.batches[b.batch + 1]))
ReportOK(s, b) == IsRolling(s) /\ s.cr = wl.update => BatchOK(b)

StatusOK(s) ==
  /\ GoneOK(s) /\ ToNewOK(s) /\ StyleOK(s)
  /\ PlanOK(s) /\ FollowOK(s) /\ EndOK(s)
FollowInv == CleanUpInv /\ StatusOK(status) /\ ReportOK(status, br)

\* What the user leaves alone: an unfinished release, the plan, and, in a
\* blue-green release, the switch that disables the Rollout.
Steady ==
  /\ NoOvertaking /\ NeverReplanned /\ (BlueGreen => NeverDisabled)
  /\ ~RollbackInBatchPolicy

\* The status that a reconcile of a progressing rollout starts from differs
\* from the stored one in its phase only.
LEMMA NewStatusSame ==
  ASSUME RollingInv, status.phase = "Progressing"
  PROVE  /\ newStatus \in Statuses /\ status \in Statuses
         /\ newStatus.phase \in {"Progressing", "Disabling", "Terminating"}
         /\ newStatus.phase = "Disabling" => rollout.disabled
         /\ newStatus.reason = status.reason /\ newStatus.sub = status.sub
         /\ newStatus.idx = status.idx /\ newStatus.nxt = status.nxt
         /\ newStatus.state = status.state /\ newStatus.hash = status.hash
         /\ newStatus.cr = status.cr /\ newStatus.pth = status.pth
         /\ newStatus.fin = status.fin /\ newStatus.reps = status.reps
<1>1. newStatus \in Statuses /\ status \in Statuses
  BY InvTypes
<1>2. CASE rollout.deleting
  BY <1>1, <1>2 DEF newStatus, Statuses
<1>3. CASE ~rollout.deleting
  BY <1>1, <1>3 DEF newStatus, PhaseTransition, Disabled, Statuses
<1>. QED BY <1>2, <1>3

\* What is said of the status is said of the one a reconcile starts from.
LEMMA NewStatusFollow ==
  ASSUME FollowInv
  PROVE  /\ newStatus \in Statuses /\ StatusOK(newStatus) /\ ReportOK(newStatus, br)
<1>1. /\ CleanUpInv /\ RollingInv /\ status \in Statuses /\ newStatus \in Statuses
      /\ status.phase \in Phases
      /\ StatusOK(status) /\ ReportOK(status, br)
  BY InvTypes, StatusFields DEF FollowInv, CleanUpInv
<1>2. CASE status.phase = "Progressing"
  BY <1>1, <1>2, NewStatusSame
  DEF StatusOK, ReportOK, GoneOK, Gone, ToNewOK, StyleOK, PlanOK, FollowOK, EndOK, IsRolling
<1>3. CASE status.phase # "Progressing"
  <2>1. /\ newStatus.phase = "Progressing" => newStatus.reason = "Initializing"
        /\ newStatus.fin = status.fin
    BY <1>1, <1>3, NewStatusClean
  <2>2. status.phase \in {"Terminating", "Disabling"} =>
          /\ newStatus.reason = status.reason /\ newStatus.sub = status.sub
          /\ newStatus.phase \in {"Terminating", "Disabling"}
    BY <1>1, NewStatusCore DEF SameCore
  <2>3. BlueGreen => newStatus.phase \notin {"Disabling", "Disabled"}
    <3>1. CASE rollout.deleting
      BY <1>1, <3>1 DEF newStatus, Statuses
    <3>2. CASE ~rollout.deleting
      BY <1>1, <3>2 DEF newStatus, PhaseTransition, Disabled, Deployed, Statuses, StatusOK, StyleOK
    <3>. QED BY <3>1, <3>2
  <2>4. StyleOK(newStatus)
    BY <1>1, <2>3 DEF StatusOK, StyleOK
  <2>5. /\ ~IsRolling(newStatus)
        /\ ~(newStatus.phase = "Progressing" /\ newStatus.reason = "Finalising")
    BY <2>1 DEF IsRolling
  <2>6. ToNewOK(newStatus)
    BY <1>1, <1>3, <2>1, <2>2 DEF StatusOK, ToNewOK
  <2>7. GoneOK(newStatus)
    <3>1. CASE status.phase \in {"Initial", "Healthy", "Disabled"}
      BY <1>1, <3>1 DEF StatusOK, GoneOK, Gone
    <3>2. CASE status.phase \in {"Terminating", "Disabling"}
      <4>1. status.phase = "Terminating" => newStatus.phase = "Terminating"
        BY <1>1 DEF RollingInv, TerminatingIsDeleted, newStatus, Statuses
      <4>. QED BY <1>1, <2>1, <2>2, <3>2, <4>1 DEF StatusOK, GoneOK, Gone
    <3>. QED BY <1>1, <1>3, <3>1, <3>2 DEF Phases
  <2>. QED BY <1>1, <2>4, <2>5, <2>6, <2>7 DEF StatusOK, PlanOK, FollowOK, EndOK, ReportOK
<1>. QED BY <1>2, <1>3

\* A reconcile that writes s and leaves the pods and their revisions alone.
LEMMA FollowWrite ==
  ASSUME FollowInv, CleanUpInv', UNCHANGED <<rollout, pods, ready>>,
         wl'.update = wl.update, wl'.stable = wl.stable,
         NEW s, br'.exists => br.exists \/ (~Gone(status) /\ ~Gone(s)),
         Write(s), StatusOK(s), ReportOK(status, br'), ReportOK(s, br')
  PROVE  FollowInv'
<1>1. status' = s \/ status' = status
  BY DEF Write
<1>2. StatusOK(status) /\ StatusOK(s)
  BY DEF FollowInv
<1>3. GoneOK(status)' /\ ToNewOK(status)' /\ StyleOK(status)'
  BY <1>1, <1>2 DEF StatusOK, GoneOK, Gone, ToNewOK, StyleOK
<1>4. PlanOK(status)'
  BY <1>1, <1>2 DEF StatusOK, PlanOK, IsRolling, steps, NextBatchIndex, HashOf
<1>5. FollowOK(status)'
  BY <1>1, <1>2 DEF StatusOK, FollowOK, IsRolling, steps, StepPods, Run, RunReady
<1>6. EndOK(status)'
  BY <1>1, <1>2 DEF StatusOK, EndOK, steps, StepPods, Run
<1>7. ReportOK(status, br)'
  BY <1>1 DEF ReportOK, BatchOK, IsRolling, Run, RunReady
<1>. QED BY <1>3, <1>4, <1>5, <1>6, <1>7 DEF FollowInv, StatusOK

\* Outside the rolling and the finalising reasons nothing is said but that
\* the BatchRelease is gone.
LEMMA NotRolling ==
  ASSUME NEW s, NEW b, ~IsRolling(s),
         ~(s.phase = "Progressing" /\ s.reason = "Finalising")
  PROVE  PlanOK(s) /\ FollowOK(s) /\ EndOK(s) /\ ReportOK(s, b)
BY DEF PlanOK, FollowOK, EndOK, ReportOK

\* A reconcile in which no handler acts, and the reasons Initializing, Paused
\* and Completed.
LEMMA WaitingFollow ==
  ASSUME FollowInv, CleanUpInv',
         \/ ReconcileIdle \/ ProgressingInitializing \/ ProgressingPaused
         \/ ProgressingCompleted
  PROVE  FollowInv'
<1>1. UNCHANGED <<rollout, wl, pods, ready, br>>
  BY DEF ReconcileIdle, ProgressingInitializing, ProgressingPaused, ProgressingCompleted,
         brVars
<1>2. /\ newStatus \in Statuses /\ StatusOK(newStatus) /\ ReportOK(newStatus, br)
      /\ CleanUpInv /\ RollingInv /\ StatusOK(status) /\ ReportOK(status, br)
      /\ wl \in Workloads /\ pods \in [Revisions -> Nat]
  BY NewStatusFollow, InvTypes DEF FollowInv, CleanUpInv, BatchReleaseTypeOK
<1>3. CASE ReconcileIdle
  BY <1>1, <1>2, <1>3, FollowWrite DEF ReconcileIdle
<1>4. CASE ProgressingInitializing
  <2> DEFINE s == Started(newStatus)
             t == [Started(newStatus) EXCEPT !.reason = "InRolling"]
  <2>1. status.phase = "Progressing" /\ status.reason = "Initializing"
    BY <1>4 DEF ProgressingInitializing, Progressing, Reconciling
  <2>2. ~br.exists
    BY <1>2, <2>1 DEF StatusOK, GoneOK, Gone
  <2>3. /\ s.phase = newStatus.phase /\ s.reason = "Initializing" /\ s.fin = "None"
        /\ t.phase = newStatus.phase /\ t.reason = "InRolling" /\ t.fin = "None"
        /\ t.hash = HashOf(steps) /\ t.idx = 1 /\ t.nxt = NextBatchIndex(1)
        /\ t.state = "Init" /\ t.pth = NoRevision /\ t.reps = 0
    BY <1>2, <2>1, NewStatusSame DEF Started, Statuses
  <2>4. Write(s) \/ Write(t)
    BY <1>4 DEF ProgressingInitializing
  <2>. HIDE DEF s, t
  <2>5. pods[wl.update] >= 0
    BY <1>2 DEF Workloads
  <2>6. ReportOK(s, br) /\ ReportOK(t, br)
    BY <2>2 DEF ReportOK, BatchOK
  <2>7. StatusOK(s)
    BY <1>2, <2>2, <2>3, NotRolling DEF StatusOK, GoneOK, Gone, ToNewOK, StyleOK, IsRolling
  <2>8. StatusOK(t)
    BY <1>2, <2>2, <2>3, <2>5
    DEF StatusOK, GoneOK, Gone, ToNewOK, StyleOK, PlanOK, FollowOK, EndOK, Run, Upgraded
  <2>. QED BY <1>1, <1>2, <2>4, <2>6, <2>7, <2>8, FollowWrite
<1>5. CASE ProgressingPaused
  <2> DEFINE s == [newStatus EXCEPT !.reason = "InRolling"]
  <2>1. status.phase = "Progressing" /\ status.reason = "Paused"
    BY <1>5 DEF ProgressingPaused, Progressing, Reconciling
  <2>2. /\ s.phase = newStatus.phase /\ s.reason = "InRolling" /\ newStatus.reason = "Paused"
        /\ s.sub = newStatus.sub /\ s.idx = newStatus.idx /\ s.nxt = newStatus.nxt
        /\ s.state = newStatus.state /\ s.hash = newStatus.hash /\ s.cr = newStatus.cr
        /\ s.pth = newStatus.pth /\ s.fin = newStatus.fin /\ s.reps = newStatus.reps
    BY <1>2, <2>1, NewStatusSame DEF Statuses
  <2>3. Write(s) \/ Write(newStatus)
    BY <1>5 DEF ProgressingPaused
  <2>. HIDE DEF s
  <2>4. StatusOK(s) /\ ReportOK(s, br)
    BY <1>2, <2>2
    DEF StatusOK, ReportOK, GoneOK, Gone, ToNewOK, StyleOK, PlanOK, FollowOK, EndOK, IsRolling
  <2>. QED BY <1>1, <1>2, <2>3, <2>4, FollowWrite
<1>6. CASE ProgressingCompleted
  <2> DEFINE s == [newStatus EXCEPT !.phase = "Healthy"]
  <2>1. status.phase = "Progressing" /\ status.reason = "Completed"
    BY <1>6 DEF ProgressingCompleted, Progressing, Reconciling
  <2>2. s.phase = "Healthy" /\ s.fin = status.fin /\ Write(s)
    BY <1>2, <1>6, <2>1, NewStatusSame DEF Statuses, ProgressingCompleted
  <2>3. ~br.exists /\ status.fin # "RouteTrafficToNew"
    BY <1>2, <2>1 DEF StatusOK, GoneOK, Gone, ToNewOK
  <2>. HIDE DEF s
  <2>4. StatusOK(s) /\ ReportOK(s, br)
    BY <1>2, <2>2, <2>3, NotRolling DEF StatusOK, GoneOK, Gone, ToNewOK, StyleOK, IsRolling
  <2>. QED BY <1>1, <1>2, <2>2, <2>4, FollowWrite
<1>. QED BY <1>3, <1>4, <1>5, <1>6

\* A rollout that rolls normally is at the workload's update revision.
LEMMA RollingRevision ==
  ASSUME CleanUpInv, NormalRolling, ~RollbackInBatchPolicy
  PROVE  status.cr = wl.update
<1>1. Progressing("InRolling") /\ ~isContinuousRelease /\ ~isRollingBackDirectly
  BY DEF NormalRolling, Rolling
<1>2. status.cr # NoRevision
  BY <1>1, RollingClean
<1>. QED BY <1>1, <1>2 DEF isContinuousRelease, isRollingBackDirectly

\* The special cases that only write the status.
LEMMA SpecialCasesFollow ==
  ASSUME FollowInv, CleanUpInv', Steady,
         \/ RollbackDirectly \/ RolloutPaused \/ RollbackInBatches
         \/ ContinuousRefused \/ PlanChanged \/ RollingDone
  PROVE  FollowInv'
<1>1. Progressing("InRolling") /\ UNCHANGED <<rollout, wl, pods, ready, br>>
  BY DEF RollbackDirectly, RolloutPaused, RollbackInBatches, ContinuousRefused,
         Continuous, PlanChanged, RollingDone, NormalRolling, Rolling, brVars
<1>2. /\ newStatus \in Statuses /\ StatusOK(newStatus) /\ ReportOK(newStatus, br)
      /\ CleanUpInv /\ RollingInv /\ StatusOK(status) /\ ReportOK(status, br)
  BY NewStatusFollow DEF FollowInv, CleanUpInv
<1>3. /\ status.phase = "Progressing" /\ status.reason = "InRolling" /\ status.sub
      /\ status.fin \in {"None", "RouteTrafficToStable", "ReleaseWorkloadControl"}
      /\ IsRolling(status)
  BY <1>1, <1>2, RollingClean DEF IsRolling
<1>4. /\ newStatus.phase \in {"Progressing", "Disabling", "Terminating"}
      /\ newStatus.reason = "InRolling" /\ newStatus.sub = status.sub
      /\ newStatus.idx = status.idx /\ newStatus.state = status.state
      /\ newStatus.cr = status.cr /\ newStatus.fin = status.fin
  BY <1>2, <1>3, NewStatusSame
<1>5. CASE RollbackDirectly
  <2> DEFINE s == [newStatus EXCEPT !.cr = wl.update, !.reason = "Cancelling"]
  <2>1. /\ s.phase = newStatus.phase /\ s.reason = "Cancelling" /\ s.fin = status.fin
        /\ s.sub = status.sub /\ Write(s)
    BY <1>2, <1>4, <1>5 DEF Statuses, RollbackDirectly
  <2>. HIDE DEF s
  <2>2. StatusOK(s) /\ ReportOK(s, br)
    BY <1>2, <1>3, <1>4, <2>1, NotRolling
    DEF StatusOK, GoneOK, Gone, ToNewOK, StyleOK, IsRolling
  <2>. QED BY <1>1, <1>2, <2>1, <2>2, FollowWrite
<1>6. CASE RolloutPaused
  <2> DEFINE s == [newStatus EXCEPT !.reason = "Paused"]
  <2>1. /\ s.phase = newStatus.phase /\ s.reason = "Paused"
        /\ s.sub = newStatus.sub /\ s.idx = newStatus.idx /\ s.nxt = newStatus.nxt
        /\ s.state = newStatus.state /\ s.hash = newStatus.hash /\ s.cr = newStatus.cr
        /\ s.pth = newStatus.pth /\ s.fin = newStatus.fin /\ s.reps = newStatus.reps
        /\ Write(s)
    BY <1>2, <1>6 DEF Statuses, RolloutPaused
  <2>. HIDE DEF s
  <2>2. StatusOK(s) /\ ReportOK(s, br)
    BY <1>2, <1>4, <2>1
    DEF StatusOK, ReportOK, GoneOK, Gone, ToNewOK, StyleOK, PlanOK, FollowOK, EndOK, IsRolling
  <2>. QED BY <1>1, <1>2, <2>1, <2>2, FollowWrite
<1>7. ~RollbackInBatches
  BY DEF RollbackInBatches, isRollingBackInBatches, Steady
<1>8. CASE ContinuousRefused
  BY <1>1, <1>2, <1>8, FollowWrite DEF ContinuousRefused
<1>9. ~PlanChanged
  BY <1>2, <1>3 DEF PlanChanged, isRolloutPlanChanged, StatusOK, PlanOK
<1>10. CASE RollingDone
  <2> DEFINE s == [newStatus EXCEPT !.reason = "Finalising"]
  <2>1. /\ s.phase = newStatus.phase /\ s.reason = "Finalising" /\ s.fin = status.fin
        /\ s.sub = status.sub /\ s.cr = status.cr /\ Write(s)
    BY <1>2, <1>4, <1>10 DEF Statuses, RollingDone
  <2>2. status.cr = wl.update /\ status.state = "Completed"
    BY <1>2, <1>10, RollingRevision DEF RollingDone, Steady
  <2>3. Run(StepPods(Len(steps)))
    BY <1>2, <1>3, <2>2 DEF StatusOK, FollowOK, Upgraded
  <2>. HIDE DEF s
  <2>4. ~IsRolling(s)
    BY <2>1 DEF IsRolling
  <2>5. StatusOK(s) /\ ReportOK(s, br)
    BY <1>2, <1>3, <1>4, <2>1, <2>2, <2>3, <2>4
    DEF StatusOK, GoneOK, Gone, ToNewOK, StyleOK, PlanOK, FollowOK, EndOK, ReportOK
  <2>. QED BY <1>1, <1>2, <2>1, <2>5, FollowWrite
<1>. QED BY <1>5, <1>6, <1>7, <1>8, <1>9, <1>10

\* A reset is about a revision that is no longer the workload's.
LEMMA ResetFollow ==
  ASSUME FollowInv, CleanUpInv', ResetGateway \/ ResetRelease \/ ResetDone
  PROVE  FollowInv'
<1>1. /\ Progressing("InRolling") /\ UNCHANGED <<rollout, wl, pods, ready>>
      /\ isContinuousRelease
  BY DEF ResetGateway, ResetRelease, ResetDone, Continuous, Rolling, brVars
<1>2. /\ newStatus \in Statuses /\ StatusOK(newStatus)
      /\ CleanUpInv /\ RollingInv /\ StatusOK(status) /\ br \in BatchReleases
  BY NewStatusFollow, InvTypes DEF FollowInv, CleanUpInv
<1>3. /\ status.phase = "Progressing" /\ status.reason = "InRolling" /\ status.sub
      /\ status.fin \in {"None", "RouteTrafficToStable", "ReleaseWorkloadControl"}
  BY <1>1, <1>2, RollingClean
<1>4. /\ newStatus.phase \in {"Progressing", "Disabling", "Terminating"}
      /\ newStatus.reason = "InRolling" /\ newStatus.sub = status.sub
      /\ newStatus.idx = status.idx /\ newStatus.nxt = status.nxt
      /\ newStatus.hash = status.hash /\ newStatus.cr = status.cr
      /\ newStatus.fin = status.fin
  BY <1>2, <1>3, NewStatusSame
<1>5. status.cr # wl.update
  BY <1>1 DEF isContinuousRelease
<1>6. ReportOK(status, br') /\ ReportOK(newStatus, br')
  BY <1>4, <1>5 DEF ReportOK
<1>7. CASE ResetGateway \/ ResetRelease
  <2> DEFINE f == newStatus.fresh \/ route' # route
             g == newStatus.fresh \/ ResetStep = "RouteTrafficToStable"
             s == [newStatus EXCEPT !.fin = "RouteTrafficToStable", !.fresh = f]
             t == [newStatus EXCEPT !.fin = "ReleaseWorkloadControl", !.fresh = g]
             Kept(x) == /\ x.phase = newStatus.phase /\ x.reason = "InRolling"
                        /\ x.sub = status.sub /\ x.idx = status.idx /\ x.nxt = status.nxt
                        /\ x.hash = status.hash /\ x.cr = status.cr
                        /\ x.fin \notin {"END", "RouteTrafficToNew"}
  <2>1. Kept(s) /\ Kept(t) /\ Kept(newStatus)
    BY <1>2, <1>3, <1>4 DEF Statuses
  <2>2. Write(s) \/ Write(t) \/ Write(newStatus)
    BY <1>7 DEF ResetGateway, ResetRelease
  <2>3. br'.exists => br.exists
    BY <1>2, <1>7
    DEF ResetGateway, ResetRelease, RemoveBatchRelease, NoBatchRelease, BatchReleases, brVars
  <2>. HIDE DEF s, t
  <2>4. ASSUME NEW x, Kept(x) PROVE StatusOK(x) /\ ReportOK(x, br')
    BY <1>2, <1>3, <1>4, <1>5, <2>4
    DEF StatusOK, ReportOK, GoneOK, Gone, ToNewOK, StyleOK, PlanOK, FollowOK, EndOK, IsRolling
  <2>. QED BY <1>1, <1>6, <2>1, <2>2, <2>3, <2>4, FollowWrite
<1>8. CASE ResetDone
  <2> DEFINE s == [Clear(newStatus) EXCEPT !.reason = "Initializing"]
  <2>1. s.phase = newStatus.phase /\ s.reason = "Initializing" /\ s.fin = "None"
    BY <1>2 DEF Clear, Statuses
  <2>2. ~br.exists /\ br' = br
    BY <1>3, <1>8 DEF ResetDone, ResetStep, brVars
  <2>3. Write(s)
    BY <1>8 DEF ResetDone
  <2>. HIDE DEF s
  <2>4. StatusOK(s) /\ ReportOK(s, br')
    BY <1>2, <2>1, <2>2, NotRolling DEF StatusOK, GoneOK, Gone, ToNewOK, StyleOK, IsRolling
  <2>. QED BY <1>1, <1>6, <2>2, <2>3, <2>4, FollowWrite
<1>. QED BY <1>7, <1>8


-----------------------------------------------------------------------------
(* runCanary.                                                              *)

\* What runCanary starts from: the stored status, the replicas that the
\* BatchRelease reports and the template hash of the workload.
LEMMA SyncedFollow ==
  ASSUME FollowInv, Steady, RunCanary
  PROVE  /\ synced \in Statuses /\ status \in Statuses
         /\ Progressing("InRolling") /\ IsRolling(status) /\ status.cr = wl.update
         /\ FollowOK(status) /\ PlanOK(status) /\ BatchOK(br)
         /\ StatusOK(newStatus) /\ newStatus.phase \in {"Progressing", "Disabling", "Terminating"}
         /\ synced.phase = newStatus.phase /\ synced.reason = "InRolling" /\ synced.sub
         /\ synced.idx = status.idx /\ synced.nxt = status.nxt
         /\ synced.state = status.state /\ synced.hash = status.hash
         /\ synced.cr = status.cr /\ synced.fin = "None"
         /\ synced.pth = wl.update /\ Run(synced.reps)
<1>1. /\ CleanUpInv /\ RollingInv /\ StatusOK(status) /\ ReportOK(status, br)
      /\ StatusOK(newStatus) /\ status \in Statuses /\ newStatus \in Statuses
      /\ synced \in Statuses /\ br \in BatchReleases /\ wl \in Workloads
  BY NewStatusFollow, InvTypes, SyncedType DEF FollowInv, CleanUpInv
<1>2. NormalRolling /\ Progressing("InRolling") /\ ~isContinuousRelease
  BY DEF RunCanary, NormalRolling, Rolling
<1>3. /\ status.phase = "Progressing" /\ status.reason = "InRolling" /\ status.sub
      /\ status.fin = "None" /\ IsRolling(status) /\ status.cr = wl.update
  BY <1>1, <1>2, RollingClean, RollingRevision DEF IsRolling, Steady
<1>4. FollowOK(status) /\ PlanOK(status) /\ BatchOK(br)
  BY <1>1, <1>3 DEF StatusOK, ReportOK
<1>5. /\ newStatus.phase \in {"Progressing", "Disabling", "Terminating"}
      /\ newStatus.reason = status.reason /\ newStatus.sub = status.sub
      /\ newStatus.idx = status.idx /\ newStatus.nxt = status.nxt
      /\ newStatus.state = status.state /\ newStatus.hash = status.hash
      /\ newStatus.cr = status.cr /\ newStatus.pth = status.pth
      /\ newStatus.fin = status.fin /\ newStatus.reps = status.reps
  BY <1>1, <1>3, NewStatusSame
<1>6. /\ synced.phase = newStatus.phase /\ synced.reason = newStatus.reason
      /\ synced.sub = newStatus.sub
      /\ synced.idx = newStatus.idx /\ synced.nxt = newStatus.nxt
      /\ synced.state = newStatus.state /\ synced.hash = newStatus.hash
      /\ synced.cr = newStatus.cr /\ synced.fin = newStatus.fin
      /\ synced.pth = IF newStatus.pth = NoRevision THEN wl.update ELSE newStatus.pth
      /\ synced.reps = IF br.exists THEN br.updated ELSE newStatus.reps
  BY <1>1 DEF synced, Statuses
<1>7. synced.pth = wl.update /\ Run(synced.reps)
  BY <1>3, <1>4, <1>5, <1>6 DEF FollowOK, BatchOK
<1>. QED BY <1>1, <1>2, <1>3, <1>4, <1>5, <1>6, <1>7

\* What a step of runCanary may write.
StepTo(s) ==
  /\ s.phase = newStatus.phase /\ s.reason = "InRolling" /\ s.sub /\ s.fin = "None"
  /\ s.hash = status.hash /\ s.cr = status.cr
  /\ s.pth = wl.update /\ s.reps = synced.reps
  /\ NoJumps => s.nxt = NextBatchIndex(s.idx)
  /\ s.state \in Upgraded =>
       Run(StepPods(s.idx)) /\ (NoJumps => RunReady(StepPods(s.idx)))
  /\ s.state = "Completed" => s.idx = Len(steps)

\* Whatever it is, the invariant holds behind it.
LEMMA StepWrite ==
  ASSUME FollowInv, CleanUpInv', Steady, RunCanary,
         UNCHANGED <<rollout, wl, pods, ready>>, BatchOK(br'),
         NEW s, StepTo(s), Write(s)
  PROVE  FollowInv'
<1>1. /\ IsRolling(status) /\ status.cr = wl.update /\ PlanOK(status)
      /\ StatusOK(newStatus) /\ newStatus.phase \in {"Progressing", "Disabling", "Terminating"}
      /\ Run(synced.reps) /\ Progressing("InRolling")
  BY SyncedFollow
<1>2. ~Gone(s)
  BY <1>1 DEF StepTo, Gone
<1>3. ~Gone(status)
  BY <1>1, RollingClean DEF Gone, FollowInv
<1>4. StatusOK(s)
  BY <1>1, <1>2
  DEF StepTo, StatusOK, GoneOK, ToNewOK, StyleOK, PlanOK, FollowOK, EndOK, IsRolling
<1>5. ReportOK(s, br') /\ ReportOK(status, br')
  BY DEF ReportOK
<1>. QED BY <1>2, <1>3, <1>4, <1>5, FollowWrite

\* The synced status with another state of the step, in Upgraded only when the
\* step is upgraded.
LEMMA StepStays ==
  ASSUME FollowInv, Steady, RunCanary, NEW s,
         s.phase = synced.phase, s.reason = synced.reason, s.sub = synced.sub,
         s.fin = synced.fin, s.hash = synced.hash, s.cr = synced.cr, s.pth = wl.update,
         s.reps = synced.reps, s.idx = synced.idx, s.nxt = synced.nxt,
         s.state \in Upgraded => status.state \in Upgraded \/ RunReady(StepPods(status.idx)),
         s.state = "Completed" => status.idx = Len(steps)
  PROVE  StepTo(s)
<1>1. /\ IsRolling(status) /\ status.cr = wl.update /\ PlanOK(status) /\ FollowOK(status)
      /\ synced.phase = newStatus.phase /\ synced.reason = "InRolling" /\ synced.sub
      /\ synced.idx = status.idx /\ synced.nxt = status.nxt
      /\ synced.hash = status.hash
      /\ synced.cr = status.cr /\ synced.fin = "None"
  BY SyncedFollow
<1>. QED BY <1>1 DEF StepTo, PlanOK, FollowOK, RunReady

\* What the rollout writes into the BatchRelease leaves its report true.
LEMMA StepReport ==
  ASSUME FollowInv, Steady, StepStep
  PROVE  RunCanary /\ UNCHANGED <<rollout, wl, pods, ready>> /\ BatchOK(br')
<1>1. RunCanary
  BY DEF StepStep, StepJump, StepCleanUp, StepInitUnpin, StepInitPin, StepInitSkip,
         StepUpgradeApply, StepUpgradeWait, StepUpgradeDone, StepRoute, StepRouted,
         StepAnalysed, StepPaused, StepReady, Upgrading, InState
<1>2. /\ BatchOK(br) /\ br \in BatchReleases /\ wl \in Workloads
      /\ pods \in [Revisions -> Nat]
  BY <1>1, SyncedFollow, InvTypes DEF FollowInv, CleanUpInv, BatchReleaseTypeOK
<1>3. /\ BatchOK(syncedBR) /\ syncedBR \in BatchReleases
  <2>1. /\ syncedBR.exists = br.exists /\ syncedBR.updated = br.updated
        /\ syncedBR.observed => br.observed
        /\ syncedBR.batch = br.batch /\ syncedBR.part = br.part
        /\ syncedBR.state = br.state /\ syncedBR.batches = br.batches
    BY <1>2 DEF syncedBR, BatchReleases
  <2>2. syncedBR \in BatchReleases
    BY InvTypes, SyncedBRType DEF FollowInv, CleanUpInv
  <2>. QED BY <1>2, <2>1, <2>2 DEF BatchOK
<1>4. CASE SyncBatchRelease
  BY <1>1, <1>3, <1>4
  DEF SyncBatchRelease, StepStep, StepJump, StepCleanUp, StepInitUnpin, StepInitPin,
      StepInitSkip, StepUpgradeApply, StepUpgradeWait, StepUpgradeDone, StepRoute,
      StepRouted, StepAnalysed, StepPaused, StepReady
<1>5. CASE StepUpgradeApply
  <2>1. UNCHANGED <<rollout, wl, pods, ready>>
    BY <1>5 DEF StepUpgradeApply
  <2>2. CASE SpecUpToDate
    <3>1. br' = [syncedBR EXCEPT !.anno = RollbackAnnotation]
      BY <1>5, <2>2 DEF StepUpgradeApply
    <3>2. /\ br'.exists = syncedBR.exists /\ br'.updated = syncedBR.updated
          /\ br'.observed = syncedBR.observed
          /\ br'.batch = syncedBR.batch /\ br'.part = syncedBR.part
          /\ br'.state = syncedBR.state /\ br'.batches = syncedBR.batches
      BY <1>3, <3>1 DEF BatchReleases
    <3>. QED BY <1>1, <1>3, <2>1, <3>2 DEF BatchOK
  <2>3. CASE ~SpecUpToDate
    <3> DEFINE b == IF br.exists THEN br ELSE [NoBatchRelease EXCEPT !.exists = TRUE]
    <3>1. br' = [b EXCEPT !.batches = Batches, !.part = status.idx - 1,
                          !.wait = FALSE, !.rid = RolloutID,
                          !.anno = RollbackAnnotation,
                          !.observed = FALSE, !.seen = FALSE]
      BY <1>5, <2>3 DEF StepUpgradeApply
    <3>2. b.updated = IF br.exists THEN br.updated ELSE 0
      BY DEF NoBatchRelease
    <3>3. br'.updated = b.updated /\ ~br'.observed
      BY <1>2, <3>1 DEF BatchReleases, NoBatchRelease
    <3>4. Run(b.updated)
      BY <1>2, <3>2 DEF BatchOK, Run, Workloads
    <3>. QED BY <1>1, <2>1, <3>3, <3>4 DEF BatchOK
  <2>. QED BY <2>2, <2>3
<1>. QED
  BY <1>4, <1>5
  DEF StepStep, StepJump, StepCleanUp, StepInitUnpin, StepInitPin, StepInitSkip,
      StepUpgradeWait, StepUpgradeDone, StepRoute, StepRouted, StepAnalysed,
      StepPaused, StepReady

\* A batch that is ready at the partition of the step runs the pods of the step.
LEMMA UpgradedPods ==
  ASSUME FollowInv, Steady, RunCanary, StepUpgraded
  PROVE  RunReady(StepPods(status.idx))
<1>1. /\ BatchOK(br) /\ br \in BatchReleases /\ status \in Statuses
      /\ status.idx \in 1 .. Len(steps)
  BY SyncedFollow, InvTypes, RollingFacts DEF FollowInv, CleanUpInv
<1>2. /\ br.exists /\ br.batches = Batches /\ br.part = status.idx - 1
      /\ br.state = "Ready" /\ br.batch + 1 >= status.idx /\ syncedBR.observed
  BY DEF StepUpgraded, BatchReleaseUpToDate, SpecUpToDate
<1>3. br.observed
  BY <1>1, <1>2 DEF syncedBR, BatchReleases
<1>4. br.batch + 1 = status.idx
  BY <1>1, <1>2, <1>3 DEF BatchOK, BatchReleases, Counts
<1>5. RunReady(Lesser(Replicas, Batches[status.idx]))
  BY <1>1, <1>2, <1>3, <1>4 DEF BatchOK
<1>6. Batches[status.idx] = steps[status.idx].replicas
  BY <1>1, InvTypes DEF Batches, FollowInv, CleanUpInv, Rollouts, steps, PlanAssumption
<1>. QED BY <1>5, <1>6 DEF StepPods

\* Every step of runCanary preserves the invariant.
LEMMA StepStepFollow ==
  ASSUME FollowInv, CleanUpInv', Steady, StepStep
  PROVE  FollowInv'
<1>1. RunCanary /\ UNCHANGED <<rollout, wl, pods, ready>> /\ BatchOK(br')
  BY StepReport
<1>2. /\ synced \in Statuses /\ status \in Statuses
      /\ IsRolling(status) /\ status.cr = wl.update /\ FollowOK(status) /\ PlanOK(status)
      /\ synced.phase = newStatus.phase /\ synced.reason = "InRolling" /\ synced.sub
      /\ synced.idx = status.idx /\ synced.nxt = status.nxt
      /\ synced.state = status.state /\ synced.hash = status.hash
      /\ synced.cr = status.cr /\ synced.fin = "None"
      /\ synced.pth = wl.update /\ Run(synced.reps)
  BY <1>1, SyncedFollow
<1>3. status.idx \in 1 .. Len(steps) /\ Len(steps) \in Nat /\ status.state # "Completed"
  BY <1>1, <1>2, RollingFacts, InvTypes
  DEF RunCanary, NormalRolling, Rolling, FollowInv, CleanUpInv, Rollouts, steps, PlanAssumption
<1> DEFINE At(x, f) == [synced EXCEPT !.state = x, !.fresh = f]
           Stays(x) == x \in Upgraded =>
                         status.state \in Upgraded \/ RunReady(StepPods(status.idx))
<1>4. ASSUME NEW x, NEW f, Stays(x), x = "Completed" => status.idx = Len(steps)
      PROVE  StepTo(At(x, f))
  <2>1. /\ At(x, f).phase = synced.phase /\ At(x, f).reason = synced.reason
        /\ At(x, f).sub = synced.sub /\ At(x, f).fin = synced.fin
        /\ At(x, f).hash = synced.hash /\ At(x, f).cr = synced.cr
        /\ At(x, f).pth = synced.pth /\ At(x, f).reps = synced.reps
        /\ At(x, f).idx = synced.idx /\ At(x, f).nxt = synced.nxt /\ At(x, f).state = x
    BY <1>2 DEF Statuses
  <2>. HIDE DEF At
  <2>. QED BY <1>1, <1>2, <1>4, <2>1, StepStays
<1>5. /\ synced = At(status.state, synced.fresh)
      /\ upgrading = IF status.state = "Init" THEN At("Upgrade", TRUE) ELSE synced
      /\ \A f : [synced EXCEPT !.fresh = f] = At(status.state, f)
      /\ \A x : [synced EXCEPT !.state = x] = At(x, synced.fresh)
  BY <1>2 DEF upgrading, Statuses
<1>. HIDE DEF At
<1>6. StepTo(synced) /\ StepTo(upgrading)
  <2>1. StepTo(At("Upgrade", TRUE)) /\ StepTo(At(status.state, synced.fresh))
    BY <1>3, <1>4 DEF Upgraded
  <2>. QED BY <1>5, <2>1
<1>7. \A f : StepTo(At(status.state, f))
  BY <1>3, <1>4
<1>8. CASE StepJump
  <2>1. Write(Jumped(synced)) /\ Jumps(synced)
    BY <1>8 DEF StepJump
  <2>2. ~NoJumps /\ status.nxt \in 1 .. Len(steps)
    BY <1>2, <2>1 DEF Jumps, PlanOK
  <2> DEFINE s == Jumped(synced)
  <2>3. /\ s.phase = synced.phase /\ s.reason = synced.reason
        /\ s.sub = synced.sub /\ s.fin = synced.fin
        /\ s.hash = synced.hash /\ s.cr = synced.cr
        /\ s.pth = synced.pth /\ s.reps = synced.reps /\ s.idx = status.nxt
        /\ s.state = IF steps[status.nxt].replicas = synced.reps
                     THEN "TrafficRouting" ELSE "Init"
    BY <1>2 DEF Jumped, Statuses
  <2>4. s.state \in Upgraded => Run(StepPods(s.idx))
    <3>1. pods[wl.update] \in Nat /\ Replicas \in Nat
      BY InvTypes, ReplicasAssumption DEF FollowInv, CleanUpInv, BatchReleaseTypeOK, Workloads
    <3>2. synced.reps \in Nat
      BY <1>2 DEF Statuses, Counts
    <3>. QED BY <1>2, <2>3, <3>1, <3>2 DEF Upgraded, Run, StepPods, Lesser
  <2>. HIDE DEF s
  <2>5. StepTo(s)
    BY <1>2, <2>2, <2>3, <2>4 DEF StepTo
  <2>. QED BY <1>1, <2>1, <2>5, StepWrite DEF s
<1>9. CASE StepCleanUp \/ StepRoute
  <2> DEFINE f == synced.fresh \/ stableSel' # stableSel \/ route' # route
             g == synced.fresh \/ DoTrafficRoutingPatches(synced.sr, synced.pth, synced.fresh)
  <2>1. Write(At(status.state, f)) \/ Write(At(status.state, g))
    <3>1. CASE StepCleanUp
      <4>1. Write([synced EXCEPT !.fresh = f])
        BY <3>1 DEF StepCleanUp
      <4>. HIDE DEF f
      <4>. QED BY <1>5, <4>1
    <3>2. CASE StepRoute
      <4>1. Write([synced EXCEPT !.fresh = g])
        BY <3>2 DEF StepRoute
      <4>. HIDE DEF g
      <4>. QED BY <1>5, <4>1
    <3>. QED BY <1>9, <3>1, <3>2
  <2>. HIDE DEF f, g
  <2>. QED BY <1>1, <1>7, <2>1, StepWrite
<1>10. CASE StepInitUnpin \/ StepInitPin
  <2>1. Write(synced)
    BY <1>10 DEF StepInitUnpin, StepInitPin
  <2>. QED BY <1>1, <1>6, <2>1, StepWrite
<1>11. CASE StepInitSkip
  <2>1. Write(At("Upgrade", synced.fresh))
    BY <1>5, <1>11 DEF StepInitSkip
  <2>2. StepTo(At("Upgrade", synced.fresh))
    BY <1>4 DEF Upgraded
  <2>. QED BY <1>1, <2>1, <2>2, StepWrite
<1>12. CASE StepUpgradeApply \/ StepUpgradeWait
  <2>1. Write(upgrading)
    BY <1>12 DEF StepUpgradeApply, StepUpgradeWait
  <2>. QED BY <1>1, <1>6, <2>1, StepWrite
<1>13. CASE StepUpgradeDone
  <2>1. StepUpgraded
    BY <1>13 DEF StepUpgradeDone
  <2>2. RunReady(StepPods(status.idx))
    BY <1>1, <2>1, UpgradedPods
  <2> DEFINE x == IF ReplacesAllPods(status.idx) THEN "MetricsAnalysis" ELSE "TrafficRouting"
             s == [upgrading EXCEPT !.pth = wl.update, !.fresh = TRUE, !.state = x]
  <2>3. s = At(x, TRUE)
    BY <1>2, <1>5 DEF Statuses, At
  <2>4. StepTo(At(x, TRUE))
    BY <1>4, <2>2
  <2>5. Write(s)
    BY <1>13 DEF StepUpgradeDone
  <2>. QED BY <1>1, <2>3, <2>4, <2>5, StepWrite
<1>14. CASE StepRouted \/ StepAnalysed \/ StepPaused
  <2>1. status.state \in Upgraded
    BY <1>14 DEF StepRouted, StepAnalysed, StepPaused, InState, Upgraded
  <2>2. PICK x \in {"MetricsAnalysis", "Paused", "Ready"}, f \in {TRUE, synced.fresh} :
          Write(At(x, f))
    <3>1. CASE StepRouted
      BY <3>1 DEF StepRouted, At
    <3>2. CASE StepAnalysed
      BY <1>5, <3>2 DEF StepAnalysed
    <3>3. CASE StepPaused
      BY <1>2, <1>5, <3>3 DEF StepPaused, At, InState
    <3>. QED BY <1>14, <3>1, <3>2, <3>3
  <2>3. StepTo(At(x, f))
    BY <1>4, <2>1
  <2>. QED BY <1>1, <2>2, <2>3, StepWrite
<1>15. CASE StepReady
  <2>1. status.state = "Ready"
    BY <1>15 DEF StepReady, InState
  <2> DEFINE s == [synced EXCEPT !.idx = @ + 1, !.fresh = TRUE, !.state = "Init",
                                 !.nxt = NextBatchIndex(status.idx + 1)]
  <2>2. CASE status.idx < Len(steps)
    <3>1. Write(s)
      BY <1>15, <2>2 DEF StepReady
    <3>2. /\ s.phase = synced.phase /\ s.reason = synced.reason
          /\ s.sub = synced.sub /\ s.fin = synced.fin
          /\ s.hash = synced.hash /\ s.cr = synced.cr
          /\ s.pth = synced.pth /\ s.reps = synced.reps /\ s.idx = status.idx + 1
          /\ s.state = "Init" /\ s.nxt = NextBatchIndex(status.idx + 1)
      BY <1>2 DEF Statuses
    <3>. HIDE DEF s
    <3>3. StepTo(s)
      BY <1>2, <3>2 DEF StepTo, Upgraded
    <3>. QED BY <1>1, <3>1, <3>3, StepWrite
  <2>3. CASE status.idx = Len(steps)
    <3>1. Write(At("Completed", TRUE))
      BY <1>3, <1>15, <2>3 DEF StepReady, At
    <3>2. StepTo(At("Completed", TRUE))
      BY <1>4, <2>1, <2>3 DEF Upgraded
    <3>. QED BY <1>1, <3>1, <3>2, StepWrite
  <2>. QED BY <1>3, <2>2, <2>3
<1>. QED
  BY <1>8, <1>9, <1>10, <1>11, <1>12, <1>13, <1>14, <1>15 DEF StepStep

-----------------------------------------------------------------------------
(* Finalising.                                                             *)

\* Only the sequence of a rollout that succeeds starts with all traffic.
LEMMA StartsToNew ==
  ASSUME NEW why, NextTask(why, "None") = "RouteTrafficToNew"
  PROVE  why = "success"
<1>1. NextTask(why, "None") = TaskSequence(why)[1]
  BY Zenon DEF NextTask
<1>. QED BY <1>1 DEF TaskSequence

\* When a sequence ends the BatchRelease is gone; a termination may take the
\* shorter sequence up behind it.
LEMMA EndedGone ==
  ASSUME FollowInv, NEW why, RunsFor(why), ~NothingToFinalise, TaskDone(Task(why)),
         status.phase = "Progressing" => wl.consistent,
         status.phase # "Terminating", NextTask(why, status.fin) = "END"
  PROVE  ~br.exists
<1>1. CleanUpInv /\ RollingInv /\ StatusOK(status) /\ status \in Statuses
  BY InvTypes DEF FollowInv, CleanUpInv
<1>2. CASE status.phase = "Progressing"
  <2> DEFINE s == [phase |-> "Progressing", reason |-> "Completed", fin |-> "END",
                   sub |-> TRUE]
  <2>1. s.phase = "Progressing" /\ s.reason = "Completed" /\ s.fin = "END" /\ s.sub
    OBVIOUS
  <2>. HIDE DEF s
  <2>2. SequenceOK(s, Achieved)
    BY <1>1, <1>2, <2>1, TaskDoneClean
  <2>. QED BY <2>1, <2>2 DEF SequenceOK, Achieved, Effects
<1>3. CASE status.phase = "Disabling"
  <2>1. ~BlueGreen /\ why # "rollback" /\ status.fin \in FinalisingSteps
    BY <1>1, <1>3 DEF StatusOK, StyleOK, RunsFor, Statuses
  <2>2. status.fin # "RouteTrafficToNew" /\ status.fin # "END"
    BY <1>1, <2>1 DEF CleanUpInv, DrainedOK, NothingToFinalise
  <2>3. status.fin = "ReleaseWorkloadControl"
    BY <2>1, <2>2, TaskOrder DEF FinalisingSteps
  <2>. QED BY <2>3 DEF Task, TaskDone
<1>. QED BY <1>2, <1>3 DEF RunsFor

\* A call of doFinalising that writes the status s.
LEMMA FinaliseFollow ==
  ASSUME FollowInv, CleanUpInv', UNCHANGED <<rollout, pods, ready>>,
         RemoveProgressingAnnotation \/ UNCHANGED wl, br'.exists => br.exists,
         NEW why, RunsFor(why), NEW s, Write(s), ~IsRolling(s),
         GoneOK(s), ToNewOK(s), StyleOK(s), EndOK(s)
  PROVE  FollowInv'
<1>1. wl'.update = wl.update /\ wl'.stable = wl.stable
  BY InvTypes DEF FollowInv, CleanUpInv, RemoveProgressingAnnotation, Workloads
<1>2. PlanOK(s) /\ FollowOK(s) /\ ReportOK(s, br') /\ ReportOK(status, br')
  BY DEF PlanOK, FollowOK, ReportOK, RunsFor, IsRolling
<1>. QED BY <1>1, <1>2, FollowWrite DEF StatusOK

\* A call that leaves the sequence at the task t.
LEMMA FinaliseAt ==
  ASSUME FollowInv, NEW why, RunsFor(why), status.sub, NEW t,
         t \notin {"None", "END"}, t = "RouteTrafficToNew" => status.reason = "Finalising",
         NEW f
  PROVE  LET s == [newStatus EXCEPT !.fin = t, !.fresh = f] IN
         ~IsRolling(s) /\ GoneOK(s) /\ ToNewOK(s) /\ StyleOK(s) /\ EndOK(s)
<1> DEFINE s == [newStatus EXCEPT !.fin = t, !.fresh = f]
<1>1. /\ RollingInv /\ newStatus \in Statuses /\ StatusOK(newStatus)
  BY NewStatusFollow DEF FollowInv, CleanUpInv
<1>2. /\ newStatus.reason = status.reason /\ newStatus.sub = status.sub
      /\ newStatus.phase \in {"Progressing", "Terminating", "Disabling"}
      /\ newStatus.phase = "Progressing" => status.phase = "Progressing"
  BY <1>1, NewStatusCore DEF RunsFor, SameCore
<1>3. /\ s.phase = newStatus.phase /\ s.reason = newStatus.reason /\ s.sub = newStatus.sub
      /\ s.cr = newStatus.cr /\ s.fin = t
  BY <1>1 DEF Statuses
<1>. HIDE DEF s
<1>4. ~IsRolling(s) /\ GoneOK(s)
  BY <1>2, <1>3 DEF IsRolling, GoneOK, Gone, RunsFor
<1>5. ToNewOK(s) /\ StyleOK(s) /\ EndOK(s)
  BY <1>1, <1>2, <1>3 DEF ToNewOK, StyleOK, EndOK, StatusOK
<1>. QED BY <1>4, <1>5 DEF s

\* A call of doFinalising preserves the invariant.
LEMMA DoFinalisingFollow ==
  ASSUME FollowInv, CleanUpInv', NEW why, RunsFor(why),
         status.phase = "Progressing" => wl.consistent,
         NEW done, EndOf(done), ~IsRolling(done), StyleOK(done),
         ~(done.phase = "Progressing" /\ done.reason = "Finalising"),
         status.phase = "Terminating" => done.phase = "Terminating",
         doFinalising(why, done)
  PROVE  FollowInv'
<1>1. /\ CleanUpInv /\ RollingInv /\ StatusOK(status) /\ status \in Statuses
      /\ rollout' = rollout /\ status.fin \in FinalisingSteps
  BY InvTypes DEF FollowInv, CleanUpInv, doFinalising, Statuses
<1>2. CASE \E task \in FinalisingSteps : FinaliseRetry(why, task)
  <2>1. PICK t \in FinalisingSteps : FinaliseRetry(why, t)
    BY <1>2
  <2>2. t = Task(why) /\ ~NothingToFinalise /\ status.sub
    BY <2>1 DEF FinaliseRetry, NothingToFinalise
  <2>3. t \notin {"None", "END"} /\ (t = "RouteTrafficToNew" => status.reason = "Finalising")
    <3>1. CASE status.fin = "None"
      BY <1>1, <2>2, <3>1, TaskOrder, StartsToNew DEF Task, RunsFor
    <3>2. CASE status.fin # "None"
      BY <1>1, <2>2, <3>2 DEF Task, NothingToFinalise, StatusOK, ToNewOK
    <3>. QED BY <3>1, <3>2
  <2>4. br'.exists => br.exists
    BY <1>1, <2>1, RetryRelease
  <2> DEFINE f == newStatus.fresh \/ status.fin = "None"
             s == [newStatus EXCEPT !.fin = t, !.fresh = f]
  <2>5. Write(s) /\ RemoveProgressingAnnotation /\ UNCHANGED <<pods, ready>>
    BY <2>1 DEF FinaliseRetry
  <2>. HIDE DEF f
  <2>6. ~IsRolling(s) /\ GoneOK(s) /\ ToNewOK(s) /\ StyleOK(s) /\ EndOK(s)
    BY <2>2, <2>3, FinaliseAt
  <2>. QED BY <1>1, <2>4, <2>5, <2>6, FinaliseFollow
<1>3. CASE FinaliseNext(why)
  <2> DEFINE t == NextTask(why, status.fin)
             s == [newStatus EXCEPT !.fin = t, !.fresh = TRUE]
  <2>1. /\ ~NothingToFinalise /\ status.sub /\ t # "END" /\ RemoveProgressingAnnotation
        /\ Write(s) /\ UNCHANGED <<br, pods, ready>>
    BY <1>3 DEF FinaliseNext, NothingToFinalise
  <2>2. t # "None" /\ (t = "RouteTrafficToNew" => status.reason = "Finalising")
    BY <1>1, TaskOrder, StartsToNew DEF RunsFor
  <2>. HIDE DEF t
  <2>3. ~IsRolling(s) /\ GoneOK(s) /\ ToNewOK(s) /\ StyleOK(s) /\ EndOK(s)
    BY <2>1, <2>2, FinaliseAt
  <2>. QED BY <1>1, <2>1, <2>3, FinaliseFollow
<1>4. CASE FinaliseLast(why, done)
  <2> DEFINE s == [done EXCEPT !.fin = "END", !.fresh = TRUE]
  <2>1. /\ ~NothingToFinalise /\ TaskDone(Task(why)) /\ NextTask(why, status.fin) = "END"
        /\ RemoveProgressingAnnotation /\ Write(s) /\ UNCHANGED <<br, pods, ready>>
    BY <1>4 DEF FinaliseLast
  <2>2. s.phase = done.phase /\ s.reason = done.reason /\ s.sub = done.sub /\ s.fin = "END"
    BY DEF EndOf, Statuses
  <2>3. status.phase # "Terminating" => ~br.exists
    BY <2>1, EndedGone
  <2>4. GoneOK(s)
    BY <1>1, <2>1, <2>2, <2>3 DEF GoneOK, Gone
  <2>. HIDE DEF s
  <2>5. ~IsRolling(s) /\ ToNewOK(s) /\ StyleOK(s) /\ EndOK(s)
    BY <2>2 DEF IsRolling, ToNewOK, StyleOK, EndOK
  <2>. QED BY <1>1, <2>1, <2>4, <2>5, FinaliseFollow
<1>5. CASE FinaliseNothing(done)
  <2>1. /\ NothingToFinalise /\ Write(done) /\ UNCHANGED <<br, pods, ready>>
        /\ RemoveProgressingAnnotation \/ UNCHANGED wl
    BY <1>5 DEF FinaliseNothing
  <2>2. done.fin = status.fin
    BY DEF EndOf
  <2>3. status.phase # "Terminating" => ~br.exists
    BY <1>1, <2>1 DEF StatusOK, GoneOK, Gone, NothingToFinalise
  <2>4. GoneOK(done) /\ EndOK(done)
    BY <2>3 DEF GoneOK, Gone, EndOK
  <2>5. ToNewOK(done)
    <3>1. CASE status.phase = "Progressing"
      BY <1>1, <2>1, <2>2, <3>1
      DEF CleanUpInv, SequenceOK, InSequence, RunsFor, NothingToFinalise, ToNewOK
    <3>2. CASE status.phase = "Terminating"
      BY <1>1, <2>2, <3>2 DEF EndOf, StatusOK, ToNewOK
    <3>3. CASE status.phase = "Disabling"
      BY <1>1, <2>2, <3>3 DEF StatusOK, StyleOK, CleanUpInv, DrainedOK, ToNewOK
    <3>. QED BY <3>1, <3>2, <3>3 DEF RunsFor
  <2>. QED BY <1>1, <2>1, <2>4, <2>5, FinaliseFollow
<1>. QED BY <1>2, <1>3, <1>4, <1>5 DEF doFinalising

\* So do its four callers.
LEMMA FinalisingFollow ==
  ASSUME FollowInv, CleanUpInv',
         \/ ProgressingFinalising \/ ProgressingCancelling
         \/ RolloutTerminating \/ RolloutDisabling
  PROVE  FollowInv'
<1>1. /\ CleanUpInv /\ RollingInv /\ newStatus \in Statuses /\ newStatus.fin = status.fin
      /\ StatusOK(status) /\ StatusOK(newStatus)
  BY NewStatusClean, NewStatusFollow DEF FollowInv, CleanUpInv
<1>2. status.phase \in {"Progressing", "Terminating", "Disabling"} =>
        /\ newStatus.reason = status.reason /\ newStatus.sub = status.sub
        /\ newStatus.phase = "Progressing" => status.phase = "Progressing"
  BY <1>1, NewStatusClean, NewStatusCore
<1>3. ASSUME NEW o \in {"True", "False"}, status.phase = "Progressing"
      PROVE  LET d == [newStatus EXCEPT !.reason = "Completed", !.succeeded = o] IN
             EndOf(d) /\ d.reason = "Completed" /\ StyleOK(d)
  BY <1>1, <1>2, <1>3, Names DEF EndOf, Statuses, StyleOK, StatusOK
<1>4. CASE ProgressingFinalising
  <2> DEFINE d == [newStatus EXCEPT !.reason = "Completed", !.succeeded = "True"]
  <2>1. /\ status.phase = "Progressing" /\ wl.consistent /\ doFinalising("success", d)
        /\ RunsFor("success")
    BY <1>4 DEF ProgressingFinalising, Progressing, Reconciling, RunsFor
  <2>2. EndOf(d) /\ d.reason = "Completed" /\ StyleOK(d)
    BY <1>3, <2>1
  <2>. HIDE DEF d
  <2>. QED BY <2>1, <2>2, DoFinalisingFollow DEF IsRolling
<1>5. CASE ProgressingCancelling
  <2> DEFINE d == [newStatus EXCEPT !.reason = "Completed", !.succeeded = "False"]
  <2>1. /\ status.phase = "Progressing" /\ wl.consistent /\ doFinalising("rollback", d)
        /\ RunsFor("rollback")
    BY <1>5 DEF ProgressingCancelling, Progressing, Reconciling, RunsFor
  <2>2. EndOf(d) /\ d.reason = "Completed" /\ StyleOK(d)
    BY <1>3, <2>1
  <2>. HIDE DEF d
  <2>. QED BY <2>1, <2>2, DoFinalisingFollow DEF IsRolling
<1>6. CASE RolloutTerminating
  <2> DEFINE d == [newStatus EXCEPT !.terminated = TRUE]
  <2>1. status.phase = "Terminating" /\ doFinalising("delete", d) /\ RunsFor("delete")
    BY <1>6 DEF RolloutTerminating, Reconciling, RunsFor
  <2>2. newStatus.phase = "Terminating"
    BY <1>1, <2>1 DEF RollingInv, TerminatingIsDeleted, newStatus, Statuses
  <2>3. EndOf(d) /\ d.phase = "Terminating" /\ StyleOK(d)
    BY <1>1, <1>2, <2>1, <2>2, Members DEF EndOf, Statuses, StyleOK, StatusOK
  <2>. HIDE DEF d
  <2>. QED BY <2>1, <2>3, DoFinalisingFollow DEF IsRolling
<1>7. CASE RolloutDisabling
  <2> DEFINE d == [newStatus EXCEPT !.phase = "Disabled"]
  <2>1. status.phase = "Disabling" /\ doFinalising("disabled", d) /\ RunsFor("disabled")
    BY <1>7 DEF RolloutDisabling, Reconciling, RunsFor
  <2>2. ~BlueGreen
    BY <1>1, <2>1 DEF StatusOK, StyleOK
  <2>3. EndOf(d) /\ d.phase = "Disabled" /\ StyleOK(d)
    BY <1>1, <1>2, <2>1, <2>2, Names DEF EndOf, Statuses, StyleOK
  <2>. HIDE DEF d
  <2>. QED BY <2>1, <2>3, DoFinalisingFollow DEF IsRolling
<1>. QED BY <1>4, <1>5, <1>6, <1>7

-----------------------------------------------------------------------------
(* Below the rollout.                                                      *)

\* The pods of the update revision, and the ready ones, never get fewer.
LEMMA BelowGrows ==
  ASSUME RollingInv, Below
  PROVE  /\ UNCHANGED <<rollout, status>> /\ wl'.update = wl.update
         /\ pods[wl.update] \in Nat /\ pods'[wl.update] \in Nat
         /\ pods'[wl.update] >= pods[wl.update]
         /\ ready \in Nat /\ ready' \in Nat /\ ready' >= ready
<1>1. /\ wl \in Workloads /\ pods \in [Revisions -> Nat] /\ ready \in Nat
      /\ wl'.update = wl.update /\ wl.update \in Revisions
  BY InvTypes, BelowPods DEF BatchReleaseTypeOK, Workloads
<1>2. UNCHANGED <<rollout, status>>
  BY DEF Below, rolloutVars
<1>3. CASE BatchReleaseStep
  <2>1. UNCHANGED <<pods, ready>>
    BY <1>3 DEF BatchReleaseStep, BRObserve, BRPrepare, BRRevision, BRRollback, BRUpgrade,
                BRVerify, BRRecheck, BRResume, BRComplete, BRGone
  <2>. QED BY <1>1, <1>2, <2>1
<1>4. CASE PodUpdated
  <2>1. ready' = ready /\ pods'[wl.update] = pods[wl.update] + 1
    BY <1>1, <1>4 DEF PodUpdated, OtherPods
  <2>. QED BY <1>1, <1>2, <2>1
<1>5. CASE PodBecomesReady
  BY <1>1, <1>2, <1>5 DEF PodBecomesReady
<1>6. CASE PodScaledDown
  <2>1. ready' = ready /\ pods'[wl.update] = pods[wl.update]
    BY <1>1, <1>6 DEF PodScaledDown, OtherPods
  <2>. QED BY <1>1, <1>2, <2>1
<1>7. CASE Promoted \/ WorkloadObserved
  <2>1. UNCHANGED <<pods, ready>>
    BY <1>7 DEF Promoted, WorkloadObserved
  <2>. QED BY <1>1, <1>2, <2>1
<1>. QED BY <1>3, <1>4, <1>5, <1>6, <1>7 DEF Below, WorkloadStep

\* What a report says of a batch, as a number of pods.
LEMMA BatchPods ==
  ASSUME RollingInv, br.exists, br.part # NoPartition, br.batch <= br.part
  PROVE  /\ br.batch + 1 \in 1 .. Len(br.batches) /\ br.batches[br.batch + 1] \in Nat
         /\ Lesser(Replicas, br.batches[br.batch + 1]) \in Nat
<1>1. br \in BatchReleases /\ br.part + 1 \in 1 .. Len(br.batches)
  BY InvTypes DEF RollingInv, PartitionInRange
<1>2. br.batch + 1 \in 1 .. Len(br.batches) /\ br.batches \in Seq(Nat)
  BY <1>1 DEF BatchReleases, BatchLists, Counts, Indexes
<1>3. br.batches[br.batch + 1] \in Nat
  BY <1>2
<1>. QED BY <1>2, <1>3, ReplicasAssumption DEF Lesser

\* The BatchRelease controller publishes what is true.
LEMMA BelowReport ==
  ASSUME RollingInv, Below, BatchOK(br), br.exists => br.part # NoPartition
  PROVE  BatchOK(br)'
<1>1. /\ wl'.update = wl.update /\ br \in BatchReleases
      /\ pods[wl.update] \in Nat /\ pods'[wl.update] \in Nat
      /\ pods'[wl.update] >= pods[wl.update]
      /\ ready \in Nat /\ ready' \in Nat /\ ready' >= ready
  BY BelowGrows, InvTypes
<1>2. br'.exists => br.exists /\ br'.part = br.part /\ br'.batches = br.batches
  BY BelowRelease
<1>3. CASE WorkloadStep \/ BRResume
  <2>1. br' = br
    BY <1>3 DEF WorkloadStep, PodUpdated, PodBecomesReady, PodScaledDown, Promoted,
                WorkloadObserved, BRResume
  <2>2. br.exists => br.updated \in Nat
    BY <1>1 DEF BatchReleases, Counts
  <2>3. br.exists /\ br.observed =>
          Lesser(Replicas, br.batches[br.batch + 1]) \in Nat
    BY BatchPods DEF BatchOK
  <2>. QED BY <1>1, <2>1, <2>2, <2>3 DEF BatchOK, Run, RunReady
<1>4. CASE BRGone
  BY <1>1, <1>4 DEF BRGone, NoBatchRelease, BatchOK
<1>5. ASSUME br.exists, UNCHANGED <<pods, ready>>, br'.updated = pods[wl.update],
             br'.observed => br'.batch <= br.part,
             br'.observed /\ br'.state = "Ready" =>
               RunReady(Lesser(Replicas, br.batches[br'.batch + 1]))
      PROVE  BatchOK(br)'
  BY <1>1, <1>2, <1>5 DEF BatchOK, Run, RunReady
<1>6. CASE BRPrepare \/ BRRevision \/ BRComplete
  <2>1. br.exists /\ UNCHANGED <<pods, ready>>
    BY <1>6 DEF BRPrepare, BRRevision, BRComplete, Working, Unfinished
  <2>2. /\ br'.updated = pods[wl.update] /\ br'.observed = br.observed
        /\ br'.batch = br.batch /\ br'.state = br.state
    BY <1>1, <1>6 DEF BRPrepare, BRRevision, BRComplete, Report, BatchReleases
  <2>. QED BY <1>5, <2>1, <2>2 DEF BatchOK
<1>7. CASE BRRollback \/ BRUpgrade
  <2>1. br.exists /\ UNCHANGED <<pods, ready>>
    BY <1>7 DEF BRRollback, BRUpgrade, Processing, Working, Unfinished
  <2>2. /\ br'.updated = pods[wl.update] /\ br'.observed = br.observed
        /\ br'.batch = br.batch /\ br'.state # "Ready"
    BY <1>1, <1>7 DEF BRRollback, BRUpgrade, Report, BatchReleases
  <2>. QED BY <1>5, <2>1, <2>2 DEF BatchOK
<1>8. CASE BRObserve
  <2>1. br.exists /\ UNCHANGED <<pods, ready>>
    BY <1>8 DEF BRObserve, Working, Unfinished
  <2>2. /\ br'.updated = pods[wl.update] /\ br'.state # "Ready"
        /\ br'.batch \in {0, Lesser(br.part, Len(br.batches) - 1)}
    BY <1>1, <1>8 DEF BRObserve, Report, BatchReleases
  <2>3. br.part + 1 \in 1 .. Len(br.batches) /\ br.part \in Int
    BY <1>1, <2>1 DEF RollingInv, PartitionInRange, BatchReleases, Indexes
  <2>4. br'.batch <= br.part
    BY <2>2, <2>3 DEF Lesser
  <2>. QED BY <1>5, <2>1, <2>2, <2>4
<1>9. CASE BRVerify
  <2>1. br.exists /\ br.observed /\ UNCHANGED <<pods, ready>>
    BY <1>9 DEF BRVerify, Processing, Working, Unfinished
  <2>2. /\ br'.updated = pods[wl.update] /\ br'.batch = br.batch
        /\ br'.state = "Ready" => BatchReady
    BY <1>1, <1>9 DEF BRVerify, Report, BatchReleases
  <2>3. br.batch <= br.part /\ br.batches[br.batch + 1] \in Nat
    BY <2>1, BatchPods DEF BatchOK
  <2>4. BatchReady => RunReady(Lesser(Replicas, br.batches[br.batch + 1]))
    <3>1. Greater(br.kept, 0) \in Nat
      BY <1>1 DEF Greater, BatchReleases, Indexes
    <3>2. DesiredUpdatedReplicas >= Lesser(Replicas, br.batches[br.batch + 1])
          /\ DesiredUpdatedReplicas \in Nat /\ Lesser(Replicas, br.batches[br.batch + 1]) \in Nat
      BY <2>3, <3>1, ReplicasAssumption DEF DesiredUpdatedReplicas, Lesser
    <3>. QED BY <1>1, <3>2 DEF BatchReady, RunReady, Run
  <2>. QED BY <1>5, <2>1, <2>2, <2>3, <2>4
<1>10. CASE BRRecheck
  <2>1. br.exists /\ br.observed /\ UNCHANGED <<pods, ready>>
    BY <1>10 DEF BRRecheck, Processing, Working, Unfinished
  <2>2. /\ br'.updated = pods[wl.update] /\ br'.state # "Ready"
        /\ br'.batch = br.batch \/ (br.batch < br.part /\ br'.batch = br.batch + 1)
    BY <1>1, <1>10 DEF BRRecheck, Report, BatchReleases
  <2>3. br'.batch <= br.part
    BY <1>1, <2>1, <2>2 DEF BatchOK, BatchReleases, Counts, Indexes
  <2>. QED BY <1>5, <2>1, <2>2, <2>3
<1>. QED
  BY <1>3, <1>4, <1>6, <1>7, <1>8, <1>9, <1>10 DEF Below, BatchReleaseStep

\* The number of pods a step asks for is a number.
LEMMA StepPodsType ==
  ASSUME RollingInv, NEW i \in 1 .. Len(steps)
  PROVE  StepPods(i) \in Nat
<1>1. steps[i].replicas \in Nat
  BY InvTypes, StepsType DEF StepSet
<1>. QED BY <1>1, ReplicasAssumption DEF StepPods, Lesser

\* More pods of the same revision leave the status true.
LEMMA GrowsFollow ==
  ASSUME RollingInv, StatusOK(status), UNCHANGED <<rollout, status>>,
         wl'.update = wl.update, wl'.stable \in {wl.stable, wl.update},
         br'.exists => br.exists,
         pods[wl.update] \in Nat, pods'[wl.update] \in Nat,
         pods'[wl.update] >= pods[wl.update],
         ready \in Nat, ready' \in Nat, ready' >= ready
  PROVE  StatusOK(status)'
<1>1. GoneOK(status)' /\ ToNewOK(status)' /\ StyleOK(status)'
  BY DEF StatusOK, GoneOK, Gone, ToNewOK, StyleOK
<1>2. PlanOK(status)'
  BY DEF StatusOK, PlanOK, IsRolling, steps, NextBatchIndex, HashOf
<1>3. ASSUME NEW n \in Nat PROVE (Run(n) => Run(n)') /\ (RunReady(n) => RunReady(n)')
  BY DEF Run, RunReady
<1>4. \A i : StepPods(i)' = StepPods(i)
  BY DEF StepPods, steps
<1>5. Len(steps) \in 1 .. Len(steps) /\ Len(steps)' = Len(steps) /\ steps' = steps
  BY InvTypes, PlanAssumption DEF Rollouts, steps
<1>6. FollowOK(status)'
  <2>1. IsRolling(status) => status.idx \in 1 .. Len(steps)
    BY DEF RollingInv, StepInRange, IsRolling
  <2>2. status.reps \in Nat
    BY InvTypes DEF Statuses, Counts
  <2>3. IsRolling(status) => StepPods(status.idx) \in Nat
    BY <2>1, StepPodsType
  <2>4. FollowOK(status)
    BY DEF StatusOK
  <2>. QED BY <1>3, <1>4, <1>5, <2>2, <2>3, <2>4 DEF FollowOK, IsRolling, RunReady, Run
<1>7. EndOK(status)'
  <2>1. StepPods(Len(steps)) \in Nat
    BY <1>5, StepPodsType
  <2>2. EndOK(status)
    BY DEF StatusOK
  <2>. QED BY <1>4, <1>5, <2>1, <2>2 DEF EndOK, Run
<1>. QED BY <1>1, <1>2, <1>6, <1>7 DEF StatusOK

\* The BatchRelease and the CloneSet controllers preserve the invariant.
LEMMA BelowFollow ==
  ASSUME FollowInv, CleanUpInv', Below
  PROVE  FollowInv'
<1>1. RollingInv /\ StatusOK(status) /\ ReportOK(status, br)
  BY DEF FollowInv, CleanUpInv
<1>2. /\ UNCHANGED <<rollout, status>>
      /\ wl'.update = wl.update /\ wl'.stable \in {wl.stable, wl.update}
      /\ br'.exists => br.exists
      /\ pods[wl.update] \in Nat /\ pods'[wl.update] \in Nat
      /\ pods'[wl.update] >= pods[wl.update]
      /\ ready \in Nat /\ ready' \in Nat /\ ready' >= ready
  BY <1>1, BelowGrows, BelowPods, BelowRelease
<1>3. StatusOK(status)'
  BY <1>1, <1>2, GrowsFollow
<1>4. ReportOK(status, br)'
  <2>1. CASE IsRolling(status) /\ status.cr = wl.update
    <3>1. br.exists => br.part # NoPartition
      BY <1>1, <2>1 DEF RollingInv, HandedBackIsReleased, IsRolling
    <3>2. BatchOK(br)'
      BY <1>1, <2>1, <3>1, BelowReport DEF ReportOK
    <3>. QED BY <3>2 DEF ReportOK
  <2>2. CASE ~(IsRolling(status) /\ status.cr = wl.update)
    BY <1>2, <2>2 DEF ReportOK, IsRolling
  <2>. QED BY <2>1, <2>2
<1>. QED BY <1>3, <1>4 DEF FollowInv

-----------------------------------------------------------------------------
(* The environment.                                                        *)

\* A step that leaves the plan, the revisions and the pods alone.
LEMMA SameFollow ==
  ASSUME FollowInv, CleanUpInv', UNCHANGED <<wl, pods, ready>>, steps' = steps,
         BlueGreen => ~rollout'.disabled, br'.exists => br.exists,
         BatchOK(br) => BatchOK(br'),
         status'.phase = status.phase, status'.reason = status.reason,
         status'.sub = status.sub, status'.idx = status.idx,
         status'.hash = status.hash, status'.cr = status.cr, status'.pth = status.pth,
         status'.fin = status.fin, status'.reps = status.reps,
         NoJumps => status'.nxt = status.nxt,
         \/ status'.state = status.state
         \/ status.state = "Paused" /\ status'.state = "Ready"
  PROVE  FollowInv'
<1>1. StatusOK(status) /\ ReportOK(status, br)
  BY DEF FollowInv
<1>2. GoneOK(status)' /\ ToNewOK(status)' /\ StyleOK(status)'
  BY <1>1 DEF StatusOK, GoneOK, Gone, ToNewOK, StyleOK
<1>3. PlanOK(status)'
  BY <1>1 DEF StatusOK, PlanOK, IsRolling, NextBatchIndex, HashOf
<1>4. FollowOK(status)'
  BY <1>1 DEF StatusOK, FollowOK, IsRolling, StepPods, Run, RunReady, Upgraded
<1>5. EndOK(status)'
  BY <1>1 DEF StatusOK, EndOK, StepPods, Run
<1>6. ReportOK(status, br)'
  BY <1>1 DEF ReportOK, BatchOK, IsRolling, Run, RunReady
<1>. QED BY <1>2, <1>3, <1>4, <1>5, <1>6 DEF FollowInv, StatusOK

\* Time, a restart and the garbage collector.
LEMMA EnvironmentFollow ==
  ASSUME FollowInv, CleanUpInv', Time \/ Restart \/ GarbageCollected \/ FinalizerRemoved
  PROVE  FollowInv'
<1>1. /\ status \in Statuses /\ rollout \in Rollouts /\ br \in BatchReleases
      /\ StatusOK(status)
  BY InvTypes DEF FollowInv, CleanUpInv
<1>2. /\ status'.phase = status.phase /\ status'.reason = status.reason
      /\ status'.sub = status.sub /\ status'.idx = status.idx
      /\ status'.hash = status.hash /\ status'.cr = status.cr /\ status'.pth = status.pth
      /\ status'.fin = status.fin /\ status'.reps = status.reps
      /\ status'.nxt = status.nxt /\ status'.state = status.state
      /\ UNCHANGED <<wl, pods, ready>>
  BY <1>1
  DEF Time, StatusAges, ConditionAges, Restart, GarbageCollected, FinalizerRemoved,
      rolloutVars, brVars, Statuses
<1>3. steps' = steps /\ rollout'.disabled = rollout.disabled
  BY <1>1
  DEF Time, StatusAges, ConditionAges, Restart, GarbageCollected, FinalizerRemoved,
      rolloutVars, steps, Rollouts
<1>4. (br'.exists => br.exists) /\ (BatchOK(br) => BatchOK(br'))
  <2>1. CASE br' = br
    BY <2>1
  <2>2. CASE br.exists /\ RemoveBatchRelease
    <3>1. CASE br'.exists
      <4>1. /\ br'.observed = br.observed /\ br'.updated = br.updated
            /\ br'.batch = br.batch /\ br'.part = br.part /\ br'.state = br.state
            /\ br'.batches = br.batches
        BY <1>1, <2>2, <3>1 DEF RemoveBatchRelease, NoBatchRelease, BatchReleases
      <4>. QED BY <2>2, <4>1 DEF BatchOK
    <3>2. CASE ~br'.exists
      BY <3>2 DEF BatchOK
    <3>. QED BY <3>1, <3>2
  <2>. QED
    BY <2>1, <2>2
    DEF Time, StatusAges, ConditionAges, Restart, GarbageCollected, FinalizerRemoved, brVars
<1>5. BlueGreen => ~rollout'.disabled
  BY <1>1, <1>3 DEF StatusOK, StyleOK
<1>. QED BY <1>2, <1>3, <1>4, <1>5, SameFollow

\* A user who changes the template of a progressing rollout takes its revision
\* back; nothing is claimed of the one the rollout is at then.
LEMMA UserFollow ==
  ASSUME FollowInv, CleanUpInv', Steady, User
  PROVE  FollowInv'
<1>1. /\ CleanUpInv /\ status \in Statuses /\ rollout \in Rollouts /\ wl \in Workloads
      /\ StatusOK(status)
  BY InvTypes DEF FollowInv, CleanUpInv
<1>2. CASE \E r \in Revisions : Release(r)
  <2>1. PICK r \in Revisions : Release(r)
    BY <1>2
  <2>2. /\ UNCHANGED <<rollout, status, br, pods>> /\ r # wl.update
        /\ wl'.update = r /\ wl'.stable = wl.stable
    BY <1>1, <2>1 DEF Release, Workloads
  <2>3. status.phase = "Progressing" => r = wl.stable
    BY <2>1 DEF Release, UserOp, ReleaseKind, Steady, NoOvertaking
  <2>4. IsRolling(status) => status.cr # r
    BY <1>1, <2>2, <2>3 DEF CleanUpInv, RollingOK, IsRolling
  <2>5. GoneOK(status)' /\ ToNewOK(status)' /\ StyleOK(status)'
    BY <1>1, <2>2 DEF StatusOK, GoneOK, Gone, ToNewOK, StyleOK
  <2>6. PlanOK(status)'
    BY <1>1, <2>2 DEF StatusOK, PlanOK, IsRolling, steps, NextBatchIndex, HashOf
  <2>7. FollowOK(status)' /\ ReportOK(status, br)'
    BY <2>2, <2>4 DEF FollowOK, ReportOK, IsRolling
  <2>8. EndOK(status)'
    BY <1>1, <2>2, <2>3 DEF StatusOK, EndOK
  <2>. QED BY <2>5, <2>6, <2>7, <2>8 DEF FollowInv, StatusOK
<1>3. CASE ~\E r \in Revisions : Release(r)
  <2>1. ~\E p \in Plans : ChangePlan(p)
    BY DEF ChangePlan, UserOp, Steady, NeverReplanned
  <2>2. BlueGreen => ~Disable
    BY DEF Disable, UserOp, Steady, NeverDisabled
  <2>3. /\ UNCHANGED <<br, wl, pods, ready>>
        /\ status'.phase = status.phase /\ status'.reason = status.reason
        /\ status'.sub = status.sub /\ status'.idx = status.idx
        /\ status'.hash = status.hash /\ status'.cr = status.cr /\ status'.pth = status.pth
        /\ status'.fin = status.fin /\ status'.reps = status.reps
        /\ NoJumps => status'.nxt = status.nxt
        /\ \/ status'.state = status.state
           \/ status.state = "Paused" /\ status'.state = "Ready"
    BY <1>1, <1>3, <2>1
    DEF User, Approve, Jump, Pause, Disable, Delete, brVars, Statuses, UserOp, NoJumps
  <2>4. steps' = steps /\ (BlueGreen => rollout'.disabled = rollout.disabled)
    BY <1>1, <1>3, <2>1, <2>2
    DEF User, Approve, Jump, Pause, Disable, Delete, Rollouts, steps
  <2>5. BlueGreen => ~rollout'.disabled
    BY <1>1, <2>4 DEF StatusOK, StyleOK
  <2>. QED BY <2>3, <2>4, <2>5, SameFollow
<1>. QED BY <1>2, <1>3

\* The invariant holds initially.
LEMMA InitFollow == Init => FollowInv
<1>. SUFFICES ASSUME Init PROVE FollowInv
  OBVIOUS
<1>1. CleanUpInv
  BY InitClean
<1>2. status.phase = "Initial" /\ status.fin = "None" /\ ~rollout.disabled
  BY DEF Init, RolloutInit
<1>3. ~br.exists
  BY DEF Init, WorkloadInit
<1>. QED BY <1>1, <1>2, <1>3, NotRolling
  DEF FollowInv, StatusOK, GoneOK, ToNewOK, StyleOK, IsRolling

\* Every step preserves it.
LEMMA NextFollow ==
  ASSUME Steady, FollowInv, [Next]_vars
  PROVE  FollowInv'
<1>1. CleanUpInv'
  BY NextClean DEF FollowInv, Steady
<1>2. CASE Reconcile
  BY <1>1, <1>2, WaitingFollow, SpecialCasesFollow, ResetFollow, StepStepFollow,
     FinalisingFollow, EnvironmentFollow
  DEF Reconcile
<1>3. CASE Next /\ ~Reconcile
  BY <1>1, <1>3, BelowFollow, EnvironmentFollow, UserFollow DEF Next
<1>4. CASE UNCHANGED vars
  <2>1. UNCHANGED <<rollout, status, br, wl, pods, ready>>
    BY <1>4 DEF vars, rolloutVars, brVars
  <2>2. steps' = steps /\ (BlueGreen => ~rollout'.disabled)
    BY <2>1 DEF steps, FollowInv, StatusOK, StyleOK
  <2>. QED BY <1>1, <2>1, <2>2, SameFollow
<1>. QED BY <1>2, <1>3, <1>4

\* As long as no release overtakes an unfinished one, the plan stays and a
\* blue-green Rollout is not disabled, the rollout's step, the pods it has
\* got and what the BatchRelease reports of them agree.
THEOREM FollowInvariant == Spec => [](Steady => FollowInv)
<1>1. Init => (Steady => FollowInv)
  BY InitFollow
<1>2. (Steady => FollowInv) /\ [Next]_vars => (Steady => FollowInv)'
  BY NextFollow DEF Steady, NoOvertaking, NeverReplanned, NeverDisabled, RollbackInBatchPolicy
<1>. QED BY <1>1, <1>2, PTL DEF Spec

-----------------------------------------------------------------------------
(* Traffic follows pods; success follows the release.                      *)

\* A finalising task that raises the route is RouteTrafficToNew.
LEMMA FinalisingRoutes ==
  ASSUME NEW why, NEW done, doFinalising(why, done), route' # route, route' # NoRoute
  PROVE  Task(why) = "RouteTrafficToNew"
<1>1. PICK t : FinaliseRetry(why, t)
  BY DEF doFinalising, FinaliseNext, FinaliseLast, FinaliseNothing, trVars, netVars
<1>2. t = Task(why)
  BY <1>1 DEF FinaliseRetry
<1>3. CASE t # "RouteTrafficToNew"
  BY <1>1, <1>3
  DEF FinaliseRetry, RestoreGateway, RestoreStableService, RemoveCanaryService, trVars, netVars
<1>. QED BY <1>2, <1>3

\* While the rollout rolls, only the TrafficRouting state raises the route.
LEMMA StepRoutes ==
  ASSUME FollowInv, Steady, [Next]_vars, status.reason = "InRolling",
         route' # route, route' # NoRoute
  PROVE  StepRoute
<1>1. CASE ProgressingFinalising \/ ProgressingCancelling
  BY <1>1 DEF ProgressingFinalising, ProgressingCancelling, Progressing
<1>2. CASE RolloutTerminating \/ RolloutDisabling
  <2>1. PICK why, done : doFinalising(why, done) /\ RunsFor(why) /\ why \in {"delete", "disabled"}
    BY <1>2 DEF RolloutTerminating, RolloutDisabling, Reconciling, RunsFor
  <2>2. Task(why) = "RouteTrafficToNew"
    BY <2>1, FinalisingRoutes
  <2>3. CASE status.fin = "None"
    BY <2>1, <2>2, <2>3, StartsToNew DEF Task
  <2>4. CASE status.fin # "None"
    BY <2>2, <2>4 DEF Task, FollowInv, StatusOK, ToNewOK
  <2>. QED BY <2>3, <2>4
<1>3. CASE StepStep
  BY <1>3
  DEF StepStep, StepJump, StepCleanUp, StepInitUnpin, StepInitPin, StepInitSkip,
      StepUpgradeApply, StepUpgradeWait, StepUpgradeDone, StepRouted, StepAnalysed,
      StepPaused, StepReady, FinalisingTrafficRouting, RestoreStableService,
      PatchStableService, RestoreGateway, RemoveCanaryService, trVars, netVars
<1>4. CASE ResetGateway \/ ResetRelease \/ ResetDone
  BY <1>4 DEF ResetGateway, ResetRelease, ResetDone, RestoreGateway, RemoveCanaryService,
              trVars, netVars
<1>5. CASE \/ ReconcileIdle
           \/ ProgressingInitializing \/ ProgressingPaused \/ ProgressingCompleted
           \/ RollbackDirectly \/ RolloutPaused \/ RollbackInBatches
           \/ ContinuousRefused \/ PlanChanged \/ RollingDone \/ FinalizerRemoved
  BY <1>5 DEF ReconcileIdle, ProgressingInitializing, ProgressingPaused,
       ProgressingCompleted, RollbackDirectly, RolloutPaused, RollbackInBatches,
       ContinuousRefused, PlanChanged, RollingDone, FinalizerRemoved, trVars, netVars
<1>6. CASE Below \/ Time \/ Restart \/ GarbageCollected \/ User \/ UNCHANGED vars
  BY <1>6 DEF Below, Time, StatusAges, ConditionAges, GraceElapses, Restart,
       ForgetExpectations, GarbageCollected, User, Release, Approve, Jump, ChangePlan,
       Pause, Disable, Delete, vars, trVars, netVars
<1>. QED BY <1>1, <1>2, <1>3, <1>4, <1>5, <1>6 DEF Next, Reconcile

\* The state TrafficRouting raises the route only on pods that are ready.
LEMMA RouteFollows ==
  ASSUME FollowInv, Steady, NoJumps, StepRoute, route' # route
  PROVE  /\ DisableGenerateCanaryService \/ canarySvc = wl.update
         /\ RunReady(StepPods(status.idx))
<1>1. RunCanary /\ status.state = "TrafficRouting"
  BY DEF StepRoute, InState
<1>2. /\ IsRolling(status) /\ status.cr = wl.update /\ FollowOK(status)
      /\ synced.pth = wl.update
  BY <1>1, SyncedFollow
<1>3. RunReady(StepPods(status.idx))
  BY <1>1, <1>2 DEF FollowOK, Upgraded
<1>4. ServicesReady(synced.sr, synced.pth)
  BY DEF StepRoute, DoTrafficRouting, trVars, netVars
<1>. QED BY <1>2, <1>3, <1>4 DEF ServicesReady

\* A step raises the weight of the canary route only when the canary Service
\* selects the new revision and the pods of the step are updated and ready, as
\* long as nobody overtakes the release, rewrites its plan, jumps in it or
\* disables a blue-green one.
THEOREM TrafficFollows ==
  ASSUME NoOvertaking, NeverReplanned, NoJumps, BlueGreen => NeverDisabled
  PROVE  Spec => TrafficFollowsPods
<1>1. (NoOvertaking => CleanUpInv)' /\ (Steady => FollowInv) /\ [Next]_vars =>
        [status.reason = "InRolling" /\ route' > route /\ route' > 0 =>
           /\ DisableGenerateCanaryService \/ canarySvc = wl.update
           /\ pods[wl.update] >= StepPods(status.idx)
           /\ ready >= StepPods(status.idx)]_vars
  <2>1. SUFFICES ASSUME NetworkOK', Steady => FollowInv, [Next]_vars,
                        status.reason = "InRolling", route' > route, route' > 0
                 PROVE  /\ DisableGenerateCanaryService \/ canarySvc = wl.update
                        /\ RunReady(StepPods(status.idx))
    BY DEF CleanUpInv, RunReady, Run, NoOvertaking
  <2>2. route' # NoRoute
    BY <2>1 DEF NoRoute
  <2>3. HasTrafficRoutings
    BY <2>1, <2>2 DEF NetworkOK
  <2>4. Steady /\ FollowInv
    BY <2>1, <2>3 DEF Steady, RollbackInBatchPolicy
  <2>5. route' # route
    <3>1. route \in Int
      BY <2>4, InvTypes DEF FollowInv, CleanUpInv, TrafficTypeOK, NoRoute, FullTraffic
    <3>. QED BY <2>1, <3>1
  <2>6. StepRoute
    BY <2>1, <2>2, <2>4, <2>5, StepRoutes
  <2>. QED BY <2>4, <2>5, <2>6, RouteFollows
<1>. QED BY <1>1, CleanUpInvariant, FollowInvariant, PTL DEF Spec, TrafficFollowsPods

\* Every status that a reconcile writes carries the outcome of the stored one,
\* or none, but for the one that ends a finalising sequence.
LEMMA OnlyFinalisingSucceeds ==
  ASSUME RollingInv, [Next]_vars,
         status.succeeded # "True", status'.succeeded = "True"
  PROVE  ProgressingFinalising
<1>1. /\ status \in Statuses /\ newStatus \in Statuses /\ synced \in Statuses
  BY InvTypes, SyncedType
<1>2. newStatus.succeeded # "True"
  BY <1>1 DEF newStatus, PhaseTransition, Disabled, Deployed, Statuses
<1>3. synced.succeeded = newStatus.succeeded
  BY <1>1 DEF synced, Statuses
<1>4. ASSUME NEW s, Write(s), s.succeeded = newStatus.succeeded PROVE FALSE
  BY <1>2, <1>4 DEF Write
<1>5. ~ReconcileIdle /\ ~ProgressingPaused /\ ~ProgressingCompleted /\ ~RollbackDirectly
      /\ ~RolloutPaused /\ ~RollbackInBatches /\ ~ContinuousRefused /\ ~RollingDone
  BY <1>1, <1>4
  DEF ReconcileIdle, ProgressingPaused, ProgressingCompleted, RollbackDirectly,
      RolloutPaused, RollbackInBatches, ContinuousRefused, RollingDone, Statuses
<1>6. ~ProgressingInitializing
  <2> DEFINE s == Started(newStatus)
             t == [Started(newStatus) EXCEPT !.reason = "InRolling"]
  <2>1. s.succeeded = newStatus.succeeded /\ t.succeeded = newStatus.succeeded
    BY <1>1 DEF Started, Statuses
  <2>2. ProgressingInitializing => Write(s) \/ Write(t)
    BY DEF ProgressingInitializing
  <2>. QED BY <1>4, <2>1, <2>2
<1>7. ~ResetGateway /\ ~ResetRelease /\ ~ResetDone
  <2>1. ~ResetDone
    BY <1>1, <1>4 DEF ResetDone, Clear, Statuses
  <2>. QED BY <1>1, <1>4, <2>1 DEF ResetGateway, ResetRelease, Statuses
<1>8. ~PlanChanged
  BY <1>1, <1>4 DEF PlanChanged, Jumped, Statuses
<1>9. ~StepStep
  BY <1>1, <1>3, <1>4
  DEF StepStep, StepJump, StepCleanUp, StepInitUnpin, StepInitPin, StepInitSkip,
      StepUpgradeApply, StepUpgradeWait, StepUpgradeDone, StepRoute, StepRouted,
      StepAnalysed, StepPaused, StepReady, upgrading, Jumped, Statuses
<1>10. ASSUME NEW why, NEW done \in Statuses, done.succeeded # "True",
              doFinalising(why, done)
       PROVE  FALSE
  BY <1>1, <1>2, <1>10
  DEF doFinalising, FinaliseRetry, FinaliseNext, FinaliseLast, FinaliseNothing, Write, Statuses
<1>11. ~ProgressingCancelling /\ ~RolloutTerminating /\ ~RolloutDisabling
  <2> DEFINE d == [newStatus EXCEPT !.reason = "Completed", !.succeeded = "False"]
             e == [newStatus EXCEPT !.terminated = TRUE]
             f == [newStatus EXCEPT !.phase = "Disabled"]
  <2>1. /\ d \in Statuses /\ e \in Statuses /\ f \in Statuses
        /\ d.succeeded # "True" /\ e.succeeded # "True" /\ f.succeeded # "True"
    BY <1>1, <1>2, Names, Members DEF Statuses
  <2>2. /\ ProgressingCancelling => doFinalising("rollback", d)
        /\ RolloutTerminating => doFinalising("delete", e)
        /\ RolloutDisabling => doFinalising("disabled", f)
    BY DEF ProgressingCancelling, RolloutTerminating, RolloutDisabling
  <2>. HIDE DEF d, e, f
  <2>. QED BY <1>10, <2>1, <2>2
<1>12. ~(\/ FinalizerRemoved \/ Below \/ Time \/ Restart \/ GarbageCollected
         \/ User \/ UNCHANGED vars)
  BY <1>1 DEF FinalizerRemoved, Below, Time, StatusAges, ConditionAges, Restart,
       GarbageCollected, User, Release, Approve, Jump, ChangePlan, Pause, Disable, Delete,
       vars, rolloutVars, Statuses
<1>. QED
  BY <1>5, <1>6, <1>7, <1>8, <1>9, <1>11, <1>12 DEF Next, Reconcile

\* A rollout is reported as succeeded only when the pods of its last step run,
\* as long as nobody overtakes the release, rewrites its plan or disables a
\* blue-green one, and no rollback in batches takes it over.
THEOREM SucceededReleased ==
  ASSUME NoOvertaking, NeverReplanned, BlueGreen => NeverDisabled, ~RollbackInBatchPolicy
  PROVE  Spec => SucceededIsReleased
<1>1. (Steady => FollowInv) /\ [Next]_vars =>
        [status.succeeded # "True" /\ status'.succeeded = "True" /\ status.cr = wl.update
         => pods[wl.update] >= StepPods(Len(steps))]_vars
  <2>1. SUFFICES ASSUME FollowInv, [Next]_vars,
                        status.succeeded # "True", status'.succeeded = "True",
                        status.cr = wl.update
                 PROVE  Run(StepPods(Len(steps)))
    BY DEF Steady, Run
  <2>2. ProgressingFinalising
    BY <2>1, OnlyFinalisingSucceeds DEF FollowInv, CleanUpInv
  <2>3. status.phase = "Progressing" /\ status.reason = "Finalising"
    BY <2>2 DEF ProgressingFinalising, Progressing, Reconciling
  <2>. QED BY <2>1, <2>3 DEF FollowInv, StatusOK, EndOK
<1>. QED BY <1>1, FollowInvariant, PTL DEF Spec, SucceededIsReleased

=============================================================================
