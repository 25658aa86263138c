--------------------------- MODULE StrategyCustody ---------------------------
(***************************************************************************)
(* Who owns the strategy of a workload. The user writes it; the workload     *)
(* webhooks change every write before it is stored; the control planes of    *)
(* the BatchRelease controller save the user's settings in annotations,      *)
(* replace them for the release and put them back. All of them write the     *)
(* same object, and every write, a controller's too, passes the webhooks.    *)
(***************************************************************************)
EXTENDS Naturals, FiniteSets

CONSTANTS
  Kinds,        \* kinds of workload and rolling style
  HasTraffic,   \* the Rollout has traffic routings
  SkipRestart,  \* feature gate SkipDeploymentRestart
  KeepPaused,   \* feature gate KeepWorkloadPausedOnRolloutDeletion
  Stale,        \* kinds whose controllers read an object one write behind
  Ops,          \* what the user does beyond applying manifests
  MaxOps        \* bound on the writes of the user

Deployments == {"Deployment", "MinReady", "BGDeployment", "Canary"}
Knobs == {"CloneSet", "DaemonSet", "StatefulSet"}
BlueGreens == {"BGDeployment", "BGCloneSet"}

ASSUME KindsAssumption ==
  /\ Kinds \subseteq Deployments \cup Knobs \cup BlueGreens \cup {"NativeDaemonSet"}
  /\ HasTraffic \in BOOLEAN /\ SkipRestart \in BOOLEAN /\ KeepPaused \in BOOLEAN
  /\ MaxOps \in Nat

VARIABLES
  kind,   \* kind of the workload, with the rolling style
  w,      \* the workload: template, strategy and annotations
  prev,   \* the workload as a cache one write behind has it
  want,   \* the settings the user asked for last
  ro,     \* the Rollout: does the webhook match it, is it finalising
  br,     \* the BatchRelease: phase, revision it is for, batchPartition set,
          \* waits to resume
  ops     \* writes of the user so far

vars == <<kind, w, prev, want, ro, br, ops>>

\* minReadySeconds, progressDeadlineSeconds, rollingUpdate (maxUnavailable
\* stands for the whole of it) and the type of the strategy.
Fields == {"min", "deadline", "budget", "type"}
UserTypes == {"RollingUpdate"}
Settings == [min : {"0", "10"}, deadline : {"300", "600"}, budget : {"1", "20%"},
             type : UserTypes]
Held == "max"     \* MaxReadySeconds, MaxProgressSeconds
None == "none"    \* no annotation
Nil == "nil"      \* rollingUpdate is nil
Default == "25%"
NotSaved == [min |-> None, deadline |-> None, budget |-> None, type |-> None]

HasSaved(o) == o.saved # NotSaved
Or(v, default) == IF v \in {Nil, None} THEN default ELSE v

\* The workload; saved are the annotations with the settings of the user.
Minimums == {"0", "10", Held}
Deadlines == {"300", "600", Held}
Budgets == {"1", "20%", "0", "window", Default}
Types == {"RollingUpdate", "Recreate", "OnDelete"}
Saves == [min : Minimums \cup {None}, deadline : Deadlines \cup {None},
          budget : Budgets \cup {None}, type : Types \cup {None}]
Objects ==
  [rev : 1..3, stamp : 0..1, id : 0..2,
   min : Minimums, deadline : Deadlines, budget : Budgets \cup {Nil}, type : Types,
   paused : BOOLEAN, part : {"open", "held", "batch"},
   progress : BOOLEAN, control : BOOLEAN, saved : Saves]

Phases == {"none", "Preparing", "Progressing", "Finalizing", "Completed"}
Releases == [phase : Phases, rev : 0..3, part : BOOLEAN, wait : BOOLEAN]

TypeOK ==
  /\ kind \in Kinds /\ want \in Settings /\ ops \in 0..MaxOps
  /\ w \in Objects /\ prev \in Objects
  /\ ro \in [applies : BOOLEAN, finalising : BOOLEAN]
  /\ br \in Releases

-----------------------------------------------------------------------------
(* The workload webhooks. old is stored, new is what a client sent, versions *)
(* how many versions of pods run.                                            *)

\* isEffectiveDeploymentRevisionChange; the other handlers test the same.
RevisionChange(old, new) ==
  IF new.id # 0 THEN old.id # new.id
  ELSE <<old.rev, old.stamp>> # <<new.rev, new.stamp>>

isDeploymentRestartOnly(old, new) ==
  old.id = new.id /\ old.rev = new.rev /\ old.stamp # new.stamp

\* ValidateRefreshableDeployment.
Refreshable(o) == ~o.paused /\ o.budget # Nil

\* ValidateInflatedDeploymentStrategy.
Inflated(o) ==
  o.type = "RollingUpdate" /\ Refreshable(o) /\ o.min = Held /\ o.deadline = Held

\* InflateDeploymentStrategy.
Inflate(o) ==
  [o EXCEPT !.paused = FALSE, !.min = Held, !.deadline = Held, !.budget = "0"]

\* HasOriginalAvailabilityChange.
AvailabilityChange(o) == o.min # Held \/ o.deadline # Held

\* May the original annotations be written, or are they valid for o.
CanSave(o) ==
  /\ o.type = "RollingUpdate"
  /\ HasSaved(o) => Inflated(o) \/ (AvailabilityChange(o) /\ Refreshable(o))

\* Variant with a bug: an enrolled Deployment is saved again as it is.
SaveMinReadyAgain(o) ==
  [o EXCEPT !.saved = [min |-> o.min, deadline |-> o.deadline,
                       budget |-> Or(o.budget, Default), type |-> None]]

\* WriteOriginalAnnotations, or the refresh of two of the three.
SaveMinReady(o) ==
  CASE ~HasSaved(o) -> [o EXCEPT !.saved =
         [min |-> o.min, deadline |-> o.deadline, budget |-> Or(o.budget, Default),
          type |-> None]]
    [] HasSaved(o) /\ Inflated(o) -> o
    [] OTHER -> [o EXCEPT !.saved.min = o.min, !.saved.deadline = o.deadline]

\* enrollMinReadyDeploymentWithPrevious; before is the maxUnavailable of the
\* previous object, None for a new release.
CanEnroll(o, before) ==
  CanSave(o) /\ (HasSaved(o) /\ before \notin {None, Or(o.budget, Default)} => Refreshable(o))

Enroll(o, before) ==
  LET s == SaveMinReady(o) IN
  Inflate(IF HasSaved(o) /\ before \notin {None, Or(o.budget, Default)}
          THEN [s EXCEPT !.saved.budget = Or(o.budget, Default)] ELSE s)

enforceMinReadyInflation(old, new) ==
  IF ~HasSaved(new) THEN new
  ELSE [new EXCEPT !.type = "RollingUpdate", !.paused = FALSE, !.min = Held,
                   !.deadline = Held,
                   !.budget = IF new.budget = Nil THEN Or(old.budget, "0") ELSE new.budget]

MinReadyInProgress(old, new) ==
  LET before == Or(old.budget, Default) IN
  IF RevisionChange(old, new) /\ CanEnroll(new, before)
    THEN Enroll(new, before) ELSE enforceMinReadyInflation(old, new)

\* The strategy annotation of the partition style carries the RollingUpdate
\* settings, which may be changed during the release.
PartitionInProgress(old, new) ==
  [new EXCEPT !.paused = TRUE, !.budget = Nil,
              !.type = IF new.type = "RollingUpdate" THEN "Recreate" ELSE new.type,
              !.saved.budget = Or(new.budget, Or(new.saved.budget, Default))]

\* A write of Recreate without rollingUpdate is defaulted again (external)
\* once the webhook has put the type back.
BlueGreenInProgress(old, new) ==
  [new EXCEPT !.paused = new.paused \/ RevisionChange(old, new),
              !.type = IF new.type = "RollingUpdate" THEN new.type ELSE old.type,
              !.budget = IF old.type = "RollingUpdate" THEN Or(new.budget, Default)
                         ELSE new.budget]

\* Variant with a bug: what the user resumes stays resumed.
DefaultUnpaused(old, new) ==
  [new EXCEPT !.type = IF new.type = "Recreate" THEN old.type ELSE new.type,
              !.budget = IF new.type = "Recreate" THEN old.budget ELSE new.budget]

DefaultInProgress(old, new) ==
  [new EXCEPT !.paused = TRUE,
              !.type = IF new.type = "Recreate" THEN old.type ELSE new.type,
              !.budget = IF new.type = "Recreate" THEN old.budget ELSE new.budget]

DeploymentInProgress(old, new) ==
  CASE kind = "MinReady" -> MinReadyInProgress(old, new)
    [] kind = "Deployment" /\ HasSaved(new) -> PartitionInProgress(old, new)
    [] kind = "BGDeployment" /\ HasSaved(new) -> BlueGreenInProgress(old, new)
    [] OTHER -> DefaultInProgress(old, new)

\* The workload enters a release.
DeploymentEnters(old, new, versions) ==
  LET held == IF kind # "MinReady" THEN [new EXCEPT !.paused = TRUE]
              ELSE IF CanEnroll(new, None) THEN Enroll(new, None) ELSE new
  IN IF ~RevisionChange(old, new) \/ versions = 0 \/ (HasTraffic /\ versions # 1)
       THEN new ELSE [held EXCEPT !.progress = TRUE]

handleDeployment(old, new, versions) ==
  CASE SkipRestart /\ ~new.progress /\ isDeploymentRestartOnly(old, new) -> new
    [] new.progress -> DeploymentInProgress(old, new)
    [] OTHER -> DeploymentEnters(old, new, versions)

\* handleCloneSet, handleDaemonSet and handleStatefulSetLikeWorkload. Only
\* the first looks at the versions of pods.
handleKnob(old, new, versions) ==
  IF RevisionChange(old, new)
     /\ (kind \in {"CloneSet", "BGCloneSet"} /\ HasTraffic => versions = 1)
    THEN [new EXCEPT !.part = "held", !.progress = TRUE] ELSE new

handleNativeDaemonSet(old, new) ==
  IF RevisionChange(old, new)
    THEN [new EXCEPT !.saved.type = new.type, !.type = "OnDelete", !.progress = TRUE]
    ELSE new

\* Handle: a Rollout that is deleted or disabled matches no workload.
Admit(old, new, versions) ==
  CASE ~ro.applies -> new
    [] ro.applies /\ kind \in Deployments -> handleDeployment(old, new, versions)
    [] ro.applies /\ kind = "NativeDaemonSet" -> handleNativeDaemonSet(old, new)
    [] OTHER -> handleKnob(old, new, versions)

Store(new, versions) ==
  w' = Admit(w, new, versions) /\ prev' = (IF kind \in Stale THEN w ELSE w')

-----------------------------------------------------------------------------
(* The control planes. o is the object the controller read; what it patches  *)
(* is the stored one.                                                        *)

\* The object in the controller's cache; MinReady patches with an optimistic
\* lock, so that what it read is what it patches.
Read == IF kind = "MinReady" THEN {w} ELSE {w, prev}

\* IsUnderRolloutControl.
UnderControl(o) == o.control /\ o.type = "Recreate" /\ o.paused

InitializePartition(o) ==
  IF UnderControl(o) THEN w
  ELSE [w EXCEPT !.control = TRUE, !.paused = TRUE, !.type = "Recreate", !.budget = Nil,
                 !.saved.type = "RollingUpdate",
                 !.saved.budget = Or(o.budget, Or(o.saved.budget, Default))]

\* ensureInitializeAllowed and prepareOriginalAnnotations refuse the rest.
InitializeMinReady(o) == [Inflate(SaveMinReady(o)) EXCEPT !.control = TRUE]

\* InitOriginalSetting: a field that is saved stays, but zero minReadySeconds.
InitializeBlueGreen(o) ==
  LET save == [min |-> IF o.saved.min = "0" THEN o.min ELSE Or(o.saved.min, o.min),
               deadline |-> IF kind = "BGCloneSet" THEN None
                            ELSE Or(o.saved.deadline, o.deadline),
               budget |-> Or(o.saved.budget, Or(o.budget, Default)), type |-> None]
      set == [w EXCEPT !.control = TRUE, !.saved = save, !.min = Held, !.budget = "0"]
  IN CASE o.control -> w
       [] ~o.control /\ kind = "BGCloneSet" -> [set EXCEPT !.paused = FALSE]
       [] OTHER -> [set EXCEPT !.deadline = Held, !.type = "RollingUpdate"]

InitializeOther(o) ==
  CASE o.control -> w
    [] ~o.control /\ kind = "Canary" -> [w EXCEPT !.control = TRUE]
    [] ~o.control /\ kind = "NativeDaemonSet" -> [w EXCEPT !.control = TRUE, !.type = "OnDelete"]
    [] OTHER -> [w EXCEPT !.control = TRUE, !.part = "held"]

Initialized(o) ==
  CASE kind = "Deployment" -> InitializePartition(o)
    [] kind = "MinReady" -> InitializeMinReady(o)
    [] kind \in BlueGreens -> InitializeBlueGreen(o)
    [] OTHER -> InitializeOther(o)

\* ensureInflatedDeploymentStrategy, then the next maxUnavailable.
UpgradeMinReady == [IF Inflated(w) THEN w ELSE Inflate(w) EXCEPT !.budget = "window"]

\* Variant with a bug: under control is good enough.
ReadyWhenControlled(o) == o.control

\* ValidateReadyForBlueGreenRelease; which maxUnavailable there is does not
\* matter.
ReadyForBlueGreen(o) ==
  /\ o.control /\ o.min = Held
  /\ kind = "BGDeployment" =>
       o.type = "RollingUpdate" /\ o.budget # Nil /\ o.deadline = Held

Upgraded ==
  CASE kind = "MinReady" -> UpgradeMinReady
    [] kind = "BGDeployment" -> [w EXCEPT !.paused = FALSE, !.type = "RollingUpdate",
                                          !.budget = "0"]
    [] kind = "BGCloneSet" -> [w EXCEPT !.part = "open"]
    [] kind \in Knobs -> [w EXCEPT !.part = "batch"]
    [] OTHER -> w

\* Variant with a bug: a setting that is not saved is put back, too.
PutBackMissing(o, fields) ==
  LET v(f) == IF f \in fields THEN o.saved[f] ELSE w[f] IN
  [w EXCEPT !.min = v("min"), !.deadline = v("deadline"), !.budget = v("budget"),
            !.type = v("type"), !.saved = NotSaved, !.control = FALSE]

\* The settings o has saved, put back into the stored object.
PutBack(o, fields) ==
  LET v(f) == IF f \in fields /\ o.saved[f] # None THEN o.saved[f] ELSE w[f] IN
  [w EXCEPT !.min = v("min"), !.deadline = v("deadline"), !.budget = v("budget"),
            !.type = v("type"), !.saved = NotSaved, !.control = FALSE]

\* The release was cancelled and the gate keeps what it holds.
KeepHeld == KeepPaused /\ ~br.wait

FinalizePartition(o) ==
  LET back == IF o.type = "Recreate" THEN PutBack(o, {"type", "budget"})
              ELSE PutBack(o, {})
  IN CASE ~(o.control /\ o.paused) -> w
       [] o.control /\ o.paused /\ br.part -> [w EXCEPT !.control = FALSE]
       [] OTHER -> [back EXCEPT !.paused = KeepHeld]

FinalizeBlueGreen(o) ==
  CASE br.part \/ ~HasSaved(o) -> w
    [] ~br.part /\ HasSaved(o) /\ kind = "BGCloneSet" -> PutBack(o, Fields)
    [] OTHER -> [PutBack(o, Fields) EXCEPT !.paused = FALSE]

FinalizeNativeDaemonSet(o) ==
  [w EXCEPT !.control = FALSE, !.saved = NotSaved,
            !.type = IF br.part \/ KeepHeld THEN w.type ELSE Or(o.saved.type, "RollingUpdate")]

Finalized(o) ==
  CASE kind = "Deployment" -> FinalizePartition(o)
    [] kind = "MinReady" -> IF HasSaved(o) THEN PutBack(o, Fields) ELSE w
    [] kind \in BlueGreens -> FinalizeBlueGreen(o)
    [] kind = "NativeDaemonSet" -> FinalizeNativeDaemonSet(o)
    [] kind = "Canary" -> [w EXCEPT !.control = FALSE, !.paused = br.part]
    [] OTHER -> [w EXCEPT !.control = FALSE,
                          !.part = IF br.part \/ KeepHeld THEN w.part ELSE "open"]

Initialize ==
  /\ br.phase = "Preparing" /\ (kind = "MinReady" => CanSave(w))
  /\ \E o \in Read : Store(Initialized(o), 1)
  /\ br' = [br EXCEPT !.phase = "Progressing"]
  /\ UNCHANGED <<kind, want, ro, ops>>

UpgradeBatch ==
  /\ br.phase = "Progressing"
  /\ kind \in BlueGreens => ReadyForBlueGreen(w)
  /\ kind = "MinReady" => w.type = "RollingUpdate"
  /\ Upgraded # w /\ Store(Upgraded, 1)
  /\ UNCHANGED <<kind, want, ro, br, ops>>

\* MinReady refuses a workload whose annotations are lost.
Finalize ==
  /\ br.phase = "Finalizing"
  /\ kind = "MinReady" => HasSaved(w) \/ (w.min # Held /\ w.deadline # Held)
  /\ \E o \in Read : Store(Finalized(o), 1)
  /\ br' = [br EXCEPT !.phase = "Completed"]
  /\ UNCHANGED <<kind, want, ro, ops>>

-----------------------------------------------------------------------------
(* The Rollout controller, as far as it touches the workload and the         *)
(* BatchRelease.                                                             *)

NoRelease == [phase |-> "none", rev |-> 0, part |-> FALSE, wait |-> FALSE]

CreateBatchRelease ==
  /\ ro.applies /\ ~ro.finalising /\ w.progress /\ br.phase = "none"
  /\ br' = [phase |-> "Preparing", rev |-> w.rev, part |-> TRUE, wait |-> FALSE]
  /\ prev' = w  \* all controllers share the cache
  /\ UNCHANGED <<kind, w, want, ro, ops>>

\* A continuous release deletes the BatchRelease with its partition set.
ContinuousRelease ==
  /\ ~ro.finalising /\ w.progress /\ w.rev # br.rev /\ kind \notin BlueGreens
  /\ br.phase \in {"Preparing", "Progressing"}
  /\ br' = [br EXCEPT !.phase = "Finalizing"]
  /\ UNCHANGED <<kind, w, prev, want, ro, ops>>

\* doCanaryFinalising removes the in-progress annotation first, every time.
RemoveProgressing ==
  /\ w.progress \/ (~ro.finalising /\ br.phase # "none")
  /\ ro' = [ro EXCEPT !.finalising = TRUE]
  /\ Store([w EXCEPT !.progress = FALSE], 1)
  /\ UNCHANGED <<kind, want, br, ops>>

\* finalizingBatchRelease, for a BatchRelease that is not deleted yet.
ResumeWorkload ==
  /\ ro.finalising /\ br.part /\ br.phase \in {"Preparing", "Progressing"}
  /\ \E wait \in BOOLEAN : br' = [br EXCEPT !.phase = "Finalizing", !.part = FALSE, !.wait = wait]
  /\ UNCHANGED <<kind, w, prev, want, ro, ops>>

RemoveBatchRelease ==
  /\ br.phase = "Completed" /\ br' = NoRelease
  /\ UNCHANGED <<kind, w, prev, want, ro, ops>>

FinalisingEnds ==
  /\ ro.finalising /\ br.phase = "none"
  /\ ro' = [ro EXCEPT !.finalising = FALSE]
  /\ UNCHANGED <<kind, w, prev, want, br, ops>>

\* The user deletes the Rollout.
RolloutDeleted ==
  /\ "delete" \in Ops /\ ro.applies
  /\ ro' = [ro EXCEPT !.applies = FALSE]
  /\ UNCHANGED <<kind, w, prev, want, br, ops>>

-----------------------------------------------------------------------------
(* The user.                                                                *)

Write(new, asked) ==
  /\ ops < MaxOps /\ ops' = ops + 1 /\ want' = asked
  /\ \E versions \in 0..2 : Store(new, versions)
  /\ UNCHANGED <<kind, ro, br>>

\* A template that differs from the stored one: another revision, a restart,
\* or a new rollout-id.
Templates(o) ==
  {[o EXCEPT !.rev = (o.rev % 3) + 1]}
  \cup (IF "restart" \in Ops THEN {[o EXCEPT !.stamp = 1 - o.stamp]} ELSE {})
  \cup (IF "rolloutid" \in Ops THEN {[o EXCEPT !.id = IF o.id = 1 THEN 2 ELSE 1]} ELSE {})

\* The user applies a manifest with all settings, with a new template or not.
UserApplies ==
  \E s \in Settings : \E o \in Templates(w) \cup {w} :
    /\ Cardinality({f \in Fields : s[f] # want[f]}) <= 1
    /\ Write([o EXCEPT !.min = s.min, !.deadline = s.deadline, !.budget = s.budget,
                       !.type = s.type], s)

\* A template changed in place while a native DaemonSet is held saves the type
\* of the release: only with "reedit".
InPlace == kind = "NativeDaemonSet" /\ w.type = "OnDelete" => "reedit" \in Ops

\* The user changes the template in place.
UserEdits ==
  /\ InPlace /\ \E o \in Templates(w) : Write(o, want)

\* ... together with one of the settings. A MinReady release would save the
\* other one as it holds it: only with "partial".
UserPatches ==
  /\ InPlace /\ (kind = "MinReady" /\ HasSaved(w) => "partial" \in Ops)
  /\ \E o \in Templates(w), s \in Settings :
       \/ Write([o EXCEPT !.min = s.min], [want EXCEPT !.min = s.min])
       \/ Write([o EXCEPT !.deadline = s.deadline], [want EXCEPT !.deadline = s.deadline])

\* kubectl rollout resume, in the middle of a release.
UserResumes ==
  /\ "resume" \in Ops /\ w.paused /\ Write([w EXCEPT !.paused = FALSE], want)

\* A client writes Recreate, which no release allows. A MinReady release that
\* has put the settings back is over as far as the webhook can tell.
RecreateWritten ==
  /\ "recreate" \in Ops /\ kind \in Deployments /\ w.progress /\ ro.applies
  /\ kind = "MinReady" => HasSaved(w)
  /\ Write([w EXCEPT !.type = "Recreate", !.budget = Nil], want)

-----------------------------------------------------------------------------
\* The values of a setting are interchangeable; zero minReadySeconds is the one
\* InitOriginalSetting takes for a missing one.
Init ==
  /\ kind \in Kinds
  /\ want = [min |-> "0", deadline |-> "600", budget |-> "1", type |-> "RollingUpdate"]
  /\ w = [rev |-> 1, stamp |-> 0, id |-> 0, min |-> want.min, deadline |-> want.deadline,
          budget |-> want.budget, type |-> want.type, paused |-> FALSE, part |-> "open",
          progress |-> FALSE, control |-> FALSE, saved |-> NotSaved]
  /\ prev = w
  /\ ro = [applies |-> TRUE, finalising |-> FALSE] /\ br = NoRelease /\ ops = 0

Next ==
  \/ Initialize \/ UpgradeBatch \/ Finalize
  \/ CreateBatchRelease \/ ContinuousRelease \/ RemoveProgressing \/ ResumeWorkload
  \/ RemoveBatchRelease \/ FinalisingEnds \/ RolloutDeleted
  \/ UserApplies \/ UserEdits \/ UserPatches \/ UserResumes \/ RecreateWritten

Spec == Init /\ [][Next]_vars

-----------------------------------------------------------------------------
(* Properties.                                                              *)

\* The settings kept for the user, wherever they are: an annotation if there
\* is one, else the object. Finalize of a native DaemonSet whose annotation
\* is gone puts back RollingUpdate.
Own ==
  [f \in Fields |->
     IF w.saved[f] # None THEN w.saved[f]
     ELSE IF kind = "NativeDaemonSet" /\ w[f] = "OnDelete" THEN "RollingUpdate" ELSE w[f]]

Lease == INSTANCE StrategyLease WITH own <- Own, lent <- HasSaved(w)

\* Refinement: webhook, Initialize, UpgradeBatch and Finalize together keep
\* the lease. No sequence of their writes, with the user's in between, saves
\* or puts back a value of the release as if it were the user's.
KeepsLease == Lease!Spec

\* A Deployment in progress of the partition or the canary style is paused,
\* whatever the user and the control planes write: the native Deployment
\* controller never replaces its pods. Finalize of a release that is over races
\* with the template of the next one.
FrozenInProgress ==
  ro.applies /\ w.progress /\ kind \in {"Deployment", "Canary"} => w.paused

\* The native controller replaces no pods: the Deployment is paused, or no new
\* pod ever counts as available and none may be unavailable.
Frozen(o) == o.paused \/ (o.min = Held /\ o.deadline = Held /\ o.budget = "0")

\* A blue-green Deployment in progress is not paused, and the webhook does not
\* impose the settings of the release again when the user applies his own. But
\* no write of a webhook or a controller opens it: above all, no batch is
\* upgraded with the user's settings.
OnlyTheUserThaws ==
  [][kind = "BGDeployment" /\ ro'.applies /\ w'.progress /\ Frozen(w) /\ ~Frozen(w')
       => ops' > ops]_vars

\* Said of MinReady by the webhook: once a template has been admitted, the
\* native controller never observes the user's original budget.
BudgetNeverObserved ==
  ro.applies /\ w.progress /\ kind = "MinReady" => Inflated(w)
=============================================================================
