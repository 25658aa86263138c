------------------------ MODULE StrategyCustodyProofs ------------------------
(***************************************************************************)
(* Proof that the strategy of a workload is a lease (StrategyCustody        *)
(* implements StrategyLease) and that a Deployment in progress stays frozen, *)
(* for every set of kinds, all feature gates and any number of writes.       *)
(*                                                                         *)
(* What a webhook or a control plane takes for the user's settings depends   *)
(* on what the object and its annotations look like.  The invariant says,    *)
(* for each kind, which combinations of the two occur.                       *)
(***************************************************************************)
EXTENDS StrategyCustody, TLAPS

-----------------------------------------------------------------------------
(* Types.                                                                  *)

\* The settings of the user are settings an object may have.
LEMMA SettingsType ==
  ASSUME NEW s \in Settings
  PROVE  s.min \in Minimums /\ s.deadline \in Deadlines /\ s.budget \in Budgets
         /\ s.type \in Types /\ s.type = "RollingUpdate"
BY DEF Settings, UserTypes, Minimums, Deadlines, Budgets, Types

\* The fields of an object.
LEMMA ObjectFields ==
  ASSUME NEW o \in Objects
  PROVE  /\ o.rev \in 1..3 /\ o.stamp \in 0..1 /\ o.id \in 0..2
         /\ o.min \in Minimums /\ o.deadline \in Deadlines
         /\ o.budget \in Budgets \cup {Nil} /\ o.type \in Types
         /\ o.part \in {"open", "held", "batch"} /\ o.saved \in Saves
         /\ o.paused \in BOOLEAN /\ o.progress \in BOOLEAN /\ o.control \in BOOLEAN
         /\ o.saved.min \in Minimums \cup {None}
         /\ o.saved.deadline \in Deadlines \cup {None}
         /\ o.saved.budget \in Budgets \cup {None} /\ o.saved.type \in Types \cup {None}
BY DEF Objects, Saves

\* Default, Nil and None are what they are.
LEMMA Literals ==
  /\ Default \in Budgets /\ "0" \in Budgets /\ "window" \in Budgets
  /\ Held \in Minimums /\ Held \in Deadlines
  /\ "RollingUpdate" \in Types /\ "Recreate" \in Types /\ "OnDelete" \in Types
  /\ Nil \notin Budgets /\ None \notin Budgets /\ Nil # None
  /\ None \notin Minimums /\ None \notin Deadlines /\ None \notin Types
  /\ Nil \notin Minimums /\ Nil \notin Deadlines /\ Nil \notin Types
  /\ NotSaved \in Saves
BY DEF Default, Budgets, Held, Minimums, Deadlines, Types, Nil, None, NotSaved, Saves

\* Or picks the first value that is there.
LEMMA OrType ==
  ASSUME NEW S, NEW v \in S \cup {Nil, None}, NEW d \in S
  PROVE  Or(v, d) \in S
BY DEF Or

\* The webhook of a MinReady Deployment stores an object.
LEMMA MinReadyType ==
  ASSUME NEW old \in Objects, NEW new \in Objects
  PROVE  /\ Inflate(new) \in Objects /\ SaveMinReady(new) \in Objects
         /\ MinReadyInProgress(old, new) \in Objects
         /\ \A before : Enroll(new, before) \in Objects
<1> USE Literals
<1>1. ASSUME NEW o \in Objects PROVE Inflate(o) \in Objects
  BY DEF Inflate, Objects
<1>2. SaveMinReady(new) \in Objects
  <2>1. [min |-> new.min, deadline |-> new.deadline, budget |-> Or(new.budget, Default),
         type |-> None] \in Saves
    BY ObjectFields, OrType DEF Saves
  <2>2. [new.saved EXCEPT !.min = new.min, !.deadline = new.deadline] \in Saves
    BY ObjectFields DEF Saves
  <2>3. ASSUME NEW s \in Saves PROVE [new EXCEPT !.saved = s] \in Objects
    BY DEF Objects
  <2>4. [new EXCEPT !.saved.min = new.min, !.saved.deadline = new.deadline] \in Objects
    BY <2>2, <2>3, ZenonT(40) DEF Objects, Saves
  <2> QED  BY <2>1, <2>3, <2>4 DEF SaveMinReady
<1>3. ASSUME NEW before PROVE Enroll(new, before) \in Objects
  <2> DEFINE s == SaveMinReady(new)
  <2>1. [s EXCEPT !.saved.budget = Or(new.budget, Default)] \in Objects
    BY <1>2, ObjectFields, OrType DEF Objects, Saves
  <2> QED  BY <1>1, <1>2, <2>1 DEF Enroll
<1>4. enforceMinReadyInflation(old, new) \in Objects
  <2>1. (IF new.budget = Nil THEN Or(old.budget, "0") ELSE new.budget) \in Budgets
    BY ObjectFields, OrType
  <2> QED  BY <2>1, ObjectFields, ZenonT(40) DEF enforceMinReadyInflation, Objects
<1> QED  BY <1>1, <1>2, <1>3, <1>4 DEF MinReadyInProgress

\* The webhooks of a Deployment in progress store objects.
LEMMA InProgressType ==
  ASSUME NEW old \in Objects, NEW new \in Objects
  PROVE  /\ PartitionInProgress(old, new) \in Objects
         /\ BlueGreenInProgress(old, new) \in Objects
         /\ DefaultInProgress(old, new) \in Objects
<1> USE Literals
<1>1. PartitionInProgress(old, new) \in Objects
  <2>1. Or(new.budget, Or(new.saved.budget, Default)) \in Budgets
    BY ObjectFields, OrType
  <2>2. (IF new.type = "RollingUpdate" THEN "Recreate" ELSE new.type) \in Types
    BY ObjectFields
  <2>3. ASSUME NEW b \in Budgets, NEW t \in Types
        PROVE  [new EXCEPT !.paused = TRUE, !.budget = Nil, !.type = t,
                           !.saved.budget = b] \in Objects
    BY DEF Objects, Saves
  <2> QED  BY <2>1, <2>2, <2>3 DEF PartitionInProgress
<1>2. BlueGreenInProgress(old, new) \in Objects
  <2>1. (IF old.type = "RollingUpdate" THEN Or(new.budget, Default) ELSE new.budget)
          \in Budgets \cup {Nil}
    BY ObjectFields, OrType
  <2>2. (new.paused \/ RevisionChange(old, new)) \in BOOLEAN
    OBVIOUS
  <2>3. (IF new.type = "RollingUpdate" THEN new.type ELSE old.type) \in Types
    BY ObjectFields
  <2>4. ASSUME NEW p \in BOOLEAN, NEW t \in Types, NEW b \in Budgets \cup {Nil}
        PROVE  [new EXCEPT !.paused = p, !.type = t, !.budget = b] \in Objects
    BY DEF Objects
  <2> QED  BY <2>1, <2>2, <2>3, <2>4 DEF BlueGreenInProgress
<1>3. DefaultInProgress(old, new) \in Objects
  BY ObjectFields DEF DefaultInProgress, Objects
<1> QED  BY <1>1, <1>2, <1>3

\* What is admitted is an object.
LEMMA AdmitType ==
  ASSUME NEW old \in Objects, NEW new \in Objects, NEW versions
  PROVE  Admit(old, new, versions) \in Objects
<1>1. DeploymentInProgress(old, new) \in Objects
  BY MinReadyType, InProgressType DEF DeploymentInProgress
<1>2. DeploymentEnters(old, new, versions) \in Objects
  <2> DEFINE held == IF kind # "MinReady" THEN [new EXCEPT !.paused = TRUE]
                     ELSE IF CanEnroll(new, None) THEN Enroll(new, None) ELSE new
  <2>1. held \in Objects
    BY MinReadyType DEF Objects
  <2>2. [held EXCEPT !.progress = TRUE] \in Objects
    BY <2>1 DEF Objects
  <2> QED  BY <2>2 DEF DeploymentEnters
<1>3. handleDeployment(old, new, versions) \in Objects
  BY <1>1, <1>2 DEF handleDeployment
<1>4. handleKnob(old, new, versions) \in Objects
  BY DEF handleKnob, Objects
<1>5. handleNativeDaemonSet(old, new) \in Objects
  <2>1. [new EXCEPT !.saved.type = new.type, !.type = "OnDelete", !.progress = TRUE]
          \in Objects
    BY Literals, ObjectFields DEF Objects, Saves
  <2> QED  BY <2>1 DEF handleNativeDaemonSet
<1> QED  BY <1>3, <1>4, <1>5 DEF Admit

\* The control planes write objects.
LEMMA ControlType ==
  ASSUME w \in Objects, NEW o \in Objects,
         br \in Releases
  PROVE  Initialized(o) \in Objects /\ Upgraded \in Objects /\ Finalized(o) \in Objects
<1> USE Literals
<1>1. Initialized(o) \in Objects
  <2>1. InitializePartition(o) \in Objects
    <3>1. Or(o.budget, Or(o.saved.budget, Default)) \in Budgets
      BY ObjectFields, OrType
    <3> QED  BY <3>1, ZenonT(40) DEF InitializePartition, Objects, Saves
  <2>2. InitializeMinReady(o) \in Objects
    <3>1. Inflate(SaveMinReady(o)) \in Objects
      BY MinReadyType
    <3> QED  BY <3>1 DEF InitializeMinReady, Objects
  <2>3. InitializeBlueGreen(o) \in Objects
    <3> DEFINE save == [min |-> IF o.saved.min = "0" THEN o.min ELSE Or(o.saved.min, o.min),
                        deadline |-> IF kind = "BGCloneSet" THEN None
                                     ELSE Or(o.saved.deadline, o.deadline),
                        budget |-> Or(o.saved.budget, Or(o.budget, Default)),
                        type |-> None]
               set == [w EXCEPT !.control = TRUE, !.saved = save, !.min = Held,
                                !.budget = "0"]
    <3>1. /\ Or(o.saved.min, o.min) \in Minimums
          /\ Or(o.saved.deadline, o.deadline) \in Deadlines
          /\ Or(o.saved.budget, Or(o.budget, Default)) \in Budgets
      BY ObjectFields, OrType
    <3>2. save \in Saves
      BY <3>1, ObjectFields DEF Saves
    <3> HIDE DEF save
    <3>3. set \in Objects
      BY <3>2 DEF Objects
    <3>4. [set EXCEPT !.paused = FALSE] \in Objects
          /\ [set EXCEPT !.deadline = Held, !.type = "RollingUpdate"] \in Objects
      BY <3>3 DEF Objects
    <3> QED  BY <3>4 DEF InitializeBlueGreen, save
  <2>4. InitializeOther(o) \in Objects
    BY DEF InitializeOther, Objects
  <2> QED  BY <2>1, <2>2, <2>3, <2>4 DEF Initialized
<1>2. Upgraded \in Objects
  <2>1. UpgradeMinReady \in Objects
    BY MinReadyType DEF UpgradeMinReady, Objects
  <2> QED  BY <2>1 DEF Upgraded, Objects
<1>3. Finalized(o) \in Objects
  <2>1. ASSUME NEW F PROVE PutBack(o, F) \in Objects
    <3> DEFINE v(f) == IF f \in F /\ o.saved[f] # None THEN o.saved[f] ELSE w[f]
    <3>1. v("min") \in Minimums /\ v("deadline") \in Deadlines
          /\ v("budget") \in Budgets \cup {Nil} /\ v("type") \in Types
      BY ObjectFields
    <3>2. PutBack(o, F) = [w EXCEPT !.min = v("min"), !.deadline = v("deadline"),
                             !.budget = v("budget"), !.type = v("type"),
                             !.saved = NotSaved, !.control = FALSE]
      BY DEF PutBack
    <3> HIDE DEF v
    <3> QED  BY <3>1, <3>2 DEF Objects
  <2>2. KeepHeld \in BOOLEAN /\ br.part \in BOOLEAN
    BY DEF KeepHeld, Releases
  <2>3. FinalizePartition(o) \in Objects
    BY <2>1, <2>2 DEF FinalizePartition, Objects
  <2>4. FinalizeBlueGreen(o) \in Objects
    BY <2>1 DEF FinalizeBlueGreen, Objects
  <2>5. FinalizeNativeDaemonSet(o) \in Objects
    <3>1. Or(o.saved.type, "RollingUpdate") \in Types
      BY ObjectFields, OrType
    <3> QED  BY <3>1, ObjectFields DEF FinalizeNativeDaemonSet, Objects
  <2>6. [w EXCEPT !.control = FALSE, !.paused = br.part] \in Objects
    BY <2>2 DEF Objects
  <2>7. [w EXCEPT !.control = FALSE,
                  !.part = IF br.part \/ KeepHeld THEN w.part ELSE "open"] \in Objects
    BY ObjectFields DEF Objects
  <2> QED  BY <2>1, <2>3, <2>4, <2>5, <2>6, <2>7 DEF Finalized
<1> QED  BY <1>1, <1>2, <1>3

\* What the user writes is an object: another template, other settings.
LEMMA UserType ==
  ASSUME NEW o \in Objects
  PROVE  /\ Templates(o) \subseteq Objects
         /\ \A s \in Settings :
              /\ [o EXCEPT !.min = s.min, !.deadline = s.deadline, !.budget = s.budget,
                           !.type = s.type] \in Objects
              /\ [o EXCEPT !.min = s.min] \in Objects
              /\ [o EXCEPT !.deadline = s.deadline] \in Objects
         /\ [o EXCEPT !.paused = FALSE] \in Objects
         /\ [o EXCEPT !.progress = FALSE] \in Objects
         /\ [o EXCEPT !.type = "Recreate", !.budget = Nil] \in Objects
<1>1. Templates(o) \subseteq Objects
  <2>1. (o.rev % 3) + 1 \in 1..3 /\ 1 - o.stamp \in 0..1
        /\ (IF o.id = 1 THEN 2 ELSE 1) \in 0..2
    BY ObjectFields
  <2>2. /\ [o EXCEPT !.rev = (o.rev % 3) + 1] \in Objects
        /\ [o EXCEPT !.stamp = 1 - o.stamp] \in Objects
        /\ [o EXCEPT !.id = IF o.id = 1 THEN 2 ELSE 1] \in Objects
    BY <2>1 DEF Objects
  <2> QED  BY <2>2, Zenon DEF Templates
<1>2. ASSUME NEW s \in Settings
      PROVE  /\ [o EXCEPT !.min = s.min, !.deadline = s.deadline, !.budget = s.budget,
                          !.type = s.type] \in Objects
             /\ [o EXCEPT !.min = s.min] \in Objects
             /\ [o EXCEPT !.deadline = s.deadline] \in Objects
  BY SettingsType DEF Objects
<1>3. [o EXCEPT !.paused = FALSE] \in Objects /\ [o EXCEPT !.progress = FALSE] \in Objects
      /\ [o EXCEPT !.type = "Recreate", !.budget = Nil] \in Objects
  BY Literals DEF Objects
<1> QED  BY <1>1, <1>2, <1>3

\* A write through the webhooks keeps both copies objects.
LEMMA StoreType ==
  ASSUME TypeOK, NEW new \in Objects, NEW versions, Store(new, versions)
  PROVE  w' \in Objects /\ prev' \in Objects
BY AdmitType DEF TypeOK, Store

\* The user's actions preserve the types.
LEMMA UserWriteType ==
  ASSUME TypeOK, NEW new \in Objects, NEW asked \in Settings, Write(new, asked)
  PROVE  TypeOK'
<1>1. PICK versions \in 0..2 : Store(new, versions)
  BY DEF Write
<1>2. w' \in Objects /\ prev' \in Objects
  BY <1>1, StoreType
<1>3. want' = asked /\ ops' \in 0..MaxOps /\ UNCHANGED <<kind, ro, br>>
  BY KindsAssumption DEF Write, TypeOK
<1> QED  BY <1>2, <1>3 DEF TypeOK

\* Every step preserves the types.
LEMMA NextType == TypeOK /\ [Next]_vars => TypeOK'
<1> SUFFICES ASSUME TypeOK, [Next]_vars PROVE TypeOK'
  OBVIOUS
<1>1. w \in Objects /\ prev \in Objects /\ want \in Settings
      /\ br \in Releases
      /\ ro \in [applies : BOOLEAN, finalising : BOOLEAN]
  BY DEF TypeOK
<1>2. ASSUME NEW p \in Phases PROVE [br EXCEPT !.phase = p] \in Releases
  BY <1>1 DEF Releases
<1>3. "Progressing" \in Phases /\ "Finalizing" \in Phases /\ "Completed" \in Phases
      /\ "Preparing" \in Phases /\ "none" \in Phases
  BY DEF Phases
<1>4. CASE Initialize \/ Finalize \/ UpgradeBatch
  <2>1. \A o \in Read : o \in Objects
    BY <1>1 DEF Read
  <2>2. w' \in Objects /\ prev' \in Objects
    BY <1>1, <1>4, <2>1, ControlType, StoreType DEF Initialize, Finalize, UpgradeBatch
  <2>3. br' \in Releases
    BY <1>1, <1>2, <1>3, <1>4 DEF Initialize, Finalize, UpgradeBatch
  <2> QED  BY <1>4, <2>2, <2>3 DEF Initialize, Finalize, UpgradeBatch, TypeOK
<1>5. CASE RemoveProgressing
  <2>1. w' \in Objects /\ prev' \in Objects
    BY <1>1, <1>5, UserType, StoreType DEF RemoveProgressing
  <2> QED  BY <1>1, <1>5, <2>1 DEF RemoveProgressing, TypeOK
<1>6. CASE \/ CreateBatchRelease \/ ContinuousRelease \/ ResumeWorkload
           \/ RemoveBatchRelease
  <2>1. br' \in Releases
    <3>1. w.rev \in 0..3
      BY <1>1, ObjectFields
    <3>2. ASSUME NEW wait \in BOOLEAN
          PROVE  [br EXCEPT !.phase = "Finalizing", !.part = FALSE, !.wait = wait]
                   \in Releases
      BY <1>1, <1>3 DEF Releases
    <3>3. NoRelease \in Releases
          /\ [phase |-> "Preparing", rev |-> w.rev, part |-> TRUE, wait |-> FALSE]
               \in Releases
      BY <1>3, <3>1 DEF NoRelease, Releases
    <3> QED
      BY <1>2, <1>3, <1>6, <3>2, <3>3
      DEF CreateBatchRelease, ContinuousRelease, ResumeWorkload, RemoveBatchRelease
  <2>2. w' = w /\ prev' \in {prev, w} /\ UNCHANGED <<kind, want, ro, ops>>
    BY <1>6
    DEF CreateBatchRelease, ContinuousRelease, ResumeWorkload, RemoveBatchRelease
  <2> QED  BY <1>1, <2>1, <2>2 DEF TypeOK
<1>7. CASE FinalisingEnds \/ RolloutDeleted
  BY <1>1, <1>7 DEF FinalisingEnds, RolloutDeleted, TypeOK
<1>8. CASE UserApplies \/ UserEdits \/ UserPatches \/ UserResumes \/ RecreateWritten
  <2>1. CASE UserApplies
    BY <1>1, <2>1, UserType, UserWriteType DEF UserApplies
  <2>2. CASE UserEdits
    BY <1>1, <2>2, UserType, UserWriteType DEF UserEdits
  <2>3. CASE UserPatches
    <3>1. ASSUME NEW s \in Settings
          PROVE  [want EXCEPT !.min = s.min] \in Settings
                 /\ [want EXCEPT !.deadline = s.deadline] \in Settings
      BY <1>1 DEF Settings
    <3> QED  BY <1>1, <2>3, <3>1, UserType, UserWriteType DEF UserPatches
  <2>4. CASE UserResumes \/ RecreateWritten
    BY <1>1, <2>4, UserType, UserWriteType DEF UserResumes, RecreateWritten
  <2> QED  BY <1>8, <2>1, <2>2, <2>3, <2>4
<1>9. CASE UNCHANGED vars
  BY <1>9 DEF vars, TypeOK
<1> QED  BY <1>4, <1>5, <1>6, <1>7, <1>8, <1>9 DEF Next

\* Initially they hold.
LEMMA InitType == Init => TypeOK
<1> SUFFICES ASSUME Init PROVE TypeOK
  OBVIOUS
<1>1. want \in Settings /\ want.budget \in Budgets
  BY DEF Init, Settings, UserTypes, Budgets
<1>2. w \in Objects
  BY <1>1, SettingsType, Literals DEF Init, Objects
<1> QED
  BY <1>1, <1>2, KindsAssumption DEF Init, TypeOK, NoRelease, Releases, Phases

\* The object, its cached copy and what the controllers know of them keep
\* their types, whoever writes.
THEOREM TypeCorrect == Spec => []TypeOK
BY InitType, NextType, PTL DEF Spec

-----------------------------------------------------------------------------
(* A Deployment in progress is frozen.                                     *)

\* Whatever is written, the webhook stores a Deployment in progress paused,
\* unless a blue-green release holds its settings.
LEMMA AdmitFrozen ==
  ASSUME NEW old \in Objects, NEW new \in Objects, NEW versions,
         ro.applies, kind \in Deployments \ {"MinReady"},
         Admit(old, new, versions).progress
  PROVE  \/ Admit(old, new, versions).paused
         \/ kind = "BGDeployment" /\ HasSaved(Admit(old, new, versions))
<1> DEFINE r == Admit(old, new, versions)
<1>1. r = handleDeployment(old, new, versions)
  BY DEF Admit, Deployments
<1>2. CASE new.progress
  <2>1. r = DeploymentInProgress(old, new)
    BY <1>1, <1>2 DEF handleDeployment
  <2>2. PartitionInProgress(old, new).paused /\ DefaultInProgress(old, new).paused
        /\ BlueGreenInProgress(old, new).saved = new.saved
    BY DEF PartitionInProgress, DefaultInProgress, BlueGreenInProgress, Objects
  <2> QED  BY <2>1, <2>2 DEF DeploymentInProgress, HasSaved
<1>3. CASE ~new.progress
  <2>1. r = new \/ r = DeploymentEnters(old, new, versions)
    BY <1>1, <1>3 DEF handleDeployment
  <2>2. [[new EXCEPT !.paused = TRUE] EXCEPT !.progress = TRUE].paused
    BY DEF Objects
  <2> QED  BY <1>3, <2>1, <2>2 DEF DeploymentEnters
<1> QED  BY <1>2, <1>3

\* Every action that writes the workload writes it through the webhooks.
LEMMA WrittenAdmitted ==
  ASSUME TypeOK, [Next]_vars
  PROVE  /\ kind' = kind
         /\ ro'.applies => ro.applies
         /\ \/ w' = w
            \/ /\ ro'.applies = ro.applies
               /\ \E new \in Objects, versions \in 0..2 : w' = Admit(w, new, versions)
<1>1. w \in Objects /\ prev \in Objects /\ br \in Releases
      /\ ro \in [applies : BOOLEAN, finalising : BOOLEAN]
  BY DEF TypeOK
<1>2. CASE Initialize \/ Finalize \/ UpgradeBatch
  <2>1. \A o \in Read : Initialized(o) \in Objects /\ Finalized(o) \in Objects
    BY <1>1, ControlType DEF Read
  <2>2. Upgraded \in Objects
    BY <1>1, ControlType
  <2> QED  BY <1>2, <2>1, <2>2 DEF Initialize, Finalize, UpgradeBatch, Store
<1>3. CASE RemoveProgressing
  <2>1. ro'.applies = ro.applies /\ kind' = kind
    BY <1>1, <1>3 DEF RemoveProgressing
  <2>2. [w EXCEPT !.progress = FALSE] \in Objects
    BY <1>1, UserType
  <2>3. w' = Admit(w, [w EXCEPT !.progress = FALSE], 1)
    BY <1>3 DEF RemoveProgressing, Store
  <2>4. \E new \in Objects, versions \in 0..2 : w' = Admit(w, new, versions)
    <3> DEFINE n == [w EXCEPT !.progress = FALSE]
    <3>1. n \in Objects /\ w' = Admit(w, n, 1)
      BY <2>2, <2>3
    <3> HIDE DEF n
    <3> QED  BY <3>1
  <2> QED  BY <2>1, <2>4
<1>4. CASE \/ CreateBatchRelease \/ ContinuousRelease \/ ResumeWorkload
           \/ RemoveBatchRelease \/ FinalisingEnds \/ RolloutDeleted \/ UNCHANGED vars
  BY <1>1, <1>4
  DEF CreateBatchRelease, ContinuousRelease, ResumeWorkload, RemoveBatchRelease,
      FinalisingEnds, RolloutDeleted, vars
<1>5. ASSUME NEW new \in Objects, NEW asked, Write(new, asked)
      PROVE  /\ kind' = kind /\ ro' = ro
             /\ \E n \in Objects, versions \in 0..2 : w' = Admit(w, n, versions)
  BY <1>5 DEF Write, Store
<1>6. CASE UserApplies
  BY <1>1, <1>5, <1>6, UserType DEF UserApplies
<1>7. CASE UserEdits
  BY <1>1, <1>5, <1>7, UserType DEF UserEdits
<1>8. CASE UserPatches
  BY <1>1, <1>5, <1>8, UserType DEF UserPatches
<1>9. CASE UserResumes \/ RecreateWritten
  BY <1>1, <1>5, <1>9, UserType DEF UserResumes, RecreateWritten
<1> QED  BY <1>2, <1>3, <1>4, <1>6, <1>7, <1>8, <1>9 DEF Next

\* As long as a Deployment of the partition or the canary style is in progress
\* it is paused, whatever the user and the control planes write and however old
\* the object is that they read.
THEOREM StaysFrozen == Spec => []FrozenInProgress
<1>1. Init => FrozenInProgress
  BY DEF Init, FrozenInProgress
<1>2. TypeOK /\ FrozenInProgress /\ [Next]_vars => FrozenInProgress'
  <2> SUFFICES ASSUME TypeOK, FrozenInProgress, [Next]_vars,
                      ro'.applies, w'.progress, kind' \in {"Deployment", "Canary"}
               PROVE  w'.paused
    BY DEF FrozenInProgress
  <2>1. kind' = kind /\ ro.applies /\ w \in Objects
    BY WrittenAdmitted DEF TypeOK
  <2>2. CASE w' = w
    BY <2>1, <2>2 DEF FrozenInProgress
  <2>3. CASE \E new \in Objects, versions \in 0..2 : w' = Admit(w, new, versions)
    BY <2>1, <2>3, AdmitFrozen DEF Deployments
  <2> QED  BY <2>2, <2>3, WrittenAdmitted
<1> QED  BY <1>1, <1>2, TypeCorrect, PTL DEF Spec

\* The webhook stores a blue-green Deployment in progress paused, or as frozen
\* as it was sent.
LEMMA AdmitAsFrozen ==
  ASSUME NEW old \in Objects, NEW new \in Objects, NEW versions,
         ro.applies, kind = "BGDeployment", Admit(old, new, versions).progress,
         new.progress /\ HasSaved(new) => Frozen(new)
  PROVE  Frozen(Admit(old, new, versions))
<1> DEFINE r == Admit(old, new, versions)
<1>1. r = handleDeployment(old, new, versions)
  BY DEF Admit, Deployments
<1>2. CASE new.progress /\ HasSaved(new)
  <2>1. r = BlueGreenInProgress(old, new)
    BY <1>1, <1>2 DEF handleDeployment, DeploymentInProgress
  <2>2. /\ r.min = new.min /\ r.deadline = new.deadline
        /\ r.paused = (new.paused \/ RevisionChange(old, new))
        /\ r.budget = (IF old.type = "RollingUpdate" THEN Or(new.budget, Default)
                       ELSE new.budget)
    BY <2>1 DEF BlueGreenInProgress, Objects
  <2>3. new.budget = "0" => r.budget = "0"
    BY <2>2 DEF Or, Nil, None
  <2> HIDE DEF r
  <2> QED  BY <1>2, <2>2, <2>3 DEF Frozen, r
<1>3. CASE new.progress /\ ~HasSaved(new)
  <2>1. r = DefaultInProgress(old, new)
    BY <1>1, <1>3 DEF handleDeployment, DeploymentInProgress
  <2> QED  BY <2>1 DEF DefaultInProgress, Objects, Frozen
<1>4. CASE ~new.progress
  <2>1. r = new \/ r = DeploymentEnters(old, new, versions)
    BY <1>1, <1>4 DEF handleDeployment
  <2>2. [[new EXCEPT !.paused = TRUE] EXCEPT !.progress = TRUE].paused
    BY DEF Objects
  <2> QED  BY <1>4, <2>1, <2>2 DEF DeploymentEnters, Frozen
<1> QED  BY <1>2, <1>3, <1>4

\* What a controller writes to a frozen blue-green Deployment is frozen, or has
\* put the user's settings back.
LEMMA ControlFrozen ==
  ASSUME TypeOK, kind = "BGDeployment", Frozen(w), NEW o \in Objects
  PROVE  /\ Frozen(Initialized(o))
         /\ ReadyForBlueGreen(w) => Frozen(Upgraded)
         /\ Frozen(Finalized(o)) \/ ~HasSaved(Finalized(o))
<1>1. w \in Objects
  BY DEF TypeOK
<1>2. Frozen(Initialized(o))
  BY <1>1 DEF Initialized, InitializeBlueGreen, BlueGreens, Frozen, Objects
<1>3. ASSUME ReadyForBlueGreen(w) PROVE Frozen(Upgraded)
  BY <1>1, <1>3 DEF Upgraded, ReadyForBlueGreen, Frozen, Objects
<1>4. Frozen(Finalized(o)) \/ ~HasSaved(Finalized(o))
  <2>1. Finalized(o) = FinalizeBlueGreen(o)
    BY DEF Finalized, BlueGreens
  <2> DEFINE back == PutBack(o, Fields)
  <2>2. back.saved = NotSaved /\ [back EXCEPT !.paused = FALSE].saved = NotSaved
    BY <1>1 DEF PutBack, Objects
  <2>3. FinalizeBlueGreen(o) \in {w, [back EXCEPT !.paused = FALSE]}
    BY DEF FinalizeBlueGreen
  <2> HIDE DEF back
  <2> QED  BY <2>1, <2>2, <2>3 DEF HasSaved
<1> QED  BY <1>2, <1>3, <1>4

\* No webhook and no controller opens a blue-green Deployment in progress, also
\* when it has read an object that is out of date: the user alone does, by
\* applying his own settings again.
THEOREM ThawedByTheUser == Spec => OnlyTheUserThaws
<1>1. ASSUME TypeOK, [Next]_vars,
             kind = "BGDeployment", ro'.applies, w'.progress, Frozen(w), ~Frozen(w')
      PROVE  ops' > ops
  <2>1. w \in Objects /\ prev \in Objects /\ ops \in Nat /\ ro.applies
        /\ \A o \in Read : o \in Objects
    <3>1. w \in Objects /\ prev \in Objects /\ ops \in Nat
      BY <1>1 DEF TypeOK
    <3>2. ro.applies
      BY <1>1, WrittenAdmitted
    <3> QED  BY <3>1, <3>2 DEF Read
  <2>2. ASSUME NEW new \in Objects, Store(new, 1), Frozen(new) \/ ~HasSaved(new) \/ ~new.progress
        PROVE  FALSE
    BY <1>1, <2>1, <2>2, AdmitAsFrozen DEF Store
  <2>3. CASE Initialize
    <3>1. PICK o \in Read : Store(Initialized(o), 1)
      BY <2>3 DEF Initialize
    <3> QED  BY <1>1, <2>1, <2>2, <3>1, ControlFrozen, ControlType DEF TypeOK
  <2>4. CASE UpgradeBatch
    <3>1. Store(Upgraded, 1) /\ ReadyForBlueGreen(w)
      BY <1>1, <2>4 DEF UpgradeBatch, BlueGreens
    <3> QED  BY <1>1, <2>1, <2>2, <3>1, ControlFrozen, ControlType DEF TypeOK
  <2>5. CASE Finalize
    <3>1. PICK o \in Read : Store(Finalized(o), 1)
      BY <2>5 DEF Finalize
    <3> QED  BY <1>1, <2>1, <2>2, <3>1, ControlFrozen, ControlType DEF TypeOK
  <2>6. CASE RemoveProgressing
    <3> DEFINE n == [w EXCEPT !.progress = FALSE]
    <3>1. n \in Objects /\ ~n.progress /\ Store(n, 1)
      BY <2>1, <2>6, UserType DEF RemoveProgressing, Objects
    <3> HIDE DEF n
    <3> QED  BY <2>2, <3>1
  <2>7. CASE \/ CreateBatchRelease \/ ContinuousRelease \/ ResumeWorkload
             \/ RemoveBatchRelease \/ FinalisingEnds \/ RolloutDeleted \/ UNCHANGED vars
    <3>1. w' = w
      BY <2>7 DEF CreateBatchRelease, ContinuousRelease, ResumeWorkload, RemoveBatchRelease,
                  FinalisingEnds, RolloutDeleted, vars
    <3> QED  BY <1>1, <3>1
  <2>8. CASE UserApplies \/ UserEdits \/ UserPatches \/ UserResumes \/ RecreateWritten
    <3>1. ops' = ops + 1
      BY <2>8 DEF UserApplies, UserEdits, UserPatches, UserResumes, RecreateWritten, Write
    <3> QED  BY <2>1, <3>1
  <2> QED  BY <1>1, <2>3, <2>4, <2>5, <2>6, <2>7, <2>8 DEF Next
<1>2. TypeOK /\ [Next]_vars
        => [kind = "BGDeployment" /\ ro'.applies /\ w'.progress /\ Frozen(w) /\ ~Frozen(w')
              => ops' > ops]_vars
  BY <1>1
<1> QED  BY <1>2, TypeCorrect, PTL DEF Spec, OnlyTheUserThaws

-----------------------------------------------------------------------------
(* The lease.  The invariant says, for each kind, which combinations of the *)
(* object's strategy and its annotations occur: what the webhooks and the   *)
(* control planes take for the user's settings is his, and not a value of   *)
(* the release, only in these.  s are the settings the user asked for last. *)

\* Partition style: while the type is Recreate the annotation is there, and a
\* strategy next to the annotation is what the user wrote last.
PartitionSound(o, s) ==
  /\ o.saved.min = None /\ o.saved.deadline = None
  /\ o.type \in {"RollingUpdate", "Recreate"} /\ (o.type = "Recreate" <=> o.budget = Nil)
  /\ HasSaved(o) => o.saved.type = "RollingUpdate" /\ o.saved.budget # None
  /\ o.type = "Recreate" => HasSaved(o)
  /\ HasSaved(o) /\ o.type # "Recreate" => o.budget = s.budget

\* MinReady: next to complete annotations both settings are held, or both are
\* what the user wrote last; a batch is only upgraded when they are saved.
MinReadySound(o, s, phase) ==
  /\ o.type = "RollingUpdate" /\ o.budget # Nil /\ o.saved.type = None
  /\ HasSaved(o) =>
       /\ None \notin {o.saved.min, o.saved.deadline, o.saved.budget}
       /\ \/ o.min = Held /\ o.deadline = Held
          \/ o.min = s.min /\ o.deadline = s.deadline
  /\ phase = "Progressing" => HasSaved(o)

\* Blue-green: what is saved is complete, and saved while under control.
BlueGreenSound(o) ==
  /\ o.type = "RollingUpdate" /\ o.budget # Nil /\ o.saved.type = None
  /\ HasSaved(o) <=> o.control
  /\ HasSaved(o) =>
       /\ None \notin {o.saved.min, o.saved.budget}
       /\ o.saved.deadline = None <=> kind = "BGCloneSet"

\* A native DaemonSet: the annotation never holds the type of the release.
NativeDaemonSetSound(o) ==
  /\ o.type \in {"RollingUpdate", "OnDelete"}
  /\ o.saved.min = None /\ o.saved.deadline = None /\ o.saved.budget = None
  /\ o.saved.type \in {None, "RollingUpdate"}

\* The other kinds keep the settings where they are.
PlainSound(o) == o.type = "RollingUpdate" /\ o.saved = NotSaved

\* o is sound, for the kind of the workload.
Sound(o, s, phase) ==
  /\ kind = "Deployment" => PartitionSound(o, s)
  /\ kind = "MinReady" => MinReadySound(o, s, phase)
  /\ kind \in BlueGreens => BlueGreenSound(o)
  /\ kind = "NativeDaemonSet" => NativeDaemonSetSound(o)
  /\ kind \in Knobs \cup {"Canary"} => PlainSound(o)

\* The inductive invariant; a native DaemonSet may be put back from a copy
\* that is one write behind.
CustodyInv ==
  /\ TypeOK
  /\ kind \notin Stale => prev = w
  /\ Sound(w, want, br.phase)
  /\ kind = "NativeDaemonSet" => NativeDaemonSetSound(prev)

\* The setting f kept for the user by the object o (Own, of any object).
Kept(o, f) ==
  IF o.saved[f] # None THEN o.saved[f]
  ELSE IF kind = "NativeDaemonSet" /\ o[f] = "OnDelete" THEN "RollingUpdate" ELSE o[f]

\* r keeps what o keeps, or what the user asked for.
KeptFrom(o, r, s) ==
  /\ Kept(r, "min") \in {Kept(o, "min"), s.min}
  /\ Kept(r, "deadline") \in {Kept(o, "deadline"), s.deadline}
  /\ Kept(r, "budget") \in {Kept(o, "budget"), s.budget}
  /\ Kept(r, "type") \in {Kept(o, "type"), s.type}

\* Some annotation is there.
LEMMA SavedSome ==
  ASSUME NEW o \in Objects
  PROVE  HasSaved(o) <=> \/ o.saved.min # None \/ o.saved.deadline # None
                         \/ o.saved.budget # None \/ o.saved.type # None
<1>1. NotSaved.min = None /\ NotSaved.deadline = None /\ NotSaved.budget = None
      /\ NotSaved.type = None
  BY DEF NotSaved
<1>2. ASSUME o.saved.min = None, o.saved.deadline = None, o.saved.budget = None,
             o.saved.type = None
      PROVE  o.saved = NotSaved
  BY <1>2 DEF Objects, Saves, NotSaved
<1> QED  BY <1>1, <1>2 DEF HasSaved

\* What the webhook of a Deployment stores.
LEMMA AdmitDeployment ==
  ASSUME NEW old, NEW new, NEW versions, kind \in Deployments
  PROVE  LET r == Admit(old, new, versions) IN
         \/ r = new /\ ~(ro.applies /\ new.progress)
         \/ r = DeploymentInProgress(old, new) /\ ro.applies /\ new.progress
         \/ kind # "MinReady" /\ r = [[new EXCEPT !.paused = TRUE] EXCEPT !.progress = TRUE]
         \/ kind = "MinReady" /\ CanEnroll(new, None)
              /\ r = [Enroll(new, None) EXCEPT !.progress = TRUE]
         \/ kind = "MinReady" /\ r = [new EXCEPT !.progress = TRUE]
<1> DEFINE r == Admit(old, new, versions)
<1>1. \/ r = new /\ ~ro.applies
      \/ r = handleDeployment(old, new, versions) /\ ro.applies
  <2>1. CASE ro.applies
    BY <2>1 DEF Admit, Deployments
  <2>2. CASE ~ro.applies
    BY <2>2 DEF Admit, Deployments
  <2> QED  BY <2>1, <2>2
<1>2. CASE ro.applies /\ new.progress
  BY <1>1, <1>2 DEF handleDeployment
<1>3. CASE ~(ro.applies /\ new.progress)
  <2>1. r = new \/ r = DeploymentEnters(old, new, versions)
    BY <1>1, <1>3 DEF handleDeployment
  <2> QED  BY <1>3, <2>1 DEF DeploymentEnters
<1> QED  BY <1>2, <1>3

\* An object written with the template it has is not a new revision.
LEMMA SameRevision ==
  ASSUME NEW old, NEW new, old.rev = new.rev, old.stamp = new.stamp, old.id = new.id
  PROVE  ~RevisionChange(old, new)
BY DEF RevisionChange

-----------------------------------------------------------------------------
(* What the user sends.                                                    *)

\* A manifest with all settings.
Applied(new, s) ==
  /\ new.saved = w.saved /\ new.control = w.control
  /\ new.min = s.min /\ new.deadline = s.deadline /\ new.budget = s.budget
  /\ new.type = s.type

\* A change in place: settings other than the one he changes stay.
Edited(new, s) ==
  /\ new.saved = w.saved /\ new.control = w.control
  /\ new.budget = w.budget /\ new.type = w.type /\ s.budget = want.budget
  /\ new.min \in {w.min, s.min} /\ new.deadline \in {w.deadline, s.deadline}
  /\ kind = "MinReady" /\ HasSaved(w) =>
       new.min = w.min /\ new.deadline = w.deadline /\ s = want
  /\ kind = "NativeDaemonSet" /\ RevisionChange(w, new) => w.type # "OnDelete"

\* Recreate, in the middle of a release.
Recreated(new, s) ==
  /\ new = [w EXCEPT !.type = "Recreate", !.budget = Nil] /\ s = want
  /\ kind \in Deployments /\ w.progress /\ ro.applies
  /\ kind = "MinReady" => HasSaved(w)

Sent(new, s) == Applied(new, s) \/ Edited(new, s) \/ Recreated(new, s)

\* Another template leaves the settings alone.
LEMMA TemplatesKeep ==
  ASSUME NEW o \in Objects, NEW t \in Templates(o)
  PROVE  /\ t.saved = o.saved /\ t.control = o.control /\ t.min = o.min
         /\ t.deadline = o.deadline /\ t.budget = o.budget /\ t.type = o.type
<1>1. \/ t = [o EXCEPT !.rev = (o.rev % 3) + 1]
      \/ t = [o EXCEPT !.stamp = 1 - o.stamp]
      \/ t = [o EXCEPT !.id = IF o.id = 1 THEN 2 ELSE 1]
  BY DEF Templates
<1> QED  BY <1>1 DEF Objects

\* Every write of the user sends one of these.
LEMMA UserSends ==
  ASSUME TypeOK, {"reedit", "partial"} \cap Ops = {},
         UserApplies \/ UserEdits \/ UserPatches \/ UserResumes \/ RecreateWritten
  PROVE  \E new \in Objects, s \in Settings, versions \in 0..2 :
           /\ Sent(new, s) /\ Store(new, versions) /\ want' = s
           /\ UNCHANGED <<kind, ro, br>>
<1>1. w \in Objects /\ want \in Settings
  BY DEF TypeOK
<1>2. ASSUME NEW new \in Objects, NEW s \in Settings, Sent(new, s), Write(new, s)
      PROVE  \E n \in Objects, a \in Settings, versions \in 0..2 :
               /\ Sent(n, a) /\ Store(n, versions) /\ want' = a
               /\ UNCHANGED <<kind, ro, br>>
  BY <1>2 DEF Write
<1>3. CASE UserApplies
  <2>1. PICK s \in Settings, o \in Templates(w) \cup {w} :
          Write([o EXCEPT !.min = s.min, !.deadline = s.deadline, !.budget = s.budget,
                          !.type = s.type], s)
    BY <1>3 DEF UserApplies
  <2> DEFINE new == [o EXCEPT !.min = s.min, !.deadline = s.deadline,
                              !.budget = s.budget, !.type = s.type]
  <2>2. o \in Objects /\ new \in Objects
    BY <1>1, UserType
  <2>3. o.saved = w.saved /\ o.control = w.control
    BY <1>1, TemplatesKeep
  <2>4. Applied(new, s)
    BY <2>2, <2>3 DEF Applied, Objects
  <2>5. Write(new, s)
    BY <2>1
  <2> HIDE DEF new
  <2> QED  BY <1>2, <2>2, <2>4, <2>5 DEF Sent
<1>4. ASSUME NEW o \in Templates(w), InPlace
      PROVE  kind = "NativeDaemonSet" => w.type # "OnDelete"
  BY <1>4 DEF InPlace
<1>5. CASE UserEdits
  <2>1. PICK o \in Templates(w) : InPlace /\ Write(o, want)
    BY <1>5 DEF UserEdits
  <2>2. o \in Objects
    BY <1>1, UserType
  <2>3. Edited(o, want)
    BY <1>1, <1>4, <2>1, TemplatesKeep DEF Edited
  <2> QED  BY <1>1, <1>2, <2>1, <2>2, <2>3 DEF Sent
<1>6. CASE UserPatches
  <2>1. PICK o \in Templates(w), s \in Settings :
          \/ Write([o EXCEPT !.min = s.min], [want EXCEPT !.min = s.min])
          \/ Write([o EXCEPT !.deadline = s.deadline], [want EXCEPT !.deadline = s.deadline])
    BY <1>6 DEF UserPatches
  <2>2. ~(kind = "MinReady" /\ HasSaved(w)) /\ InPlace
    BY <1>6 DEF UserPatches
  <2>3. o \in Objects
    BY <1>1, UserType
  <2>4. CASE Write([o EXCEPT !.min = s.min], [want EXCEPT !.min = s.min])
    <3> DEFINE n == [o EXCEPT !.min = s.min]
               a == [want EXCEPT !.min = s.min]
    <3>1. n \in Objects /\ a \in Settings /\ Write(n, a)
      BY <1>1, <2>3, <2>4, UserType DEF Settings
    <3>2. n.min = a.min /\ n.deadline = o.deadline /\ n.budget = o.budget
          /\ n.type = o.type /\ n.saved = o.saved /\ n.control = o.control
          /\ a.budget = want.budget
      BY <1>1, <2>3 DEF Objects, Settings
    <3> HIDE DEF n, a
    <3>3. Edited(n, a)
      BY <1>1, <1>4, <2>2, <3>2, TemplatesKeep DEF Edited
    <3> QED  BY <1>2, <3>1, <3>3 DEF Sent
  <2>5. CASE Write([o EXCEPT !.deadline = s.deadline], [want EXCEPT !.deadline = s.deadline])
    <3> DEFINE n == [o EXCEPT !.deadline = s.deadline]
               a == [want EXCEPT !.deadline = s.deadline]
    <3>1. n \in Objects /\ a \in Settings /\ Write(n, a)
      BY <1>1, <2>3, <2>5, UserType DEF Settings
    <3>2. n.deadline = a.deadline /\ n.min = o.min /\ n.budget = o.budget
          /\ n.type = o.type /\ n.saved = o.saved /\ n.control = o.control
          /\ a.budget = want.budget
      BY <1>1, <2>3 DEF Objects, Settings
    <3> HIDE DEF n, a
    <3>3. Edited(n, a)
      BY <1>1, <1>4, <2>2, <3>2, TemplatesKeep DEF Edited
    <3> QED  BY <1>2, <3>1, <3>3 DEF Sent
  <2> QED  BY <2>1, <2>4, <2>5
<1>7. CASE UserResumes
  <2> DEFINE n == [w EXCEPT !.paused = FALSE]
  <2>1. n \in Objects /\ Write(n, want)
    BY <1>1, <1>7, UserType DEF UserResumes
  <2>2. n.rev = w.rev /\ n.stamp = w.stamp /\ n.id = w.id
        /\ n.min = w.min /\ n.deadline = w.deadline /\ n.budget = w.budget
        /\ n.type = w.type /\ n.saved = w.saved /\ n.control = w.control
    BY <1>1 DEF Objects
  <2> HIDE DEF n
  <2>3. Edited(n, want)
    BY <2>2, SameRevision DEF Edited
  <2> QED  BY <1>1, <1>2, <2>1, <2>3 DEF Sent
<1>8. CASE RecreateWritten
  <2> DEFINE n == [w EXCEPT !.type = "Recreate", !.budget = Nil]
  <2>1. n \in Objects /\ Write(n, want) /\ Recreated(n, want)
    BY <1>1, <1>8, UserType DEF RecreateWritten, Recreated
  <2> HIDE DEF n
  <2> QED  BY <1>1, <1>2, <2>1 DEF Sent
<1> QED  BY <1>3, <1>5, <1>6, <1>7, <1>8

\* r has the strategy and the annotations of o.
SameSettings(o, r) ==
  /\ r.saved = o.saved /\ r.min = o.min /\ r.deadline = o.deadline
  /\ r.budget = o.budget /\ r.type = o.type

\* Then it keeps what o keeps.
LEMMA SameKept ==
  ASSUME NEW o, NEW r, NEW s, SameSettings(o, r)
  PROVE  KeptFrom(o, r, s) /\ (HasSaved(o) <=> HasSaved(r))
BY DEF SameSettings, KeptFrom, Kept, HasSaved

\* The fields a release may change besides the settings.
LEMMA OtherFields ==
  ASSUME NEW o \in Objects, NEW p, NEW g, NEW c, NEW k
  PROVE  /\ SameSettings(o, [o EXCEPT !.paused = p])
         /\ SameSettings(o, [o EXCEPT !.progress = g])
         /\ SameSettings(o, [[o EXCEPT !.paused = p] EXCEPT !.progress = g])
         /\ SameSettings(o, [o EXCEPT !.control = c])
         /\ SameSettings(o, [o EXCEPT !.part = k])
         /\ SameSettings(o, [o EXCEPT !.control = c, !.part = k])
         /\ SameSettings(o, [o EXCEPT !.part = k, !.progress = g])
         /\ SameSettings(o, [o EXCEPT !.control = c, !.paused = p])
BY DEF SameSettings, Objects

\* Recreate is taken back as long as nothing is saved.
LEMMA RecreateUndone ==
  ASSUME kind \in Deployments \ {"MinReady"}, w \in Objects,
         NEW new \in Objects, NEW s, NEW versions, Recreated(new, s), ~HasSaved(w)
  PROVE  /\ SameSettings(w, Admit(w, new, versions))
         /\ Admit(w, new, versions).control = w.control
<1> DEFINE r == Admit(w, new, versions)
<1>1. /\ new.saved = w.saved /\ new.control = w.control /\ new.min = w.min /\ new.deadline = w.deadline
      /\ new.type = "Recreate" /\ new.budget = Nil /\ new.progress
  BY DEF Recreated, Objects
<1>2. r = DeploymentInProgress(w, new)
  BY <1>1 DEF Recreated, Admit, handleDeployment, Deployments
<1>3. r = DefaultInProgress(w, new)
  BY <1>1, <1>2 DEF DeploymentInProgress, HasSaved
<1> QED  BY <1>1, <1>3 DEF DefaultInProgress, Objects, SameSettings

\* The settings that are saved are put back over the ones of the release.
LEMMA PutBackAll ==
  ASSUME w \in Objects
  PROVE  LET back == PutBack(w, Fields)
             v(f) == IF w.saved[f] # None THEN w.saved[f] ELSE w[f]
         IN /\ back \in Objects /\ back.saved = NotSaved /\ ~back.control
            /\ back.min = v("min") /\ back.deadline = v("deadline")
            /\ back.budget = v("budget") /\ back.type = v("type")
            /\ back.rev = w.rev /\ back.stamp = w.stamp /\ back.id = w.id
<1> DEFINE back == PutBack(w, Fields)
           v(f) == IF w.saved[f] # None THEN w.saved[f] ELSE w[f]
<1>1. v("min") \in Minimums /\ v("deadline") \in Deadlines
      /\ v("budget") \in Budgets \cup {Nil} /\ v("type") \in Types
  BY ObjectFields
<1>2. back = [w EXCEPT !.min = v("min"), !.deadline = v("deadline"),
                       !.budget = v("budget"), !.type = v("type"),
                       !.saved = NotSaved, !.control = FALSE]
  BY DEF PutBack, Fields
<1> SUFFICES /\ back \in Objects /\ back.saved = NotSaved /\ ~back.control
             /\ back.min = v("min") /\ back.deadline = v("deadline")
             /\ back.budget = v("budget") /\ back.type = v("type")
             /\ back.rev = w.rev /\ back.stamp = w.stamp /\ back.id = w.id
  OBVIOUS
<1> HIDE DEF v, back
<1>3. back \in Objects
  BY <1>1, <1>2, Literals DEF Objects
<1> QED  BY <1>2, <1>3 DEF Objects

-----------------------------------------------------------------------------
(* The partition style of a Deployment.                                    *)

\* The webhook keeps a sound object sound and the settings where they are, or
\* takes the ones the user asked for into the annotation.
LEMMA PartitionAdmits ==
  ASSUME kind = "Deployment", NEW old \in Objects, NEW new \in Objects, NEW versions,
         NEW s \in Settings, PartitionSound(new, s)
  PROVE  LET r == Admit(old, new, versions) IN
         PartitionSound(r, s) /\ KeptFrom(new, r, s) /\ (HasSaved(new) => HasSaved(r))
<1> DEFINE r == Admit(old, new, versions)
<1> USE Literals
<1>1. r \in Objects
  BY AdmitType
<1>2. ASSUME r.saved = new.saved, r.min = new.min, r.deadline = new.deadline,
             r.budget = new.budget, r.type = new.type
      PROVE  PartitionSound(r, s) /\ KeptFrom(new, r, s) /\ (HasSaved(new) => HasSaved(r))
  BY <1>2 DEF PartitionSound, KeptFrom, Kept, HasSaved
<1>3. CASE r = new \/ r = [[new EXCEPT !.paused = TRUE] EXCEPT !.progress = TRUE]
  BY <1>2, <1>3, ZenonT(40) DEF Objects
<1>4. CASE r = DeploymentInProgress(old, new)
  <2>1. CASE HasSaved(new)
    <3>1. r = PartitionInProgress(old, new)
      BY <1>4, <2>1 DEF DeploymentInProgress
    <3>2. /\ r.min = new.min /\ r.deadline = new.deadline /\ r.budget = Nil
          /\ r.type = "Recreate" /\ r.saved.min = None /\ r.saved.deadline = None
          /\ r.saved.type = "RollingUpdate"
          /\ r.saved.budget = Or(new.budget, Or(new.saved.budget, Default))
      BY <2>1, <3>1 DEF PartitionInProgress, PartitionSound, Objects, Saves
    <3>3. r.saved.budget \in {new.saved.budget, s.budget} /\ r.saved.budget # None
      BY <2>1, <3>2, SettingsType, ObjectFields DEF PartitionSound, Or
    <3>4. HasSaved(r)
      BY <1>1, <3>3, SavedSome
    <3>5. KeptFrom(new, r, s)
      BY <2>1, <3>2, <3>3 DEF KeptFrom, Kept, PartitionSound
    <3> QED  BY <3>2, <3>3, <3>4, <3>5 DEF PartitionSound
  <2>2. CASE ~HasSaved(new)
    <3>1. r = DefaultInProgress(old, new) /\ new.type = "RollingUpdate"
      BY <1>4, <2>2 DEF DeploymentInProgress, PartitionSound
    <3> QED  BY <1>2, <3>1 DEF DefaultInProgress, Objects
  <2> QED  BY <2>1, <2>2
<1>5. \/ r = new \/ r = DeploymentInProgress(old, new)
      \/ r = [[new EXCEPT !.paused = TRUE] EXCEPT !.progress = TRUE]
  <2>1. kind \in Deployments /\ kind # "MinReady"
    BY DEF Deployments
  <2> QED  BY <2>1, AdmitDeployment, Zenon
<1> QED  BY <1>3, <1>4, <1>5

\* What the user sends leaves the settings his.
LEMMA PartitionUser ==
  ASSUME kind = "Deployment", w \in Objects, want \in Settings,
         NEW new \in Objects, NEW s \in Settings, NEW versions,
         PartitionSound(w, want), Sent(new, s)
  PROVE  LET r == Admit(w, new, versions) IN
         PartitionSound(r, s) /\ KeptFrom(w, r, s) /\ (HasSaved(w) => HasSaved(r))
<1> DEFINE r == Admit(w, new, versions)
<1> USE Literals
<1>1. CASE Applied(new, s)
  <2>1. PartitionSound(new, s) /\ (HasSaved(w) => HasSaved(new))
    BY <1>1, SettingsType DEF Applied, PartitionSound, HasSaved
  <2>2. KeptFrom(w, new, s)
    BY <1>1 DEF Applied, KeptFrom, Kept
  <2>3. KeptFrom(new, r, s) /\ PartitionSound(r, s) /\ (HasSaved(new) => HasSaved(r))
    BY <2>1, PartitionAdmits
  <2> QED  BY <2>1, <2>2, <2>3 DEF KeptFrom
<1>2. CASE Edited(new, s)
  <2>1. PartitionSound(new, s) /\ (HasSaved(w) => HasSaved(new))
    BY <1>2 DEF Edited, PartitionSound, HasSaved
  <2>2. KeptFrom(w, new, s)
    BY <1>2 DEF Edited, KeptFrom, Kept
  <2>3. KeptFrom(new, r, s) /\ PartitionSound(r, s) /\ (HasSaved(new) => HasSaved(r))
    BY <2>1, PartitionAdmits
  <2> QED  BY <2>1, <2>2, <2>3 DEF KeptFrom
<1>3. CASE Recreated(new, s)
  <2>1. /\ new.saved = w.saved /\ new.min = w.min /\ new.deadline = w.deadline
        /\ new.type = "Recreate" /\ new.budget = Nil /\ new.progress
    BY <1>3 DEF Recreated, Objects
  <2>2. CASE HasSaved(w)
    <3>1. PartitionSound(new, s) /\ HasSaved(new)
      BY <2>1, <2>2 DEF PartitionSound, HasSaved
    <3>2. KeptFrom(w, new, s)
      BY <2>1, <2>2 DEF PartitionSound, KeptFrom, Kept
    <3>3. KeptFrom(new, r, s) /\ PartitionSound(r, s) /\ HasSaved(r)
      BY <3>1, PartitionAdmits
    <3> QED  BY <3>2, <3>3 DEF KeptFrom
  <2>3. CASE ~HasSaved(w)
    <3>1. SameSettings(w, r)
      BY <1>3, <2>3, RecreateUndone DEF Deployments
    <3> QED
      BY <1>3, <3>1, SameKept DEF PartitionSound, SameSettings, HasSaved, Recreated
  <2> QED  BY <2>2, <2>3
<1> QED  BY <1>1, <1>2, <1>3 DEF Sent

\* What the controllers write leaves the settings the user's.
LEMMA PartitionControl ==
  ASSUME kind = "Deployment", w \in Objects, want \in Settings, br \in Releases,
         PartitionSound(w, want),
         NEW new \in {Initialized(w), Upgraded, Finalized(w), [w EXCEPT !.progress = FALSE]}
  PROVE  LET r == Admit(w, new, 1) IN
         PartitionSound(r, want) /\ KeptFrom(w, r, want)
<1> USE Literals
<1>1. new \in Objects
  BY ControlType, UserType
<1>2. ASSUME new.saved = w.saved, new.min = w.min, new.deadline = w.deadline,
             new.budget = w.budget, new.type = w.type
      PROVE  PartitionSound(new, want) /\ KeptFrom(w, new, want)
  BY <1>2 DEF PartitionSound, KeptFrom, Kept, HasSaved
<1>3. PartitionSound(new, want) /\ KeptFrom(w, new, want)
  <2>1. CASE new = Initialized(w)
    <3>1. new = InitializePartition(w)
      BY <2>1 DEF Initialized, BlueGreens
    <3>2. CASE UnderControl(w)
      BY <1>2, <3>1, <3>2 DEF InitializePartition
    <3>3. CASE ~UnderControl(w)
      <4>1. /\ new.min = w.min /\ new.deadline = w.deadline /\ new.type = "Recreate"
            /\ new.budget = Nil /\ new.saved.min = w.saved.min
            /\ new.saved.deadline = w.saved.deadline /\ new.saved.type = "RollingUpdate"
            /\ new.saved.budget = Or(w.budget, Or(w.saved.budget, Default))
        BY <3>1, <3>3 DEF InitializePartition, Objects, Saves
      <4>2. new.saved.budget = (IF w.type = "Recreate" THEN w.saved.budget ELSE w.budget)
            /\ new.saved.budget # None
        BY <4>1, ObjectFields, SavedSome DEF PartitionSound, Or
      <4>3. HasSaved(new)
        BY <1>1, <4>1, SavedSome
      <4>4. new.saved.budget \in {Kept(w, "budget"), want.budget}
        BY <4>2, SavedSome DEF PartitionSound, Kept
      <4>5. Kept(w, "type") = "RollingUpdate"
        BY SavedSome DEF PartitionSound, Kept
      <4> QED  BY <4>1, <4>2, <4>3, <4>4, <4>5 DEF PartitionSound, KeptFrom, Kept
    <3> QED  BY <3>2, <3>3
  <2>2. CASE new = Finalized(w)
    <3>1. new = FinalizePartition(w)
      BY <2>2 DEF Finalized, BlueGreens
    <3>2. CASE ~(w.control /\ w.paused)
      BY <1>2, <3>1, <3>2 DEF FinalizePartition
    <3>3. CASE w.control /\ w.paused /\ br.part
      BY <1>2, <3>1, <3>3 DEF FinalizePartition, Objects
    <3>4. CASE w.control /\ w.paused /\ ~br.part
      <4> DEFINE back == IF w.type = "Recreate" THEN PutBack(w, {"type", "budget"})
                         ELSE PutBack(w, {})
      <4>1. new = [back EXCEPT !.paused = KeepHeld]
        BY <3>1, <3>4 DEF FinalizePartition
      <4>2. /\ back.saved = NotSaved /\ back.min = w.min /\ back.deadline = w.deadline
            /\ back.type = "RollingUpdate"
            /\ back.budget = (IF w.type = "Recreate" THEN w.saved.budget ELSE w.budget)
        BY ObjectFields DEF PutBack, PartitionSound, Objects
      <4>3. /\ new.saved = NotSaved /\ new.min = w.min /\ new.deadline = w.deadline
            /\ new.type = "RollingUpdate" /\ new.budget = back.budget
        BY <4>1, <4>2 DEF PutBack, Objects
      <4>4. new.budget # Nil /\ new.budget \in {Kept(w, "budget"), want.budget}
        BY <4>2, <4>3, ObjectFields, SavedSome DEF PartitionSound, Kept
      <4>5. Kept(w, "type") = "RollingUpdate"
        BY SavedSome DEF PartitionSound, Kept
      <4> QED
        BY <4>3, <4>4, <4>5 DEF PartitionSound, KeptFrom, Kept, HasSaved, NotSaved
    <3> QED  BY <3>2, <3>3, <3>4
  <2>3. CASE new = Upgraded \/ new = [w EXCEPT !.progress = FALSE]
    BY <1>2, <2>3 DEF Upgraded, Objects, BlueGreens, Knobs
  <2> QED  BY <2>1, <2>2, <2>3
<1> DEFINE r == Admit(w, new, 1)
<1>4. PartitionSound(r, want) /\ KeptFrom(new, r, want)
  BY <1>1, <1>3, PartitionAdmits
<1> QED  BY <1>3, <1>4 DEF KeptFrom

-----------------------------------------------------------------------------
(* The kinds whose settings stay in the object.                            *)

\* The webhook only holds the partition or pauses.
LEMMA PlainAdmits ==
  ASSUME kind \in Knobs \cup {"Canary"}, NEW old \in Objects, NEW new \in Objects,
         NEW versions, PlainSound(new)
  PROVE  SameSettings(new, Admit(old, new, versions))
<1> DEFINE r == Admit(old, new, versions)
<1>1. SameSettings(new, new)
  BY DEF SameSettings
<1>2. CASE kind = "Canary"
  <2>1. kind \in Deployments /\ kind # "MinReady"
    BY <1>2 DEF Deployments
  <2>2. \/ r = new \/ r = DeploymentInProgress(old, new)
        \/ r = [[new EXCEPT !.paused = TRUE] EXCEPT !.progress = TRUE]
    BY <2>1, AdmitDeployment, Zenon
  <2>3. DeploymentInProgress(old, new) = DefaultInProgress(old, new)
    BY <1>2 DEF DeploymentInProgress
  <2>4. SameSettings(new, DefaultInProgress(old, new))
    BY DEF DefaultInProgress, SameSettings, PlainSound, Objects
  <2>5. SameSettings(new, [[new EXCEPT !.paused = TRUE] EXCEPT !.progress = TRUE])
    BY OtherFields
  <2> QED  BY <1>1, <2>2, <2>3, <2>4, <2>5, Zenon
<1>3. CASE kind \in Knobs
  <2>1. r = new \/ r = handleKnob(old, new, versions)
    BY <1>3 DEF Admit, Knobs, Deployments
  <2>2. handleKnob(old, new, versions)
          \in {new, [new EXCEPT !.part = "held", !.progress = TRUE]}
    BY DEF handleKnob
  <2>3. SameSettings(new, [new EXCEPT !.part = "held", !.progress = TRUE])
    BY OtherFields
  <2> QED  BY <1>1, <2>1, <2>2, <2>3, Zenon
<1> QED  BY <1>2, <1>3

\* What the user sends changes the settings to what he asks for.
LEMMA PlainUser ==
  ASSUME kind \in Knobs \cup {"Canary"}, w \in Objects, want \in Settings,
         NEW new \in Objects, NEW s \in Settings, NEW versions, PlainSound(w), Sent(new, s)
  PROVE  LET r == Admit(w, new, versions) IN
         PlainSound(r) /\ KeptFrom(w, r, s) /\ (HasSaved(w) => HasSaved(r))
<1> DEFINE r == Admit(w, new, versions)
<1>1. CASE Applied(new, s) \/ Edited(new, s)
  <2>1. PlainSound(new)
    BY <1>1, SettingsType DEF Applied, Edited, PlainSound
  <2>2. KeptFrom(w, new, s)
    BY <1>1 DEF Applied, Edited, KeptFrom, Kept, Knobs
  <2>3. SameSettings(new, r)
    BY <2>1, PlainAdmits
  <2>4. KeptFrom(new, r, s)
    BY <2>3, SameKept
  <2> QED
    BY <2>1, <2>2, <2>3, <2>4 DEF KeptFrom, PlainSound, SameSettings, HasSaved
<1>2. CASE Recreated(new, s)
  <2>1. kind \in Deployments \ {"MinReady"}
    BY <1>2 DEF Recreated, Knobs, Deployments
  <2>2. SameSettings(w, r)
    BY <1>2, <2>1, RecreateUndone DEF PlainSound, HasSaved
  <2> QED  BY <2>2, SameKept DEF PlainSound, SameSettings, HasSaved
<1> QED  BY <1>1, <1>2 DEF Sent

\* The control planes write other fields, however old the object they read.
LEMMA PlainControl ==
  ASSUME kind \in Knobs \cup {"Canary"}, w \in Objects, br \in Releases,
         NEW o \in Objects, PlainSound(w),
         NEW new \in {Initialized(o), Upgraded, Finalized(o), [w EXCEPT !.progress = FALSE]}
  PROVE  LET r == Admit(w, new, 1) IN PlainSound(r) /\ KeptFrom(w, r, want)
<1> DEFINE r == Admit(w, new, 1)
<1>1. new \in Objects
  BY ControlType, UserType
<1>2. SameSettings(w, new)
  <2>1. SameSettings(w, w)
    BY DEF SameSettings
  <2>2. Initialized(o) = InitializeOther(o)
    BY DEF Initialized, Knobs, BlueGreens
  <2>3. SameSettings(w, InitializeOther(o))
    BY <2>1, OtherFields DEF InitializeOther, Knobs
  <2>4. SameSettings(w, Upgraded)
    BY <2>1, OtherFields DEF Upgraded, Knobs
  <2>5. SameSettings(w, Finalized(o))
    BY OtherFields DEF Finalized, Knobs, BlueGreens
  <2> QED  BY <2>2, <2>3, <2>4, <2>5, OtherFields
<1>3. PlainSound(new)
  BY <1>2 DEF PlainSound, SameSettings
<1>4. SameSettings(new, r)
  BY <1>1, <1>3, PlainAdmits
<1>5. SameSettings(w, r)
  BY <1>2, <1>4 DEF SameSettings
<1> QED  BY <1>5, SameKept DEF PlainSound, SameSettings

-----------------------------------------------------------------------------
(* A native DaemonSet.                                                     *)

\* Its type is kept as RollingUpdate, whatever the copies say.
LEMMA NativeKept ==
  ASSUME kind = "NativeDaemonSet", NEW o, NEW r, NEW s,
         NativeDaemonSetSound(o), NativeDaemonSetSound(r),
         r.min \in {o.min, s.min}, r.deadline \in {o.deadline, s.deadline},
         r.budget \in {o.budget, s.budget}, o.min # "OnDelete", o.deadline # "OnDelete",
         o.budget # "OnDelete", s.min # "OnDelete", s.deadline # "OnDelete",
         s.budget # "OnDelete"
  PROVE  KeptFrom(o, r, s)
BY DEF NativeDaemonSetSound, KeptFrom, Kept, None

\* What the user sends is saved unless it is the type of the release.
LEMMA NativeUser ==
  ASSUME kind = "NativeDaemonSet", w \in Objects, want \in Settings,
         NEW new \in Objects, NEW s \in Settings, NEW versions,
         NativeDaemonSetSound(w), Sent(new, s)
  PROVE  LET r == Admit(w, new, versions) IN
         NativeDaemonSetSound(r) /\ KeptFrom(w, r, s) /\ (HasSaved(w) => HasSaved(r))
<1> DEFINE r == Admit(w, new, versions)
<1>1. Applied(new, s) \/ Edited(new, s)
  BY DEF Sent, Recreated, Deployments
<1>2. new.saved = w.saved /\ new.type \in {"RollingUpdate", "OnDelete"}
      /\ new.min \in {w.min, s.min} /\ new.deadline \in {w.deadline, s.deadline}
      /\ new.budget \in {w.budget, s.budget}
      /\ (RevisionChange(w, new) => new.type = "RollingUpdate")
  BY <1>1, SettingsType DEF Applied, Edited, NativeDaemonSetSound
<1>3. \/ r = new
      \/ /\ RevisionChange(w, new)
         /\ r = [new EXCEPT !.saved.type = new.type, !.type = "OnDelete", !.progress = TRUE]
  BY DEF Admit, handleNativeDaemonSet, Deployments
<1>4. NativeDaemonSetSound(r) /\ r.min = new.min /\ r.deadline = new.deadline
      /\ r.budget = new.budget /\ (r.saved = w.saved \/ r.saved.type = "RollingUpdate")
  <2>1. CASE r = new
    BY <1>2, <2>1 DEF NativeDaemonSetSound
  <2>2. CASE RevisionChange(w, new) /\ r # new
    <3>1. /\ r.min = new.min /\ r.deadline = new.deadline /\ r.budget = new.budget
          /\ r.type = "OnDelete" /\ r.saved.type = "RollingUpdate"
          /\ r.saved.min = new.saved.min /\ r.saved.deadline = new.saved.deadline
          /\ r.saved.budget = new.saved.budget
      <4>1. r = [new EXCEPT !.saved.type = new.type, !.type = "OnDelete",
                            !.progress = TRUE]
        BY <1>3, <2>2
      <4> HIDE DEF r
      <4>2. new.type = "RollingUpdate"
        BY <1>2, <2>2
      <4> QED  BY <4>1, <4>2 DEF Objects, Saves
    <3> QED  BY <1>2, <3>1 DEF NativeDaemonSetSound
  <2> QED  BY <1>3, <2>1, <2>2
<1>5. /\ w.min # "OnDelete" /\ w.deadline # "OnDelete" /\ w.budget # "OnDelete"
      /\ s.min # "OnDelete" /\ s.deadline # "OnDelete" /\ s.budget # "OnDelete"
  BY ObjectFields, SettingsType DEF Minimums, Deadlines, Budgets, Held, Nil, Default
<1>6. HasSaved(w) => HasSaved(r)
  BY <1>4, Literals, AdmitType, SavedSome DEF HasSaved
<1>7. KeptFrom(w, r, s)
  BY <1>2, <1>4, <1>5, NativeKept
<1> QED  BY <1>4, <1>6, <1>7

\* What is put back is RollingUpdate, however old the object that is read.
LEMMA NativeControl ==
  ASSUME kind = "NativeDaemonSet", w \in Objects, want \in Settings, br \in Releases,
         NEW o \in Objects, NativeDaemonSetSound(w), NativeDaemonSetSound(o),
         NEW new \in {Initialized(o), Upgraded, Finalized(o), [w EXCEPT !.progress = FALSE]}
  PROVE  LET r == Admit(w, new, 1) IN NativeDaemonSetSound(r) /\ KeptFrom(w, r, want)
<1> DEFINE r == Admit(w, new, 1)
<1>1. /\ Initialized(o) \in {w, [w EXCEPT !.control = TRUE, !.type = "OnDelete"]}
      /\ Upgraded = w /\ Finalized(o) = FinalizeNativeDaemonSet(o)
  BY DEF Initialized, InitializeOther, Upgraded, Finalized, BlueGreens, Knobs
<1>2. Or(o.saved.type, "RollingUpdate") = "RollingUpdate"
  BY DEF NativeDaemonSetSound, Or
<1>3. /\ new.rev = w.rev /\ new.stamp = w.stamp /\ new.id = w.id
      /\ new.min = w.min /\ new.deadline = w.deadline /\ new.budget = w.budget
      /\ new.type \in {w.type, "OnDelete", "RollingUpdate"}
      /\ new.saved \in {w.saved, NotSaved}
  <2>1. CASE new = FinalizeNativeDaemonSet(o)
    BY <1>2, <2>1 DEF FinalizeNativeDaemonSet, Objects
  <2>2. CASE new \in {w, [w EXCEPT !.control = TRUE, !.type = "OnDelete"],
                      [w EXCEPT !.progress = FALSE]}
    BY <2>2 DEF Objects
  <2> QED  BY <1>1, <2>1, <2>2
<1>4. r = new
  BY <1>3, SameRevision DEF Admit, handleNativeDaemonSet, Deployments
<1>5. NativeDaemonSetSound(r)
  BY <1>3, <1>4 DEF NativeDaemonSetSound, NotSaved
<1>6. /\ w.min # "OnDelete" /\ w.deadline # "OnDelete" /\ w.budget # "OnDelete"
      /\ want.min # "OnDelete" /\ want.deadline # "OnDelete" /\ want.budget # "OnDelete"
  BY ObjectFields, SettingsType DEF Minimums, Deadlines, Budgets, Held, Nil, Default
<1> QED  BY <1>3, <1>4, <1>5, <1>6, NativeKept

-----------------------------------------------------------------------------
(* The blue-green styles.                                                  *)

\* An object with the settings and the control of a sound one is sound.
LEMMA BlueGreenSame ==
  ASSUME NEW o, NEW r, BlueGreenSound(o), SameSettings(o, r), r.control = o.control
  PROVE  BlueGreenSound(r)
BY DEF BlueGreenSound, SameSettings, HasSaved

\* The webhook keeps a sound object sound, with the settings it keeps.
LEMMA BlueGreenAdmits ==
  ASSUME kind \in BlueGreens, NEW old \in Objects, NEW new \in Objects, NEW versions,
         NEW s, BlueGreenSound(old), BlueGreenSound(new)
  PROVE  LET r == Admit(old, new, versions) IN
         BlueGreenSound(r) /\ KeptFrom(new, r, s) /\ (HasSaved(new) => HasSaved(r))
<1> DEFINE r == Admit(old, new, versions)
<1>1. ASSUME SameSettings(new, r), r.control = new.control
      PROVE  BlueGreenSound(r) /\ KeptFrom(new, r, s) /\ (HasSaved(new) => HasSaved(r))
  BY <1>1, SameKept, BlueGreenSame
<1>2. CASE kind = "BGCloneSet"
  <2>1. r = new \/ r = handleKnob(old, new, versions)
    BY <1>2 DEF Admit, Deployments
  <2>2. handleKnob(old, new, versions)
          \in {new, [new EXCEPT !.part = "held", !.progress = TRUE]}
    BY DEF handleKnob
  <2>3. r = new \/ r = [new EXCEPT !.part = "held", !.progress = TRUE]
    BY <2>1, <2>2, Zenon
  <2> HIDE DEF r
  <2>4. SameSettings(new, r) /\ r.control = new.control
    BY <2>3 DEF SameSettings, Objects
  <2> QED  BY <1>1, <2>4 DEF r
<1>3. CASE kind = "BGDeployment"
  <2>1. kind \in Deployments /\ kind # "MinReady"
    BY <1>3 DEF Deployments
  <2>2. \/ r = new \/ r = DeploymentInProgress(old, new)
        \/ r = [[new EXCEPT !.paused = TRUE] EXCEPT !.progress = TRUE]
    BY <2>1, AdmitDeployment, Zenon
  <2>3. DeploymentInProgress(old, new) \in {BlueGreenInProgress(old, new),
                                            DefaultInProgress(old, new)}
    BY <1>3 DEF DeploymentInProgress
  <2>4. \/ r = new \/ r = BlueGreenInProgress(old, new) \/ r = DefaultInProgress(old, new)
        \/ r = [[new EXCEPT !.paused = TRUE] EXCEPT !.progress = TRUE]
    BY <2>2, <2>3, Zenon
  <2>5. /\ old.type = "RollingUpdate" /\ new.type = "RollingUpdate" /\ new.budget # Nil
        /\ Or(new.budget, Default) = new.budget
    BY Literals, ObjectFields DEF BlueGreenSound, Or
  <2> HIDE DEF r
  <2>6. SameSettings(new, r) /\ r.control = new.control
    BY <2>4, <2>5 DEF SameSettings, BlueGreenInProgress, DefaultInProgress, Objects
  <2> QED  BY <1>1, <2>6 DEF r
<1> QED  BY <1>2, <1>3 DEF BlueGreens

\* What the user sends leaves what is saved alone.
LEMMA BlueGreenUser ==
  ASSUME kind \in BlueGreens, w \in Objects, want \in Settings,
         NEW new \in Objects, NEW s \in Settings, NEW versions,
         BlueGreenSound(w), Sent(new, s)
  PROVE  LET r == Admit(w, new, versions) IN
         BlueGreenSound(r) /\ KeptFrom(w, r, s) /\ (HasSaved(w) => HasSaved(r))
<1> DEFINE r == Admit(w, new, versions)
<1>1. CASE Applied(new, s) \/ Edited(new, s)
  <2>1. BlueGreenSound(new) /\ (HasSaved(w) => HasSaved(new))
    BY <1>1, SettingsType, Literals DEF Applied, Edited, BlueGreenSound, HasSaved
  <2>2. KeptFrom(w, new, s)
    BY <1>1 DEF Applied, Edited, KeptFrom, Kept, BlueGreens
  <2>3. BlueGreenSound(r) /\ KeptFrom(new, r, s) /\ (HasSaved(new) => HasSaved(r))
    BY <2>1, BlueGreenAdmits
  <2> QED  BY <2>1, <2>2, <2>3 DEF KeptFrom
<1>2. CASE Recreated(new, s) /\ ~HasSaved(w)
  <2>1. kind \in Deployments \ {"MinReady"}
    BY <1>2 DEF Recreated, BlueGreens, Deployments
  <2>2. SameSettings(w, r) /\ r.control = w.control
    BY <1>2, <2>1, RecreateUndone
  <2>3. BlueGreenSound(r)
    BY <2>2, BlueGreenSame
  <2> QED  BY <2>2, <2>3, SameKept
<1>3. CASE Recreated(new, s) /\ HasSaved(w)
  <2>1. /\ new.saved = w.saved /\ new.min = w.min /\ new.deadline = w.deadline
        /\ new.type = "Recreate" /\ new.budget = Nil /\ new.progress
        /\ new.control = w.control
    BY <1>3 DEF Recreated, Objects
  <2>2. r = DeploymentInProgress(w, new) /\ kind = "BGDeployment"
    BY <1>3, <2>1 DEF Recreated, Admit, handleDeployment, Deployments, BlueGreens
  <2>3. r = BlueGreenInProgress(w, new)
    BY <1>3, <2>1, <2>2 DEF DeploymentInProgress, HasSaved
  <2>4. /\ r.saved = w.saved /\ r.min = w.min /\ r.deadline = w.deadline
        /\ r.type = "RollingUpdate" /\ r.budget = Default /\ r.control = w.control
    BY <2>1, <2>3 DEF BlueGreenInProgress, BlueGreenSound, Objects, Or
  <2>5. BlueGreenSound(r) /\ HasSaved(r)
    BY <1>3, <2>4, Literals DEF BlueGreenSound, HasSaved
  <2>6. KeptFrom(w, r, s)
    BY <1>3, <2>4 DEF KeptFrom, Kept, BlueGreenSound, BlueGreens
  <2> QED  BY <2>5, <2>6
<1> QED  BY <1>1, <1>2, <1>3 DEF Sent

\* Initialize saves the user's settings once, Finalize puts them back.
LEMMA BlueGreenControl ==
  ASSUME kind \in BlueGreens, w \in Objects, want \in Settings, br \in Releases,
         BlueGreenSound(w),
         NEW new, \/ new = Initialized(w) \/ new = Finalized(w)
                  \/ new = [w EXCEPT !.progress = FALSE]
                  \/ new = Upgraded /\ ReadyForBlueGreen(w)
  PROVE  LET r == Admit(w, new, 1) IN BlueGreenSound(r) /\ KeptFrom(w, r, want)
<1> USE Literals
<1>1. new \in Objects
  BY ControlType, UserType
<1>2. ASSUME SameSettings(w, new), new.control = w.control
      PROVE  BlueGreenSound(new) /\ KeptFrom(w, new, want)
  BY <1>2, SameKept, BlueGreenSame
<1>3. BlueGreenSound(new) /\ KeptFrom(w, new, want)
  <2>1. CASE new = Initialized(w)
    <3>1. new = InitializeBlueGreen(w)
      BY <2>1 DEF Initialized, BlueGreens
    <3>2. CASE w.control
      BY <1>2, <3>1, <3>2 DEF InitializeBlueGreen, SameSettings
    <3>3. CASE ~w.control
      <4>1. w.saved.min = None /\ w.saved.deadline = None /\ w.saved.budget = None
            /\ w.saved.type = None
        BY <3>3, SavedSome DEF BlueGreenSound
      <4>2. /\ w.budget \in Budgets /\ Or(w.budget, Default) = w.budget
            /\ Or(None, w.min) = w.min /\ Or(None, w.deadline) = w.deadline
            /\ Or(None, Or(w.budget, Default)) = w.budget
        BY ObjectFields DEF BlueGreenSound, Or
      <4> DEFINE save == [min |-> w.min,
                          deadline |-> IF kind = "BGCloneSet" THEN None ELSE w.deadline,
                          budget |-> w.budget, type |-> None]
                 set == [w EXCEPT !.control = TRUE, !.saved = save, !.min = Held,
                                  !.budget = "0"]
      <4>3. new = IF kind = "BGCloneSet" THEN [set EXCEPT !.paused = FALSE]
                  ELSE [set EXCEPT !.deadline = Held, !.type = "RollingUpdate"]
        BY <3>1, <3>3, <4>1, <4>2 DEF InitializeBlueGreen, None
      <4>4. /\ new.control /\ new.saved = save /\ new.budget = "0"
            /\ new.type = "RollingUpdate"
            /\ kind = "BGCloneSet" => new.deadline = w.deadline
        BY <4>3 DEF BlueGreenSound, Objects
      <4>5. /\ new.saved.min = w.min /\ new.saved.budget = w.budget
            /\ new.saved.type = None
            /\ new.saved.deadline = (IF kind = "BGCloneSet" THEN None ELSE w.deadline)
        BY <4>4
      <4> HIDE DEF save, set
      <4>6. BlueGreenSound(new)
        <5>1. w.min # None /\ w.budget # None /\ w.deadline # None
          BY <4>2, ObjectFields
        <5>2. HasSaved(new)
          BY <4>5, <5>1 DEF HasSaved, NotSaved
        <5> QED  BY <4>4, <4>5, <5>1, <5>2 DEF BlueGreenSound
      <4>7. KeptFrom(w, new, want)
        BY <4>1, <4>2, <4>4, <4>5, ObjectFields DEF KeptFrom, Kept, BlueGreenSound, BlueGreens
      <4> QED  BY <4>6, <4>7
    <3> QED  BY <3>2, <3>3
  <2>2. CASE new = Finalized(w)
    <3>1. new = FinalizeBlueGreen(w)
      BY <2>2 DEF Finalized, BlueGreens
    <3>2. CASE br.part \/ ~HasSaved(w)
      BY <1>2, <3>1, <3>2 DEF FinalizeBlueGreen, SameSettings
    <3>3. CASE ~br.part /\ HasSaved(w)
      <4>1. new \in {PutBack(w, Fields), [PutBack(w, Fields) EXCEPT !.paused = FALSE]}
        BY <3>1, <3>3 DEF FinalizeBlueGreen
      <4> DEFINE v(f) == IF w.saved[f] # None THEN w.saved[f] ELSE w[f]
      <4>2. /\ new.saved = NotSaved /\ new.min = v("min") /\ new.deadline = v("deadline")
            /\ new.budget = v("budget") /\ new.type = v("type") /\ ~new.control
        <5> DEFINE back == PutBack(w, Fields)
        <5>1. /\ back.saved = NotSaved /\ ~back.control /\ back.min = v("min")
              /\ back.deadline = v("deadline") /\ back.budget = v("budget")
              /\ back.type = v("type") /\ back \in Objects
          BY PutBackAll
        <5>2. new = back \/ new = [back EXCEPT !.paused = FALSE]
          BY <4>1
        <5> HIDE DEF back
        <5>3. SameSettings(back, new) /\ new.control = back.control
          BY <5>1, <5>2 DEF SameSettings, Objects
        <5> HIDE DEF v
        <5> QED  BY <5>1, <5>3 DEF SameSettings
      <4>3. BlueGreenSound(new)
        BY <3>3, <4>2, ObjectFields DEF BlueGreenSound, HasSaved, NotSaved
      <4>4. KeptFrom(w, new, want)
        BY <4>2 DEF KeptFrom, Kept, NotSaved, BlueGreens
      <4> QED  BY <4>3, <4>4
    <3> QED  BY <3>2, <3>3
  <2>3. CASE (new = Upgraded /\ kind = "BGCloneSet") \/ new = [w EXCEPT !.progress = FALSE]
    <3>1. \/ new = [w EXCEPT !.part = "open"] \/ new = [w EXCEPT !.progress = FALSE]
      BY <2>3 DEF Upgraded, BlueGreens, Knobs
    <3>2. SameSettings(w, new) /\ new.control = w.control
      BY <3>1 DEF SameSettings, Objects
    <3> QED  BY <1>2, <3>2
  <2>4. CASE new = Upgraded /\ ReadyForBlueGreen(w) /\ kind = "BGDeployment"
    <3>5. new = [w EXCEPT !.paused = FALSE, !.type = "RollingUpdate", !.budget = "0"]
      BY <2>4 DEF Upgraded, Knobs
    <3>1. /\ new.saved = w.saved /\ new.control = w.control /\ new.min = w.min
          /\ new.deadline = w.deadline /\ new.type = "RollingUpdate" /\ new.budget = "0"
      BY <3>5 DEF Objects
    <3>2. HasSaved(w) /\ w.saved.budget # None /\ w.saved.type = None /\ w.type = "RollingUpdate"
      BY <2>4 DEF ReadyForBlueGreen, BlueGreenSound
    <3>3. BlueGreenSound(new)
      BY <3>1 DEF BlueGreenSound, HasSaved, Nil
    <3>4. KeptFrom(w, new, want)
      BY <2>4, <3>1, <3>2 DEF KeptFrom, Kept
    <3> QED  BY <3>3, <3>4
  <2> QED  BY <2>1, <2>2, <2>3, <2>4 DEF BlueGreens
<1> DEFINE r == Admit(w, new, 1)
<1>4. BlueGreenSound(r) /\ KeptFrom(new, r, want)
  BY <1>1, <1>3, BlueGreenAdmits
<1> QED  BY <1>3, <1>4 DEF KeptFrom

-----------------------------------------------------------------------------
(* MinReady.                                                               *)

\* Settings and annotations alone make an object sound.
LEMMA MinReadySame ==
  ASSUME NEW o, NEW r, NEW s, NEW phase, MinReadySound(o, s, phase), SameSettings(o, r)
  PROVE  MinReadySound(r, s, phase)
BY DEF MinReadySound, SameSettings, HasSaved

\* What is saved is what is kept already, or what the user asked for.
LEMMA MinReadySaves ==
  ASSUME kind = "MinReady", NEW o \in Objects, NEW s \in Settings, NEW phase,
         MinReadySound(o, s, phase), CanSave(o)
  PROVE  LET x == SaveMinReady(o) IN
         /\ x \in Objects /\ x.type = "RollingUpdate" /\ x.saved.type = None
         /\ x.saved.min \in {Kept(o, "min"), s.min} /\ x.saved.min # None
         /\ x.saved.deadline \in {Kept(o, "deadline"), s.deadline}
         /\ x.saved.deadline # None
         /\ x.saved.budget = Kept(o, "budget") /\ x.saved.budget # None
         /\ x.rev = o.rev /\ x.stamp = o.stamp /\ x.id = o.id
         /\ HasSaved(o) => o.saved.budget = x.saved.budget
<1> USE Literals
<1> DEFINE x == SaveMinReady(o)
<1>1. x \in Objects
  BY MinReadyType
<1>2. Or(o.budget, Default) = o.budget /\ o.budget # None
  BY ObjectFields DEF MinReadySound, Or
<1>3. CASE ~HasSaved(o)
  <2>1. x = [o EXCEPT !.saved = [min |-> o.min, deadline |-> o.deadline,
                                 budget |-> o.budget, type |-> None]]
    BY <1>2, <1>3 DEF SaveMinReady
  <2>2. /\ x.type = o.type /\ x.saved = [min |-> o.min, deadline |-> o.deadline,
                                         budget |-> o.budget, type |-> None]
        /\ x.rev = o.rev /\ x.stamp = o.stamp /\ x.id = o.id
    <3> HIDE DEF x
    <3> QED  BY <2>1 DEF Objects
  <2>3. /\ x.saved.min = o.min /\ x.saved.deadline = o.deadline
        /\ x.saved.budget = o.budget /\ x.saved.type = None
    BY <2>2
  <2>4. o.saved.min = None /\ o.saved.deadline = None /\ o.saved.budget = None
        /\ o.saved.type = None
    BY <1>3, SavedSome
  <2> HIDE DEF x
  <2>5. Kept(o, "min") = o.min /\ Kept(o, "deadline") = o.deadline
        /\ Kept(o, "budget") = o.budget
    BY <2>4 DEF Kept
  <2>6. o.min # None /\ o.deadline # None
    BY ObjectFields
  <2> QED  BY <1>1, <1>2, <1>3, <2>2, <2>3, <2>5, <2>6 DEF MinReadySound, x
<1>4. CASE HasSaved(o) /\ Inflated(o)
  <2>1. x = o
    BY <1>4 DEF SaveMinReady
  <2> QED  BY <1>4, <2>1 DEF MinReadySound, Kept
<1>5. CASE HasSaved(o) /\ ~Inflated(o)
  <2>1. x = [o EXCEPT !.saved.min = o.min, !.saved.deadline = o.deadline]
    BY <1>5 DEF SaveMinReady
  <2>2. o.min = s.min /\ o.deadline = s.deadline
    BY <1>5 DEF CanSave, AvailabilityChange, MinReadySound
  <2>3. /\ x.type = o.type /\ x.saved.min = o.min /\ x.saved.deadline = o.deadline
        /\ x.saved.budget = o.saved.budget /\ x.saved.type = o.saved.type
        /\ x.rev = o.rev /\ x.stamp = o.stamp /\ x.id = o.id
    <3> HIDE DEF x
    <3> QED  BY <2>1 DEF Objects, Saves
  <2>4. o.min # None /\ o.deadline # None
    BY ObjectFields
  <2>5. Kept(o, "budget") = o.saved.budget
    BY <1>5 DEF MinReadySound, Kept
  <2> QED  BY <1>1, <1>5, <2>2, <2>3, <2>4, <2>5 DEF MinReadySound
<1> QED  BY <1>3, <1>4, <1>5

\* A held object whose annotations are complete is sound.
LEMMA MinReadyHeld ==
  ASSUME NEW r \in Objects, NEW s, NEW phase, r.min = Held, r.deadline = Held,
         r.type = "RollingUpdate", r.budget # Nil, r.saved.type = None,
         r.saved.min # None, r.saved.deadline # None, r.saved.budget # None
  PROVE  MinReadySound(r, s, phase) /\ HasSaved(r)
BY SavedSome DEF MinReadySound

\* The webhook enrols: it saves and holds.
LEMMA MinReadyEnrols ==
  ASSUME kind = "MinReady", NEW o \in Objects, NEW s \in Settings, NEW phase, NEW before,
         MinReadySound(o, s, phase), CanEnroll(o, before),
         HasSaved(o) /\ before # None => o.budget \in {before, s.budget}
  PROVE  LET r == Enroll(o, before) IN
         /\ r \in Objects /\ MinReadySound(r, s, phase) /\ KeptFrom(o, r, s) /\ HasSaved(r)
<1> USE Literals
<1> DEFINE x == SaveMinReady(o)
           y == IF HasSaved(o) /\ before \notin {None, o.budget}
                THEN [x EXCEPT !.saved.budget = o.budget] ELSE x
           r == Enroll(o, before)
<1>1. CanSave(o)
  BY DEF CanEnroll
<1>2. /\ x \in Objects /\ x.type = "RollingUpdate" /\ x.saved.type = None
      /\ x.saved.min \in {Kept(o, "min"), s.min} /\ x.saved.min # None
      /\ x.saved.deadline \in {Kept(o, "deadline"), s.deadline}
      /\ x.saved.deadline # None
      /\ x.saved.budget = Kept(o, "budget") /\ x.saved.budget # None
  BY <1>1, MinReadySaves
<1>3. Or(o.budget, Default) = o.budget /\ o.budget \in Budgets /\ o.budget # None
  BY ObjectFields DEF MinReadySound, Or
<1>4. r = Inflate(y)
  BY <1>3 DEF Enroll
<1> HIDE DEF x
<1>5. /\ y \in Objects /\ y.type = "RollingUpdate" /\ y.saved.type = None
      /\ y.saved.min = x.saved.min /\ y.saved.deadline = x.saved.deadline
      /\ y.saved.budget \in {Kept(o, "budget"), s.budget} /\ y.saved.budget # None
  <2>1. CASE HasSaved(o) /\ before \notin {None, o.budget}
    <3>1. y = [x EXCEPT !.saved.budget = o.budget] /\ o.budget = s.budget
      BY <2>1
    <3> HIDE DEF y
    <3> QED  BY <1>2, <1>3, <3>1 DEF Objects, Saves
  <2>2. CASE ~(HasSaved(o) /\ before \notin {None, o.budget})
    BY <1>2, <2>2
  <2> QED  BY <2>1, <2>2
<1> HIDE DEF y
<1>6. r \in Objects
  BY MinReadyType
<1>7. /\ r.min = Held /\ r.deadline = Held /\ r.budget = "0" /\ r.type = y.type
      /\ r.saved = y.saved
  BY <1>4, <1>5 DEF Inflate, Objects
<1>8. MinReadySound(r, s, phase) /\ HasSaved(r)
  BY <1>2, <1>5, <1>6, <1>7, MinReadyHeld
<1>9. Kept(o, "type") = "RollingUpdate"
  BY DEF MinReadySound, Kept
<1>10. KeptFrom(o, r, s)
  BY <1>2, <1>5, <1>7, <1>9 DEF KeptFrom, Kept
<1> QED  BY <1>6, <1>8, <1>10

\* What the webhook stores of a sound object is sound and keeps the settings:
\* it enrols a new revision and holds everything else that is saved.
LEMMA MinReadyAdmits ==
  ASSUME kind = "MinReady", NEW old \in Objects, NEW new \in Objects, NEW versions,
         NEW s \in Settings, NEW phase, old.budget # Nil, MinReadySound(new, s, phase),
         HasSaved(new) /\ RevisionChange(old, new) => new.budget \in {old.budget, s.budget}
  PROVE  LET r == Admit(old, new, versions) IN
         /\ MinReadySound(r, s, phase) /\ KeptFrom(new, r, s)
         /\ HasSaved(new) => HasSaved(r)
<1> USE Literals
<1> DEFINE r == Admit(old, new, versions)
<1>1. ASSUME SameSettings(new, r)
      PROVE  MinReadySound(r, s, phase) /\ KeptFrom(new, r, s)
             /\ (HasSaved(new) => HasSaved(r))
  BY <1>1, MinReadySame, SameKept
<1>2. CASE r = new \/ r = [new EXCEPT !.progress = TRUE]
  <2> HIDE DEF r
  <2>1. SameSettings(new, r)
    BY <1>2 DEF SameSettings, Objects
  <2> QED  BY <1>1, <2>1 DEF r
<1>3. CASE CanEnroll(new, None) /\ r = [Enroll(new, None) EXCEPT !.progress = TRUE]
  <2> DEFINE e == Enroll(new, None)
  <2>1. /\ e \in Objects /\ MinReadySound(e, s, phase) /\ KeptFrom(new, e, s)
        /\ HasSaved(e)
    BY <1>3, MinReadyEnrols
  <2>2. r = [e EXCEPT !.progress = TRUE]
    BY <1>3
  <2> HIDE DEF e, r
  <2>3. SameSettings(e, r)
    BY <2>1, <2>2, OtherFields
  <2>4. MinReadySound(r, s, phase) /\ KeptFrom(e, r, s) /\ HasSaved(r)
    BY <2>1, <2>3, MinReadySame, SameKept
  <2> QED  BY <2>1, <2>4 DEF KeptFrom, r
<1>4. CASE r = DeploymentInProgress(old, new)
  <2> DEFINE before == Or(old.budget, Default)
  <2>1. before = old.budget /\ before # None
    BY ObjectFields DEF Or
  <2>2. r = MinReadyInProgress(old, new)
    BY <1>4 DEF DeploymentInProgress
  <2>3. CASE RevisionChange(old, new) /\ CanEnroll(new, before)
    <3>1. r = Enroll(new, before)
      BY <2>2, <2>3 DEF MinReadyInProgress
    <3>2. HasSaved(new) /\ before # None => new.budget \in {before, s.budget}
      BY <2>1, <2>3
    <3> HIDE DEF r, before
    <3>3. MinReadySound(r, s, phase) /\ KeptFrom(new, r, s) /\ HasSaved(r)
      BY <2>3, <3>1, <3>2, MinReadyEnrols
    <3> QED  BY <3>3 DEF r
  <2>4. CASE ~(RevisionChange(old, new) /\ CanEnroll(new, before))
    <3>1. r = enforceMinReadyInflation(old, new)
      BY <2>2, <2>4 DEF MinReadyInProgress
    <3>2. CASE ~HasSaved(new)
      BY <1>2, <3>1, <3>2 DEF enforceMinReadyInflation
    <3>3. CASE HasSaved(new)
      <4>1. r = [new EXCEPT !.type = "RollingUpdate", !.paused = FALSE, !.min = Held,
                            !.deadline = Held, !.budget = new.budget]
        BY <3>1, <3>3 DEF enforceMinReadyInflation, MinReadySound
      <4>2. r \in Objects
        BY AdmitType
      <4> HIDE DEF r
      <4>3. /\ r.min = Held /\ r.deadline = Held /\ r.type = "RollingUpdate"
            /\ r.budget = new.budget /\ r.saved = new.saved
        BY <4>1 DEF Objects
      <4>4. MinReadySound(r, s, phase) /\ HasSaved(r)
        BY <3>3, <4>2, <4>3, MinReadyHeld DEF MinReadySound
      <4>5. KeptFrom(new, r, s)
        BY <3>3, <4>3 DEF KeptFrom, Kept, MinReadySound
      <4> QED  BY <4>4, <4>5 DEF r
    <3> QED  BY <3>2, <3>3
  <2> QED  BY <2>3, <2>4
<1>5. \/ r = new \/ r = [new EXCEPT !.progress = TRUE]
      \/ CanEnroll(new, None) /\ r = [Enroll(new, None) EXCEPT !.progress = TRUE]
      \/ r = DeploymentInProgress(old, new)
  <2>1. kind \in Deployments
    BY DEF Deployments
  <2> QED  BY <2>1, AdmitDeployment, Zenon
<1> QED  BY <1>2, <1>3, <1>4, <1>5

\* What the user sends is saved when all of it is the user's.
LEMMA MinReadyUser ==
  ASSUME kind = "MinReady", w \in Objects, want \in Settings,
         NEW new \in Objects, NEW s \in Settings, NEW versions, NEW phase,
         MinReadySound(w, want, phase), Sent(new, s)
  PROVE  LET r == Admit(w, new, versions) IN
         /\ MinReadySound(r, s, phase) /\ KeptFrom(w, r, s)
         /\ HasSaved(w) => HasSaved(r)
<1> USE Literals
<1> DEFINE r == Admit(w, new, versions)
<1>1. CASE Applied(new, s) \/ Edited(new, s)
  <2>1. MinReadySound(new, s, phase) /\ (HasSaved(w) => HasSaved(new))
        /\ new.budget \in {w.budget, s.budget}
    BY <1>1, SettingsType DEF Applied, Edited, MinReadySound, HasSaved
  <2>2. KeptFrom(w, new, s)
    BY <1>1 DEF Applied, Edited, KeptFrom, Kept
  <2>3. w.budget # Nil
    BY DEF MinReadySound
  <2>4. MinReadySound(r, s, phase) /\ KeptFrom(new, r, s) /\ (HasSaved(new) => HasSaved(r))
    BY <2>1, <2>3, MinReadyAdmits
  <2> QED  BY <2>1, <2>2, <2>4 DEF KeptFrom
<1>2. CASE Recreated(new, s)
  <2>1. /\ new.saved = w.saved /\ new.min = w.min /\ new.deadline = w.deadline
        /\ new.type = "Recreate" /\ new.budget = Nil /\ new.progress
        /\ new.rev = w.rev /\ new.stamp = w.stamp /\ new.id = w.id
        /\ HasSaved(w) /\ HasSaved(new) /\ s = want
    BY <1>2 DEF Recreated, Objects, HasSaved
  <2>2. r = MinReadyInProgress(w, new)
    <3>1. r = DeploymentInProgress(w, new)
      BY <1>2, <2>1 DEF Recreated, Admit, handleDeployment, Deployments
    <3> QED  BY <3>1 DEF DeploymentInProgress
  <2>3. r = enforceMinReadyInflation(w, new)
    BY <2>1, <2>2, SameRevision DEF MinReadyInProgress
  <2>4. r = [new EXCEPT !.type = "RollingUpdate", !.paused = FALSE, !.min = Held,
                        !.deadline = Held, !.budget = Or(w.budget, "0")]
    BY <2>1, <2>3 DEF enforceMinReadyInflation
  <2>5. Or(w.budget, "0") # Nil
    BY ObjectFields DEF Or
  <2>6. r \in Objects
    BY AdmitType
  <2> HIDE DEF r
  <2>7. /\ r.min = Held /\ r.deadline = Held /\ r.type = "RollingUpdate"
        /\ r.budget # Nil /\ r.saved = w.saved
    BY <2>1, <2>4, <2>5 DEF Objects
  <2>8. MinReadySound(r, s, phase) /\ HasSaved(r)
    BY <2>1, <2>6, <2>7, MinReadyHeld DEF MinReadySound
  <2>9. KeptFrom(w, r, s)
    BY <2>1, <2>7 DEF KeptFrom, Kept, MinReadySound
  <2> QED  BY <2>8, <2>9 DEF r
<1> QED  BY <1>1, <1>2 DEF Sent

\* Initialize saves and holds, a batch changes what is held, Finalize puts the
\* settings back; p is the phase after the write.
LEMMA MinReadyControl ==
  ASSUME kind = "MinReady", w \in Objects, want \in Settings, br \in Releases,
         MinReadySound(w, want, br.phase), NEW new, NEW p,
         \/ new = Initialized(w) /\ CanSave(w)
         \/ new = Upgraded /\ br.phase = "Progressing"
         \/ new = Finalized(w) /\ p # "Progressing"
         \/ new = [w EXCEPT !.progress = FALSE] /\ p = br.phase
  PROVE  LET r == Admit(w, new, 1) IN
         MinReadySound(r, want, p) /\ KeptFrom(w, r, want)
<1> USE Literals
<1>1. new \in Objects
  BY ControlType, UserType
<1>2. w.budget # Nil /\ w.type = "RollingUpdate" /\ Kept(w, "type") = "RollingUpdate"
  BY DEF MinReadySound, Kept
<1>3. /\ MinReadySound(new, want, p) /\ KeptFrom(w, new, want)
      /\ new.rev = w.rev /\ new.stamp = w.stamp /\ new.id = w.id
  <2>1. CASE new = Initialized(w) /\ CanSave(w)
    <3> DEFINE x == SaveMinReady(w)
    <3>1. new = [Inflate(x) EXCEPT !.control = TRUE]
      BY <2>1 DEF Initialized, InitializeMinReady, BlueGreens
    <3>2. /\ x \in Objects /\ x.type = "RollingUpdate" /\ x.saved.type = None
          /\ x.saved.min \in {Kept(w, "min"), want.min} /\ x.saved.min # None
          /\ x.saved.deadline \in {Kept(w, "deadline"), want.deadline}
          /\ x.saved.deadline # None
          /\ x.saved.budget = Kept(w, "budget") /\ x.saved.budget # None
          /\ x.rev = w.rev /\ x.stamp = w.stamp /\ x.id = w.id
      BY <2>1, MinReadySaves
    <3> HIDE DEF x
    <3>3. /\ new.min = Held /\ new.deadline = Held /\ new.budget = "0"
          /\ new.type = "RollingUpdate" /\ new.saved = x.saved
          /\ new.rev = w.rev /\ new.stamp = w.stamp /\ new.id = w.id
      BY <3>1, <3>2 DEF Inflate, Objects
    <3>4. MinReadySound(new, want, p)
      BY <1>1, <3>2, <3>3, MinReadyHeld
    <3>5. KeptFrom(w, new, want)
      BY <1>2, <3>2, <3>3 DEF KeptFrom, Kept
    <3> QED  BY <3>3, <3>4, <3>5
  <2>2. CASE new = Upgraded /\ br.phase = "Progressing"
    <3>1. new = UpgradeMinReady
      BY <2>2 DEF Upgraded, Knobs
    <3>2. /\ new.min = Held /\ new.deadline = Held /\ new.budget = "window"
          /\ new.type = w.type /\ new.saved = w.saved
          /\ new.rev = w.rev /\ new.stamp = w.stamp /\ new.id = w.id
      <4>1. CASE Inflated(w)
        <5>1. new = [w EXCEPT !.budget = "window"] /\ w.min = Held /\ w.deadline = Held
          BY <3>1, <4>1 DEF UpgradeMinReady, Inflated
        <5> QED  BY <5>1 DEF Objects
      <4>2. CASE ~Inflated(w)
        BY <3>1, <4>2 DEF UpgradeMinReady, Inflate, Objects
      <4> QED  BY <4>1, <4>2
    <3>3. HasSaved(w)
      BY <2>2 DEF MinReadySound
    <3>4. MinReadySound(new, want, p)
      BY <1>1, <1>2, <3>2, <3>3, MinReadyHeld DEF MinReadySound
    <3>5. KeptFrom(w, new, want)
      BY <3>2, <3>3 DEF KeptFrom, Kept, MinReadySound
    <3> QED  BY <3>2, <3>4, <3>5
  <2>3. CASE new = Finalized(w) /\ p # "Progressing"
    <3>1. new = IF HasSaved(w) THEN PutBack(w, Fields) ELSE w
      BY <2>3 DEF Finalized, BlueGreens
    <3>2. CASE ~HasSaved(w)
      <4>1. new = w
        BY <3>1, <3>2
      <4>2. SameSettings(w, new) /\ MinReadySound(new, want, p)
        BY <2>3, <4>1 DEF SameSettings, MinReadySound
      <4> QED  BY <4>1, <4>2, SameKept
    <3>3. CASE HasSaved(w)
      <4> DEFINE v(f) == IF w.saved[f] # None THEN w.saved[f] ELSE w[f]
      <4>1. /\ new.saved = NotSaved /\ new.min = v("min") /\ new.deadline = v("deadline")
            /\ new.budget = v("budget") /\ new.type = v("type")
            /\ new.rev = w.rev /\ new.stamp = w.stamp /\ new.id = w.id
        BY <3>1, <3>3, PutBackAll
      <4>2. MinReadySound(new, want, p)
        BY <2>3, <3>3, <4>1, ObjectFields DEF MinReadySound, HasSaved, NotSaved
      <4>3. KeptFrom(w, new, want)
        BY <4>1 DEF KeptFrom, Kept, NotSaved
      <4> QED  BY <4>1, <4>2, <4>3
    <3> QED  BY <3>2, <3>3
  <2>4. CASE new = [w EXCEPT !.progress = FALSE] /\ p = br.phase
    <3>1. SameSettings(w, new) /\ new.rev = w.rev /\ new.stamp = w.stamp /\ new.id = w.id
      BY <2>4 DEF SameSettings, Objects
    <3> QED  BY <2>4, <3>1, SameKept, MinReadySame
  <2> QED  BY <2>1, <2>2, <2>3, <2>4
<1> DEFINE r == Admit(w, new, 1)
<1>4. MinReadySound(r, want, p) /\ KeptFrom(new, r, want)
  BY <1>1, <1>2, <1>3, SameRevision, MinReadyAdmits
<1> QED  BY <1>3, <1>4 DEF KeptFrom

-----------------------------------------------------------------------------
(* All kinds together.                                                     *)

\* The kinds that may be read from a cache behind the stored object.  A
\* Deployment of the partition style or a blue-green workload initialized
\* from an old copy loses a setting the user writes in between; a change in
\* place (reedit, partial) may make the webhook save a value of the release.
LeaseAssumption ==
  /\ Stale \cap ({"Deployment"} \cup BlueGreens) = {}
  /\ {"reedit", "partial"} \cap Ops = {}

\* A write of the user.
LEMMA UserKeeps ==
  ASSUME CustodyInv, NEW new \in Objects, NEW s \in Settings, NEW versions, Sent(new, s)
  PROVE  LET r == Admit(w, new, versions) IN
         /\ Sound(r, s, br.phase) /\ KeptFrom(w, r, s) /\ (HasSaved(w) => HasSaved(r))
<1> DEFINE r == Admit(w, new, versions)
<1>1. w \in Objects /\ want \in Settings /\ kind \in Kinds
  BY DEF CustodyInv, TypeOK
<1>2. CASE kind = "Deployment"
  <2>1. PartitionSound(w, want)
    BY <1>2 DEF CustodyInv, Sound
  <2>2. PartitionSound(r, s) /\ KeptFrom(w, r, s) /\ (HasSaved(w) => HasSaved(r))
    BY <1>1, <1>2, <2>1, PartitionUser
  <2> HIDE DEF r
  <2>3. Sound(r, s, br.phase)
    BY <1>2, <2>2 DEF Sound, Knobs, BlueGreens
  <2> QED  BY <2>2, <2>3 DEF r
<1>3. CASE kind = "MinReady"
  <2>1. MinReadySound(w, want, br.phase)
    BY <1>3 DEF CustodyInv, Sound
  <2>2. MinReadySound(r, s, br.phase) /\ KeptFrom(w, r, s) /\ (HasSaved(w) => HasSaved(r))
    BY <1>1, <1>3, <2>1, MinReadyUser
  <2> HIDE DEF r
  <2>3. Sound(r, s, br.phase)
    BY <1>3, <2>2 DEF Sound, Knobs, BlueGreens
  <2> QED  BY <2>2, <2>3 DEF r
<1>4. CASE kind \in BlueGreens
  <2>1. BlueGreenSound(w)
    BY <1>4 DEF CustodyInv, Sound
  <2>2. BlueGreenSound(r) /\ KeptFrom(w, r, s) /\ (HasSaved(w) => HasSaved(r))
    BY <1>1, <1>4, <2>1, BlueGreenUser
  <2> HIDE DEF r
  <2>3. Sound(r, s, br.phase)
    BY <1>4, <2>2 DEF Sound, Knobs, BlueGreens
  <2> QED  BY <2>2, <2>3 DEF r
<1>5. CASE kind = "NativeDaemonSet"
  <2>1. NativeDaemonSetSound(w)
    BY <1>5 DEF CustodyInv, Sound
  <2>2. NativeDaemonSetSound(r) /\ KeptFrom(w, r, s) /\ (HasSaved(w) => HasSaved(r))
    BY <1>1, <1>5, <2>1, NativeUser
  <2> HIDE DEF r
  <2>3. Sound(r, s, br.phase)
    BY <1>5, <2>2 DEF Sound, Knobs, BlueGreens
  <2> QED  BY <2>2, <2>3 DEF r
<1>6. CASE kind \in Knobs \cup {"Canary"}
  <2>1. PlainSound(w)
    BY <1>6 DEF CustodyInv, Sound
  <2>2. PlainSound(r) /\ KeptFrom(w, r, s) /\ (HasSaved(w) => HasSaved(r))
    BY <1>1, <1>6, <2>1, PlainUser
  <2> HIDE DEF r
  <2>3. Sound(r, s, br.phase)
    BY <1>6, <2>2 DEF Sound, Knobs, BlueGreens
  <2> QED  BY <2>2, <2>3 DEF r
<1>7. \/ kind = "Deployment" \/ kind = "MinReady" \/ kind \in BlueGreens
      \/ kind = "NativeDaemonSet" \/ kind \in Knobs \cup {"Canary"}
  BY <1>1, KindsAssumption DEF Deployments, Knobs, BlueGreens
<1> QED  BY <1>2, <1>3, <1>4, <1>5, <1>6, <1>7

\* A write of a controller, from the copy o; p is the phase after it.
LEMMA ControlKeeps ==
  ASSUME LeaseAssumption, CustodyInv, NEW o \in Read, NEW new, NEW p,
         \/ new = Initialized(o) /\ (kind = "MinReady" => CanSave(w))
         \/ new = Upgraded /\ br.phase = "Progressing"
            /\ (kind \in BlueGreens => ReadyForBlueGreen(w))
         \/ new = Finalized(o) /\ p # "Progressing"
         \/ new = [w EXCEPT !.progress = FALSE] /\ p = br.phase
  PROVE  LET r == Admit(w, new, 1) IN Sound(r, want, p) /\ KeptFrom(w, r, want)
<1> DEFINE r == Admit(w, new, 1)
<1>1. /\ w \in Objects /\ prev \in Objects /\ want \in Settings /\ br \in Releases
      /\ kind \in Kinds
  BY DEF CustodyInv, TypeOK
<1>2. o \in Objects
  BY <1>1 DEF Read
<1>3. kind \in {"Deployment", "MinReady"} \cup BlueGreens => o = w
  <2>1. kind = "MinReady" => o = w
    BY DEF Read
  <2>2. kind \in {"Deployment"} \cup BlueGreens => o = w
    BY DEF Read, CustodyInv, LeaseAssumption
  <2> QED  BY <2>1, <2>2
<1>4. new \in {Initialized(o), Upgraded, Finalized(o), [w EXCEPT !.progress = FALSE]}
  OBVIOUS
<1>5. CASE kind = "Deployment"
  <2>1. PartitionSound(w, want)
    BY <1>5 DEF CustodyInv, Sound
  <2>2. PartitionSound(r, want) /\ KeptFrom(w, r, want)
    BY <1>1, <1>3, <1>4, <1>5, <2>1, PartitionControl
  <2> HIDE DEF r
  <2>3. Sound(r, want, p)
    BY <1>5, <2>2 DEF Sound, Knobs, BlueGreens
  <2> QED  BY <2>2, <2>3 DEF r
<1>6. CASE kind = "MinReady"
  <2>1. MinReadySound(w, want, br.phase)
    BY <1>6 DEF CustodyInv, Sound
  <2>2. MinReadySound(r, want, p) /\ KeptFrom(w, r, want)
    BY <1>1, <1>3, <1>6, <2>1, MinReadyControl
  <2> HIDE DEF r
  <2>3. Sound(r, want, p)
    BY <1>6, <2>2 DEF Sound, Knobs, BlueGreens
  <2> QED  BY <2>2, <2>3 DEF r
<1>7. CASE kind \in BlueGreens
  <2>1. BlueGreenSound(w)
    BY <1>7 DEF CustodyInv, Sound
  <2>2. BlueGreenSound(r) /\ KeptFrom(w, r, want)
    BY <1>1, <1>3, <1>4, <1>7, <2>1, BlueGreenControl
  <2> HIDE DEF r
  <2>3. Sound(r, want, p)
    BY <1>7, <2>2 DEF Sound, Knobs, BlueGreens
  <2> QED  BY <2>2, <2>3 DEF r
<1>8. CASE kind = "NativeDaemonSet"
  <2>1. NativeDaemonSetSound(w) /\ NativeDaemonSetSound(o)
    BY <1>8 DEF CustodyInv, Sound, Read
  <2>2. NativeDaemonSetSound(r) /\ KeptFrom(w, r, want)
    BY <1>1, <1>2, <1>4, <1>8, <2>1, NativeControl
  <2> HIDE DEF r
  <2>3. Sound(r, want, p)
    BY <1>8, <2>2 DEF Sound, Knobs, BlueGreens
  <2> QED  BY <2>2, <2>3 DEF r
<1>9. CASE kind \in Knobs \cup {"Canary"}
  <2>1. PlainSound(w)
    BY <1>9 DEF CustodyInv, Sound
  <2>2. PlainSound(r) /\ KeptFrom(w, r, want)
    BY <1>1, <1>2, <1>4, <1>9, <2>1, PlainControl
  <2> HIDE DEF r
  <2>3. Sound(r, want, p)
    BY <1>9, <2>2 DEF Sound, Knobs, BlueGreens
  <2> QED  BY <2>2, <2>3 DEF r
<1>10. \/ kind = "Deployment" \/ kind = "MinReady" \/ kind \in BlueGreens
       \/ kind = "NativeDaemonSet" \/ kind \in Knobs \cup {"Canary"}
  BY <1>1, KindsAssumption DEF Deployments, Knobs, BlueGreens
<1> QED  BY <1>5, <1>6, <1>7, <1>8, <1>9, <1>10

\* Every step keeps the invariant and the lease: what is kept is kept or as
\* the user asked, and what is returned is returned by a controller.
LEMMA StepKeeps ==
  ASSUME LeaseAssumption, CustodyInv, [Next]_vars
  PROVE  /\ CustodyInv' /\ kind' = kind /\ KeptFrom(w, w', want')
         /\ HasSaved(w) /\ ~HasSaved(w') => want' = want
<1>1. TypeOK' /\ TypeOK
  BY NextType DEF CustodyInv
<1>2. ASSUME kind' = kind, Sound(w', want', br'.phase),
             prev' \in {prev, w, w'}, kind \notin Stale => prev' = w'
      PROVE  CustodyInv'
  <2>1. kind = "NativeDaemonSet" =>
          /\ NativeDaemonSetSound(w) /\ NativeDaemonSetSound(prev)
          /\ NativeDaemonSetSound(w')
    BY <1>2 DEF CustodyInv, Sound
  <2>2. kind = "NativeDaemonSet" => NativeDaemonSetSound(prev')
    BY <1>2, <2>1
  <2>3. Sound(w, want, br.phase)'
    BY <1>2, Zenon DEF Sound, BlueGreenSound
  <2> QED  BY <1>1, <1>2, <2>2, <2>3 DEF CustodyInv, NativeDaemonSetSound
<1>3. ASSUME NEW new, NEW versions, Store(new, versions)
      PROVE  w' = Admit(w, new, versions) /\ prev' \in {prev, w, w'}
             /\ (kind \notin Stale => prev' = w')
  BY <1>3 DEF Store
<1>4. CASE UserApplies \/ UserEdits \/ UserPatches \/ UserResumes \/ RecreateWritten
  <2>1. PICK new \in Objects, s \in Settings, versions \in 0..2 :
          /\ Sent(new, s) /\ Store(new, versions) /\ want' = s
          /\ UNCHANGED <<kind, ro, br>>
    BY <1>1, <1>4, UserSends DEF LeaseAssumption
  <2>2. Sound(w', want', br'.phase) /\ KeptFrom(w, w', want')
        /\ (HasSaved(w) => HasSaved(w'))
    BY <1>3, <2>1, UserKeeps
  <2> QED  BY <1>2, <1>3, <2>1, <2>2
<1>5. ASSUME NEW o \in Read, NEW new, Store(new, 1), UNCHANGED <<kind, want>>,
             \/ new = Initialized(o) /\ (kind = "MinReady" => CanSave(w))
             \/ new = Upgraded /\ br.phase = "Progressing"
                /\ (kind \in BlueGreens => ReadyForBlueGreen(w))
             \/ new = Finalized(o) /\ br'.phase # "Progressing"
             \/ new = [w EXCEPT !.progress = FALSE] /\ br'.phase = br.phase
      PROVE  CustodyInv' /\ KeptFrom(w, w', want')
  <2>1. Sound(w', want', br'.phase) /\ KeptFrom(w, w', want')
    BY <1>3, <1>5, ControlKeeps
  <2> QED  BY <1>2, <1>3, <1>5, <2>1
<1>6. CASE Initialize
  BY <1>5, <1>6 DEF Initialize
<1>7. CASE UpgradeBatch
  <2>1. w \in Read
    BY DEF Read
  <2> QED  BY <1>5, <1>7, <2>1 DEF UpgradeBatch
<1>8. CASE Finalize
  <2>1. br'.phase # "Progressing"
    BY <1>1, <1>8 DEF Finalize, TypeOK, Releases
  <2> QED  BY <1>5, <1>8, <2>1 DEF Finalize
<1>9. CASE RemoveProgressing
  <2> DEFINE n == [w EXCEPT !.progress = FALSE]
  <2>1. w \in Read /\ Store(n, 1) /\ UNCHANGED <<kind, want, br>>
    BY <1>9 DEF Read, RemoveProgressing
  <2>2. CustodyInv' /\ KeptFrom(w, w', want')
    BY <1>5, <2>1
  <2> QED  BY <2>1, <2>2
<1>10. CASE \/ CreateBatchRelease \/ ContinuousRelease \/ ResumeWorkload
            \/ RemoveBatchRelease \/ FinalisingEnds \/ RolloutDeleted \/ UNCHANGED vars
  <2>1. UNCHANGED <<kind, w, want>> /\ prev' \in {prev, w}
        /\ (br'.phase = br.phase \/ br'.phase # "Progressing")
    <3>1. CASE \/ CreateBatchRelease \/ RemoveBatchRelease \/ FinalisingEnds
               \/ RolloutDeleted \/ UNCHANGED vars
      BY <3>1 DEF CreateBatchRelease, RemoveBatchRelease, FinalisingEnds, RolloutDeleted,
                  vars, NoRelease
    <3>2. CASE ContinuousRelease \/ ResumeWorkload
      <4>1. br \in Releases
        BY <1>1 DEF TypeOK
      <4>2. br'.phase = "Finalizing"
        BY <3>2, <4>1 DEF ContinuousRelease, ResumeWorkload, Releases
      <4> QED  BY <3>2, <4>2 DEF ContinuousRelease, ResumeWorkload
    <3> QED  BY <1>10, <3>1, <3>2
  <2>2. Sound(w', want', br'.phase)
    BY <2>1 DEF CustodyInv, Sound, MinReadySound
  <2>3. CustodyInv'
    BY <1>2, <2>1, <2>2 DEF CustodyInv
  <2>4. KeptFrom(w, w', want')
    BY <2>1 DEF KeptFrom
  <2> QED  BY <2>1, <2>3, <2>4
<1> QED
  <2>1. CASE Initialize \/ UpgradeBatch \/ Finalize \/ RemoveProgressing
    BY <1>6, <1>7, <1>8, <1>9, <2>1
    DEF Initialize, UpgradeBatch, Finalize, RemoveProgressing
  <2> QED  BY <1>4, <1>10, <2>1 DEF Next

\* Initially nothing is lent.
LEMMA InitKeeps == Init => CustodyInv /\ Lease!Init
<1> SUFFICES ASSUME Init PROVE CustodyInv /\ Lease!Init
  OBVIOUS
<1>1. TypeOK
  BY InitType
<1>2. /\ w.min = want.min /\ w.deadline = want.deadline /\ w.budget = want.budget
      /\ w.type = "RollingUpdate" /\ want.type = "RollingUpdate" /\ w.saved = NotSaved
      /\ w.budget # Nil /\ ~w.control /\ prev = w /\ br.phase # "Progressing"
      /\ want.budget = "1"
  BY DEF Init, Nil, NoRelease
<1>3. ~HasSaved(w) /\ NotSaved.min = None /\ NotSaved.deadline = None
      /\ NotSaved.budget = None /\ NotSaved.type = None
  BY <1>2 DEF HasSaved, NotSaved
<1>4. Sound(w, want, br.phase)
  BY <1>2, <1>3, Literals
  DEF Sound, PartitionSound, MinReadySound, BlueGreenSound, NativeDaemonSetSound, PlainSound
<1>5. NativeDaemonSetSound(prev)
  BY <1>2, <1>3 DEF NativeDaemonSetSound
<1>6. CustodyInv
  BY <1>1, <1>2, <1>4, <1>5 DEF CustodyInv
<1>7. Own = want
  <2>1. want = [f \in Fields |-> want[f]]
    BY <1>1 DEF TypeOK, Settings, Fields
  <2>2. ASSUME NEW f \in Fields PROVE Own[f] = want[f]
    <3>1. want.min = "0" /\ want.deadline = "600" /\ want.budget = "1"
      BY DEF Init
    <3> QED  BY <1>2, <1>3, <3>1 DEF Own, Fields
  <2> QED  BY <2>1, <2>2 DEF Own
<1>8. Lease!Init
  BY <1>1, <1>3, <1>7 DEF Lease!Init, TypeOK
<1> QED  BY <1>6, <1>8

\* A step of the webhooks, the controllers and the user is one of the lease.
LEMMA LeaseStep ==
  ASSUME LeaseAssumption, CustodyInv, [Next]_vars
  PROVE  [Lease!Next]_<<want, Own, HasSaved(w)>>
<1>1. /\ kind' = kind /\ KeptFrom(w, w', want')
      /\ HasSaved(w) /\ ~HasSaved(w') => want' = want
  BY StepKeeps
<1>2. want' \in Settings
  BY NextType DEF CustodyInv, TypeOK
<1>3. DOMAIN Own = Fields /\ DOMAIN Own' = Fields
  BY DEF Own
<1>4. ASSUME NEW f \in Fields PROVE Own'[f] \in {Own[f], want'[f]}
  <2>1. Own[f] = Kept(w, f) /\ Own'[f] = Kept(w', f)
    BY <1>1 DEF Own, Kept
  <2> QED  BY <1>1, <2>1 DEF Fields, KeptFrom
<1>5. CASE HasSaved(w) /\ ~HasSaved(w')
  <2>1. Lease!Return
    BY <1>1, <1>3, <1>4, <1>5 DEF Lease!Return, Lease!Towards, HasSaved
  <2> QED  BY <2>1 DEF Lease!Next
<1>6. CASE ~(HasSaved(w) /\ ~HasSaved(w'))
  <2>1. HasSaved(w') \in {HasSaved(w), TRUE}
    BY <1>6 DEF HasSaved
  <2>2. Lease!UserWrites
    BY <1>2, <1>3, <1>4, <2>1 DEF Lease!UserWrites, Lease!Towards, HasSaved
  <2> QED  BY <2>2 DEF Lease!Next
<1> QED  BY <1>5, <1>6

\* The refinement: the webhooks, the control planes and the Rollout controller
\* together borrow the strategy of a workload.  Whatever the order of their
\* writes and of the user's, what is kept for the user and what is put back
\* is his own setting, never one of the release.
THEOREM LeaseIsKept ==
  ASSUME LeaseAssumption
  PROVE  Spec => KeepsLease
<1>1. CustodyInv /\ [Next]_vars => CustodyInv'
  BY StepKeeps
<1>2. CustodyInv /\ [Next]_vars => [Lease!Next]_<<want, Own, HasSaved(w)>>
  BY LeaseStep
<1> QED  BY <1>1, <1>2, InitKeeps, PTL DEF Spec, KeepsLease, Lease!Spec
=============================================================================
