-------------------------- MODULE UpgradeJobProofs --------------------------
(***************************************************************************)
(* Proofs about UpgradeJob, for every target version from 4.3.0, every set *)
(* of source versions, pods, CRD sets and options, and every back-off      *)
(* limit.                                                                  *)
(***************************************************************************)
EXTENDS UpgradeJob, TLAPS

(* Steps after the path check and before the first helm upgrade. *)
BeforeHelm == {"values", "dryRun", "helmStart", "loki", "etcd", "off", "only"}
(* Steps after a helm upgrade that succeeded in the same attempt. *)
AfterHelm == {"on", "getValues", "helmComplete", "dataPlane", "notRequired",
              "revision", "dpStart", "restart", "dpComplete", "success",
              "flush", "done"}

(* What an attempt knows of the release at each of its steps. *)
ReleaseInv ==
  /\ pc \in HelmRunning =>
       release.status = "pending-upgrade" /\ release.version = Target
  /\ pc \in BeforeHelm \cup AfterHelm => release.status = "deployed"
  /\ pc \in BeforeHelm =>
       src = release.version /\ (args.skipPath \/ Le(release.version, Target))
  /\ pc \in AfterHelm => release.version = Target

(* What it knows of the data plane. *)
DataPlaneInv ==
  /\ pc \in AfterHelm => ds = IF args.mayastor THEN "new" ELSE "none"
  /\ pc \in {"dataPlane", "revision", "dpStart", "restart"} => ~args.skipRestart
  /\ pc \in {"revision", "dpStart", "restart", "dpComplete"} => args.mayastor
  /\ pc = "notRequired" => ~args.mayastor
  /\ pc \in {"dpStart", "restart"} => \A p \in Pods \ todo : podRev[p] = "new"
  /\ pc = "dpComplete" => \A p \in Pods : podRev[p] = "new"
  /\ pc \in {"success", "flush", "done"} => DataPlaneCurrent

(* How the state of the Job follows that of its pod. *)
JobInv ==
  /\ job = "succeeded" => pc = "done"
  /\ job = "failed" => pc = "down"
  /\ pc = "done" => queue = <<>>
  /\ pc \in Running => failures <= BackoffLimit

IInv == TypeOK /\ ReleaseInv /\ DataPlaneInv /\ JobInv

-----------------------------------------------------------------------------
(* The type invariant holds initially. *)
LEMMA TypeInit == Init => TypeOK
<1> SUFFICES ASSUME Init PROVE TypeOK
  OBVIOUS
<1>1. origin \in Version /\ args \in Args
  BY SourcesAssumption, OptionsAssumption DEF Init, ClusterInit
<1>2. InitialCrdsOff \subseteq CrdSets
  BY DEF InitialCrdsOff
<1>3. release \in Release
  BY <1>1, <1>2 DEF Init, ClusterInit, Release, Status
<1>4. podRev \in [Pods -> Revision]
  BY DEF Init, ClusterInit, Revision
<1>5. failures \in 0 .. BackoffLimit + 1
  BY BackoffAssumption DEF Init, ClusterInit
<1>6. foreign \subseteq Crds /\ owned \subseteq CrdSets
  BY DEF Init, ClusterInit, InitialOwned
<1>7. ds \in Revision
  BY DEF Init, ClusterInit, Revision
<1>8. loki \in BOOLEAN
  BY DEF Init, ClusterInit
<1>9. queue \in Seq(Event)
  BY DEF Init, ClusterInit
<1>10. QED
  BY <1>1, <1>3, <1>4, <1>5, <1>6, <1>7, <1>8, <1>9 DEF Init, ClusterInit, TypeOK, Steps

(* Every step keeps the type invariant; the bound on failures needs that an
   attempt runs only while the back-off limit is not passed. *)
LEMMA TypeNext == TypeOK /\ JobInv /\ [Next]_vars => TypeOK'
<1> SUFFICES ASSUME TypeOK, JobInv, [Next]_vars PROVE TypeOK'
  OBVIOUS
<1> USE DEF vars, history, cluster, local, events, control
<1> USE DEF Steps, Running, Fallible, RunnerSteps, HelmRunning
<1>1. CASE BuildEventRecorder
  BY <1>1 DEF BuildEventRecorder, TypeOK
<1>2. CASE Validate
  BY <1>2 DEF Validate, HelmChartMetadata, TypeOK, Release, Status
<1>3. CASE GenerateValuesFile
  BY <1>3 DEF GenerateValuesFile, generate_values_file, safe_crd_install, TypeOK
<1>4. CASE DryRun
  BY <1>4 DEF DryRun, TypeOK
<1>5. CASE PublishHelmUpgradeStart
  BY <1>5 DEF PublishHelmUpgradeStart, Emit, TypeOK, Event, NormalEvent, FatalEvent
<1>6. CASE DeleteLoki
  BY <1>6 DEF DeleteLoki, TypeOK
<1>7. CASE ListEtcdPods
  BY <1>7 DEF ListEtcdPods, TypeOK
<1>8. CASE BeginUpgradeOff
  BY <1>8, TargetAssumption DEF BeginUpgradeOff, BeginUpgrade, TypeOK, Release, Status
<1>9. CASE BeginUpgradeOn
  BY <1>9, TargetAssumption DEF BeginUpgradeOn, BeginUpgrade, TypeOK, Release, Status
<1>10. CASE BeginUpgradeOnly
  BY <1>10, TargetAssumption DEF BeginUpgradeOnly, BeginUpgrade, TypeOK, Release, Status
<1>11. CASE HelmApplies
  BY <1>11 DEF HelmApplies, Applied, TypeOK, Release, Status, Revision
<1>12. CASE HelmSucceeds
  BY <1>12 DEF HelmSucceeds, Applied, TypeOK, Release, Status, Revision
<1>13. CASE HelmFails
  BY <1>13
  DEF HelmFails, Emit, FatalEventAt, TypeOK, Event, NormalEvent, FatalEvent,
      Release, Status
<1>14. CASE GetValues
  BY <1>14 DEF GetValues, TypeOK
<1>15. CASE PublishHelmUpgradeComplete
  BY <1>15 DEF PublishHelmUpgradeComplete, Emit, TypeOK, Event, NormalEvent, FatalEvent
<1>16. CASE CheckDataPlane
  BY <1>16 DEF CheckDataPlane, TypeOK
<1>17. CASE PublishNotRequired
  BY <1>17 DEF PublishNotRequired, Emit, TypeOK, Event, NormalEvent, FatalEvent
<1>18. CASE ListIoEnginePods
  BY <1>18 DEF ListIoEnginePods, YetToUpgrade, TypeOK
<1>19. CASE PublishDataPlaneStart
  BY <1>19 DEF PublishDataPlaneStart, Emit, TypeOK, Event, NormalEvent, FatalEvent
<1>20. ASSUME NEW p \in Pods, RestartPod(p) PROVE TypeOK'
  BY <1>20 DEF RestartPod, TypeOK, Revision
<1>21. CASE DataPlaneUpgraded
  BY <1>21 DEF DataPlaneUpgraded, TypeOK
<1>22. CASE PublishDataPlaneComplete
  BY <1>22 DEF PublishDataPlaneComplete, Emit, TypeOK, Event, NormalEvent, FatalEvent
<1>23. CASE PublishSuccess
  BY <1>23 DEF PublishSuccess, Emit, TypeOK, Event, NormalEvent, FatalEvent
<1>24. CASE ShutdownWorker
  BY <1>24 DEF ShutdownWorker, TypeOK
<1>25. CASE StepFails
  BY <1>25 DEF StepFails, Emit, FatalEventAt, TypeOK, Event, NormalEvent, FatalEvent
<1>26. CASE ExitWithError
  BY <1>26, BackoffAssumption DEF ExitWithError, ProcessGone, TypeOK, JobInv
<1>27. CASE WorkerPublishes
  BY <1>27 DEF WorkerPublishes, TypeOK
<1>28. CASE StartAttempt
  BY <1>28 DEF StartAttempt, TypeOK
<1>29. CASE JobFails
  BY <1>29 DEF JobFails, TypeOK
<1>30. CASE JobSucceeds
  BY <1>30 DEF JobSucceeds, TypeOK
<1>31. CASE Crash
  BY <1>31, BackoffAssumption DEF Crash, ProcessGone, TypeOK, JobInv
<1>32. CASE UNCHANGED vars
  BY <1>32 DEF TypeOK
<1>33. QED
  BY <1>1, <1>2, <1>3, <1>4, <1>5, <1>6, <1>7, <1>8, <1>9, <1>10, <1>11,
     <1>12, <1>13, <1>14, <1>15, <1>16, <1>17, <1>18, <1>19, <1>20, <1>21,
     <1>22, <1>23, <1>24, <1>25, <1>26, <1>27, <1>28, <1>29, <1>30, <1>31,
     <1>32
  DEF Next, Step, UpgradeHelm, UpgradeDataPlane, Controller, Finished

(* Every step keeps what an attempt knows of the release. *)
LEMMA ReleaseNext == TypeOK /\ ReleaseInv /\ [Next]_vars => ReleaseInv'
<1> SUFFICES ASSUME TypeOK /\ ReleaseInv, [Next]_vars PROVE ReleaseInv'
  OBVIOUS
<1> USE DEF vars, history, cluster, local, events, control
<1> USE DEF Running, Fallible, RunnerSteps, HelmRunning
<1> USE DEF BeforeHelm, AfterHelm
<1>1. CASE BuildEventRecorder
  BY <1>1 DEF BuildEventRecorder, ReleaseInv
<1>2. CASE Validate
  BY <1>2 DEF Validate, ReleaseInv, check_helm_release, HelmChartMetadata, UpgradePathOk
<1>3. CASE GenerateValuesFile
  BY <1>3 DEF GenerateValuesFile, ReleaseInv
<1>4. CASE DryRun
  BY <1>4 DEF DryRun, ReleaseInv
<1>5. CASE PublishHelmUpgradeStart
  BY <1>5 DEF PublishHelmUpgradeStart, ReleaseInv
<1>6. CASE DeleteLoki
  BY <1>6 DEF DeleteLoki, ReleaseInv
<1>7. CASE ListEtcdPods
  BY <1>7 DEF ListEtcdPods, ReleaseInv
<1>8. CASE BeginUpgradeOff
  BY <1>8 DEF BeginUpgradeOff, ReleaseInv, BeginUpgrade
<1>9. CASE BeginUpgradeOn
  BY <1>9 DEF BeginUpgradeOn, ReleaseInv, BeginUpgrade
<1>10. CASE BeginUpgradeOnly
  BY <1>10 DEF BeginUpgradeOnly, ReleaseInv, BeginUpgrade
<1>11. CASE HelmApplies
  BY <1>11 DEF HelmApplies, ReleaseInv, Applied
<1>12. CASE HelmSucceeds
  BY <1>12 DEF HelmSucceeds, ReleaseInv, Applied, TypeOK, Release
<1>13. CASE HelmFails
  BY <1>13 DEF HelmFails, ReleaseInv, TypeOK, Release
<1>14. CASE GetValues
  BY <1>14 DEF GetValues, ReleaseInv
<1>15. CASE PublishHelmUpgradeComplete
  BY <1>15 DEF PublishHelmUpgradeComplete, ReleaseInv
<1>16. CASE CheckDataPlane
  BY <1>16 DEF CheckDataPlane, ReleaseInv
<1>17. CASE PublishNotRequired
  BY <1>17 DEF PublishNotRequired, ReleaseInv
<1>18. CASE ListIoEnginePods
  BY <1>18 DEF ListIoEnginePods, ReleaseInv
<1>19. CASE PublishDataPlaneStart
  BY <1>19 DEF PublishDataPlaneStart, ReleaseInv
<1>20. ASSUME NEW p \in Pods, RestartPod(p) PROVE ReleaseInv'
  BY <1>20 DEF RestartPod, ReleaseInv
<1>21. CASE DataPlaneUpgraded
  BY <1>21 DEF DataPlaneUpgraded, ReleaseInv
<1>22. CASE PublishDataPlaneComplete
  BY <1>22 DEF PublishDataPlaneComplete, ReleaseInv
<1>23. CASE PublishSuccess
  BY <1>23 DEF PublishSuccess, ReleaseInv
<1>24. CASE ShutdownWorker
  BY <1>24 DEF ShutdownWorker, ReleaseInv
<1>25. CASE StepFails
  BY <1>25 DEF StepFails, ReleaseInv
<1>26. CASE ExitWithError
  BY <1>26 DEF ExitWithError, ReleaseInv, ProcessGone
<1>27. CASE WorkerPublishes
  BY <1>27 DEF WorkerPublishes, ReleaseInv
<1>28. CASE StartAttempt
  BY <1>28 DEF StartAttempt, ReleaseInv
<1>29. CASE JobFails
  BY <1>29 DEF JobFails, ReleaseInv
<1>30. CASE JobSucceeds
  BY <1>30 DEF JobSucceeds, ReleaseInv
<1>31. CASE Crash
  BY <1>31 DEF Crash, ReleaseInv, ProcessGone
<1>32. CASE UNCHANGED vars
  BY <1>32 DEF ReleaseInv
<1>33. QED
  BY <1>1, <1>2, <1>3, <1>4, <1>5, <1>6, <1>7, <1>8, <1>9, <1>10, <1>11,
     <1>12, <1>13, <1>14, <1>15, <1>16, <1>17, <1>18, <1>19, <1>20, <1>21,
     <1>22, <1>23, <1>24, <1>25, <1>26, <1>27, <1>28, <1>29, <1>30, <1>31,
     <1>32
  DEF Next, Step, UpgradeHelm, UpgradeDataPlane, Controller, Finished

(* Every step keeps what an attempt knows of the data plane. *)
LEMMA DataPlaneNext == TypeOK /\ DataPlaneInv /\ [Next]_vars => DataPlaneInv'
<1> SUFFICES ASSUME TypeOK /\ DataPlaneInv, [Next]_vars PROVE DataPlaneInv'
  OBVIOUS
<1> USE DEF vars, history, cluster, local, events, control
<1> USE DEF Running, Fallible, RunnerSteps, HelmRunning
<1> USE DEF BeforeHelm, AfterHelm
<1>1. CASE BuildEventRecorder
  BY <1>1 DEF BuildEventRecorder, DataPlaneInv, DataPlaneCurrent
<1>2. CASE Validate
  BY <1>2 DEF Validate, DataPlaneInv, DataPlaneCurrent
<1>3. CASE GenerateValuesFile
  BY <1>3 DEF GenerateValuesFile, DataPlaneInv, DataPlaneCurrent
<1>4. CASE DryRun
  BY <1>4 DEF DryRun, DataPlaneInv, DataPlaneCurrent
<1>5. CASE PublishHelmUpgradeStart
  BY <1>5 DEF PublishHelmUpgradeStart, DataPlaneInv, DataPlaneCurrent
<1>6. CASE DeleteLoki
  BY <1>6 DEF DeleteLoki, DataPlaneInv, DataPlaneCurrent
<1>7. CASE ListEtcdPods
  BY <1>7 DEF ListEtcdPods, DataPlaneInv, DataPlaneCurrent
<1>8. CASE BeginUpgradeOff
  BY <1>8 DEF BeginUpgradeOff, DataPlaneInv, DataPlaneCurrent, BeginUpgrade
<1>9. CASE BeginUpgradeOn
  BY <1>9 DEF BeginUpgradeOn, DataPlaneInv, DataPlaneCurrent, BeginUpgrade
<1>10. CASE BeginUpgradeOnly
  BY <1>10 DEF BeginUpgradeOnly, DataPlaneInv, DataPlaneCurrent, BeginUpgrade
<1>11. CASE HelmApplies
  BY <1>11 DEF HelmApplies, DataPlaneInv, DataPlaneCurrent, Applied
<1>12. CASE HelmSucceeds
  BY <1>12 DEF HelmSucceeds, DataPlaneInv, DataPlaneCurrent, Applied
<1>13. CASE HelmFails
  BY <1>13 DEF HelmFails, DataPlaneInv, DataPlaneCurrent
<1>14. CASE GetValues
  BY <1>14 DEF GetValues, DataPlaneInv, DataPlaneCurrent
<1>15. CASE PublishHelmUpgradeComplete
  BY <1>15 DEF PublishHelmUpgradeComplete, DataPlaneInv, DataPlaneCurrent
<1>16. CASE CheckDataPlane
  BY <1>16 DEF CheckDataPlane, DataPlaneInv, DataPlaneCurrent
<1>17. CASE PublishNotRequired
  BY <1>17 DEF PublishNotRequired, DataPlaneInv, DataPlaneCurrent
<1>18. CASE ListIoEnginePods
  BY <1>18 DEF ListIoEnginePods, DataPlaneInv, DataPlaneCurrent, YetToUpgrade
<1>19. CASE PublishDataPlaneStart
  BY <1>19 DEF PublishDataPlaneStart, DataPlaneInv, DataPlaneCurrent
<1>20. ASSUME NEW p \in Pods, RestartPod(p) PROVE DataPlaneInv'
  BY <1>20 DEF RestartPod, DataPlaneInv, DataPlaneCurrent, TypeOK
<1>21. CASE DataPlaneUpgraded
  BY <1>21 DEF DataPlaneUpgraded, DataPlaneInv, DataPlaneCurrent
<1>22. CASE PublishDataPlaneComplete
  BY <1>22 DEF PublishDataPlaneComplete, DataPlaneInv, DataPlaneCurrent
<1>23. CASE PublishSuccess
  BY <1>23 DEF PublishSuccess, DataPlaneInv, DataPlaneCurrent
<1>24. CASE ShutdownWorker
  BY <1>24 DEF ShutdownWorker, DataPlaneInv, DataPlaneCurrent
<1>25. CASE StepFails
  BY <1>25 DEF StepFails, DataPlaneInv, DataPlaneCurrent
<1>26. CASE ExitWithError
  BY <1>26 DEF ExitWithError, DataPlaneInv, DataPlaneCurrent, ProcessGone
<1>27. CASE WorkerPublishes
  BY <1>27 DEF WorkerPublishes, DataPlaneInv, DataPlaneCurrent
<1>28. CASE StartAttempt
  BY <1>28 DEF StartAttempt, DataPlaneInv, DataPlaneCurrent
<1>29. CASE JobFails
  BY <1>29 DEF JobFails, DataPlaneInv, DataPlaneCurrent
<1>30. CASE JobSucceeds
  BY <1>30 DEF JobSucceeds, DataPlaneInv, DataPlaneCurrent
<1>31. CASE Crash
  BY <1>31 DEF Crash, DataPlaneInv, DataPlaneCurrent, ProcessGone
<1>32. CASE UNCHANGED vars
  BY <1>32 DEF DataPlaneInv, DataPlaneCurrent
<1>33. QED
  BY <1>1, <1>2, <1>3, <1>4, <1>5, <1>6, <1>7, <1>8, <1>9, <1>10, <1>11,
     <1>12, <1>13, <1>14, <1>15, <1>16, <1>17, <1>18, <1>19, <1>20, <1>21,
     <1>22, <1>23, <1>24, <1>25, <1>26, <1>27, <1>28, <1>29, <1>30, <1>31,
     <1>32
  DEF Next, Step, UpgradeHelm, UpgradeDataPlane, Controller, Finished

(* Every step keeps the relation between the Job and its pod. *)
LEMMA JobNext == TypeOK /\ JobInv /\ [Next]_vars => JobInv'
<1> SUFFICES ASSUME TypeOK /\ JobInv, [Next]_vars PROVE JobInv'
  OBVIOUS
<1> USE DEF vars, history, cluster, local, events, control
<1> USE DEF Running, Fallible, RunnerSteps, HelmRunning
<1>1. CASE BuildEventRecorder
  BY <1>1 DEF BuildEventRecorder, JobInv
<1>2. CASE Validate
  BY <1>2 DEF Validate, JobInv
<1>3. CASE GenerateValuesFile
  BY <1>3 DEF GenerateValuesFile, JobInv
<1>4. CASE DryRun
  BY <1>4 DEF DryRun, JobInv
<1>5. CASE PublishHelmUpgradeStart
  BY <1>5 DEF PublishHelmUpgradeStart, JobInv
<1>6. CASE DeleteLoki
  BY <1>6 DEF DeleteLoki, JobInv
<1>7. CASE ListEtcdPods
  BY <1>7 DEF ListEtcdPods, JobInv
<1>8. CASE BeginUpgradeOff
  BY <1>8 DEF BeginUpgradeOff, JobInv, BeginUpgrade
<1>9. CASE BeginUpgradeOn
  BY <1>9 DEF BeginUpgradeOn, JobInv, BeginUpgrade
<1>10. CASE BeginUpgradeOnly
  BY <1>10 DEF BeginUpgradeOnly, JobInv, BeginUpgrade
<1>11. CASE HelmApplies
  BY <1>11 DEF HelmApplies, JobInv
<1>12. CASE HelmSucceeds
  BY <1>12 DEF HelmSucceeds, JobInv
<1>13. CASE HelmFails
  BY <1>13 DEF HelmFails, JobInv
<1>14. CASE GetValues
  BY <1>14 DEF GetValues, JobInv
<1>15. CASE PublishHelmUpgradeComplete
  BY <1>15 DEF PublishHelmUpgradeComplete, JobInv
<1>16. CASE CheckDataPlane
  BY <1>16 DEF CheckDataPlane, JobInv
<1>17. CASE PublishNotRequired
  BY <1>17 DEF PublishNotRequired, JobInv
<1>18. CASE ListIoEnginePods
  BY <1>18 DEF ListIoEnginePods, JobInv
<1>19. CASE PublishDataPlaneStart
  BY <1>19 DEF PublishDataPlaneStart, JobInv
<1>20. ASSUME NEW p \in Pods, RestartPod(p) PROVE JobInv'
  BY <1>20 DEF RestartPod, JobInv
<1>21. CASE DataPlaneUpgraded
  BY <1>21 DEF DataPlaneUpgraded, JobInv
<1>22. CASE PublishDataPlaneComplete
  BY <1>22 DEF PublishDataPlaneComplete, JobInv
<1>23. CASE PublishSuccess
  BY <1>23 DEF PublishSuccess, JobInv
<1>24. CASE ShutdownWorker
  BY <1>24 DEF ShutdownWorker, JobInv
<1>25. CASE StepFails
  BY <1>25 DEF StepFails, JobInv
<1>26. CASE ExitWithError
  BY <1>26 DEF ExitWithError, JobInv, ProcessGone
<1>27. CASE WorkerPublishes
  BY <1>27 DEF WorkerPublishes, JobInv
<1>28. CASE StartAttempt
  BY <1>28 DEF StartAttempt, JobInv
<1>29. CASE JobFails
  BY <1>29 DEF JobFails, JobInv
<1>30. CASE JobSucceeds
  BY <1>30 DEF JobSucceeds, JobInv
<1>31. CASE Crash
  BY <1>31 DEF Crash, JobInv, ProcessGone
<1>32. CASE UNCHANGED vars
  BY <1>32 DEF JobInv
<1>33. QED
  BY <1>1, <1>2, <1>3, <1>4, <1>5, <1>6, <1>7, <1>8, <1>9, <1>10, <1>11,
     <1>12, <1>13, <1>14, <1>15, <1>16, <1>17, <1>18, <1>19, <1>20, <1>21,
     <1>22, <1>23, <1>24, <1>25, <1>26, <1>27, <1>28, <1>29, <1>30, <1>31,
     <1>32
  DEF Next, Step, UpgradeHelm, UpgradeDataPlane, Controller, Finished

(* The inductive invariant holds when the Job is created. *)
LEMMA IInvInit == Init => IInv
<1> SUFFICES ASSUME Init PROVE IInv
  OBVIOUS
<1>1. TypeOK
  BY TypeInit
<1>2. ReleaseInv /\ DataPlaneInv /\ JobInv
  BY DEF Init, ReleaseInv, DataPlaneInv, JobInv, BeforeHelm, AfterHelm,
         HelmRunning, Running, Fallible, RunnerSteps
<1>3. QED
  BY <1>1, <1>2 DEF IInv

(* Every step of the Job keeps it. *)
LEMMA IInvNext == IInv /\ [Next]_vars => IInv'
  BY TypeNext, ReleaseNext, DataPlaneNext, JobNext DEF IInv

(* The inductive invariant holds in every state. *)
THEOREM Invariance == Spec => []IInv
  BY IInvInit, IInvNext, PTL DEF Spec

(* Type correctness: every variable of the upgrade-job model keeps its type,
   and the Job controller never runs more attempts than the back-off limit of
   upgrade_job allows. *)
THEOREM TypeCorrect == Spec => []TypeOK
<1>1. IInv => TypeOK
  BY DEF IInv
<1>2. QED
  BY <1>1, Invariance, PTL

(* A Job that succeeded left the release deployed at the target version and,
   where it had to, restarted every io-engine pod, for any number of failed or
   crashed attempts before. *)
THEOREM SuccessComplete == Spec => []SuccessIsComplete
<1>1. IInv => SuccessIsComplete
  BY DEF IInv, ReleaseInv, DataPlaneInv, JobInv, AfterHelm, SuccessIsComplete
<1>2. QED
  BY <1>1, Invariance, PTL

(* A release that is not in the status deployed is left alone by every step
   outside the helm process itself. *)
THEOREM BrokenReleaseIsFrozen == Spec => BrokenReleaseFrozen
<1> DEFINE A == release.status # "deployed" /\ pc \notin HelmRunning
                 => UNCHANGED cluster
<1>1. IInv /\ [Next]_vars => [A]_vars
  <2> SUFFICES ASSUME IInv, Next PROVE A
    OBVIOUS
  <2> USE DEF vars, history, cluster, local, events, control, IInv
  <2> USE DEF Running, Fallible, RunnerSteps, HelmRunning
  <2> USE DEF BeforeHelm, AfterHelm
  <2>1. CASE BuildEventRecorder
    BY <2>1 DEF BuildEventRecorder, ReleaseInv
  <2>2. CASE Validate
    BY <2>2 DEF Validate, ReleaseInv
  <2>3. CASE GenerateValuesFile
    BY <2>3 DEF GenerateValuesFile, ReleaseInv
  <2>4. CASE DryRun
    BY <2>4 DEF DryRun, ReleaseInv
  <2>5. CASE PublishHelmUpgradeStart
    BY <2>5 DEF PublishHelmUpgradeStart, ReleaseInv
  <2>6. CASE DeleteLoki
    BY <2>6 DEF DeleteLoki, ReleaseInv
  <2>7. CASE ListEtcdPods
    BY <2>7 DEF ListEtcdPods, ReleaseInv
  <2>8. CASE BeginUpgradeOff
    BY <2>8 DEF BeginUpgradeOff, ReleaseInv, BeginUpgrade
  <2>9. CASE BeginUpgradeOn
    BY <2>9 DEF BeginUpgradeOn, ReleaseInv, BeginUpgrade
  <2>10. CASE BeginUpgradeOnly
    BY <2>10 DEF BeginUpgradeOnly, ReleaseInv, BeginUpgrade
  <2>11. CASE HelmApplies
    BY <2>11 DEF HelmApplies, ReleaseInv, Applied
  <2>12. CASE HelmSucceeds
    BY <2>12 DEF HelmSucceeds, ReleaseInv, Applied
  <2>13. CASE HelmFails
    BY <2>13 DEF HelmFails, ReleaseInv
  <2>14. CASE GetValues
    BY <2>14 DEF GetValues, ReleaseInv
  <2>15. CASE PublishHelmUpgradeComplete
    BY <2>15 DEF PublishHelmUpgradeComplete, ReleaseInv
  <2>16. CASE CheckDataPlane
    BY <2>16 DEF CheckDataPlane, ReleaseInv
  <2>17. CASE PublishNotRequired
    BY <2>17 DEF PublishNotRequired, ReleaseInv
  <2>18. CASE ListIoEnginePods
    BY <2>18 DEF ListIoEnginePods, ReleaseInv
  <2>19. CASE PublishDataPlaneStart
    BY <2>19 DEF PublishDataPlaneStart, ReleaseInv
  <2>20. ASSUME NEW r \in Pods, RestartPod(r) PROVE A
    BY <2>20 DEF RestartPod, ReleaseInv
  <2>21. CASE DataPlaneUpgraded
    BY <2>21 DEF DataPlaneUpgraded, ReleaseInv
  <2>22. CASE PublishDataPlaneComplete
    BY <2>22 DEF PublishDataPlaneComplete, ReleaseInv
  <2>23. CASE PublishSuccess
    BY <2>23 DEF PublishSuccess, ReleaseInv
  <2>24. CASE ShutdownWorker
    BY <2>24 DEF ShutdownWorker, ReleaseInv
  <2>25. CASE StepFails
    BY <2>25 DEF StepFails, ReleaseInv
  <2>26. CASE ExitWithError
    BY <2>26 DEF ExitWithError, ReleaseInv, ProcessGone
  <2>27. CASE WorkerPublishes
    BY <2>27 DEF WorkerPublishes, ReleaseInv
  <2>28. CASE StartAttempt
    BY <2>28 DEF StartAttempt, ReleaseInv
  <2>29. CASE JobFails
    BY <2>29 DEF JobFails, ReleaseInv
  <2>30. CASE JobSucceeds
    BY <2>30 DEF JobSucceeds, ReleaseInv
  <2>31. CASE Crash
    BY <2>31 DEF Crash, ReleaseInv, ProcessGone
  <2>32. CASE UNCHANGED vars
    BY <2>32 DEF ReleaseInv
  <2>33. QED
    BY <2>1, <2>2, <2>3, <2>4, <2>5, <2>6, <2>7, <2>8, <2>9, <2>10, <2>11,
       <2>12, <2>13, <2>14, <2>15, <2>16, <2>17, <2>18, <2>19, <2>20,
       <2>21, <2>22, <2>23, <2>24, <2>25, <2>26, <2>27, <2>28, <2>29,
       <2>30, <2>31, <2>32
    DEF Next, Step, UpgradeHelm, UpgradeDataPlane, Controller, Finished
<1>2. QED
  BY <1>1, Invariance, PTL DEF Spec, BrokenReleaseFrozen

(* No io-engine pod moves to the new revision before the release is deployed
   at the target version. *)
THEOREM ControlPlaneIsFirst == Spec => ControlPlaneFirst
<1> DEFINE A == OnlyWhenDeployed
<1>1. IInv /\ [Next]_vars => [A]_vars
  <2> SUFFICES ASSUME IInv, Next PROVE A
    OBVIOUS
  <2> USE DEF vars, history, cluster, local, events, control, IInv
  <2> USE DEF Running, Fallible, RunnerSteps, HelmRunning
  <2> USE DEF BeforeHelm, AfterHelm
  <2>1. CASE BuildEventRecorder
    BY <2>1 DEF BuildEventRecorder, ReleaseInv, OnlyWhenDeployed
  <2>2. CASE Validate
    BY <2>2 DEF Validate, ReleaseInv, OnlyWhenDeployed
  <2>3. CASE GenerateValuesFile
    BY <2>3 DEF GenerateValuesFile, ReleaseInv, OnlyWhenDeployed
  <2>4. CASE DryRun
    BY <2>4 DEF DryRun, ReleaseInv, OnlyWhenDeployed
  <2>5. CASE PublishHelmUpgradeStart
    BY <2>5 DEF PublishHelmUpgradeStart, ReleaseInv, OnlyWhenDeployed
  <2>6. CASE DeleteLoki
    BY <2>6 DEF DeleteLoki, ReleaseInv, OnlyWhenDeployed
  <2>7. CASE ListEtcdPods
    BY <2>7 DEF ListEtcdPods, ReleaseInv, OnlyWhenDeployed
  <2>8. CASE BeginUpgradeOff
    BY <2>8 DEF BeginUpgradeOff, ReleaseInv, OnlyWhenDeployed, BeginUpgrade
  <2>9. CASE BeginUpgradeOn
    BY <2>9 DEF BeginUpgradeOn, ReleaseInv, OnlyWhenDeployed, BeginUpgrade
  <2>10. CASE BeginUpgradeOnly
    BY <2>10 DEF BeginUpgradeOnly, ReleaseInv, OnlyWhenDeployed, BeginUpgrade
  <2>11. CASE HelmApplies
    BY <2>11 DEF HelmApplies, ReleaseInv, OnlyWhenDeployed, Applied
  <2>12. CASE HelmSucceeds
    BY <2>12 DEF HelmSucceeds, ReleaseInv, OnlyWhenDeployed, Applied
  <2>13. CASE HelmFails
    BY <2>13 DEF HelmFails, ReleaseInv, OnlyWhenDeployed
  <2>14. CASE GetValues
    BY <2>14 DEF GetValues, ReleaseInv, OnlyWhenDeployed
  <2>15. CASE PublishHelmUpgradeComplete
    BY <2>15 DEF PublishHelmUpgradeComplete, ReleaseInv, OnlyWhenDeployed
  <2>16. CASE CheckDataPlane
    BY <2>16 DEF CheckDataPlane, ReleaseInv, OnlyWhenDeployed
  <2>17. CASE PublishNotRequired
    BY <2>17 DEF PublishNotRequired, ReleaseInv, OnlyWhenDeployed
  <2>18. CASE ListIoEnginePods
    BY <2>18 DEF ListIoEnginePods, ReleaseInv, OnlyWhenDeployed
  <2>19. CASE PublishDataPlaneStart
    BY <2>19 DEF PublishDataPlaneStart, ReleaseInv, OnlyWhenDeployed
  <2>20. ASSUME NEW r \in Pods, RestartPod(r) PROVE A
    BY <2>20 DEF RestartPod, ReleaseInv, OnlyWhenDeployed, TypeOK
  <2>21. CASE DataPlaneUpgraded
    BY <2>21 DEF DataPlaneUpgraded, ReleaseInv, OnlyWhenDeployed
  <2>22. CASE PublishDataPlaneComplete
    BY <2>22 DEF PublishDataPlaneComplete, ReleaseInv, OnlyWhenDeployed
  <2>23. CASE PublishSuccess
    BY <2>23 DEF PublishSuccess, ReleaseInv, OnlyWhenDeployed
  <2>24. CASE ShutdownWorker
    BY <2>24 DEF ShutdownWorker, ReleaseInv, OnlyWhenDeployed
  <2>25. CASE StepFails
    BY <2>25 DEF StepFails, ReleaseInv, OnlyWhenDeployed
  <2>26. CASE ExitWithError
    BY <2>26 DEF ExitWithError, ReleaseInv, OnlyWhenDeployed, ProcessGone
  <2>27. CASE WorkerPublishes
    BY <2>27 DEF WorkerPublishes, ReleaseInv, OnlyWhenDeployed
  <2>28. CASE StartAttempt
    BY <2>28 DEF StartAttempt, ReleaseInv, OnlyWhenDeployed
  <2>29. CASE JobFails
    BY <2>29 DEF JobFails, ReleaseInv, OnlyWhenDeployed
  <2>30. CASE JobSucceeds
    BY <2>30 DEF JobSucceeds, ReleaseInv, OnlyWhenDeployed
  <2>31. CASE Crash
    BY <2>31 DEF Crash, ReleaseInv, OnlyWhenDeployed, ProcessGone
  <2>32. CASE UNCHANGED vars
    BY <2>32 DEF ReleaseInv, OnlyWhenDeployed
  <2>33. QED
    BY <2>1, <2>2, <2>3, <2>4, <2>5, <2>6, <2>7, <2>8, <2>9, <2>10, <2>11,
       <2>12, <2>13, <2>14, <2>15, <2>16, <2>17, <2>18, <2>19, <2>20,
       <2>21, <2>22, <2>23, <2>24, <2>25, <2>26, <2>27, <2>28, <2>29,
       <2>30, <2>31, <2>32
    DEF Next, Step, UpgradeHelm, UpgradeDataPlane, Controller, Finished
<1>2. QED
  BY <1>1, Invariance, PTL DEF Spec, ControlPlaneFirst

(* The order on versions is reflexive. *)
LEMMA LeReflexive == \A v \in Version : Le(v, v)
  BY DEF Le, Lt, PreLt, Version, Stable

(* The release never moves to a lower version unless the path check was
   skipped, for any number of attempts. *)
THEOREM NeverDowngrades == Spec => NoDowngrade
<1> DEFINE A == ~args.skipPath => Le(release.version, release'.version)
<1>1. IInv /\ [Next]_vars => [A]_vars
  <2> SUFFICES ASSUME IInv, Next PROVE A
    OBVIOUS
  <2> USE DEF vars, history, cluster, local, events, control, IInv
  <2> USE DEF Running, Fallible, RunnerSteps, HelmRunning
  <2> USE DEF BeforeHelm, AfterHelm
  <2>1. CASE BuildEventRecorder
    BY <2>1, LeReflexive DEF BuildEventRecorder, ReleaseInv, TypeOK, Release
  <2>2. CASE Validate
    BY <2>2, LeReflexive DEF Validate, ReleaseInv, TypeOK, Release
  <2>3. CASE GenerateValuesFile
    BY <2>3, LeReflexive DEF GenerateValuesFile, ReleaseInv, TypeOK, Release
  <2>4. CASE DryRun
    BY <2>4, LeReflexive DEF DryRun, ReleaseInv, TypeOK, Release
  <2>5. CASE PublishHelmUpgradeStart
    BY <2>5, LeReflexive DEF PublishHelmUpgradeStart, ReleaseInv, TypeOK, Release
  <2>6. CASE DeleteLoki
    BY <2>6, LeReflexive DEF DeleteLoki, ReleaseInv, TypeOK, Release
  <2>7. CASE ListEtcdPods
    BY <2>7, LeReflexive DEF ListEtcdPods, ReleaseInv, TypeOK, Release
  <2>8. CASE BeginUpgradeOff
    BY <2>8, LeReflexive, TargetAssumption
    DEF BeginUpgradeOff, ReleaseInv, TypeOK, Release, BeginUpgrade
  <2>9. CASE BeginUpgradeOn
    BY <2>9, LeReflexive, TargetAssumption
    DEF BeginUpgradeOn, ReleaseInv, TypeOK, Release, BeginUpgrade
  <2>10. CASE BeginUpgradeOnly
    BY <2>10, LeReflexive, TargetAssumption
    DEF BeginUpgradeOnly, ReleaseInv, TypeOK, Release, BeginUpgrade
  <2>11. CASE HelmApplies
    BY <2>11, LeReflexive DEF HelmApplies, ReleaseInv, TypeOK, Release, Applied
  <2>12. CASE HelmSucceeds
    BY <2>12, LeReflexive DEF HelmSucceeds, ReleaseInv, TypeOK, Release, Applied
  <2>13. CASE HelmFails
    BY <2>13, LeReflexive DEF HelmFails, ReleaseInv, TypeOK, Release
  <2>14. CASE GetValues
    BY <2>14, LeReflexive DEF GetValues, ReleaseInv, TypeOK, Release
  <2>15. CASE PublishHelmUpgradeComplete
    BY <2>15, LeReflexive DEF PublishHelmUpgradeComplete, ReleaseInv, TypeOK, Release
  <2>16. CASE CheckDataPlane
    BY <2>16, LeReflexive DEF CheckDataPlane, ReleaseInv, TypeOK, Release
  <2>17. CASE PublishNotRequired
    BY <2>17, LeReflexive DEF PublishNotRequired, ReleaseInv, TypeOK, Release
  <2>18. CASE ListIoEnginePods
    BY <2>18, LeReflexive DEF ListIoEnginePods, ReleaseInv, TypeOK, Release
  <2>19. CASE PublishDataPlaneStart
    BY <2>19, LeReflexive DEF PublishDataPlaneStart, ReleaseInv, TypeOK, Release
  <2>20. ASSUME NEW r \in Pods, RestartPod(r) PROVE A
    BY <2>20, LeReflexive DEF RestartPod, ReleaseInv, TypeOK, Release
  <2>21. CASE DataPlaneUpgraded
    BY <2>21, LeReflexive DEF DataPlaneUpgraded, ReleaseInv, TypeOK, Release
  <2>22. CASE PublishDataPlaneComplete
    BY <2>22, LeReflexive DEF PublishDataPlaneComplete, ReleaseInv, TypeOK, Release
  <2>23. CASE PublishSuccess
    BY <2>23, LeReflexive DEF PublishSuccess, ReleaseInv, TypeOK, Release
  <2>24. CASE ShutdownWorker
    BY <2>24, LeReflexive DEF ShutdownWorker, ReleaseInv, TypeOK, Release
  <2>25. CASE StepFails
    BY <2>25, LeReflexive DEF StepFails, ReleaseInv, TypeOK, Release
  <2>26. CASE ExitWithError
    BY <2>26, LeReflexive DEF ExitWithError, ReleaseInv, TypeOK, Release, ProcessGone
  <2>27. CASE WorkerPublishes
    BY <2>27, LeReflexive DEF WorkerPublishes, ReleaseInv, TypeOK, Release
  <2>28. CASE StartAttempt
    BY <2>28, LeReflexive DEF StartAttempt, ReleaseInv, TypeOK, Release
  <2>29. CASE JobFails
    BY <2>29, LeReflexive DEF JobFails, ReleaseInv, TypeOK, Release
  <2>30. CASE JobSucceeds
    BY <2>30, LeReflexive DEF JobSucceeds, ReleaseInv, TypeOK, Release
  <2>31. CASE Crash
    BY <2>31, LeReflexive DEF Crash, ReleaseInv, TypeOK, Release, ProcessGone
  <2>32. CASE UNCHANGED vars
    BY <2>32, LeReflexive DEF ReleaseInv, TypeOK, Release
  <2>33. QED
    BY <2>1, <2>2, <2>3, <2>4, <2>5, <2>6, <2>7, <2>8, <2>9, <2>10, <2>11,
       <2>12, <2>13, <2>14, <2>15, <2>16, <2>17, <2>18, <2>19, <2>20,
       <2>21, <2>22, <2>23, <2>24, <2>25, <2>26, <2>27, <2>28, <2>29,
       <2>30, <2>31, <2>32
    DEF Next, Step, UpgradeHelm, UpgradeDataPlane, Controller, Finished
<1>2. QED
  BY <1>1, Invariance, PTL DEF Spec, NoDowngrade

=============================================================================
