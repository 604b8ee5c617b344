------------------------ MODULE UpgradeJobRefinement ------------------------
(***************************************************************************)
(* UpgradeJob implements UpgradeContract, for every value of the constants *)
(* UpgradeJobProofs is about. The inductive invariant proved there says    *)
(* where an attempt stands whenever it touches the release or a pod, and   *)
(* that is what makes each such step a step of the contract.               *)
(***************************************************************************)
EXTENDS UpgradeJobProofs

(* What the refinement mapping reads. *)
observed == <<args, release, podRev, job>>

(* A step that leaves the release, the pods, the command line and the outcome
   alone cannot be seen through the mapping. *)
LEMMA UnseenStep == UNCHANGED observed => UNCHANGED Contract!vars
  BY DEF observed, Contract!vars, ControlPlane, Stale, MustRestart, Outcome

(* Every step of the job that can be seen is one of nine. *)
LEMMA SeenSteps ==
  ASSUME Next
  PROVE  \/ UNCHANGED observed
         \/ BeginUpgradeOff \/ BeginUpgradeOn \/ BeginUpgradeOnly
         \/ HelmApplies \/ HelmSucceeds \/ HelmFails
         \/ \E p \in Pods : RestartPod(p)
         \/ JobFails \/ JobSucceeds
<1> USE DEF observed, vars, history, cluster, local, events, control
<1>1. CASE WorkerPublishes
  BY <1>1 DEF WorkerPublishes
<1>2. CASE Controller
  BY <1>2 DEF Controller, StartAttempt
<1>3. CASE Crash
  BY <1>3 DEF Crash, ProcessGone
<1>4. CASE Finished
  BY <1>4 DEF Finished
<1>5. CASE UpgradeHelm
  BY <1>5 DEF UpgradeHelm
<1>6. CASE UpgradeDataPlane
  BY <1>6 DEF UpgradeDataPlane, CheckDataPlane, PublishNotRequired,
       ListIoEnginePods, PublishDataPlaneStart, DataPlaneUpgraded,
       PublishDataPlaneComplete
<1>7. CASE BuildEventRecorder \/ Validate \/ GenerateValuesFile \/ DryRun
  BY <1>7 DEF BuildEventRecorder, Validate, GenerateValuesFile, DryRun
<1>8. CASE PublishHelmUpgradeStart \/ DeleteLoki \/ ListEtcdPods
  BY <1>8 DEF PublishHelmUpgradeStart, DeleteLoki, ListEtcdPods
<1>9. CASE GetValues \/ PublishHelmUpgradeComplete \/ PublishSuccess
  BY <1>9 DEF GetValues, PublishHelmUpgradeComplete, PublishSuccess
<1>10. CASE ShutdownWorker \/ StepFails \/ ExitWithError
  BY <1>10 DEF ShutdownWorker, StepFails, ExitWithError, ProcessGone
<1>11. QED
  BY <1>1, <1>2, <1>3, <1>4, <1>5, <1>6, <1>7, <1>8, <1>9, <1>10
  DEF Next, Step

(* While an attempt is between its start and its end the Job is active. *)
LEMMA AttemptIsActive ==
  ASSUME IInv, pc \notin {"down", "done"}
  PROVE  job = "active"
  BY DEF IInv, JobInv, TypeOK

(* helm begins an upgrade only of a release that is deployed. *)
LEMMA BeginRefines ==
  ASSUME IInv, NEW from \in {"off", "on", "only"}, NEW to, NEW b,
         BeginUpgrade(from, to, b)
  PROVE  Contract!Begin
<1>1. pc = from /\ release'.status = "pending-upgrade"
      /\ UNCHANGED <<args, podRev, job>>
  BY DEF BeginUpgrade, history, control
<1>2. release.status = "deployed"
  BY <1>1 DEF IInv, ReleaseInv, BeforeHelm, AfterHelm
<1>3. job = "active"
  BY <1>1, AttemptIsActive
<1>4. QED
  BY <1>1, <1>2, <1>3
  DEF Contract!Begin, ControlPlane, Stale, MustRestart, Outcome

(* The manifests retire the pods or leave the stale ones as they are. *)
LEMMA AppliedStale ==
  ASSUME IInv, Applied, UNCHANGED args
  PROVE  Stale' = IF args.mayastor THEN Stale ELSE {}
<1>1. podRev \in [Pods -> Revision]
  BY DEF IInv, TypeOK
<1>2. \A p \in Pods : podRev'[p] = "old" <=> args.mayastor /\ podRev[p] = "old"
  BY <1>1 DEF Applied, Revision
<1>3. QED
  BY <1>2 DEF Stale

(* While helm runs the control plane is upgrading and the Job is active. *)
LEMMA HelmIsUpgrading ==
  ASSUME IInv, pc \in HelmRunning
  PROVE  ControlPlane = "upgrading" /\ Outcome = "running"
         /\ release.version = Target
  BY AttemptIsActive
  DEF IInv, ReleaseInv, HelmRunning, ControlPlane, Outcome

(* Every step of the job is a step of the contract or is not seen by it. *)
LEMMA StepRefines ==
  ASSUME IInv, [Next]_vars
  PROVE  [Contract!Next]_(Contract!vars)
<1>1. CASE UNCHANGED vars
  <2>1. UNCHANGED observed
    BY <1>1 DEF vars, history, cluster, control, observed
  <2>2. QED
    BY <2>1, UnseenStep
<1>2. CASE UNCHANGED observed
  BY <1>2, UnseenStep
<1>3. CASE BeginUpgradeOff \/ BeginUpgradeOn \/ BeginUpgradeOnly
  BY <1>3, BeginRefines
  DEF BeginUpgradeOff, BeginUpgradeOn, BeginUpgradeOnly, Contract!Next
<1>4. CASE HelmApplies
  <2>1. Applied /\ UNCHANGED <<args, release, job>> /\ pc \in HelmRunning
    BY <1>4 DEF HelmApplies, history, control
  <2>2. UNCHANGED <<ControlPlane, MustRestart, Outcome>>
    BY <2>1 DEF ControlPlane, MustRestart, Outcome
  <2>3. CASE args.mayastor
    BY <2>1, <2>2, <2>3, AppliedStale DEF Contract!vars
  <2>4. CASE ~args.mayastor
    BY <2>1, <2>2, <2>4, AppliedStale, HelmIsUpgrading
    DEF Contract!Retire, Contract!Next
  <2>5. QED
    BY <2>3, <2>4
<1>5. CASE HelmSucceeds
  <2>1. Applied /\ UNCHANGED <<args, job>> /\ pc \in HelmRunning
        /\ release' = [release EXCEPT !.status = "deployed"]
    BY <1>5 DEF HelmSucceeds, history, control
  <2>2. release \in Release
    BY DEF IInv, TypeOK
  <2>3. ControlPlane' = "current"
    BY <2>1, <2>2, HelmIsUpgrading DEF ControlPlane, Release
  <2>4. UNCHANGED <<MustRestart, Outcome>>
    BY <2>1 DEF MustRestart, Outcome
  <2>5. Stale' \in {Stale, {}}
    BY <2>1, AppliedStale
  <2>6. QED
    BY <2>1, <2>3, <2>4, <2>5, HelmIsUpgrading DEF Contract!End, Contract!Next
<1>6. CASE HelmFails
  <2>1. UNCHANGED <<args, podRev, job>> /\ pc \in HelmRunning
        /\ release' = [release EXCEPT !.status = "failed"]
    BY <1>6 DEF HelmFails, history, control
  <2>2. release \in Release
    BY DEF IInv, TypeOK
  <2>3. ControlPlane' = "broken"
    BY <2>1, <2>2 DEF ControlPlane, Release
  <2>4. UNCHANGED <<Stale, MustRestart, Outcome>>
    BY <2>1 DEF Stale, MustRestart, Outcome
  <2>5. QED
    BY <2>1, <2>3, <2>4, HelmIsUpgrading DEF Contract!End, Contract!Next
<1>7. ASSUME NEW p \in Pods, RestartPod(p) PROVE [Contract!Next]_(Contract!vars)
  <2>1. /\ pc = "restart"
        /\ podRev' = [podRev EXCEPT ![p] = ds]
        /\ UNCHANGED <<args, release, job>>
    BY <1>7 DEF RestartPod, history, control
  <2>2. podRev \in [Pods -> Revision]
    BY DEF IInv, TypeOK
  <2>3. ds = "new"
    BY <2>1 DEF IInv, DataPlaneInv, AfterHelm
  <2>4. Stale' = Stale \ {p}
    BY <2>1, <2>2, <2>3 DEF Stale
  <2>5. UNCHANGED <<ControlPlane, MustRestart, Outcome>>
    BY <2>1 DEF ControlPlane, MustRestart, Outcome
  <2>6. CASE p \notin Stale
    BY <2>4, <2>5, <2>6 DEF Contract!vars
  <2>7. CASE p \in Stale
    <3>1. ControlPlane = "current"
      BY <2>1 DEF IInv, ReleaseInv, AfterHelm, ControlPlane
    <3>2. Outcome = "running"
      BY <2>1, AttemptIsActive DEF Outcome
    <3>3. MustRestart
      BY <2>1 DEF IInv, DataPlaneInv, MustRestart
    <3>4. Contract!RestartOne(p)
      BY <2>4, <2>5, <2>7, <3>1, <3>2, <3>3 DEF Contract!RestartOne
    <3>5. QED
      BY <3>4 DEF Contract!Next
  <2>8. QED
    BY <2>6, <2>7
<1>8. CASE JobFails
  BY <1>8
  DEF JobFails, history, cluster, Contract!Fail, Contract!Next,
      ControlPlane, Stale, MustRestart, Outcome
<1>9. CASE JobSucceeds
  <2>1. pc = "done" /\ job = "active" /\ job' = "succeeded"
        /\ UNCHANGED <<args, release, podRev>>
    BY <1>9 DEF JobSucceeds, history, cluster
  <2>2. ControlPlane = "current"
    BY <2>1 DEF IInv, ReleaseInv, AfterHelm, ControlPlane
  <2>3. MustRestart => Stale = {}
    BY <2>1 DEF IInv, DataPlaneInv, DataPlaneCurrent, MustRestart, Stale
  <2>4. QED
    BY <2>1, <2>2, <2>3
    DEF Contract!Succeed, Contract!Next, ControlPlane, Stale, MustRestart, Outcome
<1>10. QED
  BY <1>1, <1>2, <1>3, <1>4, <1>5, <1>6, <1>7, <1>8, <1>9, SeenSteps

(* The upgrade-job implements its contract: whatever its attempts do, fail at
   or die of, the cluster sees a release upgraded from a deployed one, a broken
   release left alone, pods restarted one by one under a current control plane,
   and a success only when nothing is left to do. *)
THEOREM Refinement == Spec => ImplementsContract
<1>1. Init => Contract!Init
  <2> SUFFICES ASSUME Init PROVE Contract!Init
    OBVIOUS
  <2>1. args \in Args
    BY OptionsAssumption DEF Init, ClusterInit
  <2>2. QED
    BY <2>1 DEF Init, ClusterInit, Args, Contract!Init, ControlPlane, Stale,
             MustRestart, Outcome
<1>2. IInv /\ [Next]_vars => [Contract!Next]_(Contract!vars)
  BY StepRefines
<1>3. QED
  BY <1>1, <1>2, Invariance, PTL DEF Spec, ImplementsContract, Contract!Spec

=============================================================================
