-------------------------- MODULE UpgradeHelmProofs --------------------------
(***************************************************************************)
(* What UpgradeJob does before, with and after a helm upgrade, for every   *)
(* value of the constants: the old loki-stack is gone, the hook of the v4  *)
(* chart cannot hang, CRDs are neither installed twice nor dropped, and    *)
(* the event "Success" is true. The invariants rest on the one proved in   *)
(* UpgradeJobProofs, which says where an attempt stands when helm runs.    *)
(***************************************************************************)
EXTENDS UpgradeJobProofs

(* Steps at which the attempt has deleted the StatefulSet of the loki-stack,
   if there was one. *)
PastLoki == {"etcd", "off", "only"} \cup HelmRunning \cup AfterHelm

(* The StatefulSet is there only as long as the release has a version whose
   upgrade deletes it. *)
LokiInv ==
  /\ loki => MovesLoki(release.version)
  /\ pc \in PastLoki => ~loki

(* The single helm upgrade, which leaves the hook as it was, is chosen only
   where the hook does not hang. *)
HookInv == pc = "only" => ~(Lt(release.version, FOUR_DOT_O) /\ ds = "none")

(* CRD sets of which the cluster had a CRD before helm installed any. *)
Taken == {S \in CrdSets : S \cap foreign # {}}

(* What the values of the release, and those the attempt is about to lay over
   them, say of the CRD sets. *)
CrdInv ==
  /\ Lt(release.version, FOUR_DOT_O) =>
       owned = {} /\ release.crdsOff = {} /\ release.preUpgradeJob
  /\ ~Lt(release.version, FOUR_DOT_O) =>
       /\ release.crdsOff = Taken
       /\ owned \subseteq CrdSets \ Taken
       /\ release.status = "deployed" => owned = CrdSets \ Taken
  /\ pc \in BeforeHelm \ {"values"} =>
       toggles = IF Lt(release.version, FOUR_DOT_O) THEN Taken ELSE {}
  /\ pc \in HelmRunning \cup {"on"} => toggles \subseteq release.crdsOff

(* The pods run a revision that the DaemonSet has or had, and it has the new
   one only from the target chart. *)
PodInv ==
  /\ ds = "new" => release.version = Target
  /\ podRev \in [Pods -> IF ds = "none" THEN {"none"} ELSE {"old", ds}]

HelmInv == LokiInv /\ HookInv /\ CrdInv /\ PodInv

-----------------------------------------------------------------------------
(* The target is of the v4 series: it is not before 4.0.0. *)
LEMMA TargetIsFour == ~Lt(Target, FOUR_DOT_O)
  BY TargetAssumption
  DEF Le, Lt, PreLt, V, Stable, FOUR_DOT_THREE, FOUR_DOT_O, Version

(* The steps of an attempt that touch nothing of what HelmInv reads but pc. *)
Beside ==
  UNCHANGED <<foreign, release, ds, podRev, loki, owned, toggles>>

(* A step that leaves the release, the cluster and the attempt's values alone
   keeps HelmInv if it goes no further than it may. *)
LEMMA BesideKeeps ==
  ASSUME HelmInv, Beside,
         pc' \in PastLoki => pc \in PastLoki,
         pc' = "only" => pc = "only",
         pc' \in BeforeHelm \ {"values"} => pc \in BeforeHelm \ {"values"},
         pc' \in HelmRunning \cup {"on"} => pc \in HelmRunning \cup {"on"}
  PROVE  HelmInv'
<1>1. LokiInv'
  BY DEF Beside, HelmInv, LokiInv, MovesLoki
<1>2. HookInv'
  BY DEF Beside, HelmInv, HookInv
<1>3. Taken' = Taken
  BY DEF Beside, Taken
<1>4. CrdInv'
  BY <1>3 DEF Beside, HelmInv, CrdInv
<1>5. PodInv'
  BY DEF Beside, HelmInv, PodInv
<1>6. QED
  BY <1>1, <1>2, <1>4, <1>5 DEF HelmInv

(* HelmInv holds when the Job is created. *)
LEMMA HelmInit == Init => HelmInv
<1> SUFFICES ASSUME Init PROVE HelmInv
  OBVIOUS
<1>1. /\ pc = "down"
      /\ release.version = origin /\ release.crdsOff = InitialCrdsOff
      /\ Lt(origin, FOUR_DOT_O) => release.preUpgradeJob
  BY DEF Init, ClusterInit
<1>2. LokiInv
  BY <1>1 DEF Init, ClusterInit, LokiInv, MovesLoki, PastLoki, HelmRunning,
    AfterHelm, THREE_DOT_FOUR_DOT_ONE, FOUR_DOT_THREE
<1>3. HookInv
  BY <1>1 DEF HookInv
<1>4. Lt(origin, FOUR_DOT_O) => owned = {} /\ InitialCrdsOff = {}
  BY DEF Init, ClusterInit, InitialOwned, InitialCrdsOff
<1>5. ~Lt(origin, FOUR_DOT_O) =>
        /\ owned \subseteq CrdSets \ InitialCrdsOff
        /\ release.status = "deployed" => owned = CrdSets \ InitialCrdsOff
        /\ InitialCrdsOff = Taken
  BY DEF Init, ClusterInit, InitialOwned, InitialCrdsOff, Taken
<1>6. CrdInv
  BY <1>1, <1>4, <1>5 DEF CrdInv, BeforeHelm, HelmRunning
<1>7. PodInv
  BY <1>1 DEF Init, ClusterInit, PodInv
<1>8. QED
  BY <1>2, <1>3, <1>6, <1>7 DEF HelmInv

(* helm begins an upgrade: the attempt has seen to loki and to the CRDs. *)
LEMMA BeginKeeps ==
  ASSUME IInv, HelmInv,
         NEW from \in {"off", "on", "only"}, NEW to \in HelmRunning,
         NEW b, BeginUpgrade(from, to, b)
  PROVE  HelmInv'
<1>1. /\ pc = from /\ pc' = to
      /\ release'.version = Target /\ release'.status = "pending-upgrade"
      /\ release'.crdsOff = release.crdsOff \cup toggles
      /\ UNCHANGED <<foreign, ds, podRev, loki, owned, toggles>>
  BY DEF BeginUpgrade, history, local
<1>2. ~loki
  BY <1>1 DEF HelmInv, LokiInv, PastLoki, AfterHelm
<1>3. LokiInv'
  BY <1>1, <1>2 DEF LokiInv
<1>4. HookInv'
  BY <1>1 DEF HookInv, HelmRunning
<1>5. Taken' = Taken
  BY <1>1 DEF Taken
<1>6. /\ release.crdsOff \cup toggles = Taken
      /\ owned \subseteq CrdSets \ Taken
  <2>1. CASE Lt(release.version, FOUR_DOT_O)
    <3>1. pc # "on"
      BY <2>1, TargetIsFour DEF IInv, ReleaseInv, AfterHelm
    <3>2. QED
      BY <1>1, <2>1, <3>1 DEF HelmInv, CrdInv, BeforeHelm
  <2>2. CASE ~Lt(release.version, FOUR_DOT_O) /\ pc = "on"
    BY <2>2 DEF HelmInv, CrdInv
  <2>3. CASE ~Lt(release.version, FOUR_DOT_O) /\ pc # "on"
    BY <1>1, <2>3 DEF HelmInv, CrdInv, BeforeHelm
  <2>4. QED
    BY <2>1, <2>2, <2>3
<1>7. CrdInv'
  BY <1>1, <1>5, <1>6, TargetIsFour DEF CrdInv, BeforeHelm, HelmRunning
<1>8. PodInv'
  BY <1>1 DEF HelmInv, PodInv
<1>9. QED
  BY <1>3, <1>4, <1>7, <1>8 DEF HelmInv

(* helm runs: whatever it has applied, its own CRD sets are the ones that its
   values do not switch off. *)
LEMMA HelmRunKeeps ==
  ASSUME IInv, HelmInv, HelmApplies \/ HelmSucceeds \/ HelmFails
  PROVE  HelmInv'
<1>1. /\ pc \in HelmRunning
      /\ release.version = Target /\ release'.version = Target
      /\ release'.crdsOff = release.crdsOff
      /\ UNCHANGED <<foreign, loki, toggles>>
      /\ owned' \in {owned, owned \cup (CrdSets \ release.crdsOff)}
      /\ release'.status = "deployed" =>
           owned' = owned \cup (CrdSets \ release.crdsOff)
      /\ pc' \in HelmRunning \cup {"on", "getValues", "exiting"}
  BY DEF IInv, ReleaseInv, TypeOK, Release, HelmApplies, HelmSucceeds,
    HelmFails, Applied, history, local
<1>2. LokiInv'
  BY <1>1 DEF HelmInv, LokiInv, PastLoki
<1>3. HookInv'
  BY <1>1 DEF HookInv, HelmRunning
<1>4. Taken' = Taken
  BY <1>1 DEF Taken
<1>5. /\ release.crdsOff = Taken
      /\ owned' \subseteq CrdSets \ Taken
      /\ release'.status = "deployed" => owned' = CrdSets \ Taken
  BY <1>1, TargetIsFour DEF HelmInv, CrdInv
<1>6. CrdInv'
  BY <1>1, <1>4, <1>5, TargetIsFour DEF HelmInv, CrdInv, BeforeHelm, HelmRunning
<1>7. Applied \/ UNCHANGED <<ds, podRev>>
  BY DEF HelmApplies, HelmSucceeds, HelmFails
<1>8. PodInv'
  <2>1. podRev \in [Pods -> Revision]
    BY DEF IInv, TypeOK
  <2>2. CASE Applied /\ args.mayastor
    BY <1>1, <2>1, <2>2 DEF Applied, PodInv, Revision
  <2>3. CASE Applied /\ ~args.mayastor
    BY <1>1, <2>3 DEF Applied, PodInv
  <2>4. CASE UNCHANGED <<ds, podRev>>
    BY <1>1, <2>4 DEF HelmInv, PodInv
  <2>5. QED
    BY <1>7, <2>2, <2>3, <2>4
<1>9. QED
  BY <1>2, <1>3, <1>6, <1>8 DEF HelmInv

(* Every step keeps HelmInv. *)
LEMMA HelmNext == IInv /\ HelmInv /\ [Next]_vars => HelmInv'
<1> SUFFICES ASSUME IInv, HelmInv, [Next]_vars PROVE HelmInv'
  OBVIOUS
<1> USE DEF Beside, vars, history, cluster, local, events, control
<1> USE DEF PastLoki, BeforeHelm, AfterHelm, HelmRunning
<1>1. CASE BuildEventRecorder
  BY <1>1, BesideKeeps DEF BuildEventRecorder
<1>2. CASE Validate
  BY <1>2, BesideKeeps DEF Validate
<1>3. CASE GenerateValuesFile
  <2>1. /\ pc = "values" /\ pc' = "dryRun"
        /\ toggles' = generate_values_file(release.version)
        /\ UNCHANGED <<foreign, release, ds, podRev, loki, owned>>
    BY <1>3 DEF GenerateValuesFile, IInv, ReleaseInv
  <2>2. generate_values_file(release.version)
          = IF Lt(release.version, FOUR_DOT_O) THEN Taken ELSE {}
    <3>1. CASE Lt(release.version, FOUR_DOT_O)
      <4>1. owned = {}
        BY <3>1 DEF HelmInv, CrdInv
      <4>2. CrdPresent = foreign
        BY <4>1 DEF CrdPresent
      <4>3. QED
        BY <3>1, <4>2, TargetIsFour
        DEF generate_values_file, safe_crd_install, Taken
    <3>2. CASE ~Lt(release.version, FOUR_DOT_O)
      BY <3>2 DEF generate_values_file
    <3>3. QED
      BY <3>1, <3>2
  <2>3. Taken' = Taken
    BY <2>1 DEF Taken
  <2>4. CrdInv'
    BY <2>1, <2>2, <2>3 DEF HelmInv, CrdInv
  <2>5. QED
    BY <2>1, <2>4 DEF HelmInv, LokiInv, HookInv, PodInv, MovesLoki
<1>4. CASE DryRun
  BY <1>4, BesideKeeps DEF DryRun
<1>5. CASE PublishHelmUpgradeStart
  BY <1>5, BesideKeeps DEF PublishHelmUpgradeStart
<1>6. CASE DeleteLoki
  <2>1. /\ pc = "loki" /\ pc' = "etcd"
        /\ loki' = (loki /\ ~MovesLoki(release.version))
        /\ UNCHANGED <<foreign, release, ds, podRev, owned, toggles>>
    BY <1>6 DEF DeleteLoki, IInv, ReleaseInv
  <2>2. ~loki'
    BY <2>1 DEF HelmInv, LokiInv
  <2>3. Taken' = Taken
    BY <2>1 DEF Taken
  <2>4. QED
    BY <2>1, <2>2, <2>3 DEF HelmInv, LokiInv, HookInv, CrdInv, PodInv
<1>7. CASE ListEtcdPods
  <2>1. /\ pc = "etcd"
        /\ pc' = IF MustDisablePreUpgradeJob(release.version) THEN "off" ELSE "only"
        /\ Beside
    BY <1>7 DEF ListEtcdPods, IInv, ReleaseInv
  <2>2. HookInv'
    BY <2>1 DEF HookInv, MustDisablePreUpgradeJob
  <2>3. LokiInv'
    BY <2>1 DEF HelmInv, LokiInv, MovesLoki
  <2>4. Taken' = Taken
    BY <2>1 DEF Taken
  <2>5. CrdInv'
    BY <2>1, <2>4 DEF HelmInv, CrdInv
  <2>6. QED
    BY <2>1, <2>2, <2>3, <2>5 DEF HelmInv, PodInv
<1>8. CASE BeginUpgradeOff \/ BeginUpgradeOn \/ BeginUpgradeOnly
  BY <1>8, BeginKeeps DEF BeginUpgradeOff, BeginUpgradeOn, BeginUpgradeOnly
<1>9. CASE HelmApplies \/ HelmSucceeds \/ HelmFails
  BY <1>9, HelmRunKeeps
<1>10. CASE GetValues
  BY <1>10, BesideKeeps DEF GetValues
<1>11. CASE PublishHelmUpgradeComplete
  BY <1>11, BesideKeeps DEF PublishHelmUpgradeComplete
<1>12. CASE CheckDataPlane
  BY <1>12, BesideKeeps DEF CheckDataPlane
<1>13. CASE PublishNotRequired
  BY <1>13, BesideKeeps DEF PublishNotRequired
<1>14. CASE ListIoEnginePods
  BY <1>14, BesideKeeps DEF ListIoEnginePods
<1>15. CASE PublishDataPlaneStart
  BY <1>15, BesideKeeps DEF PublishDataPlaneStart
<1>16. ASSUME NEW p \in Pods, RestartPod(p) PROVE HelmInv'
  <2>1. /\ UNCHANGED <<pc, foreign, release, ds, loki, owned, toggles>>
        /\ podRev' = [podRev EXCEPT ![p] = ds]
    BY <1>16 DEF RestartPod
  <2>2. PodInv'
    BY <2>1 DEF HelmInv, PodInv
  <2>3. Taken' = Taken
    BY <2>1 DEF Taken
  <2>4. QED
    BY <2>1, <2>2, <2>3 DEF HelmInv, LokiInv, HookInv, CrdInv, MovesLoki
<1>17. CASE DataPlaneUpgraded
  BY <1>17, BesideKeeps DEF DataPlaneUpgraded
<1>18. CASE PublishDataPlaneComplete
  BY <1>18, BesideKeeps DEF PublishDataPlaneComplete
<1>19. CASE PublishSuccess
  BY <1>19, BesideKeeps DEF PublishSuccess
<1>20. CASE ShutdownWorker
  BY <1>20, BesideKeeps DEF ShutdownWorker
<1>21. CASE StepFails
  BY <1>21, BesideKeeps DEF StepFails
<1>22. CASE ExitWithError \/ Crash
  BY <1>22, BesideKeeps DEF ExitWithError, Crash, ProcessGone
<1>23. CASE WorkerPublishes
  BY <1>23, BesideKeeps DEF WorkerPublishes
<1>24. CASE StartAttempt
  BY <1>24, BesideKeeps DEF StartAttempt
<1>25. CASE JobFails \/ JobSucceeds
  BY <1>25, BesideKeeps DEF JobFails, JobSucceeds
<1>26. CASE UNCHANGED vars
  BY <1>26, BesideKeeps
<1>27. QED
  BY <1>1, <1>2, <1>3, <1>4, <1>5, <1>6, <1>7, <1>8, <1>9, <1>10, <1>11,
     <1>12, <1>13, <1>14, <1>15, <1>16, <1>17, <1>18, <1>19, <1>20, <1>21,
     <1>22, <1>23, <1>24, <1>25, <1>26
  DEF Next, Step, UpgradeHelm, UpgradeDataPlane, Controller, Finished

(* HelmInv is an invariant of the job. *)
THEOREM HelmInvariance == Spec => []HelmInv
  BY HelmInit, HelmNext, Invariance, PTL DEF Spec

-----------------------------------------------------------------------------
(* Every step leaves the release and the pods alone, but for these. *)
LEMMA ReleaseSteps ==
  ASSUME [Next]_vars
  PROVE  \/ UNCHANGED <<args, release, podRev>>
         \/ BeginUpgradeOff \/ BeginUpgradeOn \/ BeginUpgradeOnly
         \/ HelmApplies \/ HelmSucceeds \/ HelmFails
         \/ \E p \in Pods : RestartPod(p)
<1> USE DEF vars, history, cluster, local, events, control
<1>1. CASE WorkerPublishes
  BY <1>1 DEF WorkerPublishes
<1>2. CASE Controller
  BY <1>2 DEF Controller, StartAttempt, JobFails, JobSucceeds
<1>3. CASE Crash
  BY <1>3 DEF Crash, ProcessGone
<1>4. CASE UpgradeDataPlane
  BY <1>4 DEF UpgradeDataPlane, CheckDataPlane, PublishNotRequired,
       ListIoEnginePods, PublishDataPlaneStart, DataPlaneUpgraded,
       PublishDataPlaneComplete
<1>5. CASE BuildEventRecorder \/ Validate \/ GenerateValuesFile \/ DryRun
  BY <1>5 DEF BuildEventRecorder, Validate, GenerateValuesFile, DryRun
<1>6. CASE PublishHelmUpgradeStart \/ DeleteLoki \/ ListEtcdPods
  BY <1>6 DEF PublishHelmUpgradeStart, DeleteLoki, ListEtcdPods
<1>7. CASE GetValues \/ PublishHelmUpgradeComplete \/ PublishSuccess
  BY <1>7 DEF GetValues, PublishHelmUpgradeComplete, PublishSuccess
<1>8. CASE ShutdownWorker \/ StepFails \/ ExitWithError
  BY <1>8 DEF ShutdownWorker, StepFails, ExitWithError, ProcessGone
<1>9. CASE UNCHANGED vars
  BY <1>9
<1>10. QED
  BY <1>1, <1>2, <1>3, <1>4, <1>5, <1>6, <1>7, <1>8, <1>9
  DEF Next, Step, UpgradeHelm, Finished

(* A revision becomes pending only when the attempt calls helm upgrade. *)
LEMMA HelmBeginsBy ==
  ASSUME IInv, [Next]_vars, HelmBegins
  PROVE  BeginUpgradeOff \/ BeginUpgradeOn \/ BeginUpgradeOnly
<1>1. release' # release
  BY DEF HelmBegins
<1>2. ~ (HelmSucceeds \/ HelmFails)
  BY DEF HelmSucceeds, HelmFails, HelmBegins, IInv, TypeOK, Release
<1>3. QED
  BY <1>1, <1>2, ReleaseSteps DEF HelmApplies, RestartPod

(* helm upgrade never runs beside the StatefulSet of the old loki-stack. *)
THEOREM LokiIsGone == Spec => OldLokiGone
<1>1. IInv /\ HelmInv /\ [Next]_vars => [HelmBegins => ~loki]_vars
  <2> SUFFICES ASSUME IInv, HelmInv, [Next]_vars, HelmBegins PROVE ~loki
    OBVIOUS
  <2>1. pc \in {"off", "on", "only"}
    BY HelmBeginsBy
    DEF BeginUpgradeOff, BeginUpgradeOn, BeginUpgradeOnly, BeginUpgrade
  <2>2. QED
    BY <2>1 DEF HelmInv, LokiInv, PastLoki, AfterHelm
<1>2. QED
  BY <1>1, Invariance, HelmInvariance, PTL DEF Spec, OldLokiGone

(* The hook of the v4 chart is off whenever helm upgrades a v3 release that
   has no Etcd. *)
THEOREM HookIsNeverStuck == Spec => HookNeverStuck
<1> DEFINE A == HelmBegins /\ Lt(release.version, FOUR_DOT_O) /\ ds = "none"
                  => ~release'.preUpgradeJob
<1>1. IInv /\ HelmInv /\ [Next]_vars => [A]_vars
  <2> SUFFICES ASSUME IInv, HelmInv, [Next]_vars, HelmBegins,
                      Lt(release.version, FOUR_DOT_O), ds = "none"
               PROVE  ~release'.preUpgradeJob
    OBVIOUS
  <2>1. ~BeginUpgradeOn
    BY TargetIsFour
    DEF BeginUpgradeOn, BeginUpgrade, IInv, ReleaseInv, AfterHelm
  <2>2. ~BeginUpgradeOnly
    BY DEF BeginUpgradeOnly, BeginUpgrade, HelmInv, HookInv
  <2>3. BeginUpgradeOff
    BY <2>1, <2>2, HelmBeginsBy
  <2>4. QED
    BY <2>3 DEF BeginUpgradeOff, BeginUpgrade
<1>2. QED
  BY <1>1, Invariance, HelmInvariance, PTL DEF Spec, HookNeverStuck

(* A helm upgrade that begins switches off every set with a CRD the cluster
   already had, and none that helm installed. *)
LEMMA BegunCrds ==
  ASSUME IInv, HelmInv, [Next]_vars, HelmBegins
  PROVE  Taken \subseteq release'.crdsOff /\ owned \cap release'.crdsOff = {}
<1>1. release'.version = Target /\ UNCHANGED <<foreign, owned>>
  BY HelmBeginsBy
  DEF BeginUpgradeOff, BeginUpgradeOn, BeginUpgradeOnly, BeginUpgrade, history
<1>2. Taken' = Taken
  BY <1>1 DEF Taken
<1>3. CrdInv'
  BY HelmNext DEF HelmInv
<1>4. QED
  BY <1>1, <1>2, <1>3, TargetIsFour DEF CrdInv

(* No attempt asks helm to install a set of which the cluster had a CRD. *)
THEOREM ForeignCrdsAreRespected == Spec => ForeignCrdsRespected
<1> DEFINE A == HelmBegins =>
        \A S \in CrdSets : S \cap foreign # {} => S \in release'.crdsOff
<1>1. IInv /\ HelmInv /\ [Next]_vars => [A]_vars
  <2> SUFFICES ASSUME IInv, HelmInv, [Next]_vars, HelmBegins PROVE A
    OBVIOUS
  <2>1. QED
    BY BegunCrds DEF Taken
<1>2. QED
  BY <1>1, Invariance, HelmInvariance, PTL DEF Spec, ForeignCrdsRespected

(* No attempt switches off a set that helm installed, so helm never drops the
   CRDs that the volumes live in. *)
THEOREM OwnedCrdsAreKept == Spec => OwnedCrdsKept
<1> DEFINE A == HelmBegins => owned \cap release'.crdsOff = {}
<1>1. IInv /\ HelmInv /\ [Next]_vars => [A]_vars
  <2> SUFFICES ASSUME IInv, HelmInv, [Next]_vars, HelmBegins PROVE A
    OBVIOUS
  <2>1. QED
    BY BegunCrds
<1>2. QED
  BY <1>1, Invariance, HelmInvariance, PTL DEF Spec, OwnedCrdsKept

-----------------------------------------------------------------------------
InQueue(e) == \E i \in 1 .. Len(queue) : queue[i] = e

(* Appending another event puts no "Success" into the channel. *)
LEMMA EmitOther ==
  ASSUME queue \in Seq(Event), NEW e \in Event \ {"Success"}, Emit(e),
         InQueue("Success")'
  PROVE  InQueue("Success")
<1>1. PICK i \in 1 .. Len(queue') : queue'[i] = "Success"
  BY DEF InQueue
<1>2. Len(queue') = Len(queue) + 1 /\ queue'[Len(queue) + 1] = e
  BY DEF Emit
<1>3. i \in 1 .. Len(queue)
  BY <1>1, <1>2
<1>4. queue[i] = "Success"
  BY <1>1, <1>3 DEF Emit
<1>5. QED
  BY <1>3, <1>4 DEF InQueue

(* What the worker leaves in the channel was there before. *)
LEMMA WorkerLeaves ==
  ASSUME queue \in Seq(Event), WorkerPublishes, InQueue("Success")'
  PROVE  InQueue("Success")
<1>1. Len(queue) > 0
  BY DEF WorkerPublishes
<1>2. PICK i \in 1 .. Len(queue') : queue'[i] = "Success"
  BY DEF InQueue
<1>3. i + 1 \in 1 .. Len(queue) /\ queue[i + 1] = "Success"
  BY <1>1, <1>2 DEF WorkerPublishes
<1>4. QED
  BY <1>3 DEF InQueue

(* What it takes was at the head. *)
LEMMA WorkerTakes ==
  ASSUME queue \in Seq(Event), queue # <<>>, Head(queue) = "Success"
  PROVE  InQueue("Success")
<1>1. 1 \in 1 .. Len(queue) /\ queue[1] = "Success"
  OBVIOUS
<1>2. QED
  BY <1>1 DEF InQueue

(* The version of the release changes to the target's or not at all. *)
LEMMA VersionMoves ==
  ASSUME IInv, [Next]_vars
  PROVE  release'.version \in {release.version, Target}
<1>1. CASE BeginUpgradeOff \/ BeginUpgradeOn \/ BeginUpgradeOnly
  BY <1>1 DEF BeginUpgradeOff, BeginUpgradeOn, BeginUpgradeOnly, BeginUpgrade
<1>2. CASE HelmSucceeds \/ HelmFails
  BY <1>2 DEF HelmSucceeds, HelmFails, IInv, TypeOK, Release
<1>3. QED
  BY <1>1, <1>2, ReleaseSteps DEF HelmApplies, RestartPod

(* What the Success event says of the cluster. *)
Upgraded == release.version = Target /\ DataPlaneCurrent

(* Once true, that stays true: no attempt moves the release away from the
   target or a pod away from the new revision. *)
LEMMA UpgradedStays == ASSUME IInv, Upgraded, [Next]_vars PROVE Upgraded'
<1> USE DEF Upgraded, DataPlaneCurrent, history
<1>1. release'.version = Target
  BY VersionMoves
<1>2. CASE BeginUpgradeOff \/ BeginUpgradeOn \/ BeginUpgradeOnly
  BY <1>1, <1>2
  DEF BeginUpgradeOff, BeginUpgradeOn, BeginUpgradeOnly, BeginUpgrade
<1>3. CASE HelmApplies \/ HelmSucceeds
  BY <1>1, <1>3 DEF HelmApplies, HelmSucceeds, Applied
<1>4. CASE HelmFails
  BY <1>1, <1>4 DEF HelmFails
<1>5. ASSUME NEW p \in Pods, RestartPod(p) PROVE Upgraded'
  <2>1. ds = "new"
    BY <1>5 DEF RestartPod, IInv, DataPlaneInv, AfterHelm
  <2>2. QED
    BY <1>1, <1>5, <2>1 DEF RestartPod, IInv, TypeOK
<1>6. QED
  BY <1>1, <1>2, <1>3, <1>4, <1>5, ReleaseSteps

(* "Success" is newly on its way only when an attempt that has upgraded
   publishes it. *)
LEMMA SuccessIsNew ==
  ASSUME IInv, [Next]_vars, InQueue("Success")', ~InQueue("Success")
  PROVE  Upgraded
<1>1. queue \in Seq(Event)
  BY DEF IInv, TypeOK
<1>2. ~UNCHANGED events
  BY DEF events, InQueue
<1>3. ASSUME NEW e \in Event \ {"Success"} PROVE ~Emit(e)
  BY <1>1, EmitOther DEF Emit
<1>4. ~WorkerPublishes
  BY <1>1, WorkerLeaves
<1>5. ~ProcessGone
  BY DEF ProcessGone, InQueue
<1>6. FatalEventAt(pc) \in FatalEvent \cup {"none"}
  BY DEF FatalEventAt, FatalEvent
<1>7. ~HelmFails
  <2>1. pc \in HelmRunning => FatalEventAt(pc) = "FailedHelmUpgrade"
    BY DEF FatalEventAt, HelmRunning, RunnerSteps
  <2>2. QED
    BY <1>2, <1>3, <2>1 DEF HelmFails, Event, FatalEvent
<1>8. ~StepFails
  BY <1>2, <1>3, <1>6 DEF StepFails, Event, FatalEvent, NormalEvent
<1>9. PublishSuccess
  BY <1>2, <1>3, <1>4, <1>5, <1>7, <1>8
  DEF Next, Step, UpgradeHelm, UpgradeDataPlane, Controller, Finished,
      BuildEventRecorder, Validate, GenerateValuesFile, DryRun,
      PublishHelmUpgradeStart, DeleteLoki, ListEtcdPods, BeginUpgradeOff,
      BeginUpgradeOn, BeginUpgradeOnly, BeginUpgrade, HelmApplies,
      HelmSucceeds, GetValues, PublishHelmUpgradeComplete, CheckDataPlane,
      PublishNotRequired, ListIoEnginePods, PublishDataPlaneStart, RestartPod,
      DataPlaneUpgraded, PublishDataPlaneComplete, ShutdownWorker,
      ExitWithError, Crash, StartAttempt, JobFails, JobSucceeds, vars, Event,
      NormalEvent
<1>10. QED
  BY <1>9 DEF PublishSuccess, IInv, ReleaseInv, DataPlaneInv, AfterHelm,
              Upgraded

(* The newest event changes only when the worker posts the next one. *)
LEMMA ShownWasQueued ==
  ASSUME IInv, [Next]_vars, lastEvent' = "Success", lastEvent # "Success"
  PROVE  InQueue("Success")
<1>1. queue \in Seq(Event)
  BY DEF IInv, TypeOK
<1>2. ~UNCHANGED events /\ ~UNCHANGED lastEvent
  BY DEF events
<1>3. WorkerPublishes
  BY <1>2
  DEF Next, Step, UpgradeHelm, UpgradeDataPlane, Controller, Finished,
      BuildEventRecorder, Validate, GenerateValuesFile, DryRun,
      PublishHelmUpgradeStart, DeleteLoki, ListEtcdPods, BeginUpgradeOff,
      BeginUpgradeOn, BeginUpgradeOnly, BeginUpgrade, HelmApplies,
      HelmSucceeds, HelmFails, GetValues, PublishHelmUpgradeComplete,
      CheckDataPlane, PublishNotRequired, ListIoEnginePods,
      PublishDataPlaneStart, RestartPod, DataPlaneUpgraded,
      PublishDataPlaneComplete, PublishSuccess, ShutdownWorker, StepFails,
      ExitWithError, Crash, ProcessGone, StartAttempt, JobFails, JobSucceeds,
      Emit, vars
<1>4. QED
  BY <1>1, <1>2, <1>3, WorkerTakes DEF WorkerPublishes

(* The event "Success" is true from the moment it is on its way, also while a
   later attempt repeats the work of the one that published it. *)
THEOREM SuccessEventIsTrue == Spec => []SuccessEventHolds
<1>1. Init => SuccessEventHolds
  BY DEF Init, SuccessEventHolds
<1>2. IInv /\ SuccessEventHolds /\ [Next]_vars => SuccessEventHolds'
  <2> SUFFICES ASSUME IInv, SuccessEventHolds, [Next]_vars,
                      lastEvent' = "Success" \/ InQueue("Success")'
               PROVE  Upgraded'
    BY DEF SuccessEventHolds, InQueue, Upgraded
  <2>1. Upgraded
    BY SuccessIsNew, ShownWasQueued DEF SuccessEventHolds, InQueue, Upgraded
  <2>2. QED
    BY <2>1, UpgradedStays
<1>3. QED
  BY <1>1, <1>2, Invariance, PTL DEF Spec

(* No later attempt undoes a finished upgrade, wherever it breaks off: the
   release stays at the target and the pods at the new revision. *)
THEOREM FinishedUpgradeStays == Spec => [][Upgraded => Upgraded']_vars
<1>1. IInv /\ [Next]_vars => [Upgraded => Upgraded']_vars
  BY UpgradedStays
<1>2. QED
  BY <1>1, Invariance, PTL DEF Spec

-----------------------------------------------------------------------------
(* The order of versions *)

(* The order of semver with pre-releases, as the code compares by it, is a
   strict total order, and Le is its reflexive closure. *)
THEOREM VersionOrder ==
  /\ \A a \in Version : ~Lt(a, a)
  /\ \A a, b, c \in Version : Lt(a, b) /\ Lt(b, c) => Lt(a, c)
  /\ \A a, b \in Version : Lt(a, b) \/ a = b \/ Lt(b, a)
  /\ \A a, b \in Version : Le(a, b) <=> Lt(a, b) \/ a = b
<1> USE DEF Version, Lt, PreLt, Stable
<1>1. \A a \in Version : ~Lt(a, a)
  OBVIOUS
<1>2. \A a, b, c \in Version : Lt(a, b) /\ Lt(b, c) => Lt(a, c)
  OBVIOUS
<1>3. \A a, b \in Version : Lt(a, b) \/ a = b \/ Lt(b, a)
  <2> TAKE a, b \in Version
  <2>1. a = <<a[1], a[2], a[3], a[4]>> /\ b = <<b[1], b[2], b[3], b[4]>>
    OBVIOUS
  <2>2. \A i \in 1 .. 4 : a[i] \in Nat /\ b[i] \in Nat
    OBVIOUS
  <2>3. QED
    BY <2>1, <2>2
<1> USE DEF Le
<1>4. \A a, b \in Version : Le(a, b) <=> Lt(a, b) \/ a = b
  BY <1>1, <1>2, <1>3
<1>5. QED
  BY <1>1, <1>2, <1>3, <1>4

(* A Job has the command line and the cluster's past that it was created with. *)
LEMMA HistoryKept ==
  ASSUME [Next]_vars
  PROVE  args' = args /\ origin' = origin
<1> USE DEF vars, history
<1>1. CASE WorkerPublishes
  BY <1>1 DEF WorkerPublishes
<1>2. CASE Controller
  BY <1>2 DEF Controller, StartAttempt, JobFails, JobSucceeds
<1>3. CASE Crash
  BY <1>3 DEF Crash, ProcessGone
<1>4. CASE UpgradeDataPlane
  BY <1>4 DEF UpgradeDataPlane, CheckDataPlane, PublishNotRequired,
       ListIoEnginePods, PublishDataPlaneStart, RestartPod, DataPlaneUpgraded,
       PublishDataPlaneComplete
<1>5. CASE BuildEventRecorder \/ Validate \/ GenerateValuesFile \/ DryRun
  BY <1>5 DEF BuildEventRecorder, Validate, GenerateValuesFile, DryRun
<1>6. CASE UpgradeHelm
  BY <1>6 DEF UpgradeHelm, BeginUpgradeOff, BeginUpgradeOn, BeginUpgradeOnly,
       BeginUpgrade, HelmApplies, HelmSucceeds, HelmFails
<1>7. CASE PublishHelmUpgradeStart \/ DeleteLoki \/ ListEtcdPods
  BY <1>7 DEF PublishHelmUpgradeStart, DeleteLoki, ListEtcdPods
<1>8. CASE GetValues \/ PublishHelmUpgradeComplete \/ PublishSuccess
  BY <1>8 DEF GetValues, PublishHelmUpgradeComplete, PublishSuccess
<1>9. CASE ShutdownWorker \/ StepFails \/ ExitWithError
  BY <1>9 DEF ShutdownWorker, StepFails, ExitWithError, ProcessGone
<1>10. CASE UNCHANGED vars
  BY <1>10
<1>11. QED
  BY <1>1, <1>2, <1>3, <1>4, <1>5, <1>6, <1>7, <1>8, <1>9, <1>10
  DEF Next, Step, Finished

(* Over all attempts together, the release is never left below the version at
   which the Job found it, unless the path check is skipped. *)
THEOREM NeverBelowOrigin == Spec => [](~args.skipPath => Le(origin, release.version))
<1> DEFINE P == ~args.skipPath => Le(origin, release.version)
           A == ~args.skipPath => Le(release.version, release'.version)
<1>1. Init => P
  <2> SUFFICES ASSUME Init PROVE P
    OBVIOUS
  <2>1. release.version = origin /\ origin \in Version
    BY SourcesAssumption DEF Init, ClusterInit
  <2>2. QED
    BY <2>1, LeReflexive
<1>2. IInv /\ IInv' /\ P /\ [Next]_vars /\ [A]_vars => P'
  <2> SUFFICES ASSUME IInv, IInv', P, [Next]_vars, [A]_vars, ~args'.skipPath
               PROVE  Le(origin', release'.version)
    OBVIOUS
  <2>1. args' = args /\ origin' = origin
    BY HistoryKept
  <2>2. /\ origin \in Version /\ release.version \in Version
        /\ release'.version \in Version
    BY DEF IInv, TypeOK, Release
  <2>3. Le(origin, release.version)
    BY <2>1
  <2>4. Le(release.version, release'.version)
    BY <2>1, <2>2, LeReflexive DEF vars, cluster
  <2>5. Le(origin, release'.version)
    BY <2>2, <2>3, <2>4, VersionOrder
  <2>6. QED
    BY <2>1, <2>5
<1>3. Spec => [][A]_vars
  BY NeverDowngrades DEF NoDowngrade
<1>4. QED
  BY <1>1, <1>2, <1>3, Invariance, PTL DEF Spec

=============================================================================
