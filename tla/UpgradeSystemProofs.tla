------------------------- MODULE UpgradeSystemProofs -------------------------
(***************************************************************************)
(* Proofs about the plugin and the upgrade-job together. The system is a   *)
(* behaviour of UpgradeCli, whose theorems it inherits; and between two    *)
(* creations of a Job object the process takes steps of UpgradeJob, whose  *)
(* invariants are shown to survive what the plugin and Kubernetes do to    *)
(* it: a Job that is taken away, and a new one on the cluster it leaves.   *)
(***************************************************************************)
EXTENDS UpgradeSystem, UpgradeCliProofs

(* The proofs about UpgradeJob, under the mapping of UpgradeSystem. *)
P == INSTANCE UpgradeHelmProofs
       WITH pc <- jpc, lastEvent <- event.action,
            job <- IF jobStatus \in {"succeeded", "failed"}
                   THEN jobStatus ELSE "active"

JobInvariants == P!IInv /\ P!HelmInv

(* A Job that is not there has no status; the versions stay within Sources. *)
ObjectInv ==
  /\ obj["Job"].state = "absent" => jobStatus = "none"
  /\ release.version \in Sources

(* What the event "Success" says, on its way and on the cluster. *)
TruthInv ==
  /\ P!InQueue("Success") => P!Upgraded
  /\ event.action = "Success" =>
       /\ release.version = Target
       /\ event.num > evCreate => P!Upgraded

(* How far an attempt gets that validation turns away. *)
TurnedAway == {"down", "start", "metadata", "exiting"}

(* A Job that is refused leaves the release as it found it, so that its next
   attempt is refused too, and has nothing to publish. *)
SilentInv ==
  /\ evCreate \in Nat
  /\ ~Upgradable =>
       /\ release.version = origin /\ release.status = statusCreate
       /\ jpc \in TurnedAway /\ queue = <<>>
       /\ event.num <= evCreate

SystemInv == CliInv /\ JobInvariants /\ ObjectInv /\ TruthInv /\ SilentInv

-----------------------------------------------------------------------------
(* UpgradeSystem speaks of the job through the instance J, the proofs through
   P: both are UpgradeJob under the same mapping. *)
LEMMA SameNext == J!Next => P!Next
  BY DEF
     J!history, P!history, J!cluster, P!cluster, J!local, P!local, J!events,
     P!events, J!control, P!control, J!vars, P!vars, J!RunnerSteps,
     P!RunnerSteps, J!HelmRunning, P!HelmRunning, J!Fallible, P!Fallible,
     J!Running, P!Running, J!check_helm_release, P!check_helm_release,
     J!UpgradePathOk, P!UpgradePathOk, J!HelmChartMetadata,
     P!HelmChartMetadata, J!CrdPresent, P!CrdPresent, J!safe_crd_install,
     P!safe_crd_install, J!generate_values_file, P!generate_values_file,
     J!MovesLoki, P!MovesLoki, J!MustDisablePreUpgradeJob,
     P!MustDisablePreUpgradeJob, J!mayastor_partial_rebuild_check,
     P!mayastor_partial_rebuild_check, J!FatalEventAt, P!FatalEventAt,
     J!Emit, P!Emit, J!BuildEventRecorder, P!BuildEventRecorder, J!Validate,
     P!Validate, J!GenerateValuesFile, P!GenerateValuesFile, J!DryRun,
     P!DryRun, J!PublishHelmUpgradeStart, P!PublishHelmUpgradeStart,
     J!DeleteLoki, P!DeleteLoki, J!ListEtcdPods, P!ListEtcdPods,
     J!BeginUpgrade, P!BeginUpgrade, J!BeginUpgradeOff, P!BeginUpgradeOff,
     J!BeginUpgradeOn, P!BeginUpgradeOn, J!BeginUpgradeOnly,
     P!BeginUpgradeOnly, J!Applied, P!Applied, J!HelmApplies, P!HelmApplies,
     J!HelmSucceeds, P!HelmSucceeds, J!HelmFails, P!HelmFails, J!GetValues,
     P!GetValues, J!PublishHelmUpgradeComplete,
     P!PublishHelmUpgradeComplete, J!CheckDataPlane, P!CheckDataPlane,
     J!PublishNotRequired, P!PublishNotRequired, J!YetToUpgrade,
     P!YetToUpgrade, J!ListIoEnginePods, P!ListIoEnginePods,
     J!PublishDataPlaneStart, P!PublishDataPlaneStart, J!RestartPod,
     P!RestartPod, J!DataPlaneUpgraded, P!DataPlaneUpgraded,
     J!PublishDataPlaneComplete, P!PublishDataPlaneComplete,
     J!PublishSuccess, P!PublishSuccess, J!ShutdownWorker, P!ShutdownWorker,
     J!StepFails, P!StepFails, J!ProcessGone, P!ProcessGone,
     J!ExitWithError, P!ExitWithError, J!Crash, P!Crash, J!UpgradeHelm,
     P!UpgradeHelm, J!UpgradeDataPlane, P!UpgradeDataPlane, J!Step, P!Step,
     J!WorkerPublishes, P!WorkerPublishes, J!StartAttempt, P!StartAttempt,
     J!JobFails, P!JobFails, J!JobSucceeds, P!JobSucceeds, J!Finished,
     P!Finished, J!Controller, P!Controller, J!Next, P!Next, J!Le, P!Le,
     J!Lt, P!Lt, J!PreLt, P!PreLt, J!V, P!V, J!Stable, P!Stable,
     J!UMBRELLA_CHART_VERSION_LOWERBOUND,
     P!UMBRELLA_CHART_VERSION_LOWERBOUND, J!PARTIAL_REBUILD_DISABLE_EXTENTS,
     P!PARTIAL_REBUILD_DISABLE_EXTENTS, J!FOUR_DOT_O, P!FOUR_DOT_O,
     J!THREE_DOT_FOUR_DOT_ONE, P!THREE_DOT_FOUR_DOT_ONE, J!FOUR_DOT_THREE,
     P!FOUR_DOT_THREE

(* The same for the initial states. *)
LEMMA SameInit == J!Init => P!Init
  BY DEF
     J!Init, P!Init, J!ClusterInit, P!ClusterInit, J!InitialCrdsOff,
     P!InitialCrdsOff, J!InitialOwned, P!InitialOwned, J!Status, P!Status,
     J!Crds, P!Crds, J!Le, P!Le, J!Lt, P!Lt, J!PreLt, P!PreLt, J!V, P!V,
     J!Stable, P!Stable, J!FOUR_DOT_O, P!FOUR_DOT_O

(* The same for what a current data plane is. *)
LEMMA SameCurrent == J!DataPlaneCurrent <=> P!DataPlaneCurrent
  BY DEF J!DataPlaneCurrent, P!DataPlaneCurrent

(* The assumptions that the proofs about UpgradeJob are made under. *)
LEMMA JobAssumptions ==
  /\ Target \in P!Version /\ P!Le(P!FOUR_DOT_THREE, Target)
  /\ Sources \subseteq P!Version
  /\ Options \subseteq P!Args
  /\ BackoffLimit \in Nat
  /\ \A S, T \in CrdSets : S # {} /\ (S # T => S \cap T = {})
  BY JobAssumption
  DEF
     J!Version, P!Version, J!Args, P!Args, J!Le, P!Le, J!Lt, P!Lt, J!PreLt,
     P!PreLt, J!V, P!V, J!Stable, P!Stable, J!FOUR_DOT_THREE,
     P!FOUR_DOT_THREE

(* What the process publishes is what the plugin may read. *)
LEMMA JobEvents == P!Event \subseteq JobActions
  BY JobAssumption
  DEF J!Event, P!Event, J!NormalEvent, P!NormalEvent, J!FatalEvent, P!FatalEvent

(* A step that the process takes is one of UpgradeJob. *)
LEMMA ProcessSteps ==
  ASSUME \/ FirstAttempt \/ NextAttempt \/ ProcessStep
         \/ WorkerPosts \/ WorkerGivesUp \/ JobReported
  PROVE  P!Next
<1>1. J!Next
  BY DEF FirstAttempt, NextAttempt, ProcessStep, WorkerPosts, WorkerGivesUp,
         JobReported, J!Next, J!Controller
<1>2. QED
  BY <1>1, SameNext

(* Every step of the system is one of UpgradeCli, or does not concern it. *)
LEMMA CliSteps ==
  ASSUME P!TypeOK, [SystemNext]_system
  PROVE  [Next]_vars
<1>1. ASSUME queue # <<>> PROVE Head(queue) \in JobActions
  BY <1>1, JobEvents DEF P!TypeOK
<1>2. CASE PluginStep
  BY <1>2 DEF PluginStep, Next
<1>3. ASSUME NEW k \in Kinds, Collected(k) PROVE Next
  BY <1>3 DEF Collected, Next, Environment
<1>4. CASE Synced \/ FirstAttempt
  BY <1>4 DEF Synced, FirstAttempt, Next, JobStep
<1>5. CASE NextAttempt \/ ProcessStep \/ WorkerGivesUp
  BY <1>5 DEF NextAttempt, ProcessStep, WorkerGivesUp
<1>6. CASE WorkerPosts
  BY <1>1, <1>6 DEF WorkerPosts, Next, Environment
<1>7. CASE JobReported
  BY <1>7 DEF JobReported, Next, JobStep
<1>8. CASE SystemQuiet
  BY <1>8 DEF SystemQuiet, Next
<1>9. CASE UNCHANGED system
  BY <1>9 DEF system
<1>10. QED
  BY <1>2, <1>3, <1>4, <1>5, <1>6, <1>7, <1>8, <1>9 DEF SystemNext

-----------------------------------------------------------------------------
(* What a step of the plugin does to the state that the job shares with it. *)
LEMMA PluginEffects ==
  ASSUME CliInv, NEW c \in Clients, ClientMove(c)
  PROVE  /\ UNCHANGED <<jobStatus, evCount>>
         /\ event' \in {event, NoEvent}
         /\ obj["Job"].state = "absent" /\ obj'["Job"].state = "present"
              => UNCHANGED event
         /\ obj'["Job"].state = "absent" => obj["Job"].state = "absent"
<1> USE KindsAssumption
<1> USE DEF CliInv, TypeOK, cluster
<1>1. CASE DeleteOlderUpgradeEvents(c)
  BY <1>1 DEF DeleteOlderUpgradeEvents
<1>2. ASSUME NEW k \in Kinds, CreateResource(c, k)
      PROVE  /\ UNCHANGED <<jobStatus, event, evCount>>
             /\ obj'["Job"].state = "absent" => obj["Job"].state = "absent"
  BY <1>2 DEF CreateResource
<1>3. ASSUME NEW k \in Kinds, DeleteResource(c, k)
      PROVE  /\ UNCHANGED <<jobStatus, event, evCount>>
             /\ obj'["Job"].state = "absent" => obj["Job"].state = "absent"
  BY <1>3 DEF DeleteResource, ObjState
<1>4. QED
  BY <1>1, <1>2, <1>3
  DEF ClientMove, Execute, Preflight, RequestFails, ResourcesCreated,
      PollAgain, BeginsDelete, BeginDelete, Returns, Return

(* A step that leaves the process and the Job's status alone leaves what is
   known of the job; the events of older upgrades may go. *)
LEMMA UntouchedKeeps ==
  ASSUME JobInvariants, UNCHANGED <<process, jobStatus>>,
         event' \in {event, NoEvent}
  PROVE  JobInvariants' /\ P!Upgraded' = P!Upgraded
<1> USE DEF process, created
<1>1. P!TypeOK'
  BY DEF JobInvariants, P!IInv, P!TypeOK, NoEvent
<1>2. P!ReleaseInv'
  BY DEF JobInvariants, P!IInv, P!ReleaseInv
<1>3. P!DataPlaneInv'
  BY DEF JobInvariants, P!IInv, P!DataPlaneInv, P!DataPlaneCurrent
<1>4. P!JobInv'
  BY DEF JobInvariants, P!IInv, P!JobInv
<1>5. P!HelmInv'
  BY P!BesideKeeps, JobAssumptions DEF JobInvariants, P!Beside
<1>6. P!Upgraded' = P!Upgraded
  BY DEF P!Upgraded, P!DataPlaneCurrent
<1>7. QED
  BY <1>1, <1>2, <1>3, <1>4, <1>5, <1>6 DEF JobInvariants, P!IInv

(* An attempt that is down has nothing to say of the release. *)
LEMMA DownIsSafe ==
  ASSUME P!TypeOK', jpc' = "down", jobStatus' \notin {"succeeded", "failed"}
  PROVE  P!IInv'
  BY DEF P!IInv, P!ReleaseInv, P!DataPlaneInv, P!JobInv, P!BeforeHelm,
     P!AfterHelm, P!HelmRunning, P!Running, P!Fallible, P!RunnerSteps

(* A Job that is collected leaves the cluster as its last step did. *)
LEMMA CollectedKeeps ==
  ASSUME CliInv, JobInvariants, NEW k \in Kinds, Collected(k)
  PROVE  JobInvariants' /\ P!Upgraded' = P!Upgraded
<1>1. CASE k = "Job"
  <2>1. /\ jpc' = "down" /\ queue' = <<>> /\ jobStatus' = "none"
        /\ UNCHANGED <<args, origin, foreign, release, ds, podRev, loki, owned,
                       failures, src, toggles, todo, event>>
    BY <1>1 DEF Collected, Collect
  <2>2. P!TypeOK'
    BY <2>1 DEF JobInvariants, P!IInv, P!TypeOK, P!Steps
  <2>3. P!IInv'
    BY <2>1, <2>2, DownIsSafe
  <2>4. P!HelmInv'
    BY <2>1, P!BesideKeeps, JobAssumptions
    DEF JobInvariants, P!Beside, P!PastLoki, P!BeforeHelm, P!AfterHelm,
        P!HelmRunning
  <2>5. QED
    BY <2>1, <2>3, <2>4 DEF JobInvariants, P!Upgraded, P!DataPlaneCurrent
<1>2. CASE k # "Job"
  <2>1. UNCHANGED <<process, jobStatus, event>>
    BY <1>2 DEF Collected, Collect, process
  <2>2. QED
    BY <2>1, UntouchedKeeps
<1>3. QED
  BY <1>1, <1>2

(* A new Job starts from the cluster as it is. *)
LEMMA NewJobKeeps ==
  ASSUME JobInvariants, NewJob, UNCHANGED event, jobStatus' = "none"
  PROVE  JobInvariants'
<1>1. /\ jpc' = "down" /\ queue' = <<>> /\ toggles' = {} /\ todo' = {}
      /\ failures' = 0 /\ args' \in Options
      /\ src' = release.version /\ origin' = release.version
      /\ UNCHANGED <<foreign, release, loki, owned, event>>
  BY DEF NewJob
<1>2. ds \in P!Revision /\ podRev \in [Pods -> P!Revision]
  BY DEF JobInvariants, P!IInv, P!TypeOK
<1>3. /\ ds' \in P!Revision /\ podRev' \in [Pods -> P!Revision]
      /\ ds' = "new" => ds = "new"
      /\ podRev' \in [Pods -> IF ds' = "none" THEN {"none"} ELSE {"old", ds'}]
  <2>1. CASE UNCHANGED <<ds, podRev>>
    BY <1>2, <2>1 DEF JobInvariants, P!HelmInv, P!PodInv
  <2>2. CASE ds' = "old" /\ podRev' = [p \in Pods |-> Outdated(podRev[p])]
             /\ ds = "new"
    <3>1. \A p \in Pods : Outdated(podRev[p]) = "old"
      BY <2>2 DEF JobInvariants, P!HelmInv, P!PodInv, Outdated
    <3>2. QED
      BY <2>2, <3>1 DEF P!Revision
  <2>3. QED
    BY <2>1, <2>2 DEF NewJob, Outdated
<1>4. P!TypeOK'
  BY <1>1, <1>3, JobAssumptions
  DEF JobInvariants, P!IInv, P!TypeOK, P!Release, P!Steps
<1>5. P!IInv'
  BY <1>1, <1>4, DownIsSafe
<1>6. P!LokiInv' /\ P!HookInv'
  BY <1>1 DEF JobInvariants, P!HelmInv, P!LokiInv, P!HookInv, P!MovesLoki,
              P!PastLoki, P!HelmRunning, P!AfterHelm
<1>7. P!Taken' = P!Taken
  BY <1>1 DEF P!Taken
<1>8. P!CrdInv'
  BY <1>1, <1>7 DEF JobInvariants, P!HelmInv, P!CrdInv, P!BeforeHelm,
                    P!HelmRunning
<1>9. P!PodInv'
  BY <1>1, <1>3 DEF JobInvariants, P!HelmInv, P!PodInv
<1>10. QED
  BY <1>5, <1>6, <1>8, <1>9 DEF JobInvariants, P!HelmInv

(* What is known of the job survives every step of the system. *)
LEMMA JobNext == SystemInv /\ [SystemNext]_system => JobInvariants'
<1> SUFFICES ASSUME SystemInv, [SystemNext]_system PROVE JobInvariants'
  OBVIOUS
<1> USE DEF SystemInv
<1>1. CASE PluginStep
  <2>1. PICK c \in Clients : ClientMove(c)
    BY <1>1, ClientMoves DEF PluginStep
  <2>2. CASE obj["Job"].state = "absent" /\ obj'["Job"].state = "present"
    BY <1>1, <2>1, <2>2, PluginEffects, NewJobKeeps DEF PluginStep, ObjectInv
  <2>3. CASE UNCHANGED process
    BY <2>1, <2>3, PluginEffects, UntouchedKeeps
  <2>4. QED
    BY <1>1, <2>2, <2>3 DEF PluginStep
<1>2. ASSUME NEW k \in Kinds, Collected(k) PROVE JobInvariants'
  BY <1>2, CollectedKeeps
<1>3. CASE Synced
  <2>1. /\ UNCHANGED <<process, event>>
        /\ jobStatus = "none" /\ jobStatus' = "active"
    BY <1>3 DEF Synced, SyncJob
  <2>2. UNCHANGED P!vars
    BY <2>1 DEF process, created, P!vars, P!history, P!cluster, P!local, P!events,
                P!control
  <2>3. QED
    BY <2>2, P!IInvNext, P!HelmNext, JobAssumptions DEF JobInvariants
<1>4. CASE \/ FirstAttempt \/ NextAttempt \/ ProcessStep
           \/ WorkerPosts \/ WorkerGivesUp \/ JobReported
  BY <1>4, ProcessSteps, P!IInvNext, P!HelmNext, JobAssumptions
  DEF JobInvariants
<1>5. CASE SystemQuiet \/ UNCHANGED system
  <2>1. UNCHANGED <<process, jobStatus, event>>
    BY <1>5 DEF SystemQuiet, Quiet, system, vars, cluster
  <2>2. QED
    BY <2>1, UntouchedKeeps
<1>6. QED
  BY <1>1, <1>2, <1>3, <1>4, <1>5 DEF SystemNext

(* A Job has no status while it is not there, and no step of the job takes the
   release out of Sources. *)
LEMMA ObjectNext == SystemInv /\ [SystemNext]_system => ObjectInv'
<1> SUFFICES ASSUME SystemInv, [SystemNext]_system PROVE ObjectInv'
  OBVIOUS
<1> USE DEF SystemInv, ObjectInv
<1>1. obj'["Job"].state = "absent" => jobStatus' = "none"
  <2>1. [Next]_vars
    BY CliSteps DEF JobInvariants, P!IInv
  <2>2. ASSUME NEW c \in Clients, ClientMove(c)
        PROVE  obj'["Job"].state = "absent" => jobStatus' = "none"
    BY <2>2, PluginEffects
  <2>3. ASSUME NEW k \in Kinds, Collect(k)
        PROVE  obj'["Job"].state = "absent" => jobStatus' = "none"
    BY <2>3, KindsAssumption DEF Collect, CliInv, TypeOK
  <2>4. QED
    BY <2>1, <2>2, <2>3, Moves
    DEF SyncJob, JobStarts, CanStart, JobEnds, JobRuns, JobPublishes, vars,
        cluster
<1>2. release'.version \in Sources
  <2>1. CASE UNCHANGED release
    BY <2>1
  <2>2. CASE P!Next
    BY <2>2, P!VersionMoves, JobAssumptions, JobAssumption
    DEF JobInvariants
  <2>3. QED
    BY <2>1, <2>2, ProcessSteps
    DEF SystemNext, PluginStep, NewJob, Collected, Synced, SystemQuiet,
        process, system
<1>3. QED
  BY <1>1, <1>2

(* A step of the process keeps the truth of "Success", whether it is on its way
   or is shown. *)
LEMMA ProcessKeepsTruth ==
  ASSUME SystemInv, P!Next, UNCHANGED evCreate,
         \/ UNCHANGED event
         \/ /\ queue # <<>> /\ event'.action = Head(queue)
  PROVE  TruthInv'
<1> USE DEF SystemInv, JobInvariants
<1>1. P!Upgraded => P!Upgraded'
  BY P!UpgradedStays, JobAssumptions
<1>2. P!InQueue("Success")' => P!Upgraded'
  BY <1>1, P!SuccessIsNew, JobAssumptions DEF TruthInv
<1>3. release.version = Target => release'.version = Target
  BY P!VersionMoves, JobAssumptions
<1>4. CASE UNCHANGED event
  BY <1>1, <1>2, <1>3, <1>4 DEF TruthInv
<1>5. CASE queue # <<>> /\ event'.action = Head(queue)
  <2>1. event'.action = "Success" => P!InQueue("Success")
    BY <1>5, P!WorkerTakes, JobAssumptions DEF P!IInv, P!TypeOK
  <2>2. event'.action = "Success" => P!Upgraded'
    BY <1>1, <2>1 DEF TruthInv
  <2>3. P!Upgraded' => release'.version = Target
    BY DEF P!Upgraded
  <2>4. QED
    BY <1>2, <2>2, <2>3 DEF TruthInv
<1>6. QED
  BY <1>4, <1>5

(* What the event "Success" says stays true, for the Job that is there. *)
LEMMA TruthNext == SystemInv /\ [SystemNext]_system => TruthInv'
<1> SUFFICES ASSUME SystemInv, [SystemNext]_system PROVE TruthInv'
  OBVIOUS
<1> USE DEF SystemInv
<1>1. ASSUME UNCHANGED <<process, jobStatus>>, event' \in {event, NoEvent}
      PROVE  TruthInv'
  <2>1. UNCHANGED <<release, queue, evCreate>>
    BY <1>1 DEF process, created
  <2>2. P!Upgraded' = P!Upgraded
    BY <1>1, UntouchedKeeps
  <2>3. P!InQueue("Success")' <=> P!InQueue("Success")
    BY <2>1 DEF P!InQueue
  <2>4. QED
    BY <1>1, <2>1, <2>2, <2>3 DEF TruthInv, NoEvent
<1>2. CASE PluginStep
  <2>1. PICK c \in Clients : ClientMove(c)
    BY <1>2, ClientMoves DEF PluginStep
  <2>2. CASE obj["Job"].state = "absent" /\ obj'["Job"].state = "present"
    <3>1. /\ queue' = <<>> /\ evCreate' = evCount
          /\ UNCHANGED <<release, event>>
      BY <1>2, <2>1, <2>2, PluginEffects DEF PluginStep, NewJob
    <3>2. ~ (event.num > evCount)
      BY BoundsAssumption DEF CliInv, EventInv, TypeOK
    <3>3. ~P!InQueue("Success")'
      BY <3>1 DEF P!InQueue
    <3>4. QED
      BY <3>1, <3>2, <3>3 DEF TruthInv
  <2>3. CASE UNCHANGED process
    BY <1>1, <2>1, <2>3, PluginEffects
  <2>4. QED
    BY <1>2, <2>2, <2>3 DEF PluginStep
<1>3. ASSUME NEW k \in Kinds, Collected(k) PROVE TruthInv'
  <2>1. UNCHANGED <<release, event, evCreate>> /\ queue' \in {queue, <<>>}
    BY <1>3 DEF Collected, Collect, created
  <2>2. P!Upgraded' = P!Upgraded
    BY <1>3, CollectedKeeps
  <2>3. P!InQueue("Success")' => P!InQueue("Success")
    BY <2>1 DEF P!InQueue
  <2>4. QED
    BY <2>1, <2>2, <2>3 DEF TruthInv
<1>4. CASE Synced
  <2>1. UNCHANGED <<process, event>>
    BY <1>4 DEF Synced, SyncJob
  <2>2. P!Upgraded' = P!Upgraded /\ P!InQueue("Success")' = P!InQueue("Success")
    BY <2>1 DEF process, P!Upgraded, P!DataPlaneCurrent, P!InQueue
  <2>3. QED
    BY <2>1, <2>2 DEF TruthInv, process, created
<1>5. CASE FirstAttempt \/ NextAttempt \/ ProcessStep \/ WorkerGivesUp \/ JobReported
  <2>1. UNCHANGED <<event, evCreate>>
    BY <1>5 DEF FirstAttempt, JobStarts, NextAttempt, ProcessStep,
         WorkerGivesUp, JobReported, JobEnds, vars, cluster, created
  <2>2. QED
    BY <1>5, <2>1, ProcessSteps, ProcessKeepsTruth
<1>6. CASE WorkerPosts
  BY <1>6, ProcessSteps, ProcessKeepsTruth DEF WorkerPosts, JobPublishes, created
<1>7. CASE SystemQuiet \/ UNCHANGED system
  <2>1. UNCHANGED <<process, jobStatus, event>>
    BY <1>7 DEF SystemQuiet, Quiet, system, vars, cluster
  <2>2. QED
    BY <1>1, <2>1
<1>8. QED
  BY <1>2, <1>3, <1>4, <1>5, <1>6, <1>7 DEF SystemNext

(* What validation checks of the release, said of the Job as it was created. *)
LEMMA SameChecks ==
  ASSUME release.version = origin, release.status = statusCreate
  PROVE  Upgradable <=> /\ P!check_helm_release(P!HelmChartMetadata)
                        /\ P!UpgradePathOk(P!HelmChartMetadata.version)
  BY DEF Upgradable, P!check_helm_release, P!UpgradePathOk, P!HelmChartMetadata,
     J!UMBRELLA_CHART_VERSION_LOWERBOUND, P!UMBRELLA_CHART_VERSION_LOWERBOUND,
     J!Le, P!Le, J!Lt, P!Lt, J!PreLt, P!PreLt, J!V, P!V, J!Stable, P!Stable

(* An attempt of a Job that is refused: nothing but its own end is in reach. *)
LEMMA RefusedStays ==
  ASSUME P!Next, ~Upgradable, jpc \in TurnedAway, queue = <<>>,
         release.version = origin, release.status = statusCreate
  PROVE  jpc' \in TurnedAway /\ UNCHANGED <<args, origin, release, queue>>
<1> USE DEF P!history, P!cluster, P!events
<1>1. CASE P!StartAttempt \/ P!JobFails \/ P!BuildEventRecorder
  BY <1>1 DEF P!StartAttempt, P!JobFails, P!BuildEventRecorder, TurnedAway
<1>2. CASE P!ExitWithError \/ P!Crash
  BY <1>2 DEF P!ExitWithError, P!Crash, P!ProcessGone, TurnedAway
<1>3. CASE P!Validate
  BY <1>3, SameChecks DEF P!Validate, TurnedAway
<1>4. CASE P!StepFails
  <2>1. jpc \in {"start", "metadata"}
    BY <1>4 DEF P!StepFails, P!Fallible, P!RunnerSteps, TurnedAway
  <2>2. P!FatalEventAt(jpc) = "none"
    BY <2>1 DEF P!FatalEventAt, P!RunnerSteps, P!HelmRunning
  <2>3. QED
    BY <1>4, <2>2 DEF P!StepFails, TurnedAway
<1>5. CASE P!Finished
  BY <1>5 DEF P!Finished, P!vars
<1>6. ~ \/ P!GenerateValuesFile \/ P!DryRun \/ P!PublishHelmUpgradeStart
        \/ P!DeleteLoki \/ P!ListEtcdPods \/ P!GetValues
        \/ P!PublishHelmUpgradeComplete \/ P!PublishSuccess \/ P!ShutdownWorker
        \/ P!WorkerPublishes \/ P!JobSucceeds
  BY DEF TurnedAway, P!GenerateValuesFile, P!DryRun, P!PublishHelmUpgradeStart,
     P!DeleteLoki, P!ListEtcdPods, P!GetValues, P!PublishHelmUpgradeComplete,
     P!PublishSuccess, P!ShutdownWorker, P!WorkerPublishes, P!JobSucceeds
<1>7. ~P!UpgradeHelm
  BY DEF TurnedAway, P!UpgradeHelm, P!BeginUpgradeOff, P!BeginUpgradeOn,
     P!BeginUpgradeOnly, P!BeginUpgrade, P!HelmApplies, P!HelmSucceeds, P!HelmFails,
     P!HelmRunning
<1>8. ~P!UpgradeDataPlane
  BY DEF TurnedAway, P!UpgradeDataPlane, P!CheckDataPlane, P!PublishNotRequired,
     P!ListIoEnginePods, P!PublishDataPlaneStart, P!RestartPod,
     P!DataPlaneUpgraded, P!PublishDataPlaneComplete
<1>9. QED
  BY <1>1, <1>2, <1>3, <1>4, <1>5, <1>6, <1>7, <1>8
  DEF P!Next, P!Step, P!Controller

(* The arguments and the origin are those of the Job. *)
LEMMA JobKeepsArgs == P!Next => UNCHANGED <<args, origin>>
  BY DEF P!Next, P!Step, P!Controller, P!UpgradeHelm, P!UpgradeDataPlane, P!history,
     P!vars, P!GenerateValuesFile, P!DryRun, P!PublishHelmUpgradeStart,
     P!DeleteLoki, P!ListEtcdPods, P!GetValues, P!PublishHelmUpgradeComplete,
     P!PublishSuccess, P!ShutdownWorker, P!WorkerPublishes, P!JobSucceeds,
     P!BeginUpgradeOff, P!BeginUpgradeOn, P!BeginUpgradeOnly, P!BeginUpgrade,
     P!HelmApplies, P!HelmSucceeds, P!HelmFails, P!CheckDataPlane,
     P!PublishNotRequired, P!ListIoEnginePods, P!PublishDataPlaneStart,
     P!RestartPod, P!DataPlaneUpgraded, P!PublishDataPlaneComplete, P!StepFails,
     P!Finished, P!Validate, P!ExitWithError, P!Crash, P!ProcessGone,
     P!StartAttempt, P!JobFails, P!BuildEventRecorder

(* A Job that is refused stays silent. *)
LEMMA SilentNext == SystemInv /\ [SystemNext]_system => SilentInv'
<1> SUFFICES ASSUME SystemInv, [SystemNext]_system PROVE SilentInv'
  OBVIOUS
<1> USE DEF SystemInv
<1>1. /\ event.num \in Nat /\ evCount \in Nat /\ event.num <= evCount
      /\ evCreate \in Nat
  BY BoundsAssumption DEF CliInv, EventInv, TypeOK, SilentInv
<1>2. ASSUME UNCHANGED <<args, origin, release, statusCreate, evCreate>>,
             jpc' \in {jpc, "down"}, queue' \in {queue, <<>>},
             event' \in {event, NoEvent}
      PROVE  SilentInv'
  <2>1. Upgradable' <=> Upgradable
    BY <1>2 DEF Upgradable
  <2>2. event'.num \in {event.num, 0}
    BY <1>2 DEF NoEvent
  <2>3. QED
    BY <1>1, <1>2, <2>1, <2>2 DEF SilentInv, TurnedAway
<1>3. CASE PluginStep
  <2>1. PICK c \in Clients : ClientMove(c)
    BY <1>3, ClientMoves DEF PluginStep
  <2>2. CASE obj["Job"].state = "absent" /\ obj'["Job"].state = "present"
    <3>1. /\ origin' = release.version /\ statusCreate' = release.status
          /\ jpc' = "down" /\ queue' = <<>> /\ evCreate' = evCount
          /\ UNCHANGED <<release, event>>
      BY <1>3, <2>1, <2>2, PluginEffects DEF PluginStep, NewJob
    <3>2. QED
      BY <1>1, <3>1 DEF SilentInv, TurnedAway
  <2>3. CASE UNCHANGED process
    BY <1>2, <2>1, <2>3, PluginEffects DEF process, created
  <2>4. QED
    BY <1>3, <2>2, <2>3 DEF PluginStep
<1>4. ASSUME NEW k \in Kinds, Collected(k) PROVE SilentInv'
  BY <1>2, <1>4 DEF Collected, Collect, created
<1>5. CASE Synced \/ SystemQuiet \/ UNCHANGED system
  BY <1>2, <1>5
  DEF Synced, SyncJob, SystemQuiet, Quiet, system, process, created, vars, cluster
<1>6. CASE \/ FirstAttempt \/ NextAttempt \/ ProcessStep
           \/ WorkerPosts \/ WorkerGivesUp \/ JobReported
  <2>1. P!Next /\ UNCHANGED <<evCreate, statusCreate>>
    BY <1>6, ProcessSteps
    DEF FirstAttempt, NextAttempt, ProcessStep, WorkerPosts, WorkerGivesUp,
        JobReported, created
  <2>2. queue = <<>> => UNCHANGED event
    BY <1>6 DEF FirstAttempt, JobStarts, NextAttempt, ProcessStep, WorkerPosts,
         WorkerGivesUp, JobReported, JobEnds, vars, cluster
  <2>3. Upgradable' <=> Upgradable
    BY <2>1, JobKeepsArgs DEF Upgradable
  <2>4. CASE Upgradable
    BY <1>1, <2>1, <2>3, <2>4 DEF SilentInv
  <2>5. CASE ~Upgradable
    BY <1>1, <2>1, <2>2, <2>3, <2>5, RefusedStays DEF SilentInv
  <2>6. QED
    BY <2>4, <2>5
<1>7. QED
  BY <1>3, <1>4, <1>5, <1>6 DEF SystemNext

-----------------------------------------------------------------------------
(* The system's invariant holds before the first call. *)
LEMMA SystemInitial == SystemInit => SystemInv
<1> SUFFICES ASSUME SystemInit PROVE SystemInv
  OBVIOUS
<1>1. CliInv
  BY CliInit DEF SystemInit
<1>2. JobInvariants
  BY SameInit, P!IInvInit, P!HelmInit, JobAssumptions
  DEF SystemInit, JobInvariants
<1>3. ObjectInv
  BY DEF SystemInit, Init, J!Init, J!ClusterInit, ObjectInv
<1>4. TruthInv
  BY DEF SystemInit, Init, NoEvent, J!Init, TruthInv, P!InQueue
<1>5. SilentInv
  BY DEF SystemInit, Init, NoEvent, J!Init, J!ClusterInit, SilentInv, TurnedAway
<1>6. QED
  BY <1>1, <1>2, <1>3, <1>4, <1>5 DEF SystemInv

(* The invariants of the plugin and of the job hold of the two together. *)
THEOREM SystemInvariance == SystemSpec => []SystemInv
<1>1. SystemInv /\ [SystemNext]_system => SystemInv'
  <2> SUFFICES ASSUME SystemInv, [SystemNext]_system PROVE SystemInv'
    OBVIOUS
  <2>1. [Next]_vars
    BY CliSteps DEF SystemInv, JobInvariants, P!IInv
  <2>2. CliInv'
    BY <2>1, CliNext DEF SystemInv
  <2>3. QED
    BY <2>2, JobNext, ObjectNext, TruthNext, SilentNext DEF SystemInv
<1>2. QED
  BY <1>1, SystemInitial, PTL DEF SystemSpec

(* The system implements UpgradeCli: what is proved of the plugin against an
   upgrade-job that may publish and end as it likes holds of the plugin with
   the job that the code runs. *)
THEOREM SystemImplementsCli == SystemSpec => Spec
<1>1. SystemInit => Init
  BY DEF SystemInit
<1>2. SystemInv /\ [SystemNext]_system => [Next]_vars
  BY CliSteps DEF SystemInv, JobInvariants, P!IInv
<1>3. QED
  BY <1>1, <1>2, SystemInvariance, PTL DEF SystemSpec, Spec

(* `upgrade status` tells the truth. *)
THEOREM StatusIsTrue == SystemSpec => []StatusTellsTruth
<1>1. SystemInv => StatusTellsTruth
  BY SameCurrent DEF SystemInv, TruthInv, StatusTellsTruth, P!Upgraded
<1>2. QED
  BY <1>1, SystemInvariance, PTL

(* A new Job is created on a cluster that UpgradeJob may start from. *)
LEMMA NewJobCovered ==
  ASSUME JobInvariants, ObjectInv, NewJob, UNCHANGED event, jobStatus' = "none"
  PROVE  P!ClusterInit'
<1>1. /\ args' \in Options
      /\ origin' = release.version
      /\ UNCHANGED <<foreign, release, loki, owned>>
  BY DEF NewJob
<1>2. JobInvariants'
  BY NewJobKeeps
<1>3. P!TypeOK' /\ P!LokiInv' /\ P!CrdInv' /\ P!PodInv'
  BY <1>2 DEF JobInvariants, P!IInv, P!HelmInv
<1>4. origin' \in Sources /\ release'.version = origin'
  BY <1>1 DEF ObjectInv
<1>5. foreign' \in SUBSET P!Crds
  BY <1>3 DEF P!TypeOK
<1>6. release'.crdsOff = P!InitialCrdsOff'
  BY <1>3, <1>4 DEF P!CrdInv, P!Taken, P!InitialCrdsOff
<1>7. P!Lt(origin', P!FOUR_DOT_O) => release'.preUpgradeJob = TRUE
  BY <1>3, <1>4 DEF P!CrdInv, P!TypeOK, P!Release
<1>8. release' \in [version: {origin'}, status: P!Status,
                    preUpgradeJob: IF P!Lt(origin', P!FOUR_DOT_O) THEN {TRUE}
                                   ELSE BOOLEAN,
                    crdsOff: {P!InitialCrdsOff'}]
  BY <1>3, <1>4, <1>6, <1>7 DEF P!TypeOK, P!Release
<1>9. owned' \in P!InitialOwned(release.status)'
  <2>1. CASE P!Lt(origin', P!FOUR_DOT_O)
    BY <1>3, <1>4, <2>1 DEF P!CrdInv, P!InitialOwned
  <2>2. CASE ~P!Lt(origin', P!FOUR_DOT_O)
    BY <1>3, <1>4, <1>6, <2>2 DEF P!CrdInv, P!InitialOwned
  <2>3. QED
    BY <2>1, <2>2
<1>10. ds' \in {"none", "old"} \cup (IF origin' = Target THEN {"new"} ELSE {})
  BY <1>3, <1>4 DEF P!PodInv, P!TypeOK, P!Revision
<1>11. podRev' \in [Pods -> IF ds' = "none" THEN {"none"} ELSE {"old", ds'}]
  BY <1>3 DEF P!PodInv
<1>12. loki' \in IF P!Le(P!V(3, 4, 1), origin') /\ P!Lt(origin', P!V(4, 3, 0))
                 THEN BOOLEAN ELSE {FALSE}
  BY <1>3, <1>4 DEF P!LokiInv, P!MovesLoki, P!TypeOK,
     P!THREE_DOT_FOUR_DOT_ONE, P!FOUR_DOT_THREE
<1>13. QED
  BY <1>1, <1>4, <1>5, <1>8, <1>9, <1>10, <1>11, <1>12 DEF P!ClusterInit

(* Only a step of the plugin brings a Job object into being. *)
LEMMA OnlyPluginCreates ==
  ASSUME SystemInv, [SystemNext]_system,
         obj["Job"].state = "absent", obj'["Job"].state = "present"
  PROVE  PluginStep
<1>1. ~UNCHANGED obj
  OBVIOUS
<1>2. ASSUME NEW k \in Kinds, Collected(k) PROVE FALSE
  BY <1>2, KindsAssumption DEF Collected, Collect, SystemInv, CliInv, TypeOK
<1>3. QED
  BY <1>1, <1>2
  DEF SystemNext, system, vars, cluster, Synced, SyncJob, FirstAttempt,
      JobStarts, NextAttempt, ProcessStep, WorkerPosts, JobPublishes,
      WorkerGivesUp, JobReported, JobEnds, SystemQuiet, Quiet

(* One Job after another: each starts where UpgradeJob starts. *)
THEOREM EveryJobIsCovered == SystemSpec => NewJobStartsCovered
<1> DEFINE A == obj["Job"].state = "absent" /\ obj'["Job"].state = "present"
                  => J!ClusterInit'
<1>1. SystemInv /\ [SystemNext]_system => [A]_system
  <2> SUFFICES ASSUME SystemInv, [SystemNext]_system,
                      obj["Job"].state = "absent",
                      obj'["Job"].state = "present"
               PROVE  J!ClusterInit'
    OBVIOUS
  <2>1. PluginStep
    BY OnlyPluginCreates
  <2>2. PICK c \in Clients : ClientMove(c)
    BY <2>1, ClientMoves DEF PluginStep
  <2>3. NewJob /\ UNCHANGED event /\ jobStatus' = "none"
    BY <2>1, <2>2, PluginEffects DEF PluginStep, SystemInv, ObjectInv
  <2>4. P!ClusterInit'
    BY <2>3, NewJobCovered DEF SystemInv
  <2>5. QED
    BY <2>4 DEF
      J!ClusterInit, P!ClusterInit, J!InitialCrdsOff, P!InitialCrdsOff,
      J!InitialOwned, P!InitialOwned, J!Status, P!Status, J!Crds, P!Crds,
      J!Le, P!Le, J!Lt, P!Lt, J!PreLt, P!PreLt, J!V, P!V, J!Stable, P!Stable,
      J!FOUR_DOT_O, P!FOUR_DOT_O
<1>2. QED
  BY <1>1, SystemInvariance, PTL DEF SystemSpec, NewJobStartsCovered

(* A plain delete that goes ahead finds the upgrade complete. *)
THEOREM PlainDeleteIsLate == SystemSpec => PlainDeleteAfterCompletion
<1> DEFINE A == \A c \in Clients :
                  op[c] = "delete" /\ pc[c] = "check" /\ pc'[c] = "delete"
                  => /\ release.version = Target /\ release.status = "deployed"
                     /\ J!DataPlaneCurrent
<1>1. SystemInv /\ [SystemNext]_system => [A]_system
  <2> SUFFICES ASSUME SystemInv, [SystemNext]_system, NEW c \in Clients,
                      op[c] = "delete", pc[c] = "check", pc'[c] = "delete"
               PROVE  /\ release.version = Target /\ release.status = "deployed"
                      /\ J!DataPlaneCurrent
    OBVIOUS
  <2> USE DEF SystemInv
  <2>1. [Next]_vars
    BY CliSteps DEF JobInvariants, P!IInv
  <2>2. jobStatus = "succeeded"
    BY <2>1, CheckPasses DEF CliInv
  <2>3. jpc = "done"
    BY <2>2 DEF JobInvariants, P!IInv, P!JobInv
  <2>4. /\ release.version = Target /\ release.status = "deployed"
        /\ P!DataPlaneCurrent
    BY <2>3 DEF JobInvariants, P!IInv, P!ReleaseInv, P!DataPlaneInv, P!AfterHelm
  <2>5. QED
    BY <2>4, SameCurrent
<1>2. QED
  BY <1>1, SystemInvariance, PTL DEF SystemSpec, PlainDeleteAfterCompletion

(* A Job whose validation refuses the release never seems to have started. *)
THEOREM RefusedJobsAreSilent == SystemSpec => []RefusedJobIsSilent
<1>1. SystemInv => RefusedJobIsSilent
  BY DEF SystemInv, SilentInv, RefusedJobIsSilent
<1>2. QED
  BY <1>1, SystemInvariance, PTL

=============================================================================
