----------------------------- MODULE UpgradeJob -----------------------------
(***************************************************************************)
(* The upgrade-job of openebs-upgrade: the process that a Kubernetes Job   *)
(* runs, and re-runs after a failure, to upgrade an OpenEBS helm release   *)
(* and then restart the io-engine pods of Mayastor.                        *)
(*                                                                         *)
(* One run of the process is an attempt. pc is the await point at which    *)
(* the attempt stands, src, toggles and todo are its local variables and   *)
(* queue is the channel of its event worker: all of them die with the      *)
(* process. release, ds, podRev, loki and owned are the cluster: they      *)
(* survive, and a later attempt starts from whatever an earlier one left.  *)
(*                                                                         *)
(* External parts, modelled from how the code uses them: the helm binary,  *)
(* upgrade_data_plane and delete_loki_sts of the `upgrade` crate, its      *)
(* EventRecorder, and the Job controller with its back-off limit.          *)
(***************************************************************************)
EXTENDS SemVer, Sequences, FiniteSets

CONSTANTS
  Target,        \* version of the chart bundled with the job's image
  Sources,       \* versions the release may have when the Job is created
  Pods,          \* io-engine pods
  CrdSets,       \* the CRD sets of crd_names_to_helm_toggles, one per toggle
  Options,       \* the command lines considered, a subset of Args
  BackoffLimit   \* backoffLimit of the Job

(* Command line, and what helm computes from it for the final values. *)
Args == [skipRestart: BOOLEAN, skipPath: BOOLEAN,
         mayastor: BOOLEAN, partialRebuild: BOOLEAN]

Crds == UNION CrdSets

ASSUME TargetAssumption ==
  Target \in Version /\ Le(FOUR_DOT_THREE, Target)
ASSUME SourcesAssumption == Sources \subseteq Version
ASSUME OptionsAssumption == Options \subseteq Args
ASSUME BackoffAssumption == BackoffLimit \in Nat
ASSUME CrdSetsAssumption ==
  \A S, T \in CrdSets : S # {} /\ (S # T => S \cap T = {})

VARIABLES
  args,      \* the command line of this Job
  origin,    \* history: version of the release when the Job was created
  foreign,   \* CRDs that were on the cluster before helm installed any
  release,   \* the last revision of the helm release
  ds,        \* revision of the io-engine DaemonSet
  podRev,    \* revision each io-engine pod runs
  loki,      \* whether the StatefulSet of the old loki-stack exists
  owned,     \* CRD sets that helm installed
  job,       \* state of the Job
  failures,  \* failed attempts so far
  pc,        \* where the attempt stands
  src,       \* local: source_version
  toggles,   \* local: CRD sets switched off in the temporary values file
  todo,      \* local: io-engine pods still to be restarted
  queue,     \* channel of the event worker
  lastEvent  \* the newest OpenebsUpgrade event on the cluster

history == <<args, origin, foreign>>
cluster == <<release, ds, podRev, loki, owned>>
local == <<src, toggles, todo>>
events == <<queue, lastEvent>>
control == <<job, failures>>
vars == <<history, cluster, local, events, control, pc>>

-----------------------------------------------------------------------------
(* Values *)

Status == {"deployed", "pending-upgrade", "failed"}
Revision == {"none", "old", "new"}
Release == [version: Version, status: Status,
            preUpgradeJob: BOOLEAN, crdsOff: SUBSET CrdSets]

NormalEvent == {"HelmUpgradeStart", "HelmUpgradeComplete",
                "DataPlaneUpgradeNotRequired", "DataPlaneUpgradeStart",
                "DataPlaneUpgradeComplete", "Success"}
FatalEvent == {"FailedHelmUpgradeDryRun", "FailedHelmUpgrade",
               "FailedDataPlaneUpgrade"}
Event == NormalEvent \cup FatalEvent

(* Steps inside the future that dry_run returns. *)
RunnerSteps == {"loki", "etcd", "off", "on", "only", "getValues"}
(* helm upgrade is running as a child process. *)
HelmRunning == {"offRun", "onRun", "onlyRun"}
(* Steps that may return an error and have no other effect. *)
Fallible == {"start", "metadata", "values", "dryRun", "helmStart",
             "helmComplete", "notRequired", "revision", "dpStart", "restart",
             "dpComplete", "success"} \cup RunnerSteps
Running == Fallible \cup HelmRunning \cup {"dataPlane", "flush", "exiting"}
Steps == Running \cup {"down", "done"}

TypeOK ==
  /\ args \in Args
  /\ origin \in Version
  /\ foreign \subseteq Crds
  /\ release \in Release
  /\ ds \in Revision
  /\ podRev \in [Pods -> Revision]
  /\ loki \in BOOLEAN
  /\ owned \subseteq CrdSets
  /\ job \in {"active", "succeeded", "failed"}
  /\ failures \in 0 .. BackoffLimit + 1
  /\ pc \in Steps
  /\ src \in Version
  /\ toggles \subseteq CrdSets
  /\ todo \subseteq Pods
  /\ queue \in Seq(Event)
  /\ lastEvent \in Event \cup {"none"}

-----------------------------------------------------------------------------
(* Decisions of the code. Here and below, a definition whose name begins with
   Wrong is a plausible bug in the one that follows it: no specification uses
   it, and it shows that a property can tell the two apart. *)

(* The ensure! checks of check_helm_release on the metadata read. *)
WrongStatusIgnored(r) == Le(UMBRELLA_CHART_VERSION_LOWERBOUND, r.version)
check_helm_release(r) ==
  /\ Le(UMBRELLA_CHART_VERSION_LOWERBOUND, r.version)
  /\ r.status = "deployed"

WrongNoPathCheck(v) == TRUE
UpgradePathOk(v) == args.skipPath \/ Le(v, Target)

(* helm get metadata: the chart version and the status of the last revision. *)
HelmChartMetadata == [version |-> release.version, status |-> release.status]

CrdPresent == foreign \cup UNION owned

(* safe_crd_install: a set is switched off if at least one of its CRDs is on
   the cluster, and generate_values_file asks for it on the way from v3 to v4. *)
WrongOnlyIfAllExist == {S \in CrdSets : S \subseteq CrdPresent}
safe_crd_install == {S \in CrdSets : S \cap CrdPresent # {}}
WrongOnEveryUpgrade(v) == safe_crd_install
WrongDirection(v) ==
  IF Lt(v, FOUR_DOT_O) /\ Lt(Target, FOUR_DOT_O) THEN safe_crd_install ELSE {}
generate_values_file(v) ==
  IF Lt(v, FOUR_DOT_O) /\ ~Lt(Target, FOUR_DOT_O) THEN safe_crd_install ELSE {}

WrongUpToFour(v) == Le(THREE_DOT_FOUR_DOT_ONE, v) /\ Lt(v, FOUR_DOT_O)
MovesLoki(v) == Le(THREE_DOT_FOUR_DOT_ONE, v) /\ Lt(v, FOUR_DOT_THREE)

(* Etcd pods are there exactly when Mayastor is deployed. *)
WrongNeverDisable(v) == FALSE
MustDisablePreUpgradeJob(v) == Lt(v, FOUR_DOT_O) /\ ds = "none"

mayastor_partial_rebuild_check(v) ==
  ~ /\ Le(PARTIAL_REBUILD_DISABLE_EXTENTS[1], v)
    /\ Le(v, PARTIAL_REBUILD_DISABLE_EXTENTS[2])
    /\ args.partialRebuild

(* The event that the or_else of a failed step publishes, if there is one. *)
FatalEventAt(p) ==
  IF p = "dryRun" THEN "FailedHelmUpgradeDryRun"
  ELSE IF p \in RunnerSteps \cup HelmRunning THEN "FailedHelmUpgrade"
  ELSE IF p = "restart" THEN "FailedDataPlaneUpgrade"
  ELSE "none"

-----------------------------------------------------------------------------
(* Initial states: a Job just created for a release helm knows of, whose last
   upgrade may have failed or have been cut short (status pending-upgrade). *)

InitialCrdsOff ==
  IF Lt(origin, FOUR_DOT_O) THEN {}
  ELSE {S \in CrdSets : S \cap foreign # {}}

(* What helm may have installed: all that is not switched off, or part of it
   when its last upgrade did not complete. *)
InitialOwned(status) ==
  IF Lt(origin, FOUR_DOT_O) THEN {{}}
  ELSE IF status = "deployed" THEN {CrdSets \ InitialCrdsOff}
  ELSE SUBSET (CrdSets \ InitialCrdsOff)

ClusterInit ==
  /\ args \in Options
  /\ origin \in Sources
  /\ foreign \in SUBSET Crds
  /\ release \in [version: {origin}, status: Status,
                  preUpgradeJob: IF Lt(origin, FOUR_DOT_O) THEN {TRUE} ELSE BOOLEAN,
                  crdsOff: {InitialCrdsOff}]
  /\ owned \in InitialOwned(release.status)
  /\ ds \in {"none", "old"} \cup (IF origin = Target THEN {"new"} ELSE {})
  /\ podRev \in [Pods -> IF ds = "none" THEN {"none"} ELSE {"old", ds}]
  /\ loki \in IF Le(V(3, 4, 1), origin) /\ Lt(origin, V(4, 3, 0))
              THEN BOOLEAN ELSE {FALSE}

Init ==
  /\ ClusterInit
  /\ job = "active"
  /\ failures = 0
  /\ pc = "down"
  /\ src = origin
  /\ toggles = {}
  /\ todo = {}
  /\ queue = <<>>
  /\ lastEvent = "none"

-----------------------------------------------------------------------------
(* Steps of an attempt *)

Emit(e) == queue' = Append(queue, e) /\ UNCHANGED lastEvent

(* main: arguments are parsed and the EventRecorder is built. *)
BuildEventRecorder ==
  /\ pc = "start"
  /\ pc' = "metadata"
  /\ UNCHANGED <<history, cluster, local, events, control>>

(* validate_and_build_helm_upgrader up to the path check. The checks of the
   helm binary, the chart's name and the chart directory fail in StepFails. *)
Validate ==
  /\ pc = "metadata"
  /\ IF check_helm_release(HelmChartMetadata) /\ UpgradePathOk(HelmChartMetadata.version)
     THEN src' = HelmChartMetadata.version /\ pc' = "values"
     ELSE src' = src /\ pc' = "exiting"
  /\ UNCHANGED <<history, cluster, toggles, todo, events, control>>

GenerateValuesFile ==
  /\ pc = "values"
  /\ toggles' = generate_values_file(src)
  /\ pc' = "dryRun"
  /\ UNCHANGED <<history, cluster, src, todo, events, control>>

DryRun ==
  /\ pc = "dryRun"
  /\ pc' = "helmStart"
  /\ UNCHANGED <<history, cluster, local, events, control>>

PublishHelmUpgradeStart ==
  /\ pc = "helmStart"
  /\ Emit("HelmUpgradeStart")
  /\ pc' = "loki"
  /\ UNCHANGED <<history, cluster, local, control>>

DeleteLoki ==
  /\ pc = "loki"
  /\ loki' = (loki /\ ~MovesLoki(src))
  /\ pc' = "etcd"
  /\ UNCHANGED <<history, release, ds, podRev, owned, local, events, control>>

ListEtcdPods ==
  /\ pc = "etcd"
  /\ pc' = IF MustDisablePreUpgradeJob(src) THEN "off" ELSE "only"
  /\ UNCHANGED <<history, cluster, local, events, control>>

(* helm creates a new revision: --reset-then-reuse-values keeps the values of
   the previous one, and the arguments of this call are laid over them. *)
BeginUpgrade(from, to, preUpgradeJob) ==
  /\ pc = from
  /\ release' = [version |-> Target, status |-> "pending-upgrade",
                 preUpgradeJob |-> preUpgradeJob,
                 crdsOff |-> release.crdsOff \cup toggles]
  /\ pc' = to
  /\ UNCHANGED <<history, ds, podRev, loki, owned, local, events, control>>

BeginUpgradeOff == BeginUpgrade("off", "offRun", FALSE)
BeginUpgradeOn == BeginUpgrade("on", "onRun", TRUE)
BeginUpgradeOnly == BeginUpgrade("only", "onlyRun", release.preUpgradeJob)

(* What the manifests of the target chart make of the cluster. The DaemonSet
   has the update strategy OnDelete: pods that run keep their revision. *)
Applied ==
  /\ ds' = IF args.mayastor THEN "new" ELSE "none"
  /\ podRev' = [p \in Pods |->
                  IF ~args.mayastor THEN "none"
                  ELSE IF podRev[p] = "none" THEN "new" ELSE podRev[p]]
  /\ owned' = owned \cup (CrdSets \ release.crdsOff)

(* helm has applied its manifests and has not finished: a failure or a crash
   after this leaves them behind. *)
HelmApplies ==
  /\ pc \in HelmRunning
  /\ Applied
  /\ UNCHANGED <<history, release, loki, local, events, control, pc>>

HelmSucceeds ==
  /\ pc \in HelmRunning
  /\ Applied
  /\ release' = [release EXCEPT !.status = "deployed"]
  /\ pc' = IF pc = "offRun" THEN "on" ELSE "getValues"
  /\ UNCHANGED <<history, loki, local, events, control>>

(* The hook or a resource failed: helm marks the revision and returns. *)
WrongErrorDropped ==
  /\ pc \in HelmRunning
  /\ release' = [release EXCEPT !.status = "failed"]
  /\ Emit(FatalEventAt(pc))
  /\ pc' = "getValues"
  /\ UNCHANGED <<history, ds, podRev, loki, owned, local, control>>
HelmFails ==
  /\ pc \in HelmRunning
  /\ release' = [release EXCEPT !.status = "failed"]
  /\ \/ Emit(FatalEventAt(pc))
     \/ UNCHANGED events
  /\ pc' = "exiting"
  /\ UNCHANGED <<history, ds, podRev, loki, owned, local, control>>

GetValues ==
  /\ pc = "getValues"
  /\ pc' = "helmComplete"
  /\ UNCHANGED <<history, cluster, local, events, control>>

PublishHelmUpgradeComplete ==
  /\ pc = "helmComplete"
  /\ Emit("HelmUpgradeComplete")
  /\ pc' = IF args.skipRestart THEN "success" ELSE "dataPlane"
  /\ UNCHANGED <<history, cluster, local, control>>

(* mayastor_data_plane_upgrade up to its first await. *)
WrongFlagInverted ==
  /\ pc = "dataPlane"
  /\ pc' = IF args.mayastor THEN "notRequired" ELSE "revision"
  /\ UNCHANGED <<history, cluster, local, events, control>>
CheckDataPlane ==
  /\ pc = "dataPlane"
  /\ pc' = IF ~args.mayastor THEN "notRequired"
           ELSE IF mayastor_partial_rebuild_check(src) THEN "revision"
           ELSE "exiting"
  /\ UNCHANGED <<history, cluster, local, events, control>>

PublishNotRequired ==
  /\ pc = "notRequired"
  /\ Emit("DataPlaneUpgradeNotRequired")
  /\ pc' = "success"
  /\ UNCHANGED <<history, cluster, local, control>>

(* latest_controller_revision_hash and the list of pods with another hash. *)
WrongSelector == {p \in Pods : podRev[p] = ds}
YetToUpgrade == {p \in Pods : podRev[p] # ds}
ListIoEnginePods ==
  /\ pc = "revision"
  /\ todo' = YetToUpgrade
  /\ pc' = "dpStart"
  /\ UNCHANGED <<history, cluster, src, toggles, events, control>>

PublishDataPlaneStart ==
  /\ pc = "dpStart"
  /\ Emit("DataPlaneUpgradeStart")
  /\ pc' = "restart"
  /\ UNCHANGED <<history, cluster, local, control>>

(* upgrade_data_plane drains a node, deletes its pod and waits for the new one. *)
WrongAllAtOnce(p) ==
  /\ pc = "restart"
  /\ p \in todo
  /\ podRev' = [q \in Pods |-> ds]
  /\ todo' = {}
  /\ UNCHANGED <<history, release, ds, loki, owned, src, toggles, events,
                 control, pc>>
RestartPod(p) ==
  /\ pc = "restart"
  /\ p \in todo
  /\ podRev' = [podRev EXCEPT ![p] = ds]
  /\ todo' = todo \ {p}
  /\ UNCHANGED <<history, release, ds, loki, owned, src, toggles, events,
                 control, pc>>

DataPlaneUpgraded ==
  /\ pc = "restart"
  /\ todo = {}
  /\ pc' = "dpComplete"
  /\ UNCHANGED <<history, cluster, local, events, control>>

PublishDataPlaneComplete ==
  /\ pc = "dpComplete"
  /\ Emit("DataPlaneUpgradeComplete")
  /\ pc' = "success"
  /\ UNCHANGED <<history, cluster, local, control>>

PublishSuccess ==
  /\ pc = "success"
  /\ Emit("Success")
  /\ pc' = "flush"
  /\ UNCHANGED <<history, cluster, local, control>>

(* main: shutdown_worker waits for the worker, then the process exits with 0. *)
WrongChannelLeftOpen == pc = "flush" /\ FALSE /\ UNCHANGED vars
ShutdownWorker ==
  /\ pc = "flush"
  /\ queue = <<>>
  /\ pc' = "done"
  /\ UNCHANGED <<history, cluster, local, events, control>>

(* A step returns an error: its or_else publishes the fatal event, whose own
   failure is ignored, and the error is returned to main. *)
StepFails ==
  /\ pc \in Fallible
  /\ \/ FatalEventAt(pc) # "none" /\ Emit(FatalEventAt(pc))
     \/ UNCHANGED events
  /\ pc' = "exiting"
  /\ UNCHANGED <<history, cluster, local, control>>

(* The event worker takes the next event: it posts it, or gives it up. *)
WorkerPublishes ==
  /\ pc \in Running
  /\ queue # <<>>
  /\ queue' = Tail(queue)
  /\ lastEvent' \in {Head(queue), lastEvent}
  /\ UNCHANGED <<history, cluster, local, control, pc>>

-----------------------------------------------------------------------------
(* The Job controller *)

ProcessGone ==
  /\ pc' = "down"
  /\ failures' = failures + 1
  /\ queue' = <<>>
  /\ UNCHANGED <<history, cluster, local, lastEvent, job>>

(* main returns an error; the worker is not waited for. *)
ExitWithError == pc = "exiting" /\ ProcessGone

(* The pod is evicted, runs out of memory or loses its node. *)
Crash == pc \in Running /\ ProcessGone

WrongUnlimited ==
  /\ pc = "down" /\ job = "active"
  /\ failures <= BackoffLimit + 1
  /\ pc' = "start"
  /\ UNCHANGED <<history, cluster, local, events, control>>
StartAttempt ==
  /\ pc = "down" /\ job = "active"
  /\ failures <= BackoffLimit
  /\ pc' = "start"
  /\ UNCHANGED <<history, cluster, local, events, control>>

JobFails ==
  /\ pc = "down" /\ job = "active"
  /\ failures > BackoffLimit
  /\ job' = "failed"
  /\ UNCHANGED <<history, cluster, local, events, failures, pc>>

JobSucceeds ==
  /\ pc = "done" /\ job = "active"
  /\ job' = "succeeded"
  /\ UNCHANGED <<history, cluster, local, events, failures, pc>>

Finished == job # "active" /\ UNCHANGED vars

-----------------------------------------------------------------------------
UpgradeHelm ==
  \/ BeginUpgradeOff \/ BeginUpgradeOn \/ BeginUpgradeOnly
  \/ HelmApplies \/ HelmSucceeds \/ HelmFails

UpgradeDataPlane ==
  \/ CheckDataPlane \/ PublishNotRequired \/ ListIoEnginePods
  \/ PublishDataPlaneStart \/ (\E p \in Pods : RestartPod(p))
  \/ DataPlaneUpgraded \/ PublishDataPlaneComplete

Step ==
  \/ BuildEventRecorder \/ Validate \/ GenerateValuesFile \/ DryRun
  \/ PublishHelmUpgradeStart \/ DeleteLoki \/ ListEtcdPods
  \/ UpgradeHelm \/ GetValues \/ PublishHelmUpgradeComplete
  \/ UpgradeDataPlane \/ PublishSuccess \/ ShutdownWorker
  \/ StepFails \/ ExitWithError

Controller == StartAttempt \/ JobFails \/ JobSucceeds

Next == Step \/ WorkerPublishes \/ Controller \/ Crash \/ Finished

Fairness == WF_vars(Step) /\ WF_vars(WorkerPublishes) /\ WF_vars(Controller)

Spec == Init /\ [][Next]_vars
FairSpec == Spec /\ Fairness

-----------------------------------------------------------------------------
(* Properties *)

(* The data plane needs no restart, or every io-engine pod runs the revision
   that the target chart gave the DaemonSet. *)
DataPlaneCurrent ==
  args.mayastor /\ ~args.skipRestart => \A p \in Pods : podRev[p] = "new"

(* A Job that Kubernetes reports as succeeded has done the whole upgrade: the
   release is deployed at the chart's version and, unless restarts were skipped
   or Mayastor is off, every io-engine pod has been restarted, whatever earlier
   attempts left half done. *)
SuccessIsComplete ==
  job = "succeeded" =>
    /\ release.version = Target
    /\ release.status = "deployed"
    /\ DataPlaneCurrent

(* Once the event "Success" is on its way or is the newest on the cluster, the
   release has the target version and the pods are current, also while a later
   attempt runs because the process died after publishing it. *)
SuccessEventHolds ==
  (lastEvent = "Success" \/ \E i \in 1 .. Len(queue) : queue[i] = "Success")
    => release.version = Target /\ DataPlaneCurrent

HelmBegins == release.status # "pending-upgrade"
              /\ release'.status = "pending-upgrade"

(* A release that an interrupted or failed helm upgrade left in another status
   than deployed is not touched by any later attempt, nor are the pods and the
   loki StatefulSet: check_helm_release turns every retry away. *)
BrokenReleaseFrozen ==
  [][release.status # "deployed" /\ pc \notin HelmRunning
       => UNCHANGED cluster]_vars

(* helm upgrade is never run while the StatefulSet of the old loki-stack is
   there: delete_loki_sts comes first, in the same attempt. *)
OldLokiGone == [][HelmBegins => ~loki]_vars

(* helm upgrade never runs the Etcd preUpgradeJob of the v4 chart against a v3
   release without Etcd, where it would hang on the missing JWT token. *)
HookNeverStuck ==
  [][HelmBegins /\ Lt(release.version, FOUR_DOT_O) /\ ds = "none"
       => ~release'.preUpgradeJob]_vars

(* helm is never asked to install a CRD set of which the cluster already had a
   CRD, in whichever attempt, though only attempts that start from v3 look. *)
ForeignCrdsRespected ==
  [][HelmBegins =>
       \A S \in CrdSets : S \cap foreign # {} => S \in release'.crdsOff]_vars

(* No helm upgrade switches off a CRD set that helm itself installed (helm
   would drop the CRDs, and with them every volume): a retry after the first
   upgrade does not mistake helm's own CRDs for existing ones. *)
OwnedCrdsKept == [][HelmBegins => owned \cap release'.crdsOff = {}]_vars

(* The version of the release never goes down unless the path check is skipped. *)
NoDowngrade ==
  [][~args.skipPath => Le(release.version, release'.version)]_vars

OnlyWhenDeployed ==
  \A p \in Pods :
    podRev[p] = "old" /\ podRev'[p] = "new"
      => release.version = Target /\ release.status = "deployed"

(* A running io-engine pod changes its revision only while the release is
   deployed at the target version: the control plane comes first. *)
ControlPlaneFirst == [][OnlyWhenDeployed]_vars

(* The Job comes to an end: an attempt makes progress, and the back-off limit
   bounds the number of attempts. *)
JobEnds == <>(job # "active")

(* After a helm upgrade that did not complete the Job can only fail. *)
BrokenReleaseFails ==
  (release.status # "deployed" /\ pc = "down") ~> job = "failed"

InPartialRebuildWindow(v) == Le(V(3, 7, 0), v) /\ Le(v, V(3, 10, 0))

(* Stated by the comment on PARTIAL_REBUILD_DISABLE_EXTENTS: upgrading from
   3.7.0 to 3.10.0 requires that partial rebuild be disabled. A retry reads
   the version that the first attempt's helm upgrade wrote. *)
PartialRebuildRespected ==
  pc = "restart" /\ todo # {} /\ args.partialRebuild
    => ~InPartialRebuildWindow(origin)

(* Stated by the comment in dry_run: after the upgrade from v3 the release is
   upgraded again with the preUpgradeJob enabled, so that it does not stay
   disabled. An attempt that dies between the two upgrades is not resumed. *)
PreUpgradeJobRestored ==
  job = "succeeded" /\ Lt(origin, FOUR_DOT_O) => release.preUpgradeJob

-----------------------------------------------------------------------------
(* The promise of UpgradeContract, read off this module's state. A release that
   is deployed is current if it has the target's version. *)

ControlPlane ==
  IF release.status = "pending-upgrade" THEN "upgrading"
  ELSE IF release.status = "failed" THEN "broken"
  ELSE IF release.version = Target THEN "current" ELSE "other"

Stale == {p \in Pods : podRev[p] = "old"}
MustRestart == args.mayastor /\ ~args.skipRestart
Outcome == IF job = "active" THEN "running" ELSE job

Contract ==
  INSTANCE UpgradeContract
    WITH cp <- ControlPlane, stale <- Stale,
         restart <- MustRestart, outcome <- Outcome

(* The job, with its crashes, retries and failing steps, implements the
   contract: seen from outside, no attempt does anything but begin or end a
   helm upgrade of a deployed release, retire the pods with it, restart one
   stale pod of a current release, or report an outcome it may report. *)
ImplementsContract == Contract!Spec

=============================================================================
