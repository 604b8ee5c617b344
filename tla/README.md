# OpenEBS upgrade: TLA+ models, checks and proofs

This directory models the parts of the repository in which OpenEBS' own logic
lives: the **upgrade** of an installed release, the listings of local volumes
and the system dump. The storage engines (Mayastor, LVM, ZFS, hostpath) are
other repositories; here are the `kubectl openebs`
plugin (`plugin/`), the `upgrade-job` (`openebs-upgrade/`) and the helm chart.

## The system

```
 kubectl openebs upgrade            Kubernetes                     upgrade-job (pod of the Job)
 ----------------------             ----------                     ---------------------------
 preflight checks  -- reads -->     helm release, volumes, nodes
 delete old events -- deletes -->   Events
 create resources  -- creates -->   SA, ClusterRole, CRB,  -- runs, again after a failure -->  validate
                                    ConfigMap, Job                                             CRD toggles
 poll for an event <-- reads --     Events  <------------- event worker ---------------------- helm upgrade (1 or 2)
 upgrade status    <-- reads --     Events                                                     restart io-engine pods
 upgrade delete    -- deletes -->   the five objects
```

### Inventory

| Component | State it keeps | Operations | Interacts with | What is hard | Correct when |
|---|---|---|---|---|---|
| upgrade-job process (`openebs-upgrade/src`) | none of its own between attempts; in an attempt: versions read, CRD toggles, pods to restart, event channel | validate, write values file, dry run, delete loki, helm upgrade(s), restart pods, publish | helm, API server, REST API, event worker | dies at any await and is run again; reads what an earlier attempt left; helm itself can be cut short | a succeeded Job has upgraded everything, nothing is touched out of order |
| helm validation and values (`helm/upgrade/config.rs`, `helm/values.rs`) | - | check release, path and CRDs | helm, API server | CRDs of an earlier attempt look like foreign ones | no downgrade, no CRD conflict, no CRD dropped |
| plugin: upgrade, upgrade delete (`cli_utils/upgrade`) | five Kubernetes objects named after release and version | create, delete, poll, refuse | API server, Job controller, other terminals | five concurrent requests, partial failure, Ctrl-C, foreground deletion, stale events | retry completes; delete is complete and spares an unfinished Job |
| plugin: preflight (`cli_utils/upgrade/mod.rs`, `helm_values.rs`) | page token, volumes found | path, rebuild, cordon, single-replica checks | helm storage, REST API | pages are read while the cluster changes | nothing that lasts through the scan is overlooked |
| set-file and ConfigMap (`k8s/resources.rs`) | - | build objects from arguments | file system | two maps that must agree, paths given twice, arguments refused half-way | the Job reads for every key the file that was given for it |
| upgrade status (`k8s/upgrade_status.rs`) | - | read newest event | Events of all Jobs of this version | events of a Job that is being deleted | what it shows is true of the cluster |
| local PV listings (`cli_utils/localpv`) | - | join CRs with PersistentVolumes | API server | paging, missing fields | every volume with a PV is listed once |
| supportability dump (`cli_utils/supportability`, `localpv/*/supportability.rs`) | temporary directory, archive, errors gathered | collect, archive | API server, loki, file system | errors in four nested lists, some dropped, some returned early | one failure stops nothing else and is reported; Ok means collected |

## Modules

| Module | Models |
|---|---|
| `SemVer` | versions as tuples with the order of semver, and the constants of `constants.rs` |
| `UpgradeJob` | the upgrade-job and the Job that runs it, over any number of attempts |
| `UpgradeContract` | what the upgrade-job promises: the abstract specification of `UpgradeJob` |
| `UpgradeJobProofs` | theorems about `UpgradeJob`, checked by TLAPS: a succeeded Job is complete, order of the steps |
| `UpgradeHelmProofs` | more of them: loki, the hook, CRDs, the Success event, versions over all attempts |
| `UpgradeJobRefinement` | the proof that `UpgradeJob` implements `UpgradeContract` |
| `SetFileArgs` | `config_map_data` and `job_set_file_args` as operators |
| `UpgradeCli` | concurrent `upgrade`, `upgrade status`, `upgrade delete` and `upgrade delete --force` |
| `UpgradeCliProofs` | theorems about any number of calls side by side, and that a Job's arguments point to its own files |
| `UpgradeSystem` | `UpgradeCli` and `UpgradeJob` composed: the Job that the plugin creates is the process of `UpgradeJob` |
| `UpgradeSystemProofs` | theorems about one Job after another, and that the system implements `UpgradeCli` |
| `Preflight` | `upgrade_preflight_check` against a cluster that changes |
| `PreflightProofs` | theorems about the scans by page |
| `LocalPV` | the `get` commands of the LVM, ZFS and hostpath engines |
| `LocalPVProofs` | theorems about what a listing shows while objects come and go |
| `SupportDump` | `dump system`: the collectors, their errors, the archive |
| `SupportDumpProofs` | theorems about what a dump collects and reports |
| `MCUpgradeJob`, `MCUpgradeCli`, `MCUpgradeSystem`, `MCPreflight`, `MCLocalPV` | small instances for TLC |

Definitions whose names begin with `Wrong` are plausible bugs in the definition
that follows each of them. No specification uses them: they show that the
property named with them in `PROJECT.json` would notice the bug.

### UpgradeJob

`pc` names the await at which an attempt stands; an action is the code from one
await to the next. `src`, `toggles`, `todo` are locals of the process (the
version read, the CRD sets switched off in the temporary values file, the pods
still to restart), `queue` is the channel to the event worker. A failed or
crashed process loses them, while `release`, `ds`, `podRev`, `loki` and `owned`,
the cluster, stay as they are. `StepFails` is the error return of any fallible
await, with the `or_else` that publishes a fatal event; `Crash` ends the process
anywhere. `StartAttempt`, `JobFails` and `JobSucceeds` are the Job controller
with the `backoffLimit` that the plugin sets.

helm is external. It creates a revision in the status pending-upgrade that has
the new version (`BeginUpgrade`), applies manifests (`HelmApplies`), and marks
the revision deployed or failed. `--reset-then-reuse-values` keeps what the
previous revision had set, which is how `preUpgradeJob` and `crdsOff` persist
from one attempt to the next. The io-engine DaemonSet is updated on deletion of
its pods only. `upgrade_data_plane` is external as well: it restarts the given
pods, one after the other, and may fail at any of them. Etcd pods are taken to
exist exactly where Mayastor is deployed. What the final helm values say of
Mayastor and of partial rebuild is chosen with the command line (`args`), since
`--set` and `--set-file` determine it; it stays the same for all attempts.

`ClusterInit` says which clusters a new Job may find: a release at any source
version in any status, also one that a helm upgrade left in pending-upgrade or
failed, with any of the CRDs present, and, if it is at the target already, with
some pods restarted. `UpgradeSystem` shows that this is enough for every Job that
follows another.

### UpgradeContract

Four variables: the control plane (`other`, `upgrading`, `current`, `broken`), the
pods that are stale, whether they are to be restarted, and the outcome of the Job.
Attempts, events, CRDs and values do not occur in it. The mapping at the end of
`UpgradeJob` reads `cp` off the status and the version of the release, `stale` off
the revisions of the pods. It forbids, for instance, a helm upgrade of a release
that is broken, a pod restarted before the control plane is current, two pods
restarted in one step, and any step after the Job has ended.

### UpgradeCli

`obj` is the state of each of the five objects and the number of times it was
created; `pend` holds the requests of a call that are on their way. A request
that fails moves the call to `createFailing` or `deleteFailing`, in which the
requests already spawned may still arrive before the error is returned
(`try_join!` over spawned tasks). `Interrupt` is the `select!` of `main`.
`AlreadyExists` and `NotFound` count as success, as in the code. Deleted objects
are terminating until `Collect`. `jobCall` and `cmCall` say whose arguments the
Job carries and whose files the ConfigMap holds. `before`, `evStart` and `seen`
are history variables for the properties. A release that cannot be found, a
preflight check that refuses, and an image that cannot be worked out are one
`ReturnError` here; `Preflight` models the checks themselves. A set-file argument
that does not have two parts is refused after the older events were deleted,
where the code refuses it (`DeleteOlderUpgradeEvents`). A Job is `active` until its
first pod has the ConfigMap it mounts and its ServiceAccount, and `running` from
then on; it may go on while its objects terminate. It does not wait for the
ClusterRole and its binding: without them its requests are refused, and so may be
any request of the models. `gone` is a history variable: the kinds that a call found
terminating, or that were deleted, since it sent its create requests.

### SetFileArgs

An argument is the sequence of its parts between `=` signs, a file's contents are
its path. `config_map_data` is the first map the code builds, contents by number
counted from 1, `upgrade_map` the second, number by path, in which a path given
twice has its later number. `Resolves` is the reference: the Job reads every key
from the file that was given for it.

### UpgradeSystem

The variables of `UpgradeCli` and those of `UpgradeJob` that are not already the
former's (the Job's status and the newest event are). An action of the plugin that
brings the Job object into being also starts a fresh process state on the cluster
as it is (`NewJob`); when the Job is collected, its pods and helm with them are
gone and the release stays in its status. Revisions are relative to a Job: what
one Job left as the new revision is the old one for a later Job whose values
change the template (`Outdated`). `evCreate` and `statusCreate` are history
variables: how many events there had been, and the status of the release, when the
Job was created.

### SupportDump

`Plan` is the order of the collectors of `openebs_system_dump`, `zfs_dump`,
`lvm_dump` and the two functions for the snapshot classes and contents of a driver;
`at` is the one that runs. Each of these functions, and `execute_resource_dump`, has
a list of errors (`errors`), and `Caller` says to which list a function's errors are
added when it returns. `create_directory_if_not_exist` returns from its function
with `?`. Typed listings return their error, except a 404 on any page, which they
take for Ok: the engine is not installed, or not any more (`Uninstall`). Dynamic
listings log the error of a page, leave the loop and write what they have. The
archive is filled, and the directory removed, whatever failed before. The collectors
of the `supportability` crate are external and either succeed or fail.

### Preflight

One action per request: the release, the path, one page of volumes at a time for
the rebuild check, the nodes, and the pages again for single-replica volumes.
Between two of them volumes are created (anywhere in the listing) and deleted,
rebuilds start and end, nodes are cordoned. The REST API is external and lists
by offset: the token of a page is the number of volumes before the next one.
Helm values are reduced to the four optional keys that `mayastor_is_enabled`
looks at, and the version tag to whether it contains "develop", whether it
parses, and the version.

### LocalPV

One command, chosen with the cluster in `Init`: `volumes`, `volume`, or `groups`
(`volume-groups` of LVM, `zpools` of ZFS), for one of the engines. `pc` is the
request it waits for, named after the function that makes it. The API server is
external: the first page of a listing fixes what the later pages show, and
`token` is what is left of it; a token that has expired is a request that fails.
Between two requests objects come and go, in any order. What try_from asks of an
object is a set of fields for each engine, and a profile lacks at most one.
An object's content does not change during a command. A CR may be without the label
`kubernetes.io/nodename` that its driver gives it. What the user asked for (`Asked`)
is about the node; whether the selector of the code can find it is `Labelled`.

`InOrder` and `Selected` stand for sorting and filtering. They are defined by what
they return and not, as `SetToSortSeq` and `SelectSeq` of the library are, by how it
is computed, so that the prover can reason about them; `MCLocalPV` has TLC compare
them with those operators on all short lists.

Two things the model shows that no documentation denies: `get volume` of an LVM
or ZFS volume without a PersistentVolume succeeds with an empty table, and a
hostpath PV of another node that lacks a field fails the listing of this one. A
third depends on the drivers: `lvm_volumes` "Retuns volumes from specific node if
node is specified" (`lvm/volume/mod.rs:64`), but goes by the label, so that a volume
of that node whose CR is not labelled is left out.

## What TLC checks

| Run | Result | Shows |
|---|---|---|
| `job_safety` | holds | a succeeded Job is complete (`SuccessIsComplete`); the Success event is never false (`SuccessEventHolds`); a broken release is left alone (`BrokenReleaseFrozen`); loki goes before helm (`OldLokiGone`); the Etcd hook never hangs (`HookNeverStuck`); CRDs that were there are not installed again (`ForeignCrdsRespected`) and helm's own are not dropped by a retry (`OwnedCrdsKept`); `NoDowngrade`; `ControlPlaneFirst`; the job implements its contract (`ImplementsContract`) |
| `job_liveness` | holds | the Job ends (`JobEnds`); after an incomplete helm upgrade it fails (`BrokenReleaseFails`) |
| `job_partial_rebuild` | violated | `PartialRebuildRespected`; see findings |
| `job_pre_upgrade_job` | violated | `PreUpgradeJobRestored`; see findings |
| `cli_safety` | holds | with two terminals: `DeleteIsComplete`, `PlainDeleteSparesUnfinished`, `PolledEventIsFresh`; after an accepted upgrade only objects that somebody deleted are missing (`RetryCompletesResources`) |
| `cli_retry` | holds | where nobody deletes: `AcceptedUpgradeRuns`, `CallsReturn`, and the Job's set-file arguments lead to its files if the ConfigMap is that of the same call (`SetFilesResolve`) |
| `cli_force`, `cli_files` | violated | `ForceDeletes`, `JobUsesItsOwnFiles`; see findings |
| `preflight` | holds | `OnlyBypassedWhenOff`, `PreflightEnds`; a volume that rebuilds (or is single-replica) all through a scan is not overlooked unless a volume was deleted meanwhile (`RebuildNotOverlooked`, `SingleReplicaNotOverlooked`) |
| `localpv` | holds | a volume that was complete, and labelled with its node, throughout is listed (`SteadyVolumesListed`), each once and only what was asked for (`OnlyAskedListed`); a command fails only for a request or an object it had to read, and then prints nothing (`FailureExplained`); groups belong to their nodes (`GroupsOfNodesListed`) |
| `system` | holds | a new Job finds a cluster that `UpgradeJob` covers, wherever the one before it was when it was taken away (`NewJobStartsCovered`); a Success that `status` shows is true (`StatusTellsTruth`); a plain delete goes ahead only after a complete upgrade (`PlainDeleteAfterCompletion`); a Job that validation refuses, on a release that an earlier one left half upgraded for example, publishes nothing, so that no command takes it for an upgrade that has started (`RefusedJobIsSilent`) |
| `dump` | holds | `EveryCollectorTried`, `ErrorsReachCaller`, `OkMeansCollected`, `DumpEnds` |

### Findings

1. *Partial rebuild.* The check against 3.7.0 to 3.10.0 comes after the helm
   upgrade and uses the version read by this attempt. When it refuses, the Job
   starts again, reads the target version and restarts the pods.
2. *preUpgradeJob.* On the way from v3 without Etcd, an attempt that ends
   between the two helm upgrades is not resumed: the next one finds a v4 release
   and the Job succeeds with the preUpgradeJob still disabled.
3. *`--force`.* `upgrade delete --force` returns an error when the Job does not
   exist, and leaves the other objects.
4. *ConfigMap.* A repeated command with other files finds the ConfigMap of the
   first and runs with it.
5. *Validation Failed.* On this event `handle_upgrade_event` (`upgrade/mod.rs:292`)
   deletes the upgrade's objects and says so. The upgrade-job never sends it: its
   validation errors leave `validate_and_upgrade` (`openebs-upgrade/src/lib.rs:26-31`)
   before any event is published, which is what `RefusedJobIsSilent` says of every Job
   that is refused. The branch is dead, the objects stay, and the command returns Ok
   when its polls are over. This is the one finding that a property shows by holding.

### Observations

Facts that the models show, or that came up while writing them, and that no run
states as a violation:

* With Mayastor off `upgrade_preflight_check` does not validate the upgrade path
  (`upgrade/mod.rs:501`), so that `--allow-unstable` is not needed then.
* The help text of `--set-file` (`upgrade/cli.rs:67-68`) allows
  `key1=path1,key2=path2`; `k8s/resources.rs:280` refuses it, as it has three parts.
  By then the events of the older Job are deleted.
* A Job that is being deleted may post Success after the next command deleted the
  older events; `upgrade status` shows it until the next Job posts. The release has
  the target version then, but the pods need not be current for the new Job.
* A helm upgrade that is cut short by `delete --force` leaves pending-upgrade, and
  every later Job refuses the release; helm has to be repaired by hand.
* A dynamic listing that breaks off on a later page is written as it is and the
  dump returns Ok, though `supportability/mod.rs:93` says "Collects entire system
  information".
* Ctrl-C leaves the temporary directory of a dump behind.

A deleted volume during a scan can hide one that moves in front of the next
offset. The properties of `preflight` say so with their condition `~shifted`: it
is a limit of paging by offset, not a claim of the documentation.

### Bounds

* `job_safety`: ten source versions, one in every interval of the comparisons and
  on each bound, pre-releases included; every combination of options; two pods
  (a restart cut short between them); two CRD sets, one with two CRDs (some, all
  or none present); `BackoffLimit` 2, hence three attempts: one to break off,
  one that starts from what it left and breaks off too, and one to succeed. The
  code's limit is 6; the theorems hold for every limit.
* `cli_safety`: two terminals, four calls, two kinds of objects (the Job and the
  ConfigMap, the two that are told apart), one event, one poll. With four calls
  an upgrade, a delete, a new upgrade and a second delete can overlap. `cli_retry`
  adds a third kind and a second poll, and leaves out deletion. The code's six
  polls are `MaxPolls`.
* `preflight`: three volumes in pages of two, one node, two changes of the
  cluster; all flags one at a time, four version tags, eleven releases.
* `localpv`: three volumes and three nodes in pages of two, so that a listing has
  one page, a full one, or a full and a partial one; two objects change, in which
  one CR and one PV, of the same volume or not, may come or go between any two
  requests. The code's `MaxEntries` is 500.
* `system`: one terminal with three calls (upgrade, force-delete, upgrade again),
  two events, two attempts for each Job, two kinds of objects, one pod, one CRD
  set; a deployed release at 3.4.0 or at 4.8.0. 3.4.0 takes the longest way: CRDs
  looked for and two helm upgrades; 4.8.0 is newer than the target and refused. Its `VIEW` leaves out the outcomes and the
  numbers of calls and the history variables of `UpgradeCli`: no property of this
  run reads them, and no guard does, as all calls have the same set-file arguments.
* `dump`: listings of up to three pages, up to three failing calls anywhere, each
  subset of the two engines installed, with logs and without. The code's pages have
  100 objects.
* `MaxCalls`, `MaxEvents`, `MaxChanges`, `MaxFaults` bound counters only. `Finished` and
  `Quiet` are the ends at which the system may stop; deadlock is checked.
* Symmetry: pods, the two CRDs of a set and terminals are interchangeable; it is
  used in the safety runs only.

### Fairness

* `UpgradeJob`: weak fairness of the process' next step, of the event worker and
  of the Job controller. The code awaits one thing at a time, every await ends
  (requests and helm have time-outs of their own, and the restart of pods is
  taken to end one way or the other), and a Job is retried until its limit.
  Nothing is fair about crashes or about success: failing at every step is
  allowed.
* `UpgradeCli`: weak fairness of each call's next step (requests end, `sleep`
  ends) and of the Job running to an end once it can. A user need not issue
  another command.
* `Preflight`: weak fairness of the next request.
* `SupportDump`: weak fairness of the next step, since every await of the dump ends
  one way or the other. That a listing has finitely many pages is the API server's
  promise (the first page fixes what the later ones show).

## What is proved

`UpgradeJobProofs` proves, for every target version from 4.3.0, all sets of
sources, pods, CRD sets and options, and every back-off limit:

* `TypeCorrect`: `Spec => []TypeOK`
* `SuccessComplete`: `Spec => []SuccessIsComplete`
* `BrokenReleaseIsFrozen`: `Spec => BrokenReleaseFrozen`
* `ControlPlaneIsFirst`: `Spec => ControlPlaneFirst`
* `NeverDowngrades`: `Spec => NoDowngrade`

None of these is inductive. The invariant `IInv` adds what an attempt knows at
each await: `ReleaseInv` (before the first helm upgrade the release is still the
one that was validated, while helm runs it is pending at the target, after it
it is deployed at the target), `DataPlaneInv` (the pods not in `todo` are
current, and after the restart all are) and `JobInv` (a Job that ended has no
process, a process runs only within the limit, the channel is empty at the end).
`TypeNext`, `ReleaseNext`, `DataPlaneNext` and `JobNext` show that each part is
kept, one step per action; `Invariance` puts them together, and the theorems
follow from it, the action properties by one more case split over `Next`. TLC
has checked `IInv` on the instance of `job_safety`.

`UpgradeJobRefinement` proves `Refinement`: `Spec => ImplementsContract`, from the
same `IInv`. `UnseenStep` says that a step which leaves the release, the pods, the
arguments and the Job alone is a stutter of the contract; `SeenSteps` names the
actions that are left, the ones of helm, of the pod restart and of the Job
controller. `StepRefines` maps each to a step of the contract: `BeginUpgrade` to
`Begin` (by `ReleaseInv` the release is still the deployed one that was validated),
`HelmApplies` to `Retire` or nothing, the end of helm to `End`, `RestartPod` to
`RestartOne` (by `DataPlaneInv` restarts were asked for and the pod is stale), and
the end of the Job to `Succeed` (by `IInv` all is done) or `Fail`.

`UpgradeHelmProofs` builds on `IInv` and proves `LokiIsGone` (`OldLokiGone`),
`HookIsNeverStuck` (`HookNeverStuck`), `ForeignCrdsAreRespected`
(`ForeignCrdsRespected`), `OwnedCrdsAreKept` (`OwnedCrdsKept`) and
`SuccessEventIsTrue` (`SuccessEventHolds`). Its `HelmInv` says what the cluster
tells a retry: the old loki is there only while the release has a version whose
upgrade deletes it (`LokiInv`); a v3 release owns no CRDs and switches none off,
a v4 release switches off exactly the sets that were `Taken` before helm came, and
an attempt's toggles agree with that (`CrdInv`); pods run a revision that the
DaemonSet has or had, and it is the new one only at the target (`PodInv`). `CrdInv`
is the reason why a retry does not mistake helm's CRDs for foreign ones: by then the
release is v4, and the toggles are empty. `SuccessEventIsTrue` needs that what the
event says, once true, stays true through every later attempt (`UpgradedStays`,
and as a theorem of the specification `FinishedUpgradeStays`). `VersionOrder` states
that the comparisons of the code are by a strict total order, pre-releases included;
its transitivity carries `NoDowngrade` from one step to all attempts together
(`NeverBelowOrigin`).

`UpgradeCliProofs` begins with `OwnFilesResolve`: for every sequence of arguments
over any set, `Resolves(args, args)`. The number of a path is a CHOOSE of the greatest
index that carries it, so the proof needs that there is one: `Greatest` gets it
from the least distance to the length, by the well-foundedness of the naturals
(`WFMin`), and `NumberOfPath` unfolds the CHOOSE. This holds for any length and any
repetition; `SetFilesResolve` is the same fact inside the running system, where the
ConfigMap may be another call's (finding 4).

It goes on to prove, for any number of terminals, calls, events and kinds of
objects and every list of set-file arguments, `CliTypeCorrect` (`TypeOK`),
`RetriesComplete` (`RetryCompletesResources`), `FilesResolve` (`SetFilesResolve`,
with `OwnFilesResolve` as its lemma), `PolledEventsAreFresh`
(`PolledEventIsFresh`), `DeletesAreComplete` (`DeleteIsComplete`) and
`UnfinishedJobsSpared` (`PlainDeleteSparesUnfinished`). `CliInv` has a part for each
thing a call relies on while others run: objects whose create request was answered
are there or `gone` (`CreateInv`), events that are left are newer than the call
(`EventInv`), objects whose delete request was answered are gone or newer
(`DeleteInv`), the Job that a plain delete looked at still succeeded
(`SucceededInv`). That the numbers of objects stay within `MaxCalls`, which is part
of `TypeOK`, takes a count: `CountInv` says that the objects of a kind that were
created, plus the calls that may yet create one (`MayCreate`), are no more than the
calls so far; a create request moves one from the second term to the first.

`UpgradeSystemProofs` proves `StatusIsTrue` (`StatusTellsTruth`),
`EveryJobIsCovered` (`NewJobStartsCovered`), `PlainDeleteIsLate`
(`PlainDeleteAfterCompletion`) and `RefusedJobsAreSilent` (`RefusedJobIsSilent`),
over any sequence of Jobs. `P` instantiates the proofs of the job in the system:
a step of the process keeps `IInv` and `HelmInv` because the lemmas of those modules
say so. What is new is the plugin's hand in it: a Job that is collected leaves a
cluster without a process, and `NewJobCovered` shows that the state a new Job
starts from satisfies the initial condition of `UpgradeJob` (this is where
`HelmInv` is used as what a Job leaves behind). For a Job that is refused,
`SilentInv` says that the release is still as the Job found it, so that every
attempt is refused like the first, and none gets beyond validation (`TurnedAway`).
`SystemImplementsCli` proves
`SystemSpec => Spec`, a refinement by inclusion: the job that publishes and ends by
itself is one of the jobs that `UpgradeCli` allows, so the theorems of
`UpgradeCliProofs` hold of the system.

`SupportDumpProofs` proves, for any number of pages and of failing calls,
`DumpTypeCorrect` (`TypeOK`), `EveryoneIsTried` (`EveryCollectorTried`),
`OkIsComplete` (`OkMeansCollected`) and `NoErrorIsLost` (`ErrorsReachCaller`).
`Collectors` is what the proofs need of `Plan`: from which function each of the 24
collectors is called, and where the directories, the listings and the returns are;
it is worked out from the concatenations by `TwoLists` and `ThreeLists`. `Span` is
where in the plan a function runs. `DumpInv` says that collectors ahead are untried
and those behind were tried or `PassedOver` for a directory (`GotInv`), and that a
collector is missing exactly if its error is `Noted` in one of the lists, of which a
function's is empty outside its span (`ErrorInv`); so at the end only the command's
own list is left (`OnlyCommandsList`).

`PreflightProofs` proves, for any finite set of volumes, page size and number of
changes, `PreflightTypeCorrect` (`TypeOK`), `RebuildIsSeen`
(`RebuildNotOverlooked`), `SingleReplicaIsSeen` (`SingleReplicaNotOverlooked`) and
`BypassedOnlyWhenOff` (`OnlyBypassedWhenOff`). `ScanInv` says that a volume that met
the condition since the scan began, and was not found yet, is at a place beyond the
token. A page keeps this because it looks at all places it passes (`Pages`), a
volume that is created because an insertion only moves the others on (`Inserted`).
That the token stays within the number of volumes is a bound by cardinality: a
listing without repetition is no longer than the set (`DistinctIsShort`).

`LocalPVProofs` proves, for any number of volumes, nodes, groups and changes and any
size of a page, `TypeCorrectness` (`TypeOK`), `SteadyVolumes`
(`SteadyVolumesListed`), `OnlyAsked` (`OnlyAskedListed`), `Failures`
(`FailureExplained`) and `NodeGroupsShown` (`GroupsOfNodesListed`). The argument has
three parts.

* *Lists.* What sorting, filtering and flattening return, for every input. The
  induction over data is done by a minimal counterexample: `Least` gives every
  non-empty set of numbers a least one (`WFMin`), and each lemma takes the first
  place at which it would fail. `OrderExists` constructs the list that `InOrder`
  chooses, the place of a number being how many are not greater; `SamePlaces` says
  that there is one such list only; `SelectedLists` says what `Selected` keeps;
  `Flattened` follows the partial results of `FlattenSeq` and finds the rows of each
  node together, as a `Block`, in the order of its CR.
* *Pages.* `Covers(done, rest, May, Must)`: the pages so far and what the token stands
  for are in order, one after the other, have only objects that were there at some
  time of the command (`May`) and all that were there throughout (`Must`). A listing
  begins so (`ListingBegins`), a page keeps it (`PageMoves`), and an object that is
  created or deleted only enlarges `May` and shrinks `Must` (`CoversMore`).
* *The command.* `LocalInv` says at which request which of the lists is being read and
  what it covers (`ListInv`), that the request is one the command makes
  (`CommandInv`) and that the other locals are empty (`LocalsInv`). At the last page
  `Covers` has nothing left in `rest`, and `JoinShows`, `HostpathShows` and
  `GroupsShow` turn it into what is asked of the rows (`Right`). TLC has checked
  `LocalInv` on the instance of `localpv`.

Assumptions on the constants are the named `ASSUME`s of the modules, which TLC
evaluates in its runs. `TargetAssumption` (the target is 4.3.0 or later, as the
chart in this repository is) is used where the target must be a v4 chart without the
old loki-stack. `UpgradeSystem` states the assumptions of `UpgradeJob` again as
`JobAssumption`, since it instantiates that module; `Target \in Sources` there says
that a Job may start where one before it has ended. `SetFileAssumption` says that
arguments are sequences of strings, `VolsAssumption` that a cluster has finitely
many volumes, `ProfilesAssumption` that a volume may say something at all, and
`GroupsAssumption` that the groups of a node are a list. None bounds a count.

Only model-checked:

* the liveness properties `JobEnds`, `BrokenReleaseFails`, `AcceptedUpgradeRuns`,
  `CallsReturn`, `PreflightEnds` and `DumpEnds`: fairness and ENABLED are out of the
  prover's reach;
* the findings, which are counterexamples.

Every invariant and every safety property over steps that a passing run checks is a
theorem. There are no RECURSIVE operators.

## Not modelled

The choice of the job's image, the wording of messages, the rules of the
ClusterRole, the dispatch of commands and the passthrough to the Mayastor plugin
(another repository), the declarations of error types, table layout and the
rounding of capacities, the chart's templates, scripts and build files. They hold
no state or decision that a property here tells apart. helm, the API server, the
Job controller, the REST API and the `upgrade` and `supportability` crates are
modelled only as far as the code here uses them.

## Plan

1. (done) `SemVer`, `UpgradeJob`, `UpgradeCli`, `Preflight`, `LocalPV`, first
   theorems.
2. (done) `SetFileArgs` and its theorem, `SupportDump`, `UpgradeContract` with the
   refinement of `UpgradeJob` checked and proved, `UpgradeSystem`.
3. (done) Theorems about all safety properties of `UpgradeJob`, `UpgradeCli`,
   `UpgradeSystem`, `SupportDump` and `Preflight`, each with its inductive invariant.
4. (done) `LocalPVProofs`, and the order of versions.

What would come next: the liveness properties, once a prover takes fairness; the
restart of pods by the `upgrade` crate, once its source is part of this repository.
