---------------------------- MODULE UpgradeSystem ----------------------------
(***************************************************************************)
(* The plugin's commands and the upgrade-job together: `upgrade` creates   *)
(* the Job, whose process is that of UpgradeJob; `delete --force` takes it *)
(* away in the middle of anything; `status` reads the events it publishes, *)
(* `delete` the status it is given; and a later `upgrade` starts a new Job *)
(* on whatever cluster the earlier ones left.                              *)
(*                                                                         *)
(* The variables of UpgradeCli keep their names. UpgradeJob's job is the   *)
(* status of the Job object and its lastEvent the newest event; its other  *)
(* variables are declared here.                                            *)
(***************************************************************************)
EXTENDS UpgradeCli

CONSTANTS Target, Sources, Pods, CrdSets, Options, BackoffLimit

VARIABLES
  args, origin, foreign, release, ds, podRev, loki, owned,
  failures, jpc, src, toggles, todo, queue,
  evCreate,     \* history: events published when the Job was created
  statusCreate  \* history: status of the release when the Job was created

created == <<evCreate, statusCreate>>
process == <<args, origin, foreign, release, ds, podRev, loki, owned,
             failures, jpc, src, toggles, todo, queue, created>>
system == <<vars, process>>

J == INSTANCE UpgradeJob
       WITH pc <- jpc, lastEvent <- event.action,
            job <- IF jobStatus \in {"succeeded", "failed"}
                   THEN jobStatus ELSE "active"

(* What UpgradeJob assumes of its constants; a release may also have reached
   the target's version when a Job is created, and what the job publishes is
   what the plugin may read. *)
ASSUME JobAssumption ==
  /\ Target \in J!Version /\ J!Le(J!FOUR_DOT_THREE, Target)
  /\ Sources \subseteq J!Version /\ Target \in Sources
  /\ Options \subseteq J!Args
  /\ BackoffLimit \in Nat
  /\ \A S, T \in CrdSets : S # {} /\ (S # T => S \cap T = {})
  /\ J!Event \subseteq JobActions

(* Nothing of this version's upgrade has happened yet: the release is deployed
   at another version. The arguments are those of the first Job, once it is
   created. *)
SystemInit ==
  /\ Init
  /\ J!Init
  /\ release.status = "deployed" /\ release.version # Target
  /\ args = CHOOSE a \in Options : TRUE
  /\ evCreate = 0 /\ statusCreate = release.status

-----------------------------------------------------------------------------
(* A Job object comes into being: a fresh process state, new arguments, and the
   cluster as it is. Revisions are relative to the Job: if its values change
   the io-engine's template, what an earlier Job left as new is old for it. *)
Outdated(r) == IF r = "new" THEN "old" ELSE r
NewJob ==
  /\ args' \in Options
  /\ origin' = release.version
  /\ \/ UNCHANGED <<ds, podRev>>
     \/ /\ ds = "new"
        /\ ds' = Outdated(ds)
        /\ podRev' = [p \in Pods |-> Outdated(podRev[p])]
  /\ failures' = 0
  /\ jpc' = "down"
  /\ src' = release.version
  /\ toggles' = {}
  /\ todo' = {}
  /\ queue' = <<>>
  /\ evCreate' = evCount /\ statusCreate' = release.status
  /\ UNCHANGED <<foreign, release, loki, owned>>

PluginStep ==
  /\ \E c \in Clients : ClientStep(c) \/ Interrupt(c) \/ \E o \in Ops : Execute(c, o)
  /\ IF obj["Job"].state = "absent" /\ obj'["Job"].state = "present"
     THEN NewJob ELSE UNCHANGED process

(* The pods of a Job go before it does, helm with them: its release stays in
   the status it had. *)
Collected(k) ==
  /\ Collect(k)
  /\ IF k = "Job" THEN jpc' = "down" /\ queue' = <<>> ELSE UNCHANGED <<jpc, queue>>
  /\ UNCHANGED <<args, origin, foreign, release, ds, podRev, loki, owned,
                 failures, src, toggles, todo, created>>

Synced == SyncJob /\ UNCHANGED process

(* The first pod, and the next one after a failure: each needs its objects. *)
FirstAttempt == JobStarts /\ J!StartAttempt /\ UNCHANGED created
NextAttempt ==
  /\ CanStart /\ jobStatus = "running"
  /\ UNCHANGED vars
  /\ J!StartAttempt
  /\ UNCHANGED created

ProcessStep ==
  /\ JobRuns
  /\ UNCHANGED vars
  /\ J!Step \/ J!Crash
  /\ UNCHANGED created

WorkerPosts ==
  /\ queue # <<>>
  /\ JobPublishes(Head(queue))
  /\ J!WorkerPublishes
  /\ UNCHANGED created
WorkerGivesUp ==
  /\ JobRuns
  /\ UNCHANGED vars
  /\ J!WorkerPublishes
  /\ UNCHANGED created

JobReported ==
  /\ \/ JobEnds("failed") /\ J!JobFails
     \/ JobEnds("succeeded") /\ J!JobSucceeds
  /\ UNCHANGED created

SystemQuiet == Quiet /\ UNCHANGED process

SystemNext ==
  \/ PluginStep
  \/ \E k \in Kinds : Collected(k)
  \/ Synced \/ FirstAttempt \/ NextAttempt \/ ProcessStep
  \/ WorkerPosts \/ WorkerGivesUp \/ JobReported \/ SystemQuiet

SystemSpec == SystemInit /\ [][SystemNext]_system

-----------------------------------------------------------------------------
(* Properties *)

(* Whatever the Jobs before it did, and wherever they were when they were taken
   away, a new Job finds the cluster in one of the states UpgradeJob starts
   from: what is checked and proved of one Job holds of each in a row. *)
NewJobStartsCovered ==
  [][obj["Job"].state = "absent" /\ obj'["Job"].state = "present"
       => J!ClusterInit']_system

(* If `upgrade status` shows Success, the release has the target's version; and
   the data plane is current too if it is the Job that is there which said so,
   and not the last event of one that was being deleted. *)
StatusTellsTruth ==
  event.action = "Success" =>
    /\ release.version = Target
    /\ event.num > evCreate => J!DataPlaneCurrent

(* `upgrade delete` without --force goes ahead only if the release is deployed
   at the target's version and the data plane is current. *)
PlainDeleteAfterCompletion ==
  [][\A c \in Clients :
       op[c] = "delete" /\ pc[c] = "check" /\ pc'[c] = "delete"
       => /\ release.version = Target /\ release.status = "deployed"
          /\ J!DataPlaneCurrent]_system

(* The upgrade-job may go ahead with the release as the Job found it. *)
Upgradable ==
  /\ statusCreate = "deployed"
  /\ J!Le(J!UMBRELLA_CHART_VERSION_LOWERBOUND, origin)
  /\ args.skipPath \/ J!Le(origin, Target)

(* A Job that validation turns away at every attempt publishes no event: one on
   a release that a Job taken away left half upgraded, say. So apply_upgrade
   never tells its user that this upgrade has started, and `upgrade status` has
   nothing of it to show; nor does anything else, for no event says that the
   validation failed (handle_upgrade_event waits for one that does). *)
RefusedJobIsSilent == ~Upgradable => event.num <= evCreate

=============================================================================
