----------------------------- MODULE UpgradeCli -----------------------------
(***************************************************************************)
(* `kubectl openebs upgrade`, `upgrade delete [--force]` and `upgrade      *)
(* status`: several invocations of the plugin work on the same five        *)
(* Kubernetes objects (the ServiceAccount, ClusterRole, ClusterRoleBinding, *)
(* ConfigMap and Job of an upgrade, all named after the release and the    *)
(* plugin's version).                                                      *)
(*                                                                         *)
(* The five requests of create_upgrade_resources and of                    *)
(* delete_upgrade_resources are spawned together and complete in any       *)
(* order; the first error ends the call while the others are still on      *)
(* their way, and Ctrl-C ends the process at any await. Deletion is        *)
(* foreground: an object first becomes terminating and goes later.         *)
(*                                                                         *)
(* External: the API server, the Job controller and, abstracted to the     *)
(* events it publishes and to how it ends, the upgrade-job.                *)
(***************************************************************************)
EXTENDS SetFileArgs, FiniteSets

CONSTANTS
  Clients,     \* terminals in which the plugin is run
  Kinds,       \* kinds of upgrade objects, "Job" and "ConfigMap" among them
  Ops,         \* commands considered, a subset of AllOps
  SetFile,     \* --set-file arguments of each call
  JobActions,  \* actions of the events that the upgrade-job may publish
  MaxPolls,    \* how often apply_upgrade looks for an event, 6 in the code
  MaxCalls,    \* bound: invocations of the plugin
  MaxEvents    \* bound: events published

ASSUME KindsAssumption == {"Job", "ConfigMap"} \subseteq Kinds
AllOps == {"upgrade", "delete", "force", "status"}
ASSUME OpsAssumption == Ops \subseteq AllOps
ASSUME BoundsAssumption == MaxPolls \in Nat /\ MaxCalls \in Nat /\ MaxEvents \in Nat
ASSUME SetFileAssumption == SetFile \in [1 .. MaxCalls -> Seq(Seq(STRING))]

VARIABLES
  obj,        \* per kind: its state, and how many objects were created so far
  jobStatus,  \* status of the Job object
  jobCall,    \* the call whose arguments the Job carries
  cmCall,     \* the call whose files the ConfigMap holds
  event,      \* newest event about the Job: its action and its number
  evCount,    \* events published so far
  calls,      \* invocations so far
  pc,         \* per client: where its call stands
  op,         \* per client: the command
  call,       \* per client: number of its call
  pend,       \* per client: requests on their way
  polls,      \* per client: polls made
  seen,       \* per client: the Job that upgrade_job_completed looked at
  before,     \* history: what had been created when deletion began
  evStart,    \* history: events published when older ones were deleted
  gone,       \* history: kinds found terminating since the creates were sent
  result      \* per client: outcome of its last call

cluster == <<obj, jobStatus, jobCall, cmCall, event, evCount>>
clients == <<calls, pc, op, call, pend, polls, seen, before, evStart, gone, result>>
vars == <<cluster, clients>>

ObjState == {"absent", "present", "terminating"}
JobStatus == {"none", "active", "running", "succeeded", "failed"}
NoEvent == [action |-> "none", num |-> 0]
Result == {"none", "ok", "refused", "noJob", "noStatus", "error"}
Steps == {"idle", "preflight", "cleanup", "create", "createFailing", "poll",
          "check", "delete", "deleteFailing", "status"}

TypeOK ==
  /\ obj \in [Kinds -> [state: ObjState, gen: 0 .. MaxCalls]]
  /\ jobStatus \in JobStatus
  /\ jobCall \in 0 .. MaxCalls
  /\ cmCall \in 0 .. MaxCalls
  /\ event \in [action: JobActions \cup {"none"}, num: 0 .. MaxEvents]
  /\ evCount \in 0 .. MaxEvents
  /\ calls \in 0 .. MaxCalls
  /\ pc \in [Clients -> Steps]
  /\ op \in [Clients -> Ops \cup {"none"}]
  /\ call \in [Clients -> 0 .. MaxCalls]
  /\ pend \in [Clients -> SUBSET Kinds]
  /\ polls \in [Clients -> 0 .. MaxPolls]
  /\ seen \in [Clients -> 0 .. MaxCalls]
  /\ before \in [Clients -> [Kinds -> 0 .. MaxCalls]]
  /\ evStart \in [Clients -> 0 .. MaxEvents]
  /\ gone \in [Clients -> SUBSET Kinds]
  /\ result \in [Clients -> Result]

Init ==
  /\ obj = [k \in Kinds |-> [state |-> "absent", gen |-> 0]]
  /\ jobStatus = "none"
  /\ jobCall = 0
  /\ cmCall = 0
  /\ event = NoEvent
  /\ evCount = 0
  /\ calls = 0
  /\ pc = [c \in Clients |-> "idle"]
  /\ op = [c \in Clients |-> "none"]
  /\ call = [c \in Clients |-> 0]
  /\ pend = [c \in Clients |-> {}]
  /\ polls = [c \in Clients |-> 0]
  /\ seen = [c \in Clients |-> 0]
  /\ before = [c \in Clients |-> [k \in Kinds |-> 0]]
  /\ evStart = [c \in Clients |-> 0]
  /\ gone = [c \in Clients |-> {}]
  /\ result = [c \in Clients |-> "none"]

-----------------------------------------------------------------------------
(* A definition whose name begins with Wrong is a plausible bug in the one
   that follows it; no specification uses it. *)

(* The call of c ends: its locals go, and so do the requests that have not
   reached the API server. *)
Return(c, r) ==
  /\ pc' = [pc EXCEPT ![c] = "idle"]
  /\ op' = [op EXCEPT ![c] = "none"]
  /\ call' = [call EXCEPT ![c] = 0]
  /\ pend' = [pend EXCEPT ![c] = {}]
  /\ polls' = [polls EXCEPT ![c] = 0]
  /\ seen' = [seen EXCEPT ![c] = 0]
  /\ before' = [before EXCEPT ![c] = [k \in Kinds |-> 0]]
  /\ evStart' = [evStart EXCEPT ![c] = 0]
  /\ gone' = [gone EXCEPT ![c] = {}]
  /\ result' = [result EXCEPT ![c] = r]
  /\ UNCHANGED <<cluster, calls>>

Goto(c, p) == pc' = [pc EXCEPT ![c] = p]

(* Upgrade::execute and UpgradeSubcommand::execute: a new invocation. *)
Execute(c, o) ==
  /\ pc[c] = "idle"
  /\ calls < MaxCalls
  /\ calls' = calls + 1
  /\ Goto(c, CASE o = "upgrade" -> "preflight"
               [] o = "status" -> "status"
               [] OTHER -> "check")
  /\ op' = [op EXCEPT ![c] = o]
  /\ call' = [call EXCEPT ![c] = calls + 1]
  /\ result' = [result EXCEPT ![c] = "none"]
  /\ UNCHANGED <<cluster, pend, polls, seen, before, evStart, gone>>

(* upgrade_preflight_check passed. *)
Preflight(c) ==
  /\ pc[c] = "preflight"
  /\ Goto(c, "cleanup")
  /\ UNCHANGED <<cluster, calls, op, call, pend, polls, seen, before, evStart, gone, result>>

(* apply_upgrade: older events are deleted, the objects are prepared and the
   five create requests are spawned; a set-file argument that config_map_data
   cannot take apart ends the call before that. *)
WrongEventsKept(c) ==
  /\ pc[c] = "cleanup"
  /\ Goto(c, "create")
  /\ pend' = [pend EXCEPT ![c] = Kinds]
  /\ evStart' = [evStart EXCEPT ![c] = evCount]
  /\ UNCHANGED <<cluster, calls, op, call, polls, seen, before, gone, result>>
DeleteOlderUpgradeEvents(c) ==
  /\ pc[c] = "cleanup"
  /\ event' = NoEvent
  /\ IF WellFormed(SetFile[call[c]])
     THEN /\ Goto(c, "create")
          /\ pend' = [pend EXCEPT ![c] = Kinds]
          /\ gone' = [gone EXCEPT ![c] = {k \in Kinds : obj[k].state = "terminating"}]
     ELSE Goto(c, "createFailing") /\ UNCHANGED <<pend, gone>>
  /\ evStart' = [evStart EXCEPT ![c] = evCount]
  /\ UNCHANGED <<obj, jobStatus, jobCall, cmCall, evCount, calls, op, call,
                 polls, seen, before, result>>

(* idempotent_create_resource: AlreadyExists counts as success, also when the
   object that is there is terminating. *)
CreateResource(c, k) ==
  /\ pc[c] \in {"create", "createFailing"}
  /\ k \in pend[c]
  /\ pend' = [pend EXCEPT ![c] = @ \ {k}]
  /\ IF obj[k].state = "absent"
     THEN /\ obj' = [obj EXCEPT ![k] = [state |-> "present", gen |-> @.gen + 1]]
          /\ jobCall' = IF k = "Job" THEN call[c] ELSE jobCall
          /\ cmCall' = IF k = "ConfigMap" THEN call[c] ELSE cmCall
     ELSE UNCHANGED <<obj, jobCall, cmCall>>
  /\ UNCHANGED <<jobStatus, event, evCount, calls, pc, op, call, polls, seen, before,
                 evStart, gone, result>>

(* The API server refuses a request, or the answer is lost before it acts. *)
RequestFails(c, k) ==
  /\ pc[c] \in {"create", "delete"}
  /\ k \in pend[c]
  /\ pend' = [pend EXCEPT ![c] = @ \ {k}]
  /\ Goto(c, IF pc[c] = "create" THEN "createFailing" ELSE "deleteFailing")
  /\ UNCHANGED <<cluster, calls, op, call, polls, seen, before, evStart, gone, result>>

(* create_upgrade_resources returns: every request has been answered. *)
WrongAnyCreated(c) ==
  /\ pc[c] = "create"
  /\ pend[c] # Kinds
  /\ Goto(c, "poll")
  /\ pend' = [pend EXCEPT ![c] = {}]
  /\ UNCHANGED <<cluster, calls, op, call, polls, seen, before, evStart, gone, result>>
ResourcesCreated(c) ==
  /\ pc[c] = "create"
  /\ pend[c] = {}
  /\ Goto(c, "poll")
  /\ UNCHANGED <<cluster, calls, op, call, pend, polls, seen, before, evStart, gone, result>>

(* The five delete requests are spawned. *)
WrongConfigMapForgotten == Kinds \ {"ConfigMap"}
Deletes == Kinds
BeginDelete(c) ==
  /\ Goto(c, "delete")
  /\ pend' = [pend EXCEPT ![c] = Deletes]
  /\ seen' = [seen EXCEPT ![c] = obj["Job"].gen]
  /\ before' = [before EXCEPT ![c] = [k \in Kinds |-> obj[k].gen]]
  /\ gone' = [gone EXCEPT ![c] = {}]
  /\ UNCHANGED <<cluster, calls, op, call, polls, evStart, result>>

(* apply_upgrade: a poll that finds no event, or that fails, is repeated. *)
WrongNotCounted(c) ==
  /\ pc[c] = "poll"
  /\ polls[c] < MaxPolls
  /\ UNCHANGED vars
WrongOneMore(c) ==
  /\ pc[c] = "poll"
  /\ polls' = [polls EXCEPT ![c] = @ + 1]
  /\ UNCHANGED <<cluster, calls, pc, op, call, pend, seen, before, evStart, gone, result>>
PollAgain(c) ==
  /\ pc[c] = "poll"
  /\ polls[c] < MaxPolls
  /\ polls' = [polls EXCEPT ![c] = @ + 1]
  /\ UNCHANGED <<cluster, calls, pc, op, call, pend, seen, before, evStart, gone, result>>

(* handle_upgrade_event of the newest event: a failed validation has the
   objects deleted, unless the event's note is missing or malformed. *)
HandleUpgradeEvent(c) ==
  /\ pc[c] = "poll"
  /\ polls[c] < MaxPolls
  /\ event # NoEvent
  /\ IF event.action = "Validation Failed"
     THEN BeginDelete(c) \/ Return(c, "error")
     ELSE Return(c, "ok")

(* No event came in time: apply_upgrade returns Ok all the same. *)
StopPolling(c) ==
  /\ pc[c] = "poll"
  /\ polls[c] = MaxPolls
  /\ Return(c, "ok")

(* upgrade delete: upgrade_job_completed, then the decision. *)
WrongFailedCounts == jobStatus \in {"succeeded", "failed"}
upgrade_job_completed == jobStatus = "succeeded"
CheckJob(c) ==
  /\ pc[c] = "check"
  /\ \/ obj["Job"].state = "absent" /\ Return(c, "noJob")
     \/ obj["Job"].state # "absent" /\ jobStatus = "none" /\ Return(c, "noStatus")
     \/ /\ obj["Job"].state # "absent" /\ jobStatus # "none"
        /\ IF upgrade_job_completed \/ op[c] = "force"
           THEN BeginDelete(c) ELSE Return(c, "refused")

(* idempotent_delete_resource: NotFound counts as success. *)
Creating == {c \in Clients : pc[c] \in {"create", "createFailing", "poll"}}
DeleteResource(c, k) ==
  /\ pc[c] \in {"delete", "deleteFailing"}
  /\ k \in pend[c]
  /\ pend' = [pend EXCEPT ![c] = @ \ {k}]
  /\ obj' = [obj EXCEPT ![k].state =
               IF @ = "absent" THEN "absent" ELSE "terminating"]
  /\ gone' = [d \in Clients |->
                IF d \in Creating /\ obj[k].state = "present"
                THEN gone[d] \cup {k} ELSE gone[d]]
  /\ UNCHANGED <<jobStatus, jobCall, cmCall, event, evCount, calls, pc, op, call,
                 polls, seen, before, evStart, result>>

ResourcesDeleted(c) ==
  /\ pc[c] = "delete"
  /\ pend[c] = {}
  /\ Return(c, "ok")

(* upgrade status: get_upgrade_status prints the newest event, if there is one
   and its note can be read. *)
GetUpgradeStatus(c) ==
  /\ pc[c] = "status"
  /\ event # NoEvent
  /\ Return(c, "ok")

(* An error is returned: before any request (the release is not found, a check
   refuses, there is no event, a set-file argument, its file or the image cannot
   be worked out), or after one of the requests failed. *)
ReturnError(c) ==
  /\ \/ pc[c] \in {"preflight", "cleanup", "check", "createFailing", "deleteFailing", "status"}
     \/ pc[c] = "create" /\ pend[c] = Kinds
  /\ Return(c, "error")

(* main: the signal wins the select and the operation is dropped. *)
Interrupt(c) ==
  /\ pc[c] # "idle"
  /\ Return(c, "error")

-----------------------------------------------------------------------------
(* Kubernetes and the upgrade-job *)

(* The garbage collector removes an object, a Job after its pods. *)
Collect(k) ==
  /\ obj[k].state = "terminating"
  /\ obj' = [obj EXCEPT ![k].state = "absent"]
  /\ jobStatus' = IF k = "Job" THEN "none" ELSE jobStatus
  /\ jobCall' = IF k = "Job" THEN 0 ELSE jobCall
  /\ cmCall' = IF k = "ConfigMap" THEN 0 ELSE cmCall
  /\ UNCHANGED <<event, evCount, clients>>

(* The Job controller sees the Job and gives it a status. *)
SyncJob ==
  /\ obj["Job"].state = "present" /\ jobStatus = "none"
  /\ jobStatus' = "active"
  /\ UNCHANGED <<obj, jobCall, cmCall, event, evCount, clients>>

(* A pod of the Job mounts the ConfigMap and runs as the ServiceAccount; it
   keeps what it has mounted. It starts without its role and the binding, and
   its requests are then refused. *)
CanStart ==
  /\ obj["Job"].state = "present"
  /\ \A k \in Kinds \cap {"ConfigMap", "ServiceAccount"} : obj[k].state # "absent"

JobStarts ==
  /\ CanStart /\ jobStatus = "active"
  /\ jobStatus' = "running"
  /\ UNCHANGED <<obj, jobCall, cmCall, event, evCount, clients>>

JobRuns == obj["Job"].state # "absent" /\ jobStatus = "running"

JobPublishes(a) ==
  /\ JobRuns
  /\ evCount < MaxEvents
  /\ evCount' = evCount + 1
  /\ event' = [action |-> a, num |-> evCount + 1]
  /\ UNCHANGED <<obj, jobStatus, jobCall, cmCall, clients>>

JobEnds(s) ==
  /\ JobRuns
  /\ jobStatus' = s
  /\ UNCHANGED <<obj, jobCall, cmCall, event, evCount, clients>>

-----------------------------------------------------------------------------
ClientStep(c) ==
  \/ Preflight(c) \/ DeleteOlderUpgradeEvents(c)
  \/ \E k \in Kinds : CreateResource(c, k) \/ RequestFails(c, k) \/ DeleteResource(c, k)
  \/ ResourcesCreated(c) \/ PollAgain(c) \/ HandleUpgradeEvent(c) \/ StopPolling(c)
  \/ CheckJob(c) \/ ResourcesDeleted(c) \/ GetUpgradeStatus(c) \/ ReturnError(c)

JobStep == SyncJob \/ JobStarts \/ \E s \in {"succeeded", "failed"} : JobEnds(s)

Environment ==
  \/ \E k \in Kinds : Collect(k)
  \/ \E a \in JobActions : JobPublishes(a)

(* Every call has returned, no more are made and nothing is left to happen. *)
Quiet == calls = MaxCalls /\ (\A c \in Clients : pc[c] = "idle") /\ UNCHANGED vars

Next ==
  \/ \E c \in Clients : ClientStep(c) \/ Interrupt(c) \/ \E o \in Ops : Execute(c, o)
  \/ JobStep \/ Environment \/ Quiet

Spec == Init /\ [][Next]_vars

Fairness == WF_vars(JobStep) /\ \A c \in Clients : WF_vars(ClientStep(c))
FairSpec == Spec /\ Fairness

-----------------------------------------------------------------------------
(* Properties *)

(* A delete that returns Ok has disposed of every object that existed when it
   began to delete, whatever other calls did meanwhile: an object that is still
   there was created later. *)
DeleteIsComplete ==
  [][\A c \in Clients :
       pc[c] = "delete" /\ pc'[c] = "idle" /\ result'[c] = "ok" =>
         \A k \in Kinds :
           obj[k].state = "present" => obj[k].gen > before[c][k]]_vars

(* `upgrade delete` without --force takes away an unfinished Job only if that
   Job was created after the check: the one it looked at had succeeded. *)
PlainDeleteSparesUnfinished ==
  [][\A c \in Clients :
       /\ op[c] = "delete" /\ "Job" \in pend[c] \ pend'[c]
       /\ obj["Job"].state = "present" /\ obj'["Job"].state = "terminating"
       => jobStatus = "succeeded" \/ obj["Job"].gen > seen[c]]_vars

(* The event that ends the polling of apply_upgrade was published after that
   call deleted the events of older upgrades with the same Job name. *)
PolledEventIsFresh ==
  [][\A c \in Clients :
       pc[c] = "poll" /\ pc'[c] # "poll" /\ event # NoEvent
         /\ polls[c] < MaxPolls /\ result'[c] # "error"
       => event.num > evStart[c]]_vars

(* Every call returns: polling is bounded and no request is waited for twice. *)
CallsReturn == \A c \in Clients : pc[c] # "idle" ~> pc[c] = "idle"

(* An upgrade call that gets as far as polling has all the objects in place,
   also after calls that failed or were interrupted half way and beside calls
   that run at the same time: one that is missing was terminating when it was
   to be created (the API server then says AlreadyExists), or was deleted
   since. *)
RetryCompletesResources ==
  \A c \in Clients :
    pc[c] = "poll" => \A k \in Kinds : obj[k].state = "present" \/ k \in gone[c]

(* Where nobody deletes, an upgrade call that returned Ok, or a status call that
   found an event, is followed by the end of the Job. *)
AcceptedUpgradeRuns ==
  (\E c \in Clients : result[c] = "ok") ~> jobStatus \in {"succeeded", "failed"}

(* Stated by the help text of --force: it deletes the upgrade resources. It
   does not when the Job is missing and other objects are there. *)
ForceDeletes ==
  [][\A c \in Clients :
       op[c] = "force" /\ pc[c] = "check" /\ result'[c] = "noJob"
       => \A k \in Kinds : obj[k].state # "present"]_vars

(* A Job that runs has arguments that could be taken apart and, if its ConfigMap
   was created by the same call, reads every key of --set-file from the file
   given for it, also when a path is given twice. *)
SetFilesResolve ==
  jobStatus = "running" /\ jobCall # 0 =>
    /\ WellFormed(SetFile[jobCall])
    /\ jobCall = cmCall => Resolves(SetFile[jobCall], SetFile[cmCall])

(* Stated by the help text of --set-file: the values come from the files given
   on the command line. A Job may start with the files of an earlier call,
   whose ConfigMap is still there. *)
JobUsesItsOwnFiles ==
  CanStart /\ jobStatus = "active" =>
    Resolves(SetFile[jobCall], SetFile[cmCall])

=============================================================================
