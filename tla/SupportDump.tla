----------------------------- MODULE SupportDump -----------------------------
(***************************************************************************)
(* `kubectl openebs dump system`: collectors run one after the other, each *)
(* writes files below a temporary directory, errors are gathered and the   *)
(* directory is archived and deleted at the end, whatever went wrong.      *)
(*                                                                         *)
(* The order of the collectors is Plan, read off openebs_system_dump,      *)
(* zfs_dump, lvm_dump and the functions they call; each function has its   *)
(* own list of errors, which its caller gets when it returns. at is the    *)
(* collector that runs. Whether a listing has objects is not modelled: an  *)
(* empty one writes no file and is collected all the same.                 *)
(*                                                                         *)
(* External: the API server, the collectors and the archive of the         *)
(* `supportability` crate, and the file system.                            *)
(***************************************************************************)
EXTENDS Naturals, Sequences

CONSTANTS
  MaxPages,   \* bound: pages of a listing
  MaxFaults   \* bound: calls that fail

ASSUME BoundsAssumption == MaxPages \in Nat \ {0} /\ MaxFaults \in Nat

(* A collector: the function it is called from, and what it does. *)
Do(part, how) == [part |-> part, how |-> how]

dump_vscont_and_vs_class(part) ==
  <<Do(part, "dir"), Do(part, "call"), Do(part, "call"), Do(part, "return")>>
zfs_dump == <<Do("zfs", "dir"), Do("zfs", "typed"), Do("zfs", "typed"),
              Do("zfs", "dynamic"), Do("zfs", "dynamic"), Do("zfs", "dynamic")>>
            \o dump_vscont_and_vs_class("zfsSnap")
            \o <<Do("zfs", "return")>>
lvm_dump == <<Do("lvm", "dir"), Do("lvm", "typed"), Do("lvm", "typed"),
              Do("lvm", "dynamic")>>
            \o dump_vscont_and_vs_class("lvmSnap")
            \o <<Do("lvm", "return")>>
Plan == <<Do("system", "call"), Do("system", "call"), Do("system", "call")>>
        \o (zfs_dump \o lvm_dump)
        \o <<Do("system", "return")>>

(* Who calls whom: openebs_system_dump is called from execute_resource_dump. *)
Caller == [zfsSnap |-> "zfs", zfs |-> "system", lvmSnap |-> "lvm", lvm |-> "system",
           system |-> "command"]
Parts == {"zfsSnap", "zfs", "lvmSnap", "lvm", "system"}
Lists == Parts \cup {"command"}

VARIABLES
  installed,   \* engines whose custom resources the API server knows
  withLogs,    \* not disable_log_collection
  at,          \* the collector that runs; 0 before the dumper is built
  stage,       \* of a listing: "begin", "list" or "write"
  left,        \* of a listing: pages still to be read
  broken,      \* of a listing: it broke off with an error
  got,         \* per collector: what has become of it
  errors,      \* per function: the errors in its list
  faults,      \* calls that failed so far
  tmp,         \* whether the temporary directory exists
  archive,     \* whether the archive is complete
  outcome      \* of the command

collecting == <<at, stage, left, broken, got, errors>>
world == <<installed, withLogs>>
files == <<tmp, archive>>
vars == <<collecting, world, files, faults, outcome>>

(* "unserved": the engine is not installed; "truncated": a listing broke off
   and only the pages before are in its file. *)
Got == {"untried", "collected", "unserved", "truncated", "missing", "skipped"}
Last == Len(Plan)
Archive == Last + 1   \* stands for the error of the archive in errors

TypeOK ==
  /\ installed \subseteq {"zfs", "lvm"}
  /\ withLogs \in BOOLEAN
  /\ at \in 0 .. Archive
  /\ stage \in {"begin", "list", "write"}
  /\ left \in 0 .. MaxPages
  /\ broken \in BOOLEAN
  /\ got \in [1 .. Last -> Got]
  /\ errors \in [Lists -> SUBSET (1 .. Archive)]
  /\ faults \in 0 .. MaxFaults
  /\ tmp \in BOOLEAN /\ archive \in BOOLEAN
  /\ outcome \in {"running", "ok", "error", "interrupted"}

Init ==
  /\ installed \in SUBSET {"zfs", "lvm"}
  /\ withLogs \in BOOLEAN
  /\ at = 0
  /\ stage = "begin"
  /\ left = 0
  /\ broken = FALSE
  /\ got = [n \in 1 .. Last |-> "untried"]
  /\ errors = [p \in Lists |-> {}]
  /\ faults = 0
  /\ tmp = FALSE /\ archive = FALSE
  /\ outcome = "running"

-----------------------------------------------------------------------------
How(h) == at \in 1 .. Last /\ outcome = "running" /\ Plan[at].how = h
Fault == faults < MaxFaults /\ faults' = faults + 1
NoFault == UNCHANGED faults

(* The place where the function of collector n returns. *)
ReturnOf(n) ==
  CHOOSE m \in n .. Last : Plan[m].part = Plan[n].part /\ Plan[m].how = "return"

(* The collector that runs is done; the next one is `next`. *)
Done(g, next) ==
  /\ got' = [got EXCEPT ![at] = g]
  /\ at' = next
  /\ stage' = "begin" /\ left' = 0 /\ broken' = FALSE

(* Its error is pushed to the list of the function that called it. *)
Push == errors' = [errors EXCEPT ![Plan[at].part] = @ \cup {at}]
NoError == UNCHANGED errors

(* get_or_panic_system_dumper: makes the temporary directory, or panics. *)
BuildDumper ==
  /\ at = 0 /\ outcome = "running"
  /\ \/ /\ NoFault /\ tmp' = TRUE
        /\ UNCHANGED outcome
        /\ at' = IF withLogs THEN 1 ELSE 2
        /\ got' = [got EXCEPT ![1] = IF withLogs THEN @ ELSE "skipped"]
     \/ /\ Fault /\ outcome' = "error"
        /\ UNCHANGED <<tmp, at, got>>
  /\ UNCHANGED <<world, archive, stage, left, broken, errors>>

(* A collector of the supportability crate: logs, common Kubernetes objects,
   Mayastor, and the snapshot classes and contents of a driver. *)
WrongStopAtError ==
  /\ How("call")
  /\ \/ NoFault /\ Done("collected", at + 1) /\ NoError
     \/ Fault /\ Done("missing", Archive) /\ Push
  /\ UNCHANGED <<world, files, outcome>>
Collect ==
  /\ How("call")
  /\ \/ NoFault /\ Done("collected", at + 1) /\ NoError
     \/ Fault /\ Done("missing", at + 1) /\ Push
  /\ UNCHANGED <<world, files, outcome>>

(* create_directory_if_not_exist(..)?: its error ends the function it is called
   from, whose list is still empty. *)
CreateDirectory ==
  /\ How("dir")
  /\ \/ NoFault /\ Done("collected", at + 1) /\ NoError
     \/ Fault /\ Done("missing", ReturnOf(at)) /\ Push
  /\ UNCHANGED <<world, files, outcome>>

BeginList ==
  /\ stage' = "list"
  /\ left' \in 1 .. MaxPages
  /\ NoFault /\ NoError
  /\ UNCHANGED <<at, broken, got>>

(* The dump_typed functions list with zfs_nodes, zfs_volumes and the like. *)
DumpTyped ==
  /\ How("typed") /\ stage = "begin"
  /\ BeginList
  /\ UNCHANGED <<world, files, outcome>>

(* dump_dynamic_resource up to the loop: dynamic_object_api fails, or says that
   the kind is not known, or gives an api to list with. *)
DumpDynamic ==
  /\ How("dynamic") /\ stage = "begin"
  /\ \/ Fault /\ Done("missing", at + 1) /\ Push
     \/ /\ Plan[at].part \notin installed
        /\ NoFault /\ Done("unserved", at + 1) /\ NoError
     \/ Plan[at].part \in installed /\ BeginList
  /\ UNCHANGED <<world, files, outcome>>

(* A page is read; its continue token asks for the next one, and the empty token
   of the last page ends the listing. A definition whose name begins with Wrong
   is a plausible bug in the one that follows it; no specification uses it. *)
WrongTokenLost ==
  /\ stage = "list"
  /\ outcome = "running"
  /\ Plan[at].part \in installed
  /\ left = 1
  /\ left' = 0 /\ stage' = "write"
  /\ UNCHANGED <<world, at, broken, got, errors, files, faults, outcome>>
WrongEmptyTokenFollowed ==
  /\ stage = "list"
  /\ outcome = "running"
  /\ Plan[at].part \in installed
  /\ left' = left - 1
  /\ stage' = IF left = 0 THEN "write" ELSE "list"
  /\ UNCHANGED <<world, at, broken, got, errors, files, faults, outcome>>
ListPage ==
  /\ stage = "list"
  /\ outcome = "running"
  /\ Plan[at].part \in installed
  /\ left' = left - 1
  /\ stage' = IF left = 1 THEN "write" ELSE "list"
  /\ UNCHANGED <<world, at, broken, got, errors, files, faults, outcome>>

(* A page fails: a typed dump returns the error, a dynamic one logs it, leaves
   the loop and goes on with what it has. Where the engine's custom resources
   are not known, or no longer, a page fails with 404, which a typed dump takes
   for Ok, whatever pages it has read. *)
BreakOff ==
  stage' = "write" /\ broken' = TRUE /\ NoError /\ UNCHANGED <<at, left, got>>
ListFails ==
  /\ stage = "list"
  /\ outcome = "running"
  /\ \/ /\ Fault
        /\ IF Plan[at].how = "typed" THEN Done("missing", at + 1) /\ Push ELSE BreakOff
     \/ /\ Plan[at].part \notin installed
        /\ NoFault
        /\ IF Plan[at].how = "typed" THEN Done("unserved", at + 1) /\ NoError
                                     ELSE BreakOff
  /\ UNCHANGED <<world, files, outcome>>

(* create_file_and_write. *)
WrongIgnoreIOError ==
  /\ stage = "write"
  /\ outcome = "running"
  /\ \/ NoFault /\ Done(IF broken THEN "truncated" ELSE "collected", at + 1)
     \/ Fault /\ Done("missing", at + 1)
  /\ NoError
  /\ UNCHANGED <<world, files, outcome>>
WriteFile ==
  /\ stage = "write"
  /\ outcome = "running"
  /\ \/ NoFault /\ Done(IF broken THEN "truncated" ELSE "collected", at + 1) /\ NoError
     \/ Fault /\ Done("missing", at + 1) /\ Push
  /\ UNCHANGED <<world, files, outcome>>

(* A function returns: its caller pushes its MultipleErrors, if there are any. *)
WrongErrorsDropped ==
  /\ How("return")
  /\ Done("collected", at + 1)
  /\ errors' = [errors EXCEPT ![Plan[at].part] = {}]
  /\ UNCHANGED <<world, files, faults, outcome>>
ReturnErrors ==
  /\ How("return")
  /\ Done("collected", at + 1)
  /\ errors' = [errors EXCEPT ![Plan[at].part] = {},
                             ![Caller[Plan[at].part]] = @ \cup errors[Plan[at].part]]
  /\ UNCHANGED <<world, files, faults, outcome>>

(* fill_archive_and_delete_tmp, then the command returns. *)
FillArchive ==
  /\ at = Archive /\ outcome = "running"
  /\ \/ /\ NoFault
        /\ archive' = TRUE /\ tmp' = FALSE
        /\ UNCHANGED errors
     \/ /\ Fault
        /\ archive' \in BOOLEAN /\ UNCHANGED tmp
        /\ errors' = [errors EXCEPT !["command"] = @ \cup {Archive}]
  /\ outcome' = IF errors'["command"] = {} THEN "ok" ELSE "error"
  /\ UNCHANGED <<world, at, stage, left, broken, got>>

(* main: the signal wins the select at an await; the archive has none. *)
Interrupt ==
  /\ outcome = "running" /\ at < Archive
  /\ outcome' = "interrupted"
  /\ UNCHANGED <<world, collecting, files, faults>>

(* Somebody removes an engine's custom resource definitions meanwhile. *)
Uninstall(e) ==
  /\ e \in installed /\ outcome = "running"
  /\ installed' = installed \ {e}
  /\ UNCHANGED <<withLogs, collecting, files, faults, outcome>>

Step ==
  \/ BuildDumper \/ Collect \/ CreateDirectory
  \/ DumpTyped \/ DumpDynamic \/ ListPage \/ ListFails \/ WriteFile
  \/ ReturnErrors \/ FillArchive

Finished == outcome # "running" /\ UNCHANGED vars

Next == Step \/ (\E e \in installed : Uninstall(e)) \/ Interrupt \/ Finished

Spec == Init /\ [][Next]_vars
FairSpec == Spec /\ WF_vars(Step)

-----------------------------------------------------------------------------
(* Properties *)

Returned == at = Archive /\ outcome \in {"ok", "error"}

(* Collector n comes later in the function that m was called from, or in one
   that this function calls. *)
After(m, n) == m < n /\ Plan[m].part \in {Plan[n].part, Caller[Plan[n].part]}

(* Whatever fails, every collector has had its turn when the command returns:
   one that has not comes after a directory, in the same function, that could
   not be made, and that is among the errors returned. *)
EveryCollectorTried ==
  Returned =>
    \A n \in 1 .. Last :
      got[n] = "untried" =>
        \E m \in errors["command"] \ {Archive} : Plan[m].how = "dir" /\ After(m, n)

(* A command that returns Ok has made its archive, removed its directory and
   collected everything, but for the objects of an engine that is not installed
   (any more) and for dynamic listings that broke off. *)
OkMeansCollected ==
  outcome = "ok" =>
    /\ archive /\ ~tmp
    /\ \A n \in 1 .. Last :
         \/ got[n] = "collected"
         \/ got[n] = "unserved" /\ Plan[n].part \in {"zfs", "lvm"} \ installed
         \/ got[n] = "truncated" /\ Plan[n].how = "dynamic"
         \/ got[n] = "skipped" /\ ~withLogs

(* An error at any depth reaches the caller, through the lists of all the
   functions in between, and nothing else does. *)
ErrorsReachCaller ==
  Returned =>
    {n \in 1 .. Last : got[n] = "missing"} = errors["command"] \ {Archive}

(* The command ends. *)
DumpEnds == <>(outcome # "running")

=============================================================================
