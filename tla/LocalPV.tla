------------------------------ MODULE LocalPV -------------------------------
(***************************************************************************)
(* `kubectl openebs localpv-lvm | localpv-zfs | localpv-hostpath get ...`: *)
(* one command that lists volumes, volume groups or zpools, page by page,  *)
(* while volumes are provisioned and deleted.                              *)
(*                                                                         *)
(* A volume, and a node, is the number that its name has in the order of   *)
(* names, in which the API server lists objects. An LVM or ZFS volume is a *)
(* custom resource (CR) of the volume's driver and a PersistentVolume (PV) *)
(* of the same name; a hostpath volume is a PV only.                       *)
(*                                                                         *)
(* External: the API server, which serves the pages of one listing from    *)
(* the objects as they were at its first page.                             *)
(***************************************************************************)
EXTENDS Integers, Sequences, FiniteSets, SequencesExt

CONSTANTS
  NumVolumes,  \* volumes are 1 .. NumVolumes
  NumNodes,    \* nodes are 1 .. NumNodes
  Profiles,    \* what the objects of a volume may say, a subset of Profile
  NodeGroups,  \* volume groups (or zpools) of each node, as its CR has them
  MaxEntries,  \* max_entries, the limit of a page
  MaxChanges   \* bound: objects created or deleted during the command

Volumes == 1 .. NumVolumes
Nodes == 1 .. NumNodes
AnyNode == 0     \* node_id is None

LvmRequires == {"spec", "namespace", "capacity", "claim_ref", "access_modes",
                "storage_class_name", "volume_mode"}

ZfsRequires == {"spec", "namespace", "capacity", "claim_ref", "access_modes",
                "storage_class_name", "volume_mode"}

HostpathRequires == {"spec", "status", "node_affinity", "local", "claim_ref",
                     "storage_class_name", "capacity"}

(* node: owner_node_id of the CR, or the node of the PV's affinity; tagged:  *)
(* the CR has the label kubernetes.io/nodename, or the PV the label          *)
(* openebs.io/cas-type=local-hostpath; lacks: a field that is missing.       *)
Profile == [node: Nodes, tagged: BOOLEAN,
            lacks: {"nothing"} \cup LvmRequires \cup HostpathRequires]

Command ==
  {[op |-> "volumes", engine |-> e, node |-> n, name |-> 0] :
     e \in {"lvm", "zfs", "hostpath"}, n \in Nodes \cup {AnyNode}}
  \cup {[op |-> "volume", engine |-> e, node |-> AnyNode, name |-> v] :
          e \in {"lvm", "zfs", "hostpath"}, v \in Volumes}
  \cup {[op |-> "groups", engine |-> e, node |-> n, name |-> 0] :
          e \in {"lvm", "zfs"}, n \in Nodes \cup {AnyNode}}

ASSUME CountsAssumption ==
  /\ NumVolumes \in Nat /\ NumNodes \in Nat
  /\ MaxEntries \in Nat \ {0} /\ MaxChanges \in Nat
ASSUME ProfilesAssumption == Profiles \subseteq Profile /\ Profiles # {}
ASSUME GroupsAssumption == NodeGroups \in [Nodes -> Seq(STRING)]

VARIABLES
  cmd,      \* the command line
  profile,  \* what the objects of each volume say
  crs,      \* volumes with a CR
  pvs,      \* volumes with a PV
  nodes,    \* nodes with a CR
  touched,  \* history: objects created or deleted since the command began
  pc,       \* the request in progress
  token,    \* continue token: what is left of the snapshot of this listing
  vols,     \* local: the volumes or nodes listed so far
  pvList,   \* local: the PVs listed so far
  result,   \* how the command ended: "Ok" or a variant of Error
  out       \* rows printed

cluster == <<profile, crs, pvs, nodes, touched>>
locals == <<token, vols, pvList>>
vars == <<cmd, cluster, pc, locals, result, out>>

Requests == {"lvm_volumes", "zfs_volumes", "lvm_volume", "zfs_volume",
             "list_pv", "list_hostpath_pv", "get_pv", "lvm_nodes", "zfs_nodes",
             "lvm_node", "zfs_node"}

(* Types, and that a command ends exactly when it has a result, without a    *)
(* continue token left over.                                                 *)
TypeOK ==
  /\ cmd \in Command
  /\ profile \in [Volumes -> Profiles]
  /\ crs \subseteq Volumes /\ pvs \subseteq Volumes /\ nodes \subseteq Nodes
  /\ touched \subseteq {"cr", "pv", "node"} \X (Volumes \cup Nodes)
  /\ Cardinality(touched) <= MaxChanges
  /\ pc \in {"client", "done"} \cup Requests
  /\ token \in Seq(Volumes \cup Nodes)
  /\ vols \in Seq(Volumes \cup Nodes)
  /\ pvList \in Seq(Volumes)
  /\ result \in {"none", "Ok", "Kube", "Generic", "NoClient"}
  /\ (pc = "done") <=> (result # "none")
  /\ pc \in {"client", "done"} => token = <<>> /\ vols = <<>> /\ pvList = <<>>
  /\ out \in IF cmd.op = "groups"
              THEN Seq(Nodes \X UNION {Range(NodeGroups[n]) : n \in Nodes})
              ELSE Seq(Volumes)

(* The objects that the command does not read are left out of the cluster.   *)
Init ==
  /\ cmd \in Command
  /\ profile \in IF cmd.op = "groups" THEN {CHOOSE f \in [Volumes -> Profiles] : TRUE}
                                     ELSE [Volumes -> Profiles]
  /\ crs \in IF cmd.engine = "hostpath" \/ cmd.op = "groups" THEN {{}} ELSE SUBSET Volumes
  /\ pvs \in IF cmd.op = "groups" THEN {{}} ELSE SUBSET Volumes
  /\ nodes \in IF cmd.op = "groups" THEN SUBSET Nodes ELSE {{}}
  /\ touched = {} /\ pc = "client"
  /\ token = <<>> /\ vols = <<>> /\ pvList = <<>>
  /\ result = "none" /\ out = <<>>
-----------------------------------------------------------------------------
(* Ends of a command. Rows are printed by print_table, all at once.          *)

WrongReturn(r, rows) ==
  /\ result' = r /\ out' = rows
  /\ token' = <<>> /\ vols' = <<>> /\ pvList' = <<>>
  /\ UNCHANGED <<cmd, cluster, pc>>
Return(r, rows) ==
  /\ pc' = "done" /\ result' = r /\ out' = rows
  /\ token' = <<>> /\ vols' = <<>> /\ pvList' = <<>>
  /\ UNCHANGED <<cmd, cluster>>

(* The error of a request ends the command. *)
Fail == Return("Kube", <<>>)

GoTo(request) == pc' = request /\ UNCHANGED <<cmd, cluster, locals, result, out>>

(* The numbers of a set in their order. *)
InOrder(S) ==
  CHOOSE s \in SetToSeqs(S) : \A i, j \in DOMAIN s : i < j => s[i] < s[j]

(* The elements of s that are in T, in the order of s. *)
Selected(s, T) == LET places == InOrder({i \in DOMAIN s : s[i] \in T})
                  IN  [k \in DOMAIN places |-> s[places[k]]]

(* Pages: a listing starts from the objects there are, and continues from    *)
(* what the token stands for until a page comes with an empty token.         *)
Listing(objects) == IF token = <<>> THEN InOrder(objects) ELSE token

Page(objects) == LET l == Listing(objects)
                 IN  SubSeq(l, 1, IF Len(l) < MaxEntries THEN Len(l) ELSE MaxEntries)

NextToken(objects) == LET l == Listing(objects) IN SubSeq(l, MaxEntries + 1, Len(l))

WrongExtend(list, items) == items
Extend(list, items) == list \o items
-----------------------------------------------------------------------------
(* Requests on volumes.                                                      *)

(* The label selector kubernetes.io/nodename={node_id}, if a node is given. *)
NodeSelected(v) ==
  cmd.node = AnyNode \/ (profile[v].tagged /\ profile[v].node = cmd.node)

ListVolumes ==
  LET found == {v \in crs : NodeSelected(v)}
  IN  \/ Fail
      \/ /\ vols' = Extend(vols, Page(found))
         /\ token' = NextToken(found)
         /\ pc' = IF token' = <<>> THEN "list_pv" ELSE pc
         /\ UNCHANGED <<cmd, cluster, pvList, result, out>>

lvm_volumes == pc = "lvm_volumes" /\ ListVolumes

zfs_volumes == pc = "zfs_volumes" /\ ListVolumes

GetVolume ==
  \/ Fail
  \/ /\ cmd.name \in crs
     /\ vols' = <<cmd.name>> /\ pc' = "list_pv"
     /\ UNCHANGED <<cmd, cluster, token, pvList, result, out>>

lvm_volume == pc = "lvm_volume" /\ GetVolume

zfs_volume == pc = "zfs_volume" /\ GetVolume

(* try_from: the field that is missing, if any, is one that it asks for.     *)
LvmVolumeObject(v) == profile[v].lacks \notin LvmRequires

ZfsVolumeObject(v) == profile[v].lacks \notin ZfsRequires

HostPathVolume(v) == profile[v].lacks \notin HostpathRequires

(* The volumes that have a PV, in the order of the listing; the others are   *)
(* reported on stderr and left out.                                          *)
Joined(vs, ps) == Selected(vs, Range(ps))

WrongGetLvmVolOutput(vs, ps) ==
  IF Range(vs) \subseteq Range(ps) /\ \A v \in Range(Joined(vs, ps)) : LvmVolumeObject(v)
  THEN Return("Ok", Joined(vs, ps)) ELSE Return("Generic", <<>>)
get_lvm_vol_output(vs, ps) ==
  IF \A v \in Range(Joined(vs, ps)) : LvmVolumeObject(v)
  THEN Return("Ok", Joined(vs, ps)) ELSE Return("Generic", <<>>)

get_zfs_vol_record(vs, ps) ==
  IF \A v \in Range(Joined(vs, ps)) : ZfsVolumeObject(v)
  THEN Return("Ok", Joined(vs, ps)) ELSE Return("Generic", <<>>)

(* Every PV is converted, and only then compared with the node. *)
get_hostpath_volume(ps) ==
  IF \A v \in Range(ps) : HostPathVolume(v)
  THEN Return("Ok", Selected(ps, {v \in Volumes : cmd.node \in {AnyNode, profile[v].node}}))
  ELSE Return("Generic", <<>>)

(* One page of PVs that is not the last, or the error; the last page also    *)
(* makes the record and prints it.                                           *)
ListPvPage(found) ==
  \/ Fail
  \/ /\ NextToken(found) # <<>>
     /\ pvList' = Extend(pvList, Page(found)) /\ token' = NextToken(found)
     /\ UNCHANGED <<cmd, cluster, pc, vols, result, out>>

LastPvPage(found) == NextToken(found) = <<>>

list_pv_lvm ==
  /\ pc = "list_pv" /\ cmd.engine = "lvm"
  /\ \/ ListPvPage(pvs)
     \/ LastPvPage(pvs) /\ get_lvm_vol_output(vols, Extend(pvList, Page(pvs)))

list_pv_zfs ==
  /\ pc = "list_pv" /\ cmd.engine = "zfs"
  /\ \/ ListPvPage(pvs)
     \/ LastPvPage(pvs) /\ get_zfs_vol_record(vols, Extend(pvList, Page(pvs)))

(* With the label selector openebs.io/cas-type=local-hostpath. *)
list_pv_hostpath ==
  LET found == {v \in pvs : profile[v].tagged}
  IN  /\ pc = "list_hostpath_pv"
      /\ \/ ListPvPage(found)
         \/ LastPvPage(found) /\ get_hostpath_volume(Extend(pvList, Page(found)))

WrongGetPv ==
  /\ pc = "get_pv"
  /\ Fail \/ (cmd.name \in pvs /\ get_hostpath_volume(<<cmd.name>>))
get_pv ==
  /\ pc = "get_pv"
  /\ \/ Fail
     \/ cmd.name \in pvs /\ ~profile[cmd.name].tagged /\ Return("Generic", <<>>)
     \/ cmd.name \in pvs /\ profile[cmd.name].tagged /\ get_hostpath_volume(<<cmd.name>>)
-----------------------------------------------------------------------------
(* Requests on nodes.                                                        *)

(* A row for each group of each node, with the node it is on. *)
WrongVolumeGroupRecord(ns) ==
  FlattenSeq([i \in 1 .. Len(ns) |->
    [j \in 1 .. Len(NodeGroups[ns[i]]) |-> <<ns[1], NodeGroups[ns[i]][j]>>]])
VolumeGroupRecord(ns) ==
  FlattenSeq([i \in 1 .. Len(ns) |->
    [j \in 1 .. Len(NodeGroups[ns[i]]) |-> <<ns[i], NodeGroups[ns[i]][j]>>]])

ZfsPoolRecord(ns) ==
  FlattenSeq([i \in 1 .. Len(ns) |->
    [j \in 1 .. Len(NodeGroups[ns[i]]) |-> <<ns[i], NodeGroups[ns[i]][j]>>]])

ListNodePage ==
  \/ Fail
  \/ /\ NextToken(nodes) # <<>>
     /\ vols' = Extend(vols, Page(nodes)) /\ token' = NextToken(nodes)
     /\ UNCHANGED <<cmd, cluster, pc, pvList, result, out>>

LastNodePage == NextToken(nodes) = <<>>

lvm_nodes ==
  /\ pc = "lvm_nodes"
  /\ \/ ListNodePage
     \/ LastNodePage /\ Return("Ok", VolumeGroupRecord(Extend(vols, Page(nodes))))

zfs_nodes ==
  /\ pc = "zfs_nodes"
  /\ \/ ListNodePage
     \/ LastNodePage /\ Return("Ok", ZfsPoolRecord(Extend(vols, Page(nodes))))

lvm_node ==
  /\ pc = "lvm_node"
  /\ Fail \/ (cmd.node \in nodes /\ Return("Ok", VolumeGroupRecord(<<cmd.node>>)))

zfs_node ==
  /\ pc = "zfs_node"
  /\ Fail \/ (cmd.node \in nodes /\ Return("Ok", ZfsPoolRecord(<<cmd.node>>)))
-----------------------------------------------------------------------------
(* Dispatch: the client is made first, then the command's first request.     *)

volume_groups == IF cmd.node = AnyNode THEN "lvm_nodes" ELSE "lvm_node"

zpools == IF cmd.node = AnyNode THEN "zfs_nodes" ELSE "zfs_node"

LvmGet == CASE cmd.op = "volume" -> "lvm_volume"
            [] cmd.op = "volumes" -> "lvm_volumes"
            [] cmd.op = "groups" -> volume_groups

ZfsGet == CASE cmd.op = "volume" -> "zfs_volume"
            [] cmd.op = "volumes" -> "zfs_volumes"
            [] cmd.op = "groups" -> zpools

HostpathGet == IF cmd.op = "volume" THEN "get_pv" ELSE "list_hostpath_pv"

execute == CASE cmd.engine = "lvm" -> LvmGet
             [] cmd.engine = "zfs" -> ZfsGet
             [] cmd.engine = "hostpath" -> HostpathGet

client ==
  /\ pc = "client"
  /\ GoTo(execute) \/ Return("NoClient", <<>>)
-----------------------------------------------------------------------------
(* Somebody creates or deletes one object, each at most once. What happens    *)
(* before the first request makes no difference.                              *)
Toggle(S, x) == IF x \in S THEN S \ {x} ELSE S \cup {x}

Change(kind, x) ==
  /\ pc \in Requests
  /\ Cardinality(touched) < MaxChanges /\ <<kind, x>> \notin touched
  /\ touched' = touched \cup {<<kind, x>>}
  /\ crs' = IF kind = "cr" THEN Toggle(crs, x) ELSE crs
  /\ pvs' = IF kind = "pv" THEN Toggle(pvs, x) ELSE pvs
  /\ nodes' = IF kind = "node" THEN Toggle(nodes, x) ELSE nodes
  /\ UNCHANGED <<cmd, profile, pc, locals, result, out>>

ObjectChanges ==
  \/ cmd.op = "groups" /\ \E n \in Nodes : Change("node", n)
  \/ cmd.op # "groups" /\ \E v \in Volumes : Change("pv", v)
  \/ cmd.op # "groups" /\ cmd.engine # "hostpath" /\ \E v \in Volumes : Change("cr", v)

Request == \/ client
           \/ lvm_volumes \/ zfs_volumes \/ lvm_volume \/ zfs_volume
           \/ list_pv_lvm \/ list_pv_zfs \/ list_pv_hostpath \/ get_pv
           \/ lvm_nodes \/ zfs_nodes \/ lvm_node \/ zfs_node

Done == pc = "done" /\ UNCHANGED vars

Next == Request \/ ObjectChanges \/ Done

Spec == Init /\ [][Next]_vars
-----------------------------------------------------------------------------
(* What the user asked for: a volume, or the volumes of a node. *)
Asked(v) ==
  /\ cmd.engine = "hostpath" => profile[v].tagged
  /\ IF cmd.op = "volume" THEN v = cmd.name ELSE cmd.node \in {AnyNode, profile[v].node}

(* Its driver has given the CR the label that a listing by node goes by. *)
Labelled(v) == cmd.engine # "hostpath" /\ cmd.node # AnyNode => profile[v].tagged

(* v was a complete volume all through the command. *)
Steady(v) ==
  /\ v \in pvs /\ <<"pv", v>> \notin touched
  /\ cmd.engine # "hostpath" => v \in crs /\ <<"cr", v>> \notin touched

(* A command that succeeds shows every volume it was asked for that had its  *)
(* CR and PV from the beginning to the end, however many pages the two       *)
(* listings take and whatever else is created or deleted between them        *)
(* (lvm_volumes, list_pv and the join of get_lvm_vol_output), unless its CR  *)
(* is on the node given but has not been labelled with it.                   *)
SteadyVolumesListed ==
  result = "Ok" /\ cmd.op # "groups" =>
    \A v \in Volumes : Steady(v) /\ Asked(v) /\ Labelled(v) => v \in Range(out)

(* A row is a volume that was asked for, on the node that was given, that    *)
(* had a PV (and a CR) at some time of the command, and that appears once,   *)
(* in the order of names (the selectors of the two listings, the test of     *)
(* get_pv, and the filter of get_hostpath_volume).                           *)
OnlyAskedListed ==
  cmd.op # "groups" =>
    /\ \A i \in DOMAIN out :
         /\ Asked(out[i])
         /\ out[i] \in pvs \/ <<"pv", out[i]>> \in touched
         /\ cmd.engine # "hostpath" => out[i] \in crs \/ <<"cr", out[i]>> \in touched
    /\ \A i, j \in DOMAIN out : i < j => out[i] < out[j]

(* A command that fails prints nothing, and where no request failed it has a *)
(* reason that the user can find: an object that lacks a field, among those  *)
(* on the node that was asked for, except that hostpath also fails for the   *)
(* PVs of other nodes, or for a PV that is no hostpath volume. A volume      *)
(* without a PV is never the reason (try_from in get_lvm_vol_output).        *)
FailureExplained ==
  /\ result # "Ok" => out = <<>>
  /\ result = "Generic" =>
       \E v \in Volumes :
         /\ v \in pvs \/ <<"pv", v>> \in touched
         /\ CASE cmd.engine = "lvm" -> Asked(v) /\ Labelled(v) /\ ~LvmVolumeObject(v)
              [] cmd.engine = "zfs" -> Asked(v) /\ Labelled(v) /\ ~ZfsVolumeObject(v)
              [] OTHER -> IF profile[v].tagged THEN ~HostPathVolume(v)
                                               ELSE cmd.op = "volume" /\ v = cmd.name

(* A listing of volume groups or zpools that succeeds shows exactly the      *)
(* groups of every node that had its CR throughout, and no node but the one  *)
(* asked for (volume_groups, lvm_nodes, VolumeGroupRecord::from).            *)
GroupsOfNodesListed ==
  result = "Ok" /\ cmd.op = "groups" =>
    \A n \in Nodes :
      LET rows == Selected(out, {r \in Range(out) : r[1] = n})
          groups == [i \in 1 .. Len(rows) |-> rows[i][2]]
      IN  IF cmd.node \notin {AnyNode, n} THEN rows = <<>>
          ELSE <<"node", n>> \notin touched =>
                 groups = IF n \in nodes THEN NodeGroups[n] ELSE <<>>
=============================================================================
