----------------------------- MODULE Preflight ------------------------------
(***************************************************************************)
(* upgrade_preflight_check of the plugin: what `kubectl openebs upgrade`   *)
(* looks at before it creates the upgrade Job. The checks are made one     *)
(* after the other, the volumes are read page by page, and the cluster     *)
(* changes meanwhile.                                                      *)
(*                                                                         *)
(* External: the REST API of Mayastor, which lists volumes by offset, and  *)
(* the helm storage driver.                                                *)
(***************************************************************************)
EXTENDS SemVer, Integers, Sequences, FiniteSets, SequencesExt

CONSTANTS
  Vols,        \* Mayastor volumes
  Single,      \* those with num_replicas = 1
  Nodes,       \* Mayastor nodes
  PageSize,    \* HTTP_DATA_PAGE_SIZE
  Flags,       \* command lines considered, a subset of AllFlags
  Tags,        \* version tags the plugin may be built with, a subset of Tag
  Releases,    \* what helm's storage may hold, a subset of HelmRelease
  MaxChanges   \* bound: changes of the cluster during the checks

AllFlags == [skipPath: BOOLEAN, allowUnstable: BOOLEAN, skipRebuild: BOOLEAN,
             skipCordon: BOOLEAN, skipSingle: BOOLEAN]

(* develop: the tag contains "develop"; parsed: it is a semver version. *)
Tag == [develop: BOOLEAN, parsed: BOOLEAN, version: Version]

(* An optional boolean of the helm values. *)
Opt == {"unset", "true", "false"}

(* found: Secrets or ConfigMaps with status=deployed for the release name. *)
HelmRelease == [found: 0 .. 2, version: Version,
                configEngines: Opt, configMayastor: Opt,
                valuesEngines: Opt, valuesMayastor: Opt]

ASSUME FlagsAssumption == Flags \subseteq AllFlags
ASSUME TagsAssumption == Tags \subseteq Tag
ASSUME ReleasesAssumption == Releases \subseteq HelmRelease
ASSUME SizesAssumption == PageSize \in Nat \ {0} /\ MaxChanges \in Nat
ASSUME VolsAssumption == IsFiniteSet(Vols) /\ Single \subseteq Vols

VARIABLES
  flags,       \* UpgradeCommonArgs
  self,        \* version tag of the plugin
  rel,         \* the helm release
  vols,        \* volumes, in the order in which the API lists them
  rebuilding,  \* volumes with a child that has a rebuild progress
  cordon,      \* cordon and drain state of each node
  changes,     \* changes of the cluster so far
  pc,          \* the check in progress
  token,       \* local: starting_token, NoToken at the end
  found,       \* local: single-replica volumes found
  steady,      \* history: volumes that met the scan's condition all along
  shifted      \* history: a volume was deleted during the scan

cluster == <<flags, self, rel, vols, rebuilding, cordon, changes>>
vars == <<cluster, pc, token, found, steady, shifted>>

NoToken == -1
Final == {"passed", "refused"}

TypeOK ==
  /\ flags \in Flags
  /\ self \in Tags
  /\ rel \in Releases
  /\ vols \in Seq(Vols)
  /\ rebuilding \subseteq Vols
  /\ cordon \in [Nodes -> {"none", "cordoned", "drained"}]
  /\ changes \in 0 .. MaxChanges
  /\ pc \in {"release", "path", "rebuild", "cordon", "single"} \cup Final
  /\ token \in {NoToken} \cup 0 .. Cardinality(Vols)
  /\ found \subseteq Single
  /\ steady \subseteq Vols
  /\ shifted \in BOOLEAN

Init ==
  /\ flags \in Flags
  /\ self \in Tags
  /\ rel \in Releases
  /\ vols \in SetToAllKPermutations(Vols)
  /\ rebuilding \in SUBSET ToSet(vols)
  /\ cordon \in [Nodes -> {"none", "cordoned", "drained"}]
  /\ changes = 0
  /\ pc = "release"
  /\ token = NoToken
  /\ found = {}
  /\ steady = {}
  /\ shifted = FALSE

-----------------------------------------------------------------------------
(* Decisions. A definition whose name begins with Wrong is a plausible bug in
   the one that follows it; no specification uses it. *)

UnwrapOr(opt, default) == IF opt = "unset" THEN default ELSE opt = "true"

WrongChartFirst ==
  UnwrapOr(rel.valuesEngines, UnwrapOr(rel.valuesMayastor,
    UnwrapOr(rel.configEngines, UnwrapOr(rel.configMayastor, FALSE))))
mayastor_is_enabled ==
  UnwrapOr(rel.configEngines, UnwrapOr(rel.configMayastor,
    UnwrapOr(rel.valuesEngines, UnwrapOr(rel.valuesMayastor, FALSE))))

upgrade_path_validation(source) ==
  /\ ~self.develop
  /\ flags.allowUnstable \/ ~IsStable(source) \/ (self.parsed /\ IsStable(self.version))
  /\ self.parsed => ~Lt(self.version, source)

-----------------------------------------------------------------------------
(* The REST API: the page at an offset, and the offset of the next one. *)

Page == {vols[i] : i \in {j \in DOMAIN vols : token < j /\ j <= token + PageSize}}
NextToken == IF token + PageSize < Len(vols) THEN token + PageSize ELSE NoToken

(* A check begins that reads the volumes; steady starts with those in S. *)
BeginScan(p, S) ==
  /\ pc' = p
  /\ token' = 0
  /\ steady' = S
  /\ shifted' = FALSE

Finish(p) == pc' = p /\ UNCHANGED <<token, steady, shifted>>

ToSingle ==
  IF flags.skipSingle THEN Finish("passed")
  ELSE BeginScan("single", Single \cap ToSet(vols))
ToCordon == IF flags.skipCordon THEN ToSingle ELSE Finish("cordon")
ToRebuild ==
  IF flags.skipRebuild THEN ToCordon ELSE BeginScan("rebuild", rebuilding)

-----------------------------------------------------------------------------
(* Steps of upgrade_preflight_check *)

(* HelmRelease::new_from_cluster: exactly one deployed revision is wanted. *)
ReadRelease ==
  /\ pc = "release"
  /\ Finish(IF rel.found # 1 THEN "refused"
            ELSE IF mayastor_is_enabled THEN "path" ELSE "passed")
  /\ UNCHANGED <<cluster, found>>

ValidatePath ==
  /\ pc = "path"
  /\ IF flags.skipPath \/ upgrade_path_validation(rel.version)
     THEN ToRebuild ELSE Finish("refused")
  /\ UNCHANGED <<cluster, found>>

(* rebuild_in_progress: one page per request, until there is no next token. *)
WrongFirstPageOnly ==
  /\ pc = "rebuild"
  /\ IF Page \cap rebuilding # {} THEN Finish("refused") ELSE ToCordon
  /\ UNCHANGED <<cluster, found>>
WrongTokenUnwrapped ==
  /\ pc = "rebuild"
  /\ IF Page \cap rebuilding # {} THEN Finish("refused")
     ELSE /\ token' = IF NextToken = NoToken THEN 0 ELSE NextToken
          /\ UNCHANGED <<pc, steady, shifted>>
  /\ UNCHANGED <<cluster, found>>
RebuildPage ==
  /\ pc = "rebuild"
  /\ IF Page \cap rebuilding # {} THEN Finish("refused")
     ELSE IF NextToken = NoToken THEN ToCordon
     ELSE token' = NextToken /\ UNCHANGED <<pc, steady, shifted>>
  /\ UNCHANGED <<cluster, found>>

CheckCordoned ==
  /\ pc = "cordon"
  /\ IF \E n \in Nodes : cordon[n] = "cordoned" THEN Finish("refused") ELSE ToSingle
  /\ UNCHANGED <<cluster, found>>

(* single_volume_replica_validation: all pages are read before the verdict. *)
WrongLastPageCounts ==
  /\ pc = "single"
  /\ found' = Page \cap Single
  /\ IF NextToken = NoToken THEN Finish(IF found' = {} THEN "passed" ELSE "refused")
     ELSE token' = NextToken /\ UNCHANGED <<pc, steady, shifted>>
  /\ UNCHANGED cluster
WrongAllVolumes ==
  /\ pc = "single"
  /\ found' = found \cup Page
  /\ IF NextToken = NoToken THEN Finish(IF found' = {} THEN "passed" ELSE "refused")
     ELSE token' = NextToken /\ UNCHANGED <<pc, steady, shifted>>
  /\ UNCHANGED cluster
SinglePage ==
  /\ pc = "single"
  /\ found' = found \cup (Page \cap Single)
  /\ IF NextToken = NoToken THEN Finish(IF found' = {} THEN "passed" ELSE "refused")
     ELSE token' = NextToken /\ UNCHANGED <<pc, steady, shifted>>
  /\ UNCHANGED cluster

(* A request to the API server or to the REST API fails. *)
RequestFails ==
  /\ pc \notin Final \cup {"path"}
  /\ Finish("refused")
  /\ UNCHANGED <<cluster, found>>

Step ==
  \/ ReadRelease \/ ValidatePath \/ RebuildPage \/ CheckCordoned \/ SinglePage
  \/ RequestFails

-----------------------------------------------------------------------------
(* The cluster changes while the checks are made. *)

Changes ==
  /\ pc \notin Final
  /\ changes < MaxChanges
  /\ changes' = changes + 1
  /\ UNCHANGED <<flags, self, rel, pc, token, found>>

CreateVolume(v, i) ==
  /\ Changes
  /\ v \notin ToSet(vols)
  /\ vols' = InsertAt(vols, i, v)
  /\ UNCHANGED <<rebuilding, cordon, steady, shifted>>

DeleteVolume(v) ==
  /\ Changes
  /\ \E i \in DOMAIN vols : vols[i] = v /\ vols' = RemoveAt(vols, i)
  /\ rebuilding' = rebuilding \ {v}
  /\ steady' = steady \ {v}
  /\ shifted' = TRUE
  /\ UNCHANGED cordon

RebuildStarts(v) ==
  /\ Changes
  /\ v \in ToSet(vols) \ rebuilding
  /\ rebuilding' = rebuilding \cup {v}
  /\ UNCHANGED <<vols, cordon, steady, shifted>>

RebuildEnds(v) ==
  /\ Changes
  /\ v \in rebuilding
  /\ rebuilding' = rebuilding \ {v}
  /\ steady' = IF pc = "rebuild" THEN steady \ {v} ELSE steady
  /\ UNCHANGED <<vols, cordon, shifted>>

CordonNode(n) ==
  /\ Changes
  /\ cordon[n] = "none"
  /\ cordon' = [cordon EXCEPT ![n] = "cordoned"]
  /\ UNCHANGED <<vols, rebuilding, steady, shifted>>

Change ==
  \/ \E v \in Vols : \/ \E i \in 1 .. Len(vols) + 1 : CreateVolume(v, i)
                     \/ DeleteVolume(v) \/ RebuildStarts(v) \/ RebuildEnds(v)
  \/ \E n \in Nodes : CordonNode(n)

Finished == pc \in Final /\ UNCHANGED vars

Next == Step \/ Change \/ Finished

Spec == Init /\ [][Next]_vars /\ WF_vars(Step)

-----------------------------------------------------------------------------
(* Properties *)

(* A volume that was rebuilding from the first to the last page of the scan is
   not overlooked, however volumes are created meanwhile, unless a volume was
   deleted: only then do the later ones move in front of the next offset. *)
RebuildNotOverlooked ==
  [][pc = "rebuild" /\ pc' \notin {"rebuild", "refused"} /\ ~shifted
       => steady = {}]_vars

(* The same for the single-replica volumes that exist all through their scan. *)
SingleReplicaNotOverlooked ==
  [][pc = "single" /\ pc' = "passed" /\ ~shifted => steady = {}]_vars

(* The checks are left out only for a release in which the first of the four
   keys that is set at all (user configuration before chart values, engines
   before the key of v3) does not enable Mayastor. *)
OnlyBypassedWhenOff ==
  [][pc = "release" /\ pc' = "passed" =>
       LET keys == <<rel.configEngines, rel.configMayastor,
                     rel.valuesEngines, rel.valuesMayastor>>
       IN  \A i \in 1 .. 4 :
             keys[i] = "true" => \E j \in 1 .. i - 1 : keys[j] = "false"]_vars

(* The checks come to an end: every request moves the token on. *)
PreflightEnds == <>(pc \in Final)

=============================================================================
