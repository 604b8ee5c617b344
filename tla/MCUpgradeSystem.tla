--------------------------- MODULE MCUpgradeSystem ---------------------------
(* UpgradeSystem with one terminal: two of the objects, one io-engine pod,   *)
(* one CRD set, a release of v3, one at the target's version and a newer one. *)
EXTENDS UpgradeSystem

CONSTANTS c1, p1, crd1

MCClients == {c1}
MCKinds == {"ConfigMap", "Job"}
MCOps == {"upgrade", "delete", "force"}
MCSetFile == [n \in 1 .. MaxCalls |-> <<>>]
MCJobActions == J!Event \cup {"Validation Failed"}
MCTarget == <<4, 7, 0, 1>>
MCSources == {<<3, 4, 0, 0>>, <<4, 7, 0, 1>>, <<4, 8, 0, 1>>}
MCPods == {p1}
MCCrdSets == {{crd1}}
MCOptions == [skipRestart: {FALSE}, skipPath: {FALSE},
              mayastor: {TRUE}, partialRebuild: {FALSE}]

(* What the future of a state depends on: the outcomes and the numbers of calls
   (which all have the same arguments) and the history variables of UpgradeCli
   are left out, and no property of this run reads them. *)
MCView == <<obj, jobStatus, event, evCount, calls, pc, op, pend, polls, process>>
=============================================================================
