---------------------------- MODULE MCUpgradeJob ----------------------------
(* UpgradeJob on small instances. Versions on both sides of every bound that *)
(* the code compares with; two pods; two CRD sets, one of them with two CRDs. *)
EXTENDS UpgradeJob, TLC

CONSTANTS p1, p2, snap1, snap2, lvm1

MCTarget == <<4, 7, 0, 1>>
MCPods == {p1, p2}
MCSymmetry == Permutations({p1, p2}) \cup Permutations({snap1, snap2})
MCCrdSets == {{snap1, snap2}, {lvm1}}

(* One version per interval of the comparisons, bounds included. *)
MCSources == {<<2, 12, 0, 0>>, <<3, 4, 0, 0>>, <<3, 4, 1, 0>>, <<3, 7, 0, 0>>,
              <<3, 10, 0, 0>>, <<4, 0, 0, 1>>, <<4, 0, 0, 0>>,
              <<4, 3, 0, 0>>, <<4, 7, 0, 1>>, <<4, 7, 0, 0>>}
MCFewSources == {<<3, 10, 0, 0>>, <<4, 7, 0, 1>>}
MCOptions == Args
MCPlainOptions == [skipRestart: {FALSE}, skipPath: {FALSE},
                   mayastor: {TRUE}, partialRebuild: BOOLEAN]
=============================================================================
