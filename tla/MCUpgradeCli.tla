---------------------------- MODULE MCUpgradeCli ----------------------------
(* UpgradeCli with two terminals. ServiceAccount, ClusterRole and            *)
(* ClusterRoleBinding are treated alike by the code; one of them stands for  *)
(* the three where the number of interleavings matters.                      *)
EXTENDS UpgradeCli, TLC

CONSTANTS c1, c2

MCClients == {c1, c2}
MCOneClient == {c1}
MCSymmetry == Permutations(MCClients)
MCFiveKinds == {"ServiceAccount", "ClusterRole", "ClusterRoleBinding",
                "ConfigMap", "Job"}
MCThreeKinds == {"ServiceAccount", "ConfigMap", "Job"}
MCTwoKinds == {"ConfigMap", "Job"}
MCOps == {"upgrade", "delete", "force"}
MCNoDelete == {"upgrade", "status"}
MCJobActions == {"HelmUpgradeStart", "Validation Failed"}
MCNoValidation == {"HelmUpgradeStart"}

(* --set-file of each call: two keys from one file; other files; an argument
   without '='; two pairs in one argument. *)
MCSetFile == << << <<"tolerations", "/a">>, <<"affinity", "/b">>, <<"extra", "/a">> >>,
                << <<"tolerations", "/c">> >>,
                << <<"tolerations">> >>,
                << <<"tolerations", "/a,affinity", "/b">> >> >>
MCSetFile3 == SubSeq(MCSetFile, 1, 3)
MCPlainFiles == [n \in 1 .. MaxCalls |-> << <<"tolerations", "/a">> >>]
=============================================================================
