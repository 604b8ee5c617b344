----------------------------- MODULE MCLocalPV ------------------------------
(* Three volumes and three nodes in pages of two. The profiles are complete   *)
(* volumes on two nodes, one without its label, and one that lacks a field    *)
(* which every listing asks for.                                              *)
EXTENDS LocalPV

P(n, tagged, lacks) == [node |-> n, tagged |-> tagged, lacks |-> lacks]

MCProfiles == {P(1, TRUE, "nothing"), P(2, TRUE, "nothing"),
               P(1, FALSE, "nothing"),
               P(2, TRUE, "claim_ref")}

MCNodeGroups == <<<<"a", "b">>, <<"a">>, <<"c">>>>

(* On short lists Selected is SelectSeq, and InOrder sorts.                   *)
ASSUME SelectedIsSelectSeq ==
  \A s \in BoundedSeq(1 .. 4, 4), T \in SUBSET (1 .. 4) :
    Selected(s, T) = SelectSeq(s, LAMBDA v : v \in T)
ASSUME InOrderSorts ==
  \A S \in SUBSET (1 .. 5) : InOrder(S) = SetToSortSeq(S, <)
=============================================================================
