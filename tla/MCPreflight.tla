---------------------------- MODULE MCPreflight -----------------------------
(* Preflight on a small cluster: three volumes in pages of two, so that one   *)
(* deletion can move a volume in front of the next offset.                    *)
EXTENDS Preflight

CONSTANTS v1, v2, v3, n1

MCVols == {v1, v2, v3}
MCSingle == {v3}
MCNodes == {n1}

NoFlags == [skipPath |-> FALSE, allowUnstable |-> FALSE, skipRebuild |-> FALSE,
            skipCordon |-> FALSE, skipSingle |-> FALSE]
MCFlags == {NoFlags} \cup {[NoFlags EXCEPT ![f] = TRUE] : f \in DOMAIN NoFlags}

MCTags == {[develop |-> TRUE, parsed |-> FALSE, version |-> <<0, 0, 0, 0>>],
           [develop |-> FALSE, parsed |-> FALSE, version |-> <<0, 0, 0, 0>>],
           [develop |-> FALSE, parsed |-> TRUE, version |-> <<4, 7, 0, 1>>],
           [develop |-> FALSE, parsed |-> TRUE, version |-> <<4, 7, 0, 0>>]}

R(n, version, ce, cm, ve, vm) ==
  [found |-> n, version |-> version, configEngines |-> ce,
   configMayastor |-> cm, valuesEngines |-> ve, valuesMayastor |-> vm]

(* v4 and v3 releases with and without a user's own setting. *)
MCReleases ==
  {R(n, <<4, 6, 0, 0>>, "unset", "unset", "true", "unset") : n \in 0 .. 2}
  \cup {R(1, v, "unset", "unset", "true", "unset") :
          v \in {<<4, 6, 0, 1>>, <<4, 7, 0, 0>>, <<4, 8, 0, 0>>}}
  \cup {R(1, <<4, 6, 0, 0>>, "false", "unset", "true", "unset"),
        R(1, <<4, 6, 0, 0>>, "true", "unset", "false", "unset"),
        R(1, <<3, 10, 0, 0>>, "unset", "unset", "unset", "false"),
        R(1, <<3, 10, 0, 0>>, "unset", "true", "unset", "false"),
        R(1, <<3, 10, 0, 0>>, "unset", "unset", "unset", "unset")}
=============================================================================
