--------------------------- MODULE UpgradeContract ---------------------------
(***************************************************************************)
(* What the upgrade-job promises to whoever watches the cluster, without   *)
(* attempts, events, CRDs or values: the control plane is upgraded by helm *)
(* and becomes current or broken; a broken one is not touched again; pods  *)
(* of the data plane are restarted one at a time and only once the control *)
(* plane is current; and success is reported only when all of it is done.  *)
(***************************************************************************)
CONSTANT Pods

VARIABLES
  cp,       \* control plane: "other" version, "upgrading", "current" or "broken"
  stale,    \* pods that still run the revision of before the upgrade
  restart,  \* whether stale pods are to be restarted
  outcome   \* of the Job: "running", "succeeded" or "failed"

vars == <<cp, stale, restart, outcome>>

Init ==
  /\ cp \in {"other", "upgrading", "current", "broken"}
  /\ stale \in SUBSET Pods
  /\ restart \in BOOLEAN
  /\ outcome = "running"

(* A helm upgrade begins: from a release that is deployed, at any version. *)
Begin ==
  /\ outcome = "running"
  /\ cp \in {"other", "current"}
  /\ cp' = "upgrading"
  /\ UNCHANGED <<stale, restart, outcome>>

(* The new manifests take the io-engine away together with its pods. *)
Retire ==
  /\ outcome = "running"
  /\ cp = "upgrading"
  /\ stale' = {}
  /\ UNCHANGED <<cp, restart, outcome>>

End ==
  /\ outcome = "running"
  /\ cp = "upgrading"
  /\ \/ cp' = "current" /\ stale' \in {stale, {}}
     \/ cp' = "broken" /\ stale' = stale
  /\ UNCHANGED <<restart, outcome>>

RestartOne(p) ==
  /\ outcome = "running"
  /\ cp = "current"
  /\ restart
  /\ p \in stale
  /\ stale' = stale \ {p}
  /\ UNCHANGED <<cp, restart, outcome>>

Succeed ==
  /\ outcome = "running"
  /\ cp = "current"
  /\ restart => stale = {}
  /\ outcome' = "succeeded"
  /\ UNCHANGED <<cp, stale, restart>>

Fail ==
  /\ outcome = "running"
  /\ outcome' = "failed"
  /\ UNCHANGED <<cp, stale, restart>>

Next ==
  \/ Begin \/ Retire \/ End \/ (\E p \in Pods : RestartOne(p))
  \/ Succeed \/ Fail

Spec == Init /\ [][Next]_vars

=============================================================================
