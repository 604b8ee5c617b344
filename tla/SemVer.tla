------------------------------- MODULE SemVer -------------------------------
(***************************************************************************)
(* The part of semver::Version that the upgrade code uses: the total order *)
(* on versions, and the version constants the code compares against        *)
(* (openebs-upgrade/src/constants.rs).                                     *)
(*                                                                         *)
(* A version is a tuple <<major, minor, patch, pre>>. The pre-release part *)
(* is abstracted to its rank: Stable (0) stands for "no pre-release part", *)
(* which semver orders after every pre-release of the same triple.         *)
(***************************************************************************)
EXTENDS Naturals

Stable == 0

Version == Nat \X Nat \X Nat \X Nat

V(major, minor, patch) == <<major, minor, patch, Stable>>

(* Whether a version is a pre-release, like 4.7.0-develop. *)
IsStable(v) == v[4] = Stable

PreLt(p, q) == p # Stable /\ (q = Stable \/ p < q)

(* a.lt(&b) of semver::Version. *)
Lt(a, b) ==
  \/ a[1] < b[1]
  \/ a[1] = b[1] /\ a[2] < b[2]
  \/ a[1] = b[1] /\ a[2] = b[2] /\ a[3] < b[3]
  \/ a[1] = b[1] /\ a[2] = b[2] /\ a[3] = b[3] /\ PreLt(a[4], b[4])

(* a.le(&b) of semver::Version. *)
Le(a, b) == ~Lt(b, a)

UMBRELLA_CHART_VERSION_LOWERBOUND == V(3, 0, 0)
PARTIAL_REBUILD_DISABLE_EXTENTS == <<V(3, 7, 0), V(3, 10, 0)>>
FOUR_DOT_O == V(4, 0, 0)
THREE_DOT_FOUR_DOT_ONE == V(3, 4, 1)
FOUR_DOT_THREE == V(4, 3, 0)

=============================================================================
