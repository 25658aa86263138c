---------------------------- MODULE PodRevisions ----------------------------
(***************************************************************************)
(* Pod template hashes, as the workloads' status and the revision label of *)
(* the pods carry them, and the sets the fields of the resources range     *)
(* over (named, so that proofs can reason about records without unfolding  *)
(* them).                                                                  *)
(***************************************************************************)
EXTENDS Integers

CONSTANTS
  Revisions,   \* pod template hashes
  NoRevision   \* the empty string where a hash is expected

ASSUME RevisionAssumption == NoRevision \notin Revisions

RevisionsOrNone == Revisions \cup {NoRevision}
Flags == BOOLEAN
Counts == Nat
Indexes == Int
=============================================================================
