----------------------------- MODULE MCSyncData -----------------------------
(* Instances of SyncData for TLC: how keys cover files, and symmetry.       *)
EXTENDS SyncData, TLC

CONSTANTS leaf, f1

\* One key whose rsync copies one file.
OneKey == (leaf :> {f1})

\* Call slots are interchangeable.
CallSymmetry == Permutations(Calls)
=============================================================================
