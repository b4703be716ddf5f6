---------------------------- MODULE MCFwUpdater ----------------------------
(* FwUpdater for TLC. *)
EXTENDS FwUpdater, TLC

Alike == Permutations(Working) \cup Permutations(Tasks)
=============================================================================
