---------------------------- MODULE MCQueryStats ----------------------------
(* QueryStats for TLC. *)
EXTENDS QueryStats, TLC

AnyEntry == Permutations(Entries)
=============================================================================
