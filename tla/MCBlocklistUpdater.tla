------------------------- MODULE MCBlocklistUpdater -------------------------
(* BlocklistUpdater for TLC. *)
EXTENDS BlocklistUpdater, TLC

AnyVersion == Permutations(Versions)
=============================================================================
