--------------------------- MODULE ServedArtifact ---------------------------
(***************************************************************************)
(* What an A/B update promises about one artifact (the Bloom filter or the *)
(* exact domain list), whatever fails and whenever the power goes: the     *)
(* stored artifact is only ever replaced by a complete published version,  *)
(* and what is served only ever changes to the stored artifact, to an      *)
(* extent to which it can be loaded, or to a fallback.                     *)
(***************************************************************************)
CONSTANTS
  Versions,   \* the complete artifacts a publisher may offer
  Extents     \* how much of one a load may bring into service

VARIABLES
  stored,     \* what a restart would serve; not a version when there is none yet
  fallbacks,  \* what may be served instead
  served      \* what answers queries now

Usable ==
  fallbacks \cup {[version |-> v, extent |-> e] : v \in {stored} \cap Versions, e \in Extents}

Init == served \in Usable

Replace ==
  /\ stored' \in Versions
  /\ UNCHANGED <<fallbacks, served>>

Load ==
  /\ served' \in Usable
  /\ UNCHANGED <<stored, fallbacks>>

Spec == Init /\ [][Replace \/ Load]_<<stored, fallbacks, served>>
=============================================================================
