--------------------------- MODULE FirmwareTrial ---------------------------
(***************************************************************************)
(* What a firmware update with rollback promises: a new image gets one     *)
(* boot to prove itself.  Unless it is confirmed in that boot, the next    *)
(* one is back in the image trusted before it.                             *)
(***************************************************************************)
CONSTANTS Images, None

VARIABLES
  trusted,      \* the image to fall back on
  running,
  trial,        \* running an image that is still to be confirmed
  staged        \* the image the next boot tries, or None

vars == <<trusted, running, trial, staged>>

Init ==
  /\ trusted \in Images
  /\ running = trusted
  /\ trial = FALSE
  /\ staged = None

(* A download can replace, or spoil, what an earlier one has staged. *)
Stage ==
  /\ ~trial
  /\ staged' \in Images \cup {None}
  /\ UNCHANGED <<trusted, running, trial>>

BootTrusted ==
  /\ running' = trusted
  /\ trial' = FALSE
  /\ staged' = None
  /\ UNCHANGED trusted

BootStaged ==
  /\ staged # None
  /\ running' = staged
  /\ trial' = TRUE
  /\ staged' = None
  /\ UNCHANGED trusted

Confirm ==
  /\ trial
  /\ trusted' = running
  /\ trial' = FALSE
  /\ UNCHANGED <<running, staged>>

Spec == Init /\ [][Stage \/ BootTrusted \/ BootStaged \/ Confirm]_vars
=============================================================================
