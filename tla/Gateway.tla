------------------------------ MODULE Gateway ------------------------------
(***************************************************************************)
(* What the modules about channels have in common.                         *)
(***************************************************************************)
CONSTANTS
  Channels,
  NoChannel

=============================================================================
