----------------------------- MODULE Processes ------------------------------
(***************************************************************************)
(* What the modules about calls of processes have in common.               *)
(***************************************************************************)
CONSTANTS
  Proc,  \* process slots
  None   \* NULL
=============================================================================
