-------------------------- MODULE MCRecoveryHelper --------------------------
(***************************************************************************)
(* The helper's two iOS actions, and the acquisition of another source.    *)
(***************************************************************************)
EXTENDS RecoveryHelper

AllActions == {"preflight", "recover", "acquire"}
=============================================================================
