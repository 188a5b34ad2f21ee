---------------------------- MODULE MCResetState ----------------------------
(***************************************************************************)
(* ResetState for TLC.                                                     *)
(***************************************************************************)
EXTENDS ResetState, TLC
=============================================================================
