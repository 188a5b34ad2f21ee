---------------------------- MODULE MCLoadPhase ----------------------------
(***************************************************************************)
(* Instances of LoadPhase for TLC.                                         *)
(***************************************************************************)
EXTENDS LoadPhase, TLC

CONSTANTS i1, i2, i3

\* Intents differ only by name: sound for the safety runs.
Symmetry == Permutations(Intents)
=============================================================================
