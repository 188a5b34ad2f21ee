----------------------------- MODULE SetupStage -----------------------------
(***************************************************************************)
(* What the steps of setup (runner/lifecycle.rs) share: the stage the main *)
(* task is in, the reason it gave up, and the calls that went wrong.       *)
(***************************************************************************)
EXTENDS Naturals

CONSTANT MaxFaults   \* bound: calls that are lost, refused or answered late

ASSUME FaultsAssumption == MaxFaults \in Nat

VARIABLES stage, cause, faults

At(s) == stage = s
Goto(s) == stage' = s /\ UNCHANGED cause
Stay == UNCHANGED <<stage, cause>>
\* An error ends setup; `cause` remembers the stage it came from.
GiveUp == stage' = "failed" /\ cause' = stage
Fault == faults < MaxFaults /\ faults' = faults + 1
NoFault == UNCHANGED faults
=============================================================================
