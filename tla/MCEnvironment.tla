--------------------------- MODULE MCEnvironment ---------------------------
(***************************************************************************)
(* Instances of Environment for TLC.                                       *)
(***************************************************************************)
EXTENDS Environment, TLC

CONSTANTS p1, p2, p3, e1, e2, e3

\* Ids that share their third byte, and so their subnets; two of them share their ports too.
Bytes == [e \in Envs |-> 255]
Offsets == [e \in Envs |-> IF e = e1 THEN 0 ELSE PortSpan - 1]

\* Those two are interchangeable.
EnvSymmetry == Permutations({e2, e3})
=============================================================================
