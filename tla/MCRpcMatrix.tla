---------------------------- MODULE MCRpcMatrix ----------------------------
(***************************************************************************)
(* Instances of RpcMatrix for TLC.                                         *)
(***************************************************************************)
EXTENDS RpcMatrix, MCExchange

\* A deposit of a young note, a transparent withdrawal, and a sweep of an account
\* that was never provisioned, which sends nothing.
OneLegged == i1 :> "ZToZ" @@ i2 :> "TToT" @@ i3 :> "ZToT"
OneLeggedPurses == c1 :> <<a1, "transparent">> @@ c2 :> <<a1, "shielded">> @@ c3 :> Hot

OneSweep == i1 :> "ZToT"
=============================================================================
