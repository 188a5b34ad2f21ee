--------------------------- MODULE MCRunLifecycle ---------------------------
(***************************************************************************)
(* Instances of RunLifecycle for TLC.                                      *)
(***************************************************************************)
EXTENDS RunLifecycle

CONSTANTS main, miner, watcher, i1, i2

\* Two services and a one-shot helper of this run, and another environment's Zebra.
HostContainers ==
  {<<"z3-sim-a", "zallet">>, <<"z3-sim-a", "zebra">>, <<"z3-sim-a", "cookie-permissions">>,
   <<"z3-sim-b", "zebra">>}
=============================================================================
