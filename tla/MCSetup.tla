------------------------------- MODULE MCSetup -------------------------------
(***************************************************************************)
(* Instances of Setup for TLC.                                             *)
(***************************************************************************)
EXTENDS Setup, TLC

CONSTANTS a1, a2, a3, hotWallet

Drawn == <<a1, a2, a3>>

\* An earlier run left an account of the same name, and no hot wallet.
Leftover == <<a1>>

\* No UUID given, that of the leftover, and no account's.
Uuids == {Nobody, 1, 9}

Basic ==
  [accounts |-> 2, fraction |-> 10, duration |-> 4, rate |-> 1,
   flows |-> [f \in Flows |-> IF f \in {"TToT", "ZToT"} THEN 5 ELSE 0],
   profiles |-> [low |-> 5, medium |-> 3, high |-> 2],
   min |-> 1, max |-> 1, confirmations |-> 1, warmup |-> 3]

\* One output per account and two, of one amount and of a range; too few blocks to be spent
\* after warmup; more than the top-up may mine; accounts drawn as inactive; profiles that
\* only the generator refuses; and scenarios that are not valid.
SomeScenarios ==
  {Basic,
   [Basic EXCEPT !.duration = 5, !.min = 0, !.max = 2],
   [Basic EXCEPT !.warmup = 1],
   [Basic EXCEPT !.duration = 12, !.min = 2, !.max = 4],
   [Basic EXCEPT !.accounts = 3, !.fraction = 7],
   [Basic EXCEPT !.profiles = [low |-> 9, medium |-> 2, high |-> -1]],
   [Basic EXCEPT !.accounts = 3, !.fraction = 6],
   [Basic EXCEPT !.flows = [f \in Flows |-> IF f = "TToT" THEN 11 ELSE 0]],
   [Basic EXCEPT !.min = 2]}

\* A ramp that is steep, one that outlasts the window, none at all; a burst and a lull.
SomeShapes ==
  {[kind |-> "steady"], [kind |-> "mixed"],
   [kind |-> "ramp", ramp |-> 4], [kind |-> "ramp", ramp |-> 9], [kind |-> "ramp", ramp |-> 0],
   [kind |-> "burst", pre |-> 2, burst |-> 2, multiplier |-> 20],
   [kind |-> "burst", pre |-> 0, burst |-> 3, multiplier |-> 5],
   [kind |-> "burst", pre |-> 0, burst |-> 3, multiplier |-> 0]}
==============================================================================
