------------------------------- MODULE Scenario -------------------------------
(***************************************************************************)
(* The scenario of a run: its fields (data_model/mod.rs), what             *)
(* validate_scenario asks of them (runner/config.rs) and what the          *)
(* generators ask once more (synthetic/generators.rs).                     *)
(*                                                                         *)
(* Fractions and weights are in tenths, the rate of the load in intents    *)
(* per Second; time is in units of a Second's part.                        *)
(***************************************************************************)
EXTENDS SetupStage, Integers, FiniteSetsExt

CONSTANTS Scenarios, Second

Flows == {"TToT", "TToZ", "ZToT", "ZToZ"}
Profiles == {"low", "medium", "high"}
Whole == 10

ScenarioConfig ==
  [accounts : Nat, fraction : Int, duration : Nat, rate : Int, flows : [Flows -> Int],
   profiles : [Profiles -> Int], min : Nat, max : Nat, confirmations : Nat, warmup : Nat]

ASSUME ScenarioAssumption == Scenarios \subseteq ScenarioConfig /\ Second \in Nat \ {0}

VARIABLE scenario

Total(weights) == MapThenSumSet(LAMBDA w : weights[w], DOMAIN weights)

\* validate_scenario collects every violation.  It looks at the sum of the profiles, and at
\* the flows one by one.
Violations(s) ==
  {v \in {"load_target_tps", "load_duration_seconds", "accounts_count",
          "accounts_active_fraction", "flows", "activity_profiles",
          "confirmations_deposit_required", "amounts"} :
     \/ v = "load_target_tps" /\ s.rate <= 0
     \/ v = "load_duration_seconds" /\ s.duration = 0
     \/ v = "accounts_count" /\ s.accounts < 1
     \/ v = "accounts_active_fraction" /\ \/ s.fraction \notin 1 .. Whole
                                          \/ (s.accounts * s.fraction) \div Whole < 2
     \/ v = "flows" /\ \/ Total(s.flows) # Whole
                       \/ \E f \in Flows : s.flows[f] \notin 0 .. Whole
     \/ v = "activity_profiles" /\ Total(s.profiles) # Whole
     \/ v = "confirmations_deposit_required" /\ s.confirmations < 1
     \/ v = "amounts" /\ s.min > s.max}

Validate ==
  /\ At("validate")
  /\ IF Violations(scenario) = {} THEN Goto("resolve") ELSE GiveUp
  /\ NoFault /\ UNCHANGED scenario

\* What WeightedIndex refuses.
Refused(weights) == Total(weights) = 0 \/ \E w \in DOMAIN weights : weights[w] < 0

MixedFlowConfig == [f \in Flows |-> IF f \in {"TToZ", "ZToZ"} THEN Whole \div 2 ELSE 0]

CeilDiv(n, d) == (n + d - 1) \div d

\* tps x duration
ExpectedIntents(s) == CeilDiv(s.rate * s.duration, Second)
===============================================================================
