-------------------------------- MODULE Setup --------------------------------
(***************************************************************************)
(* A run's accounts, from the scenario to the end of the load window:      *)
(* validate it, resolve the hot wallet, warm up, provision, fund           *)
(* (runner/lifecycle.rs), dispatch.  Scenario, Provisioner, Funding and    *)
(* Pacing take turns by the stage they leave each other.                   *)
(***************************************************************************)
EXTENDS Pacing

vars == <<stage, cause, faults, scenario, provVars, fundVars, paceVars>>

Init ==
  /\ stage = "validate" /\ cause = "ready" /\ faults = 0
  /\ scenario \in Scenarios
  /\ ProvInit /\ FundInit /\ PaceInit

Validating == Validate /\ UNCHANGED <<provVars, fundVars, paceVars>>
Provisioning == ProvNext /\ UNCHANGED <<scenario, fundVars, paceVars>>
FundingSteps == FundNext /\ UNCHANGED <<scenario, provVars, paceVars>>
Dispatching == PaceNext /\ UNCHANGED <<scenario, provVars, fundVars>>
Ended == stage \in {"drain", "failed"}

Next == Validating \/ Provisioning \/ FundingSteps \/ Dispatching

Spec == Init /\ [][Next]_vars

\* Setup awaits calls that time out, and spawned tasks are polled.
FairSpec == Spec /\ WF_vars(Next)

-----------------------------------------------------------------------------
\* Accounts of earlier runs stay in the wallet under any name, and creations of this run may
\* fail half-way; yet when provision is done, each account of the population has a Zallet
\* account that this run created and that no other account, the hot wallet included, has.
\* Of the hot wallet itself, however often its resolution is repeated, there is one account,
\* or as many as there were.
OwnAccounts ==
  /\ (\A a \in Population : task[a] = "read") =>
       /\ \A a, b \in Population : a # b => entry[a] # entry[b]
       /\ \A a \in Population : /\ entry[a] > Len(Wallet0)
                                /\ entry[a] # hot
                                /\ wallet[entry[a]] = a
  /\ Cardinality(Named(HotName))
       <= MaxOf(1, Cardinality({u \in DOMAIN Wallet0 : Wallet0[u] = HotName}))

\* "One block is mined per retry so waiting always converges" (funding.rs:402).  With
\* shielded coinbase and no call gone wrong, funding is given up only because the top-up
\* reached its limit: what ensure_funded counted can be sent, though it leaves out the fees
\* and though each round's change has to wait for its confirmations again.
WaitingConverges ==
  (stage = "failed" /\ faults = 0 /\ minerPool = "shielded" /\ given = Nobody
    /\ cause \notin {"validate", "populate", "balance"})
    => cause \in {"age", "check"}

\* No sink is paid twice for one round, be it by an operation whose request or status got
\* lost: the fan-out never repeats a send that the wallet may have taken.
PaidOnce ==
  LET sent == {t.round : t \in {u \in mempool : u.round > 0}}
  IN /\ \A x, y \in paid : x.round = y.round => x = y
     /\ \A x \in paid : x.round \notin sent

\* When the load phase begins, every active account has received, Anchor deep, one
\* transparent output per round, and the address that any flow names as the sender was paid.
SinksFunded ==
  (stage = "ready" /\ active # {}) =>
    LET deep == {x.round : x \in {y \in paid : Deep(y.at, Anchor)}}
        reached == UNION {Recipients(r) : r \in deep}
    IN /\ 1 .. Plan.outputs \subseteq deep
       /\ \A a \in active, flow \in Flows : AddressOf(a, flow, "sender") \in reached

\* The load phase finds its sinks funded, with one output together for each intent the run
\* issues - its shape may be any but the burst, of which the plan knows nothing, its rate any
\* that the scheduler's floor does not raise.  Nor is a scenario that was valid refused now.
FundedForLoad ==
  /\ SinksFunded
  /\ (stage \in {"load", "drain"} /\ shape.kind # "burst" /\ AboveFloor(Times(1, 1))) =>
       dispatched <= Plan.outputs * Cardinality(active)
  /\ ~(stage = "failed" /\ cause = "ready")

\* The loop is never ahead of the shape's curve by more than one intent, although each wait
\* is computed from the rate at its beginning (where the floor raises no rate); what the
\* constant shapes have not dispatched when the window closes is what the loop was late; and
\* it outlives the window by one wait at most, none of them that of a rate before the first
\* dispatch.
PacedByTheShape ==
  stage \in {"load", "drain"} =>
    /\ (\A tps \in Rates : AboveFloor(tps)) => Unit * dispatched <= AskedFor + Unit
    /\ now - lag < scenario.duration + LongestWait
    /\ (now >= scenario.duration /\ shape.kind \in {"steady", "mixed"}
          /\ Cardinality(active) >= 2) =>
         dispatched * Period(Times(1, 1)) + lag >= scenario.duration

\* Setup ends, ready or failed, and so does the load window.
SetupEnds == <>Ended
=============================================================================
