-------------------------------- MODULE Pacing --------------------------------
(***************************************************************************)
(* When the load phase dispatches: the load shape and the scheduler        *)
(* (runner/scheduler.rs), the dispatch loop in its own time (load_phase in *)
(* runner/mod.rs), and what it takes from the intent generator.  LoadPhase *)
(* has what becomes of the intents.                                        *)
(***************************************************************************)
EXTENDS Funding

CONSTANTS Shapes,      \* what build_load_shape may be asked for
          FirstShare,  \* the first interval of a ramp is that of 1/FirstShare of its rate
          Slowest,     \* the period of the floor of 0.001 TPS
          MaxLag       \* bound: how late the loop wakes up, in all

LoadShape == [kind : {"steady", "mixed"}] \cup [kind : {"ramp"}, ramp : Nat]
               \cup [kind : {"burst"}, pre : Nat, burst : Nat, multiplier : Int]

ASSUME PacingAssumption ==
  {FirstShare, Slowest} \subseteq Nat \ {0} /\ MaxLag \in Nat /\ Shapes \subseteq LoadShape

VARIABLES shape, now, lag, dispatched

paceVars == <<shape, now, lag, dispatched>>

NoShape == [kind |-> "none"]
PaceInit == shape = NoShape /\ now = 0 /\ lag = 0 /\ dispatched = 0

\* build_load_shape; Multipliers are in tenths, too.
Accepted(sh) == sh.kind = "burst" => sh.multiplier > 0

-----------------------------------------------------------------------------
\* The scheduler.  A rate is the scenario's, times a fraction.

Times(n, d) == [n |-> n * scenario.rate, d |-> d]

InBurst(t) == t >= shape.pre /\ t < shape.pre + shape.burst

InstantaneousTps(t) ==
  IF shape.kind = "ramp" /\ t < shape.ramp THEN Times(t, shape.ramp)
  ELSE IF shape.kind = "burst" /\ InBurst(t) THEN Times(shape.multiplier, Whole)
  ELSE Times(1, 1)

InitialTps == IF shape.kind = "ramp" THEN Times(1, FirstShare) ELSE InstantaneousTps(0)

Period(tps) == IF tps.n * Slowest <= Second * tps.d THEN Slowest
               ELSE CeilDiv(Second * tps.d, tps.n)

\* Mutant: the period is computed anew for the first tick as well.
PeriodFromElapsed(first) == Period(InstantaneousTps(now))

\* dispatch_tick_period, and the primed ticker for the first tick.
DispatchTickPeriod(first) == Period(IF first THEN InitialTps ELSE InstantaneousTps(now))

-----------------------------------------------------------------------------
\* The generator draws two different accounts, or nothing.
EffectiveFlows(sh) == IF sh.kind = "mixed" THEN MixedFlowConfig ELSE scenario.flows

NextIntents ==
  {i \in [sender : active, recipient : active, flow : Flows,
          amount : scenario.min .. scenario.max] :
     i.sender # i.recipient /\ EffectiveFlows(shape)[i.flow] > 0}

\* The loop
BeginLoad ==
  /\ At("ready")
  /\ shape' \in {sh \in Shapes : Accepted(sh)}
  /\ IF Refused(EffectiveFlows(shape')) THEN GiveUp ELSE Goto("load")
  /\ NoFault /\ UNCHANGED <<now, lag, dispatched>>

\* One iteration: the window is still open when it begins, the tick comes a period later,
\* the loop may notice it late, and so is the next one.
Tick ==
  /\ At("load") /\ now < scenario.duration
  /\ \E late \in 0 .. MaxLag - lag :
       now' = now + DispatchTickPeriod(now = 0) + late /\ lag' = lag + late
  /\ dispatched' = IF NextIntents = {} THEN dispatched ELSE dispatched + 1
  /\ Stay /\ NoFault /\ UNCHANGED shape

WindowCloses ==
  /\ At("load") /\ now >= scenario.duration
  /\ Goto("drain") /\ NoFault /\ UNCHANGED paceVars

\* The cancellation is looked at where the window is.
LoadCancelled ==
  /\ At("load") /\ now < scenario.duration
  /\ Goto("drain") /\ NoFault /\ UNCHANGED paceVars

PaceNext == BeginLoad \/ Tick \/ WindowCloses \/ LoadCancelled

-----------------------------------------------------------------------------
\* Twice the intents that the shape asks for up to now, times Second * Whole * ramp: the
\* area under its curve.
Overlap(lo, hi) == MaxOf(0, (IF now < hi THEN now ELSE hi) - lo)
Unit == 2 * Second * Whole * (IF shape.kind = "ramp" THEN MaxOf(shape.ramp, 1) ELSE 1)
AskedFor ==
  IF shape.kind = "ramp" /\ shape.ramp > 0
  THEN LET rising == Overlap(0, shape.ramp)
       IN scenario.rate * Whole * (rising * rising + 2 * shape.ramp * (now - rising))
  ELSE IF shape.kind = "burst"
  THEN LET spike == Overlap(shape.pre, shape.pre + shape.burst)
       IN 2 * scenario.rate * (Whole * (now - spike) + shape.multiplier * spike)
  ELSE 2 * scenario.rate * Whole * now

\* The rates a wait may begin at, whether the floor raises none of them, and the longest wait.
Rates ==
  {InitialTps} \cup {InstantaneousTps(t) : t \in Period(InitialTps) .. scenario.duration}
AboveFloor(tps) == tps.n * Slowest >= Second * tps.d
LongestWait == Max({Period(tps) : tps \in Rates})
===============================================================================
