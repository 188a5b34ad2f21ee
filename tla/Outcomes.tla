------------------------------ MODULE Outcomes ------------------------------
(***************************************************************************)
(* Outcomes of intents: their records, the verdict on a run                *)
(* (scenarios/runner/result.rs) and what the report and the summary count  *)
(* of them.  An error or a timeout's context is the part of its text that  *)
(* the code looks at.                                                      *)
(***************************************************************************)
EXTENDS Naturals, Sequences, FiniteSets

CONSTANTS MinConfirmed, MaxTerminalFailures, MaxTimeouts,   \* the scenario's expectations
          AllowedErrorClasses,
          HighPct, MediumPct,             \* HIGH_RATE, MEDIUM_RATE
          MinDisparityPct, HighDisparityPct   \* MIN_DISPARITY_GAP, HIGH_DISPARITY_GAP

ASSUME ExpectationsAssumption == {MinConfirmed, MaxTerminalFailures, MaxTimeouts} \subseteq Nat

\* FlowType::is_shielded
IsShielded(flow) == flow # "TToT"

\* IntentFailureClass::classify
Classify(error) ==
  IF error = "Insufficient balance" THEN "insufficient_balance"
  ELSE IF error \in {"already spent", "bad-txns-inputs-missingorspent",
                     "duplicate nullifier", "double-spend"} THEN "mempool_conflict"
  ELSE "other"

\* IntentRecord::from_outcome.  An outcome is [flow, kind, text].
Record(o, run) ==
  [run |-> run, flow |-> o.flow,
   outcome |-> CASE o.kind = "ok" -> "confirmed"
                 [] o.kind = "failed" -> "failed"
                 [] o.kind = "timedOut" -> "timed_out",
   class |-> CASE o.kind = "ok" -> "none"
               [] o.kind = "failed" -> Classify(o.text)
               [] o.kind = "timedOut" -> "timeout",
   context |-> IF o.kind = "timedOut" THEN o.text ELSE "none"]

\* A future that panicked: its flow is not known any more, and stands as TToT.
Panicked == [flow |-> "TToT", kind |-> "failed", text |-> "task panicked"]

Having(records, outcome) == {k \in DOMAIN records : records[k].outcome = outcome}

\* terminal_failures_by_class; of each class, the records.
TerminalFailures(records) == {k \in Having(records, "failed") : records[k].class # "none"}

\* The counts of the load phase.
Stats(outcomes) ==
  LET Kind(kind) == Cardinality({k \in DOMAIN outcomes : outcomes[k].kind = kind})
  IN [attempted |-> Len(outcomes), confirmed |-> Kind("ok"), failed |-> Kind("failed"),
      timedOut |-> Kind("timedOut")]

\* RunStats::evaluate: the expectations that are violated; none means the run passed.
Evaluate(stats, records) ==
  LET counted == {k \in TerminalFailures(records) :
                    records[k].class \notin AllowedErrorClasses}
  IN (IF stats.confirmed < MinConfirmed THEN {"confirmed"} ELSE {})
       \cup (IF Cardinality(counted) > MaxTerminalFailures THEN {"terminal failures"} ELSE {})
       \cup (IF stats.timedOut > MaxTimeouts THEN {"timed out"} ELSE {})

-----------------------------------------------------------------------------
(* Findings about intents. *)

SeverityOf(part, whole) ==
  IF 100 * part >= HighPct * whole THEN "High"
  ELSE IF 100 * part >= MediumPct * whole THEN "Medium" ELSE "Low"

\* The wait that a timeout's context names.
TimeoutStage(context, flow) ==
  CASE context = "operation" /\ IsShielded(flow) -> "proving"
    [] context = "operation" /\ ~IsShielded(flow) -> "operation"
    [] context = "tx" -> "confirmation"
    [] OTHER -> "other"

\* One for each flow and stage, rated against all intents of the flow.
TimeoutFindings(records) ==
  LET timedOut == Having(records, "timed_out")
      Key(k) == <<records[k].flow, TimeoutStage(records[k].context, records[k].flow)>>
      OfFlow(f) == {k \in DOMAIN records : records[k].flow = f}
  IN {[category |-> "Timeout", about |-> key[1], stage |-> key[2],
       severity |-> SeverityOf(Cardinality({k \in timedOut : Key(k) = key}),
                               Cardinality(OfFlow(key[1]))),
       runs |-> {records[k].run : k \in {j \in timedOut : Key(j) = key}}]
        : key \in {Key(k) : k \in timedOut}}

\* A flow whose share of confirmed intents trails that of all intents.
DisparityFindings(records) ==
  LET flows == {records[k].flow : k \in DOMAIN records}
      Total(f) == Cardinality({k \in DOMAIN records : records[k].flow = f})
      Confirmed(f) == Cardinality({k \in Having(records, "confirmed") : records[k].flow = f})
      all == Len(records)
      ok == Cardinality(Having(records, "confirmed"))
      \* overall rate - rate of the flow, times all * Total(f)
      Ahead(f) == 100 * ok * Total(f)
      Behind(f, pct) == 100 * Confirmed(f) * all + pct * all * Total(f)
  IN IF Cardinality(flows) < 2 THEN {}
     ELSE {[category |-> "FlowTypeDisparity", about |-> f,
            severity |-> IF Ahead(f) >= Behind(f, HighDisparityPct) THEN "High" ELSE "Medium"]
             : f \in {g \in flows : Ahead(g) > Behind(g, MinDisparityPct)}}

-----------------------------------------------------------------------------
(* What the report shows of them. *)

Tally(records) ==
  [attempted |-> Cardinality(DOMAIN records),
   confirmed |-> Cardinality(Having(records, "confirmed")),
   failed |-> Cardinality(Having(records, "failed")),
   timedOut |-> Cardinality(Having(records, "timed_out"))]

\* Some of the records, or of the lines of another file: what is left out leaves a gap.
OfRun(records, run) == [k \in {j \in DOMAIN records : records[j].run = run} |-> records[k]]
OfFlow(records, flow) == [k \in {j \in DOMAIN records : records[j].flow = flow} |-> records[k]]
FlowsOf(records) == {records[k].flow : k \in DOMAIN records}

LoadResults(records, runs) == [r \in runs |-> Tally(OfRun(records, r))]

\* Of the runs with more than one flow only.
FlowBreakdown(records, runs) ==
  [r \in {q \in runs : Cardinality(FlowsOf(OfRun(records, q))) >= 2} |->
     [f \in FlowsOf(OfRun(records, r)) |-> Tally(OfFlow(OfRun(records, r), f))]]
=============================================================================
