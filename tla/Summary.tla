------------------------------- MODULE Summary -------------------------------
(***************************************************************************)
(* The summary of one run (metrics/summary.rs), made from its three files  *)
(* at the end of the run.  Unlike the report it shows every attempt.       *)
(***************************************************************************)
EXTENDS CallMatrix, SystemHealth, Outcomes

\* Mutant: what is not setup is workload.
RestIsWorkload(phase) == IF phase \in Setup THEN "setup" ELSE "workload"

\* The table a call belongs to.
Table(phase) ==
  IF phase \in Workload THEN "workload" ELSE IF phase \in Setup THEN "setup" ELSE "unknown"

InTable(calls, t) == {k \in DOMAIN calls : Table(calls[k].phase) = t}

\* accumulate_rpc_call and render_rpc_agg_table: a row for each method and backend, with
\* the failures that have a code, by code.
Rows(calls, t) ==
  LET Key(k) == <<calls[k].method, calls[k].backend>>
  IN [key \in {Key(k) : k \in InTable(calls, t)} |->
        LET S == {k \in InTable(calls, t) : Key(k) = key}
        IN [calls |-> Cardinality(S), errors |-> Cardinality({k \in S : ~calls[k].ok}),
            latency |-> Quantiles(Latencies(calls, S)),
            codes |-> {calls[k].code : k \in S} \ {"none"}]]

\* Timed out intents by the wait that ended them.
Stages(records) ==
  LET stage == [k \in Having(records, "timed_out") |->
                  TimeoutStage(records[k].context, records[k].flow)]
  IN [s \in {stage[k] : k \in DOMAIN stage} |->
        Cardinality({k \in DOMAIN stage : stage[k] = s})]

\* Timed out intents count as failed ones here; a sample that is missing counts 0.
Totals(samples) ==
  LET Total(name) == IF Named(samples, name) = {} THEN 0
                     ELSE CHOOSE v \in Latest(samples, name) : TRUE
      Times(name) == Quantiles(ValuesOf(samples, Named(samples, name)))
  IN [confirmed |-> Total("confirmed_txs_total"), failed |-> Total("failed_txs_total"),
      peakMempool |-> Highest({0} \cup {samples[k].value : k \in Named(samples, "mempool_tx_count")}),
      saturations |-> Saturations(samples),
      proving |-> Times("shielded_proving_time_ms"),
      operation |-> Times("wallet_operation_time_ms")]

ByFlow(records) == [f \in FlowsOf(records) |-> Tally(OfFlow(records, f))]

\* The errors listed at the end: a failure without a code is none of them.
Notable(scope, rows) ==
  UNION {{<<scope, key[1], code>> : code \in rows[key].codes} : key \in DOMAIN rows}

\* generate_summary.  Its totals are metric samples, its outcomes by flow the intent records.
SummaryOf(calls, samples, records) ==
  LET totals == Totals(samples)
      workload == Rows(calls, "workload")
      setup == Rows(calls, "setup")
  IN [attempted |-> totals.confirmed + totals.failed, totals |-> totals,
      workload |-> workload, setup |-> setup,
      unknown |-> Cardinality(InTable(calls, "unknown")),
      flows |-> ByFlow(records), stages |-> Stages(records),
      errors |-> Notable("workload", workload) \cup Notable("setup", setup)]
=============================================================================
