---------------------------- MODULE SystemHealth ----------------------------
(***************************************************************************)
(* The figures of a run that come from its metric samples                  *)
(* (report/system_health.rs and the metric part of metrics/summary.rs).  A *)
(* sample is [run, name, value, process].                                  *)
(***************************************************************************)
EXTENDS Percentiles, Sequences

Named(samples, name) == {k \in DOMAIN samples : samples[k].name = name}

ValuesOf(samples, S) == [k \in S |-> samples[k].value]

\* The latest sample of the name, none or one.
Latest(samples, name) ==
  {samples[k].value : k \in {j \in Named(samples, name) : \A i \in Named(samples, name) : i <= j}}

Highest(V) == {v \in V : \A w \in V : w <= v}

\* The highest sample of the name, none or one.
PeakOf(samples, S) == Highest({samples[k].value : k \in S})

Saturations(samples) ==
  Cardinality({k \in Named(samples, "mempool_saturated") : samples[k].value = 1})

Processes(samples) ==
  {samples[k].process : k \in Named(samples, "process_cpu_percent")
                                \cup Named(samples, "process_memory_mb")}

Health(samples) ==
  LET Times(name) == ValuesOf(samples, Named(samples, name))
      OfProcess(name, p) == {k \in Named(samples, name) : samples[k].process = p}
  IN [dispatchRate |-> Latest(samples, "scheduled_dispatch_rate"),
      throughput |-> Latest(samples, "confirmed_tx_throughput"),
      mempoolTxs |-> PeakOf(samples, Named(samples, "mempool_tx_count")),
      mempoolBytes |-> PeakOf(samples, Named(samples, "mempool_bytes")),
      saturations |-> Saturations(samples),
      proving |-> Quantiles(Times("shielded_proving_time_ms")),
      operation |-> Quantiles(Times("wallet_operation_time_ms")),
      processes |-> [p \in Processes(samples) |->
                       [cpu |-> PeakOf(samples, OfProcess("process_cpu_percent", p)),
                        memory |-> PeakOf(samples, OfProcess("process_memory_mb", p))]]]
=============================================================================
