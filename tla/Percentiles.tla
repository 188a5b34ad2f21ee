---------------------------- MODULE Percentiles ----------------------------
(***************************************************************************)
(* The percentile that metrics/latency.rs computes and that every module   *)
(* of report/ repeats.                                                     *)
(***************************************************************************)
EXTENDS Naturals, FiniteSets

\* Nearest rank: of the n sorted values of a function, the one at position
\* floor(p n / 100), the last one at most; 0 if there is none.
Percentile(value, p) ==
  LET n == Cardinality(DOMAIN value)
      rank == (p * n) \div 100
      at == IF rank < n THEN rank ELSE n - 1
      Below(v) == Cardinality({k \in DOMAIN value : value[k] < v})
      UpTo(v) == Cardinality({k \in DOMAIN value : value[k] <= v})
  IN IF n = 0 THEN 0
     ELSE CHOOSE v \in {value[k] : k \in DOMAIN value} : Below(v) <= at /\ at < UpTo(v)

Quantiles(value) ==
  [p50 |-> Percentile(value, 50), p95 |-> Percentile(value, 95), p99 |-> Percentile(value, 99)]
=============================================================================
