------------------------------ MODULE LoadCurve ------------------------------
(***************************************************************************)
(* The windowed views of the calls (report/load_curve.rs,                  *)
(* report/latency.rs): windows are anchored at the earliest request, and   *)
(* records come in the order in which the calls were answered.  Rates are  *)
(* compared by multiplying out.                                            *)
(***************************************************************************)
EXTENDS CallMatrix

CONSTANTS WindowSecs,               \* DEFAULT_WINDOW_SECS
          MinWindowCalls,           \* MIN_WINDOW_CALLS
          DegradationMultiple,      \* DEGRADATION_LATENCY_MULTIPLE
          HighDegradationMultiple,  \* DEGRADATION_HIGH_LATENCY_MULTIPLE
          DegradationErrorPct       \* DEGRADATION_ERROR_RATE, in per cent

ASSUME CurveAssumption ==
  /\ WindowSecs \in Nat \ {0} /\ MinWindowCalls \in Nat \ {0}
  /\ DegradationMultiple \in Nat /\ HighDegradationMultiple \in Nat
  /\ DegradationErrorPct \in Nat

Lowest(W) == CHOOSE w \in W : \A v \in W : w <= v

\* Mutant: the windows are anchored at the first record.
WindowFromFirst(calls, S, k) ==
  LET first == calls[Lowest(S)].at
  IN (IF calls[k].at < first THEN 0 ELSE calls[k].at - first) \div WindowSecs

WindowOf(calls, S, k) ==
  (calls[k].at - Lowest({calls[j].at : j \in S})) \div WindowSecs

Windows(calls, S) == {WindowOf(calls, S, k) : k \in S}

\* windowed_load_curve: all methods together.
Curve(calls, S) ==
  [w \in Windows(calls, S) |->
     LET W == {k \in S : WindowOf(calls, S, k) = w}
     IN [calls |-> Cardinality(W), errors |-> Cardinality({k \in W : ~calls[k].ok}),
         latency |-> Quantiles(Latencies(calls, W))]]

\* windowed_stats: for each method and backend that has calls in a window.
WindowStats(calls, S) ==
  LET Key(k) == <<calls[k].method, calls[k].backend, WindowOf(calls, S, k)>>
  IN [key \in {Key(k) : k \in S} |->
        LET W == {k \in S : Key(k) = key}
        IN [calls |-> Cardinality(W), successes |-> Cardinality({k \in W : calls[k].ok}),
            latency |-> Quantiles(Latencies(calls, W))]]

\* windowed_throughput: calls in each window.
Throughput(calls, S) ==
  [w \in Windows(calls, S) |-> Cardinality({k \in S : WindowOf(calls, S, k) = w})]

\* The first window with enough calls whose P99 is out of proportion to that of the first
\* window with enough calls, or whose errors are too many.
Degradation(curve) ==
  LET eligible == {w \in DOMAIN curve : curve[w].calls >= MinWindowCalls}
      base == curve[Lowest(eligible)].latency.p99
      Slow(w, multiple) == base > 0 /\ curve[w].latency.p99 >= multiple * base
      Failing(w, pct) == 100 * curve[w].errors >= pct * curve[w].calls
      hits == {w \in eligible : Slow(w, DegradationMultiple) \/ Failing(w, DegradationErrorPct)}
  IN {[window |-> w,
       severity |-> IF Slow(w, HighDegradationMultiple) \/ Failing(w, 2 * DegradationErrorPct)
                      THEN "High" ELSE "Medium"]
        : w \in {v \in hits : v = Lowest(hits)}}

\* The last of the windows with the most calls.
Peak(curve) ==
  {w \in DOMAIN curve : \A v \in DOMAIN curve :
     curve[v].calls <= curve[w].calls /\ (v > w => curve[v].calls < curve[w].calls)}
=============================================================================
