------------------------------ MODULE Findings ------------------------------
(***************************************************************************)
(* The candidate findings of a report (report/findings.rs): a finding is   *)
(* its category, severity and what it is about; the wording and most of    *)
(* the evidence are left out.  Rates are compared by multiplying out.      *)
(***************************************************************************)
EXTENDS LoadCurve, Outcomes

CONSTANTS MinTailSample,          \* MIN_TAIL_LATENCY_SAMPLE
          TailMultiple, HighTailMultiple,  \* TAIL_LATENCY_MULTIPLE, HIGH_...
          MinAbsoluteP99,         \* MIN_ABSOLUTE_P99_MS
          SlownessFloor           \* UNIFORM_SLOWNESS_FLOOR_MS

Controls == {m \in Roster : Category[m] = "RegtestControl"}

\* run_occurrence: the runs that called the method, and those that saw a failure.
RunOccurrence(calls, method) ==
  LET C == {k \in DOMAIN calls : calls[k].method = method}
  IN [called |-> {calls[k].run : k \in C},
      failed |-> {calls[k].run : k \in {j \in C : ~calls[j].ok}}]

\* matches_known_limitation: the method, the phase and the error (here its code) must all
\* be those of the one entry of KNOWN_LIMITATIONS.
KnownLimitation(c) ==
  c.method = "z_listunspent" /\ c.phase = "warmup" /\ c.code = "get_memo"

\* What is left out leaves a gap.
WithoutKnownLimitations(calls) ==
  [k \in {j \in DOMAIN calls : ~KnownLimitation(calls[j])} |-> calls[k]]

\* rpc_failure_candidates
RpcFailureFindings(calls) ==
  LET scored == WithoutKnownLimitations(calls)
      matrix == Matrix(scored, Workload)
  IN {[category |-> "RpcFailure", about |-> m,
       severity |-> SeverityOf(matrix[m].calls - matrix[m].successes, matrix[m].calls),
       runs |-> RunOccurrence(scored, m).failed]
        : m \in {r \in Roster \ Controls :
                   matrix[r].status \in {"ExercisedPartialFailure", "ExercisedAllFailed"}}}

\* P99 out of proportion to P50, and large enough to matter.
Tailed(row) ==
  LET q == row.latency
  IN q.p50 > 0 /\ q.p99 >= TailMultiple * q.p50 /\ q.p99 >= MinAbsoluteP99

\* latency_outlier_candidates
TailFindings(calls) ==
  LET matrix == Matrix(calls, Workload)
  IN {[category |-> "LatencyOutlier", about |-> m,
       severity |-> IF matrix[m].latency.p99 >= HighTailMultiple * matrix[m].latency.p50
                      THEN "High" ELSE "Medium",
       runs |-> RunOccurrence(calls, m).called]
        : m \in {r \in Roster \ Controls : matrix[r].calls >= MinTailSample /\ Tailed(matrix[r])}}

\* Mutant: the check on the median does not look at what the other one reported.
SlowAnyway(calls) ==
  LET matrix == Matrix(calls, Workload)
  IN {[category |-> "LatencyOutlier", about |-> m, severity |-> "High",
       runs |-> RunOccurrence(calls, m).called, control |-> m \in Controls]
        : m \in {r \in Roster : /\ matrix[r].calls >= MinTailSample
                                /\ matrix[r].latency.p50 >= SlownessFloor}}

\* uniformly_slow_candidates: a median that alone clears the floor, whatever the category,
\* unless the row is tailed.
SlowFindings(calls) ==
  LET matrix == Matrix(calls, Workload)
  IN {[category |-> "LatencyOutlier", about |-> m, severity |-> "High",
       runs |-> RunOccurrence(calls, m).called, control |-> m \in Controls]
        : m \in {r \in Roster : /\ matrix[r].calls >= MinTailSample
                                /\ matrix[r].latency.p50 >= SlownessFloor
                                /\ ~Tailed(matrix[r])}}

\* load_degradation_candidates: one at most for each run.
DegradationFindings(calls, runs) ==
  UNION {{[category |-> "LoadDegradation", run |-> r, window |-> d.window, severity |-> d.severity]
            : d \in Degradation(Curve(calls, {k \in Scoped(calls, Workload) : calls[k].run = r}))}
           : r \in {calls[k].run : k \in Scoped(calls, Workload)} \cap runs}

\* data_completeness_candidates: warnings counts the malformed lines of each run.
CompletenessFindings(warnings) ==
  {[category |-> "DataCompleteness", run |-> r, severity |-> "Low"]
     : r \in {q \in DOMAIN warnings : warnings[q] > 0}}

\* known_limitation_findings
LimitationFindings(calls) ==
  {[category |-> "KnownLimitation", about |-> m, severity |-> "Low",
    runs |-> {calls[k].run : k \in {j \in DOMAIN calls : KnownLimitation(calls[j])}}]
     : m \in {calls[k].method : k \in {j \in DOMAIN calls : KnownLimitation(calls[j])}}}

\* flag_candidates
FlagCandidates(calls, records, warnings) ==
  RpcFailureFindings(calls) \cup TimeoutFindings(records)
    \cup TailFindings(calls) \cup SlowFindings(calls)
    \cup DisparityFindings(records) \cup DegradationFindings(calls, DOMAIN warnings)
    \cup CompletenessFindings(warnings) \cup LimitationFindings(calls)
=============================================================================
