------------------------------- MODULE Report -------------------------------
(***************************************************************************)
(* The findings report (report/markdown.rs): what each section shows,      *)
(* without wording and layout.  `calls`, `samples` and `records` are those *)
(* of all its runs, `warnings` the malformed lines of each run and         *)
(* `manifests` their manifests, whose assertion is {"none"} if nothing was *)
(* recorded and {} if it passed.                                           *)
(***************************************************************************)
EXTENDS Findings, SystemHealth

CONSTANT Second   \* in units of the manifest's times

ASSUME SecondAssumption == Second \in Nat \ {0}

CallsOf(calls, run, phases) == {k \in Scoped(calls, phases) : calls[k].run = run}
SamplesOf(samples, run) == OfRun(samples, run)

\* A manifest is [assertion, marks, loaded, completed]: the times are sets of at most one.

\* render_executive_summary, its first four parts.
Assertions(manifests) ==
  [r \in DOMAIN manifests |->
     IF manifests[r].assertion = {"none"} THEN "no assertion recorded"
     ELSE IF manifests[r].assertion = {} THEN "PASS" ELSE "FAIL"]

FailuresByClass(records) ==
  LET failures == TerminalFailures(records)
  IN [c \in {records[k].class : k \in failures} |->
        Cardinality({k \in failures : records[k].class = c})]

\* Its fifth: at most ten of the High findings are named.
OverallRead(findings) ==
  LET Tier(s) == Cardinality({f \in findings : f.severity = s})
  IN [high |-> Tier("High"), medium |-> Tier("Medium"), low |-> Tier("Low"),
      read |-> IF Tier("High") > 0 THEN "engineering follow-up"
               ELSE IF Tier("Medium") > 0 THEN "closer look" ELSE "clean",
      named |-> IF Tier("High") > 10 THEN 10 ELSE Tier("High")]

ExecutiveSummary(findings, records, manifests) ==
  [assertion |-> Assertions(manifests), intents |-> Tally(records),
   terminalFailures |-> FailuresByClass(records), findings |-> OverallRead(findings)]

\* Mutant: the last phase lasts until the run is complete.
EndsWithTheRun(m, i) ==
  IF i < Len(m.marks) THEN {m.marks[i + 1].at} ELSE m.completed

\* A phase ends where the next begins, the last one when load_phase returned or, if it never
\* ran, with the run.
PhaseEnd(m, i) ==
  IF i < Len(m.marks) THEN {m.marks[i + 1].at}
  ELSE IF m.loaded # {} THEN m.loaded ELSE m.completed

\* render_setup_phase_timing: a row for each phase and one for the teardown that followed the
\* load, in whole seconds.
PhaseTiming(m) ==
  LET Whole(from, to) == (to - from) \div Second
  IN [phases |-> [i \in DOMAIN m.marks |->
                    {Whole(m.marks[i].at, t) : t \in PhaseEnd(m, i)}],
      teardown |-> {Whole(t, u) : t \in m.loaded, u \in m.completed} \ {0}]

\* render_load_curve: of the runs that have workload calls.
LoadCurves(calls, runs) ==
  [r \in {q \in runs : CallsOf(calls, q, Workload) # {}} |->
     LET curve == Curve(calls, CallsOf(calls, r, Workload))
     IN [points |-> curve, peak |-> Peak(curve), degradation |-> Degradation(curve)]]

\* render_system_health: of the runs that have samples.
HealthByRun(samples, runs) ==
  [r \in {q \in runs : DOMAIN SamplesOf(samples, q) # {}} |-> Health(SamplesOf(samples, r))]

\* render_rpc_matrix: the roster by category.
MatrixByCategory(calls) ==
  [c \in {Category[m] : m \in Roster} |->
     [m \in {r \in Roster : Category[r] = c} |-> Matrix(calls, Workload)[m]]]

\* render_unlisted_rpc_calls
OutsideRoster(calls) ==
  LET rows == Unlisted(calls, Workload)
  IN [m \in DOMAIN rows |->
        [row |-> rows[m],
         backends |-> {calls[k].backend : k \in CallsTo(calls, m, Workload)}]]

\* render_retry_detail
Retries(calls) == RetryDetail(calls, Workload)

\* render_setup_phase_rpc_activity: the methods that were called, on the roster or not.
SetupActivity(calls) ==
  LET matrix == Matrix(calls, Setup)
  IN [exercised |-> [m \in {r \in Roster : matrix[r].calls > 0} |-> matrix[m]],
      unlisted |-> Unlisted(calls, Setup)]

\* render_unknown_phase_advisory: of the runs that have such calls.
UnknownPhase(calls) ==
  [r \in {calls[k].run : k \in Scoped(calls, {"unknown"})} |->
     Cardinality(CallsOf(calls, r, {"unknown"}))]

\* render_findings: by category, High first; here the order is left out.
FindingsByCategory(findings) ==
  [c \in {f.category : f \in findings} |-> {f \in findings : f.category = c}]

\* render_limitations: the runs whose evidence is incomplete.
Incomplete(warnings) == Cardinality({r \in DOMAIN warnings : warnings[r] > 0})

\* render_report_impl
ReportOf(calls, samples, records, warnings, manifests) ==
  LET findings == FlagCandidates(calls, records, warnings)
      runs == DOMAIN warnings
  IN [executive |-> ExecutiveSummary(findings, records, manifests),
      loadResults |-> LoadResults(records, runs),
      flows |-> FlowBreakdown(records, runs),
      curves |-> LoadCurves(calls, runs),
      health |-> HealthByRun(samples, runs),
      timing |-> [r \in runs |-> PhaseTiming(manifests[r])],
      findings |-> FindingsByCategory(findings),
      incomplete |-> Incomplete(warnings),
      matrix |-> MatrixByCategory(calls),
      unlisted |-> OutsideRoster(calls),
      retries |-> Retries(calls),
      setup |-> SetupActivity(calls),
      unknown |-> UnknownPhase(calls)]
=============================================================================
