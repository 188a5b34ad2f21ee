------------------------------ MODULE Reports ------------------------------
(***************************************************************************)
(* From the calls of a run to its report: the recorder appends a line for  *)
(* each answered call and each sample while the load goes on, the outcomes *)
(* of the intents are written after it (scenarios/runner/mod.rs), then the *)
(* summary and the manifest; the loader (report/loader.rs) reads what is   *)
(* there, of a run that was killed too, and the report follows.            *)
(***************************************************************************)
EXTENDS Report, Summary, RpcClient

Sets == INSTANCE FiniteSetsExt

\* By name, what there is to record, [calls, samples, outcomes, sweeping, lines, runs, ticks]:
\* `sweeping` are the intents of two legs (ZToT), and the bounds are the lines of each kind, the
\* runs in the report and the latest time at which anything happens.
CONSTANT Feeds

\* A call is tagged with a phase, or none, and has a time, and only the workflows of intents,
\* which the load starts, say for which intent they call; before there were phases none did.
ASSUME FeedsAssumption ==
  \A f \in DOMAIN Feeds :
    /\ \A o \in Feeds[f].outcomes : o.kind \in {"ok", "failed", "timedOut"}
    /\ \A c \in Feeds[f].calls :
         /\ c.phase \in Setup \cup Workload \cup {"unknown"} /\ c.at \in Nat
         /\ c.phase \notin Workload => c.via # "z_send_many_attempt"

VARIABLES
  feed, run,
  stage,             \* the phase of the run, or what follows its last one
  now, marks, loaded,   \* the time, the phase boundaries, when load_phase returned
  outcomes,          \* the outcomes of the run's intents, in memory until the drain ends
  calls, samples, records,   \* the files' lines, of all runs
  warnings,          \* malformed lines by run
  manifest,          \* by run
  summary            \* of the latest run, {} without one

timeVars == <<now, marks, loaded>>
fileVars == <<calls, samples, records>>
vars == <<feed, run, stage, timeVars, outcomes, fileVars, warnings, manifest, summary>>

FirstMark == <<[phase |-> "bootstrap", at |-> 0]>>

\* The manifest that is written first.
NoManifest == [assertion |-> {"none"}, marks |-> <<>>, loaded |-> {}, completed |-> {}]

Init ==
  /\ feed \in DOMAIN Feeds
  /\ run = 1 /\ stage = "bootstrap"
  /\ now = 0 /\ marks = FirstMark /\ loaded = {}
  /\ outcomes = <<>> /\ calls = <<>> /\ samples = <<>> /\ records = <<>>
  /\ warnings = [r \in {1} |-> 0] /\ manifest = [r \in {1} |-> NoManifest]
  /\ summary = {}

PhaseAfter == [bootstrap |-> "readiness", readiness |-> "warmup", warmup |-> "funding",
               funding |-> "load", load |-> "drain"]

\* PhaseTracker::mark, as setup and load_phase go on.
Mark ==
  /\ stage \in DOMAIN PhaseAfter
  /\ stage' = PhaseAfter[stage]
  /\ marks' = Append(marks, [phase |-> stage', at |-> now])
  /\ UNCHANGED <<feed, run, now, loaded, outcomes, fileVars, warnings, manifest, summary>>

Ended == {"ended", "killed"}

Tick ==
  /\ stage \notin Ended /\ now < Feeds[feed].ticks
  /\ now' = now + 1
  /\ UNCHANGED <<feed, run, stage, marks, loaded, outcomes, fileVars, warnings, manifest, summary>>

\* Setup gives up and has stopped the stack.
AbortSetup ==
  /\ stage \in Setup
  /\ stage' = "aborted"
  /\ UNCHANGED <<feed, run, timeVars, outcomes, fileVars, warnings, manifest, summary>>

\* load_phase refuses the population before it marks its phase.
RefuseLoad ==
  /\ stage = "funding"
  /\ stage' = "refused" /\ loaded' = {now}
  /\ UNCHANGED <<feed, run, now, marks, outcomes, fileVars, warnings, manifest, summary>>

\* What the intent of a line has asked of its method so far.
Before(c) == {k \in DOMAIN calls : SameIntent(calls[k], c) /\ calls[k].method = c.method}

\* The attempts of a sequence of retries are numbered from 1, and a success ends it.
AttemptOf(c) == Cardinality({k \in Before(c) : \A j \in Before(c) : calls[j].ok => j < k}) + 1

\* Each leg of an intent is a sequence of its own: a sweep and a payout, or one transfer.
Legs(c) == IF c.intent \in Feeds[feed].sweeping THEN 2 ELSE 1

\* Only "insufficient balance" is tried again, and only while a leg is left.
Retried(c) ==
  /\ \A k \in Before(c) : calls[k].ok \/ calls[k].code = "insufficient"
  /\ Cardinality({k \in Before(c) : calls[k].ok}) < Legs(c)

\* A call is answered: JsonlRecorder::record_rpc_call writes its line and flushes it.  A line
\* without a phase, of a recording from before there were phases, is read as "unknown".
RecordCall(c) ==
  LET line == RpcCall(run, c.via, c.intent, c.answer, c.phase, c.ms, c.at) IN
  /\ stage = c.phase \/ (stage = "load" /\ c.phase = "unknown")
  /\ Len(calls) < Feeds[feed].lines
  /\ Retried(line)
  /\ calls' = Append(calls, [line EXCEPT !.attempt = AttemptOf(line)])
  /\ UNCHANGED <<feed, run, stage, timeVars, outcomes, samples, records, warnings, manifest,
                 summary>>

\* A background task records a sample.
RecordMetric(m) ==
  /\ stage = "load" /\ Len(samples) < Feeds[feed].lines
  /\ samples' = Append(samples, [m EXCEPT !.run = run])
  /\ UNCHANGED <<feed, run, stage, timeVars, outcomes, calls, records, warnings, manifest,
                 summary>>

\* An intent ends, by its workflow or by a panic.
Settle(o) ==
  /\ stage \in Workload /\ Len(records) + Len(outcomes) < Feeds[feed].lines
  /\ outcomes' = Append(outcomes, o)
  /\ UNCHANGED <<feed, run, stage, timeVars, fileVars, warnings, manifest, summary>>

\* load_phase has drained, and records its totals; a timed out intent is a failed one here.
EndLoad ==
  LET s == Stats(outcomes)
      Total(name, n) == [run |-> run, name |-> name, value |-> n, process |-> "none"]
  IN
  /\ stage = "drain"
  /\ samples' = samples \o <<Total("confirmed_txs_total", s.confirmed),
                             Total("failed_txs_total", s.failed + s.timedOut)>>
  /\ stage' = "tally" /\ loaded' = {now}
  /\ UNCHANGED <<feed, run, now, marks, outcomes, calls, records, warnings, manifest, summary>>

Written == Cardinality(DOMAIN OfRun(records, run))

\* The intents are written one by one, ...
RecordIntent ==
  /\ stage = "tally" /\ Written < Len(outcomes)
  /\ records' = Append(records, Record(outcomes[Written + 1], run))
  /\ UNCHANGED <<feed, run, stage, timeVars, outcomes, calls, samples, warnings, manifest,
                 summary>>

\* finalize_run_artifacts: the manifest of a run that came this far, and the summary of a
\* load that succeeded.
WriteArtifacts(assertion, succeeded) ==
  /\ manifest' = [manifest EXCEPT ![run] =
                    [assertion |-> assertion, marks |-> marks, loaded |-> loaded,
                     completed |-> {now}]]
  /\ summary' = IF succeeded
                THEN {SummaryOf(OfRun(calls, run), SamplesOf(samples, run), OfRun(records, run))}
                ELSE {}
  /\ stage' = "ended"

\* Mutant: the run is finalised before the intents are written.
FinaliseFirst ==
  /\ \/ /\ stage = "tally"
        /\ WriteArtifacts(Evaluate(Stats(outcomes),
                                   [k \in DOMAIN outcomes |-> Record(outcomes[k], run)]), TRUE)
     \/ /\ stage \in {"aborted", "refused"}
        /\ WriteArtifacts({"none"}, FALSE)
  /\ UNCHANGED <<feed, run, timeVars, outcomes, fileVars, warnings>>

\* ... and the summary and the verdict only then.
Finalise ==
  /\ \/ /\ stage = "tally" /\ Written = Len(outcomes)
        /\ WriteArtifacts(Evaluate(Stats(outcomes), OfRun(records, run)), TRUE)
     \/ /\ stage \in {"aborted", "refused"}
        /\ WriteArtifacts({"none"}, FALSE)
  /\ UNCHANGED <<feed, run, timeVars, outcomes, fileVars, warnings>>

ButLast(s) == SubSeq(s, 1, Len(s) - 1)
LastOfRun(s) == s # <<>> /\ s[Len(s)].run = run

\* The machine goes down, or the stack does not stop, before the run is finalised; of the
\* first the last line of a file may be cut, and parse_jsonl skips it with a warning.
Kill ==
  /\ stage \notin Ended
  /\ stage' = "killed"
  /\ \/ UNCHANGED <<calls, records, warnings>>
     \/ /\ LastOfRun(calls) /\ calls' = ButLast(calls)
        /\ warnings' = [warnings EXCEPT ![run] = @ + 1]
        /\ UNCHANGED records
     \/ /\ LastOfRun(records) /\ records' = ButLast(records)
        /\ warnings' = [warnings EXCEPT ![run] = @ + 1]
        /\ UNCHANGED calls
  /\ UNCHANGED <<feed, run, timeVars, outcomes, samples, manifest, summary>>

\* The next run, in a directory of its own; intents are numbered anew, and here so is time.
NextRun ==
  /\ stage \in Ended /\ run < Feeds[feed].runs
  /\ run' = run + 1 /\ stage' = "bootstrap" /\ outcomes' = <<>> /\ summary' = {}
  /\ now' = 0 /\ marks' = FirstMark /\ loaded' = {}
  /\ warnings' = [r \in 1 .. run + 1 |-> IF r \in DOMAIN warnings THEN warnings[r] ELSE 0]
  /\ manifest' = [r \in 1 .. run + 1 |->
                    IF r \in DOMAIN manifest THEN manifest[r] ELSE NoManifest]
  /\ UNCHANGED <<feed, fileVars>>

Next ==
  \/ Mark \/ Tick \/ AbortSetup \/ RefuseLoad
  \/ \E c \in Feeds[feed].calls : RecordCall(c)
  \/ \E m \in Feeds[feed].samples : RecordMetric(m)
  \/ \E o \in Feeds[feed].outcomes : Settle(o)
  \/ EndLoad \/ RecordIntent \/ Finalise \/ Kill \/ NextRun

Spec == Init /\ [][Next]_vars

-----------------------------------------------------------------------------
(* Properties.  The report can be made at any time a run has ended.        *)

Reported == stage \in Ended

Runs == DOMAIN warnings

\* The calls of one intent and method, in one run.
Attempts(k) == {j \in Scoped(calls, Workload) :
                  SameIntent(calls[j], calls[k]) /\ calls[j].method = calls[k].method} \cup {k}

LastAttempt(k) == \A j \in Attempts(k) : j <= k

\* The calls of the load that failed and were not tried again.
Failing == {k \in Scoped(calls, Workload) :
              calls[k].method \in Roster \ Controls /\ ~calls[k].ok /\ LastAttempt(k)}

\* Behind a sweep that took as many attempts, the failure of a payout.
Hidden(k) ==
  /\ calls[k].intent \in Feeds[feed].sweeping
  /\ \E j \in Attempts(k) : calls[j].ok /\ calls[j].attempt >= calls[k].attempt

\* A method of the roster has a finding of failures exactly if, outside setup, a call of no
\* intent failed or some intent of some run failed in its last attempt, unless that was its
\* payout and its sweep had needed at least as many attempts (the finding of
\* RepresentativeIsTerminal): retries that led to success are no failures, a failure of an
\* intent of one leg is never hidden, one run's intent does not hide another's of the same
\* name, and what is known and tolerated in warm-up hides nothing in the load.
FailuresAreReported ==
  Reported =>
    {f.about : f \in RpcFailureFindings(calls)}
      = {calls[k].method : k \in {j \in Failing : ~Hidden(j)}}

\* A method outside regtest control whose median clears the floor over enough calls is
\* reported once: as tailed or as slow, by neither twice and never by none.
SlowReportedOnce ==
  Reported =>
    \A m \in Roster \ Controls :
      LET row == Row(calls, m, Workload)
      IN row.calls >= MinTailSample /\ row.latency.p50 >= SlownessFloor =>
           Cardinality({f \in TailFindings(calls) : f.about = m})
             + Cardinality({f \in SlowFindings(calls) : f.about = m}) = 1

\* The calls of a run in the order of their requests.
ByRequest(S) ==
  CHOOSE p \in [1 .. Cardinality(S) -> S] :
    /\ \A i, j \in DOMAIN p : i # j => p[i] # p[j]
    /\ \A i, j \in DOMAIN p : i < j => calls[p[i]].at <= calls[p[j]].at

\* Lines come in the order of the answers; curve, degradation, peak and throughput are those
\* of the calls in the order of their requests.
CurveIgnoresFileOrder ==
  Reported =>
    \A r \in Runs : CallsOf(calls, r, Workload) # {} =>
      LET S == CallsOf(calls, r, Workload)
          order == ByRequest(S)
          sorted == [i \in DOMAIN order |-> calls[order[i]]]
          T == DOMAIN sorted
          curve == Curve(sorted, T)
      IN /\ LoadCurves(calls, Runs)[r] = [points |-> curve, peak |-> Peak(curve),
                                   degradation |-> Degradation(curve)]
         /\ Throughput(calls, S) = Throughput(sorted, T)
         /\ WindowStats(calls, S) = WindowStats(sorted, T)

Pardoned(r) == {k \in DOMAIN OfRun(records, r) :
                  /\ OfRun(records, r)[k].outcome = "failed"
                  /\ OfRun(records, r)[k].class \in AllowedErrorClasses}

\* A run whose load came to its end shows every intent it settled, and the intents shown in
\* the report bear out the verdict in its manifest, in which a timeout counts as nothing else
\* and a failed intent once.  Of a run that was killed or never got to its load no verdict is
\* shown, and a line that was cut is admitted as incomplete evidence.
VerdictIsOfTheReport ==
  Reported =>
    /\ stage = "ended" => LoadResults(records, Runs)[run].attempted = Len(outcomes)
    /\ \A r \in DOMAIN manifest :
         LET shown == LoadResults(records, Runs)[r]
             verdict == manifest[r].assertion
         IN verdict # {"none"} =>
              (verdict = {} <=> /\ shown.confirmed >= MinConfirmed
                                /\ shown.timedOut <= MaxTimeouts
                                /\ shown.failed - Cardinality(Pardoned(r))
                                     <= MaxTerminalFailures)
    /\ summary = {} => manifest[run].assertion = {"none"}
    /\ warnings[run] > 0 =>
         \E f \in CompletenessFindings(warnings) : f.run = run

\* The sum of the values of a function.
SumOf(f) == Sets!MapThenSumSet(LAMBDA x : f[x], DOMAIN f)

\* The phases in the timing table and the teardown after them make up the run: no time is
\* counted twice, and what is missing is the part of a second each row has dropped, however
\* setup, load or teardown ended.
TimingAddsUp ==
  Reported =>
    \A r \in DOMAIN manifest : manifest[r].completed # {} =>
      LET t == PhaseTiming(manifest[r])
          Value(S) == IF S = {} THEN 0 ELSE CHOOSE v \in S : TRUE
          rows == [i \in DOMAIN t.phases |-> Value(t.phases[i])]
          shown == SumOf(rows) + Value(t.teardown)
          lasted == Value(manifest[r].completed) - manifest[r].marks[1].at
      IN /\ shown * Second <= lasted
         /\ lasted < (shown + Len(manifest[r].marks) + 1) * Second

CallsSummed(rows, keys) == SumOf([key \in keys |-> rows[key].calls])

\* The summary of a run and its part of the report agree, although one counts samples and
\* every attempt, and the other intent records and one call for each intent: in the
\* outcomes, in the peaks, in the calls, but for the attempts that were repeated, and in the
\* errors, of which the report only knows those of the attempt that stands for an intent.
SummaryAgreesWithReport ==
  \A s \in summary :
    LET report == ReportOf(calls, samples, records, warnings, manifest)
        shown == report.loadResults[run]
        mine == OfRun(calls, run)
        All(phases) == Cardinality(Scoped(mine, phases))
        activity == SetupActivity(mine)
        Repeated(m) == {k \in CallsTo(calls, m, Workload) : calls[k].run = run /\ ~LastAttempt(k)}
        health == report.health[run]
    IN /\ s.totals.confirmed = shown.confirmed
       /\ s.totals.failed = shown.failed + shown.timedOut
       /\ s.attempted = shown.attempted
       /\ \A m \in Roster :
            CallsSummed(s.workload, {key \in DOMAIN s.workload : key[1] = m})
              = Row(mine, m, Workload).calls + Cardinality(Repeated(m))
       /\ \A m \in Roster : \A code \in Row(mine, m, Workload).codes :
            <<"workload", m, code>> \in s.errors
       /\ CallsSummed(s.workload, DOMAIN s.workload) = All(Workload)
       /\ CallsSummed(s.setup, DOMAIN s.setup) = All(Setup)
       /\ CallsSummed(activity.exercised, DOMAIN activity.exercised)
            + CallsSummed(activity.unlisted, DOMAIN activity.unlisted) = All(Setup)
       /\ s.unknown = IF run \in DOMAIN report.unknown THEN report.unknown[run] ELSE 0
       /\ run \in DOMAIN report.health =>
            /\ health.saturations = s.totals.saturations
            /\ health.proving = s.totals.proving
            /\ s.totals.peakMempool \subseteq health.mempoolTxs \cup {0}
=============================================================================
