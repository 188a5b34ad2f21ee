----------------------------- MODULE CallMatrix -----------------------------
(***************************************************************************)
(* The RPC compatibility matrix (report/rpc_matrix.rs): what the report    *)
(* makes of the recorded calls of its runs.                                *)
(*                                                                         *)
(* `calls` is the sequence of the records in file order, run after run; a  *)
(* set of calls is a set of its positions.  Every record of this client    *)
(* has a latency.                                                          *)
(***************************************************************************)
EXTENDS Percentiles, Sequences

CONSTANT Category   \* of each method of the roster: "Stress", "Smoke" or "RegtestControl"

Roster == DOMAIN Category

\* Phase::is_workload, Phase::is_setup; "unknown" is in neither.
Workload == {"load", "drain"}
Setup == {"bootstrap", "readiness", "warmup", "funding"}

Scoped(calls, phases) == {k \in DOMAIN calls : calls[k].phase \in phases}
CallsTo(calls, method, phases) == {k \in Scoped(calls, phases) : calls[k].method = method}

-----------------------------------------------------------------------------
(* One call for each intent. *)

Unlinked == "none"

SameIntent(c, d) == c.intent # Unlinked /\ c.run = d.run /\ c.intent = d.intent

\* Mutant: an intent's first attempt stands for it.
FirstAttempts(calls, S) ==
  {k \in S : \A j \in S : SameIntent(calls[j], calls[k]) => k <= j}

\* Mutant: intents of different runs are taken for one.
AcrossRuns(calls, S) ==
  {k \in S : \A j \in S : calls[j].intent # Unlinked /\ calls[j].intent = calls[k].intent =>
      /\ calls[j].attempt <= calls[k].attempt
      /\ j < k => calls[j].attempt < calls[k].attempt}

\* An intent's entry starts with its first call, and only a strictly higher attempt number
\* replaces it; a call of no intent stands for itself.
Representatives(calls, S) ==
  {k \in S : \A j \in S : SameIntent(calls[j], calls[k]) =>
      /\ calls[j].attempt <= calls[k].attempt
      /\ j < k => calls[j].attempt < calls[k].attempt}

-----------------------------------------------------------------------------
(* Rows. *)

Status(total, successes) ==
  IF total = 0 THEN "NotTested"
  ELSE IF successes = total THEN "ExercisedAllSuccess"
  ELSE IF successes = 0 THEN "ExercisedAllFailed"
  ELSE "ExercisedPartialFailure"

Latencies(calls, S) == [k \in S |-> calls[k].ms]

Aggregate(calls, S) ==
  LET total == Cardinality(S)
      successes == Cardinality({k \in S : calls[k].ok})
  IN [status |-> Status(total, successes), calls |-> total, successes |-> successes,
      codes |-> {calls[k].code : k \in {j \in S : ~calls[j].ok}} \ {"none"},
      latency |-> Quantiles(Latencies(calls, S))]

Row(calls, method, phases) ==
  Aggregate(calls, Representatives(calls, CallsTo(calls, method, phases)))

Matrix(calls, phases) == [m \in Roster |-> Row(calls, m, phases)]

Unlisted(calls, phases) ==
  [m \in {calls[k].method : k \in Scoped(calls, phases)} \ Roster |-> Row(calls, m, phases)]

\* Attempts the intents of each method needed: one, two or three, more.
RetryDetail(calls, phases) ==
  LET Linked(m) == {k \in Representatives(calls, CallsTo(calls, m, phases)) :
                      calls[k].intent # Unlinked}
      Needing(m, attempts) == Cardinality({k \in Linked(m) : calls[k].attempt \in attempts})
  IN [m \in {r \in Roster : Linked(r) # {}} |->
        [single |-> Needing(m, {0, 1}), twoToThree |-> Needing(m, {2, 3}),
         fourPlus |-> Cardinality(Linked(m)) - Needing(m, 0 .. 3)]]
=============================================================================
