---------------------------- MODULE RunLifecycle ----------------------------
(***************************************************************************)
(* One `z3sim run` from the command line to the exit code (cli/mod.rs,     *)
(* main.rs): the stack's health and its own background tasks (z3/mod.rs),  *)
(* setup (scenarios/runner/lifecycle.rs), the load phase seen from outside *)
(* teardown and the artifacts of the run (scenarios/runner/mod.rs, run)    *)
(* and the phase every RPC record is tagged with (phase.rs, rpc/mod.rs).   *)
(*                                                                         *)
(* The main thread awaits its own calls one by one; provision's tasks, all *)
(* joined (on an error, aborted) before it returns, stand for one caller.  *)
(* From the load phase on, detached tasks - the background ones and the    *)
(* intents - call beside it.  LoadPhase has the inside of the load phase.  *)
(***************************************************************************)
EXTENDS Integers, Sequences, FiniteSets

CONSTANTS Main, Background, Intents, NoCall,
          MaxTries,     \* calls a stage of setup makes before it gives up
          HealthPolls,  \* health checks until health_check_timeout_secs are over
          Required,     \* healthy answers in a row that make the stack ready: 3
          Project,      \* this run's Compose project
          Containers    \* <<project, service>> of what may run on the host

ASSUME LifecycleAssumption ==
  /\ Background \cap Intents = {} /\ Main \notin Background \cup Intents
  /\ IsFiniteSet(Background) /\ IsFiniteSet(Intents)
  /\ {MaxTries, HealthPolls, Required} \subseteq Nat \ {0}
  /\ IsFiniteSet(Containers)

Tasks == Background \cup Intents
Callers == {Main} \cup Tasks

PhaseOrder == <<"bootstrap", "readiness", "warmup", "funding", "load", "drain">>
Phases == {PhaseOrder[k] : k \in 1..Len(PhaseOrder)}

\* Phase::is_workload.
Workload == {"load", "drain"}

VARIABLES
  pc,          \* where the main thread is
  tries,       \* calls made in this stage of setup
  polls, streak,   \* health checks made, and how many in a row were good
  phase,       \* the tracker's shared atomic
  boundaries,  \* the tracker's log
  live,        \* tasks that run
  signalled,   \* the background tasks were told to stop
  call,        \* the call each caller waits for: the phase it was issued in
  records,     \* rpc_calls.jsonl
  outcomes, intents,   \* intents that ended, and those in intents.jsonl
  stack,       \* "down", "up" or, left behind by a bootstrap script that failed, "scripts"
  lock,        \* whether the environment is locked
  helpers,     \* the stack's own background tasks
  sampled,     \* containers whose use of resources is in metrics.jsonl
  evidence,    \* what the run read of its images and its configuration
  manifest, latency, summary,  \* the other artifacts
  passed,      \* the scenario's expectations are met
  result, cancelled, exit, stopFailed

taskVars == <<live, signalled, call, records>>
healthVars == <<polls, streak>>
setupVars == <<tries, healthVars>>
stackVars == <<stack, helpers, sampled>>
artifactVars == <<intents, evidence, manifest, latency, summary>>
vars == <<pc, setupVars, phase, boundaries, taskVars, outcomes, stackVars, lock, artifactVars,
          passed, result, cancelled, exit, stopFailed>>

NoExit == -1
NoEvidence == [images |-> {}, config |-> FALSE]
NoManifest == [completed |-> FALSE, boundaries |-> <<>>, assertion |-> FALSE,
               evidence |-> NoEvidence]
NoSummary == [written |-> FALSE, intents |-> {}, calls |-> {}]

Init ==
  /\ pc = "invoke" /\ tries = 0 /\ polls = 0 /\ streak = 0
  /\ phase = "bootstrap" /\ boundaries = <<"bootstrap">>
  /\ live = {} /\ signalled = FALSE
  /\ call = [c \in Callers |-> NoCall] /\ records = {}
  /\ outcomes = {} /\ intents = {}
  /\ stack = "down" /\ lock = FALSE /\ helpers = {} /\ sampled = {}
  /\ evidence = NoEvidence /\ manifest = NoManifest /\ latency = {} /\ summary = NoSummary
  /\ passed = FALSE
  /\ result = "none" /\ cancelled = FALSE /\ exit = NoExit /\ stopFailed = FALSE

\* Only the main thread marks, and only it reads the log.
Mark(p) == phase' = p /\ boundaries' = Append(boundaries, p)

-----------------------------------------------------------------------------
(* The command line. *)

\* load_scenario, validate_scenario and build_load_shape may refuse the scenario
\* or the options; a dry run ends with its summary.
Invoke ==
  /\ pc = "invoke"
  /\ \/ pc' = "create" /\ UNCHANGED result
     \/ pc' = "exit" /\ result' \in {"refused", "dryRun"}
  /\ UNCHANGED <<setupVars, phase, boundaries, taskVars, outcomes, stackVars, lock, artifactVars,
                 passed, cancelled, exit, stopFailed>>

\* The run directory, the recorder's files and the initial manifest; then the
\* phase tracker starts.
CreateRun ==
  /\ pc = "create"
  /\ \/ pc' = "reserve" /\ UNCHANGED result
     \/ pc' = "exit" /\ result' = "metricsError"
  /\ UNCHANGED <<setupVars, phase, boundaries, taskVars, outcomes, stackVars, lock, artifactVars,
                 passed, cancelled, exit, stopFailed>>

-----------------------------------------------------------------------------
(* Setup. *)

\* The environment's lock and the wallet's bootstrap, whose scripts bring the stack up and down
\* again; Environment has their steps.  A script that fails may leave it up: the error is returned
\* without a stop, and the lock goes with it.
Reserve ==
  /\ pc = "reserve"
  /\ \/ pc' = "start" /\ lock' = TRUE /\ UNCHANGED stack
     \/ pc' = "abort" /\ lock' = FALSE /\ stack' \in {"down", "scripts"}
  /\ UNCHANGED <<setupVars, phase, boundaries, taskVars, outcomes, helpers, sampled, artifactVars,
                 passed, result, cancelled, exit, stopFailed>>

\* The compose directory may be gone; `up` may have started containers when it
\* fails.
StartStack ==
  /\ pc = "start"
  /\ \/ stack' = "up" /\ pc' \in {"health", "giveUp"}
     \/ pc' = "giveUp" /\ UNCHANGED stack
  /\ UNCHANGED <<setupVars, phase, boundaries, taskVars, outcomes, helpers, sampled, lock,
                 artifactVars, passed, result, cancelled, exit, stopFailed>>

\* What health_check hears: no answer in two seconds, something else than an answer, or the
\* name of the chain, which for Zebra's regtest is "test".
HealthAnswers == {"none", "notJson", "main", "test", "regtest"}
Healthy(answer) == answer \in {"regtest", "test"}

\* wait_until_ready: the router may answer between two restarts, so a single good
\* answer counts for nothing.  The deadline is looked at before each check.
CheckHealth ==
  /\ pc = "health" /\ polls < HealthPolls
  /\ \E answer \in HealthAnswers :
       \/ /\ Healthy(answer) /\ streak + 1 = Required
          /\ pc' = "height" /\ helpers' = {"logs", "stats"}
          /\ polls' = 0 /\ streak' = 0
       \/ /\ Healthy(answer) => streak + 1 < Required
          /\ polls' = polls + 1
          /\ streak' = IF Healthy(answer) THEN streak + 1 ELSE 0
          /\ UNCHANGED <<pc, helpers>>
  /\ UNCHANGED <<tries, phase, boundaries, taskVars, outcomes, stack, sampled, lock, artifactVars,
                 passed, result, cancelled, exit, stopFailed>>

HealthTimeout ==
  /\ pc = "health" /\ polls = HealthPolls
  /\ pc' = "giveUp" /\ polls' = 0 /\ streak' = 0
  /\ UNCHANGED <<tries, phase, boundaries, taskVars, outcomes, stackVars, lock, artifactVars,
                 passed, result, cancelled, exit, stopFailed>>

\* What Docker lists: this run's containers while its stack is up, and those of
\* other projects.
Listed == {c \in Containers : c[1] = Project => stack # "down"}

\* One round of `docker stats`, which lists every container of the host.
SampleResources ==
  /\ pc # "done" /\ "stats" \in helpers
  /\ sampled' = sampled \cup {c \in Listed : c[1] = Project}
  /\ UNCHANGED <<pc, setupVars, phase, boundaries, taskVars, outcomes, stack, helpers, lock,
                 artifactVars, passed, result, cancelled, exit, stopFailed>>

SetupStages == {"height", "readiness", "warmup", "provision", "funding"}

StageAfter == [height |-> "readiness", readiness |-> "warmup", warmup |-> "provision",
               provision |-> "funding", funding |-> "evidence"]

\* Provisioning belongs to the warmup phase.
Enter(s) == IF s \in {"readiness", "warmup", "funding"} THEN Mark(s)
            ELSE UNCHANGED <<phase, boundaries>>

Issue(c) == call' = [call EXCEPT ![c] = phase]

MainCall ==
  /\ pc \in SetupStages
  /\ call[Main] = NoCall
  /\ Issue(Main)
  /\ UNCHANGED <<pc, setupVars, phase, boundaries, live, signalled, records, outcomes, stackVars, lock,
                 artifactVars, passed, result, cancelled, exit, stopFailed>>

\* The record is written once the answer is there, with the phase of that moment.
Answer(c) ==
  /\ call[c] # NoCall
  /\ call' = [call EXCEPT ![c] = NoCall]
  /\ records' = records \cup {[caller |-> c, issued |-> call[c], tag |-> phase]}


\* Mutant: one call too many.
MainAnswerOnceMore ==
  /\ pc \in SetupStages
  /\ Answer(Main)
  /\ \/ /\ tries < MaxTries /\ tries' = tries + 1
        /\ UNCHANGED <<pc, phase, boundaries>>
     \/ /\ tries' = 0
        /\ pc' = StageAfter[pc] /\ Enter(StageAfter[pc])
     \/ /\ pc' = "giveUp" /\ UNCHANGED <<tries, phase, boundaries>>
  /\ UNCHANGED <<healthVars, live, signalled, outcomes, stackVars, lock, artifactVars, passed,
                 result, cancelled, exit, stopFailed>>

\* The stage goes on with another call, is complete, or gives up.
MainAnswer ==
  /\ pc \in SetupStages
  /\ Answer(Main)
  /\ \/ /\ tries + 1 < MaxTries /\ tries' = tries + 1
        /\ UNCHANGED <<pc, phase, boundaries>>
     \/ /\ tries' = 0
        /\ pc' = StageAfter[pc] /\ Enter(StageAfter[pc])
     \/ /\ pc' = "giveUp" /\ UNCHANGED <<tries, phase, boundaries>>
  /\ UNCHANGED <<healthVars, live, signalled, outcomes, stackVars, lock, artifactVars, passed,
                 result, cancelled, exit, stopFailed>>

\* Mutant: an error path of setup that returns at once.
GiveUpWithoutStop ==
  /\ pc = "giveUp"
  /\ pc' = "abort" /\ lock' = FALSE
  /\ UNCHANGED <<setupVars, phase, boundaries, taskVars, outcomes, stackVars, artifactVars, passed,
                 result, cancelled, exit, stopFailed>>

\* stop: the helpers are aborted, then `down` may fail.
Stop ==
  /\ helpers' = {}
  /\ \/ stack' = "down" /\ UNCHANGED stopFailed
     \/ stopFailed' = TRUE /\ UNCHANGED stack
  /\ UNCHANGED sampled

\* Every error path from the start of the stack on stops it, best effort; then
\* setup returns, which lets go of the lock.
GiveUp ==
  /\ pc = "giveUp"
  /\ Stop
  /\ pc' = "abort" /\ lock' = FALSE
  /\ UNCHANGED <<setupVars, phase, boundaries, taskVars, outcomes, artifactVars, passed, result,
                 cancelled, exit>>

\* Of the containers listed, those of VERSION_SERVICES; the order they are put in is the
\* manifest's own.
VersionServices == {"zebra", "zaino", "zallet", "rpc-router"}
Images == {s \in VersionServices : <<Project, s>> \in Listed}

\* Evidence for the manifest, read while the stack is up.  None of it is needed:
\* what cannot be read stays empty.
ReadEvidence ==
  /\ pc = "evidence"
  /\ evidence' \in [images : {{}, Images}, config : BOOLEAN]
  /\ pc' = "populate"
  /\ UNCHANGED <<setupVars, phase, boundaries, taskVars, outcomes, stackVars, lock, intents,
                 manifest, latency, summary, passed, result, cancelled, exit, stopFailed>>

-----------------------------------------------------------------------------
(* The load phase. *)

\* The intent generator may refuse the weights of the flows, before the phase is
\* marked (validate_scenario lets no such weights pass).
LoadRefused ==
  /\ pc = "populate"
  /\ pc' = "stop" /\ result' = "loadError"
  /\ UNCHANGED <<setupVars, phase, boundaries, taskVars, outcomes, stackVars, lock, artifactVars,
                 passed, cancelled, exit, stopFailed>>

\* Mutant: the background tasks are spawned before the phase is marked.
BeginLoadLate ==
  /\ \/ /\ pc = "populate" /\ pc' = "spawn"
        /\ live' = Background
        /\ UNCHANGED <<phase, boundaries>>
     \/ /\ pc = "spawn" /\ pc' = "load"
        /\ Mark("load")
        /\ UNCHANGED live
  /\ UNCHANGED <<setupVars, signalled, call, records, outcomes, stackVars, lock, artifactVars, passed,
                 result, cancelled, exit, stopFailed>>

\* The phase is marked, then the background tasks are spawned.
BeginLoad ==
  /\ \/ /\ pc = "populate" /\ pc' = "spawn"
        /\ Mark("load")
        /\ UNCHANGED live
     \/ /\ pc = "spawn" /\ pc' = "load"
        /\ live' = Background
        /\ UNCHANGED <<phase, boundaries>>
  /\ UNCHANGED <<setupVars, signalled, call, records, outcomes, stackVars, lock, artifactVars, passed,
                 result, cancelled, exit, stopFailed>>

Dispatch(i) ==
  /\ pc = "load"
  /\ i \notin live \cup outcomes
  /\ live' = live \cup {i}
  /\ UNCHANGED <<pc, setupVars, phase, boundaries, signalled, call, records, outcomes, stackVars, lock,
                 artifactVars, passed, result, cancelled, exit, stopFailed>>

TaskCall(t) ==
  /\ pc # "done" /\ t \in live
  /\ call[t] = NoCall
  /\ Issue(t)
  /\ UNCHANGED <<pc, setupVars, phase, boundaries, live, signalled, records, outcomes, stackVars, lock,
                 artifactVars, passed, result, cancelled, exit, stopFailed>>

TaskAnswer(t) ==
  /\ pc # "done" /\ t \in live
  /\ Answer(t)
  /\ UNCHANGED <<pc, setupVars, phase, boundaries, live, signalled, outcomes, stackVars, lock,
                 artifactVars, passed, result, cancelled, exit, stopFailed>>

\* An intent ends with its outcome, a background task between two calls once it
\* has the signal.
TaskEnds(t) ==
  /\ pc # "done" /\ t \in live
  /\ call[t] = NoCall
  /\ \/ t \in Intents /\ outcomes' = outcomes \cup {t}
     \/ t \in Background /\ signalled /\ UNCHANGED outcomes
  /\ live' = live \ {t}
  /\ UNCHANGED <<pc, setupVars, phase, boundaries, signalled, call, records, stackVars, lock,
                 artifactVars, passed, result, cancelled, exit, stopFailed>>

\* The window closes, or the loop sees the cancellation.
BeginDrain ==
  /\ pc = "load"
  /\ pc' = "drain" /\ Mark("drain")
  /\ UNCHANGED <<setupVars, taskVars, outcomes, stackVars, lock, artifactVars, passed, result,
                 cancelled, exit, stopFailed>>

\* Every intent is joined, the background tasks are told to stop; nobody waits
\* for them.
EndDrain ==
  /\ pc = "drain"
  /\ live \cap Intents = {}
  /\ signalled' = TRUE
  /\ pc' = "tally"
  /\ UNCHANGED <<setupVars, phase, boundaries, live, call, records, outcomes, stackVars, lock,
                 artifactVars, passed, result, cancelled, exit, stopFailed>>

-----------------------------------------------------------------------------
(* Teardown and artifacts. *)

\* Mutant: the intents are written once the run is over.
TallyAfterwards ==
  /\ pc = "tally"
  /\ passed' \in BOOLEAN
  /\ pc' = "stop"
  /\ UNCHANGED <<setupVars, phase, boundaries, taskVars, outcomes, stackVars, lock, artifactVars,
                 result, cancelled, exit, stopFailed>>

\* The outcomes are on disk before teardown reads them.
TallyOutcomes ==
  /\ pc = "tally"
  /\ intents' = outcomes
  /\ passed' \in BOOLEAN
  /\ pc' = "stop"
  /\ UNCHANGED <<setupVars, phase, boundaries, taskVars, outcomes, stackVars, lock, evidence, manifest,
                 latency, summary, result, cancelled, exit, stopFailed>>

\* A stack that does not stop ends the teardown; a load error is reported in its
\* stead.
StopStack ==
  /\ pc = "stop"
  /\ Stop
  /\ IF stopFailed'
       THEN /\ pc' = "exit"
            /\ result' = IF result = "loadError" THEN result ELSE "teardownError"
       ELSE pc' = "finalize" /\ UNCHANGED result
  /\ UNCHANGED <<setupVars, phase, boundaries, taskVars, outcomes, lock, artifactVars, passed,
                 cancelled, exit>>

\* flush_latency_samples: one sample for every call recorded so far.
FlushLatencySamples == latency' = records

\* finalize_run_artifacts: latency samples, manifest, and the summary of a
\* successful load, from what the files hold now.
WriteArtifacts(loadSucceeded) ==
  /\ FlushLatencySamples
  /\ manifest' = [completed |-> TRUE, boundaries |-> boundaries, assertion |-> loadSucceeded,
                 evidence |-> evidence]
  /\ summary' = IF loadSucceeded
                THEN [written |-> TRUE, intents |-> intents, calls |-> records]
                ELSE summary

Finalize ==
  /\ \/ /\ pc = "finalize"
        /\ WriteArtifacts(result = "none")
        /\ result' = IF result = "none" THEN "ok" ELSE result
     \/ /\ pc = "abort"
        /\ WriteArtifacts(FALSE)
        /\ result' = "setupError"
  /\ pc' = "exit"
  /\ UNCHANGED <<setupVars, phase, boundaries, taskVars, outcomes, stackVars, lock, intents, evidence,
                 passed, cancelled, exit, stopFailed>>

\* run_command and main: the interrupt goes before every result.
ExitCode == [ok |-> 0, error |-> 1, assertionFailed |-> 2, interrupted |-> 130]

Verdict ==
  IF cancelled THEN "interrupted"
  ELSE IF result \notin {"ok", "dryRun"} THEN "error"
  ELSE IF passed \/ result = "dryRun" THEN "ok" ELSE "assertionFailed"

Exit ==
  /\ pc = "exit"
  /\ pc' = "done"
  /\ exit' = ExitCode[Verdict]
  /\ lock' = FALSE
  /\ UNCHANGED <<setupVars, phase, boundaries, taskVars, outcomes, stackVars, artifactVars, passed,
                 result, cancelled, stopFailed>>

\* Ctrl-C, which only the load loop looks at.  Who waits for it is spawned after the
\* scenario was accepted.
Interrupt ==
  /\ pc \notin {"invoke", "done"} /\ result \notin {"refused", "dryRun"}
  /\ ~cancelled
  /\ cancelled' = TRUE
  /\ UNCHANGED <<pc, setupVars, phase, boundaries, taskVars, outcomes, stackVars, lock,
                 artifactVars, passed, result, exit, stopFailed>>

Setup == Reserve \/ StartStack \/ CheckHealth \/ HealthTimeout \/ MainCall \/ MainAnswer \/ GiveUp
MainStep == \/ Invoke \/ CreateRun \/ Setup \/ ReadEvidence \/ LoadRefused \/ BeginLoad \/ BeginDrain \/ EndDrain
            \/ TallyOutcomes \/ StopStack \/ Finalize \/ Exit
TaskStep(t) == TaskCall(t) \/ TaskAnswer(t) \/ TaskEnds(t)

Next == \/ MainStep \/ Interrupt \/ SampleResources
        \/ \E i \in Intents : Dispatch(i)
        \/ \E t \in Tasks : TaskStep(t)

Spec == Init /\ [][Next]_vars

(* Every call is answered (the HTTP client has a timeout), the load window ends
   and an intent ends after finitely many calls: the deadlines of Exchange. *)
FairSpec == /\ Spec /\ WF_vars(MainStep)
            /\ \A t \in Tasks : WF_vars(TaskAnswer(t))
            /\ \A t \in Intents : SF_vars(TaskEnds(t))

-----------------------------------------------------------------------------
(* Properties. *)

Stages == SetupStages \cup
  {"invoke", "create", "reserve", "start", "health", "giveUp", "abort", "evidence", "populate",
   "spawn", "load", "drain", "tally", "stop", "finalize", "exit", "done"}

Evidence == [images : SUBSET VersionServices, config : BOOLEAN]
CallRecords == [caller : Callers, issued : Phases, tag : Phases]

\* Every variable stays in its range.
TypeOK ==
  /\ pc \in Stages /\ tries \in 0..(MaxTries - 1)
  /\ polls \in 0..HealthPolls /\ streak \in 0..(Required - 1)
  /\ phase \in Phases /\ boundaries \in Seq(Phases)
  /\ live \in SUBSET Tasks /\ signalled \in BOOLEAN
  /\ call \in [Callers -> Phases \cup {NoCall}] /\ records \in SUBSET CallRecords
  /\ outcomes \in SUBSET Intents /\ intents \in SUBSET Intents
  /\ stack \in {"down", "up", "scripts"} /\ lock \in BOOLEAN
  /\ helpers \in SUBSET {"logs", "stats"} /\ sampled \in SUBSET Containers
  /\ evidence \in Evidence
  /\ manifest \in [completed : BOOLEAN, boundaries : Seq(Phases), assertion : BOOLEAN,
                   evidence : Evidence]
  /\ latency \in SUBSET CallRecords
  /\ summary \in [written : BOOLEAN, intents : SUBSET Intents, calls : SUBSET CallRecords]
  /\ passed \in BOOLEAN /\ cancelled \in BOOLEAN /\ stopFailed \in BOOLEAN
  /\ result \in {"none", "ok", "dryRun", "refused", "metricsError", "setupError", "loadError",
                 "teardownError"}
  /\ exit \in {NoExit, 0, 1, 2, 130}

\* The workload views count the calls of the workload: a record is tagged load or
\* drain exactly if its call was issued then, although the tag is read after the
\* answer and all tasks share it.
WorkloadTagged ==
  \A r \in records : r.tag \in Workload <=> r.issued \in Workload

\* Once a run has started its stack no way out leaves it up, unless stopping it was tried and
\* failed; and while it is up no other run can have the environment.  What the bootstrap scripts
\* brought up is left behind without such a try, whatever runner/mod.rs says of setup's failures,
\* but only by a run that reports its setup as failed.  The sampler tells containers by the project
\* alone: it never outlives the run's hold on it, not even when stopping the stack fails.
NoStackLeftBehind ==
  /\ ~stopFailed =>
       /\ pc \in {"abort", "finalize", "exit", "done"} => stack # "up"
       /\ stack = "up" => lock
  /\ stack = "scripts" => pc = "abort" \/ result = "setupError"
  /\ helpers # {} => stack = "up" /\ lock

\* The summary is written from files that already hold every intent and every call
\* an intent made; and a run that reports success has such a summary, has
\* been through every phase, in order, and its manifest says so - a dry run, which
\* succeeds as well, and a refused one have touched nothing.
SuccessIsDocumented ==
  /\ summary.written =>
       /\ summary.intents = outcomes
       /\ \A r \in records : r.caller \in Intents => r \in summary.calls /\ r \in latency
  /\ exit \in {0, 2} /\ result # "dryRun" =>
       /\ manifest.completed /\ manifest.assertion /\ summary.written
       /\ manifest.boundaries = PhaseOrder
       /\ stack = "down"
  /\ result \in {"dryRun", "refused"} =>
       boundaries = <<"bootstrap">> /\ manifest = NoManifest /\ records \cup sampled = {}

=============================================================================
