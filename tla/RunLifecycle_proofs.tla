------------------------ MODULE RunLifecycle_proofs ------------------------
(***************************************************************************)
(* Proofs about RunLifecycle, for any finite sets of background tasks and  *)
(* intents, any number of tries and health checks, and any containers on   *)
(* the host.                                                               *)
(***************************************************************************)
EXTENDS RunLifecycle, SequenceTheorems, TLAPS

(***************************************************************************)
(* The inductive invariant: the properties, and where in the run of the    *)
(* main thread the facts they need come from.                              *)
(***************************************************************************)

\* The stages while the run holds its environment with a stack that may be up.
Holding == SetupStages \cup
  {"start", "health", "giveUp", "evidence", "populate", "spawn", "load", "drain", "tally", "stop"}

\* The stages before the stack is started.
Before == {"invoke", "create", "reserve"}

\* The log of the tracker is a beginning of PhaseOrder, and its length that of the stage.
InOrder ==
  /\ Len(boundaries) \in 1..6 /\ phase = boundaries[Len(boundaries)]
  /\ \A k \in 1..6 : k <= Len(boundaries) => boundaries[k] = PhaseOrder[k]
MarksInOrder ==
  /\ InOrder
  /\ pc \in Before \cup {"start", "health", "height"} => Len(boundaries) = 1
  /\ pc = "readiness" => Len(boundaries) = 2
  /\ pc \in {"warmup", "provision"} => Len(boundaries) = 3
  /\ pc \in {"funding", "evidence", "populate"} => Len(boundaries) = 4
  /\ pc \in {"spawn", "load"} => Len(boundaries) = 5
  /\ pc \in {"drain", "tally"} => Len(boundaries) = 6
  /\ pc \in {"stop", "finalize"} /\ result = "none" => Len(boundaries) = 6

\* A call that waits was issued on the same side of the start of the load, by the main
\* thread in its setup or by a task that lives.
CallsOfPhase ==
  \A c \in Callers : call[c] # NoCall =>
    /\ call[c] \in Workload <=> phase \in Workload
    /\ c = Main => pc \in SetupStages
    /\ c # Main => c \in live

\* Tasks live in the workload only, and intents in the load phase only.
TasksInLoad ==
  /\ live # {} => phase \in Workload
  /\ pc = "spawn" => live = {}
  /\ pc \notin {"load", "drain"} => live \cap Intents = {}

\* How far the main thread's result is decided.
ResultDecided ==
  /\ pc \notin {"stop", "finalize", "exit", "done"} => result = "none"
  /\ pc \in {"stop", "finalize"} => result \in {"none", "loadError"}
  /\ exit # NoExit => pc = "done"
  /\ exit \in {0, 2} => result \in {"ok", "dryRun"}

\* The stack is up from StartStack on and its helpers run until Stop.
StackHeld ==
  /\ pc \in Before => stack = "down"
  /\ pc = "health" => stack = "up"
  /\ pc \in Holding => lock /\ stack # "scripts"
  /\ helpers # {} => pc \in Holding

\* A run that was refused, or ended with the summary of a dry run, never went on.
Untouched ==
  pc = "invoke" \/ result \in {"dryRun", "refused"} =>
    /\ boundaries = <<"bootstrap">> /\ manifest = NoManifest
    /\ records = {} /\ sampled = {} /\ helpers = {} /\ live = {}

\* The intents are on disk when a run that got through its load is torn down, and the
\* artifacts are there when it is a success.
Documented ==
  /\ pc \in {"stop", "finalize"} /\ result = "none" => intents = outcomes
  /\ pc = "finalize" => stack = "down"
  /\ summary.written => pc \in {"exit", "done"} /\ result = "ok"
  /\ result = "ok" =>
       /\ pc \in {"exit", "done"} /\ stack = "down" /\ summary.written
       /\ manifest.completed /\ manifest.assertion /\ manifest.boundaries = PhaseOrder

IInv == /\ TypeOK /\ WorkloadTagged /\ NoStackLeftBehind /\ SuccessIsDocumented
        /\ MarksInOrder /\ CallsOfPhase /\ TasksInLoad /\ ResultDecided /\ StackHeld
        /\ Untouched /\ Documented
-----------------------------------------------------------------------------
(* Types. *)

LEMMA PhasesAre ==
  /\ Phases = {"bootstrap", "readiness", "warmup", "funding", "load", "drain"}
  /\ Len(PhaseOrder) = 6 /\ PhaseOrder \in Seq(Phases)
  /\ \A k \in 1..6 : PhaseOrder[k] \in Workload <=> k \in {5, 6}
<1>1. Len(PhaseOrder) = 6
  BY DEF PhaseOrder
<1>2. /\ PhaseOrder[1] = "bootstrap" /\ PhaseOrder[2] = "readiness" /\ PhaseOrder[3] = "warmup"
      /\ PhaseOrder[4] = "funding" /\ PhaseOrder[5] = "load" /\ PhaseOrder[6] = "drain"
  BY DEF PhaseOrder
<1>3. 1..6 = {1, 2, 3, 4, 5, 6}
  OBVIOUS
<1>4. Phases = {"bootstrap", "readiness", "warmup", "funding", "load", "drain"}
  BY <1>1, <1>2, <1>3 DEF Phases
<1>5. PhaseOrder \in Seq(Phases)
  BY <1>4 DEF PhaseOrder
<1>6. \A k \in 1..6 : PhaseOrder[k] \in Workload <=> k \in {5, 6}
  BY <1>2, <1>3 DEF Workload
<1>7. QED
  BY <1>1, <1>4, <1>5, <1>6

(***************************************************************************)
(* The type invariant, a part at a time.                                   *)
(***************************************************************************)

Results == {"none", "ok", "dryRun", "refused", "metricsError", "setupError", "loadError", "teardownError"}

ControlOK ==
  /\ pc \in Stages /\ tries \in 0..(MaxTries - 1)
  /\ polls \in 0..HealthPolls /\ streak \in 0..(Required - 1)
  /\ result \in Results /\ exit \in {NoExit, 0, 1, 2, 130}
FlagsOK ==
  /\ lock \in BOOLEAN /\ passed \in BOOLEAN /\ cancelled \in BOOLEAN
  /\ stopFailed \in BOOLEAN /\ signalled \in BOOLEAN
TrackerOK == phase \in Phases /\ boundaries \in Seq(Phases)
TasksOK ==
  /\ live \in SUBSET Tasks /\ call \in [Callers -> Phases \cup {NoCall}]
  /\ records \in SUBSET CallRecords /\ outcomes \in SUBSET Intents
StackOK == stack \in {"down", "up", "scripts"} /\ helpers \in SUBSET {"logs", "stats"} /\ sampled \in SUBSET Containers
ArtifactsOK ==
  /\ intents \in SUBSET Intents /\ evidence \in Evidence /\ latency \in SUBSET CallRecords
  /\ manifest \in [completed : BOOLEAN, boundaries : Seq(Phases), assertion : BOOLEAN, evidence : Evidence]
  /\ summary \in [written : BOOLEAN, intents : SUBSET Intents, calls : SUBSET CallRecords]

LEMMA TypeParts ==
  TypeOK <=> ControlOK /\ FlagsOK /\ TrackerOK /\ TasksOK /\ StackOK /\ ArtifactsOK
BY DEF TypeOK, ControlOK, FlagsOK, TrackerOK, TasksOK, StackOK, ArtifactsOK, Results

LEMMA InitIInv == Init => IInv
<1> SUFFICES ASSUME Init PROVE IInv
  OBVIOUS
<1>1. TypeOK
  <2>1. "bootstrap" \in Phases /\ <<"bootstrap">> \in Seq(Phases) /\ <<>> \in Seq(Phases)
    BY PhasesAre
  <2>2. NoEvidence \in Evidence
    BY DEF NoEvidence, Evidence
  <2>3. /\ NoManifest \in [completed : BOOLEAN, boundaries : Seq(Phases), assertion : BOOLEAN, evidence : Evidence]
        /\ NoSummary \in [written : BOOLEAN, intents : SUBSET Intents, calls : SUBSET CallRecords]
    BY <2>1, <2>2 DEF NoManifest, NoSummary
  <2>4. MaxTries \in Nat \ {0} /\ HealthPolls \in Nat \ {0} /\ Required \in Nat \ {0}
    BY LifecycleAssumption
  <2>5. ControlOK
    BY <2>4 DEF Init, ControlOK, Stages, Results
  <2>6. FlagsOK
    BY DEF Init, FlagsOK
  <2>7. TrackerOK /\ StackOK
    BY <2>1 DEF Init, TrackerOK, StackOK
  <2>8. TasksOK
    BY DEF Init, TasksOK
  <2>9. ArtifactsOK
    BY <2>2, <2>3 DEF Init, ArtifactsOK
  <2>10. QED
    BY <2>5, <2>6, <2>7, <2>8, <2>9, TypeParts
<1>2. MarksInOrder
  <2>1. Len(boundaries) = 1 /\ boundaries[1] = "bootstrap" /\ PhaseOrder[1] = "bootstrap" /\ phase = "bootstrap"
    BY DEF Init, PhaseOrder
  <2>2. pc = "invoke"
    BY DEF Init
  <2>3. QED
    BY <2>1, <2>2 DEF MarksInOrder, InOrder
<1>3. CallsOfPhase /\ TasksInLoad /\ ResultDecided /\ StackHeld /\ Untouched /\ Documented
  BY DEF Init, CallsOfPhase, TasksInLoad, ResultDecided, StackHeld, Untouched, Documented, Before,
         Holding, SetupStages, NoExit, NoSummary
<1>4. WorkloadTagged /\ NoStackLeftBehind /\ SuccessIsDocumented
  BY DEF Init, WorkloadTagged, NoStackLeftBehind, SuccessIsDocumented, NoSummary, NoExit
<1>5. QED
  BY <1>1, <1>2, <1>3, <1>4 DEF IInv

(***************************************************************************)
(* Which steps touch which variables.                                      *)
(***************************************************************************)

TaskSteps == \E t \in Tasks : TaskStep(t)
Dispatches == \E i \in Intents : Dispatch(i)

\* The artifacts are the main thread's.
LEMMA ArtifactsBy ==
  ASSUME Next, ~ReadEvidence, ~TallyOutcomes, ~Finalize
  PROVE  UNCHANGED artifactVars
BY DEF Next, MainStep, Setup, Invoke, CreateRun, Reserve, StartStack, CheckHealth, HealthTimeout, MainCall,
  MainAnswer, GiveUp, LoadRefused, BeginLoad, BeginDrain, EndDrain, StopStack, Exit, Interrupt,
  SampleResources, Dispatch, TaskStep, TaskCall, TaskAnswer, TaskEnds, artifactVars

\* So is the log of the tracker.
LEMMA TrackerBy ==
  ASSUME Next, ~MainAnswer, ~BeginLoad, ~BeginDrain
  PROVE  UNCHANGED <<phase, boundaries>>
BY DEF Next, MainStep, Setup, Invoke, CreateRun, Reserve, StartStack, CheckHealth, HealthTimeout, MainCall,
  GiveUp, ReadEvidence, LoadRefused, EndDrain, TallyOutcomes, StopStack, Finalize, Exit, Interrupt,
  SampleResources, Dispatch, TaskStep, TaskCall, TaskAnswer, TaskEnds

\* The stack and its helpers.
LEMMA StackBy ==
  ASSUME Next, ~Reserve, ~StartStack, ~CheckHealth, ~GiveUp, ~StopStack, ~SampleResources
  PROVE  UNCHANGED <<stackVars, stopFailed>>
BY DEF Next, MainStep, Setup, Invoke, CreateRun, HealthTimeout, MainCall, MainAnswer,
  ReadEvidence, LoadRefused, BeginLoad, BeginDrain, EndDrain, TallyOutcomes, Finalize, Exit, Interrupt,
  Dispatch, TaskStep, TaskCall, TaskAnswer, TaskEnds, stackVars

\* Calls and tasks.
LEMMA TasksBy ==
  ASSUME Next, ~MainCall, ~MainAnswer, ~BeginLoad, ~EndDrain, ~Dispatches, ~TaskSteps
  PROVE  UNCHANGED <<taskVars, outcomes>>
BY DEF Next, MainStep, Setup, Invoke, CreateRun, Reserve, StartStack, CheckHealth, HealthTimeout, GiveUp,
  ReadEvidence, LoadRefused, BeginDrain, TallyOutcomes, StopStack, Finalize, Exit, Interrupt,
  SampleResources, Dispatches, TaskSteps, taskVars

\* Everything else belongs to the main thread, but for the interrupt.
LEMMA ControlBy ==
  ASSUME Next, ~MainStep
  PROVE  UNCHANGED <<pc, setupVars, lock, passed, result, exit>>
BY DEF Next, Interrupt, SampleResources, Dispatch, TaskStep, TaskCall, TaskAnswer, TaskEnds

LEMMA ControlType ==
  ASSUME TypeOK, Next
  PROVE  ControlOK'
<1> USE DEF setupVars, healthVars
<1>0. ControlOK
  BY TypeParts
<1>1. CASE Invoke \/ CreateRun \/ Reserve \/ StartStack \/ LoadRefused \/ GiveUp \/ ReadEvidence
  BY <1>0, <1>1 DEF ControlOK, Invoke, CreateRun, Reserve, StartStack, LoadRefused, GiveUp, ReadEvidence,
     Stages, Results
<1>2. CASE CheckHealth \/ HealthTimeout
  BY <1>0, <1>2, LifecycleAssumption DEF ControlOK, CheckHealth, HealthTimeout, Stages, SetupStages
<1>3. CASE MainCall
  BY <1>0, <1>3 DEF ControlOK, MainCall
<1>4. CASE MainAnswer
  <2>1. pc' \in Stages
    BY <1>0, <1>4 DEF ControlOK, MainAnswer, Stages, SetupStages, StageAfter
  <2>2. tries' \in 0..(MaxTries - 1)
    BY <1>0, <1>4, LifecycleAssumption DEF ControlOK, MainAnswer
  <2>3. QED
    BY <1>0, <1>4, <2>1, <2>2 DEF ControlOK, MainAnswer
<1>5. CASE BeginLoad \/ BeginDrain \/ EndDrain \/ TallyOutcomes
  BY <1>0, <1>5 DEF ControlOK, BeginLoad, BeginDrain, EndDrain, TallyOutcomes, Stages
<1>6. CASE StopStack \/ Finalize
  <2>1. pc' \in {"exit", "finalize"}
    BY <1>6 DEF StopStack, Finalize
  <2>2. result' \in {result, "loadError", "teardownError", "ok", "setupError"}
    BY <1>6 DEF StopStack, Finalize
  <2>3. UNCHANGED <<tries, polls, streak, exit>>
    BY <1>6 DEF StopStack, Finalize
  <2>4. QED
    BY <1>0, <2>1, <2>2, <2>3 DEF ControlOK, Stages, Results
<1>7. CASE Exit
  <2>1. exit' \in {NoExit, 0, 1, 2, 130}
    BY <1>7 DEF Exit, ExitCode, Verdict
  <2>2. QED
    BY <1>0, <1>7, <2>1 DEF ControlOK, Exit, Stages
<1>8. CASE ~MainStep
  BY <1>0, <1>8, ControlBy DEF ControlOK
<1>9. QED
  BY <1>1, <1>2, <1>3, <1>4, <1>5, <1>6, <1>7, <1>8 DEF MainStep, Setup

LEMMA FlagsType ==
  ASSUME TypeOK, Next
  PROVE  FlagsOK'
<1> USE DEF FlagsOK
<1>0. FlagsOK
  BY TypeParts
<1>1. lock' \in {lock, TRUE, FALSE} /\ passed' \in BOOLEAN \cup {passed}
  <2>1. CASE MainStep
    BY <2>1 DEF MainStep, Setup, Invoke, CreateRun, Reserve, StartStack, CheckHealth, HealthTimeout, MainCall,
       MainAnswer, GiveUp, ReadEvidence, LoadRefused, BeginLoad, BeginDrain, EndDrain, TallyOutcomes,
       StopStack, Finalize, Exit
  <2>2. QED
    BY <2>1, ControlBy
<1>2. stopFailed' \in {stopFailed, TRUE}
  <2>1. CASE Reserve \/ StartStack \/ CheckHealth \/ GiveUp \/ StopStack \/ SampleResources
    BY <2>1 DEF Reserve, StartStack, CheckHealth, GiveUp, StopStack, SampleResources, Stop
  <2>2. QED
    BY <2>1, StackBy
<1>3. signalled' \in {signalled, TRUE}
  <2>1. CASE MainCall \/ MainAnswer \/ BeginLoad \/ EndDrain \/ Dispatches \/ TaskSteps
    BY <2>1 DEF MainCall, MainAnswer, BeginLoad, EndDrain, Dispatches, Dispatch, TaskSteps, TaskStep, TaskCall,
       TaskAnswer, TaskEnds
  <2>2. QED
    BY <2>1, TasksBy DEF taskVars
<1>4. cancelled' \in {cancelled, TRUE}
  BY DEF Next, MainStep, Setup, Invoke, CreateRun, Reserve, StartStack, CheckHealth, HealthTimeout, MainCall,
     MainAnswer, GiveUp, ReadEvidence, LoadRefused, BeginLoad, BeginDrain, EndDrain, TallyOutcomes,
     StopStack, Finalize, Exit, Interrupt, SampleResources, Dispatch, TaskStep, TaskCall, TaskAnswer, TaskEnds
<1>5. QED
  BY <1>0, <1>1, <1>2, <1>3, <1>4

LEMMA TrackerType ==
  ASSUME TypeOK, Next
  PROVE  TrackerOK'
<1>0. TrackerOK /\ {"readiness", "warmup", "funding", "load", "drain"} \subseteq Phases
  BY TypeParts, PhasesAre
<1>1. CASE MainAnswer
  BY <1>0, <1>1 DEF TrackerOK, MainAnswer, Enter, Mark, StageAfter, SetupStages
<1>2. CASE BeginLoad \/ BeginDrain
  BY <1>0, <1>2 DEF TrackerOK, BeginLoad, BeginDrain, Mark
<1>3. QED
  BY <1>0, <1>1, <1>2, TrackerBy DEF TrackerOK

LEMMA TasksType ==
  ASSUME TypeOK, Next
  PROVE  TasksOK'
<1>0. TasksOK /\ phase \in Phases
  BY TypeParts DEF TrackerOK
<1>1. CASE MainCall
  BY <1>0, <1>1 DEF TasksOK, MainCall, Issue
<1>2. ASSUME NEW c \in Callers, Answer(c)
      PROVE  call' \in [Callers -> Phases \cup {NoCall}] /\ records' \in SUBSET CallRecords
  BY <1>0, <1>2 DEF TasksOK, Answer, CallRecords
<1>3. CASE MainAnswer
  BY <1>0, <1>2, <1>3 DEF TasksOK, MainAnswer, Callers
<1>4. CASE BeginLoad \/ EndDrain
  BY <1>0, <1>4 DEF TasksOK, BeginLoad, EndDrain, Tasks
<1>5. CASE Dispatches
  BY <1>0, <1>5 DEF TasksOK, Dispatches, Dispatch, Tasks
<1>6. ASSUME NEW t \in Tasks, TaskCall(t)
      PROVE  TasksOK'
  BY <1>0, <1>6 DEF TasksOK, TaskCall, Issue
<1>7. ASSUME NEW t \in Tasks, TaskAnswer(t)
      PROVE  TasksOK'
  BY <1>0, <1>2, <1>7 DEF TasksOK, TaskAnswer, Callers
<1>8. ASSUME NEW t \in Tasks, TaskEnds(t)
      PROVE  TasksOK'
  BY <1>0, <1>8 DEF TasksOK, TaskEnds
<1>9. QED
  BY <1>0, <1>1, <1>3, <1>4, <1>5, <1>6, <1>7, <1>8, TasksBy DEF TasksOK, taskVars, TaskSteps, TaskStep

LEMMA StackType ==
  ASSUME TypeOK, Next
  PROVE  StackOK'
<1>0. StackOK
  BY TypeParts
<1>1. CASE Reserve \/ StartStack \/ CheckHealth \/ GiveUp \/ StopStack
  BY <1>0, <1>1 DEF StackOK, Reserve, StartStack, CheckHealth, GiveUp, StopStack, Stop
<1>2. CASE SampleResources
  BY <1>0, <1>2 DEF StackOK, SampleResources, Listed
<1>3. QED
  BY <1>0, <1>1, <1>2, StackBy DEF StackOK, stackVars

LEMMA ArtifactsType ==
  ASSUME TypeOK, Next
  PROVE  ArtifactsOK'
<1>0. ArtifactsOK /\ TasksOK /\ TrackerOK
  BY TypeParts
<1>1. CASE ReadEvidence
  <2>1. evidence' \in Evidence
    BY <1>1 DEF ReadEvidence, Evidence, Images
  <2>2. QED
    BY <1>0, <1>1, <2>1 DEF ArtifactsOK, ReadEvidence
<1>2. CASE TallyOutcomes
  BY <1>0, <1>2 DEF ArtifactsOK, TasksOK, TallyOutcomes
<1>3. ASSUME NEW ok \in BOOLEAN, WriteArtifacts(ok)
      PROVE  /\ latency' \in SUBSET CallRecords
             /\ manifest' \in [completed : BOOLEAN, boundaries : Seq(Phases), assertion : BOOLEAN, evidence : Evidence]
             /\ summary' \in [written : BOOLEAN, intents : SUBSET Intents, calls : SUBSET CallRecords]
  BY <1>0, <1>3 DEF ArtifactsOK, TasksOK, TrackerOK, WriteArtifacts, FlushLatencySamples
<1>4. CASE Finalize
  <2>1. \E ok \in BOOLEAN : WriteArtifacts(ok)
    BY <1>4 DEF Finalize
  <2>2. QED
    BY <1>0, <1>3, <1>4, <2>1 DEF ArtifactsOK, Finalize
<1>5. QED
  BY <1>0, <1>1, <1>2, <1>4, ArtifactsBy DEF ArtifactsOK, artifactVars

LEMMA TypeStep ==
  ASSUME TypeOK, Next
  PROVE  TypeOK'
<1>1. ControlOK' /\ FlagsOK' /\ TrackerOK' /\ TasksOK' /\ StackOK' /\ ArtifactsOK'
  BY ControlType, FlagsType, TrackerType, TasksType, StackType, ArtifactsType
<1>2. QED
  BY <1>1 DEF TypeOK, ControlOK, FlagsOK, TrackerOK, TasksOK, StackOK, ArtifactsOK, Results

-----------------------------------------------------------------------------
(* The phases of a run and the calls tagged with them.                     *)

\* The log grows at its end.
LEMMA Marked ==
  ASSUME TypeOK, InOrder, NEW p \in Phases, Mark(p), Len(boundaries) < 6,
         p = PhaseOrder[Len(boundaries) + 1]
  PROVE  InOrder' /\ Len(boundaries') = Len(boundaries) + 1
<1>1. boundaries \in Seq(Phases) /\ Len(boundaries) \in 1..6 /\ boundaries' = Append(boundaries, p) /\ phase' = p
  BY DEF TypeOK, InOrder, Mark
<1>2. /\ Len(boundaries') = Len(boundaries) + 1 /\ boundaries'[Len(boundaries) + 1] = p
      /\ \A k \in 1..Len(boundaries) : boundaries'[k] = boundaries[k]
  BY <1>1, AppendProperties
<1>3. QED
  BY <1>1, <1>2 DEF InOrder

LEMMA MarksStep ==
  ASSUME IInv, Next
  PROVE  MarksInOrder'
<1> USE DEF Before
<1>0. TypeOK /\ MarksInOrder /\ InOrder /\ ResultDecided
  BY DEF IInv, MarksInOrder
<1>a. /\ PhaseOrder[2] = "readiness" /\ PhaseOrder[3] = "warmup" /\ PhaseOrder[4] = "funding"
      /\ PhaseOrder[5] = "load" /\ PhaseOrder[6] = "drain"
      /\ {"readiness", "warmup", "funding", "load", "drain"} \subseteq Phases
  BY PhasesAre DEF PhaseOrder
<1>b. UNCHANGED <<phase, boundaries>> => InOrder'
  BY <1>0 DEF InOrder
<1>1. CASE MainAnswer
  <2>1. CASE UNCHANGED <<phase, boundaries>> /\ (pc' = pc \/ pc' = "giveUp") /\ UNCHANGED result
    BY <1>0, <1>b, <2>1 DEF MarksInOrder
  <2>2. CASE pc' = StageAfter[pc] /\ Enter(StageAfter[pc]) /\ UNCHANGED result
    <3>1. CASE pc = "height"
      <4>1. pc' = "readiness" /\ Mark("readiness") /\ Len(boundaries) = 1
        BY <1>0, <2>2, <3>1 DEF MarksInOrder, Enter, StageAfter
      <4>2. QED
        BY <1>0, <1>a, <4>1, Marked DEF MarksInOrder
    <3>2. CASE pc = "readiness"
      <4>1. pc' = "warmup" /\ Mark("warmup") /\ Len(boundaries) = 2
        BY <1>0, <2>2, <3>2 DEF MarksInOrder, Enter, StageAfter
      <4>2. QED
        BY <1>0, <1>a, <4>1, Marked DEF MarksInOrder
    <3>3. CASE pc = "provision"
      <4>1. pc' = "funding" /\ Mark("funding") /\ Len(boundaries) = 3
        BY <1>0, <2>2, <3>3 DEF MarksInOrder, Enter, StageAfter
      <4>2. QED
        BY <1>0, <1>a, <4>1, Marked DEF MarksInOrder
    <3>4. CASE pc = "warmup"
      <4>1. pc' = "provision" /\ UNCHANGED <<phase, boundaries>> /\ Len(boundaries) = 3
        BY <1>0, <2>2, <3>4 DEF MarksInOrder, Enter, StageAfter
      <4>2. QED
        BY <1>0, <1>b, <4>1 DEF MarksInOrder
    <3>5. CASE pc = "funding"
      <4>1. pc' = "evidence" /\ UNCHANGED <<phase, boundaries>> /\ Len(boundaries) = 4
        BY <1>0, <2>2, <3>5 DEF MarksInOrder, Enter, StageAfter
      <4>2. QED
        BY <1>0, <1>b, <4>1 DEF MarksInOrder
    <3>6. QED
      BY <1>1, <3>1, <3>2, <3>3, <3>4, <3>5 DEF MainAnswer, SetupStages
  <2>3. QED
    BY <1>1, <2>1, <2>2 DEF MainAnswer
<1>2. CASE BeginLoad
  <2>1. CASE pc = "populate" /\ pc' = "spawn" /\ Mark("load")
    <3>1. Len(boundaries) = 4
      BY <1>0, <1>b, <2>1 DEF MarksInOrder
    <3>2. QED
      BY <1>0, <1>b, <1>a, <2>1, <3>1, Marked DEF MarksInOrder
  <2>2. CASE pc = "spawn" /\ pc' = "load" /\ UNCHANGED <<phase, boundaries>>
    BY <1>0, <1>b, <2>2 DEF MarksInOrder
  <2>3. QED
    BY <1>2, <2>1, <2>2 DEF BeginLoad
<1>3. CASE BeginDrain
  <2>1. pc = "load" /\ pc' = "drain" /\ Mark("drain") /\ Len(boundaries) = 5
    BY <1>0, <1>b, <1>3 DEF MarksInOrder, BeginDrain
  <2>2. QED
    BY <1>0, <1>b, <1>a, <2>1, Marked DEF MarksInOrder
<1>4. CASE MainStep /\ UNCHANGED <<phase, boundaries>>
  <2>1. CASE UNCHANGED <<pc, result>>
    BY <1>0, <1>b, <1>4, <2>1 DEF MarksInOrder
  <2>2. CASE Invoke \/ CreateRun \/ Reserve \/ StartStack \/ CheckHealth \/ HealthTimeout \/ GiveUp \/ ReadEvidence
    BY <1>0, <1>b, <1>4, <2>2 DEF MarksInOrder, Invoke, CreateRun, Reserve, StartStack, CheckHealth,
       HealthTimeout, GiveUp, ReadEvidence
  <2>3. CASE EndDrain \/ TallyOutcomes \/ LoadRefused \/ Finalize \/ Exit
    BY <1>0, <1>b, <1>4, <2>3 DEF MarksInOrder, ResultDecided, EndDrain, TallyOutcomes, LoadRefused, Finalize, Exit
  <2>4. CASE StopStack
    BY <1>0, <1>b, <1>4, <2>4 DEF MarksInOrder, StopStack
  <2>5. QED
    BY <1>1, <1>2, <1>3, <1>4, <2>1, <2>2, <2>3, <2>4 DEF MainStep, Setup, MainCall
<1>5. CASE ~MainStep
  <2>1. UNCHANGED <<phase, boundaries>>
    BY <1>5, TrackerBy DEF MainStep, Setup
  <2>2. QED
    BY <1>0, <1>b, <1>5, <2>1, ControlBy DEF MarksInOrder
<1>6. QED
  BY <1>1, <1>2, <1>3, <1>4, <1>5, TrackerBy

\* The phase is one of the workload when five or six of them were marked.
LEMMA PhaseSide ==
  ASSUME InOrder
  PROVE  phase \in Workload <=> Len(boundaries) \in {5, 6}
<1>1. ASSUME NEW n \in 1..6, n = Len(boundaries)
      PROVE  phase = PhaseOrder[n]
  BY <1>1 DEF InOrder
<1>2. \A k \in 1..6 : PhaseOrder[k] \in Workload <=> k \in {5, 6}
  BY PhasesAre
<1>3. QED
  BY <1>1, <1>2 DEF InOrder

\* Only the start of the load crosses from one side to the other.
LEMMA SideStays ==
  ASSUME IInv, Next, ~(BeginLoad /\ pc = "populate")
  PROVE  phase' \in Workload <=> phase \in Workload
<1>0. MarksInOrder /\ InOrder /\ (phase \in Workload <=> Len(boundaries) \in {5, 6})
  BY PhaseSide DEF IInv, MarksInOrder
<1>1. CASE MainAnswer
  <2>1. phase \notin Workload
    BY <1>0, <1>1 DEF MainAnswer, SetupStages, MarksInOrder, Before
  <2>2. phase' \in {phase, "readiness", "warmup", "funding"}
    BY <1>1 DEF MainAnswer, Enter, Mark
  <2>3. QED
    BY <2>1, <2>2 DEF Workload
<1>2. CASE BeginLoad
  BY <1>2 DEF BeginLoad
<1>3. CASE BeginDrain
  <2>1. phase \in Workload
    BY <1>0, <1>3 DEF BeginDrain, MarksInOrder
  <2>2. QED
    BY <1>3, <2>1 DEF BeginDrain, Mark, Workload
<1>4. QED
  BY <1>1, <1>2, <1>3, TrackerBy

\* At the start of the load nobody is in a call.
LEMMA QuietStart ==
  ASSUME IInv, pc = "populate"
  PROVE  live = {} /\ \A c \in Callers : call[c] = NoCall
<1>1. phase \notin Workload
  BY PhaseSide DEF IInv, MarksInOrder
<1>2. live = {}
  BY <1>1 DEF IInv, TasksInLoad
<1>3. QED
  BY <1>2 DEF IInv, CallsOfPhase, SetupStages

\* The record of an answer is tagged on the side its call was issued on.
LEMMA AnswerTagged ==
  ASSUME IInv, NEW c \in Callers, Answer(c)
  PROVE  /\ WorkloadTagged' /\ call'[c] = NoCall
         /\ \A d \in Callers \ {c} : call'[d] = call[d]
<1>1. call[c] \in Workload <=> phase \in Workload
  BY DEF IInv, CallsOfPhase, Answer
<1>2. WorkloadTagged'
  BY <1>1 DEF IInv, WorkloadTagged, Answer
<1>3. QED
  BY <1>2 DEF IInv, TypeOK, Answer

LEMMA TaggedStep ==
  ASSUME IInv, Next
  PROVE  WorkloadTagged'
<1>1. CASE MainAnswer
  BY <1>1, AnswerTagged DEF MainAnswer, Callers
<1>2. ASSUME NEW t \in Tasks, TaskAnswer(t)
      PROVE  WorkloadTagged'
  BY <1>2, AnswerTagged DEF TaskAnswer, Callers
<1>3. CASE UNCHANGED records
  BY <1>3 DEF IInv, WorkloadTagged
<1>4. CASE MainCall \/ BeginLoad \/ EndDrain \/ Dispatches \/ \E t \in Tasks : TaskCall(t) \/ TaskEnds(t)
  BY <1>3, <1>4 DEF MainCall, BeginLoad, EndDrain, Dispatches, Dispatch, TaskCall, TaskEnds
<1>5. QED
  BY <1>1, <1>2, <1>3, <1>4, TasksBy DEF taskVars, TaskSteps, TaskStep

LEMMA LoadStep ==
  ASSUME IInv, Next
  PROVE  TasksInLoad'
<1>0. TasksInLoad /\ MarksInOrder /\ InOrder /\ (phase \in Workload <=> Len(boundaries) \in {5, 6})
  BY PhaseSide DEF IInv, MarksInOrder
<1>1. CASE BeginLoad
  <2>1. CASE pc = "populate" /\ pc' = "spawn" /\ UNCHANGED live
    BY <2>1, QuietStart DEF TasksInLoad
  <2>2. CASE pc = "spawn" /\ pc' = "load" /\ live' = Background /\ phase' = phase
    BY <1>0, <2>2 DEF TasksInLoad, MarksInOrder
  <2>3. QED
    BY <1>1, <2>1, <2>2 DEF BeginLoad
<1>2. CASE Dispatches
  <2>1. pc = "load" /\ UNCHANGED <<pc, phase>>
    BY <1>2 DEF Dispatches, Dispatch
  <2>2. QED
    BY <1>0, <2>1 DEF TasksInLoad, MarksInOrder
<1>3. CASE EndDrain
  BY <1>0, <1>3 DEF TasksInLoad, EndDrain
<1>4. CASE BeginDrain
  <2>1. (live # {} => phase' \in Workload) /\ UNCHANGED live /\ pc' = "drain"
    BY <1>0, <1>4, SideStays DEF TasksInLoad, BeginDrain, BeginLoad, taskVars
  <2>2. QED
    BY <2>1 DEF TasksInLoad
<1>5. CASE ~BeginLoad /\ ~Dispatches /\ ~EndDrain /\ ~BeginDrain
  <2>1. live' \subseteq live
    <3>1. CASE MainCall \/ MainAnswer \/ TaskSteps
      BY <3>1 DEF MainCall, MainAnswer, TaskSteps, TaskStep, TaskCall, TaskAnswer, TaskEnds
    <3>2. QED
      BY <1>5, <3>1, TasksBy DEF taskVars
  <2>2. /\ pc' \notin {"load", "drain"} => pc \notin {"load", "drain"}
        /\ pc' = "spawn" => pc = "spawn"
    <3>1. CASE MainAnswer
      BY <3>1 DEF MainAnswer, SetupStages, StageAfter
    <3>2. CASE MainStep /\ ~MainAnswer
      BY <1>5, <3>2 DEF MainStep, Setup, Invoke, CreateRun, Reserve, StartStack, CheckHealth, HealthTimeout,
         MainCall, GiveUp, ReadEvidence, LoadRefused, TallyOutcomes, StopStack, Finalize, Exit
    <3>3. QED
      BY <3>1, <3>2, ControlBy
  <2>3. QED
    BY <1>0, <1>5, <2>1, <2>2, SideStays DEF TasksInLoad
<1>6. QED
  BY <1>1, <1>2, <1>3, <1>4, <1>5

LEMMA CallsStep ==
  ASSUME IInv, Next
  PROVE  CallsOfPhase'
<1>0. TypeOK /\ CallsOfPhase /\ Main \notin Tasks
  BY LifecycleAssumption DEF IInv, Tasks
<1>1. CASE BeginLoad /\ pc = "populate"
  BY <1>1, QuietStart DEF BeginLoad, CallsOfPhase
<1>2. ASSUME ~(BeginLoad /\ pc = "populate"), NEW c \in Callers, call'[c] # NoCall
      PROVE  /\ call'[c] \in Workload <=> phase' \in Workload
             /\ c = Main => pc' \in SetupStages
             /\ c # Main => c \in live'
  <2>0. phase' \in Workload <=> phase \in Workload
    BY <1>2, SideStays
  <2>1. CASE MainCall
    BY <1>0, <1>2, <2>0, <2>1 DEF MainCall, Issue, TypeOK, CallsOfPhase
  <2>2. CASE MainAnswer
    <3>1. c # Main /\ call'[c] = call[c] /\ live' = live
      BY <1>2, <2>2, AnswerTagged DEF MainAnswer, Callers
    <3>2. QED
      BY <1>0, <1>2, <2>0, <3>1 DEF CallsOfPhase
  <2>3. ASSUME NEW t \in Tasks, TaskCall(t)
        PROVE  /\ call'[c] \in Workload <=> phase' \in Workload
               /\ c = Main => pc' \in SetupStages
               /\ c # Main => c \in live'
    BY <1>0, <1>2, <2>0, <2>3 DEF TaskCall, Issue, TypeOK, CallsOfPhase
  <2>4. ASSUME NEW t \in Tasks, TaskAnswer(t)
        PROVE  /\ call'[c] \in Workload <=> phase' \in Workload
               /\ c = Main => pc' \in SetupStages
               /\ c # Main => c \in live'
    <3>1. c # t /\ call'[c] = call[c] /\ UNCHANGED <<live, pc>>
      BY <1>2, <2>4, AnswerTagged DEF TaskAnswer, Callers
    <3>2. QED
      BY <1>0, <1>2, <2>0, <3>1 DEF CallsOfPhase
  <2>5. ASSUME NEW t \in Tasks, TaskEnds(t)
        PROVE  /\ call'[c] \in Workload <=> phase' \in Workload
               /\ c = Main => pc' \in SetupStages
               /\ c # Main => c \in live'
    BY <1>0, <1>2, <2>0, <2>5 DEF TaskEnds, CallsOfPhase
  <2>6. CASE Dispatches
    BY <1>0, <1>2, <2>0, <2>6 DEF Dispatches, Dispatch, CallsOfPhase
  <2>7. CASE BeginLoad
    <3>1. pc = "spawn" /\ UNCHANGED <<call, phase>>
      BY <1>2, <2>7 DEF BeginLoad
    <3>2. live = {} /\ call[c] = NoCall
      BY <3>1 DEF IInv, TasksInLoad, CallsOfPhase, SetupStages
    <3>3. QED
      BY <1>2, <3>1, <3>2
  <2>8. CASE UNCHANGED <<call, live>> /\ (pc \in SetupStages => pc' = pc)
    BY <1>0, <1>2, <2>0, <2>8 DEF CallsOfPhase
  <2>9. CASE MainStep /\ ~MainCall /\ ~MainAnswer /\ ~BeginLoad
    BY <2>8, <2>9 DEF MainStep, Setup, Invoke, CreateRun, Reserve, StartStack, CheckHealth, HealthTimeout, GiveUp,
       ReadEvidence, LoadRefused, BeginDrain, EndDrain, TallyOutcomes, StopStack, Finalize, Exit, SetupStages,
       taskVars
  <2>10. CASE Interrupt \/ SampleResources
    BY <2>8, <2>10 DEF Interrupt, SampleResources, taskVars
  <2>11. QED
    BY <2>1, <2>2, <2>3, <2>4, <2>5, <2>6, <2>7, <2>9, <2>10 DEF Next, Dispatches, TaskStep
<1>3. QED
  BY <1>1, <1>2 DEF CallsOfPhase

-----------------------------------------------------------------------------
(* The result of a run, its stack and its artifacts.                       *)

LEMMA ResultStep ==
  ASSUME IInv, Next
  PROVE  ResultDecided'
<1>0. ResultDecided /\ TypeOK
  BY DEF IInv
<1>1. CASE MainAnswer
  <2>1. pc \in SetupStages /\ pc' \notin {"stop", "finalize", "exit", "done"} /\ UNCHANGED <<result, exit>>
    BY <1>1 DEF MainAnswer, SetupStages, StageAfter
  <2>2. QED
    BY <1>0, <2>1 DEF ResultDecided, SetupStages
<1>2. CASE Invoke \/ CreateRun \/ Reserve \/ StartStack \/ LoadRefused \/ GiveUp \/ ReadEvidence
  BY <1>0, <1>2 DEF ResultDecided, Invoke, CreateRun, Reserve, StartStack, LoadRefused, GiveUp, ReadEvidence
<1>3. CASE CheckHealth \/ HealthTimeout \/ MainCall
  BY <1>0, <1>3 DEF ResultDecided, CheckHealth, HealthTimeout, MainCall
<1>4. CASE BeginLoad \/ BeginDrain \/ EndDrain \/ TallyOutcomes
  BY <1>0, <1>4 DEF ResultDecided, BeginLoad, BeginDrain, EndDrain, TallyOutcomes
<1>5. CASE StopStack
  <2>1. /\ pc = "stop" /\ UNCHANGED exit
        /\ pc' = "exit" \/ (pc' = "finalize" /\ UNCHANGED result)
    BY <1>5 DEF StopStack
  <2>2. QED
    BY <1>0, <2>1 DEF ResultDecided, NoExit
<1>6. CASE Finalize
  <2>1. pc \in {"finalize", "abort"} /\ pc' = "exit" /\ UNCHANGED exit
    BY <1>6 DEF Finalize
  <2>2. QED
    BY <1>0, <2>1 DEF ResultDecided, NoExit
<1>7. CASE Exit
  <2>1. /\ pc' = "done" /\ UNCHANGED result
        /\ exit' \in {0, 2} => result \in {"ok", "dryRun"}
    BY <1>7 DEF Exit, ExitCode, Verdict
  <2>2. QED
    BY <1>0, <2>1 DEF ResultDecided
<1>8. CASE ~MainStep
  BY <1>0, <1>8, ControlBy DEF ResultDecided
<1>9. QED
  BY <1>1, <1>2, <1>3, <1>4, <1>5, <1>6, <1>7, <1>8 DEF MainStep, Setup

LEMMA StackStep ==
  ASSUME IInv, Next
  PROVE  StackHeld' /\ NoStackLeftBehind'
<1> USE DEF StackHeld, NoStackLeftBehind, Before, Holding, SetupStages, stackVars
<1>0. StackHeld /\ NoStackLeftBehind /\ TypeOK /\ ResultDecided
  BY DEF IInv
<1>1. CASE Invoke \/ CreateRun \/ Reserve \/ ReadEvidence \/ LoadRefused
  BY <1>0, <1>1 DEF Invoke, CreateRun, Reserve, ReadEvidence, LoadRefused
<1>2. CASE StartStack
  BY <1>0, <1>2 DEF StartStack
<1>3. CASE CheckHealth \/ HealthTimeout
  BY <1>0, <1>3 DEF CheckHealth, HealthTimeout
<1>4. CASE MainAnswer
  <2>1. /\ pc \in SetupStages /\ pc' \in SetupStages \cup {"giveUp", "evidence"}
        /\ UNCHANGED <<stackVars, stopFailed, lock, result>>
    BY <1>4 DEF MainAnswer, StageAfter
  <2>2. QED
    BY <1>0, <2>1
<1>5. CASE GiveUp
  BY <1>0, <1>5 DEF GiveUp, Stop
<1>6. CASE BeginLoad \/ BeginDrain \/ EndDrain \/ TallyOutcomes
  BY <1>0, <1>6 DEF BeginLoad, BeginDrain, EndDrain, TallyOutcomes
<1>7. CASE StopStack
  BY <1>0, <1>7 DEF StopStack, Stop
<1>8. CASE Finalize \/ Exit
  BY <1>0, <1>8 DEF Finalize, Exit, ResultDecided
<1>9. CASE MainCall
  BY <1>0, <1>9 DEF MainCall
<1>10. CASE ~MainStep
  <2>1. UNCHANGED <<pc, lock, result>>
    BY <1>10, ControlBy
  <2>2. UNCHANGED <<stack, helpers, stopFailed>>
    <3>1. CASE SampleResources
      BY <3>1 DEF SampleResources
    <3>2. QED
      BY <1>10, <3>1, StackBy DEF MainStep, Setup
  <2>3. QED
    BY <1>0, <2>1, <2>2
<1>11. QED
  BY <1>1, <1>2, <1>3, <1>4, <1>5, <1>6, <1>7, <1>8, <1>9, <1>10 DEF MainStep, Setup

\* A run that was never begun, or refused, stays as it is.
LEMMA UntouchedStep ==
  ASSUME IInv, Next
  PROVE  Untouched'
<1>1. pc' = "invoke" \/ result' \in {"dryRun", "refused"} => pc = "invoke" \/ result \in {"dryRun", "refused"}
  <2>1. CASE MainAnswer
    BY <2>1 DEF MainAnswer, SetupStages, StageAfter
  <2>2. CASE MainStep /\ ~MainAnswer
    BY <2>2 DEF MainStep, Setup, Invoke, CreateRun, Reserve, StartStack, CheckHealth, HealthTimeout, MainCall,
       GiveUp, ReadEvidence, LoadRefused, BeginLoad, BeginDrain, EndDrain, TallyOutcomes, StopStack, Finalize, Exit
  <2>3. QED
    BY <2>1, <2>2, ControlBy
<1>2. ASSUME pc = "invoke" \/ result \in {"dryRun", "refused"}
      PROVE  UNCHANGED <<boundaries, manifest, records, sampled, helpers, live>>
  <2>1. pc \in {"invoke", "exit", "done"} /\ live = {} /\ helpers = {}
    BY <1>2 DEF IInv, ResultDecided, Untouched
  <2>2. CASE MainStep
    <3>1. Invoke \/ Exit
      BY <2>1, <2>2 DEF MainStep, Setup, CreateRun, Reserve, StartStack, CheckHealth, HealthTimeout, MainCall,
         MainAnswer, SetupStages, GiveUp, ReadEvidence, LoadRefused, BeginLoad, BeginDrain, EndDrain, TallyOutcomes,
         StopStack, Finalize
    <3>2. QED
      BY <3>1 DEF Invoke, Exit, taskVars, stackVars, artifactVars
  <2>3. CASE Interrupt
    BY <2>3 DEF Interrupt, taskVars, stackVars, artifactVars
  <2>4. QED
    BY <2>1, <2>2, <2>3 DEF Next, SampleResources, Dispatch, TaskStep, TaskCall, TaskAnswer, Answer, TaskEnds
<1>3. QED
  BY <1>1, <1>2 DEF IInv, Untouched

\* Outside the load phase no intent ends, and no call of one is recorded.
LEMMA IntentsSettled ==
  ASSUME IInv, Next, pc \notin {"load", "drain"}
  PROVE  outcomes' = outcomes /\ \A r \in records' \ records : r.caller \notin Intents
<1>0. live \cap Intents = {} /\ Main \notin Intents /\ Background \cap Intents = {}
  BY LifecycleAssumption DEF IInv, TasksInLoad
<1>1. CASE UNCHANGED <<records, outcomes>>
  BY <1>1
<1>2. CASE MainAnswer
  BY <1>0, <1>2 DEF MainAnswer, Answer
<1>3. ASSUME NEW t \in Tasks, TaskStep(t)
      PROVE  outcomes' = outcomes /\ \A r \in records' \ records : r.caller \notin Intents
  <2>1. t \notin Intents
    BY <1>0, <1>3 DEF TaskStep, TaskCall, TaskAnswer, TaskEnds
  <2>2. QED
    BY <1>3, <2>1 DEF TaskStep, TaskCall, TaskAnswer, TaskEnds, Answer
<1>4. CASE MainCall \/ BeginLoad \/ EndDrain \/ Dispatches
  BY <1>1, <1>4 DEF MainCall, BeginLoad, EndDrain, Dispatches, Dispatch
<1>5. QED
  BY <1>1, <1>2, <1>3, <1>4, TasksBy DEF taskVars, TaskSteps

\* The log of a run that got to its drain.
LEMMA AllPhases ==
  ASSUME TypeOK, InOrder, Len(boundaries) = 6
  PROVE  boundaries = PhaseOrder
<1>1. boundaries \in Seq(Phases) /\ PhaseOrder \in Seq(Phases) /\ Len(PhaseOrder) = 6
  BY PhasesAre DEF TypeOK
<1>2. \A k \in 1..Len(boundaries) : boundaries[k] = PhaseOrder[k]
  BY DEF InOrder
<1>3. QED
  BY <1>1, <1>2, SeqEqual

\* The artifacts of a run come from what it left on disk.
LEMMA FinalizeStep ==
  ASSUME IInv, Finalize
  PROVE  Documented' /\ SuccessIsDocumented'
<1>0. /\ pc \in {"abort", "finalize"} /\ pc' = "exit" /\ ~summary.written /\ exit = NoExit
      /\ UNCHANGED <<outcomes, records, intents, boundaries, stack, exit>>
  BY DEF IInv, Documented, ResultDecided, Finalize, taskVars, stackVars
<1>1. CASE pc = "finalize" /\ result = "none"
  <2>1. /\ result' = "ok" /\ WriteArtifacts(TRUE)
    BY <1>1 DEF Finalize
  <2>2. /\ summary' = [written |-> TRUE, intents |-> intents, calls |-> records] /\ latency' = records
        /\ manifest' = [completed |-> TRUE, boundaries |-> boundaries, assertion |-> TRUE, evidence |-> evidence]
    BY <2>1 DEF WriteArtifacts, FlushLatencySamples
  <2>3. boundaries = PhaseOrder
    BY <1>1, AllPhases DEF IInv, MarksInOrder
  <2>4. intents = outcomes /\ stack = "down"
    BY <1>1 DEF IInv, Documented
  <2>5. QED
    BY <1>0, <2>1, <2>2, <2>3, <2>4 DEF Documented, SuccessIsDocumented
<1>2. CASE ~(pc = "finalize" /\ result = "none")
  <2>1. result' \in {"loadError", "setupError"} /\ WriteArtifacts(FALSE)
    BY <1>0, <1>2 DEF Finalize, IInv, ResultDecided
  <2>2. summary' = summary
    BY <2>1 DEF WriteArtifacts
  <2>3. QED
    BY <1>0, <2>1, <2>2 DEF Documented, SuccessIsDocumented, NoExit
<1>3. QED
  BY <1>1, <1>2

\* What an ended run keeps.
LEMMA EndedStep ==
  ASSUME IInv, Next, pc \in {"exit", "done"}
  PROVE  /\ pc' \in {"exit", "done"} /\ UNCHANGED <<result, stack, intents, manifest, latency, summary, outcomes>>
         /\ \A r \in records' \ records : r.caller \notin Intents
<1>1. outcomes' = outcomes /\ \A r \in records' \ records : r.caller \notin Intents
  BY IntentsSettled
<1>2. CASE MainStep
  <2>1. Exit
    BY <1>2 DEF MainStep, Setup, Invoke, CreateRun, Reserve, StartStack, CheckHealth, HealthTimeout, MainCall,
       MainAnswer, SetupStages, GiveUp, ReadEvidence, LoadRefused, BeginLoad, BeginDrain, EndDrain, TallyOutcomes,
       StopStack, Finalize
  <2>2. QED
    BY <1>1, <2>1 DEF Exit, stackVars, artifactVars
<1>3. CASE ~MainStep
  <2>1. UNCHANGED <<pc, result>>
    BY <1>3, ControlBy
  <2>2. stack' = stack
    BY <1>3, StackBy DEF MainStep, Setup, SampleResources, stackVars
  <2>3. UNCHANGED artifactVars
    BY <1>3, ArtifactsBy DEF MainStep
  <2>4. QED
    BY <1>1, <2>1, <2>2, <2>3 DEF artifactVars
<1>4. QED
  BY <1>2, <1>3

\* Before that there are no artifacts yet, and the intents go to disk before the stack stops.
LEMMA UnderWayStep ==
  ASSUME IInv, Next, pc \notin {"exit", "done"}, ~Finalize
  PROVE  /\ summary' = summary /\ ~summary.written /\ result' # "ok"
         /\ pc' \in {"stop", "finalize"} /\ result' = "none" => intents' = outcomes'
         /\ pc' = "finalize" => stack' = "down"
<1>0. Documented /\ ResultDecided
  BY DEF IInv
<1>1. summary' = summary /\ ~summary.written
  BY <1>0, ArtifactsBy DEF Documented, artifactVars, ReadEvidence, TallyOutcomes
<1>2. result' # "ok"
  <2>1. CASE MainStep
    BY <1>0, <2>1 DEF Documented, MainStep, Setup, Invoke, CreateRun, Reserve, StartStack, CheckHealth, HealthTimeout,
       MainCall, MainAnswer, GiveUp, ReadEvidence, LoadRefused, BeginLoad, BeginDrain, EndDrain, TallyOutcomes,
       StopStack, Exit
  <2>2. QED
    BY <1>0, <2>1, ControlBy DEF Documented
<1>3. ASSUME pc' \in {"stop", "finalize"}, result' = "none"
      PROVE  intents' = outcomes'
  <2>1. CASE TallyOutcomes
    BY <2>1 DEF TallyOutcomes
  <2>2. CASE StopStack
    BY <1>0, <1>3, <2>2 DEF StopStack, Documented, artifactVars
  <2>3. CASE LoadRefused
    BY <1>3, <2>3 DEF LoadRefused
  <2>4. CASE MainStep /\ ~TallyOutcomes /\ ~StopStack /\ ~LoadRefused
    BY <1>3, <2>4 DEF MainStep, Setup, Invoke, CreateRun, Reserve, StartStack, CheckHealth, HealthTimeout, MainCall,
       MainAnswer, SetupStages, StageAfter, GiveUp, ReadEvidence, BeginLoad, BeginDrain, EndDrain, Exit
  <2>5. CASE ~MainStep
    <3>1. UNCHANGED <<pc, result, artifactVars>>
      BY <2>5, ControlBy, ArtifactsBy DEF MainStep
    <3>2. outcomes' = outcomes
      BY <1>3, <3>1, IntentsSettled
    <3>3. QED
      BY <1>0, <1>3, <3>1, <3>2 DEF Documented, artifactVars
  <2>6. QED
    BY <2>1, <2>2, <2>3, <2>4, <2>5
<1>4. ASSUME pc' = "finalize"
      PROVE  stack' = "down"
  <2>1. CASE StopStack
    BY <1>4, <2>1 DEF StopStack, Stop
  <2>2. CASE MainStep /\ ~StopStack
    BY <1>4, <2>2 DEF MainStep, Setup, Invoke, CreateRun, Reserve, StartStack, CheckHealth, HealthTimeout, MainCall,
       MainAnswer, SetupStages, StageAfter, GiveUp, ReadEvidence, LoadRefused, BeginLoad, BeginDrain, EndDrain,
       TallyOutcomes, Exit
  <2>3. CASE ~MainStep
    <3>1. pc' = pc /\ stack' = stack
      BY <2>3, ControlBy, StackBy DEF MainStep, Setup, SampleResources, stackVars
    <3>2. QED
      BY <1>0, <1>4, <3>1 DEF Documented
  <2>4. QED
    BY <2>1, <2>2, <2>3
<1>5. QED
  BY <1>1, <1>2, <1>3, <1>4

LEMMA DocumentedStep ==
  ASSUME IInv, Next, ResultDecided', Untouched'
  PROVE  Documented' /\ SuccessIsDocumented'
<1>0. Documented /\ SuccessIsDocumented
  BY DEF IInv
<1>1. CASE Finalize
  BY <1>1, FinalizeStep
<1>2. CASE pc \in {"exit", "done"}
  <2>1. Documented'
    BY <1>0, <1>2, EndedStep DEF Documented
  <2>2. SuccessIsDocumented'
    BY <1>0, <1>2, <2>1, EndedStep DEF Documented, SuccessIsDocumented, ResultDecided, Untouched
  <2>3. QED
    BY <2>1, <2>2
<1>3. CASE ~Finalize /\ pc \notin {"exit", "done"}
  BY <1>3, UnderWayStep DEF Documented, SuccessIsDocumented, ResultDecided, Untouched
<1>4. QED
  BY <1>1, <1>2, <1>3

-----------------------------------------------------------------------------
(* What follows of a run. *)

LEMMA NextIInv == IInv /\ [Next]_vars => IInv'
<1>1. ASSUME IInv, Next
      PROVE  IInv'
  <2>1. TypeOK'
    BY <1>1, TypeStep DEF IInv
  <2>2. MarksInOrder' /\ CallsOfPhase' /\ TasksInLoad' /\ WorkloadTagged'
    BY <1>1, MarksStep, CallsStep, LoadStep, TaggedStep
  <2>3. ResultDecided' /\ StackHeld' /\ NoStackLeftBehind' /\ Untouched'
    BY <1>1, ResultStep, StackStep, UntouchedStep
  <2>4. Documented' /\ SuccessIsDocumented'
    BY <1>1, <2>3, DocumentedStep
  <2>5. QED
    BY <2>1, <2>2, <2>3, <2>4 DEF IInv
<1>2. IInv /\ UNCHANGED vars => IInv'
  BY DEF vars, setupVars, healthVars, taskVars, stackVars, artifactVars, IInv, TypeOK, WorkloadTagged,
    NoStackLeftBehind, SuccessIsDocumented, MarksInOrder, InOrder, CallsOfPhase, TasksInLoad, ResultDecided,
    StackHeld, Untouched, Documented
<1>3. QED
  BY <1>1, <1>2

\* The inductive invariant holds in every reachable state of a run.
THEOREM Invariance == Spec => []IInv
BY InitIInv, NextIInv, PTL DEF Spec

\* Every variable of a run stays in its range.
THEOREM TypeCorrect == Spec => []TypeOK
BY Invariance, PTL DEF IInv

\* A record is tagged with a phase of the workload exactly if its call was issued there
\* (phase.rs, is_workload; rpc/mod.rs reads the phase after the answer).
THEOREM TagSafety == Spec => []WorkloadTagged
BY Invariance, PTL DEF IInv

\* Once a run has started its stack no way out leaves it up unless stopping it failed, and only a
\* run whose setup failed leaves behind what its bootstrap scripts brought up
\* (scenarios/runner/lifecycle.rs, setup and teardown).
THEOREM StackSafety == Spec => []NoStackLeftBehind
BY Invariance, PTL DEF IInv

\* A run that reports success has its summary and its manifest, of all phases and intents
\* (scenarios/runner/mod.rs, finalize_run_artifacts).
THEOREM SuccessSafety == Spec => []SuccessIsDocumented
BY Invariance, PTL DEF IInv

=============================================================================
