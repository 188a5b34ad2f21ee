----------------------------- MODULE ResetState -----------------------------
(***************************************************************************)
(* How a run learns whether it starts on a fresh chain                     *)
(* (metrics/manifest.rs): the reset script (scripts/dev/regtest-reset.sh)  *)
(* records a generation and its height in reset-epoch-<env_id>, the first  *)
(* run of an environment that was never reset records a baseline of its    *)
(* own, and every run compares its starting height with the file.          *)
(*                                                                         *)
(* One environment.  The script takes no lock, so it may wipe the chain    *)
(* under a run whose stack has started; no run starts while it works.      *)
(* Zebra keeps its latest Depth blocks in memory only, and a restart may   *)
(* lose them (scripts/dev/regtest-miner-setup.sh:134).                     *)
(***************************************************************************)
EXTENDS Naturals, FiniteSets

CONSTANTS Depth,        \* Zebra's unfinalised blocks
          SetupBlocks,  \* blocks mined by regtest-init.sh and regtest-miner-setup.sh
          RunBlocks,    \* bound: blocks a run mines
          MaxRuns, MaxResets,   \* bounds: runs and resets started
          None

ASSUME ResetAssumption ==
  /\ Depth \in Nat /\ RunBlocks \in Nat /\ MaxRuns \in Nat /\ MaxResets \in Nat
  /\ SetupBlocks \in Nat /\ SetupBlocks > Depth
  /\ None \notin Nat \X Nat

VARIABLES
  tip, final,     \* the chain: its height, and how much of it is on disk
  up,             \* whether the stack is up
  gen,            \* wipes so far: the generation the volumes belong to
  file,           \* reset-epoch-<env_id>: None or <<epoch, height at reset>>
  fileGen,        \* the generation whose height the file holds
  run, start, startGen, mined, \* the run: stage, starting height, its generation, blocks
  reset, next,    \* the reset script: stage, the epoch it will record
  runs, resets,
  ended,          \* runs that ended since the file was written: <<generation, blocks mined>>
  manifest        \* the state part of the latest manifest

chainVars == <<tip, final, up, gen>>
fileVars == <<file, fileGen>>
runVars == <<run, start, startGen, mined, runs>>
resetVars == <<reset, next, resets>>
vars == <<chainVars, fileVars, runVars, resetVars, ended, manifest>>

Init ==
  /\ tip = 0 /\ final = 0 /\ up = FALSE /\ gen = 0
  /\ file = None /\ fileGen = None
  /\ run = "off" /\ start = 0 /\ startGen = 0 /\ mined = 0 /\ runs = 0
  /\ reset = "off" /\ next = 0 /\ resets = 0
  /\ ended = {} /\ manifest = None

Larger(a, b) == IF a > b THEN a ELSE b

\* The chain grows by n blocks; what lies deeper than Depth is written to disk.
Grow(n) ==
  /\ tip' = tip + n
  /\ final' = Larger(final, (tip + n) - (IF tip + n > Depth THEN Depth ELSE tip + n))

\* `docker compose up`: a stack that was down may have lost the blocks in memory.
ComposeUp ==
  /\ up' = TRUE
  /\ IF up THEN UNCHANGED tip ELSE tip' \in {tip, final}
  /\ UNCHANGED <<final, gen>>

Uninitialised == tip = 0

-----------------------------------------------------------------------------
(* A run. *)

\* setup: the wallet is bootstrapped if the volumes are empty (the scripts leave the stack
\* down), ...
Bootstrap ==
  /\ run = "bootstrap"
  /\ IF Uninitialised THEN Grow(SetupBlocks) ELSE UNCHANGED <<tip, final>>
  /\ run' = "up"
  /\ UNCHANGED <<up, gen, fileVars, start, startGen, mined, runs, resetVars, ended, manifest>>

RunStarts ==
  /\ run = "off" /\ reset = "off" /\ runs < MaxRuns
  /\ run' = "bootstrap" /\ mined' = 0 /\ runs' = runs + 1
  /\ UNCHANGED <<chainVars, fileVars, start, startGen, resetVars, ended, manifest>>

\* ... the stack brought up, ...
RunUp ==
  /\ run = "up" /\ ComposeUp
  /\ run' = "height"
  /\ UNCHANGED <<fileVars, start, startGen, mined, runs, resetVars, ended, manifest>>

\* ... and the starting height read before anything is mined.
ReadHeight ==
  /\ run = "height" /\ up /\ ~Uninitialised
  /\ start' = tip /\ startGen' = gen
  /\ run' = "setup"
  /\ UNCHANGED <<chainVars, fileVars, mined, runs, resetVars, ended, manifest>>

\* Warm-up, funding and load mine.
RunMines ==
  /\ run \in {"setup", "load"} /\ up /\ mined < RunBlocks
  /\ Grow(1) /\ mined' = mined + 1
  /\ UNCHANGED <<up, gen, fileVars, run, start, startGen, runs, resetVars, ended, manifest>>

\* StateFreshness::classify.
Classify(height, heightAtReset) == IF height <= heightAtReset THEN "Fresh" ELSE "Reused"

\* The manifest's state: the baseline used and (not in the code) whose it was and which
\* runs had ended since.
State(baseline, baselineGen, before) ==
  [epoch |-> baseline[1], freshness |-> Classify(start, baseline[2]),
   gen |-> startGen, baselineGen |-> baselineGen, before |-> before]

\* Mutant: a baseline of epoch 0 counts as none.
FindNumberedBaseline ==
  /\ run = "setup"
  /\ IF file # None
       THEN /\ run' = "load"
            /\ manifest' = State(IF file[1] = 0 THEN <<0, start>> ELSE file, fileGen, ended)
       ELSE run' = "baseline" /\ UNCHANGED manifest
  /\ UNCHANGED <<chainVars, fileVars, start, startGen, mined, runs, resetVars, ended>>

\* Setup succeeded: resolve_reset_state takes the file's baseline, ...
FindBaseline ==
  /\ run = "setup"
  /\ IF file # None
       THEN run' = "load" /\ manifest' = State(file, fileGen, ended)
       ELSE run' = "baseline" /\ UNCHANGED manifest
  /\ UNCHANGED <<chainVars, fileVars, start, startGen, mined, runs, resetVars, ended>>

\* The file gets a new baseline, of generation g.
Write(epoch, height, g) ==
  /\ file' = <<epoch, height>> /\ fileGen' = g
  /\ ended' = {}

\* Mutant: the baseline is a height of 0.
BaselineAtZero ==
  /\ run = "baseline"
  /\ Write(0, 0, startGen)
  /\ manifest' = State(<<0, 0>>, startGen, {})
  /\ run' = "load"
  /\ UNCHANGED <<chainVars, start, startGen, mined, runs, resetVars>>

\* ... or, without one, makes the starting height the baseline; that the file cannot be
\* written only costs the next run its baseline.
WriteBaseline ==
  /\ run = "baseline"
  /\ Write(0, start, startGen) \/ UNCHANGED <<fileVars, ended>>
  /\ manifest' = State(<<0, start>>, startGen, {})
  /\ run' = "load"
  /\ UNCHANGED <<chainVars, start, startGen, mined, runs, resetVars>>

\* The run ends, after the load phase or by a failure of setup, which leaves no state in
\* the manifest.  The stack goes down, unless that fails.
RunEnds ==
  /\ run # "off"
  /\ run' = "off"
  /\ ended' = IF run \in {"setup", "baseline", "load"} THEN ended \cup {<<startGen, mined>>}
                                                      ELSE ended
  /\ up' \in {FALSE, up}
  /\ UNCHANGED <<tip, final, gen, fileVars, start, startGen, mined, runs, resetVars, manifest>>

-----------------------------------------------------------------------------
(* The reset script. *)

\* `down -v` and the volumes Compose does not own.
Wipe ==
  /\ reset = "off" /\ resets < MaxResets
  /\ run \in {"off", "setup", "baseline", "load"}
  /\ tip' = 0 /\ final' = 0 /\ up' = FALSE /\ gen' = gen + 1
  /\ reset' = "init" /\ resets' = resets + 1
  /\ UNCHANGED <<fileVars, runVars, next, ended, manifest>>

\* regtest-init.sh and regtest-miner-setup.sh, which ends with `down`.
Initialise ==
  /\ reset = "init"
  /\ Grow(SetupBlocks)
  /\ up' = FALSE
  /\ reset' = "up"
  /\ UNCHANGED <<gen, fileVars, runVars, next, resets, ended, manifest>>

ResetUp ==
  /\ reset = "up" /\ ComposeUp
  /\ reset' = "epoch"
  /\ UNCHANGED <<fileVars, runVars, next, resets, ended, manifest>>

\* PREV_EPOCH, 0 for a missing file.
ReadEpoch ==
  /\ reset = "epoch"
  /\ next' = 1 + (IF file = None THEN 0 ELSE file[1])
  /\ reset' = "record"
  /\ UNCHANGED <<chainVars, fileVars, runVars, resets, ended, manifest>>

\* Mutant: only the epoch is counted up, the height is kept.
RecordEpochOnly ==
  /\ reset = "record"
  /\ \/ up /\ Write(next, IF file = None THEN 0 ELSE file[2], gen)
     \/ UNCHANGED <<fileVars, ended>>
  /\ reset' = "off"
  /\ UNCHANGED <<chainVars, runVars, next, resets, manifest>>

\* The height is asked for up to 20 times; a router that does not answer leaves the file as
\* it was, that of the generation before included.
Record ==
  /\ reset = "record"
  /\ (up /\ Write(next, tip, gen)) \/ UNCHANGED <<fileVars, ended>>
  /\ reset' = "off"
  /\ UNCHANGED <<chainVars, runVars, next, resets, manifest>>

\* set -e: a step that fails ends the script; what was wiped stays wiped.
Abort ==
  /\ reset \in {"init", "up"}
  /\ reset' = "off"
  /\ UNCHANGED <<chainVars, fileVars, runVars, next, resets, ended, manifest>>

RunStep == RunStarts \/ Bootstrap \/ RunUp \/ ReadHeight \/ RunMines \/ FindBaseline
             \/ WriteBaseline \/ RunEnds
ResetStep == Wipe \/ Initialise \/ ResetUp \/ ReadEpoch \/ Record \/ Abort

Next == RunStep \/ ResetStep

Spec == Init /\ [][Next]_vars

-----------------------------------------------------------------------------
(* Properties. *)

\* Every variable stays in its range; what is on disk is part of the chain.
TypeOK ==
  /\ tip \in Nat /\ final \in 0 .. tip /\ up \in BOOLEAN /\ gen \in 0 .. MaxResets
  /\ file = None \/ file \in Nat \X Nat
  /\ fileGen = None \/ fileGen \in 0 .. gen
  /\ run \in {"off", "bootstrap", "up", "height", "setup", "baseline", "load"}
  /\ start \in Nat /\ startGen \in 0 .. gen /\ mined \in 0 .. RunBlocks
  /\ reset \in {"off", "init", "up", "epoch", "record"} /\ next \in 0 .. MaxResets
  /\ ended \in SUBSET ((0 .. gen) \X (0 .. RunBlocks))

\* The baseline is of the chain the run started on: no reset failed to record its
\* generation, and none wiped the chain while the run was under way.
Comparable == manifest # None /\ manifest.baselineGen = manifest.gen

\* A run is never called Reused on a chain that no run had advanced since, whatever
\* regtest-init.sh mined and whichever restart lost blocks (metrics/manifest.rs:162).  The
\* runs that count are those since the file was written: a run that fails before it has a
\* baseline to compare with leaves none, and the next one calls the chain fresh.
ReusedIsAdvanced ==
  Comparable /\ manifest.freshness = "Reused" => \E r \in manifest.before : r[2] > 0

\* A run that advanced the chain far enough is never overlooked: once a run has mined more
\* than the blocks two restarts can lose, no later one of its generation is called Fresh.
\* (A run that mined less may be: its blocks are gone with the restart, its accounts in
\* the wallet are not.)
DeepRunIsSeen ==
  Comparable /\ manifest.freshness = "Fresh" =>
    \A r \in manifest.before : r[1] = manifest.gen => r[2] <= 2 * Depth
=============================================================================
