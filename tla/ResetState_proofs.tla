------------------------- MODULE ResetState_proofs -------------------------
(***************************************************************************)
(* Proofs about ResetState, for any number of runs and resets, any number  *)
(* of blocks a run mines and any number of blocks a restart may lose, as   *)
(* long as the setup scripts mine more.                                    *)
(***************************************************************************)
EXTENDS ResetState, TLAPS

(***************************************************************************)
(* The inductive invariant: how far the chain of the latest generation has *)
(* come since the file was written and since the run read its start.       *)
(***************************************************************************)

Compares == run \in {"setup", "baseline", "load"}

\* A restart loses Depth blocks at most and never all of them; a stack that is up has a chain.
DiskFollows ==
  /\ tip <= final + Depth
  /\ tip > 0 => final > 0
  /\ up => tip > 0

\* Every reset makes a generation, which neither the file nor a run knows while it works.
ResetApart ==
  /\ gen = resets
  /\ reset # "off" => /\ gen > 0 /\ (file # None => fileGen < gen)
                      /\ run # "off" => Compares /\ startGen < gen
  /\ reset \in {"up", "epoch", "record"} => tip > 0
  /\ reset = "record" => next <= gen

\* What a run mined is what the chain has grown by since the run read its start.
MinedSinceStart ==
  /\ run \in {"bootstrap", "up", "height"} => mined = 0
  /\ run \in {"up", "height"} => tip > 0
  /\ Compares => start > 0 /\ (startGen = gen => tip = start + mined)

\* The epoch in the file is not ahead of the generation whose height it holds.
EpochBehind == file # None => fileGen \in 0 .. gen /\ file[1] <= fileGen

\* Some run has mined since the file was written.
Advanced == \E r \in ended : r[2] > 0

\* The chain of the file's generation is below the file's height by what a restart lost,
\* above it by what runs mined, and stays above it by what a run mined less two restarts.
FileBoundsChain ==
  file # None /\ fileGen = gen =>
    /\ tip > 0 /\ file[2] <= final + Depth
    /\ tip > file[2] => Advanced \/ (Compares /\ mined > 0)
    /\ Compares /\ startGen = gen => file[2] <= start + Depth
    /\ \A r \in ended : r[1] = gen => file[2] + r[2] <= final + 2 * Depth

\* The same of the height the run read, until it is compared.
FileBoundsStart ==
  run = "setup" /\ file # None /\ fileGen = startGen =>
    /\ start > file[2] => Advanced
    /\ \A r \in ended : r[1] = startGen => file[2] + r[2] <= start + 2 * Depth

IInv ==
  /\ TypeOK /\ DiskFollows /\ ResetApart /\ MinedSinceStart /\ EpochBehind
  /\ FileBoundsChain /\ FileBoundsStart /\ ReusedIsAdvanced /\ DeepRunIsSeen


-----------------------------------------------------------------------------
(* The chain. *)

\* The numbers among the variables.
LEMMA Numbers ==
  ASSUME TypeOK
  PROVE  /\ tip \in Nat /\ final \in 0 .. tip /\ gen \in Nat /\ start \in Nat /\ startGen \in 0 .. gen
         /\ mined \in Nat /\ next \in Nat /\ Depth \in Nat
         /\ file # None => file[1] \in Nat /\ file[2] \in Nat
         /\ \A r \in ended : r[1] \in Nat /\ r[2] \in Nat
BY ResetAssumption DEF TypeOK

LEMMA Growth ==
  ASSUME tip \in Nat, final \in 0 .. tip, NEW n \in Nat, Grow(n)
  PROVE  tip' = tip + n /\ final' \in final .. tip' /\ tip' <= final' + Depth
BY ResetAssumption DEF Grow, Larger

\* The setup scripts leave a chain that no restart loses.
LEMMA Initialised ==
  ASSUME TypeOK, DiskFollows, Grow(SetupBlocks)
  PROVE  tip' \in Nat /\ final' \in 1 .. tip' /\ tip' <= final' + Depth
BY ResetAssumption, Growth DEF TypeOK, DiskFollows

LEMMA Restarted ==
  ASSUME TypeOK, DiskFollows, tip > 0, ComposeUp
  PROVE  /\ tip' \in final .. tip /\ tip' > 0 /\ tip' <= final' + Depth
         /\ UNCHANGED <<final, gen>> /\ up' = TRUE
BY ResetAssumption DEF TypeOK, DiskFollows, ComposeUp

\* Whatever happens in between, the chain is in order whenever something can grow it.
LEMMA ChainStep ==
  ASSUME IInv, Next
  PROVE  tip' \in Nat /\ final' \in 0 .. tip' /\ up' \in BOOLEAN /\ DiskFollows'
<1>0. TypeOK /\ DiskFollows /\ ResetApart /\ MinedSinceStart /\ up \in BOOLEAN
  BY DEF IInv, TypeOK
<1>1. /\ tip' \in Nat /\ final' \in 0 .. tip' /\ tip' <= final' + Depth
      /\ tip' > 0 => final' > 0
      /\ tip' > 0 \/ Wipe \/ tip' = tip
  <2>0. /\ tip \in Nat /\ final \in 0 .. tip /\ Depth \in Nat
        /\ tip <= final + Depth /\ (tip > 0 => final > 0)
    BY <1>0, Numbers DEF DiskFollows
  <2>1. CASE Bootstrap
    <3>1. CASE Uninitialised
      <4>1. Grow(SetupBlocks)
        BY <2>1, <3>1 DEF Bootstrap
      <4>2. QED
        BY <1>0, <4>1, Initialised
    <3>2. CASE ~Uninitialised
      BY <2>0, <2>1, <3>2 DEF Bootstrap, Uninitialised
    <3>3. QED
      BY <3>1, <3>2
  <2>2. CASE RunUp
    <3>1. tip > 0 /\ ComposeUp
      BY <1>0, <2>2 DEF RunUp, MinedSinceStart
    <3>2. QED
      BY <1>0, <2>0, <3>1, Restarted
  <2>3. CASE RunMines
    <3>1. Grow(1) /\ tip > 0
      BY <1>0, <2>3 DEF RunMines, DiskFollows
    <3>2. QED
      <4>1. tip' = tip + 1 /\ final' \in final .. tip' /\ tip' <= final' + Depth
        BY <2>0, <3>1, Growth
      <4>2. tip' > 0 /\ final' > 0
        BY <2>0, <3>1, <4>1
      <4>3. tip' \in Nat /\ final' \in 0 .. tip'
        BY <2>0, <4>1
      <4>4. QED
        BY <4>1, <4>2, <4>3
  <2>4. CASE Wipe
    <3>1. tip' = 0 /\ final' = 0
      BY <2>4 DEF Wipe
    <3>2. QED
      BY <2>0, <2>4, <3>1
  <2>5. CASE Initialise
    <3>1. Grow(SetupBlocks)
      BY <2>5 DEF Initialise
    <3>2. QED
      BY <1>0, <3>1, Initialised
  <2>6. CASE ResetUp
    <3>1. tip > 0 /\ ComposeUp
      BY <1>0, <2>6 DEF ResetUp, ResetApart
    <3>2. QED
      BY <1>0, <2>0, <3>1, Restarted
  <2>7. CASE UNCHANGED <<tip, final>>
    BY <2>0, <2>7
  <2>8. QED
    BY <2>1, <2>2, <2>3, <2>4, <2>5, <2>6, <2>7
       DEF Next, RunStep, ResetStep, RunStarts, ReadHeight, FindBaseline, WriteBaseline, RunEnds, ReadEpoch, Record, Abort,
           chainVars
<1>2. up' \in BOOLEAN /\ (up' => up \/ tip' > 0) /\ (Wipe => ~up')
  <2>1. CASE up' = FALSE
    BY <2>1
  <2>2. CASE up' = up /\ ~Wipe
    BY <1>0, <2>2
  <2>3. CASE ComposeUp /\ tip > 0 /\ ~Wipe
    <3>1. up' = TRUE /\ tip' > 0
      BY <1>0, <2>3, Restarted
    <3>2. QED
      BY <2>3, <3>1
  <2>4. (RunUp \/ ResetUp) => ComposeUp /\ tip > 0 /\ ~Wipe
    BY <1>0 DEF RunUp, ResetUp, Wipe, MinedSinceStart, ResetApart
  <2>5. QED
    BY <2>1, <2>2, <2>3, <2>4
       DEF Next, RunStep, ResetStep, RunStarts, Bootstrap, ReadHeight, RunMines, FindBaseline, WriteBaseline, RunEnds,
           Wipe, Initialise, ReadEpoch, Record, Abort, chainVars
<1>3. QED
  BY <1>0, <1>1, <1>2 DEF DiskFollows

-----------------------------------------------------------------------------
(* Types and stages. *)

LEMMA InitIInv == Init => IInv
<1> SUFFICES ASSUME Init PROVE IInv
  OBVIOUS
<1>1. TypeOK
  <2>1. up \in BOOLEAN
    BY DEF Init
  <2>2. ended \in SUBSET ((0 .. gen) \X (0 .. RunBlocks))
    BY DEF Init
  <2>3. QED
    BY <2>1, <2>2, ResetAssumption DEF Init, TypeOK
<1>2. DiskFollows
  BY ResetAssumption DEF Init, DiskFollows
<1>3. ResetApart /\ MinedSinceStart /\ EpochBehind
  BY DEF Init, ResetApart, MinedSinceStart, EpochBehind, Compares
<1>4. FileBoundsChain /\ FileBoundsStart
  BY DEF Init, FileBoundsChain, FileBoundsStart
<1>5. ReusedIsAdvanced /\ DeepRunIsSeen
  BY DEF Init, ReusedIsAdvanced, DeepRunIsSeen, Comparable
<1>6. QED
  BY <1>1, <1>2, <1>3, <1>4, <1>5 DEF IInv

\* Only a reset makes a generation.
LEMMA Generations ==
  ASSUME Next
  PROVE  (gen' = gen /\ resets' = resets) \/ Wipe
BY DEF Next, RunStep, ResetStep, RunStarts, Bootstrap, RunUp, ReadHeight, RunMines, FindBaseline, WriteBaseline, RunEnds,
       Initialise, ResetUp, ReadEpoch, Record, Abort, ComposeUp, chainVars, resetVars

LEMMA Onward ==
  ASSUME TypeOK, Next
  PROVE  gen \in Nat /\ gen <= gen'
<1>1. gen \in Nat
  BY Numbers
<1>2. (gen' = gen /\ resets' = resets) \/ Wipe
  BY Generations
<1>3. QED
  BY <1>1, <1>2 DEF Wipe

LEMMA TypeStep ==
  ASSUME IInv, Next
  PROVE  TypeOK'
<1>0. TypeOK /\ ResetApart /\ MinedSinceStart /\ EpochBehind
  BY DEF IInv
<1>1. tip' \in Nat /\ final' \in 0 .. tip' /\ up' \in BOOLEAN
  BY ChainStep
<1>2. gen' \in 0 .. MaxResets
  <2>1. gen \in 0 .. MaxResets /\ gen = resets
    BY <1>0 DEF TypeOK, ResetApart
  <2>2. (gen' = gen /\ resets' = resets) \/ Wipe
    BY Generations
  <2>3. QED
    BY <2>1, <2>2, ResetAssumption DEF Wipe
<1>3. gen <= gen'
  BY <1>0, Onward
<1>4. (file' = None \/ file' \in Nat \X Nat) /\ (fileGen' = None \/ fileGen' \in 0 .. gen')
  <2>1. CASE UNCHANGED fileVars
    BY <1>0, <1>2, <1>3, <2>1 DEF TypeOK, fileVars
  <2>2. CASE WriteBaseline
    BY <1>0, <2>2 DEF WriteBaseline, Write, TypeOK, fileVars, chainVars
  <2>3. CASE Record
    BY <1>0, <2>3 DEF Record, Write, TypeOK, fileVars, chainVars
  <2>4. QED
    BY <2>1, <2>2, <2>3
       DEF Next, RunStep, ResetStep, RunStarts, Bootstrap, RunUp, ReadHeight, RunMines, FindBaseline, RunEnds, Wipe,
           Initialise, ResetUp, ReadEpoch, Abort
<1>5. /\ run' \in {"off", "bootstrap", "up", "height", "setup", "baseline", "load"}
      /\ start' \in Nat /\ startGen' \in 0 .. gen' /\ mined' \in 0 .. RunBlocks
  <2>1. CASE UNCHANGED runVars
    BY <1>0, <1>2, <1>3, <2>1 DEF TypeOK, runVars
  <2>2. CASE RunStarts \/ RunMines \/ ReadHeight
    BY <1>0, <2>2, ResetAssumption DEF RunStarts, RunMines, ReadHeight, TypeOK, chainVars
  <2>3. CASE Bootstrap \/ RunUp \/ FindBaseline \/ WriteBaseline \/ RunEnds
    BY <1>0, <2>3 DEF Bootstrap, RunUp, ComposeUp, FindBaseline, WriteBaseline, RunEnds, TypeOK, chainVars
  <2>4. QED
    BY <2>1, <2>2, <2>3
       DEF Next, RunStep, ResetStep, Wipe, Initialise, ResetUp, ReadEpoch, Record, Abort
<1>6. reset' \in {"off", "init", "up", "epoch", "record"} /\ next' \in 0 .. MaxResets
  <2>1. CASE UNCHANGED resetVars
    BY <1>0, <2>1 DEF TypeOK, resetVars
  <2>2. CASE ReadEpoch
    <3>1. file = None \/ (file[1] \in Nat /\ 1 + file[1] <= gen)
      BY <1>0, <2>2 DEF ReadEpoch, TypeOK, ResetApart, EpochBehind
    <3>2. next' \in 0 .. gen /\ reset' = "record"
      <4>1. CASE file = None
        BY <1>0, <2>2, <4>1 DEF ReadEpoch, TypeOK, ResetApart
      <4>2. CASE file # None
        BY <1>0, <2>2, <3>1, <4>2 DEF ReadEpoch, TypeOK
      <4>3. QED
        BY <4>1, <4>2
    <3>3. QED
      BY <1>0, <3>2, ResetAssumption DEF TypeOK
  <2>3. CASE Wipe \/ Initialise \/ ResetUp \/ Record \/ Abort
    BY <1>0, <2>3 DEF Wipe, Initialise, ResetUp, Record, Abort, TypeOK
  <2>4. QED
    BY <2>1, <2>2, <2>3
       DEF Next, RunStep, ResetStep, RunStarts, Bootstrap, RunUp, ReadHeight, RunMines, FindBaseline, WriteBaseline, RunEnds
<1>7. ended' \in SUBSET ((0 .. gen') \X (0 .. RunBlocks))
  <2>1. ended' \in {ended, {}, ended \cup {<<startGen, mined>>}}
    BY DEF Next, RunStep, ResetStep, RunStarts, Bootstrap, RunUp, ReadHeight, RunMines, FindBaseline, WriteBaseline,
           RunEnds, Wipe, Initialise, ResetUp, ReadEpoch, Record, Abort, Write
  <2>2. 0 .. gen \subseteq 0 .. gen'
    BY <1>0, <1>2, <1>3 DEF TypeOK
  <2>3. <<startGen, mined>> \in (0 .. gen') \X (0 .. RunBlocks)
    BY <1>0, <2>2 DEF TypeOK
  <2>4. QED
    BY <1>0, <2>1, <2>2, <2>3 DEF TypeOK
<1>8. QED
  BY <1>1, <1>2, <1>4, <1>5, <1>6, <1>7 DEF TypeOK

\* A run that is under way does not start again, and only one without a reset reads its start.
LEMMA RunUnderReset ==
  ASSUME TypeOK, ResetApart, reset # "off", RunStep
  PROVE  /\ gen' = gen /\ resets' = resets /\ reset' = reset /\ next' = next /\ startGen' = startGen
         /\ run' # "off" => Compares /\ Compares'
<1>1. run = "off" \/ Compares
  BY DEF ResetApart
<1>2. CASE RunMines \/ FindBaseline \/ WriteBaseline \/ RunEnds
  BY <1>1, <1>2 DEF RunMines, FindBaseline, WriteBaseline, RunEnds, Compares, chainVars, resetVars
<1>3. ~(RunStarts \/ Bootstrap \/ RunUp \/ ReadHeight)
  BY <1>1 DEF RunStarts, Bootstrap, RunUp, ReadHeight, Compares
<1>4. QED
  BY <1>2, <1>3 DEF RunStep

\* The file is written when a run without a baseline makes one and when a reset ends; until
\* then every run that ends counts.
LEMMA FileWritten ==
  ASSUME Next
  PROVE  \/ WriteBaseline /\ Write(0, start, startGen)
         \/ Record /\ up /\ Write(next, tip, gen)
         \/ UNCHANGED <<fileVars, ended>>
         \/ RunEnds /\ UNCHANGED fileVars /\ Compares /\ ended' = ended \cup {<<startGen, mined>>}
BY DEF Next, RunStep, ResetStep, RunStarts, Bootstrap, RunUp, ReadHeight, RunMines, FindBaseline, WriteBaseline, RunEnds,
       Wipe, Initialise, ResetUp, ReadEpoch, Record, Abort, Compares

LEMMA ApartStep ==
  ASSUME IInv, Next
  PROVE  ResetApart'
<1>0. TypeOK /\ DiskFollows /\ ResetApart /\ EpochBehind
  BY DEF IInv
<1>1. gen' = resets'
  <2>1. (gen' = gen /\ resets' = resets) \/ Wipe
    BY Generations
  <2>2. QED
    BY <1>0, <2>1 DEF ResetApart, Wipe
<1>2. ASSUME reset' # "off"
      PROVE  gen' > 0 /\ (file' # None => fileGen' < gen')
  <2>0. gen \in Nat /\ startGen \in 0 .. gen
    BY <1>0, Numbers
  <2>1. CASE Wipe
    <3>1. gen' = gen + 1 /\ UNCHANGED fileVars
      BY <2>1 DEF Wipe
    <3>2. QED
      BY <1>0, <2>0, <3>1 DEF EpochBehind, fileVars
  <2>2. CASE ~Wipe
    <3>1. reset # "off" /\ gen' = gen
      <4>1. gen' = gen
        BY <2>2, Generations
      <4>2. reset # "off"
        BY <1>2, <2>2
           DEF Next, RunStep, ResetStep, RunStarts, Bootstrap, RunUp, ReadHeight, RunMines, FindBaseline, WriteBaseline,
               RunEnds, Initialise, ResetUp, ReadEpoch, Record, Abort, resetVars
      <4>3. QED
        BY <4>1, <4>2
    <3>2. CASE UNCHANGED fileVars
      BY <1>0, <3>1, <3>2 DEF ResetApart, fileVars
    <3>3. CASE WriteBaseline /\ Write(0, start, startGen)
      <4>1. startGen < gen /\ fileGen' = startGen
        BY <1>0, <3>1, <3>3 DEF WriteBaseline, Write, ResetApart
      <4>2. QED
        BY <1>0, <3>1, <4>1 DEF ResetApart
    <3>4. ~Record
      BY <1>2 DEF Record
    <3>5. QED
      BY <3>2, <3>3, <3>4, FileWritten
  <2>3. QED
    BY <2>1, <2>2
<1>3. ASSUME reset' # "off", run' # "off"
      PROVE  Compares' /\ startGen' < gen'
  <2>0. gen \in Nat /\ startGen \in 0 .. gen
    BY <1>0, Numbers
  <2>1. CASE Wipe
    BY <1>3, <2>0, <2>1 DEF Wipe, Compares, runVars
  <2>2. CASE RunStep
    <3>1. reset # "off"
      BY <1>3, <2>2
         DEF RunStep, RunStarts, Bootstrap, RunUp, ReadHeight, RunMines, FindBaseline, WriteBaseline, RunEnds, resetVars
    <3>2. run' # "off" => Compares /\ Compares'
      BY <1>0, <2>2, <3>1, RunUnderReset
    <3>3. gen' = gen /\ startGen' = startGen
      BY <1>0, <2>2, <3>1, RunUnderReset
    <3>4. startGen < gen
      BY <1>0, <1>3, <3>1, <3>2 DEF ResetApart, Compares
    <3>5. QED
      BY <1>3, <3>2, <3>3, <3>4
  <2>3. CASE Initialise \/ ResetUp \/ ReadEpoch \/ Record \/ Abort
    BY <1>0, <1>3, <2>3
       DEF Initialise, ResetUp, ReadEpoch, Record, Abort, ComposeUp, ResetApart, Compares, runVars, chainVars
  <2>4. QED
    BY <2>1, <2>2, <2>3 DEF Next, ResetStep
<1>4. ASSUME reset' \in {"up", "epoch", "record"}
      PROVE  tip' > 0
  <2>0. tip \in Nat
    BY <1>0, Numbers
  <2>1. CASE Initialise
    <3>1. Grow(SetupBlocks)
      BY <2>1 DEF Initialise
    <3>2. QED
      BY <1>0, <3>1, Initialised
  <2>2. CASE ResetUp
    <3>1. tip > 0 /\ ComposeUp
      BY <1>0, <2>2 DEF ResetUp, ResetApart
    <3>2. QED
      BY <1>0, <3>1, Restarted
  <2>3. CASE ReadEpoch \/ Record \/ Wipe \/ Abort
    BY <1>0, <1>4, <2>3 DEF ReadEpoch, Record, Wipe, Abort, ResetApart, chainVars
  <2>4. CASE RunStep
    <3>1. reset' = reset /\ tip > 0
      BY <1>0, <1>4, <2>4
         DEF RunStep, RunStarts, Bootstrap, RunUp, ReadHeight, RunMines, FindBaseline, WriteBaseline, RunEnds, resetVars,
             ResetApart
    <3>2. run = "off" \/ Compares
      BY <1>0, <1>4, <3>1 DEF ResetApart
    <3>3. tip' = tip \/ Grow(1)
      BY <2>4, <3>2
         DEF RunStep, RunStarts, Bootstrap, RunUp, ReadHeight, RunMines, FindBaseline, WriteBaseline, RunEnds, chainVars,
             Compares
    <3>4. QED
      BY <2>0, <3>1, <3>3 DEF Grow
  <2>5. QED
    BY <2>1, <2>2, <2>3, <2>4 DEF Next, ResetStep
<1>5. ASSUME reset' = "record"
      PROVE  next' <= gen'
  <2>1. CASE ReadEpoch
    <3>1. gen' = gen /\ gen \in Nat /\ gen > 0
      BY <1>0, <2>1, Numbers DEF ReadEpoch, chainVars, ResetApart
    <3>2. CASE file = None
      BY <2>1, <3>1, <3>2 DEF ReadEpoch
    <3>3. CASE file # None
      <4>1. file[1] \in Nat /\ fileGen \in 0 .. gen /\ file[1] <= fileGen /\ fileGen < gen
        BY <1>0, <2>1, <3>3, Numbers DEF ReadEpoch, ResetApart, EpochBehind
      <4>2. QED
        BY <2>1, <3>1, <3>3, <4>1 DEF ReadEpoch
    <3>4. QED
      BY <3>2, <3>3
  <2>2. CASE ~ReadEpoch
    <3>1. reset = "record" /\ next' = next /\ ~Wipe
      BY <1>5, <2>2
         DEF Next, RunStep, ResetStep, RunStarts, Bootstrap, RunUp, ReadHeight, RunMines, FindBaseline, WriteBaseline,
             RunEnds, Wipe, Initialise, ResetUp, Record, Abort, resetVars
    <3>2. gen' = gen
      BY <3>1, Generations
    <3>3. QED
      BY <1>0, <3>1, <3>2 DEF ResetApart
  <2>3. QED
    BY <2>1, <2>2
<1>6. QED
  BY <1>1, <1>2, <1>3, <1>4, <1>5 DEF ResetApart

LEMMA MinedStep ==
  ASSUME IInv, Next
  PROVE  MinedSinceStart'
<1>0. TypeOK /\ DiskFollows /\ ResetApart /\ MinedSinceStart
  BY DEF IInv
<1>1. CASE ResetStep
  BY <1>0, <1>1
     DEF ResetStep, Wipe, Initialise, ResetUp, ReadEpoch, Record, Abort, MinedSinceStart, ResetApart, Compares, TypeOK,
         ComposeUp, runVars, chainVars
<1>2. CASE Bootstrap
  BY <1>0, <1>2, Initialised DEF Bootstrap, Uninitialised, MinedSinceStart, Compares, TypeOK
<1>3. CASE RunUp
  BY <1>0, <1>3, Restarted DEF RunUp, MinedSinceStart, Compares
<1>4. CASE RunMines
  BY <1>0, <1>4, Growth DEF RunMines, MinedSinceStart, Compares, TypeOK
<1>5. CASE RunStarts
  BY <1>0, <1>5 DEF RunStarts, MinedSinceStart, Compares
<1>6. CASE ReadHeight
  <2>1. tip \in Nat /\ tip > 0 /\ mined = 0 /\ start' = tip /\ tip' = tip /\ run' = "setup" /\ mined' = mined
    BY <1>0, <1>6, Numbers DEF ReadHeight, MinedSinceStart, chainVars
  <2>2. QED
    BY <2>1 DEF MinedSinceStart
<1>7. CASE FindBaseline \/ WriteBaseline \/ RunEnds
  <2>1. UNCHANGED <<tip, gen, start, startGen, mined>> /\ (Compares' => Compares)
        /\ run' \notin {"bootstrap", "up", "height"}
    BY <1>0, <1>7 DEF FindBaseline, WriteBaseline, RunEnds, Compares, chainVars
  <2>2. QED
    BY <1>0, <2>1 DEF MinedSinceStart
<1>8. QED
  BY <1>1, <1>2, <1>3, <1>4, <1>5, <1>6, <1>7 DEF Next, RunStep

LEMMA EpochStep ==
  ASSUME IInv, Next
  PROVE  EpochBehind'
<1>0. TypeOK /\ ResetApart /\ EpochBehind /\ TypeOK'
  BY TypeStep DEF IInv
<1>1. CASE UNCHANGED fileVars
  <2>1. gen <= gen'
    BY <1>0, Onward
  <2>2. QED
    BY <1>0, <1>1, <2>1 DEF EpochBehind, TypeOK, fileVars
<1>2. CASE WriteBaseline
  BY <1>0, <1>2 DEF WriteBaseline, Write, EpochBehind, TypeOK, fileVars, chainVars
<1>3. CASE Record
  BY <1>0, <1>3 DEF Record, Write, EpochBehind, ResetApart, TypeOK, fileVars, chainVars
<1>4. QED
  BY <1>1, <1>2, <1>3
     DEF Next, RunStep, ResetStep, RunStarts, Bootstrap, RunUp, ReadHeight, RunMines, FindBaseline, RunEnds, Wipe,
         Initialise, ResetUp, ReadEpoch, Abort

-----------------------------------------------------------------------------
(* The file and the chain. *)

\* A baseline is the height of a chain as it is when a reset ends, or as it was when the
\* run that writes it started.
LEMMA WrittenBounds ==
  ASSUME IInv, (WriteBaseline /\ Write(0, start, startGen)) \/ (Record /\ up /\ Write(next, tip, gen))
  PROVE  FileBoundsChain' /\ FileBoundsStart'
<1>0. TypeOK /\ DiskFollows /\ ResetApart /\ MinedSinceStart
  BY DEF IInv
<1>1. /\ tip \in Nat /\ final \in 0 .. tip /\ start \in Nat /\ startGen \in 0 .. gen /\ gen \in Nat
      /\ mined \in Nat /\ Depth \in Nat /\ tip <= final + Depth
  BY <1>0, Numbers DEF DiskFollows
<1>2. CASE WriteBaseline /\ Write(0, start, startGen)
  <2>1. /\ file' = <<0, start>> /\ fileGen' = startGen /\ ended' = {} /\ run' = "load" /\ Compares
        /\ UNCHANGED <<tip, final, gen, start, startGen, mined>>
    BY <1>2 DEF WriteBaseline, Write, Compares, chainVars
  <2>2. ASSUME startGen = gen
        PROVE  tip = start + mined /\ tip > 0
    <3>1. tip = start + mined
      BY <1>0, <2>1, <2>2 DEF MinedSinceStart
    <3>2. start > 0
      BY <1>0, <2>1 DEF MinedSinceStart
    <3>3. QED
      BY <1>1, <3>1, <3>2
  <2>3. QED
    BY <1>1, <2>1, <2>2 DEF FileBoundsChain, FileBoundsStart, Advanced, Compares
<1>3. CASE Record /\ up /\ Write(next, tip, gen)
  <2>1. /\ file' = <<next, tip>> /\ fileGen' = gen /\ ended' = {} /\ tip > 0 /\ run' = run
        /\ UNCHANGED <<tip, final, gen, start, startGen, mined>>
    BY <1>0, <1>3 DEF Record, Write, ResetApart, chainVars, runVars
  <2>2. run # "off" => startGen < gen
    BY <1>0, <1>3 DEF Record, ResetApart
  <2>3. QED
    BY <1>1, <2>1, <2>2 DEF FileBoundsChain, FileBoundsStart, Advanced, Compares
<1>4. QED
  BY <1>2, <1>3

\* While the file stays as it is, its generation's chain moves with runs alone.
LEMMA RunOnFilesChain ==
  ASSUME IInv, RunStep, UNCHANGED fileVars, file # None, fileGen = gen
  PROVE  /\ gen' = gen /\ final <= final' /\ tip' > 0
         /\ tip' > tip => Compares' /\ mined' > 0
         /\ Compares /\ mined > 0 /\ ~RunEnds => Compares' /\ mined' > 0
         /\ Compares' /\ startGen' = gen => file[2] <= start' + Depth
<1>0. TypeOK /\ DiskFollows /\ MinedSinceStart /\ FileBoundsChain /\ ResetApart
  BY DEF IInv
<1>1. /\ tip \in Nat /\ final \in 0 .. tip /\ Depth \in Nat /\ mined \in Nat /\ start \in Nat /\ tip > 0
      /\ file[2] \in Nat /\ file[2] <= final + Depth
  BY <1>0, Numbers DEF FileBoundsChain
<1>2. Compares /\ startGen = gen => file[2] <= start + Depth
  BY <1>0 DEF FileBoundsChain
<1>3. CASE RunMines
  <2>1. Grow(1) /\ Compares' /\ mined' = mined + 1 /\ UNCHANGED <<gen, start, startGen>> /\ Compares
    BY <1>3 DEF RunMines, Compares
  <2>2. tip' = tip + 1 /\ final' \in final .. tip'
    BY <1>1, <2>1, Growth
  <2>3. final <= final' /\ tip' > 0 /\ mined' > 0
    BY <1>1, <2>1, <2>2
  <2>4. QED
    BY <1>2, <2>1, <2>3
<1>4. CASE Bootstrap \/ RunStarts \/ RunUp
  <2>1. ~Compares /\ ~Compares' /\ gen' = gen /\ final' = final
    BY <1>1, <1>4 DEF Bootstrap, RunStarts, RunUp, ComposeUp, Compares, Uninitialised, chainVars
  <2>2. tip' \in Nat /\ tip' > 0 /\ tip' <= tip
    <3>1. CASE RunUp
      <4>1. ComposeUp
        BY <3>1 DEF RunUp
      <4>2. tip' \in final .. tip /\ tip' > 0
        BY <1>0, <1>1, <4>1, Restarted
      <4>3. QED
        BY <1>1, <4>2
    <3>2. CASE ~RunUp
      <4>1. tip' = tip
        BY <1>1, <1>4, <3>2 DEF Bootstrap, RunStarts, Uninitialised, chainVars
      <4>2. QED
        BY <1>1, <4>1
    <3>3. QED
      BY <3>1, <3>2
  <2>3. QED
    BY <1>1, <2>1, <2>2
<1>5. CASE ReadHeight
  <2>1. /\ UNCHANGED <<gen, tip, final>> /\ start' = tip /\ startGen' = gen /\ ~Compares
    BY <1>5 DEF ReadHeight, Compares, chainVars
  <2>2. QED
    BY <1>1, <2>1
<1>6. CASE FindBaseline \/ WriteBaseline \/ RunEnds
  <2>1. UNCHANGED <<gen, tip, final, start, startGen, mined>> /\ (Compares' => Compares)
    BY <1>6 DEF FindBaseline, WriteBaseline, RunEnds, Compares, chainVars
  <2>2. Compares /\ ~RunEnds => Compares'
    BY <1>6 DEF FindBaseline, WriteBaseline, Compares
  <2>3. QED
    BY <1>1, <1>2, <2>1, <2>2
<1>7. QED
  BY <1>3, <1>4, <1>5, <1>6 DEF RunStep

LEMMA FileChainStep ==
  ASSUME IInv, Next
  PROVE  FileBoundsChain'
<1>0. TypeOK /\ DiskFollows /\ ResetApart /\ MinedSinceStart /\ EpochBehind /\ FileBoundsChain
  BY DEF IInv
<1>1. CASE (WriteBaseline /\ Write(0, start, startGen)) \/ (Record /\ up /\ Write(next, tip, gen))
  BY <1>1, WrittenBounds
<1>2. ASSUME UNCHANGED fileVars, file' # None, fileGen' = gen'
      PROVE  RunStep /\ file # None /\ fileGen = gen
  <2>1. file' = file /\ fileGen' = fileGen /\ gen \in Nat
    BY <1>0, <1>2, Numbers DEF fileVars
  <2>2. ~Wipe
    BY <1>0, <1>2, <2>1 DEF Wipe, EpochBehind
  <2>3. gen' = gen
    BY <2>2, Generations
  <2>4. reset = "off"
    <3>1. file # None /\ fileGen = gen
      BY <1>2, <2>1, <2>3
    <3>2. ~(gen < gen)
      BY <2>1
    <3>3. QED
      BY <1>0, <3>1, <3>2 DEF ResetApart
  <2>5. QED
    BY <1>2, <2>1, <2>2, <2>3, <2>4 DEF Next, ResetStep, Initialise, ResetUp, ReadEpoch, Record, Abort
<1>3. CASE UNCHANGED fileVars /\ ended' = ended /\ ~(RunEnds /\ Compares)
  <2> SUFFICES ASSUME file' # None, fileGen' = gen'
               PROVE  /\ tip' > 0 /\ file[2] <= final' + Depth
                      /\ tip' > file[2] => Advanced \/ (Compares' /\ mined' > 0)
                      /\ Compares' /\ startGen' = gen' => file[2] <= start' + Depth
                      /\ \A r \in ended : r[1] = gen' => file[2] + r[2] <= final' + 2 * Depth
    BY <1>3 DEF FileBoundsChain, Advanced, fileVars
  <2>1. RunStep /\ file # None /\ fileGen = gen
    BY <1>2, <1>3
  <2>2. /\ gen' = gen /\ final <= final' /\ tip' > 0
        /\ tip' > tip => Compares' /\ mined' > 0
        /\ Compares /\ mined > 0 => Compares' /\ mined' > 0
        /\ Compares' /\ startGen' = gen => file[2] <= start' + Depth
    BY <1>3, <2>1, RunOnFilesChain
  <2>3. /\ tip \in Nat /\ final \in Nat /\ Depth \in Nat /\ file[2] \in Nat /\ tip' \in Nat /\ final' \in Nat
        /\ \A r \in ended : r[2] \in Nat
    BY <1>0, <2>1, Numbers, ChainStep
  <2>4. file[2] <= final + Depth /\ (tip > file[2] => Advanced \/ (Compares /\ mined > 0))
    BY <1>0, <2>1 DEF FileBoundsChain
  <2>5. \A r \in ended : r[1] = gen => file[2] + r[2] <= final + 2 * Depth
    BY <1>0, <2>1 DEF FileBoundsChain
  <2>6. tip' > file[2] => Advanced \/ (Compares' /\ mined' > 0)
    BY <2>2, <2>3, <2>4
  <2>7. \A r \in ended : r[1] = gen' => file[2] + r[2] <= final' + 2 * Depth
    BY <2>2, <2>3, <2>5
  <2>8. QED
    BY <2>2, <2>3, <2>4, <2>6, <2>7
<1>4. CASE RunEnds /\ UNCHANGED fileVars /\ Compares /\ ended' = ended \cup {<<startGen, mined>>}
  <2> SUFFICES ASSUME file' # None, fileGen' = gen'
               PROVE  /\ tip > 0 /\ file[2] <= final + Depth
                      /\ tip > file[2] => \E r \in ended' : r[2] > 0
                      /\ \A r \in ended' : r[1] = gen => file[2] + r[2] <= final + 2 * Depth
    BY <1>4 DEF FileBoundsChain, Advanced, fileVars, RunEnds, Compares
  <2>1. file # None /\ fileGen = gen
    BY <1>2, <1>4
  <2>2. /\ tip \in Nat /\ final \in Nat /\ Depth \in Nat /\ file[2] \in Nat /\ start \in Nat /\ mined \in Nat
        /\ tip <= final + Depth
    BY <1>0, <2>1, Numbers DEF DiskFollows
  <2>3. /\ tip > 0 /\ file[2] <= final + Depth
        /\ tip > file[2] => Advanced \/ mined > 0
        /\ startGen = gen => file[2] <= start + Depth
        /\ \A r \in ended : r[1] = gen => file[2] + r[2] <= final + 2 * Depth
    BY <1>0, <1>4, <2>1 DEF FileBoundsChain
  <2>4. startGen = gen => file[2] + mined <= final + 2 * Depth
    <3>1. startGen = gen => tip = start + mined
      BY <1>0, <1>4 DEF MinedSinceStart
    <3>2. QED
      BY <2>2, <2>3, <3>1
  <2>5. tip > file[2] => \E r \in ended' : r[2] > 0
    <3>1. CASE Advanced
      BY <1>4, <3>1 DEF Advanced
    <3>2. CASE mined > 0
      <4>1. <<startGen, mined>> \in ended' /\ <<startGen, mined>>[2] > 0
        BY <1>4, <3>2
      <4>2. QED
        BY <4>1
    <3>3. QED
      BY <2>3, <3>1, <3>2
  <2>6. \A r \in ended' : r[1] = gen => file[2] + r[2] <= final + 2 * Depth
    BY <1>4, <2>3, <2>4
  <2>7. QED
    BY <2>3, <2>5, <2>6
<1>5. QED
  <2>1. CASE UNCHANGED <<fileVars, ended>> /\ RunEnds /\ Compares
    <3>1. ended = ended \cup {<<startGen, mined>>}
      BY <2>1 DEF RunEnds, Compares
    <3>2. QED
      BY <1>4, <2>1, <3>1
  <2>2. QED
    BY <1>1, <1>3, <1>4, <2>1, FileWritten

LEMMA FileStartStep ==
  ASSUME IInv, Next
  PROVE  FileBoundsStart'
<1>0. TypeOK /\ MinedSinceStart /\ FileBoundsChain /\ FileBoundsStart
  BY DEF IInv
<1>1. CASE (WriteBaseline /\ Write(0, start, startGen)) \/ (Record /\ up /\ Write(next, tip, gen))
  BY <1>1, WrittenBounds
<1>2. CASE RunEnds
  BY <1>2 DEF RunEnds, FileBoundsStart
<1>3. CASE UNCHANGED <<fileVars, ended>> /\ ReadHeight
  <2> SUFFICES ASSUME file # None, fileGen = gen
               PROVE  /\ tip > file[2] => Advanced
                      /\ \A r \in ended : r[1] = gen => file[2] + r[2] <= tip + 2 * Depth
    BY <1>3 DEF FileBoundsStart, Advanced, fileVars, ReadHeight
  <2>1. ~Compares
    BY <1>3 DEF ReadHeight, Compares
  <2>2. /\ tip > file[2] => Advanced
        /\ \A r \in ended : r[1] = gen => file[2] + r[2] <= final + 2 * Depth
    BY <1>0, <2>1 DEF FileBoundsChain
  <2>3. tip \in Nat /\ final \in 0 .. tip /\ Depth \in Nat /\ file[2] \in Nat /\ \A r \in ended : r[2] \in Nat
    BY <1>0, Numbers
  <2>4. QED
    BY <2>2, <2>3
<1>4. CASE UNCHANGED <<fileVars, ended>> /\ ~ReadHeight
  <2>1. run' = "setup" => run = "setup" /\ UNCHANGED <<start, startGen>>
    BY <1>4
       DEF Next, RunStep, ResetStep, RunStarts, Bootstrap, RunUp, RunMines, FindBaseline, WriteBaseline, RunEnds, Wipe,
           Initialise, ResetUp, ReadEpoch, Record, Abort, runVars
  <2>2. QED
    BY <1>0, <1>4, <2>1 DEF FileBoundsStart, Advanced, fileVars
<1>5. QED
  BY <1>1, <1>2, <1>3, <1>4, FileWritten

-----------------------------------------------------------------------------
(* The theorems. *)

\* A manifest is written by a run that finds a baseline or makes its own.
LEMMA ManifestStep ==
  ASSUME IInv, Next
  PROVE  ReusedIsAdvanced' /\ DeepRunIsSeen'
<1>0. TypeOK /\ FileBoundsStart /\ ReusedIsAdvanced /\ DeepRunIsSeen
  BY DEF IInv
<1>1. CASE UNCHANGED manifest
  BY <1>0, <1>1 DEF ReusedIsAdvanced, DeepRunIsSeen, Comparable
<1>2. CASE run = "setup" /\ file # None /\ manifest' = State(file, fileGen, ended)
  <2>1. /\ manifest'.freshness = Classify(start, file[2]) /\ manifest'.before = ended
        /\ manifest'.gen = startGen /\ manifest'.baselineGen = fileGen
    BY <1>2 DEF State
  <2>2. start \in Nat /\ Depth \in Nat /\ file[2] \in Nat /\ \A r \in ended : r[2] \in Nat
    BY <1>0, <1>2, Numbers
  <2>3. CASE fileGen = startGen
    <3>1. /\ start > file[2] => Advanced
          /\ \A r \in ended : r[1] = startGen => file[2] + r[2] <= start + 2 * Depth
      BY <1>0, <1>2, <2>3 DEF FileBoundsStart
    <3>2. start <= file[2] => \A r \in ended : r[1] = startGen => r[2] <= 2 * Depth
      BY <2>2, <3>1
    <3>3. /\ manifest'.freshness = "Fresh" => start <= file[2]
          /\ manifest'.freshness = "Reused" => start > file[2]
      BY <2>1, <2>2 DEF Classify
    <3>4. QED
      BY <2>1, <3>1, <3>2, <3>3 DEF ReusedIsAdvanced, DeepRunIsSeen, Advanced
  <2>4. CASE fileGen # startGen
    BY <2>1, <2>4 DEF ReusedIsAdvanced, DeepRunIsSeen, Comparable
  <2>5. QED
    BY <2>3, <2>4
<1>3. CASE manifest' = State(<<0, start>>, startGen, {})
  <2>1. manifest'.freshness = "Fresh" /\ manifest'.before = {}
    BY <1>0, <1>3, Numbers DEF State, Classify
  <2>2. QED
    BY <2>1 DEF ReusedIsAdvanced, DeepRunIsSeen
<1>4. QED
  BY <1>1, <1>2, <1>3
     DEF Next, RunStep, ResetStep, RunStarts, Bootstrap, RunUp, ReadHeight, RunMines, FindBaseline, WriteBaseline, RunEnds,
         Wipe, Initialise, ResetUp, ReadEpoch, Record, Abort

LEMMA NextIInv == IInv /\ [Next]_vars => IInv'
<1> SUFFICES ASSUME IInv, [Next]_vars PROVE IInv'
  OBVIOUS
<1>1. CASE Next
  BY <1>1, TypeStep, ChainStep, ApartStep, MinedStep, EpochStep, FileChainStep, FileStartStep, ManifestStep DEF IInv
<1>2. CASE UNCHANGED vars
  BY <1>2
     DEF vars, chainVars, fileVars, runVars, resetVars, IInv, TypeOK, DiskFollows, ResetApart, MinedSinceStart,
         EpochBehind, FileBoundsChain, FileBoundsStart, Advanced, Compares, ReusedIsAdvanced, DeepRunIsSeen, Comparable
<1>3. QED
  BY <1>1, <1>2

\* The inductive invariant: the height in the file bounds the chain of its generation from
\* both sides.
THEOREM Invariance == Spec => []IInv
BY InitIInv, NextIInv, PTL DEF Spec

\* Every variable of chain, file, run and reset stays in its range.
THEOREM TypeCorrect == Spec => []TypeOK
<1>1. IInv => TypeOK
  BY DEF IInv
<1>2. QED
  BY <1>1, Invariance, PTL

\* StateFreshness::classify never blames a run on nobody: whatever order runs, resets and
\* restarts come in, Reused on a comparable baseline means that a run has mined since.
THEOREM ReuseSafety == Spec => []ReusedIsAdvanced
<1>1. IInv => ReusedIsAdvanced
  BY DEF IInv
<1>2. QED
  BY <1>1, Invariance, PTL

\* Nor does it overlook a run that mined more than two restarts can lose.
THEOREM FreshSafety == Spec => []DeepRunIsSeen
<1>1. IInv => DeepRunIsSeen
  BY DEF IInv
<1>2. QED
  BY <1>1, Invariance, PTL

=============================================================================
