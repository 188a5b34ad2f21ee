------------------------- MODULE Environment_proofs -------------------------
(***************************************************************************)
(* Proofs about Environment, for any finite set of invocations, any ids    *)
(* and any derivation of ports and subnets from them.                      *)
(***************************************************************************)
EXTENDS Environment, TLAPS

(***************************************************************************)
(* The inductive invariant.  A lock file knows its holder, and its holder  *)
(* knows that it holds it; what the holder of the bootstrap lock wrote     *)
(* into .env.regtest is still there; and what an invocation did to its own *)
(* project is as it left it.                                               *)
(***************************************************************************)

Nets == 0..(Octets - 1)

\* Every variable stays in its range.
TypeOK ==
  /\ pc \in [Procs -> {"resolve", "truncate", "write", "lock", "done"} \cup Occupying]
  /\ id \in [Procs -> Envs \cup {NoEnv}]
  /\ attempt \in [Procs -> 0..(MaxAttempts - 1)]
  /\ script \in [Procs -> Envs \cup {NoEnv}]
  /\ cache \in Envs \cup {NoEnv} /\ minted \subseteq Envs
  /\ runLock \in [Envs -> Procs \cup {NoProc}] /\ bootLock \in Procs \cup {NoProc}
  /\ project \in Envs \cup {NoEnv} /\ net \in Nets \cup {Off}
  /\ miner \in Envs \cup {Placeholder}
  /\ wallet \subseteq Envs /\ stack \in [Envs -> Nets \cup {Off}]
  /\ coinbase \in [Envs -> Envs \cup {Placeholder}]
  /\ subnet \in [Envs -> 0..(MaxAttempts - 1)]
  /\ crashes \in 0..MaxCrashes

\* An invocation that is past the resolution has an id, which was minted.
Resolved ==
  /\ \A p \in Procs : pc[p] \notin {"resolve", "done"} => id[p] \in minted
  /\ cache # NoEnv => cache \in minted

\* Whoever works on an environment holds its lock, and whoever bootstraps holds
\* the bootstrap lock.
LocksAreHeld ==
  \A p \in Procs :
    /\ pc[p] \in Occupying => runLock[id[p]] = p
    /\ pc[p] \in Bootstrapping => bootLock = p

\* .env.regtest holds what the bootstrapping invocation wrote last.
FileIsOfBootstrap ==
  \A p \in Procs :
    /\ pc[p] \in Bootstrapping \ {"sync"} => project = id[p]
    /\ pc[p] = "init" => net = Subnet(id[p], attempt[p])

\* A script runs between its two steps only, in the project of its invocation;
\* the first one has the wallet or the stack it needs to make one.
ScriptAtWork ==
  \A p \in Procs :
    /\ script[p] = IF pc[p] \in {"initEnd", "minerWrite"} THEN id[p] ELSE NoEnv
    /\ pc[p] = "initEnd" => id[p] \in wallet \/ stack[id[p]] = Subnet(id[p], attempt[p])

\* Past the init script the environment has its wallet.
WalletMade ==
  \A p \in Procs : pc[p] \in {"minerSetup", "minerWrite", "up", "run"} => id[p] \in wallet

IInv == /\ TypeOK /\ Resolved /\ LocksAreHeld /\ LocksAreInUse
        /\ FileIsOfBootstrap /\ ScriptAtWork /\ WalletMade /\ RunKeepsItsStack
-----------------------------------------------------------------------------
(* Facts about the states. *)

\* The choices of subnets come round within the networks there are.
LEMMA SubnetInNets ==
  ASSUME NEW e \in Envs, NEW n \in Nat
  PROVE  Subnet(e, n) \in Nets
BY EnvironmentAssumption DEF Subnet, Nets

\* An invocation that holds locks has an environment of its own, and bootstraps alone.
LEMMA Alone ==
  ASSUME IInv, NEW p \in Procs, pc[p] \in Occupying
  PROVE  /\ id[p] \in Envs /\ id[p] \in minted
         /\ \A q \in Procs \ {p} : pc[q] \in Occupying => id[q] # id[p]
         /\ pc[p] \in Bootstrapping => \A q \in Procs \ {p} : pc[q] \notin Bootstrapping
<1>1. id[p] \in Envs /\ id[p] \in minted
  BY DEF IInv, TypeOK, Resolved, Occupying, Bootstrapping
<1>2. ASSUME NEW q \in Procs \ {p}, pc[q] \in Occupying
      PROVE  id[q] # id[p]
  BY <1>2 DEF IInv, LocksAreHeld
<1>3. ASSUME NEW q \in Procs \ {p}, pc[p] \in Bootstrapping
      PROVE  pc[q] \notin Bootstrapping
  BY <1>3 DEF IInv, LocksAreHeld
<1>4. QED
  BY <1>1, <1>2, <1>3

\* The project a running script, or one about to start, works in.
LEMMA InOwnProject ==
  ASSUME IInv, NEW p \in Procs
  PROVE  /\ pc[p] \in Bootstrapping \ {"sync"} => project = id[p]
         /\ pc[p] \in {"initEnd", "minerWrite"} => script[p] = id[p]
BY DEF IInv, FileIsOfBootstrap, ScriptAtWork

-----------------------------------------------------------------------------
(* What a step of an invocation touches: its own control, and of what the  *)
(* invocations share only that whose lock it holds.                        *)

\* The other invocations stay where they are.
OthersStay(p) ==
  \A q \in Procs \ {p} :
    pc'[q] = pc[q] /\ id'[q] = id[q] /\ attempt'[q] = attempt[q] /\ script'[q] = script[q]

\* The shared state moves under its locks, and no lock is taken from its holder.
UnderItsLocks(p) ==
  /\ pc[p] \notin Bootstrapping => UNCHANGED <<project, net, miner, wallet>>
  /\ \A e \in Envs : pc[p] \notin Occupying \/ e # id[p] => stack'[e] = stack[e]
  /\ \A e \in Envs : runLock[e] \notin {p, NoProc} => runLock'[e] = runLock[e]
  /\ bootLock \notin {p, NoProc} => bootLock' = bootLock
  /\ wallet \subseteq wallet' /\ minted \subseteq minted'

Work(p) == Step(p) \/ Crash(p)

LEMMA ExitStays ==
  ASSUME TypeOK, NEW p \in Procs, Exit(p)
  PROVE  /\ \A q \in Procs \ {p} : pc'[q] = pc[q] /\ script'[q] = script[q]
         /\ \A e \in Envs : runLock[e] # p => runLock'[e] = runLock[e]
         /\ bootLock # p => bootLock' = bootLock
BY DEF Exit, Goto, ReleaseLocks, TypeOK

LEMMA Footprint ==
  ASSUME IInv, NEW p \in Procs, Work(p)
  PROVE  OthersStay(p) /\ UnderItsLocks(p)
<1> USE DEF OthersStay, UnderItsLocks, Goto, lockVars, fileVars, stackVars, Occupying, Bootstrapping
<1>0. TypeOK
  BY DEF IInv
<1>1. CASE Resolve(p) \/ WriteCache(p) \/ AcquireRunLock(p) \/ AcquireBootstrapLock(p)
  BY <1>0, <1>1 DEF TypeOK, Resolve, WriteCache, AcquireRunLock, AcquireBootstrapLock
<1>2. CASE SyncEnvFile(p)
  BY <1>0, <1>2 DEF TypeOK, SyncEnvFile, WriteEnvFile
<1>3. CASE InitScript(p)
  <2>1. project = id[p] /\ UNCHANGED <<id, project, net, miner, wallet, minted>>
    BY <1>3, InOwnProject DEF InitScript
  <2>2. CASE script' = [script EXCEPT ![p] = project] /\ Goto(p, "initEnd") /\ UNCHANGED <<attempt, lockVars>>
    BY <1>0, <1>3, <2>1, <2>2 DEF TypeOK, InitScript, BringsUp
  <2>3. CASE SubnetConflict(p, "sync") /\ UNCHANGED stack
    BY <1>0, <2>1, <2>3, ExitStays DEF TypeOK, SubnetConflict
  <2>4. QED
    BY <1>3, <2>2, <2>3 DEF InitScript
<1>4. CASE InitScriptEnds(p)
  BY <1>0, <1>4, InOwnProject DEF TypeOK, InitScriptEnds, BringsDown
<1>5. CASE MinerSetup(p)
  <2>1. pc[p] = "minerSetup" /\ project = id[p] /\ UNCHANGED <<id, project, net, miner, wallet, minted>>
    BY <1>5, InOwnProject DEF MinerSetup
  <2>2. CASE /\ script' = [script EXCEPT ![p] = project] /\ Goto(p, "minerWrite")
             /\ BringsUp(project, Subnet(id[p], attempt[p])) /\ UNCHANGED <<lockVars, attempt>>
    BY <1>0, <2>1, <2>2 DEF TypeOK, BringsUp
  <2>3. CASE Exit(p) /\ UNCHANGED <<stack, attempt>>
    BY <1>0, <2>1, <2>3, ExitStays DEF TypeOK
  <2>4. CASE bootLock' = NoProc /\ ReadAttempt(p) /\ Goto(p, "up") /\ UNCHANGED <<script, runLock, stack>>
    <3>1. bootLock = p
      BY <2>1 DEF IInv, LocksAreHeld
    <3>2. QED
      BY <1>0, <2>1, <2>4, <3>1 DEF TypeOK, ReadAttempt
  <2>5. QED
    BY <1>5, <2>2, <2>3, <2>4 DEF MinerSetup
<1>6. CASE MinerSetupEnds(p)
  <2>1. bootLock = p
    BY <1>6 DEF IInv, LocksAreHeld, MinerSetupEnds
  <2>2. QED
    BY <1>0, <1>6, <2>1, InOwnProject DEF TypeOK, MinerSetupEnds, BringsDown, ReadAttempt
<1>7. CASE ScriptFails(p)
  BY <1>0, <1>7, ExitStays, InOwnProject DEF TypeOK, ScriptFails, BringsDown
<1>8. CASE BringUp(p)
  BY <1>0, <1>8, ExitStays DEF TypeOK, BringUp, BringsUp, SubnetConflict
<1>9. CASE Stop(p)
  BY <1>0, <1>9, ExitStays DEF TypeOK, Stop, BringsDown
<1>10. CASE PrintVersions(p) \/ Crash(p)
  BY <1>0, <1>10, ExitStays DEF TypeOK, PrintVersions, Crash
<1>11. QED
  BY <1>1, <1>2, <1>3, <1>4, <1>5, <1>6, <1>7, <1>8, <1>9, <1>10 DEF Work, Step
-----------------------------------------------------------------------------
(* The invariant, step by step.                                            *)

LEMMA InitIInv == Init => IInv
<1> SUFFICES ASSUME Init PROVE IInv
  OBVIOUS
<1>1. TypeOK
  BY EnvironmentAssumption DEF Init, TypeOK
<1>2. \A p \in Procs : pc[p] = "resolve" /\ script[p] = NoEnv
  BY DEF Init
<1>3. Resolved /\ LocksAreHeld /\ FileIsOfBootstrap /\ ScriptAtWork /\ WalletMade /\ RunKeepsItsStack
  BY <1>2 DEF Init, Resolved, LocksAreHeld, FileIsOfBootstrap, ScriptAtWork, WalletMade,
              RunKeepsItsStack, Occupying, Bootstrapping
<1>4. LocksAreInUse
  BY DEF Init, LocksAreInUse
<1>5. QED
  BY <1>1, <1>3, <1>4 DEF IInv

\* The end of an invocation keeps the types of what it changes.
LEMMA ExitTypes ==
  ASSUME TypeOK, NEW p \in Procs, Exit(p)
  PROVE  /\ pc' \in [Procs -> {"resolve", "truncate", "write", "lock", "done"} \cup Occupying]
         /\ script' \in [Procs -> Envs \cup {NoEnv}]
         /\ runLock' \in [Envs -> Procs \cup {NoProc}] /\ bootLock' \in Procs \cup {NoProc}
BY DEF Exit, Goto, ReleaseLocks, TypeOK

LEMMA TypeStep ==
  ASSUME IInv, NEW p \in Procs, Work(p)
  PROVE  TypeOK'
<1> USE DEF Goto, lockVars, fileVars, stackVars, Occupying, Bootstrapping
<1>0. TypeOK /\ MaxAttempts \in Nat \ {0} /\ MaxCrashes \in Nat /\ NoEnv \notin Envs
  BY EnvironmentAssumption DEF IInv
<1>a. pc[p] \in Occupying => id[p] \in Envs /\ attempt[p] \in Nat /\ Subnet(id[p], attempt[p]) \in Nets
  BY <1>0, Alone, SubnetInNets DEF TypeOK
<1>1. CASE Resolve(p) \/ WriteCache(p)
  BY <1>0, <1>1 DEF TypeOK, Resolve, WriteCache
<1>2. CASE AcquireRunLock(p) \/ AcquireBootstrapLock(p)
  BY <1>0, <1>a, <1>2 DEF TypeOK, AcquireRunLock, AcquireBootstrapLock
<1>3. CASE SyncEnvFile(p)
  BY <1>0, <1>a, <1>3 DEF TypeOK, SyncEnvFile, WriteEnvFile
<1>4. CASE InitScript(p)
  BY <1>0, <1>4, <1>a, ExitTypes DEF TypeOK, InitScript, BringsUp, SubnetConflict
<1>5. CASE InitScriptEnds(p)
  BY <1>0, <1>5, <1>a, InOwnProject DEF TypeOK, InitScriptEnds, BringsDown, CacheAttempt
<1>6. CASE MinerSetup(p)
  BY <1>0, <1>6, <1>a, ExitTypes, InOwnProject DEF TypeOK, MinerSetup, BringsUp, ReadAttempt
<1>7. CASE MinerSetupEnds(p)
  BY <1>0, <1>7, <1>a, InOwnProject DEF TypeOK, MinerSetupEnds, BringsDown, ReadAttempt
<1>8. CASE ScriptFails(p)
  BY <1>0, <1>8, <1>a, ExitTypes, InOwnProject DEF TypeOK, ScriptFails, BringsDown
<1>9. CASE BringUp(p)
  BY <1>0, <1>9, <1>a, ExitTypes DEF TypeOK, BringUp, BringsUp, SubnetConflict, CacheAttempt
<1>10. CASE Stop(p)
  BY <1>0, <1>10, ExitTypes DEF TypeOK, Stop, BringsDown
<1>11. CASE PrintVersions(p) \/ Crash(p)
  BY <1>0, <1>11, ExitTypes DEF TypeOK, PrintVersions, Crash
<1>12. QED
  BY <1>1, <1>2, <1>3, <1>4, <1>5, <1>6, <1>7, <1>8, <1>9, <1>10, <1>11 DEF Work, Step
\* What the invariant says of one invocation.
Own(p) ==
  /\ pc[p] \notin {"resolve", "done"} => id[p] \in minted
  /\ pc[p] \in Occupying => runLock[id[p]] = p
  /\ pc[p] \in Bootstrapping => bootLock = p
  /\ pc[p] \in Bootstrapping \ {"sync"} => project = id[p]
  /\ pc[p] = "init" => net = Subnet(id[p], attempt[p])
  /\ script[p] = IF pc[p] \in {"initEnd", "minerWrite"} THEN id[p] ELSE NoEnv
  /\ pc[p] = "initEnd" => id[p] \in wallet \/ stack[id[p]] = Subnet(id[p], attempt[p])
  /\ pc[p] \in {"minerSetup", "minerWrite", "up", "run"} => id[p] \in wallet
  /\ pc[p] = "run" => stack[id[p]] = Subnet(id[p], attempt[p])

LEMMA IInvIsOwn ==
  IInv <=> /\ TypeOK /\ LocksAreInUse /\ (cache # NoEnv => cache \in minted)
           /\ \A p \in Procs : Own(p)
BY DEF IInv, Own, Resolved, LocksAreHeld, FileIsOfBootstrap, ScriptAtWork, WalletMade,
       RunKeepsItsStack

\* Another invocation finds everything it relies on as it was.
LEMMA OthersUnharmed ==
  ASSUME IInv, NEW p \in Procs, Work(p), NEW q \in Procs \ {p}
  PROVE  Own(q)'
<1> USE DEF Occupying, Bootstrapping
<1>1. Own(q) /\ OthersStay(p) /\ UnderItsLocks(p) /\ q # NoProc
  BY IInvIsOwn, Footprint, EnvironmentAssumption
<1>2. /\ pc'[q] = pc[q] /\ id'[q] = id[q] /\ attempt'[q] = attempt[q] /\ script'[q] = script[q]
      /\ Subnet(id[q], attempt[q])' = Subnet(id[q], attempt[q])
  BY <1>1 DEF OthersStay, Subnet
<1>3. ASSUME pc[q] \in Occupying
      PROVE  /\ id[q] \in Envs /\ stack'[id[q]] = stack[id[q]] /\ runLock'[id[q]] = runLock[id[q]]
             /\ (pc[p] \in Occupying => id[p] # id[q])
  <2>1. id[q] \in Envs /\ (pc[p] \in Occupying => id[p] # id[q])
    BY <1>3, Alone
  <2>2. runLock[id[q]] = q
    BY <1>1, <1>3 DEF Own
  <2>3. QED
    BY <1>1, <2>1, <2>2 DEF UnderItsLocks
<1>4. ASSUME pc[q] \in Bootstrapping
      PROVE  bootLock' = bootLock /\ UNCHANGED <<project, net>>
  <2>1. bootLock = q /\ pc[p] \notin Bootstrapping
    BY <1>1, <1>4, Alone DEF Own
  <2>2. QED
    BY <1>1, <2>1 DEF UnderItsLocks
<1>5. wallet \subseteq wallet' /\ minted \subseteq minted'
  BY <1>1 DEF UnderItsLocks
<1>6. QED
  BY <1>1, <1>2, <1>3, <1>4, <1>5 DEF Own
\* An invocation that ends, or has not yet locked its environment, relies on nothing.
LEMMA ExitOwn ==
  ASSUME IInv, NEW p \in Procs, Exit(p)
  PROVE  Own(p)'
BY DEF IInv, TypeOK, Exit, Goto, Own, Occupying, Bootstrapping

\* A subnet conflict ends the invocation or starts the attempt again.
LEMMA ConflictOwn ==
  ASSUME IInv, NEW p \in Procs, NEW again \in {"sync", "up"}, SubnetConflict(p, again),
         again = "sync" => pc[p] = "init", again = "up" => pc[p] = "up",
         UNCHANGED <<id, minted, wallet>>
  PROVE  Own(p)'
<1>1. CASE Exit(p)
  BY <1>1, ExitOwn
<1>2. CASE Goto(p, again) /\ UNCHANGED <<script, lockVars>>
  BY <1>2, IInvIsOwn DEF IInv, TypeOK, Goto, Own, lockVars, Occupying, Bootstrapping
<1>3. QED
  BY <1>1, <1>2 DEF SubnetConflict

LEMMA OwnStep ==
  ASSUME IInv, NEW p \in Procs, Work(p)
  PROVE  Own(p)'
<1> USE DEF Goto, lockVars, fileVars, stackVars, Occupying, Bootstrapping, Own, Subnet
<1>0. TypeOK /\ Own(p)
  BY IInvIsOwn DEF IInv
<1>a. pc[p] \in Occupying => id[p] \in Envs
  BY Alone
<1>1. CASE Resolve(p) \/ WriteCache(p)
  BY <1>0, <1>1, IInvIsOwn DEF TypeOK, Resolve, WriteCache
<1>2. CASE AcquireRunLock(p)
  <2>1. id[p] \in Envs
    BY <1>0, <1>2 DEF TypeOK, AcquireRunLock
  <2>2. QED
    BY <1>0, <1>2, <2>1 DEF TypeOK, AcquireRunLock
<1>3. CASE AcquireBootstrapLock(p)
  BY <1>0, <1>3 DEF TypeOK, AcquireBootstrapLock
<1>4. CASE SyncEnvFile(p)
  BY <1>0, <1>4 DEF TypeOK, SyncEnvFile, WriteEnvFile
<1>5. CASE InitScript(p)
  <2>1. pc[p] = "init" /\ project = id[p] /\ id[p] \in Envs /\ UNCHANGED <<id, minted, wallet>>
    BY <1>0, <1>a, <1>5 DEF InitScript
  <2>2. CASE SubnetConflict(p, "sync")
    BY <2>1, <2>2, ConflictOwn
  <2>3. CASE ~SubnetConflict(p, "sync")
    BY <1>0, <1>5, <2>1, <2>3 DEF TypeOK, InitScript, BringsUp
  <2>4. QED
    BY <2>2, <2>3
<1>6. CASE InitScriptEnds(p)
  BY <1>0, <1>a, <1>6 DEF TypeOK, InitScriptEnds
<1>7. CASE MinerSetup(p)
  <2>1. CASE Exit(p)
    BY <2>1, ExitOwn
  <2>2. CASE ~Exit(p)
    BY <1>0, <1>a, <1>7, <2>2 DEF TypeOK, MinerSetup, ReadAttempt
  <2>3. QED
    BY <2>1, <2>2
<1>8. CASE MinerSetupEnds(p)
  BY <1>0, <1>a, <1>8 DEF TypeOK, MinerSetupEnds, ReadAttempt
<1>9. CASE BringUp(p)
  <2>1. pc[p] = "up" /\ UNCHANGED <<id, minted, wallet>>
    BY <1>9 DEF BringUp
  <2>2. CASE SubnetConflict(p, "up")
    BY <2>1, <2>2, ConflictOwn
  <2>3. CASE ~SubnetConflict(p, "up")
    BY <1>0, <1>a, <1>9, <2>3 DEF TypeOK, BringUp, BringsUp
  <2>4. QED
    BY <2>2, <2>3
<1>10. CASE ScriptFails(p) \/ Stop(p) \/ PrintVersions(p) \/ Crash(p)
  BY <1>10, ExitOwn DEF ScriptFails, Stop, PrintVersions, Crash
<1>11. QED
  BY <1>1, <1>2, <1>3, <1>4, <1>5, <1>6, <1>7, <1>8, <1>9, <1>10 DEF Work, Step

\* A lock that is held after a step was held before by the same invocation, which still
\* works under it, or was taken by this step.
LEMMA LocksStep ==
  ASSUME IInv, NEW p \in Procs, Work(p)
  PROVE  LocksAreInUse'
<1> USE DEF Goto, lockVars, fileVars, stackVars, Occupying, Bootstrapping, LocksAreInUse
<1>0. TypeOK /\ LocksAreInUse /\ Own(p) /\ OthersStay(p) /\ NoProc \notin Procs
  BY IInvIsOwn, Footprint, EnvironmentAssumption DEF IInv
<1>1. CASE Exit(p) /\ UNCHANGED id
  BY <1>0, <1>1 DEF TypeOK, Exit, ReleaseLocks, OthersStay
<1>2. CASE UNCHANGED <<runLock, id>> /\ bootLock' = bootLock /\ pc'[p] \in Occupying
           /\ (pc[p] \in Bootstrapping => pc'[p] \in Bootstrapping)
  BY <1>0, <1>2 DEF TypeOK, OthersStay
<1>3. CASE Resolve(p) \/ WriteCache(p)
  BY <1>0, <1>3 DEF TypeOK, OthersStay, Resolve, WriteCache
<1>4. CASE AcquireRunLock(p)
  BY <1>0, <1>4 DEF TypeOK, OthersStay, AcquireRunLock
<1>5. CASE AcquireBootstrapLock(p)
  BY <1>0, <1>5 DEF TypeOK, OthersStay, AcquireBootstrapLock
<1>6. CASE SyncEnvFile(p) \/ InitScriptEnds(p)
  BY <1>0, <1>2, <1>6 DEF TypeOK, SyncEnvFile, InitScriptEnds
<1>7. CASE InitScript(p)
  BY <1>0, <1>1, <1>2, <1>7 DEF TypeOK, InitScript, SubnetConflict
<1>8. CASE MinerSetup(p)
  <2>1. CASE bootLock' = NoProc /\ Goto(p, "up") /\ UNCHANGED <<id, runLock>>
    BY <1>0, <2>1 DEF TypeOK, OthersStay
  <2>2. QED
    BY <1>0, <1>1, <1>2, <1>8, <2>1 DEF TypeOK, MinerSetup
<1>9. CASE MinerSetupEnds(p)
  BY <1>0, <1>9 DEF TypeOK, OthersStay, MinerSetupEnds
<1>10. CASE BringUp(p)
  BY <1>0, <1>1, <1>2, <1>10 DEF TypeOK, BringUp, SubnetConflict
<1>11. CASE ScriptFails(p) \/ Stop(p) \/ PrintVersions(p) \/ Crash(p)
  BY <1>1, <1>11 DEF ScriptFails, Stop, PrintVersions, Crash
<1>12. QED
  BY <1>3, <1>4, <1>5, <1>6, <1>7, <1>8, <1>9, <1>10, <1>11 DEF Work, Step

LEMMA CacheStep ==
  ASSUME IInv, NEW p \in Procs, Work(p)
  PROVE  cache' # NoEnv => cache' \in minted'
<1>1. CASE WriteCache(p)
  BY <1>1 DEF WriteCache, IInv, Resolved
<1>2. CASE ~WriteCache(p)
  <2>1. cache' = cache
    BY <1>2 DEF Work, Step, Resolve, AcquireRunLock, AcquireBootstrapLock, SyncEnvFile, InitScript,
         InitScriptEnds, MinerSetup, MinerSetupEnds, ScriptFails, BringUp, Stop, PrintVersions,
         Crash, fileVars
  <2>2. minted \subseteq minted'
    BY Footprint DEF UnderItsLocks
  <2>3. QED
    BY <2>1, <2>2 DEF IInv, Resolved
<1>3. QED
  BY <1>1, <1>2

LEMMA NextIInv == IInv /\ [Next]_vars => IInv'
<1> SUFFICES ASSUME IInv, [Next]_vars PROVE IInv'
  OBVIOUS
<1>1. ASSUME NEW p \in Procs, Work(p)
      PROVE  IInv'
  <2>1. TypeOK' /\ LocksAreInUse' /\ (cache' # NoEnv => cache' \in minted')
    BY <1>1, TypeStep, LocksStep, CacheStep
  <2>2. \A q \in Procs : Own(q)'
    BY <1>1, OthersUnharmed, OwnStep
  <2>3. QED
    BY <2>1, <2>2 DEF IInv, Own, Resolved, LocksAreHeld, FileIsOfBootstrap, ScriptAtWork,
                      WalletMade, RunKeepsItsStack
<1>2. CASE UNCHANGED vars
  BY <1>2 DEF vars, procVars, lockVars, fileVars, stackVars, IInv, TypeOK, Resolved, LocksAreHeld,
              LocksAreInUse, FileIsOfBootstrap, ScriptAtWork, WalletMade, RunKeepsItsStack, Subnet
<1>3. QED
  BY <1>1, <1>2 DEF Next, Work
-----------------------------------------------------------------------------
(* What follows of the invocations of a checkout. *)

\* The inductive invariant holds in every reachable state, for any set of invocations.
THEOREM Invariance == Spec => []IInv
BY InitIInv, NextIInv, PTL DEF Spec

\* Two invocations never work on one environment at a time (z3/run_lock.rs, acquire).
THEOREM MutualExclusion == Spec => []OneRunPerEnv
<1>1. IInv => OneRunPerEnv
  BY Alone DEF OneRunPerEnv
<1>2. QED
  BY <1>1, Invariance, PTL

\* A bootstrap script works in the project of its invocation and on the subnet that will be
\* remembered for it, whatever the shared file held before (z3/run_lock.rs, BootstrapLock).
THEOREM ScriptSafety == Spec => []ScriptInOwnProject
<1>1. IInv => ScriptInOwnProject
  <2> SUFFICES ASSUME IInv, NEW p \in Procs, script[p] # NoEnv
               PROVE  /\ script[p] = id[p]
                      /\ script[p] \in wallet \/ stack[script[p]] = Subnet(id[p], attempt[p])
    BY DEF ScriptInOwnProject
  <2>1. pc[p] \in {"initEnd", "minerWrite"} /\ script[p] = id[p]
    BY DEF IInv, ScriptAtWork
  <2>2. QED
    BY <2>1 DEF IInv, ScriptAtWork, WalletMade
<1>2. QED
  BY <1>1, Invariance, PTL

\* Nothing another invocation does takes a run's stack, network or wallet away.
THEOREM StackSafety == Spec => []RunKeepsItsStack
BY Invariance, PTL DEF IInv

\* Whatever is killed, no lock is left with an invocation that is gone.
THEOREM LockSafety == Spec => []LocksAreInUse
BY Invariance, PTL DEF IInv

\* A stack is brought up or down by the invocation that holds the lock of its environment
\* only, and .env.regtest and the wallets change under the bootstrap lock only
\* (z3/run_lock.rs, the comments of RunLock and BootstrapLock).
ChangesUnderLocks ==
  [][/\ \A e \in Envs : stack'[e] # stack[e] =>
          \E p \in Procs : runLock[e] = p /\ Work(p)
     /\ <<project, net, miner, wallet>>' # <<project, net, miner, wallet>> =>
          \E p \in Procs : bootLock = p /\ Work(p)]_vars

\* The shared state of a checkout changes hands through its locks.
THEOREM LockDiscipline == Spec => ChangesUnderLocks
<1> DEFINE A == /\ \A e \in Envs : stack'[e] # stack[e] =>
                     \E p \in Procs : runLock[e] = p /\ Work(p)
                /\ <<project, net, miner, wallet>>' # <<project, net, miner, wallet>> =>
                     \E p \in Procs : bootLock = p /\ Work(p)
<1>1. ASSUME IInv, NEW p \in Procs, Work(p)
      PROVE  A
  <2>1. UnderItsLocks(p) /\ Own(p)
    BY <1>1, Footprint, IInvIsOwn
  <2>2. QED
    BY <1>1, <2>1 DEF UnderItsLocks, Own
<1>2. IInv /\ [Next]_vars => [A]_vars
  BY <1>1 DEF Next, Work
<1>3. QED
  BY <1>2, Invariance, PTL DEF Spec, ChangesUnderLocks

-----------------------------------------------------------------------------
(* An environment is let to one tenant at a time: Environment implements   *)
(* Tenancy.                                                                *)

\* What an invocation is to the environment it works on.
RoleOf(p) == CASE pc[p] = "bootlock" -> "waiting"
               [] pc[p] \in Bootstrapping -> "building"
               [] pc[p] = "up" -> "ready"
               [] pc[p] = "run" -> "running"
               [] OTHER -> "away"

HomeOf(p) == IF pc[p] \in Occupying THEN id[p] ELSE NoEnv

Checkout == INSTANCE Tenancy WITH
  Networks <- Nets,
  role <- [p \in Procs |-> RoleOf(p)],
  home <- [p \in Procs |-> HomeOf(p)]

TenancySpec == Checkout!Spec

\* A step changes the role and the home of one invocation.
LEMMA OneMoves ==
  ASSUME IInv, NEW p \in Procs, Work(p), NEW r, NEW h, RoleOf(p)' = r, HomeOf(p)' = h
  PROVE  /\ [q \in Procs |-> RoleOf(q)]' = [[q \in Procs |-> RoleOf(q)] EXCEPT ![p] = r]
         /\ [q \in Procs |-> HomeOf(q)]' = [[q \in Procs |-> HomeOf(q)] EXCEPT ![p] = h]
<1>1. ASSUME NEW q \in Procs \ {p}
      PROVE  RoleOf(q)' = RoleOf(q) /\ HomeOf(q)' = HomeOf(q)
  <2>1. pc'[q] = pc[q] /\ id'[q] = id[q]
    BY Footprint DEF OthersStay
  <2>2. QED
    BY <2>1 DEF RoleOf, HomeOf
<1>2. QED
  BY <1>1

\* Who works on the same environment before and after its step is its tenant throughout.
LEMMA Remains ==
  ASSUME IInv, NEW p \in Procs, Work(p), UNCHANGED id, pc[p] \in Occupying, pc'[p] \in Occupying
  PROVE  Checkout!Becomes(p, RoleOf(p)')
<1>1. HomeOf(p)' = HomeOf(p)
  BY DEF HomeOf
<1>2. /\ [q \in Procs |-> RoleOf(q)]' = [[q \in Procs |-> RoleOf(q)] EXCEPT ![p] = RoleOf(p)']
      /\ [q \in Procs |-> HomeOf(q)]' = [[q \in Procs |-> HomeOf(q)] EXCEPT ![p] = HomeOf(p)]
  BY <1>1, OneMoves
<1>3. QED
  BY <1>2 DEF Checkout!Becomes

\* Who ends leaves.
LEMMA Departs ==
  ASSUME IInv, NEW p \in Procs, Work(p), pc'[p] \notin Occupying
  PROVE  Checkout!Leaves(p)
<1>1. RoleOf(p)' = "away" /\ HomeOf(p)' = NoEnv
  BY DEF RoleOf, HomeOf, Occupying, Bootstrapping
<1>2. QED
  BY <1>1, OneMoves DEF Checkout!Leaves

\* The stack of the tenant's own environment is the only one that may change.
LEMMA TouchesOwnStack ==
  ASSUME IInv, IInv', NEW p \in Procs, Work(p), pc[p] \in Occupying
  PROVE  Checkout!OwnStack(p)
<1>1. HomeOf(p) = id[p] /\ UnderItsLocks(p) /\ stack' \in [Envs -> Nets \cup {Off}]
  BY Footprint DEF HomeOf, IInv, TypeOK
<1>2. \A e \in Envs \ {id[p]} : stack'[e] = stack[e]
  BY <1>1 DEF UnderItsLocks
<1>3. QED
  BY <1>1, <1>2 DEF Checkout!OwnStack

\* What a step of the builder does besides.
LEMMA BuildsOwn ==
  ASSUME IInv, NEW p \in Procs, Work(p), pc[p] \in Bootstrapping
  PROVE  /\ wallet' \in {wallet, wallet \cup {id[p]}}
         /\ project' \in {project, id[p]} /\ miner' \in {miner, id[p]}
<1> USE DEF fileVars, stackVars, Bootstrapping
<1>1. CASE SyncEnvFile(p)
  BY <1>1 DEF SyncEnvFile, WriteEnvFile, stackVars
<1>2. CASE InitScriptEnds(p) \/ MinerSetupEnds(p) \/ ScriptFails(p)
  BY <1>2, InOwnProject DEF InitScriptEnds, MinerSetupEnds, ScriptFails
<1>3. CASE InitScript(p) \/ MinerSetup(p) \/ Crash(p)
  BY <1>3 DEF InitScript, MinerSetup, Crash
<1>4. QED
  BY <1>1, <1>2, <1>3 DEF Work, Step, Resolve, WriteCache, AcquireRunLock, AcquireBootstrapLock,
                          BringUp, Stop, PrintVersions

\* The bootstrap is steps of the builder.
LEMMA BootstrapBuilds ==
  ASSUME IInv, IInv', NEW p \in Procs, Work(p), pc[p] \in Bootstrapping
  PROVE  Checkout!Build(p)
<1>1. pc[p] \in Occupying /\ RoleOf(p) = "building" /\ HomeOf(p) = id[p]
  BY DEF RoleOf, HomeOf, Occupying, Bootstrapping
<1>2. /\ UNCHANGED id /\ pc' = [pc EXCEPT ![p] = pc'[p]]
      /\ pc'[p] \in Bootstrapping \cup {"up", "done"}
  <2> USE DEF Goto, Exit, SubnetConflict, Bootstrapping, fileVars, stackVars
  <2>1. CASE SyncEnvFile(p) \/ InitScript(p) \/ InitScriptEnds(p) \/ MinerSetup(p)
    BY <2>1 DEF IInv, TypeOK, SyncEnvFile, InitScript, InitScriptEnds, MinerSetup
  <2>2. CASE MinerSetupEnds(p) \/ ScriptFails(p) \/ Crash(p)
    BY <2>2 DEF IInv, TypeOK, MinerSetupEnds, ScriptFails, Crash
  <2>3. QED
    BY <2>1, <2>2 DEF Work, Step, Resolve, WriteCache, AcquireRunLock, AcquireBootstrapLock,
                      BringUp, Stop, PrintVersions
<1>3. Checkout!OwnStack(p)
  BY <1>1, TouchesOwnStack
<1>4. /\ wallet' \in {wallet, wallet \cup {HomeOf(p)}}
      /\ project' \in {project, HomeOf(p)} /\ miner' \in {miner, HomeOf(p)}
  BY <1>1, BuildsOwn
<1>5. CASE pc'[p] \in Bootstrapping
  <2>1. RoleOf(p)' = "building" /\ pc'[p] \in Occupying
    BY <1>5 DEF RoleOf, Occupying, Bootstrapping
  <2>2. Checkout!Becomes(p, "building")
    BY <1>1, <1>2, <2>1, Remains
  <2>3. QED
    BY <1>1, <1>3, <1>4, <2>2 DEF Checkout!Build
<1>6. CASE pc'[p] = "up"
  <2>1. RoleOf(p)' = "ready" /\ pc'[p] \in Occupying
    BY <1>6 DEF RoleOf, Occupying, Bootstrapping
  <2>2. Checkout!Becomes(p, "ready")
    BY <1>1, <1>2, <2>1, Remains
  <2>3. HomeOf(p) \in wallet'
    BY <1>1, <1>2, <1>6 DEF IInv, WalletMade
  <2>4. QED
    BY <1>1, <1>3, <1>4, <2>2, <2>3 DEF Checkout!Build
<1>7. CASE pc'[p] = "done"
  <2>1. Checkout!Leaves(p)
    BY <1>7, Departs DEF Occupying, Bootstrapping
  <2>2. QED
    BY <1>1, <1>3, <1>4, <2>1 DEF Checkout!Build
<1>8. QED
  BY <1>2, <1>5, <1>6, <1>7

\* A lock that is free is no tenant's, and no builder's.
LEMMA FreeMeansVacant ==
  ASSUME IInv
  PROVE  /\ \A e \in Envs : runLock[e] = NoProc => \A q \in Procs : HomeOf(q) # e
         /\ bootLock = NoProc => \A q \in Procs : RoleOf(q) # "building"
<1>1. NoProc \notin Procs /\ NoEnv \notin Envs
  BY EnvironmentAssumption
<1>2. ASSUME NEW e \in Envs, runLock[e] = NoProc, NEW q \in Procs
      PROVE  HomeOf(q) # e
  BY <1>1, <1>2 DEF IInv, LocksAreHeld, HomeOf
<1>3. ASSUME bootLock = NoProc, NEW q \in Procs
      PROVE  RoleOf(q) # "building"
  <2>1. pc[q] \notin Bootstrapping
    BY <1>1, <1>3 DEF IInv, LocksAreHeld
  <2>2. QED
    BY <2>1 DEF RoleOf
<1>4. QED
  BY <1>2, <1>3

\* The lock of an environment, taken, is the key to it; without it the invocation stays out.
LEMMA LockEnters ==
  ASSUME IInv, NEW p \in Procs, AcquireRunLock(p)
  PROVE  Checkout!Enter(p) \/ UNCHANGED Checkout!vars
<1> DEFINE Role == [q \in Procs |-> RoleOf(q)]
           Home == [q \in Procs |-> HomeOf(q)]
<1>1. /\ Work(p) /\ pc[p] = "lock" /\ id[p] \in Envs
      /\ UNCHANGED <<id, stack, wallet, project, miner>>
  BY DEF AcquireRunLock, Work, Step, IInv, TypeOK, Resolved, fileVars, stackVars
<1>2. RoleOf(p) = "away" /\ HomeOf(p) = NoEnv
  BY <1>1 DEF RoleOf, HomeOf, Occupying, Bootstrapping
<1>3. CASE runLock[id[p]] = NoProc /\ Goto(p, "bootlock")
  <2>1. pc'[p] = "bootlock"
    BY <1>3 DEF Goto, IInv, TypeOK
  <2>2. RoleOf(p)' = "waiting" /\ HomeOf(p)' = id[p]
    BY <1>1, <2>1 DEF RoleOf, HomeOf, Occupying, Bootstrapping
  <2>3. /\ Role' = [Role EXCEPT ![p] = "waiting"]
        /\ Home' = [Home EXCEPT ![p] = id[p]]
    BY <1>1, <2>2, OneMoves
  <2>4. \A q \in Procs : Home[q] # id[p]
    BY <1>1, <1>3, FreeMeansVacant
  <2>5. QED
    BY <1>1, <1>2, <2>3, <2>4 DEF Checkout!Enter
<1>4. CASE Goto(p, "done")
  <2>1. pc'[p] = "done"
    BY <1>4 DEF Goto, IInv, TypeOK
  <2>2. RoleOf(p)' = "away" /\ HomeOf(p)' = NoEnv
    BY <2>1 DEF RoleOf, HomeOf, Occupying, Bootstrapping
  <2>3. /\ Role' = [Role EXCEPT ![p] = "away"]
        /\ Home' = [Home EXCEPT ![p] = NoEnv]
    BY <1>1, <2>2, OneMoves
  <2>4. Role' = Role /\ Home' = Home
    BY <1>2, <2>3
  <2>5. QED
    BY <1>1, <2>4 DEF Checkout!vars
<1>5. QED
  BY <1>3, <1>4 DEF AcquireRunLock

\* Whoever gets the bootstrap lock finds nobody building.
LEMMA LockBuilds ==
  ASSUME IInv, NEW p \in Procs, AcquireBootstrapLock(p)
  PROVE  Checkout!StartBuild(p)
<1>1. /\ Work(p) /\ pc[p] = "bootlock" /\ pc'[p] = "sync" /\ bootLock = NoProc
      /\ UNCHANGED <<id, stack, wallet, project, miner>>
  BY DEF AcquireBootstrapLock, Work, Step, Goto, IInv, TypeOK, fileVars, stackVars
<1>2. RoleOf(p) = "waiting" /\ RoleOf(p)' = "building"
  BY <1>1 DEF RoleOf, Bootstrapping
<1>3. Checkout!Becomes(p, "building")
  BY <1>1, <1>2, Remains DEF Occupying, Bootstrapping
<1>4. \A q \in Procs : RoleOf(q) # "building"
  BY <1>1, FreeMeansVacant
<1>5. QED
  BY <1>1, <1>2, <1>3, <1>4 DEF Checkout!StartBuild

\* The stack of a run comes up in an environment with a wallet; another subnet is tried in
\* place.
LEMMA UpStarts ==
  ASSUME IInv, IInv', NEW p \in Procs, BringUp(p)
  PROVE  Checkout!Start(p) \/ Checkout!Leave(p) \/ UNCHANGED Checkout!vars
<1> DEFINE Role == [q \in Procs |-> RoleOf(q)]
           Home == [q \in Procs |-> HomeOf(q)]
<1>1. /\ Work(p) /\ pc[p] = "up" /\ UNCHANGED <<id, wallet, project, miner>>
      /\ RoleOf(p) = "ready" /\ HomeOf(p) = id[p] /\ id[p] \in Envs /\ id[p] \in wallet
  BY Alone DEF BringUp, Work, Step, IInv, WalletMade, RoleOf, HomeOf, Occupying, Bootstrapping
<1>2. Checkout!OwnStack(p)
  BY <1>1, TouchesOwnStack DEF Occupying
<1>3. CASE Goto(p, "run")
  <2>1. pc'[p] = "run"
    BY <1>3 DEF Goto, IInv, TypeOK
  <2>2. Checkout!Becomes(p, "running")
    <3>1. RoleOf(p)' = "running" /\ pc[p] \in Occupying /\ pc'[p] \in Occupying
      BY <1>1, <2>1 DEF RoleOf, Occupying, Bootstrapping
    <3>2. QED
      BY <1>1, <3>1, Remains
  <2>3. stack'[id[p]] = Subnet(id[p], attempt[p])' /\ attempt'[p] \in Nat /\ id'[p] = id[p]
    BY <1>1, <2>1, EnvironmentAssumption DEF IInv, RunKeepsItsStack, TypeOK
  <2>4. stack'[id[p]] \in Nets
    BY <1>1, <2>3, SubnetInNets DEF Subnet
  <2>5. stack'[id[p]] # Off
    BY <2>4, EnvironmentAssumption DEF Nets
  <2>6. QED
    BY <1>1, <1>2, <2>2, <2>5 DEF Checkout!Start
<1>4. CASE SubnetConflict(p, "up") /\ UNCHANGED stack
  <2>1. pc'[p] \in {"up", "done"}
    BY <1>4 DEF SubnetConflict, Exit, Goto, IInv, TypeOK
  <2>2. CASE pc'[p] = "up"
    <3>1. RoleOf(p)' = RoleOf(p) /\ HomeOf(p)' = HomeOf(p)
      BY <1>1, <2>2 DEF RoleOf, HomeOf
    <3>2. Role' = [Role EXCEPT ![p] = RoleOf(p)] /\ Home' = [Home EXCEPT ![p] = HomeOf(p)]
      BY <1>1, <3>1, OneMoves
    <3>3. Role' = Role /\ Home' = Home
      BY <3>2
    <3>4. QED
      BY <1>1, <1>4, <3>3 DEF Checkout!vars
  <2>3. CASE pc'[p] = "done"
    <3>1. Checkout!Leaves(p)
      BY <1>1, <2>3, Departs DEF Occupying, Bootstrapping
    <3>2. QED
      BY <1>1, <1>2, <3>1 DEF Checkout!Leave
  <2>4. QED
    BY <2>1, <2>2, <2>3
<1>5. QED
  BY <1>3, <1>4 DEF BringUp

\* Who stops, is done or is killed leaves its environment, if it has one.
LEMMA EndLeaves ==
  ASSUME IInv, IInv', NEW p \in Procs, Stop(p) \/ PrintVersions(p) \/ Crash(p),
         pc[p] \notin Bootstrapping
  PROVE  Checkout!Leave(p) \/ UNCHANGED Checkout!vars
<1> DEFINE Role == [q \in Procs |-> RoleOf(q)]
           Home == [q \in Procs |-> HomeOf(q)]
<1>1. Work(p) /\ pc'[p] = "done" /\ UNCHANGED <<id, wallet, project, miner>>
  BY DEF Stop, PrintVersions, Crash, Exit, Goto, Work, Step, IInv, TypeOK, fileVars, stackVars
<1>2. Checkout!Leaves(p)
  BY <1>1, Departs DEF Occupying, Bootstrapping
<1>3. CASE pc[p] \in Occupying
  <2>1. RoleOf(p) # "away"
    BY <1>3 DEF RoleOf, Occupying
  <2>2. Checkout!OwnStack(p)
    BY <1>1, <1>3, TouchesOwnStack
  <2>3. QED
    BY <1>1, <1>2, <2>1, <2>2 DEF Checkout!Leave
<1>4. CASE pc[p] \notin Occupying
  <2>1. RoleOf(p) = "away" /\ HomeOf(p) = NoEnv
    BY <1>4 DEF RoleOf, HomeOf, Occupying
  <2>2. Role' = Role /\ Home' = Home
    BY <1>2, <2>1 DEF Checkout!Leaves
  <2>3. stack' = stack
    BY <1>4 DEF Stop, PrintVersions, Crash, Occupying, stackVars
  <2>4. QED
    BY <1>1, <2>2, <2>3 DEF Checkout!vars
<1>5. QED
  BY <1>3, <1>4

\* Resolving an id touches nothing an environment is made of.
LEMMA ResolvingStutters ==
  ASSUME IInv, NEW p \in Procs, Resolve(p) \/ WriteCache(p)
  PROVE  UNCHANGED Checkout!vars
<1> DEFINE Role == [q \in Procs |-> RoleOf(q)]
           Home == [q \in Procs |-> HomeOf(q)]
<1>1. Work(p) /\ UNCHANGED <<stack, wallet, project, miner>>
  BY DEF Resolve, WriteCache, Work, Step, stackVars
<1>2. pc[p] \notin Occupying /\ pc'[p] \notin Occupying
  BY DEF Resolve, WriteCache, Goto, IInv, TypeOK, Occupying, Bootstrapping
<1>3. RoleOf(p) = "away" /\ HomeOf(p) = NoEnv
  BY <1>2 DEF RoleOf, HomeOf, Occupying
<1>4. Checkout!Leaves(p)
  BY <1>1, <1>2, Departs
<1>5. Role' = Role /\ Home' = Home
  BY <1>3, <1>4 DEF Checkout!Leaves
<1>6. QED
  BY <1>1, <1>5 DEF Checkout!vars

\* However invocations resolve, wait, retry, fail and die, they share a checkout as tenants
\* do: one for an environment, one builder, each touching its own (z3/run_lock.rs, the
\* comments of RunLock and BootstrapLock).
THEOREM TenancyRefinement == Spec => TenancySpec
<1>1. Init => Checkout!Init
  <2> SUFFICES ASSUME Init PROVE Checkout!Init
    OBVIOUS
  <2>1. \A p \in Procs : pc[p] = "resolve"
    BY DEF Init
  <2>2. \A p \in Procs : RoleOf(p) = "away" /\ HomeOf(p) = NoEnv
    BY <2>1 DEF RoleOf, HomeOf, Occupying, Bootstrapping
  <2>3. QED
    BY <2>2 DEF Init, Checkout!Init
<1>2. IInv /\ IInv' /\ [Next]_vars => [Checkout!Next]_(Checkout!vars)
  <2> SUFFICES ASSUME IInv, IInv', [Next]_vars
               PROVE  Checkout!Next \/ UNCHANGED Checkout!vars
    OBVIOUS
  <2>1. ASSUME NEW p \in Procs, Work(p)
        PROVE  Checkout!Next \/ UNCHANGED Checkout!vars
    <3>1. CASE pc[p] \in Bootstrapping
      BY <2>1, <3>1, BootstrapBuilds DEF Checkout!Next
    <3>2. CASE Resolve(p) \/ WriteCache(p)
      BY <3>2, ResolvingStutters
    <3>3. CASE AcquireRunLock(p) \/ AcquireBootstrapLock(p)
      BY <3>3, LockEnters, LockBuilds DEF Checkout!Next
    <3>4. CASE BringUp(p)
      BY <3>4, UpStarts DEF Checkout!Next
    <3>5. CASE (Stop(p) \/ PrintVersions(p) \/ Crash(p)) /\ pc[p] \notin Bootstrapping
      BY <3>5, EndLeaves DEF Checkout!Next
    <3>6. QED
      BY <2>1, <3>1, <3>2, <3>3, <3>4, <3>5 DEF Work, Step, SyncEnvFile, InitScript,
           InitScriptEnds, MinerSetup, MinerSetupEnds, ScriptFails, Bootstrapping
  <2>2. CASE UNCHANGED vars
    BY <2>2 DEF vars, procVars, fileVars, stackVars, RoleOf, HomeOf, Checkout!vars
  <2>3. QED
    BY <2>1, <2>2 DEF Next, Work
<1>3. QED
  BY <1>1, <1>2, Invariance, PTL DEF Spec, TenancySpec, Checkout!Spec

=============================================================================
