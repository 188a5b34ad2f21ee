---------------------------- MODULE Environment ----------------------------
(***************************************************************************)
(* Several `z3sim run` and `z3sim print-versions` invocations against one  *)
(* checkout: how each resolves its environment id (z3/env_id.rs), takes    *)
(* the locks of z3/run_lock.rs, bootstraps a wallet through scripts that   *)
(* read the one .env.regtest of the checkout, brings its Compose project   *)
(* up, runs and stops it (z3/mod.rs, scenarios/runner/lifecycle.rs).       *)
(*                                                                         *)
(* An environment stands for its id; its project and volumes are its own,  *)
(* its ports and subnets are derived and may be another's too.  Minted ids *)
(* are distinct (32 random bits).  A miner address is the environment      *)
(* whose hot wallet owns it.  Docker refuses a port or a subnet in use,    *)
(* and a subnet for reasons of its own.  A killed invocation takes its     *)
(* script with it, as an interrupt at the terminal does.                   *)
(***************************************************************************)
EXTENDS Naturals, FiniteSets

CONSTANTS Procs,        \* the invocations
          Fresh,        \* those given --fresh-env
          Printers,     \* those that print versions
          Envs,         \* ids that may be minted
          NoEnv, NoProc,
          IdOffset,     \* of each id: its value modulo PortSpan
          IdByte,       \* and its third byte
          Octets,       \* subnets to choose from: 100
          Off,          \* no network
          Placeholder,  \* the miner address .env.regtest is shipped with
          MaxAttempts,  \* MAX_SUBNET_RETRY_ATTEMPTS
          MaxCrashes    \* bound: invocations killed

ASSUME EnvironmentAssumption ==
  /\ Fresh \subseteq Procs /\ Printers \subseteq Procs \ Fresh /\ IsFiniteSet(Procs)
  /\ IsFiniteSet(Envs) /\ Cardinality(Procs) <= Cardinality(Envs)
  /\ NoEnv \notin Envs /\ Placeholder \notin Envs /\ NoProc \notin Procs
  /\ MaxAttempts \in Nat \ {0} /\ MaxCrashes \in Nat
  /\ IdByte \in [Envs -> 0..255] /\ Octets \in Nat \ {0} /\ Off \notin 0..(Octets - 1)

-----------------------------------------------------------------------------
(* What is derived from an id. *)

PortSpan == 10000

BasePorts ==
  [rpc_router |-> 1024, zaino_grpc |-> 11024, zaino_json_rpc |-> 21024, zebra_rpc |-> 31024,
   zebra_health |-> 41024, zallet_rpc |-> 51024]

Port(e, role) == BasePorts[role] + IdOffset[e]

\* Two environments meet on a port only in one role, and then in every role.
SamePorts(e, f) == \E r, s \in DOMAIN BasePorts : Port(e, r) = Port(f, s)

\* The six ports of an environment are distinct, unprivileged and 16 bits wide.
ASSUME PortsAssumption ==
  /\ IdOffset \in [Envs -> 0..(PortSpan - 1)]
  /\ \A e \in Envs : \A r, s \in DOMAIN BasePorts :
       /\ Port(e, r) \in 1024..65535
       /\ Port(e, r) = Port(e, s) => r = s

\* The n-th choice of a /24 network; the choices come round after Octets of them.
Subnet(e, n) == (IdByte[e] + n) % Octets

-----------------------------------------------------------------------------

VARIABLES
  pc, id,      \* where each invocation is, and its environment
  attempt,     \* the subnet it tries
  script,      \* the project its running script works in
  cache,       \* configs/local/env-id
  minted,      \* ids handed out so far
  runLock, bootLock,   \* holder of each environment's lock, of the bootstrap lock
  project, net, miner, \* COMPOSE_PROJECT_NAME, Z3_SIM_SUBNET and the miner address in
                       \* .env.regtest
  wallet,      \* environments whose volume holds a wallet
  stack,       \* the network of each project whose stack is up
  coinbase,    \* the miner address each environment's Zebra was brought up with
  subnet,      \* the cached subnet attempt of each environment
  crashes

procVars == <<pc, id, attempt, script>>
lockVars == <<runLock, bootLock>>
fileVars == <<cache, minted, project, net, miner, subnet>>
stackVars == <<wallet, stack, coinbase>>
vars == <<procVars, lockVars, fileVars, stackVars, crashes>>

Init ==
  /\ pc = [p \in Procs |-> "resolve"]
  /\ id = [p \in Procs |-> NoEnv]
  /\ attempt = [p \in Procs |-> 0]
  /\ script = [p \in Procs |-> NoEnv]
  /\ cache = NoEnv /\ minted = {}
  /\ runLock = [e \in Envs |-> NoProc] /\ bootLock = NoProc
  /\ project = NoEnv /\ net = Off /\ miner = Placeholder
  /\ wallet = {} /\ stack = [e \in Envs |-> Off]
  /\ coinbase = [e \in Envs |-> Placeholder]
  /\ subnet = [e \in Envs |-> 0]
  /\ crashes = 0

Goto(p, s) == pc' = [pc EXCEPT ![p] = s]

\* Mutant: the bootstrap lock outlives its holder.
ReleaseRunLockOnly(p) ==
  /\ runLock' = [e \in Envs |-> IF runLock[e] = p THEN NoProc ELSE runLock[e]]
  /\ UNCHANGED bootLock

\* The process ends: the OS closes its lock files.
ReleaseLocks(p) ==
  /\ runLock' = [e \in Envs |-> IF runLock[e] = p THEN NoProc ELSE runLock[e]]
  /\ bootLock' = IF bootLock = p THEN NoProc ELSE bootLock

Exit(p) ==
  /\ Goto(p, "done")
  /\ script' = [script EXCEPT ![p] = NoEnv]
  /\ ReleaseLocks(p)

-----------------------------------------------------------------------------
(* Identity and locks. *)

\* A stable invocation takes the cached id; without one, or if fresh, it mints.
Resolve(p) ==
  /\ pc[p] = "resolve"
  /\ \/ /\ p \notin Fresh /\ cache # NoEnv
        /\ id' = [id EXCEPT ![p] = cache]
        /\ Goto(p, "lock")
        /\ UNCHANGED minted
     \/ /\ p \in Fresh \/ cache = NoEnv
        /\ \E e \in Envs \ minted :
             /\ id' = [id EXCEPT ![p] = e]
             /\ minted' = minted \cup {e}
        /\ Goto(p, "truncate")
  /\ UNCHANGED <<attempt, script, lockVars, cache, project, net, miner, subnet, stackVars, crashes>>

\* fs::write truncates the cache before it writes, and nothing guards the file:
\* a reader in between finds no valid id.
WriteCache(p) ==
  /\ \/ /\ pc[p] = "truncate"
        /\ cache' = NoEnv
        /\ Goto(p, "write")
     \/ /\ pc[p] = "write"
        /\ cache' = id[p]
        /\ Goto(p, "lock")
  /\ UNCHANGED <<id, attempt, script, lockVars, minted, project, net, miner, subnet, stackVars, crashes>>

\* Mutant: the lock is not tried.
AcquireRunLockBlindly(p) ==
  /\ pc[p] = "lock"
  /\ runLock' = [runLock EXCEPT ![id[p]] = p]
  /\ Goto(p, "bootlock")
  /\ UNCHANGED <<id, attempt, script, bootLock, fileVars, stackVars, crashes>>

\* try_lock: a second invocation of the same environment leaves at once.
AcquireRunLock(p) ==
  /\ pc[p] = "lock"
  /\ \/ /\ runLock[id[p]] = NoProc
        /\ runLock' = [runLock EXCEPT ![id[p]] = p]
        /\ Goto(p, "bootlock")
     \/ /\ runLock[id[p]] # NoProc
        /\ Goto(p, "done")
        /\ UNCHANGED runLock
  /\ UNCHANGED <<id, attempt, script, bootLock, fileVars, stackVars, crashes>>

\* Mutant: bootstraps are not serialised.
AcquireBootstrapLockBlindly(p) ==
  /\ pc[p] = "bootlock"
  /\ bootLock' = p
  /\ attempt' = [attempt EXCEPT ![p] = subnet[id[p]]]
  /\ Goto(p, "sync")
  /\ UNCHANGED <<id, script, runLock, fileVars, stackVars, crashes>>

\* The bootstrap lock is waited for; the cached subnet attempt is read under it.
AcquireBootstrapLock(p) ==
  /\ pc[p] = "bootlock"
  /\ bootLock = NoProc
  /\ bootLock' = p
  /\ attempt' = [attempt EXCEPT ![p] = subnet[id[p]]]
  /\ Goto(p, "sync")
  /\ UNCHANGED <<id, script, runLock, fileVars, stackVars, crashes>>

-----------------------------------------------------------------------------
(* The bootstrap, under the bootstrap lock. *)

\* write_env_overrides_to_file: the lines of these keys are replaced, all others kept.
WriteEnvFile(e, n) == project' = e /\ net' = n /\ UNCHANGED miner

\* sync_bootstrap_env_file, before every attempt at the init script.
SyncEnvFile(p) ==
  /\ pc[p] = "sync"
  /\ WriteEnvFile(id[p], Subnet(id[p], attempt[p]))
  /\ Goto(p, "init")
  /\ UNCHANGED <<id, attempt, script, lockVars, cache, minted, subnet, stackVars, crashes>>

Up == {e \in Envs : stack[e] # Off}

\* Docker takes project e with network n up if no other network overlaps and no other
\* project has its ports.
Admits(e, n) ==
  \A f \in Up \ {e} : stack[f] # n /\ ~SamePorts(e, f)

BringsUp(e, n) == Admits(e, n) /\ stack' = [stack EXCEPT ![e] = n]
BringsDown(e) == stack' = [stack EXCEPT ![e] = Off]

\* Mutant: the file is written once, before the first attempt.
SubnetConflictUnsynced(p, again) ==
  \/ /\ attempt[p] + 1 < MaxAttempts
     /\ attempt' = [attempt EXCEPT ![p] = @ + 1]
     /\ UNCHANGED <<pc, script, lockVars>>
  \/ attempt[p] + 1 >= MaxAttempts /\ Exit(p) /\ UNCHANGED attempt

\* A conflicting subnet moves on to the next one; MAX_SUBNET_RETRY_ATTEMPTS bounds the number
\* of the attempt, those of earlier runs included.
SubnetConflict(p, again) ==
  \/ /\ attempt[p] + 1 < MaxAttempts
     /\ attempt' = [attempt EXCEPT ![p] = @ + 1]
     /\ Goto(p, again)
     /\ UNCHANGED <<script, lockVars>>
  \/ attempt[p] + 1 >= MaxAttempts /\ Exit(p) /\ UNCHANGED attempt

\* regtest-init.sh works in the project and on the network the file names when it starts,
\* whatever its own environment says.  With a wallet in the volume it has nothing to do.
InitScript(p) ==
  /\ pc[p] = "init"
  /\ \/ /\ script' = [script EXCEPT ![p] = project]
        /\ IF project \in wallet THEN UNCHANGED stack ELSE BringsUp(project, net)
        /\ Goto(p, "initEnd")
        /\ UNCHANGED <<attempt, lockVars>>
     \/ project \notin wallet /\ SubnetConflict(p, "sync") /\ UNCHANGED stack
  /\ UNCHANGED <<id, fileVars, wallet, coinbase, crashes>>

\* write_cached_subnet_attempt, best effort.
CacheAttempt(p) == subnet' \in {subnet, [subnet EXCEPT ![id[p]] = attempt[p]]}

\* The wallet exists, and the stack the script needed for it is down again.
InitScriptEnds(p) ==
  /\ pc[p] = "initEnd"
  /\ wallet' = wallet \cup {script[p]}
  /\ IF script[p] \in wallet THEN UNCHANGED stack ELSE BringsDown(script[p])
  /\ CacheAttempt(p)
  /\ script' = [script EXCEPT ![p] = NoEnv]
  /\ Goto(p, "minerSetup")
  /\ UNCHANGED <<id, attempt, lockVars, cache, minted, project, net, miner, coinbase, crashes>>

\* bring_up starts from the attempt in the cache, which only this run writes.
ReadAttempt(p) == attempt' = [attempt EXCEPT ![p] = subnet[id[p]]]

\* regtest-miner-setup.sh leaves an address that is not the placeholder alone; a conflict
\* here is not retried.
MinerSetup(p) ==
  /\ pc[p] = "minerSetup"
  /\ \/ /\ miner = Placeholder
        /\ script' = [script EXCEPT ![p] = project]
        /\ BringsUp(project, Subnet(id[p], attempt[p]))
        /\ coinbase' = [coinbase EXCEPT ![project] = miner]
        /\ Goto(p, "minerWrite")
        /\ UNCHANGED <<lockVars, attempt>>
     \/ /\ miner = Placeholder
        /\ ~Admits(project, Subnet(id[p], attempt[p]))
        /\ Exit(p)
        /\ UNCHANGED <<stack, coinbase, attempt>>
     \/ /\ miner # Placeholder
        /\ bootLock' = NoProc
        /\ ReadAttempt(p)
        /\ Goto(p, "up")
        /\ UNCHANGED <<script, runLock, stack, coinbase>>
  /\ UNCHANGED <<id, fileVars, wallet, crashes>>

\* It writes the address of that project's hot wallet and brings the stack down;
\* the bootstrap lock goes with the function.
MinerSetupEnds(p) ==
  /\ pc[p] = "minerWrite"
  /\ miner' = script[p]
  /\ BringsDown(script[p])
  /\ script' = [script EXCEPT ![p] = NoEnv]
  /\ bootLock' = NoProc
  /\ ReadAttempt(p)
  /\ Goto(p, "up")
  /\ UNCHANGED <<id, runLock, cache, minted, project, net, subnet, wallet, coinbase, crashes>>

\* A script fails somewhere in its work: what it had done is done, the stack it
\* brought up may stay up, and the error leaves setup.
ScriptFails(p) ==
  /\ BringsDown(script[p]) \/ UNCHANGED stack
  /\ \/ /\ pc[p] = "initEnd"
        /\ wallet' \in {wallet, wallet \cup {script[p]}}
        /\ UNCHANGED miner
     \/ /\ pc[p] = "minerWrite"
        /\ miner' \in {miner, script[p]}
        /\ UNCHANGED wallet
  /\ Exit(p)
  /\ UNCHANGED <<id, attempt, cache, minted, project, net, subnet, coinbase, crashes>>

-----------------------------------------------------------------------------
(* The run. *)

\* `docker compose -p <project> up`: project and network are the invocation's own whatever
\* the file says, the miner address is the file's.  Then wait_until_ready.
BringUp(p) ==
  /\ pc[p] = "up"
  /\ \/ /\ BringsUp(id[p], Subnet(id[p], attempt[p]))
        /\ coinbase' = [coinbase EXCEPT ![id[p]] = miner]
        /\ CacheAttempt(p)
        /\ Goto(p, "run")
        /\ UNCHANGED <<attempt, script, lockVars>>
     \/ SubnetConflict(p, "up") /\ UNCHANGED <<stack, coinbase, subnet>>
  /\ UNCHANGED <<id, cache, minted, project, net, miner, wallet, crashes>>

\* Teardown, or a setup that fails from `up` on, which a port in use does.  `down` may itself
\* fail, which ends the run all the same.
Stop(p) ==
  /\ pc[p] = "up" \/ (pc[p] = "run" /\ p \notin Printers)
  /\ BringsDown(id[p]) \/ UNCHANGED stack
  /\ Exit(p)
  /\ UNCHANGED <<id, attempt, fileVars, wallet, coinbase, crashes>>

\* print-versions leaves the stack it printed up.
PrintVersions(p) ==
  /\ pc[p] = "run" /\ p \in Printers
  /\ Exit(p)
  /\ UNCHANGED <<id, attempt, fileVars, stackVars, crashes>>

\* The invocation is killed.
Crash(p) ==
  /\ pc[p] # "done"
  /\ crashes < MaxCrashes
  /\ crashes' = crashes + 1
  /\ Exit(p)
  /\ UNCHANGED <<id, attempt, fileVars, stackVars>>

Step(p) == \/ Resolve(p) \/ WriteCache(p) \/ AcquireRunLock(p) \/ AcquireBootstrapLock(p)
           \/ SyncEnvFile(p) \/ InitScript(p) \/ InitScriptEnds(p)
           \/ MinerSetup(p) \/ MinerSetupEnds(p) \/ ScriptFails(p)
           \/ BringUp(p) \/ Stop(p) \/ PrintVersions(p)

Next == \E p \in Procs : Step(p) \/ Crash(p)

Spec == Init /\ [][Next]_vars

-----------------------------------------------------------------------------
(* Properties. *)

Bootstrapping == {"sync", "init", "initEnd", "minerSetup", "minerWrite"}
Occupying == Bootstrapping \cup {"bootlock", "up", "run"}

\* Two invocations never work on one environment at a time, however they got its
\* id (z3/run_lock.rs, acquire).
OneRunPerEnv ==
  \A p, q \in Procs :
    p # q /\ pc[p] \in Occupying /\ pc[q] \in Occupying => id[p] # id[q]

\* A bootstrap script creates its resources under the project of the invocation
\* that started it, though it reads the project from a file all of them write
\* (z3/run_lock.rs, BootstrapLock), and on the subnet of the attempt the invocation will
\* remember for it, though the file may hold that of an earlier one.
ScriptInOwnProject ==
  \A p \in Procs : script[p] # NoEnv =>
    /\ script[p] = id[p]
    /\ script[p] \in wallet \/ stack[script[p]] = Subnet(id[p], attempt[p])

\* No invocation's script, stop or death takes the stack, its network or the wallet away
\* from another one's run.
RunKeepsItsStack ==
  \A p \in Procs : pc[p] = "run" =>
    stack[id[p]] = Subnet(id[p], attempt[p]) /\ id[p] \in wallet

\* Whatever is killed or fails while it holds a lock, nobody waits for a lock
\* whose holder is gone or past the work the lock is for.
LocksAreInUse ==
  /\ bootLock # NoProc => pc[bootLock] \in Bootstrapping
  /\ \A e \in Envs : runLock[e] # NoProc =>
       pc[runLock[e]] \in Occupying /\ id[runLock[e]] = e

\* "two concurrent invocations against the same checkout resolve the identical
\* env_id": of the invocations without --fresh-env, all that are past the
\* resolution have one id.
StableIdentity ==
  \A p, q \in Procs \ Fresh :
    pc[p] \in Occupying /\ pc[q] \in Occupying => id[p] = id[q]

\* "each environment's bootstrap runs to completion (using its own values)": the
\* coinbase of a running environment goes to its own hot wallet.
CoinbaseIsOwn ==
  \A p \in Procs : pc[p] = "run" => coinbase[id[p]] = id[p]
=============================================================================
