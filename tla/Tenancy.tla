------------------------------ MODULE Tenancy ------------------------------
(***************************************************************************)
(* What a checkout promises the invocations that share it, without lock    *)
(* files, scripts, ids or retries: an environment has one tenant at a      *)
(* time, one tenant builds at a time, only the tenant touches the stack    *)
(* of its environment and only the builder the shared file, which then     *)
(* names nobody else; wallets stay, and a tenant that runs has one, and a  *)
(* stack that is its own until it leaves.                                  *)
(***************************************************************************)
CONSTANTS Procs, Envs, NoEnv,
          Networks, Off,   \* networks of a stack; a stack that is down
          Placeholder      \* the miner before the first wallet

VARIABLES role,     \* of each invocation: "away", "waiting", "building", "ready", "running"
          home,     \* the environment it is the tenant of
          stack,    \* network of each environment
          wallet,   \* environments that have one
          project, miner   \* whom the shared file names

vars == <<role, home, stack, wallet, project, miner>>

Init == /\ role = [p \in Procs |-> "away"] /\ home = [p \in Procs |-> NoEnv]
        /\ stack = [e \in Envs |-> Off] /\ wallet = {}
        /\ project = NoEnv /\ miner = Placeholder

Becomes(p, r) == role' = [role EXCEPT ![p] = r] /\ UNCHANGED home
Leaves(p) == role' = [role EXCEPT ![p] = "away"] /\ home' = [home EXCEPT ![p] = NoEnv]

\* No stack but the tenant's own goes up, down or to another network.
OwnStack(p) ==
  /\ stack' \in [Envs -> Networks \cup {Off}]
  /\ \A e \in Envs \ {home[p]} : stack'[e] = stack[e]

Enter(p) ==
  /\ role[p] = "away" /\ role' = [role EXCEPT ![p] = "waiting"]
  /\ \E e \in Envs \ {home[q] : q \in Procs} : home' = [home EXCEPT ![p] = e]
  /\ UNCHANGED <<stack, wallet, project, miner>>

StartBuild(p) ==
  /\ role[p] = "waiting" /\ Becomes(p, "building")
  /\ \A q \in Procs : role[q] # "building"
  /\ UNCHANGED <<stack, wallet, project, miner>>

\* A step of the builder, which may be its last one.
Build(p) ==
  /\ role[p] = "building"
  /\ OwnStack(p)
  /\ wallet' \in {wallet, wallet \cup {home[p]}}
  /\ project' \in {project, home[p]} /\ miner' \in {miner, home[p]}
  /\ \/ Becomes(p, "building")
     \/ Becomes(p, "ready") /\ home[p] \in wallet'
     \/ Leaves(p)

Start(p) ==
  /\ role[p] = "ready" /\ Becomes(p, "running")
  /\ home[p] \in wallet
  /\ OwnStack(p) /\ stack'[home[p]] # Off
  /\ UNCHANGED <<wallet, project, miner>>

Leave(p) ==
  /\ role[p] # "away" /\ Leaves(p)
  /\ OwnStack(p)
  /\ UNCHANGED <<wallet, project, miner>>

Next == \E p \in Procs : Enter(p) \/ StartBuild(p) \/ Build(p) \/ Start(p) \/ Leave(p)

Spec == Init /\ [][Next]_vars
=============================================================================
