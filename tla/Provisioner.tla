----------------------------- MODULE Provisioner -----------------------------
(***************************************************************************)
(* The accounts of a run: setup resolves the hot wallet (funding.rs), then *)
(* provision (provisioner.rs) creates one Zallet account for each account  *)
(* of the population, and reads the addresses back.  Creation and reading  *)
(* are tasks of a JoinSet that one semaphore bounds; a task that fails is  *)
(* noticed only when it is joined, which is after every task was spawned.  *)
(*                                                                         *)
(* The wallet is the sequence of its accounts' names; a UUID is a position *)
(* in it.  It outlives runs, so it may already hold accounts of any name.  *)
(***************************************************************************)
EXTENDS Scenario, Sequences, FiniteSets

CONSTANTS AccountIds,      \* what generate_population draws, in its order
          HotName,         \* "hot_wallet"
          Wallet0,         \* the accounts earlier runs left
          HotUuids,        \* what opts.hot_wallet_uuid may be, Nobody included
          Concurrency,     \* opts.provision_concurrency
          ResolveAttempts  \* 12 in setup

ASSUME ProvisionAssumption ==
  /\ AccountIds \in Seq({AccountIds[k] : k \in DOMAIN AccountIds})
  /\ Wallet0 \in Seq({Wallet0[u] : u \in DOMAIN Wallet0})
  /\ \A k \in DOMAIN AccountIds : AccountIds[k] # HotName
  /\ \A i, j \in DOMAIN AccountIds : i # j => AccountIds[i] # AccountIds[j]
  /\ \A s \in Scenarios : s.accounts <= Len(AccountIds)
  /\ HotUuids \subseteq Nat
  /\ Concurrency \in Nat \ {0} /\ ResolveAttempts \in Nat \ {0}

VARIABLES wallet, hot, tries, task,
          given,     \* opts.hot_wallet_uuid
          active,    \* the accounts drawn as active
          uuidOf,    \* what the creating tasks returned
          entry      \* the address pools: the account that each entry pays

provVars == <<wallet, hot, tries, task, given, active, uuidOf, entry>>

Nobody == 0
Population == {AccountIds[k] : k \in 1 .. scenario.accounts}

ProvInit ==
  /\ wallet = Wallet0 /\ hot = Nobody /\ tries = 0
  /\ task = [a \in Population |-> "new"]
  /\ given \in HotUuids /\ active = {}
  /\ uuidOf = [a \in Population |-> Nobody]
  /\ entry = [a \in Population |-> Nobody]

Named(name) == {u \in DOMAIN wallet : wallet[u] = name}
First(S) == CHOOSE u \in S : \A v \in S : u <= v

-----------------------------------------------------------------------------
\* The hot wallet

\* The account of the UUID given; or the first one of that name, or a new one.
ResolveHot ==
  /\ At("resolve")
  /\ \/ given # Nobody /\ given \in DOMAIN wallet /\ hot' = given /\ UNCHANGED wallet
     \/ given = Nobody /\ Named(HotName) # {}
        /\ hot' = First(Named(HotName)) /\ UNCHANGED wallet
     \/ given = Nobody /\ Named(HotName) = {}
        /\ hot' = Len(wallet) + 1 /\ wallet' = Append(wallet, HotName)
  /\ Goto("warmMine") /\ NoFault
  /\ UNCHANGED <<tries, task, given, active, uuidOf, entry>>

\* It breaks off before the hot wallet is created, or after.
CreationBreaksOff ==
  wallet' \in {wallet} \cup
    (IF given = Nobody /\ Named(HotName) = {} THEN {Append(wallet, HotName)} ELSE {})

\* One of its calls is lost, or its answer is (the loop in setup takes both for a wallet
\* that is still starting): all of it is tried again, at most ResolveAttempts times.
ResolveLost ==
  /\ At("resolve") /\ Fault
  /\ CreationBreaksOff
  /\ tries' = tries + 1
  /\ IF tries' < ResolveAttempts THEN Stay ELSE GiveUp
  /\ UNCHANGED <<hot, task, given, active, uuidOf, entry>>

\* Any other error is final, a UUID that is no account's as well.
ResolveRefused ==
  /\ At("resolve") /\ GiveUp
  /\ \/ Fault /\ CreationBreaksOff
     \/ NoFault /\ given \notin {Nobody} \cup DOMAIN wallet /\ UNCHANGED wallet
  /\ UNCHANGED <<hot, tries, task, given, active, uuidOf, entry>>

-----------------------------------------------------------------------------
\* provision

\* generate_population: each account is drawn on its own, so that fewer may be active than
\* validate_scenario asked for.
Populate ==
  /\ At("populate") /\ NoFault
  /\ IF Refused(scenario.profiles)
     THEN GiveUp /\ UNCHANGED active
     ELSE /\ Goto("create")
          /\ active' \in IF scenario.fraction = Whole THEN {Population} ELSE SUBSET Population
  /\ UNCHANGED <<wallet, hot, tries, task, given, uuidOf, entry>>

InFlight == {a \in Population : task[a] \in {"creating", "reading"}}
Waiting == {a \in Population : task[a] = IF At("create") THEN "new" ELSE "created"}

\* The loop over the population, or over what was created in the order of the joins, takes a
\* permit, then spawns; the task drops the permit.
Spawn(a) ==
  /\ stage \in {"create", "receivers"} /\ a \in Waiting
  /\ At("create") => a = AccountIds[scenario.accounts + 1 - Cardinality(Waiting)]
  /\ Cardinality(InFlight) < Concurrency
  /\ task' = [task EXCEPT ![a] = IF At("create") THEN "creating" ELSE "reading"]
  /\ Stay /\ NoFault
  /\ UNCHANGED <<wallet, hot, tries, given, active, uuidOf, entry>>

\* Mutant: the account is adopted by its name when there is one.
CreatedByName(a) ==
  /\ At("create") /\ task[a] = "creating"
  /\ IF Named(a) = {} THEN wallet' = Append(wallet, a) ELSE UNCHANGED wallet
  /\ uuidOf' = [uuidOf EXCEPT ![a] = IF Named(a) = {} THEN Len(wallet) + 1
                                                      ELSE First(Named(a))]
  /\ task' = [task EXCEPT ![a] = "created"]
  /\ Stay /\ NoFault
  /\ UNCHANGED <<hot, tries, given, active, entry>>

\* z_getnewaccount; the name is not a key, and no account is looked up by it.
Created(a) ==
  /\ At("create") /\ task[a] = "creating"
  /\ wallet' = Append(wallet, a)
  /\ uuidOf' = [uuidOf EXCEPT ![a] = Len(wallet) + 1]
  /\ task' = [task EXCEPT ![a] = "created"]
  /\ Stay /\ NoFault
  /\ UNCHANGED <<hot, tries, given, active, entry>>

\* z_listunifiedreceivers for the address that z_listaccounts gave for the UUID.
Read(a) ==
  /\ At("receivers") /\ task[a] = "reading"
  /\ entry' = [entry EXCEPT ![a] = uuidOf[a]]
  /\ task' = [task EXCEPT ![a] = "read"]
  /\ Stay /\ NoFault
  /\ UNCHANGED <<wallet, hot, tries, given, active, uuidOf>>

\* A call fails, or the address has no p2pkh receiver; a creation may have happened.
TaskFails(a) ==
  /\ stage \in {"create", "receivers"} /\ a \in InFlight /\ Fault
  /\ wallet' \in {wallet} \cup (IF At("create") THEN {Append(wallet, a)} ELSE {})
  /\ task' = [task EXCEPT ![a] = "broken"]
  /\ Stay
  /\ UNCHANGED <<hot, tries, given, active, uuidOf, entry>>

\* join_next: the first error returns, and dropping the JoinSet aborts the tasks left.
JoinFails ==
  /\ stage \in {"create", "receivers"} /\ Waiting = {}
  /\ \E a \in Population : task[a] = "broken"
  /\ GiveUp /\ NoFault /\ UNCHANGED provVars

JoinCreated ==
  /\ At("create") /\ \A a \in Population : task[a] = "created"
  /\ Goto("list") /\ NoFault /\ UNCHANGED provVars

\* One z_listaccounts for all of them.
ListAccounts ==
  /\ At("list")
  /\ \/ Goto("receivers") /\ NoFault
     \/ GiveUp /\ Fault    \* refused, lost, or an account is listed without an address
  /\ UNCHANGED provVars

JoinRead ==
  /\ At("receivers") /\ \A a \in Population : task[a] = "read"
  /\ Goto("plan") /\ NoFault /\ UNCHANGED provVars

-----------------------------------------------------------------------------
\* The address an intent names for one of its sides (generators.rs): the first entry of the
\* pool that the flow uses there.
SidePool(flow, side) ==
  IF flow \in (IF side = "sender" THEN {"TToT", "TToZ"} ELSE {"TToT", "ZToT"})
  THEN "transparent" ELSE "shielded"
AddressOf(a, flow, side) == <<entry[a], SidePool(flow, side)>>

ResolveAccount == ResolveHot \/ ResolveLost \/ ResolveRefused
Provision ==
  \/ Populate \/ JoinFails \/ JoinCreated \/ ListAccounts \/ JoinRead
  \/ \E a \in Population : Spawn(a) \/ Created(a) \/ Read(a) \/ TaskFails(a)

ProvNext == ResolveAccount \/ Provision
=============================================================================
