---------------------------- MODULE Setup_proofs ----------------------------
(***************************************************************************)
(* Proofs about Setup, for any scenarios, any accounts that earlier runs   *)
(* left, any limits and amounts and any number of calls that go wrong.     *)
(***************************************************************************)
EXTENDS Setup, FiniteSetTheorems, SequenceTheorems, WellFoundedInduction, TLAPS

(***************************************************************************)
(* The inductive invariant, first of the accounts: what the wallet holds   *)
(* beside what a run before it left.                                       *)
(***************************************************************************)

Names == {HotName} \cup {AccountIds[k] : k \in DOMAIN AccountIds} \cup {Wallet0[u] : u \in DOMAIN Wallet0}
Tasks == {"new", "creating", "created", "reading", "read", "broken"}
HotBefore == {u \in DOMAIN Wallet0 : Wallet0[u] = HotName}

AccountsOK ==
  /\ scenario \in Scenarios /\ given \in Nat /\ hot \in Nat /\ active \subseteq Population
  /\ wallet \in Seq(Names)
  /\ task \in [Population -> Tasks]
  /\ uuidOf \in [Population -> Nat] /\ entry \in [Population -> Nat]

\* Accounts are only added, and to a UUID that was given none before it is resolved.
WalletKept ==
  /\ Len(Wallet0) <= Len(wallet) /\ \A u \in DOMAIN Wallet0 : wallet[u] = Wallet0[u]
  /\ stage \in {"validate", "resolve"} /\ given # Nobody => Len(wallet) = Len(Wallet0)

\* The hot wallet is the first account of the name, or the one that was given.
HotKept ==
  /\ stage \in {"validate", "resolve"} => hot = Nobody
  /\ hot # Nobody => IF given = Nobody THEN hot \in DOMAIN wallet /\ wallet[hot] = HotName
                                       ELSE hot \in DOMAIN Wallet0

OneHotWallet ==
  \/ Named(HotName) = HotBefore
  \/ HotBefore = {} /\ \E u \in DOMAIN wallet : Named(HotName) = {u}

\* What a task created is new in the wallet and bears the account's name.
CreatedIsOwn ==
  \A a \in Population :
    /\ stage \in {"validate", "resolve"} => task[a] = "new"
    /\ task[a] \in {"created", "reading", "read"} =>
         uuidOf[a] \in DOMAIN wallet /\ uuidOf[a] > Len(Wallet0) /\ wallet[uuidOf[a]] = a
    /\ task[a] = "read" => entry[a] = uuidOf[a]

AccountsInv == AccountsOK /\ WalletKept /\ HotKept /\ OneHotWallet /\ CreatedIsOwn

(***************************************************************************)
(* Then of the funding: which rounds were paid, and how deep they are.     *)
(***************************************************************************)

Fanning == {"send", "anchor", "await"}
Early == {"validate", "resolve", "warmMine", "probe", "balance", "age", "populate", "create", "list", "receivers",
          "plan", "shield", "shieldWait", "shieldMine", "check", "topUp"}
Late == {"settle", "ready", "load", "drain", "failed"}

FundsOK ==
  /\ stage \in Early \cup Fanning \cup Late
  /\ height \in Nat /\ left \in Nat /\ round \in Nat \ {0}
  /\ \A t \in mempool : t.round \in Nat
  /\ \A x \in paid : x.round \in Nat \ {0} /\ x.at \in 1 .. height

FanOuts == {t.round : t \in {u \in mempool : u.round > 0}}
PaidRounds == {x.round : x \in paid}

\* No round is paid ahead of its turn.
RoundsInOrder ==
  /\ stage \in Early => round = 1 /\ paid = {} /\ FanOuts = {}
  /\ \A r \in PaidRounds \cup FanOuts : r <= round /\ (stage \in Fanning => r < round)

\* Every round before the one at hand is on its way, at the end all of them are, and the
\* blocks mined since then bury them.
RoundsCovered ==
  /\ stage \in Fanning => \A r \in 1 .. round - 1 : r \in PaidRounds \cup FanOuts
  /\ stage = "settle" => left \in 1 .. Anchor
  /\ stage = "settle" \/ (stage = "ready" /\ active # {}) =>
       /\ ~(round < Rounds)
       /\ \A r \in 1 .. round :
            \/ stage = "settle" /\ r \in FanOuts /\ left = Anchor
            \/ \E x \in paid : x.round = r /\ height - x.at + 1 >= Anchor - (IF stage = "settle" THEN left ELSE 0)

FundsInv == FundsOK /\ RoundsInOrder /\ PaidOnce /\ RoundsCovered

IInv == AccountsInv /\ FundsInv

-----------------------------------------------------------------------------
(* Sequences of accounts. *)

LEMMA Appended ==
  ASSUME wallet \in Seq(Names), NEW n \in Names
  PROVE  /\ Append(wallet, n) \in Seq(Names)
         /\ Len(wallet) \in Nat /\ DOMAIN wallet = 1 .. Len(wallet)
         /\ Len(Append(wallet, n)) = Len(wallet) + 1
         /\ DOMAIN Append(wallet, n) = 1 .. Len(wallet) + 1
         /\ \A u \in DOMAIN wallet : Append(wallet, n)[u] = wallet[u]
         /\ Append(wallet, n)[Len(wallet) + 1] = n
BY AppendProperties, LenProperties

LEMMA LeftBehind ==
  Len(Wallet0) \in Nat /\ DOMAIN Wallet0 = 1 .. Len(Wallet0) /\ Wallet0 \in Seq(Names)
<1> DEFINE W == {Wallet0[u] : u \in DOMAIN Wallet0}
<1>1. Wallet0 \in Seq(W)
  BY ProvisionAssumption
<1>2. Len(Wallet0) \in Nat /\ DOMAIN Wallet0 = 1 .. Len(Wallet0)
  BY <1>1, LenProperties
<1>3. \A u \in DOMAIN Wallet0 : Wallet0[u] \in Names
  BY DEF Names
<1>4. Wallet0 = [u \in 1 .. Len(Wallet0) |-> Wallet0[u]]
  BY <1>1, <1>2, SeqDef
<1>5. QED
  BY <1>2, <1>3, <1>4

\* The accounts of the population have names of their own, none of them the hot wallet's.
LEMMA PopulationNamed ==
  ASSUME scenario \in Scenarios
  PROVE  \A a \in Population : a \in Names /\ a # HotName
<1>1. scenario.accounts \in Nat /\ scenario.accounts <= Len(AccountIds)
  BY ScenarioAssumption, ProvisionAssumption DEF ScenarioConfig
<1>2. Len(AccountIds) \in Nat /\ DOMAIN AccountIds = 1 .. Len(AccountIds)
  BY ProvisionAssumption, LenProperties
<1>3. \A k \in 1 .. scenario.accounts : k \in DOMAIN AccountIds
  BY <1>1, <1>2
<1>4. \A k \in DOMAIN AccountIds : AccountIds[k] \in Names /\ AccountIds[k] # HotName
  BY ProvisionAssumption DEF Names
<1>5. QED
  BY <1>3, <1>4 DEF Population

-----------------------------------------------------------------------------
(* What the steps do to the accounts. *)

Resolving == stage \in {"validate", "resolve"}

LEMMA MiningStages ==
  stage \in DOMAIN AfterMining =>
    \/ stage = "warmMine" /\ AfterMining[stage] = "probe"
    \/ stage \in {"shieldMine", "topUp"} /\ AfterMining[stage] = "check"
    \/ stage = "settle" /\ AfterMining[stage] = "ready"
BY DEF AfterMining

LEMMA Elsewhere ==
  ASSUME Validating \/ FundingSteps \/ Dispatching
  PROVE  UNCHANGED <<scenario, provVars>> /\ (Resolving' => Resolving)
<1> USE DEF At, Goto, Stay, GiveUp, Resolving
<1>1. CASE Validating
  BY <1>1 DEF Validating, Validate
<1>2. CASE Dispatching
  BY <1>2 DEF Dispatching, PaceNext, BeginLoad, Tick, WindowCloses, LoadCancelled
<1>3. CASE FundingSteps
  <2>1. UNCHANGED <<scenario, provVars>>
    BY <1>3 DEF FundingSteps
  <2>2. CASE GenerateInChunks
    BY <2>1, <2>2, MiningStages DEF GenerateInChunks, ChunkMined, ChunkLost, ChunkRefused
  <2>3. CASE Warmup
    BY <2>1, <2>3 DEF Warmup, Probe, PollBalance, CheckAge
  <2>4. CASE FundAccounts
    BY <2>1, <2>4
       DEF FundAccounts, Measure, Shield, CheckFunded, SendWithAnchorRetries, SendAccepted, SendInsufficient, SendLost,
           MineForAnchor, WaitOperation, ShieldDone, OperationSucceeds, OperationLost, Begin
  <2>5. QED
    BY <1>3, <2>1, <2>2, <2>3, <2>4 DEF FundingSteps, FundNext
<1>4. QED
  BY <1>1, <1>2, <1>3

\* How the wallet grows: an account of the population, or the hot wallet when there is none.
LEMMA WalletGrows ==
  ASSUME Provisioning, AccountsOK
  PROVE  \/ wallet' = wallet
         \/ ~Resolving /\ \E a \in Population : wallet' = Append(wallet, a)
         \/ given = Nobody /\ Named(HotName) = {} /\ wallet' = Append(wallet, HotName)
<1> USE DEF At, Resolving
<1>1. CASE ResolveAccount
  BY <1>1 DEF ResolveAccount, ResolveHot, ResolveLost, ResolveRefused, CreationBreaksOff
<1>2. CASE Provision
  BY <1>2 DEF Provision, Populate, JoinFails, JoinCreated, ListAccounts, JoinRead, Spawn, Created, Read, TaskFails, provVars
<1>3. QED
  BY <1>1, <1>2 DEF Provisioning, ProvNext

LEMMA WalletOfNames ==
  ASSUME Provisioning, AccountsOK
  PROVE  wallet' = wallet \/ \E n \in Names : wallet' = Append(wallet, n)
BY WalletGrows, PopulationNamed DEF AccountsOK, Names

\* What is in the wallet stays where it is.
LEMMA AccountsStay ==
  ASSUME Provisioning, AccountsOK
  PROVE  /\ wallet' \in Seq(Names) /\ Len(wallet) <= Len(wallet') /\ Len(wallet) \in Nat
         /\ DOMAIN wallet = 1 .. Len(wallet) /\ DOMAIN wallet' = 1 .. Len(wallet') /\ Len(wallet') \in Nat
         /\ \A u \in DOMAIN wallet : u \in DOMAIN wallet' /\ wallet'[u] = wallet[u]
<1>0. wallet \in Seq(Names)
  BY DEF AccountsOK
<1>1. Len(wallet) \in Nat /\ DOMAIN wallet = 1 .. Len(wallet)
  BY <1>0, LenProperties
<1>2. CASE wallet' = wallet
  BY <1>0, <1>1, <1>2
<1>3. ASSUME NEW n \in Names, wallet' = Append(wallet, n)
      PROVE  /\ wallet' \in Seq(Names) /\ Len(wallet') = Len(wallet) + 1 /\ DOMAIN wallet' = 1 .. Len(wallet) + 1
             /\ \A u \in DOMAIN wallet : wallet'[u] = wallet[u]
  BY <1>0, <1>3, Appended
<1>4. QED
  BY <1>1, <1>2, <1>3, WalletOfNames

-----------------------------------------------------------------------------
(* The hot wallet. *)

\* Of the accounts of a name there is a first one.
LEMMA FirstIsLeast ==
  ASSUME NEW S, S \subseteq Nat, S # {}
  PROVE  First(S) \in S
<1> DEFINE Less == {p \in Nat \X Nat : p[1] < p[2]}
<1>1. OpToRel(<, Nat) = Less
  BY DEF OpToRel
<1>2. IsWellFoundedOn(Less, Nat)
  BY <1>1, NatLessThanWellFounded
<1>3. ASSUME NEW v \in Nat, NEW u \in Nat, v < u
      PROVE  <<v, u>> \in Less
  BY <1>3
<1> HIDE DEF Less
<1>4. \E u \in S : \A v \in S : <<v, u>> \notin Less
  BY <1>2, WFMin
<1>5. PICK u \in S : \A v \in S : <<v, u>> \notin Less
  BY <1>4
<1>6. ASSUME NEW v \in S
      PROVE  u <= v
  <2>1. u \in Nat /\ v \in Nat /\ ~(v < u)
    BY <1>3, <1>5
  <2>2. QED
    BY <2>1
<1>7. QED
  BY <1>6 DEF First

LEMMA NamedIsInWallet ==
  ASSUME AccountsOK
  PROVE  /\ Named(HotName) \subseteq Nat /\ Named(HotName) \subseteq DOMAIN wallet
         /\ \A u \in Named(HotName) : wallet[u] = HotName
         /\ Len(wallet) \in Nat /\ DOMAIN wallet = 1 .. Len(wallet)
<1>1. Len(wallet) \in Nat /\ DOMAIN wallet = 1 .. Len(wallet)
  BY LenProperties DEF AccountsOK
<1>2. QED
  BY <1>1 DEF Named

LEMMA ProvisioningKeeps ==
  ASSUME Provisioning
  PROVE  UNCHANGED <<scenario, given>> /\ (Resolving' => Resolving) /\ (stage' = "validate" => stage = "validate")
<1> USE DEF At, Goto, Stay, GiveUp, Resolving
<1>0. UNCHANGED scenario
  BY DEF Provisioning
<1>1. CASE ResolveAccount
  BY <1>0, <1>1 DEF ResolveAccount, ResolveHot, ResolveLost, ResolveRefused
<1>2. CASE Provision
  BY <1>0, <1>2 DEF Provision, Populate, JoinFails, JoinCreated, ListAccounts, JoinRead, Spawn, Created, Read, TaskFails, provVars
<1>3. QED
  BY <1>1, <1>2 DEF Provisioning, ProvNext

\* The hot wallet is resolved once.
LEMMA HotChanges ==
  ASSUME Provisioning
  PROVE  \/ hot' = hot
         \/ /\ stage = "resolve" /\ ~Resolving'
            /\ \/ given # Nobody /\ given \in DOMAIN wallet /\ hot' = given
               \/ given = Nobody /\ Named(HotName) # {} /\ hot' = First(Named(HotName)) /\ UNCHANGED wallet
               \/ given = Nobody /\ hot' = Len(wallet) + 1 /\ wallet' = Append(wallet, HotName)
<1> USE DEF At, Goto, Stay, GiveUp, Resolving
<1>1. CASE ResolveAccount
  BY <1>1 DEF ResolveAccount, ResolveHot, ResolveLost, ResolveRefused
<1>2. CASE Provision
  BY <1>2 DEF Provision, Populate, JoinFails, JoinCreated, ListAccounts, JoinRead, Spawn, Created, Read, TaskFails, provVars
<1>3. QED
  BY <1>1, <1>2 DEF Provisioning, ProvNext

LEMMA WalletKeptStep ==
  ASSUME Provisioning, AccountsInv
  PROVE  WalletKept'
<1>1. AccountsOK /\ WalletKept
  BY DEF AccountsInv
<1>2. Len(Wallet0) \in Nat /\ DOMAIN Wallet0 = 1 .. Len(Wallet0)
  BY LeftBehind
<1>3. /\ Len(wallet) <= Len(wallet') /\ Len(wallet) \in Nat /\ DOMAIN wallet = 1 .. Len(wallet) /\ Len(wallet') \in Nat
      /\ \A u \in DOMAIN wallet : wallet'[u] = wallet[u]
  BY <1>1, AccountsStay
<1>4. Len(Wallet0) <= Len(wallet) /\ \A u \in DOMAIN Wallet0 : wallet[u] = Wallet0[u]
  BY <1>1 DEF WalletKept
<1>5. Len(Wallet0) <= Len(wallet') /\ \A u \in DOMAIN Wallet0 : wallet'[u] = Wallet0[u]
  BY <1>2, <1>3, <1>4
<1>6. ASSUME Resolving', given' # Nobody
      PROVE  Len(wallet') = Len(Wallet0)
  <2>1. Resolving /\ given # Nobody
    BY <1>6, ProvisioningKeeps
  <2>2. wallet' = wallet
    BY <1>1, <2>1, WalletGrows
  <2>3. QED
    BY <1>1, <2>1, <2>2 DEF WalletKept, Resolving
<1>7. QED
  BY <1>5, <1>6 DEF WalletKept, Resolving

LEMMA HotKeptStep ==
  ASSUME Provisioning, AccountsInv
  PROVE  HotKept' /\ hot' \in Nat
<1>1. AccountsOK /\ WalletKept /\ HotKept
  BY DEF AccountsInv
<1>2. /\ wallet \in Seq(Names) /\ HotName \in Names /\ hot \in Nat /\ given \in Nat
  BY <1>1 DEF AccountsOK, Names
<1>3. /\ Len(wallet) \in Nat /\ DOMAIN wallet = 1 .. Len(wallet) /\ DOMAIN wallet' = 1 .. Len(wallet') /\ Len(wallet') \in Nat
      /\ \A u \in DOMAIN wallet : u \in DOMAIN wallet' /\ wallet'[u] = wallet[u]
  BY <1>1, AccountsStay
<1>4. given' = given /\ (Resolving' => Resolving)
  BY ProvisioningKeeps
<1>5. CASE hot' = hot
  BY <1>1, <1>2, <1>3, <1>4, <1>5 DEF HotKept, Resolving
<1>6. ASSUME ~Resolving', stage = "resolve", given # Nobody, given \in DOMAIN wallet, hot' = given
      PROVE  HotKept' /\ hot' \in Nat
  <2>1. Len(wallet) = Len(Wallet0)
    BY <1>1, <1>6 DEF WalletKept
  <2>2. given \in DOMAIN Wallet0
    BY <1>3, <1>6, <2>1, LeftBehind
  <2>3. QED
    BY <1>2, <1>4, <1>6, <2>2 DEF HotKept, Resolving
<1>7. ASSUME ~Resolving', given = Nobody, Named(HotName) # {}, hot' = First(Named(HotName))
      PROVE  HotKept' /\ hot' \in Nat
  <2>1. hot' \in Named(HotName)
    BY <1>1, <1>7, NamedIsInWallet, FirstIsLeast
  <2>2. hot' \in Nat /\ hot' \in DOMAIN wallet /\ wallet[hot'] = HotName
    BY <1>1, <2>1, NamedIsInWallet
  <2>3. QED
    BY <1>3, <1>4, <1>7, <2>2 DEF HotKept, Resolving
<1>8. ASSUME ~Resolving', given = Nobody, hot' = Len(wallet) + 1, wallet' = Append(wallet, HotName)
      PROVE  HotKept' /\ hot' \in Nat
  <2>1. hot' \in DOMAIN wallet' /\ wallet'[hot'] = HotName
    BY <1>2, <1>3, <1>8, Appended
  <2>2. QED
    BY <1>3, <1>4, <1>8, <2>1 DEF HotKept, Resolving
<1>9. QED
  BY <1>5, <1>6, <1>7, <1>8, HotChanges

\* Only where there is none is an account of its name added.
LEMMA OneHotWalletStep ==
  ASSUME Provisioning, AccountsInv
  PROVE  OneHotWallet'
<1>1. AccountsOK /\ WalletKept /\ OneHotWallet
  BY DEF AccountsInv
<1>2. /\ wallet \in Seq(Names) /\ HotName \in Names
      /\ \A a \in Population : a \in Names /\ a # HotName
  BY <1>1, PopulationNamed DEF AccountsOK, Names
<1>3. Len(wallet) \in Nat /\ DOMAIN wallet = 1 .. Len(wallet)
  BY <1>2, LenProperties
<1>4. CASE wallet' = wallet
  BY <1>1, <1>4 DEF OneHotWallet, Named
<1>5. ASSUME NEW a \in Population, wallet' = Append(wallet, a)
      PROVE  OneHotWallet'
  <2>1. /\ DOMAIN wallet' = 1 .. Len(wallet) + 1 /\ wallet'[Len(wallet) + 1] = a
        /\ \A u \in DOMAIN wallet : wallet'[u] = wallet[u]
    BY <1>2, <1>5, Appended
  <2>2. Named(HotName)' = Named(HotName)
    BY <1>2, <1>3, <2>1 DEF Named
  <2>3. DOMAIN wallet \subseteq DOMAIN wallet'
    BY <1>3, <2>1
  <2>4. QED
    BY <1>1, <2>2, <2>3 DEF OneHotWallet
<1>6. ASSUME Named(HotName) = {}, wallet' = Append(wallet, HotName)
      PROVE  OneHotWallet'
  <2>1. /\ DOMAIN wallet' = 1 .. Len(wallet) + 1 /\ wallet'[Len(wallet) + 1] = HotName
        /\ \A u \in DOMAIN wallet : wallet'[u] = wallet[u] /\ wallet[u] # HotName
    BY <1>2, <1>6, Appended DEF Named
  <2>2. Named(HotName)' = {Len(wallet) + 1} /\ Len(wallet) + 1 \in DOMAIN wallet'
    BY <1>3, <2>1 DEF Named
  <2>3. \A u \in DOMAIN Wallet0 : u \in DOMAIN wallet /\ wallet[u] = Wallet0[u]
    <3>1. Len(Wallet0) <= Len(wallet) /\ \A u \in DOMAIN Wallet0 : wallet[u] = Wallet0[u]
      BY <1>1 DEF WalletKept
    <3>2. QED
      BY <1>3, <3>1, LeftBehind
  <2>4. HotBefore = {}
    BY <2>1, <2>3 DEF HotBefore
  <2>5. QED
    BY <2>2, <2>4 DEF OneHotWallet
<1>7. QED
  BY <1>1, <1>4, <1>5, <1>6, WalletGrows

\* What a step does to the tasks, what they returned and the entries.
LEMMA TaskSteps ==
  ASSUME Provisioning
  PROVE  \/ UNCHANGED <<task, uuidOf, entry>>
         \/ ~Resolving /\ ~Resolving' /\ \E a \in Population :
              \/ /\ task[a] # "broken" /\ UNCHANGED <<uuidOf, entry>>
                 /\ \/ task' = [task EXCEPT ![a] = "broken"]
                    \/ At("create") /\ task[a] = "new" /\ task' = [task EXCEPT ![a] = "creating"]
                    \/ task[a] = "created" /\ task' = [task EXCEPT ![a] = "reading"]
              \/ /\ task[a] = "creating" /\ task' = [task EXCEPT ![a] = "created"]
                 /\ wallet' = Append(wallet, a) /\ UNCHANGED entry
                 /\ uuidOf' = [uuidOf EXCEPT ![a] = Len(wallet) + 1]
              \/ /\ task[a] = "reading" /\ task' = [task EXCEPT ![a] = "read"]
                 /\ UNCHANGED <<wallet, uuidOf>> /\ entry' = [entry EXCEPT ![a] = uuidOf[a]]
<1> USE DEF At, Goto, Stay, GiveUp, Resolving
<1>1. CASE ResolveAccount
  BY <1>1 DEF ResolveAccount, ResolveHot, ResolveLost, ResolveRefused
<1>2. CASE Populate \/ JoinFails \/ JoinCreated \/ ListAccounts \/ JoinRead
  BY <1>2 DEF Populate, JoinFails, JoinCreated, ListAccounts, JoinRead, provVars
<1>3. ASSUME NEW a \in Population, Spawn(a)
      PROVE  /\ ~Resolving /\ ~Resolving' /\ task[a] # "broken" /\ UNCHANGED <<uuidOf, entry>>
             /\ \/ At("create") /\ task[a] = "new" /\ task' = [task EXCEPT ![a] = "creating"]
                \/ task[a] = "created" /\ task' = [task EXCEPT ![a] = "reading"]
  BY <1>3 DEF Spawn, Waiting
<1>4. ASSUME NEW a \in Population, Created(a)
      PROVE  /\ ~Resolving /\ ~Resolving' /\ task[a] = "creating" /\ task' = [task EXCEPT ![a] = "created"]
             /\ wallet' = Append(wallet, a) /\ UNCHANGED entry
             /\ uuidOf' = [uuidOf EXCEPT ![a] = Len(wallet) + 1]
  BY <1>4 DEF Created
<1>5. ASSUME NEW a \in Population, Read(a)
      PROVE  /\ ~Resolving /\ ~Resolving' /\ task[a] = "reading" /\ task' = [task EXCEPT ![a] = "read"]
             /\ UNCHANGED <<wallet, uuidOf>> /\ entry' = [entry EXCEPT ![a] = uuidOf[a]]
  BY <1>5 DEF Read
<1>6. ASSUME NEW a \in Population, TaskFails(a)
      PROVE  /\ ~Resolving /\ ~Resolving' /\ task[a] # "broken" /\ UNCHANGED <<uuidOf, entry>>
             /\ task' = [task EXCEPT ![a] = "broken"]
  BY <1>6 DEF TaskFails, InFlight
<1>7. QED
  <2>1. CASE ResolveAccount
    BY <1>1, <2>1
  <2>2. CASE Populate \/ JoinFails \/ JoinCreated \/ ListAccounts \/ JoinRead
    BY <1>2, <2>2
  <2>3. CASE \E a \in Population : Spawn(a) \/ Created(a) \/ Read(a) \/ TaskFails(a)
    <3> PICK a \in Population : Spawn(a) \/ Created(a) \/ Read(a) \/ TaskFails(a)
      BY <2>3
    <3> HIDE DEF At, Goto, Stay, GiveUp, Resolving
    <3>1. CASE Spawn(a)
      BY <1>3, <3>1
    <3>2. CASE Created(a)
      BY <1>4, <3>2
    <3>3. CASE Read(a)
      BY <1>5, <3>3
    <3>4. CASE TaskFails(a)
      BY <1>6, <3>4
    <3>5. QED
      BY <3>1, <3>2, <3>3, <3>4
  <2>4. QED
    BY <2>1, <2>2, <2>3 DEF Provisioning, ProvNext, Provision

LEMMA AccountsOKStep ==
  ASSUME Provisioning, AccountsInv
  PROVE  AccountsOK'
<1>1. AccountsOK
  BY DEF AccountsInv
<1>2. UNCHANGED <<scenario, given>> /\ Population' = Population
  BY ProvisioningKeeps DEF Population
<1>3. hot' \in Nat /\ wallet' \in Seq(Names) /\ Len(wallet) \in Nat
  BY <1>1, HotKeptStep, AccountsStay
<1>4. active' \subseteq Population
  <2>1. active \subseteq Population
    BY <1>1 DEF AccountsOK
  <2>2. CASE ResolveAccount
    BY <2>1, <2>2 DEF ResolveAccount, ResolveHot, ResolveLost, ResolveRefused
  <2>3. CASE Provision
    BY <2>1, <2>3 DEF Provision, Populate, JoinFails, JoinCreated, ListAccounts, JoinRead, Spawn, Created, Read, TaskFails, provVars
  <2>4. QED
    BY <2>2, <2>3 DEF Provisioning, ProvNext
<1>5. task \in [Population -> Tasks] /\ uuidOf \in [Population -> Nat] /\ entry \in [Population -> Nat]
  BY <1>1 DEF AccountsOK
<1>6. task' \in [Population -> Tasks] /\ uuidOf' \in [Population -> Nat] /\ entry' \in [Population -> Nat]
  <2>1. CASE UNCHANGED <<task, uuidOf, entry>>
    BY <1>5, <2>1
  <2>2. ASSUME NEW a \in Population,
               \/ task' = [task EXCEPT ![a] = "broken"] \/ task' = [task EXCEPT ![a] = "creating"]
               \/ task' = [task EXCEPT ![a] = "reading"] \/ task' = [task EXCEPT ![a] = "created"]
               \/ task' = [task EXCEPT ![a] = "read"],
               uuidOf' = uuidOf \/ uuidOf' = [uuidOf EXCEPT ![a] = Len(wallet) + 1],
               entry' = entry \/ entry' = [entry EXCEPT ![a] = uuidOf[a]]
        PROVE  task' \in [Population -> Tasks] /\ uuidOf' \in [Population -> Nat] /\ entry' \in [Population -> Nat]
    <3>1. task' \in [Population -> Tasks]
      BY <1>5, <2>2 DEF Tasks
    <3>2. uuidOf' \in [Population -> Nat]
      BY <1>3, <1>5, <2>2
    <3>3. entry' \in [Population -> Nat]
      BY <1>5, <2>2
    <3>4. QED
      BY <3>1, <3>2, <3>3
  <2>3. QED
    BY <2>1, <2>2, TaskSteps
<1>7. QED
  BY <1>1, <1>2, <1>3, <1>4, <1>6 DEF AccountsOK

LEMMA CreatedIsOwnStep ==
  ASSUME Provisioning, AccountsInv
  PROVE  CreatedIsOwn'
<1>1. AccountsOK /\ WalletKept /\ CreatedIsOwn
  BY DEF AccountsInv
<1>2. Population' = Population /\ (Resolving' => Resolving)
  BY ProvisioningKeeps DEF Population
<1>3. /\ task \in [Population -> Tasks] /\ uuidOf \in [Population -> Nat] /\ entry \in [Population -> Nat]
      /\ wallet \in Seq(Names) /\ \A a \in Population : a \in Names
  BY <1>1, PopulationNamed DEF AccountsOK
<1>4. /\ Len(wallet) \in Nat /\ Len(Wallet0) \in Nat /\ Len(Wallet0) <= Len(wallet)
      /\ \A u \in DOMAIN wallet : u \in DOMAIN wallet' /\ wallet'[u] = wallet[u]
  BY <1>1, LeftBehind, AccountsStay DEF WalletKept
<1> DEFINE Own(b, tsk, uuid, ent, w) ==
             /\ tsk \in {"created", "reading", "read"} => uuid \in DOMAIN w /\ uuid > Len(Wallet0) /\ w[uuid] = b
             /\ tsk = "read" => ent = uuid
<1>5. \A b \in Population : Own(b, task[b], uuidOf[b], entry[b], wallet)
  BY <1>1 DEF CreatedIsOwn
<1>6. \A b \in Population : Own(b, task[b], uuidOf[b], entry[b], wallet')
  BY <1>4, <1>5
<1>7. CASE UNCHANGED <<task, uuidOf, entry>>
  <2>1. \A b \in Population : Resolving' => task'[b] = "new"
    BY <1>1, <1>2, <1>7 DEF CreatedIsOwn, Resolving
  <2>2. QED
    BY <1>2, <1>6, <1>7, <2>1 DEF CreatedIsOwn, Resolving
<1>8. ASSUME ~Resolving', NEW a \in Population, task[a] # "broken", UNCHANGED <<uuidOf, entry>>,
             \/ task' = [task EXCEPT ![a] = "broken"]
             \/ task[a] = "new" /\ task' = [task EXCEPT ![a] = "creating"]
             \/ task[a] = "created" /\ task' = [task EXCEPT ![a] = "reading"]
      PROVE  CreatedIsOwn'
  <2>1. \A b \in Population : Own(b, task'[b], uuidOf'[b], entry'[b], wallet')
    BY <1>3, <1>6, <1>8
  <2>2. QED
    BY <1>2, <1>8, <2>1 DEF CreatedIsOwn, Resolving
<1>9. ASSUME ~Resolving', NEW a \in Population, task' = [task EXCEPT ![a] = "created"],
             wallet' = Append(wallet, a), UNCHANGED entry, uuidOf' = [uuidOf EXCEPT ![a] = Len(wallet) + 1]
      PROVE  CreatedIsOwn'
  <2>1. Len(wallet) + 1 \in DOMAIN wallet' /\ wallet'[Len(wallet) + 1] = a
    BY <1>3, <1>4, <1>9, Appended
  <2>2. ASSUME NEW b \in Population
        PROVE  Own(b, task'[b], uuidOf'[b], entry'[b], wallet')
    <3>1. CASE b = a
      <4>1. task'[b] = "created" /\ uuidOf'[b] = Len(wallet) + 1
        BY <1>3, <1>9, <3>1
      <4>2. QED
        BY <1>4, <2>1, <3>1, <4>1
    <3>2. CASE b # a
      <4>1. task'[b] = task[b] /\ uuidOf'[b] = uuidOf[b] /\ entry'[b] = entry[b]
        BY <1>3, <1>9, <3>2
      <4>2. QED
        BY <1>6, <4>1
    <3>3. QED
      BY <3>1, <3>2
  <2>3. QED
    BY <1>2, <1>9, <2>2 DEF CreatedIsOwn, Resolving
<1>10. ASSUME ~Resolving', NEW a \in Population, task[a] = "reading", task' = [task EXCEPT ![a] = "read"],
              UNCHANGED uuidOf, entry' = [entry EXCEPT ![a] = uuidOf[a]]
       PROVE  CreatedIsOwn'
  <2>1. \A b \in Population : Own(b, task'[b], uuidOf'[b], entry'[b], wallet')
    BY <1>3, <1>6, <1>10
  <2>2. QED
    BY <1>2, <1>10, <2>1 DEF CreatedIsOwn, Resolving
<1> HIDE DEF Own
<1>11. QED
  BY <1>7, <1>8, <1>9, <1>10, TaskSteps

-----------------------------------------------------------------------------
(* The chain: what a block takes, and what the wallet broadcasts. *)

LEMMA Amounts ==
  /\ Anchor \in Nat /\ Anchor >= 1 /\ ChunkBlocks \in Nat /\ ChunkBlocks >= 1
  /\ TopUpBlocks \in Nat
BY FundingAssumption

LEMMA MinedBlocks ==
  ASSUME NEW k, Mine(k)
  PROVE  /\ height' = height + k /\ mempool' = {}
         /\ paid' = paid \cup {[round |-> t.round, at |-> height + 1] : t \in {u \in mempool : u.round > 0}}
BY DEF Mine

LEMMA BroadcastSends ==
  ASSUME NEW r, NEW pool, NEW S, NEW amount, Broadcast(r, pool, S, amount)
  PROVE  /\ UNCHANGED <<height, paid>>
         /\ \E c : mempool' = mempool \cup {[round |-> r, change |-> c]}
BY DEF Broadcast

\* The rounds on their way are paid by the next block, each once.
LEMMA MinedRounds ==
  ASSUME FundsOK, PaidOnce, NEW k \in Nat, k >= 1 \/ FanOuts = {}, Mine(k)
  PROVE  /\ height' = height + k /\ height' \in Nat
         /\ paid \subseteq paid' /\ FanOuts' = {} /\ mempool' = {}
         /\ PaidRounds' = PaidRounds \cup FanOuts
         /\ \A r \in FanOuts : \E x \in paid' : x.round = r /\ x.at = height + 1
         /\ \A x \in paid' : x.round \in Nat \ {0} /\ x.at \in 1 .. height'
         /\ PaidOnce'
<1> DEFINE New == {[round |-> t.round, at |-> height + 1] : t \in {u \in mempool : u.round > 0}}
<1>1. height' = height + k /\ mempool' = {} /\ paid' = paid \cup New
  BY MinedBlocks
<1>2. height \in Nat /\ (\A t \in mempool : t.round \in Nat) /\ \A x \in paid : x.round \in Nat \ {0} /\ x.at \in 1 .. height
  BY DEF FundsOK
<1>3. FanOuts = {x.round : x \in New} /\ \A x \in New : x.round \in FanOuts /\ x.at = height + 1 /\ x = [round |-> x.round, at |-> height + 1]
  <2>1. \A x \in New : \E t \in mempool : t.round > 0 /\ x = [round |-> t.round, at |-> height + 1]
    OBVIOUS
  <2>2. ASSUME NEW x \in New
        PROVE  x.round \in FanOuts /\ x.at = height + 1 /\ x = [round |-> x.round, at |-> height + 1]
    <3>1. PICK t \in mempool : t.round > 0 /\ x = [round |-> t.round, at |-> height + 1]
      BY <2>1
    <3>2. x.round = t.round /\ x.at = height + 1
      BY <3>1
    <3>3. t.round \in FanOuts
      BY <3>1 DEF FanOuts
    <3>4. QED
      BY <3>1, <3>2, <3>3
  <2>3. ASSUME NEW r \in FanOuts
        PROVE  \E x \in New : r = x.round
    <3>1. PICK t \in mempool : t.round > 0 /\ r = t.round
      BY DEF FanOuts
    <3>2. [round |-> t.round, at |-> height + 1] \in New
      BY <3>1
    <3>3. QED
      BY <3>1, <3>2
  <2>4. QED
    BY <2>2, <2>3
<1>4. FanOuts' = {}
  BY <1>1 DEF FanOuts
<1>5. PaidRounds' = PaidRounds \cup FanOuts
  BY <1>1, <1>3 DEF PaidRounds
<1>6. \A r \in FanOuts : \E x \in paid' : x.round = r /\ x.at = height + 1
  BY <1>1, <1>3
<1>7. \A r \in FanOuts : r \in Nat \ {0}
  BY <1>2 DEF FanOuts
<1>8. \A x \in paid' : x.round \in Nat \ {0} /\ x.at \in 1 .. height'
  <2>1. ASSUME NEW x \in paid
        PROVE  x.round \in Nat \ {0} /\ x.at \in 1 .. height'
    BY <1>1, <1>2
  <2>2. ASSUME NEW x \in New
        PROVE  x.round \in Nat \ {0} /\ x.at \in 1 .. height'
    <3>1. x.round \in FanOuts /\ x.at = height + 1 /\ FanOuts # {}
      BY <1>3
    <3>2. QED
      BY <1>1, <1>2, <1>7, <3>1
  <2>3. QED
    BY <1>1, <2>1, <2>2
<1>9. PaidOnce'
  <2>1. (\A x, y \in paid : x.round = y.round => x = y) /\ \A x \in paid : x.round \notin FanOuts
    BY DEF PaidOnce, FanOuts
  <2>2. \A x, y \in New : x.round = y.round => x = y
    BY <1>3
  <2>3. \A x \in paid, y \in New : x.round # y.round
    BY <1>3, <2>1
  <2> HIDE DEF New
  <2>4. \A x, y \in paid' : x.round = y.round => x = y
    BY <1>1, <2>1, <2>2, <2>3
  <2>5. \A x \in paid' : x.round \notin FanOuts'
    BY <1>4
  <2>6. QED
    BY <2>4, <2>5 DEF PaidOnce, FanOuts
<1>10. height' \in Nat
  BY <1>1, <1>2
<1>11. QED
  BY <1>1, <1>4, <1>5, <1>6, <1>8, <1>9, <1>10

LEMMA SentRounds ==
  ASSUME FundsOK, PaidOnce, NEW r \in Nat, r \notin PaidRounds, NEW pool, NEW S, NEW amount, Broadcast(r, pool, S, amount)
  PROVE  /\ UNCHANGED <<height, paid>> /\ PaidRounds' = PaidRounds
         /\ \A t \in mempool' : t.round \in Nat
         /\ FanOuts' = FanOuts \cup (IF r > 0 THEN {r} ELSE {})
         /\ PaidOnce'
<1>1. UNCHANGED <<height, paid>>
  BY BroadcastSends
<1>2. PICK c : mempool' = mempool \cup {[round |-> r, change |-> c]}
  BY BroadcastSends
<1>3. \A t \in mempool : t.round \in Nat
  BY DEF FundsOK
<1>4. \A t \in mempool' : t.round \in Nat
  BY <1>2, <1>3
<1>5. FanOuts' = FanOuts \cup (IF r > 0 THEN {r} ELSE {})
  <2> DEFINE new == [round |-> r, change |-> c]
  <2>1. new.round = r
    OBVIOUS
  <2>2. ASSUME NEW q
        PROVE  q \in FanOuts' <=> q \in FanOuts \/ (q = r /\ r > 0)
    <3>1. q \in FanOuts' <=> \E t \in mempool \cup {new} : t.round > 0 /\ q = t.round
      BY <1>2 DEF FanOuts
    <3>2. q \in FanOuts <=> \E t \in mempool : t.round > 0 /\ q = t.round
      BY DEF FanOuts
    <3> HIDE DEF new
    <3>3. QED
      BY <2>1, <3>1, <3>2
  <2>3. QED
    BY <2>2
<1>6. PaidRounds' = PaidRounds
  BY <1>1 DEF PaidRounds
<1>7. PaidOnce'
  <2>1. (\A x, y \in paid : x.round = y.round => x = y) /\ \A x \in paid : x.round \notin FanOuts /\ x.round # r
    BY DEF PaidOnce, FanOuts, PaidRounds
  <2>2. \A x \in paid' : x.round \notin FanOuts'
    BY <1>1, <1>5, <2>1
  <2>3. QED
    BY <1>1, <2>1, <2>2 DEF PaidOnce, FanOuts
<1>8. QED
  BY <1>1, <1>4, <1>5, <1>6, <1>7

-----------------------------------------------------------------------------
(* The funding, step by step. *)

\* Setup plans once: the accounts drawn as active and the rounds stay.
LEMMA PlanKept ==
  ASSUME FundingSteps
  PROVE  active' = active /\ Rounds' = Rounds
<1>1. UNCHANGED <<scenario, active>>
  BY DEF FundingSteps, provVars
<1>2. Plan' = Plan
  BY <1>1 DEF Plan
<1>3. QED
  BY <1>1, <1>2 DEF Rounds

\* Where the others take setup, none of them with the chain.
LEMMA OthersMove ==
  ASSUME Validating \/ Provisioning \/ Dispatching
  PROVE  /\ UNCHANGED fundVars
         /\ \/ stage' = stage \/ stage' = "failed"
            \/ stage \in Early /\ stage' \in Early
            \/ stage' \in {"load", "drain"}
         /\ stage' \in {"settle", "ready"} => stage' = stage /\ UNCHANGED <<active, scenario>>
<1> USE DEF At, Goto, Stay, GiveUp, Early
<1>1. CASE Validating
  BY <1>1 DEF Validating, Validate, provVars
<1>2. CASE Dispatching
  BY <1>2 DEF Dispatching, PaceNext, BeginLoad, Tick, WindowCloses, LoadCancelled, provVars
<1>3. CASE Provisioning
  <2>1. UNCHANGED fundVars /\ UNCHANGED scenario
    BY <1>3 DEF Provisioning
  <2>2. CASE ResolveAccount
    BY <2>1, <2>2 DEF ResolveAccount, ResolveHot, ResolveLost, ResolveRefused
  <2>3. CASE Provision
    BY <2>1, <2>3 DEF Provision, Populate, JoinFails, JoinCreated, ListAccounts, JoinRead, Spawn, Created, Read, TaskFails, provVars
  <2>4. QED
    BY <1>3, <2>2, <2>3 DEF Provisioning, ProvNext
<1>4. QED
  BY <1>1, <1>2, <1>3

LEMMA OthersStep ==
  ASSUME Validating \/ Provisioning \/ Dispatching, FundsInv
  PROVE  FundsInv'
<1>1. FundsOK /\ RoundsInOrder /\ PaidOnce /\ RoundsCovered
  BY DEF FundsInv
<1>2. /\ UNCHANGED <<height, mempool, paid, left, round>>
      /\ \/ stage' = stage \/ stage' = "failed"
         \/ stage \in Early /\ stage' \in Early
         \/ stage' \in {"load", "drain"}
      /\ stage' \in {"settle", "ready"} => stage' = stage /\ UNCHANGED <<active, scenario>>
  BY OthersMove DEF fundVars, chainVars, mineVars, loopVars
<1>3. PaidRounds' = PaidRounds /\ FanOuts' = FanOuts
  BY <1>2 DEF PaidRounds, FanOuts
<1>4. FundsOK'
  BY <1>1, <1>2 DEF FundsOK, Early, Fanning, Late
<1>5. PaidOnce'
  BY <1>1, <1>2 DEF PaidOnce
<1>6. RoundsInOrder'
  BY <1>1, <1>2, <1>3 DEF RoundsInOrder, Early, Fanning
<1>7. stage' \in Fanning \cup {"settle", "ready"} => stage' = stage
  BY <1>2 DEF Early, Fanning
<1>8. (stage' \in {"settle", "ready"} => Rounds' = Rounds /\ active' = active)
  <2>1. ASSUME UNCHANGED <<active, scenario>>
        PROVE  Rounds' = Rounds
    <3>1. Plan' = Plan
      BY <2>1 DEF Plan
    <3>2. QED
      BY <3>1 DEF Rounds
  <2>2. QED
    BY <1>2, <2>1
<1>9. RoundsCovered'
  <2>1. CASE stage' \in Fanning
    BY <1>1, <1>2, <1>3, <1>7, <2>1 DEF RoundsCovered, Fanning
  <2>2. CASE stage' \in {"settle", "ready"}
    BY <1>1, <1>2, <1>3, <1>7, <1>8, <2>2 DEF RoundsCovered, Fanning
  <2>3. CASE stage' \notin Fanning \cup {"settle", "ready"}
    BY <2>3 DEF RoundsCovered
  <2>4. QED
    BY <2>1, <2>2, <2>3
<1>10. QED
  BY <1>4, <1>5, <1>6, <1>9 DEF FundsInv

\* The steps that leave the chain alone.
Quiet == Warmup \/ Measure \/ Shield \/ CheckFunded \/ SendAccepted \/ SendInsufficient

LEMMA QuietMoves ==
  ASSUME Quiet, FundsOK
  PROVE  /\ UNCHANGED <<height, mempool, paid, round>> /\ left' \in Nat
         /\ \/ stage \in Early /\ stage' \in Early \cup {"failed"}
            \/ stage \in Early /\ stage' = "send"
            \/ stage \in Early /\ stage' = "ready" /\ active = {}
            \/ stage = "send" /\ stage' \in {"await", "anchor"}
<1> USE DEF At, Goto, Stay, GiveUp, Early
<1>1. left \in Nat
  BY DEF FundsOK
<1>2. CASE Warmup
  BY <1>1, <1>2 DEF Warmup, Probe, PollBalance, CheckAge, fundVars, chainVars, mineVars, loopVars
<1>3. CASE Measure \/ Shield \/ SendAccepted \/ SendInsufficient
  BY <1>1, <1>3 DEF Measure, Shield, SendAccepted, SendInsufficient, fundVars, chainVars, mineVars, loopVars
<1>4. CASE CheckFunded
  BY <1>1, <1>4, Amounts DEF CheckFunded, Begin, chainVars, mineVars
<1>5. QED
  BY <1>2, <1>3, <1>4 DEF Quiet

LEMMA QuietStep ==
  ASSUME FundingSteps, Quiet, FundsInv
  PROVE  FundsInv'
<1>1. FundsOK /\ RoundsInOrder /\ PaidOnce /\ RoundsCovered
  BY DEF FundsInv
<1>2. /\ UNCHANGED <<height, mempool, paid, round>> /\ left' \in Nat
      /\ \/ stage \in Early /\ stage' \in Early \cup {"failed"}
         \/ stage \in Early /\ stage' = "send"
         \/ stage \in Early /\ stage' = "ready" /\ active = {}
         \/ stage = "send" /\ stage' \in {"await", "anchor"}
  BY <1>1, QuietMoves
<1>3. PaidRounds' = PaidRounds /\ FanOuts' = FanOuts /\ active' = active
  BY <1>2, PlanKept DEF PaidRounds, FanOuts
<1>4. FundsOK'
  BY <1>1, <1>2 DEF FundsOK, Early, Fanning, Late
<1>5. PaidOnce'
  BY <1>1, <1>2 DEF PaidOnce
<1>6. stage \in Early => PaidRounds \cup FanOuts = {} /\ round = 1
  BY <1>1 DEF RoundsInOrder, PaidRounds
<1>7. RoundsInOrder'
  <2>1. CASE stage \in Early
    BY <1>1, <1>2, <1>3, <1>6, <2>1 DEF RoundsInOrder
  <2>2. CASE stage = "send"
    BY <1>1, <1>2, <1>3, <2>2 DEF RoundsInOrder, Early, Fanning
  <2>3. QED
    BY <1>2, <2>1, <2>2
<1>8. RoundsCovered'
  <2>1. CASE stage' \in Fanning
    <3>1. CASE stage = "send"
      BY <1>1, <1>2, <1>3, <2>1, <3>1 DEF RoundsCovered, Fanning
    <3>2. CASE stage \in Early
      <4>1. round' = 1 /\ stage' = "send"
        BY <1>2, <1>6, <2>1, <3>2 DEF Early, Fanning
      <4>2. 1 .. round' - 1 = {}
        BY <4>1
      <4>3. QED
        BY <4>1, <4>2 DEF RoundsCovered
    <3>3. QED
      BY <1>2, <3>1, <3>2
  <2>2. CASE stage' \notin Fanning
    <3>1. stage' # "settle" /\ (stage' = "ready" => active' = {})
      BY <1>2, <1>3, <2>2 DEF Early, Fanning
    <3>2. QED
      BY <2>2, <3>1 DEF RoundsCovered
  <2>3. QED
    BY <2>1, <2>2
<1>9. QED
  BY <1>4, <1>5, <1>7, <1>8 DEF FundsInv

\* The fan-out mines one block before the next attempt, or may have.
LEMMA MineForAnchorStep ==
  ASSUME FundingSteps, MineForAnchor, FundsInv
  PROVE  FundsInv'
<1>1. FundsOK /\ RoundsInOrder /\ PaidOnce /\ RoundsCovered
  BY DEF FundsInv
<1>2. stage = "anchor" /\ stage' \in {"send", "failed"} /\ UNCHANGED <<left, round>>
      /\ (Mine(1) \/ UNCHANGED <<height, mempool, paid>>)
  BY DEF MineForAnchor, MineOrNot, At, Goto, GiveUp, chainVars, mineVars, loopVars
<1>3. \A r \in PaidRounds \cup FanOuts : r < round
  BY <1>1, <1>2 DEF RoundsInOrder, Fanning
<1>4. \A r \in 1 .. round - 1 : r \in PaidRounds \cup FanOuts
  BY <1>1, <1>2 DEF RoundsCovered, Fanning
<1>5. /\ PaidRounds' \cup FanOuts' = PaidRounds \cup FanOuts /\ PaidOnce' /\ height' \in Nat
      /\ \A t \in mempool' : t.round \in Nat
      /\ \A x \in paid' : x.round \in Nat \ {0} /\ x.at \in 1 .. height'
  <2>1. CASE Mine(1)
    BY <1>1, <2>1, MinedRounds
  <2>2. CASE UNCHANGED <<height, mempool, paid>>
    <3>1. PaidRounds' = PaidRounds /\ FanOuts' = FanOuts
      BY <2>2 DEF PaidRounds, FanOuts
    <3>2. PaidOnce'
      BY <1>1, <2>2 DEF PaidOnce
    <3>3. QED
      BY <1>1, <2>2, <3>1, <3>2 DEF FundsOK
  <2>3. QED
    BY <1>2, <2>1, <2>2
<1>6. FundsOK'
  BY <1>1, <1>2, <1>5 DEF FundsOK, Fanning, Late
<1>7. round \in Nat
  BY <1>1 DEF FundsOK
<1>8. PaidRounds \cup FanOuts \subseteq Nat
  BY <1>1 DEF FundsOK, PaidRounds, FanOuts
<1>9. RoundsInOrder'
  BY <1>2, <1>3, <1>5, <1>7, <1>8 DEF RoundsInOrder, Early, Fanning
<1>10. RoundsCovered'
  BY <1>2, <1>4, <1>5 DEF RoundsCovered
<1>11. QED
  BY <1>5, <1>6, <1>9, <1>10 DEF FundsInv

\* Shielding is no fan-out, and comes before the first.
LEMMA ShieldDoneStep ==
  ASSUME FundingSteps, ShieldDone, FundsInv
  PROVE  FundsInv'
<1>1. FundsOK /\ RoundsInOrder /\ PaidOnce /\ RoundsCovered
  BY DEF FundsInv
<1>2. stage = "shieldWait" /\ stage' \in {"shieldMine", "failed"} /\ round' = round /\ left' \in Nat
  BY <1>1, Amounts DEF ShieldDone, At, Goto, GiveUp, Begin, mineVars, loopVars, FundsOK
<1>3. round = 1 /\ paid = {} /\ FanOuts = {} /\ PaidRounds = {}
  BY <1>1, <1>2 DEF RoundsInOrder, Early, PaidRounds
<1>4. /\ UNCHANGED <<height, paid>> /\ FanOuts' = {}
      /\ \A t \in mempool' : t.round \in Nat
  <2>1. CASE UNCHANGED chainVars
    BY <1>1, <1>3, <2>1 DEF chainVars, FundsOK, FanOuts
  <2>2. CASE Broadcast(0, "transparent", Mature, Fee)
    <3>1. 0 \notin PaidRounds
      BY <1>3
    <3>2. QED
      BY <1>1, <1>3, <2>2, <3>1, SentRounds
  <2>3. QED
    BY <2>1, <2>2 DEF ShieldDone
<1>5. FundsOK'
  BY <1>1, <1>2, <1>4 DEF FundsOK, Early, Late
<1>6. paid' = {} /\ PaidRounds' = {}
  BY <1>3, <1>4 DEF PaidRounds
<1>7. PaidOnce'
  BY <1>6 DEF PaidOnce
<1>8. RoundsInOrder'
  BY <1>2, <1>3, <1>4, <1>6 DEF RoundsInOrder
<1>9. RoundsCovered'
  BY <1>2 DEF RoundsCovered, Fanning
<1>10. QED
  BY <1>5, <1>7, <1>8, <1>9 DEF FundsInv

\* A round that may have been sent: setup gives up.
LEMMA UnknownSendStep ==
  ASSUME FundingSteps, SendLost \/ OperationLost, FundsInv
  PROVE  FundsInv'
<1>1. FundsOK /\ RoundsInOrder /\ PaidOnce /\ RoundsCovered
  BY DEF FundsInv
<1>2. /\ stage \in {"send", "await"} /\ stage' = "failed" /\ UNCHANGED <<left, round>>
      /\ \/ UNCHANGED <<height, mempool, paid>>
         \/ \E S \in Selections(Cost(round) + Fee) : Broadcast(round, "shielded", S, Cost(round) + Fee)
  BY DEF SendLost, OperationLost, At, GiveUp, chainVars, mineVars, loopVars
<1>3. \A r \in PaidRounds \cup FanOuts : r < round
  BY <1>1, <1>2 DEF RoundsInOrder, Fanning
<1>4. round \in Nat \ {0} /\ round \notin PaidRounds /\ PaidRounds \cup FanOuts \subseteq Nat
  BY <1>1, <1>3 DEF FundsOK, PaidRounds, FanOuts
<1>5. /\ UNCHANGED <<height, paid>> /\ PaidRounds' \cup FanOuts' \subseteq PaidRounds \cup FanOuts \cup {round}
      /\ \A t \in mempool' : t.round \in Nat
      /\ PaidOnce'
  <2>1. CASE UNCHANGED <<height, mempool, paid>>
    <3>1. PaidRounds' = PaidRounds /\ FanOuts' = FanOuts
      BY <2>1 DEF PaidRounds, FanOuts
    <3>2. PaidOnce'
      BY <1>1, <2>1 DEF PaidOnce
    <3>3. QED
      BY <1>1, <2>1, <3>1, <3>2 DEF FundsOK
  <2>2. ASSUME NEW S, Broadcast(round, "shielded", S, Cost(round) + Fee)
        PROVE  /\ UNCHANGED <<height, paid>> /\ PaidRounds' \cup FanOuts' \subseteq PaidRounds \cup FanOuts \cup {round}
               /\ \A t \in mempool' : t.round \in Nat
               /\ PaidOnce'
    BY <1>1, <1>4, <2>2, SentRounds
  <2>3. QED
    BY <1>2, <2>1, <2>2
<1>6. FundsOK'
  BY <1>1, <1>2, <1>5 DEF FundsOK, Late
<1>7. \A r \in PaidRounds' \cup FanOuts' : r <= round'
  BY <1>2, <1>3, <1>4, <1>5
<1>8. RoundsInOrder'
  BY <1>2, <1>7 DEF RoundsInOrder, Early, Fanning
<1>9. RoundsCovered'
  BY <1>2 DEF RoundsCovered, Fanning
<1>10. QED
  BY <1>5, <1>6, <1>8, <1>9 DEF FundsInv

\* A round is on its way: the next begins, or the blocks that bury the last.
LEMMA OperationSucceedsStep ==
  ASSUME FundingSteps, OperationSucceeds, FundsInv
  PROVE  FundsInv'
<1>1. FundsOK /\ RoundsInOrder /\ PaidOnce /\ RoundsCovered
  BY DEF FundsInv
<1>2. /\ stage = "await"
      /\ \/ round < Rounds /\ round' = round + 1 /\ stage' = "send" /\ left' = left
         \/ ~(round < Rounds) /\ round' = round /\ stage' = "settle" /\ left' = Anchor
  BY DEF OperationSucceeds, At, Goto, Begin, mineVars
<1>3. PICK S \in Selections(Cost(round) + Fee) : Broadcast(round, "shielded", S, Cost(round) + Fee)
  BY DEF OperationSucceeds
<1>4. \A r \in PaidRounds \cup FanOuts : r < round
  BY <1>1, <1>2 DEF RoundsInOrder, Fanning
<1>5. \A r \in 1 .. round - 1 : r \in PaidRounds \cup FanOuts
  BY <1>1, <1>2 DEF RoundsCovered, Fanning
<1>6. /\ round \in Nat \ {0} /\ round \notin PaidRounds /\ PaidRounds \cup FanOuts \subseteq Nat /\ height \in Nat /\ left \in Nat
      /\ \A x \in paid : x.at \in 1 .. height
  BY <1>1, <1>4 DEF FundsOK, PaidRounds, FanOuts
<1>7. /\ UNCHANGED <<height, paid>> /\ PaidRounds' = PaidRounds /\ FanOuts' = FanOuts \cup {round}
      /\ \A t \in mempool' : t.round \in Nat
      /\ PaidOnce'
  BY <1>1, <1>3, <1>6, SentRounds
<1>8. FundsOK'
  <2>1. round' \in Nat \ {0} /\ left' \in Nat
    BY <1>2, <1>6, Amounts
  <2>2. QED
    BY <1>1, <1>2, <1>7, <2>1 DEF FundsOK, Fanning, Late
<1>9. RoundsInOrder'
  <2>1. \A r \in PaidRounds' \cup FanOuts' : r <= round' /\ (round' = round + 1 => r < round')
    BY <1>2, <1>4, <1>6, <1>7
  <2>2. QED
    BY <1>2, <2>1 DEF RoundsInOrder, Early, Fanning
<1>10. Rounds' = Rounds /\ active' = active
  BY PlanKept
<1>11. \A r \in 1 .. round : r \in PaidRounds' \cup FanOuts'
  BY <1>5, <1>6, <1>7
<1>12. RoundsCovered'
  <2>1. CASE stage' = "send"
    <3>1. \A r \in 1 .. round' - 1 : r \in PaidRounds' \cup FanOuts'
      BY <1>2, <1>6, <1>11, <2>1
    <3>2. QED
      BY <2>1, <3>1 DEF RoundsCovered
  <2>2. CASE stage' = "settle"
    <3>1. left' = Anchor /\ round' = round /\ ~(round' < Rounds')
      BY <1>2, <1>10, <2>2
    <3>2. ASSUME NEW r \in 1 .. round, r \notin FanOuts'
          PROVE  \E x \in paid' : x.round = r /\ height' - x.at + 1 >= Anchor - left'
      <4>1. r \in PaidRounds
        BY <1>7, <1>11, <3>2
      <4>2. PICK x \in paid : x.round = r
        BY <4>1 DEF PaidRounds
      <4>3. height - x.at + 1 >= Anchor - left'
        BY <1>6, <3>1, Amounts
      <4>4. QED
        BY <1>7, <4>2, <4>3
    <3>3. left' \in 1 .. Anchor
      BY <3>1, Amounts
    <3>4. QED
      BY <2>2, <3>1, <3>2, <3>3 DEF RoundsCovered, Fanning
  <2>3. QED
    BY <1>2, <2>1, <2>2
<1>13. QED
  BY <1>7, <1>8, <1>9, <1>12 DEF FundsInv

LEMMA ChunkFits ==
  ASSUME left \in Nat
  PROVE  Chunk \in Nat /\ Chunk <= left /\ (left >= 1 => Chunk >= 1)
BY Amounts DEF Chunk

LEMMA ChunkMoves ==
  ASSUME GenerateInChunks
  PROVE  /\ UNCHANGED round
         /\ \/ Mine(Chunk) /\ left' = left - Chunk
               /\ \/ left' = 0 /\ stage' = AfterMining[stage]
                  \/ left' # 0 /\ stage' = stage
            \/ (Mine(Chunk) \/ UNCHANGED <<height, mempool, paid>>) /\ UNCHANGED left /\ stage' \in {stage, "failed"}
         /\ stage \in {"warmMine", "shieldMine", "topUp", "settle"}
BY MiningStages
   DEF GenerateInChunks, ChunkMined, ChunkLost, ChunkRefused, MineOrNot, Goto, Stay, GiveUp, chainVars, mineVars, loopVars

\* Before the fan-out, blocks find nothing of it to take.
LEMMA EarlyChunkStep ==
  ASSUME FundingSteps, GenerateInChunks, stage # "settle", FundsInv
  PROVE  FundsInv'
<1>1. FundsOK /\ RoundsInOrder /\ PaidOnce /\ RoundsCovered
  BY DEF FundsInv
<1>2. stage \in {"warmMine", "shieldMine", "topUp"} /\ round' = round
  BY ChunkMoves
<1>3. AfterMining[stage] \in {"probe", "check"}
  BY <1>2, MiningStages DEF AfterMining
<1>4. /\ stage' \in {"warmMine", "shieldMine", "topUp", "probe", "check", "failed"}
      /\ Mine(Chunk) \/ UNCHANGED <<height, mempool, paid>>
      /\ left' \in {left, left - Chunk}
  BY <1>2, <1>3, ChunkMoves
<1>5. left \in Nat /\ Chunk \in Nat /\ left' \in Nat
  <2>1. left \in Nat
    BY <1>1 DEF FundsOK
  <2>2. Chunk \in Nat /\ Chunk <= left
    BY <2>1, ChunkFits
  <2>3. QED
    BY <1>4, <2>1, <2>2
<1>6. round = 1 /\ paid = {} /\ FanOuts = {} /\ PaidRounds = {}
  BY <1>1, <1>2 DEF RoundsInOrder, Early, PaidRounds
<1>7. /\ PaidRounds' = {} /\ FanOuts' = {} /\ PaidOnce' /\ height' \in Nat
      /\ \A t \in mempool' : t.round \in Nat
      /\ \A x \in paid' : x.round \in Nat \ {0} /\ x.at \in 1 .. height'
  <2>1. CASE Mine(Chunk)
    BY <1>1, <1>5, <1>6, <2>1, MinedRounds
  <2>2. CASE UNCHANGED <<height, mempool, paid>>
    <3>1. PaidRounds' = PaidRounds /\ FanOuts' = FanOuts
      BY <2>2 DEF PaidRounds, FanOuts
    <3>2. PaidOnce'
      BY <1>1, <2>2 DEF PaidOnce
    <3>3. QED
      BY <1>1, <1>6, <2>2, <3>1, <3>2 DEF FundsOK
  <2>3. QED
    BY <1>4, <2>1, <2>2
<1>8. FundsOK'
  BY <1>1, <1>2, <1>4, <1>5, <1>7 DEF FundsOK, Early, Late
<1>9. paid' = {}
  BY <1>7 DEF PaidRounds
<1>10. RoundsInOrder'
  BY <1>2, <1>6, <1>7, <1>9 DEF RoundsInOrder
<1>11. RoundsCovered'
  BY <1>4 DEF RoundsCovered, Fanning
<1>12. QED
  BY <1>7, <1>8, <1>10, <1>11 DEF FundsInv

\* After it, each block that setup counts buries every round by one more.
LEMMA SettleChunkStep ==
  ASSUME FundingSteps, GenerateInChunks, stage = "settle", FundsInv
  PROVE  FundsInv'
<1>1. FundsOK /\ RoundsInOrder /\ PaidOnce /\ RoundsCovered
  BY DEF FundsInv
<1>2. round' = round /\ AfterMining[stage] = "ready"
  BY ChunkMoves, MiningStages DEF AfterMining
<1>3. /\ left \in Nat /\ left \in 1 .. Anchor /\ height \in Nat /\ round \in Nat \ {0}
      /\ \A x \in paid : x.at \in 1 .. height
  BY <1>1 DEF FundsOK, RoundsCovered
<1>4. Chunk \in Nat /\ Chunk >= 1 /\ Chunk <= left
  BY <1>3, ChunkFits, Amounts
<1>5. \/ Mine(Chunk) /\ left' = left - Chunk /\ ((left' = 0 /\ stage' = "ready") \/ (left' # 0 /\ stage' = "settle"))
      \/ (Mine(Chunk) \/ UNCHANGED <<height, mempool, paid>>) /\ left' = left /\ stage' \in {"settle", "failed"}
  <2>1. \/ Mine(Chunk) /\ left' = left - Chunk
            /\ \/ left' = 0 /\ stage' = AfterMining[stage]
               \/ left' # 0 /\ stage' = stage
        \/ (Mine(Chunk) \/ UNCHANGED <<height, mempool, paid>>) /\ UNCHANGED left /\ stage' \in {stage, "failed"}
    BY ChunkMoves
  <2>2. stage = "settle"
    OBVIOUS
  <2>3. QED
    <3>1. CASE Mine(Chunk) /\ left' = left - Chunk
                 /\ ((left' = 0 /\ stage' = AfterMining[stage]) \/ (left' # 0 /\ stage' = stage))
      BY <1>2, <2>2, <3>1, Zenon
    <3>2. CASE (Mine(Chunk) \/ UNCHANGED <<height, mempool, paid>>) /\ UNCHANGED left /\ stage' \in {stage, "failed"}
      BY <2>2, <3>2, Zenon
    <3>3. QED
      BY <2>1, <3>1, <3>2, Zenon
<1>6. ~(round < Rounds) /\ Rounds' = Rounds
  BY <1>1, PlanKept DEF RoundsCovered
<1>7. \A r \in 1 .. round :
        \/ r \in FanOuts /\ left = Anchor
        \/ \E x \in paid : x.round = r /\ height - x.at + 1 >= Anchor - left
  BY <1>1 DEF RoundsCovered
<1>8. \A r \in PaidRounds \cup FanOuts : r <= round
  BY <1>1 DEF RoundsInOrder
<1>9. CASE Mine(Chunk)
  <2>1. /\ height' = height + Chunk /\ height' \in Nat
        /\ paid \subseteq paid' /\ FanOuts' = {} /\ mempool' = {}
        /\ PaidRounds' = PaidRounds \cup FanOuts
        /\ \A r \in FanOuts : \E x \in paid' : x.round = r /\ x.at = height + 1
        /\ \A x \in paid' : x.round \in Nat \ {0} /\ x.at \in 1 .. height'
        /\ PaidOnce'
    BY <1>1, <1>4, <1>9, MinedRounds
  <2>2. left' \in Nat /\ left' <= Anchor /\ left' >= left - Chunk /\ stage' \in {"settle", "ready", "failed"}
        /\ (stage' = "settle" => left' >= 1) /\ (stage' = "ready" => left' = 0)
    BY <1>3, <1>4, <1>5, Amounts
  <2>3. FundsOK'
    BY <1>1, <1>2, <2>1, <2>2 DEF FundsOK, Late
  <2>4. RoundsInOrder'
    BY <1>2, <1>8, <2>1, <2>2 DEF RoundsInOrder, Early, Fanning
  <2>5. ASSUME NEW r \in 1 .. round
        PROVE  \E x \in paid' : x.round = r /\ height' - x.at + 1 >= Anchor - left'
    <3>1. CASE r \in FanOuts /\ left = Anchor
      <4>1. PICK x \in paid' : x.round = r /\ x.at = height + 1
        BY <2>1, <3>1
      <4>2. height' - x.at + 1 >= Anchor - left'
        <5>1. height' = height + Chunk /\ left' >= Anchor - Chunk /\ x.at = height + 1
          BY <2>1, <2>2, <3>1, <4>1
        <5>2. height \in Nat /\ Chunk \in Nat /\ left' \in Nat /\ Anchor \in Nat
          BY <1>3, <1>4, <2>2, Amounts
        <5>3. height' - x.at + 1 = Chunk
          BY <5>1, <5>2
        <5>4. \A l, a, c \in Nat : l >= a - c => a - l <= c
          OBVIOUS
        <5>5. Anchor - left' <= Chunk
          BY <5>1, <5>2, <5>4
        <5>6. QED
          BY <5>2, <5>3, <5>5
      <4>3. QED
        BY <4>1, <4>2
    <3>2. CASE \E x \in paid : x.round = r /\ height - x.at + 1 >= Anchor - left
      <4>1. PICK x \in paid : x.round = r /\ height - x.at + 1 >= Anchor - left
        BY <3>2
      <4>2. x.at \in Nat
        BY <1>3
      <4>3. height' - x.at + 1 >= Anchor - left'
        BY <1>3, <1>4, <2>1, <2>2, <4>1, <4>2, Amounts
      <4>4. QED
        BY <2>1, <4>1, <4>3
    <3>3. QED
      BY <1>7, <3>1, <3>2
  <2>6. stage' = "settle" => left' \in 1 .. Anchor
    BY <2>2
  <2>7. stage' = "ready" => Anchor - left' = Anchor
    BY <2>2, Amounts
  <2>8. RoundsCovered'
    <3>1. CASE stage' = "settle"
      BY <1>2, <1>6, <2>5, <2>6, <3>1 DEF RoundsCovered, Fanning
    <3>2. CASE stage' = "ready"
      <4>1. \A r \in 1 .. round : \E x \in paid' : x.round = r /\ height' - x.at + 1 >= Anchor - 0
        BY <2>2, <2>5, <3>2
      <4>2. QED
        BY <1>2, <1>6, <3>2, <4>1 DEF RoundsCovered, Fanning
    <3>3. CASE stage' = "failed"
      BY <3>3 DEF RoundsCovered, Fanning
    <3>4. QED
      BY <2>2, <3>1, <3>2, <3>3
  <2>9. QED
    BY <2>1, <2>3, <2>4, <2>8 DEF FundsInv
<1>10. CASE UNCHANGED <<height, mempool, paid>> /\ left' = left /\ stage' \in {"settle", "failed"}
  <2>1. PaidRounds' = PaidRounds /\ FanOuts' = FanOuts
    BY <1>10 DEF PaidRounds, FanOuts
  <2>2. PaidOnce'
    BY <1>1, <1>10 DEF PaidOnce
  <2>3. FundsOK'
    BY <1>1, <1>2, <1>10 DEF FundsOK, Late
  <2>4. RoundsInOrder'
    BY <1>2, <1>8, <1>10, <2>1 DEF RoundsInOrder, Early, Fanning
  <2>5. RoundsCovered'
    <3>1. CASE stage' = "settle"
      BY <1>2, <1>3, <1>6, <1>7, <1>10, <2>1, <3>1 DEF RoundsCovered, Fanning
    <3>2. CASE stage' = "failed"
      BY <3>2 DEF RoundsCovered, Fanning
    <3>3. QED
      BY <1>10, <3>1, <3>2
  <2>6. QED
    BY <2>2, <2>3, <2>4, <2>5 DEF FundsInv
<1>11. QED
  BY <1>5, <1>9, <1>10

LEMMA FundsStep ==
  ASSUME Next, FundsInv
  PROVE  FundsInv'
<1>1. CASE FundingSteps
  <2>1. FundNext
    BY <1>1 DEF FundingSteps
  <2>2. CASE GenerateInChunks
    BY <1>1, <2>2, EarlyChunkStep, SettleChunkStep
  <2>3. CASE Quiet
    BY <1>1, <2>3, QuietStep
  <2>4. CASE MineForAnchor
    BY <1>1, <2>4, MineForAnchorStep
  <2>5. CASE ShieldDone
    BY <1>1, <2>5, ShieldDoneStep
  <2>6. CASE SendLost \/ OperationLost
    BY <1>1, <2>6, UnknownSendStep
  <2>7. CASE OperationSucceeds
    BY <1>1, <2>7, OperationSucceedsStep
  <2>8. QED
    BY <2>1, <2>2, <2>3, <2>4, <2>5, <2>6, <2>7 DEF FundNext, FundAccounts, SendWithAnchorRetries, WaitOperation, Quiet
<1>2. CASE Validating \/ Provisioning \/ Dispatching
  BY <1>2, OthersStep
<1>3. QED
  BY <1>1, <1>2 DEF Next

-----------------------------------------------------------------------------
(* The invariant. *)

LEMMA AccountsStep ==
  ASSUME Next, AccountsInv
  PROVE  AccountsInv'
<1>1. CASE Provisioning
  BY <1>1, AccountsOKStep, WalletKeptStep, HotKeptStep, OneHotWalletStep, CreatedIsOwnStep DEF AccountsInv
<1>2. CASE Validating \/ FundingSteps \/ Dispatching
  <2>1. UNCHANGED <<scenario, wallet, hot, task, given, active, uuidOf, entry>> /\ (Resolving' => Resolving)
    BY <1>2, Elsewhere DEF provVars
  <2>2. AccountsOK /\ WalletKept /\ HotKept /\ OneHotWallet /\ CreatedIsOwn
    BY DEF AccountsInv
  <2>3. Population' = Population /\ Named(HotName)' = Named(HotName)
    BY <2>1 DEF Population, Named
  <2>4. AccountsOK'
    BY <2>1, <2>2, <2>3 DEF AccountsOK
  <2>5. WalletKept' /\ HotKept'
    BY <2>1, <2>2 DEF WalletKept, HotKept, Resolving
  <2>6. OneHotWallet'
    BY <2>1, <2>2, <2>3 DEF OneHotWallet
  <2>7. CreatedIsOwn'
    BY <2>1, <2>2, <2>3 DEF CreatedIsOwn, Resolving
  <2>8. QED
    BY <2>4, <2>5, <2>6, <2>7 DEF AccountsInv
<1>3. QED
  BY <1>1, <1>2 DEF Next

LEMMA InitIInv == Init => IInv
<1> SUFFICES ASSUME Init
             PROVE  IInv
  OBVIOUS
<1>1. /\ stage = "validate" /\ scenario \in Scenarios /\ wallet = Wallet0 /\ hot = Nobody /\ given \in HotUuids /\ active = {}
      /\ task = [a \in Population |-> "new"] /\ uuidOf = [a \in Population |-> Nobody]
      /\ entry = [a \in Population |-> Nobody]
  BY DEF Init, ProvInit
<1>2. height = 0 /\ mempool = {} /\ paid = {} /\ left = scenario.warmup /\ round = 1
  BY DEF Init, FundInit
<1>3. scenario.warmup \in Nat /\ given \in Nat
  BY <1>1, ScenarioAssumption, ProvisionAssumption DEF ScenarioConfig
<1>4. AccountsOK
  BY <1>1, <1>3, LeftBehind DEF AccountsOK, Tasks, Nobody
<1>5. WalletKept
  BY <1>1, LeftBehind DEF WalletKept
<1>6. HotKept
  BY <1>1 DEF HotKept
<1>7. OneHotWallet
  BY <1>1 DEF OneHotWallet, Named, HotBefore
<1>8. CreatedIsOwn
  BY <1>1 DEF CreatedIsOwn
<1>9. FundsOK
  BY <1>1, <1>2, <1>3 DEF FundsOK, Early
<1>10. FanOuts = {} /\ PaidRounds = {}
  BY <1>2 DEF FanOuts, PaidRounds
<1>11. RoundsInOrder /\ PaidOnce /\ RoundsCovered
  BY <1>1, <1>2, <1>10 DEF RoundsInOrder, PaidOnce, RoundsCovered, Early, Fanning
<1>12. QED
  BY <1>4, <1>5, <1>6, <1>7, <1>8, <1>9, <1>11 DEF IInv, AccountsInv, FundsInv

LEMMA NextIInv == IInv /\ [Next]_vars => IInv'
<1> SUFFICES ASSUME IInv, [Next]_vars
             PROVE  IInv'
  OBVIOUS
<1>1. CASE Next
  BY <1>1, AccountsStep, FundsStep DEF IInv
<1>2. CASE UNCHANGED vars
  <2>1. UNCHANGED <<stage, scenario, provVars, fundVars>>
    BY <1>2 DEF vars
  <2>2. AccountsInv'
    BY <2>1 DEF IInv, AccountsInv, AccountsOK, WalletKept, HotKept, OneHotWallet, CreatedIsOwn, Named, Population, provVars
  <2>3. UNCHANGED <<stage, height, mempool, paid, left, round, active, scenario>>
    BY <2>1 DEF fundVars, chainVars, mineVars, loopVars, provVars
  <2>4. FanOuts' = FanOuts /\ PaidRounds' = PaidRounds /\ Plan' = Plan
    BY <2>3 DEF FanOuts, PaidRounds, Plan
  <2>5. FundsOK' /\ PaidOnce' /\ RoundsInOrder' /\ Rounds' = Rounds
    BY <2>3, <2>4 DEF IInv, FundsInv, FundsOK, PaidOnce, RoundsInOrder, Rounds
  <2>6. RoundsCovered'
    BY <2>3, <2>4, <2>5 DEF IInv, FundsInv, RoundsCovered
  <2>7. QED
    BY <2>2, <2>5, <2>6 DEF IInv, FundsInv
<1>3. QED
  BY <1>1, <1>2

\* The inductive invariant holds in every reachable state: what the accounts of a run are,
\* through the resolution of the hot wallet, the creations and the reads of provision, and
\* which rounds of the fan-out are paid, on their way, or still to come.
THEOREM Invariance == Spec => []IInv
BY InitIInv, NextIInv, PTL DEF Spec

\* The hot wallet's accounts and those of the population, whatever earlier runs left: when
\* provision is done each account of the population has one that this run created for it
\* and that nothing else uses, the hot wallet included, and resolving the hot wallet again
\* after a lost call never leaves a second account of its name (provisioner.rs, funding.rs).
THEOREM OwnSafety == Spec => []OwnAccounts
<1>1. IInv => OwnAccounts
  <2> SUFFICES ASSUME AccountsInv
               PROVE  OwnAccounts
    BY DEF IInv
  <2>1. AccountsOK /\ WalletKept /\ HotKept /\ OneHotWallet /\ CreatedIsOwn
    BY DEF AccountsInv
  <2>2. (\A a \in Population : a # HotName) /\ hot \in Nat
    BY <2>1, PopulationNamed DEF AccountsOK
  <2>3. Len(Wallet0) \in Nat /\ DOMAIN Wallet0 = 1 .. Len(Wallet0)
    BY LeftBehind
  <2>4. Len(wallet) \in Nat /\ DOMAIN wallet = 1 .. Len(wallet)
    BY <2>1, LenProperties DEF AccountsOK
  <2>5. ASSUME \A a \in Population : task[a] = "read"
        PROVE  \A a \in Population : entry[a] \in DOMAIN wallet /\ entry[a] > Len(Wallet0) /\ wallet[entry[a]] = a
    BY <2>1, <2>5 DEF CreatedIsOwn
  <2>6. ASSUME NEW a \in Population, entry[a] \in DOMAIN wallet, entry[a] > Len(Wallet0), wallet[entry[a]] = a
        PROVE  entry[a] # hot
    <3>1. CASE hot = Nobody
      BY <2>3, <2>4, <2>6, <3>1 DEF Nobody
    <3>2. CASE hot # Nobody /\ given = Nobody
      BY <2>1, <2>2, <2>6, <3>2 DEF HotKept
    <3>3. CASE hot # Nobody /\ given # Nobody
      <4>1. hot \in DOMAIN Wallet0
        BY <2>1, <3>3 DEF HotKept
      <4>2. QED
        BY <2>3, <2>4, <2>6, <4>1
    <3>4. QED
      BY <3>1, <3>2, <3>3
  <2>7. Cardinality(Named(HotName)) <= MaxOf(1, Cardinality(HotBefore))
    <3>1. IsFiniteSet(HotBefore) /\ Cardinality(HotBefore) \in Nat
      <4>1. IsFiniteSet(DOMAIN Wallet0) /\ HotBefore \subseteq DOMAIN Wallet0
        BY <2>3, FS_Interval DEF HotBefore
      <4>2. IsFiniteSet(HotBefore)
        BY <4>1, FS_Subset
      <4>3. QED
        BY <4>2, FS_CardinalityType
    <3>2. CASE Named(HotName) = HotBefore
      BY <3>1, <3>2 DEF MaxOf
    <3>3. CASE \E u \in DOMAIN wallet : Named(HotName) = {u}
      <4>1. Cardinality(Named(HotName)) = 1
        BY <3>3, FS_Singleton
      <4>2. QED
        BY <3>1, <4>1 DEF MaxOf
    <3>4. QED
      BY <2>1, <3>2, <3>3 DEF OneHotWallet
  <2>8. QED
    BY <2>5, <2>6, <2>7 DEF OwnAccounts, HotBefore
<1>2. QED
  BY <1>1, Invariance, PTL

\* No round of the fan-out is paid twice, nor is one that was paid still on its way to be:
\* a send whose answer is lost, an operation that times out and a block that is mined for
\* the next attempt never make the fan-out repeat a round (send_with_anchor_retries and
\* wait_operation in funding.rs), for any number of such calls.
THEOREM PaySafety == Spec => []PaidOnce
<1>1. IInv => PaidOnce
  BY DEF IInv, FundsInv
<1>2. QED
  BY <1>1, Invariance, PTL

-----------------------------------------------------------------------------
(* The plan. *)

LEMMA ActiveIsFinite ==
  ASSUME AccountsOK
  PROVE  IsFiniteSet(active) /\ Cardinality(active) \in Nat
<1>1. scenario.accounts \in Nat
  BY ScenarioAssumption DEF AccountsOK, ScenarioConfig
<1>2. IsFiniteSet(1 .. scenario.accounts)
  BY <1>1, FS_Interval
<1> DEFINE draw == [k \in 1 .. scenario.accounts |-> AccountIds[k]]
<1>3. draw \in Surjection(1 .. scenario.accounts, Population)
  BY DEF Surjection, Population
<1> HIDE DEF draw
<1>4. IsFiniteSet(Population)
  BY <1>2, <1>3, FS_Surjection
<1>5. IsFiniteSet(active)
  BY <1>4, FS_Subset DEF AccountsOK
<1>6. QED
  BY <1>5, FS_CardinalityType

\* Rounding up stays with the integers.
LEMMA CeilDivType ==
  ASSUME NEW n \in Int, NEW d \in Nat, d >= 1
  PROVE  CeilDiv(n, d) \in Int
BY DEF CeilDiv

LEMMA RoundsAreThePlan ==
  ASSUME AccountsOK
  PROVE  Plan.outputs \in Nat /\ Plan.outputs >= 1 /\ Rounds = Plan.outputs
<1>1. scenario.rate \in Int /\ scenario.duration \in Nat /\ Second \in Nat /\ Second >= 1
  BY ScenarioAssumption DEF AccountsOK, ScenarioConfig
<1>2. scenario.rate * scenario.duration \in Int
  BY <1>1
<1>3. ExpectedIntents(scenario) \in Int
  BY <1>1, <1>2, CeilDivType DEF ExpectedIntents
<1> DEFINE accounts == MaxOf(Cardinality(active), 1)
           each == CeilDiv(ExpectedIntents(scenario), accounts)
<1>4. accounts \in Nat /\ accounts >= 1
  BY ActiveIsFinite DEF MaxOf
<1> HIDE DEF accounts
<1>5. each \in Int
  BY <1>3, <1>4, CeilDivType
<1>6. Plan.outputs = MaxOf(each, 1)
  BY DEF Plan, ComputePlan, accounts
<1> HIDE DEF each
<1>7. Plan.outputs \in Nat /\ Plan.outputs >= 1
  BY <1>5, <1>6 DEF MaxOf
<1>8. QED
  BY <1>7 DEF Rounds, MaxOf

\* When the load phase begins and there is an active account, every round that the plan
\* has was mined Anchor blocks deep, and the address that an intent of any flow names as
\* its sender is one that a round paid (fund_accounts and generate_in_chunks, against the
\* pools of generators.rs), whatever was lost, refused or mined twice before.
THEOREM SinkSafety == Spec => []SinksFunded
<1>1. IInv => SinksFunded
  <2> SUFFICES ASSUME IInv, stage = "ready", active # {}
               PROVE  LET deep == {x.round : x \in {y \in paid : Deep(y.at, Anchor)}}
                          reached == UNION {Recipients(r) : r \in deep}
                      IN /\ 1 .. Plan.outputs \subseteq deep
                         /\ \A a \in active, flow \in Flows : AddressOf(a, flow, "sender") \in reached
    BY DEF SinksFunded
  <2> DEFINE deep == {x.round : x \in {y \in paid : Deep(y.at, Anchor)}}
             reached == UNION {Recipients(r) : r \in deep}
  <2>1. AccountsOK /\ FundsOK /\ RoundsCovered
    BY DEF IInv, AccountsInv, FundsInv
  <2>2. Plan.outputs \in Nat /\ Plan.outputs >= 1 /\ Rounds = Plan.outputs
    BY <2>1, RoundsAreThePlan
  <2>3. round \in Nat /\ height \in Nat /\ \A x \in paid : x.at \in 1 .. height
    BY <2>1 DEF FundsOK
  <2>4. /\ ~(round < Rounds)
        /\ \A r \in 1 .. round : \E x \in paid : x.round = r /\ height - x.at + 1 >= Anchor - 0
    BY <2>1 DEF RoundsCovered
  <2>5. ASSUME NEW r \in 1 .. Plan.outputs
        PROVE  r \in deep
    <3>1. r \in 1 .. round
      BY <2>2, <2>3, <2>4
    <3>2. PICK x \in paid : x.round = r /\ height - x.at + 1 >= Anchor - 0
      BY <2>4, <3>1
    <3>3. Deep(x.at, Anchor)
      BY <2>3, <3>2, Amounts DEF Deep
    <3>4. QED
      BY <3>2, <3>3
  <2>6. 1 \in deep
    BY <2>2, <2>5
  <2>7. ASSUME NEW a \in active, NEW flow \in Flows
        PROVE  AddressOf(a, flow, "sender") \in reached
    <3>1. AddressOf(a, flow, "sender") \in Recipients(1)
      BY <2>2 DEF AddressOf, SidePool, Recipients
    <3>2. QED
      BY <2>6, <3>1
  <2>8. QED
    BY <2>5, <2>7
<1>2. QED
  BY <1>1, Invariance, PTL

-----------------------------------------------------------------------------
(***************************************************************************)
(* Last of the dispatch loop: where its time has got to, and how many      *)
(* intents it has dispatched by then.                                      *)
(***************************************************************************)

Dispatch == {"load", "drain"}
Constant == shape.kind \in {"steady", "mixed"}

PaceOK ==
  /\ now \in Nat /\ lag \in Nat /\ dispatched \in Nat /\ lag <= now
  /\ stage \notin Dispatch => now = 0 /\ lag = 0 /\ dispatched = 0
  /\ stage \in Dispatch => shape \in Shapes /\ Accepted(shape)

\* What was valid stays so, and the generators take it.
StaysValid ==
  /\ stage \notin {"validate", "failed"} => Violations(scenario) = {}
  /\ ~(stage = "failed" /\ cause = "ready")

\* The first wait is that of the primed ticker, and the last one began in the window.
Waited ==
  stage \in Dispatch =>
    /\ now = 0 => dispatched = 0 /\ lag = 0
    /\ now # 0 => /\ now >= Period(InitialTps)
                  /\ now - lag < scenario.duration + LongestWait

\* At a constant rate the loop keeps step, but for what it is late.
InStep ==
  (stage \in Dispatch /\ Constant /\ Cardinality(active) >= 2) =>
    now = dispatched * Period(Times(1, 1)) + lag

\* No shape but the burst is faster than the target.
OnTarget ==
  (stage \in Dispatch /\ shape.kind # "burst" /\ AboveFloor(Times(1, 1))) =>
    /\ Second * dispatched <= scenario.rate * now
    /\ dispatched <= ExpectedIntents(scenario)
    /\ active = {} => dispatched = 0

\* The one wait that may be too short is the first one of a ramp, or the one a spike ends in
\* or a lull begins in.
Bend == IF shape.multiplier >= Whole THEN shape.pre + shape.burst ELSE shape.pre
OnCurve ==
  (stage \in Dispatch /\ now # 0 /\ \A tps \in Rates : AboveFloor(tps)) =>
    /\ Unit * dispatched <= AskedFor + Unit
    /\ shape.kind = "burst" /\ now < Bend => Unit * dispatched <= AskedFor

PaceInv == PaceOK /\ StaysValid /\ Waited /\ InStep /\ OnTarget /\ OnCurve

\* Rounded up, a quotient covers its dividend, and one less does not.
LEMMA CeilDivCovers ==
  ASSUME NEW n \in Nat, NEW d \in Nat, d >= 1
  PROVE  /\ CeilDiv(n, d) \in Nat /\ CeilDiv(n, d) * d >= n
         /\ (CeilDiv(n, d) - 1) * d < n
<1> DEFINE m == n + d - 1
           q == m \div d
           r == m % d
<1>1. m \in Nat
  OBVIOUS
<1>2. q \in Int /\ r \in 0 .. d - 1 /\ m = d * q + r
  BY <1>1
<1> HIDE DEF q, r
<1>3. q * d = n + d - 1 - r
  BY <1>2
<1>4. q * d >= n /\ (q - 1) * d < n
  BY <1>2, <1>3
<1>5. q >= 0
  BY <1>2, <1>4
<1>6. QED
  BY <1>2, <1>4, <1>5 DEF CeilDiv, q

\* Where the floor raises no rate, a wait is long enough for one intent at the rate it
\* begins at.
LEMMA WaitCovers ==
  ASSUME NEW n \in Nat, NEW d \in Nat, d >= 1
  PROVE  /\ Period([n |-> n, d |-> d]) \in Nat /\ Period([n |-> n, d |-> d]) >= 1
         /\ Period([n |-> n, d |-> d]) <= Slowest
         /\ AboveFloor([n |-> n, d |-> d]) => Period([n |-> n, d |-> d]) * n >= Second * d
<1> DEFINE a == Second * d
<1>1. Second \in Nat /\ Second >= 1 /\ Slowest \in Nat /\ Slowest >= 1
  BY ScenarioAssumption, PacingAssumption
<1>2. a \in Nat /\ a >= 1
  BY <1>1
<1> HIDE DEF a
<1>3. CASE n * Slowest <= a
  <2>1. Period([n |-> n, d |-> d]) = Slowest
    BY <1>3 DEF Period, a
  <2>2. AboveFloor([n |-> n, d |-> d]) => Slowest * n >= a
    BY <1>1 DEF AboveFloor, a
  <2>3. QED
    BY <1>1, <2>1, <2>2 DEF a
<1>4. CASE ~(n * Slowest <= a)
  <2>1. Period([n |-> n, d |-> d]) = CeilDiv(a, n)
    BY <1>4 DEF Period, a
  <2>2. n >= 1 /\ n * Slowest > a
    BY <1>1, <1>2, <1>4
  <2>3. CeilDiv(a, n) \in Nat /\ CeilDiv(a, n) * n >= a /\ (CeilDiv(a, n) - 1) * n < a
    BY <1>2, <2>2, CeilDivCovers
  <2> DEFINE p == CeilDiv(a, n)
  <2> HIDE DEF p
  <2>4. p \in Nat /\ p * n >= a /\ (p - 1) * n < n * Slowest
    BY <1>1, <1>2, <2>2, <2>3 DEF p
  <2>5. p >= 1 /\ p - 1 < Slowest
    BY <1>1, <1>2, <2>2, <2>4
  <2>6. QED
    BY <1>1, <2>1, <2>4, <2>5 DEF a, p
<1>5. QED
  BY <1>3, <1>4

-----------------------------------------------------------------------------
(* The curve of a shape, as a function of time. *)

Ramped(x, R) == LET m == IF x < R THEN x ELSE R IN m * m + 2 * R * (x - m)
Spiked(x, lo, hi) == MaxOf(0, (IF x < hi THEN x ELSE hi) - lo)
AskedAt(x) ==
  IF shape.kind = "ramp" /\ shape.ramp > 0 THEN scenario.rate * Whole * Ramped(x, shape.ramp)
  ELSE IF shape.kind = "burst"
  THEN LET spike == Spiked(x, shape.pre, shape.pre + shape.burst)
       IN 2 * scenario.rate * (Whole * (x - spike) + shape.multiplier * spike)
  ELSE 2 * scenario.rate * Whole * x

\* The area under a ramp grows at least as fast as at the beginning of the interval.
LEMMA RampGrows ==
  ASSUME NEW R \in Nat, NEW t \in Nat, NEW u \in Nat, t <= u
  PROVE  /\ Ramped(t, R) \in Nat /\ Ramped(u, R) \in Nat
         /\ t < R => Ramped(u, R) >= Ramped(t, R) + 2 * (t * (u - t))
         /\ t >= R => Ramped(u, R) = Ramped(t, R) + 2 * (R * (u - t))
<1>1. CASE u < R
  <2>1. Ramped(t, R) = t * t /\ Ramped(u, R) = u * u
    BY <1>1 DEF Ramped
  <2>2. u * u = t * t + (u - t) * (u + t)
    OBVIOUS
  <2>3. (u - t) * (u + t) = (u - t) * (u - t) + 2 * (t * (u - t))
    OBVIOUS
  <2>4. (u - t) * (u - t) >= 0 /\ t * t \in Nat /\ u * u \in Nat
    OBVIOUS
  <2>5. QED
    BY <1>1, <2>1, <2>2, <2>3, <2>4
<1>2. CASE u >= R /\ t < R
  <2>1. Ramped(t, R) = t * t /\ Ramped(u, R) = R * R + 2 * R * (u - R)
    BY <1>2 DEF Ramped
  <2>2. (R - t) * (R - t) >= 0 /\ (R - t) * (u - R) >= 0 /\ t * t \in Nat /\ R * R \in Nat
    BY <1>2
  <2>3. R * R + 2 * R * (u - R) = t * t + 2 * (t * (u - t)) + (R - t) * (R - t) + 2 * ((R - t) * (u - R))
    OBVIOUS
  <2>4. t * (u - t) \in Nat /\ (R - t) * (R - t) \in Int /\ (R - t) * (u - R) \in Int
    OBVIOUS
  <2>5. QED
    BY <1>2, <2>1, <2>2, <2>3, <2>4
<1>3. CASE t >= R
  <2>1. Ramped(t, R) = R * R + 2 * R * (t - R) /\ Ramped(u, R) = R * R + 2 * R * (u - R)
    BY <1>3 DEF Ramped
  <2>2. 2 * R * (u - R) = 2 * R * (t - R) + 2 * (R * (u - t))
    OBVIOUS
  <2>3. R * R \in Nat /\ R * (t - R) \in Nat /\ R * (u - t) \in Nat
    BY <1>3
  <2>4. QED
    BY <1>3, <2>1, <2>2, <2>3
<1>4. QED
  BY <1>1, <1>2, <1>3

\* How much of an interval lies in the spike.
LEMMA SpikeGrows ==
  ASSUME NEW lo \in Nat, NEW hi \in Nat, lo <= hi, NEW t \in Nat, NEW u \in Nat, t <= u
  PROVE  /\ Spiked(t, lo, hi) \in 0 .. t /\ Spiked(u, lo, hi) \in 0 .. u
         /\ Spiked(u, lo, hi) - Spiked(t, lo, hi) \in 0 .. u - t
         /\ t >= lo /\ u <= hi => Spiked(u, lo, hi) - Spiked(t, lo, hi) = u - t
         /\ u <= lo \/ t >= hi => Spiked(u, lo, hi) = Spiked(t, lo, hi)
BY DEF Spiked, MaxOf

\* The area under a spike, or a lull, for the two slopes it has.
LEMMA BurstGrows ==
  ASSUME NEW W \in Nat, NEW m \in Nat, NEW x \in Nat, NEW y \in Nat, NEW s \in 0 .. x,
         NEW z \in 0 .. y, x <= y, z - s \in 0 .. y - x
  PROVE  /\ W * (x - s) + m * s \in Nat /\ W * (y - z) + m * z \in Nat
         /\ W * (y - z) + m * z >= W * (x - s) + m * s
         /\ m < W \/ z - s = y - x =>
              W * (y - z) + m * z >= W * (x - s) + m * s + m * (y - x)
         /\ m >= W \/ z = s =>
              W * (y - z) + m * z >= W * (x - s) + m * s + W * (y - x)
<1> DEFINE D == z - s
           E == (y - x) - D
<1>1. D \in Nat /\ E \in Nat /\ z = s + D /\ y - z = (x - s) + E /\ x - s \in Nat
  OBVIOUS
<1> HIDE DEF D, E
<1>2. W * (y - z) = W * (x - s) + W * E /\ m * z = m * s + m * D
  BY <1>1
<1>3. W * E \in Nat /\ m * D \in Nat /\ m * s \in Nat /\ W * (x - s) \in Nat /\ m * E \in Nat /\ W * D \in Nat
  BY <1>1
<1>4. m * (y - x) = m * D + m * E /\ W * (y - x) = W * D + W * E
  BY <1>1 DEF E
<1>5. (m < W => m * E <= W * E) /\ (m >= W => W * D <= m * D)
  BY <1>1
<1>6. (z - s = y - x => E = 0) /\ (z = s => D = 0)
  BY DEF D, E
<1>7. (E = 0 => m * E = 0) /\ (D = 0 => W * D = 0)
  OBVIOUS
<1>8. QED
  BY <1>2, <1>3, <1>4, <1>5, <1>6, <1>7

\* The sum of four weights, whichever way the fold goes through them.
LEMMA TotalIsSum ==
  ASSUME NEW w \in [Flows -> Int]
  PROVE  Total(w) = w["TToT"] + w["TToZ"] + w["ZToT"] + w["ZToZ"]
<1> DEFINE x(s) == CHOOSE f \in s : TRUE
           Sums(g) == g = [s \in SUBSET Flows |-> IF s = {} THEN 0 ELSE w[x(s)] + g[s \ {x(s)}]]
           iter == CHOOSE g : Sums(g)
           part(s, f) == IF f \in s THEN w[f] ELSE 0
           sum == [s \in SUBSET Flows |->
                     part(s, "TToT") + part(s, "TToZ") + part(s, "ZToT") + part(s, "ZToZ")]
           Less(s) == s \ {x(s)}
<1>1. Total(w) = iter[Flows]
  BY DEF Total, MapThenSumSet, MapThenFoldSet
<1>2. \A s \in SUBSET Flows : s # {} => x(s) \in s
  OBVIOUS
<1> HIDE DEF x
<1>3. ASSUME NEW s \in SUBSET Flows
      PROVE  sum[s] = IF s = {} THEN 0 ELSE w[x(s)] + sum[Less(s)]
  <2>1. CASE s = {}
    BY <2>1
  <2>2. CASE s # {}
    <3>1. x(s) \in s /\ x(s) \in Flows /\ Less(s) \in SUBSET Flows
      BY <1>2, <2>2
    <3>2. \A f \in Flows : part(s, f) = IF f = x(s) THEN w[f] ELSE part(Less(s), f)
      BY <3>1
    <3>3. \A f \in Flows : part(Less(s), f) \in Int /\ (f = x(s) => part(Less(s), f) = 0)
      BY <3>1
    <3>4. x(s) \in {"TToT", "TToZ", "ZToT", "ZToZ"}
      BY <3>1 DEF Flows
    <3>5. sum[s] = w[x(s)] + sum[Less(s)]
      <4> HIDE DEF part, Less
      <4> QED
        BY <3>1, <3>2, <3>3, <3>4 DEF Flows
    <3>6. QED
      BY <2>2, <3>5
  <2>3. QED
    BY <2>1, <2>2
<1>4. Sums(sum)
  <2> HIDE DEF part
  <2>1. sum = [s \in SUBSET Flows |-> sum[s]]
    OBVIOUS
  <2> HIDE DEF sum
  <2>2. QED
    BY <1>3, <2>1
<1>5. Sums(iter)
  <2> HIDE DEF Sums, sum
  <2>1. \E g : Sums(g)
    BY <1>4
  <2>2. QED
    BY <2>1
<1>6. ASSUME NEW s \in SUBSET Flows, s # {} => iter[Less(s)] = sum[Less(s)]
      PROVE  iter[s] = sum[s]
  <2>1. iter[s] = IF s = {} THEN 0 ELSE w[x(s)] + iter[Less(s)]
    <3> HIDE DEF iter
    <3> QED
      BY <1>5
  <2> HIDE DEF iter, sum, Less
  <2>2. QED
    BY <1>3, <1>6, <2>1
<1> HIDE DEF iter
<1> DEFINE a == Less(Flows)
           b == Less(a)
           c == Less(b)
           d == Less(c)
<1>7. a \in SUBSET Flows /\ b \in SUBSET Flows /\ c \in SUBSET Flows /\ d \in SUBSET Flows
  OBVIOUS
<1>8. d = {}
  <2>1. Flows = {"TToT", "TToZ", "ZToT", "ZToZ"} /\ x(Flows) \in Flows
    BY <1>2 DEF Flows
  <2>2. PICK p, q, r : Flows = {x(Flows), p, q, r} /\ a \subseteq {p, q, r}
    BY <2>1
  <2>3. PICK p1, q1 : b \subseteq {p1, q1}
    BY <1>2, <1>7, <2>2
  <2>4. PICK p2 : c \subseteq {p2}
    BY <1>2, <1>7, <2>3
  <2>5. QED
    BY <1>2, <1>7, <2>4
<1>9. iter[Flows] = sum[Flows]
  <2> HIDE DEF sum
  <2>1. iter[d] = sum[d]
    BY <1>6, <1>7, <1>8
  <2> HIDE DEF d
  <2>2. iter[c] = sum[c]
    BY <1>6, <1>7, <2>1 DEF d
  <2> HIDE DEF c
  <2>3. iter[b] = sum[b]
    BY <1>6, <1>7, <2>2 DEF c
  <2> HIDE DEF b
  <2>4. iter[a] = sum[a]
    BY <1>6, <1>7, <2>3 DEF b
  <2> HIDE DEF a
  <2>5. QED
    BY <1>6, <2>4 DEF a
<1>10. QED
  BY <1>1, <1>9 DEF Flows

-----------------------------------------------------------------------------
(* A step of the loop. *)

\* The scenario and the shape of a load.
LoadOK == /\ scenario.rate \in Nat /\ scenario.rate >= 1
          /\ scenario.duration \in Nat /\ scenario.duration >= 1
          /\ scenario.min \in Nat /\ scenario.max \in Nat /\ scenario.min <= scenario.max
          /\ scenario.flows \in [Flows -> Int] /\ Total(scenario.flows) = Whole
          /\ \A f \in Flows : scenario.flows[f] \in 0 .. Whole
          /\ Second \in Nat /\ Second >= 1 /\ FirstShare \in Nat /\ FirstShare >= 1

LEMMA ValidScenario ==
  ASSUME AccountsOK, Violations(scenario) = {}
  PROVE  LoadOK /\ Total(scenario.profiles) = Whole
<1>1. scenario \in ScenarioConfig /\ Second \in Nat \ {0} /\ FirstShare \in Nat \ {0}
  BY ScenarioAssumption, PacingAssumption DEF AccountsOK
<1>2. \A v \in {"load_target_tps", "load_duration_seconds", "accounts_count",
                "accounts_active_fraction", "flows", "activity_profiles",
                "confirmations_deposit_required", "amounts"} : v \notin Violations(scenario)
  OBVIOUS
<1>3. /\ ~(scenario.rate <= 0) /\ scenario.duration # 0 /\ ~(scenario.min > scenario.max)
      /\ Total(scenario.flows) = Whole /\ \A f \in Flows : scenario.flows[f] \in 0 .. Whole
      /\ Total(scenario.profiles) = Whole
  BY <1>2 DEF Violations
<1>4. QED
  BY <1>1, <1>3 DEF LoadOK, ScenarioConfig

\* The rates of the shapes.
LEMMA RatesOfShape ==
  ASSUME LoadOK, shape \in LoadShape, Accepted(shape), NEW t \in Nat
  PROVE  /\ Constant => InitialTps = Times(1, 1) /\ InstantaneousTps(t) = Times(1, 1)
         /\ shape.kind = "ramp" =>
              /\ shape.ramp \in Nat /\ InitialTps = Times(1, FirstShare)
              /\ InstantaneousTps(t) = IF t < shape.ramp THEN Times(t, shape.ramp) ELSE Times(1, 1)
         /\ shape.kind = "burst" =>
              /\ shape.pre \in Nat /\ shape.burst \in Nat /\ shape.multiplier \in Nat
              /\ InitialTps = InstantaneousTps(0)
              /\ InstantaneousTps(t) = IF InBurst(t) THEN Times(shape.multiplier, Whole) ELSE Times(1, 1)
         /\ shape.kind \in {"steady", "mixed", "ramp", "burst"}
<1>1. CASE shape \in [kind : {"steady", "mixed"}]
  BY <1>1 DEF Constant, InitialTps, InstantaneousTps
<1>2. CASE shape \in [kind : {"ramp"}, ramp : Nat]
  BY <1>2 DEF Constant, InitialTps, InstantaneousTps
<1>3. CASE shape \in [kind : {"burst"}, pre : Nat, burst : Nat, multiplier : Int]
  <2>1. shape.kind = "burst" /\ shape.pre \in Nat /\ shape.burst \in Nat /\ shape.multiplier \in Int
    BY <1>3
  <2>2. shape.multiplier > 0
    BY <2>1 DEF Accepted
  <2>3. QED
    BY <2>1, <2>2 DEF Constant, InitialTps, InstantaneousTps
<1>4. QED
  BY <1>1, <1>2, <1>3 DEF LoadShape

\* A rate is a fraction, and its wait long enough where the floor does not raise it.
LEMMA TimesWait ==
  ASSUME LoadOK, NEW n \in Nat, NEW d \in Nat, d >= 1
  PROVE  /\ Period(Times(n, d)) \in Nat /\ Period(Times(n, d)) >= 1 /\ Period(Times(n, d)) <= Slowest
         /\ AboveFloor(Times(n, d)) => Period(Times(n, d)) * (n * scenario.rate) >= Second * d
<1>1. Times(n, d) = [n |-> n * scenario.rate, d |-> d] /\ n * scenario.rate \in Nat
  BY DEF Times, LoadOK
<1>2. QED
  BY <1>1, WaitCovers

LEMMA RateWaits ==
  ASSUME LoadOK, shape \in LoadShape, Accepted(shape), NEW t \in Nat
  PROVE  /\ Period(InitialTps) \in 1 .. Slowest
         /\ Period(InstantaneousTps(t)) \in 1 .. Slowest
<1>1. Slowest \in Nat /\ Whole \in Nat /\ Whole >= 1
  BY PacingAssumption DEF Whole
<1>2. ASSUME NEW n \in Nat, NEW d \in Nat, d >= 1
      PROVE  Period(Times(n, d)) \in 1 .. Slowest
  BY <1>1, <1>2, TimesWait
<1>a. Period(Times(1, 1)) \in 1 .. Slowest /\ Period(Times(1, FirstShare)) \in 1 .. Slowest
  <2>1. FirstShare \in Nat /\ FirstShare >= 1
    BY DEF LoadOK
  <2>2. 1 \in Nat /\ 1 >= 1
    OBVIOUS
  <2>3. QED
    BY <1>2, <2>1, <2>2
<1>b. ASSUME shape.kind = "burst"
      PROVE  Period(Times(shape.multiplier, Whole)) \in 1 .. Slowest
  <2>1. shape.multiplier \in Nat
    BY <1>b, RatesOfShape
  <2>2. QED
    BY <1>1, <1>2, <2>1
<1>c. ASSUME shape.kind = "ramp", t < shape.ramp
      PROVE  Period(Times(t, shape.ramp)) \in 1 .. Slowest
  <2>1. shape.ramp \in Nat /\ shape.ramp >= 1
    BY <1>c, RatesOfShape
  <2>2. QED
    BY <1>2, <2>1
<1>3. /\ Period(Times(1, 1)) \in 1 .. Slowest /\ Period(Times(1, FirstShare)) \in 1 .. Slowest
      /\ shape.kind = "burst" => Period(Times(shape.multiplier, Whole)) \in 1 .. Slowest
      /\ shape.kind = "ramp" /\ t < shape.ramp => Period(Times(t, shape.ramp)) \in 1 .. Slowest
  BY <1>a, <1>b, <1>c
<1> HIDE DEF Whole
<1>4. \A x \in Nat : shape.kind = "burst" => Period(InstantaneousTps(x)) \in 1 .. Slowest
  BY <1>3, RatesOfShape
<1>5. QED
  BY <1>3, <1>4, RatesOfShape DEF Constant

\* A non-empty set of numbers with a bound has a largest one.
LEMMA LargestIsLargest ==
  ASSUME NEW b \in Nat, NEW S \in SUBSET (0 .. b), S # {}
  PROVE  Max(S) \in S /\ \A y \in S : y <= Max(S)
<1> DEFINE T == {b - y : y \in S}
<1>1. T \in SUBSET Nat /\ T # {}
  <2>1. \A y \in S : b - y \in Nat
    OBVIOUS
  <2>2. QED
    BY <2>1
<1>2. PICK m \in T : \A y \in T : m <= y
  <2>1. IsWellFoundedOn(OpToRel(<, Nat), Nat)
    BY NatLessThanWellFounded
  <2>2. PICK m \in T : \A y \in T : <<y, m>> \notin OpToRel(<, Nat)
    BY <1>1, <2>1, WFMin
  <2>3. ASSUME NEW y \in T
        PROVE  m <= y
    <3>1. y \in Nat /\ m \in Nat
      BY <1>1
    <3>2. ~(y < m)
      BY <2>2, <3>1 DEF OpToRel
    <3>3. QED
      BY <3>1, <3>2
  <2>4. QED
    BY <2>3
<1>3. PICK x \in S : m = b - x
  BY <1>2
<1>4. \A y \in S : x >= y
  BY <1>2, <1>3
<1>5. QED
  BY <1>4 DEF Max

LEMMA RatesKept ==
  ASSUME UNCHANGED <<shape, scenario>>
  PROVE  /\ InitialTps' = InitialTps /\ Times(1, 1)' = Times(1, 1)
         /\ Rates' = Rates /\ LongestWait' = LongestWait /\ Unit' = Unit
         /\ \A x : AskedAt(x)' = AskedAt(x)
<1>1. InitialTps' = InitialTps /\ \A n, d : Times(n, d)' = Times(n, d)
  BY DEF InitialTps, InstantaneousTps, InBurst, Times
<1>2. \A t : InstantaneousTps(t)' = InstantaneousTps(t)
  BY DEF InstantaneousTps, InBurst, Times
<1>3. Rates' = Rates
  BY <1>1, <1>2 DEF Rates
<1>4. LongestWait' = LongestWait
  BY <1>3 DEF LongestWait
<1>5. Unit' = Unit /\ \A x : AskedAt(x)' = AskedAt(x)
  BY DEF Unit, AskedAt
<1>6. QED
  BY <1>1, <1>3, <1>4, <1>5

\* The rate of the wait at hand, and the wait.
RateNow == IF now = 0 THEN InitialTps ELSE InstantaneousTps(now)

LEMMA TickMoves ==
  ASSUME AccountsOK, PaceOK, StaysValid, Tick, UNCHANGED scenario
  PROVE  /\ LoadOK /\ shape \in LoadShape /\ Accepted(shape) /\ UNCHANGED shape
         /\ stage \in Dispatch /\ stage' \in Dispatch /\ now < scenario.duration
         /\ \E w \in 1 .. Slowest, late \in Nat :
              /\ w = Period(RateNow)
              /\ now' = now + w + late /\ lag' = lag + late
         /\ dispatched' = IF NextIntents = {} THEN dispatched ELSE dispatched + 1
<1>1. /\ stage = "load" /\ stage' = "load" /\ now < scenario.duration /\ UNCHANGED <<shape, cause>>
      /\ dispatched' = IF NextIntents = {} THEN dispatched ELSE dispatched + 1
  BY DEF Tick, At, Stay
<1>2. PICK late \in 0 .. MaxLag - lag :
        now' = now + DispatchTickPeriod(now = 0) + late /\ lag' = lag + late
  BY DEF Tick
<1>3. DispatchTickPeriod(now = 0) = Period(RateNow)
  BY DEF DispatchTickPeriod, RateNow
<1>4. LoadOK
  BY <1>1, ValidScenario DEF StaysValid
<1>5. shape \in LoadShape /\ Accepted(shape)
  BY <1>1, PacingAssumption DEF PaceOK, Dispatch
<1>6. Period(RateNow) \in 1 .. Slowest
  BY <1>4, <1>5, RateWaits DEF PaceOK, RateNow
<1>7. late \in Nat
  BY <1>2, PacingAssumption DEF PaceOK
<1>8. QED
  BY <1>1, <1>2, <1>3, <1>4, <1>5, <1>6, <1>7 DEF Dispatch

LEMMA NoWaitIsLonger ==
  ASSUME LoadOK, shape \in LoadShape, Accepted(shape)
  PROVE  LongestWait \in Nat /\ LongestWait >= 1 /\ \A tps \in Rates : Period(tps) <= LongestWait
<1> DEFINE S == {Period(tps) : tps \in Rates}
<1>1. ASSUME NEW tps \in Rates
      PROVE  Period(tps) \in 1 .. Slowest
  <2>1. CASE tps = InitialTps
    BY <2>1, RateWaits, 0 \in Nat
  <2>2. CASE \E t \in Period(InitialTps) .. scenario.duration : tps = InstantaneousTps(t)
    <3>1. PICK t \in Period(InitialTps) .. scenario.duration : tps = InstantaneousTps(t)
      BY <2>2
    <3>2. t \in Nat
      BY <3>1, RateWaits, 0 \in Nat, PacingAssumption DEF LoadOK
    <3>3. QED
      BY <3>1, <3>2, RateWaits
  <2>3. QED
    BY <2>1, <2>2 DEF Rates
<1>2. Slowest \in Nat /\ InitialTps \in Rates
  BY PacingAssumption DEF Rates
<1>3. S \in SUBSET (0 .. Slowest) /\ S # {}
  BY <1>1, <1>2
<1>4. LongestWait \in S /\ \A y \in S : y <= LongestWait
  <2>1. LongestWait = Max(S)
    BY DEF LongestWait
  <2> HIDE DEF S
  <2>2. QED
    BY <1>2, <1>3, <2>1, LargestIsLargest
<1>5. QED
  BY <1>1, <1>2, <1>4

\* The loop computes each wait from a rate of the window.
LEMMA RateNowIsOne ==
  ASSUME LoadOK, shape \in LoadShape, Accepted(shape), PaceOK, Waited,
         stage \in Dispatch, now < scenario.duration
  PROVE  Period(InitialTps) \in Nat /\ RateNow \in Rates
<1>1. now \in Nat /\ scenario.duration \in Nat /\ Slowest \in Nat
  BY PacingAssumption DEF PaceOK, LoadOK
<1>2. Period(InitialTps) \in Nat
  BY <1>1, RateWaits, 0 \in Nat
<1>3. CASE now = 0
  BY <1>2, <1>3 DEF Rates, RateNow
<1>4. CASE now # 0
  <2>1. now \in Period(InitialTps) .. scenario.duration
    BY <1>1, <1>2, <1>4 DEF Waited
  <2>2. RateNow = InstantaneousTps(now)
    BY <1>4 DEF RateNow
  <2>3. QED
    BY <1>2, <2>1, <2>2 DEF Rates
<1>5. QED
  BY <1>2, <1>3, <1>4

LEMMA WaitedStep ==
  ASSUME AccountsOK, PaceInv, Tick, UNCHANGED scenario
  PROVE  PaceOK' /\ Waited'
<1>1. PaceOK /\ Waited /\ StaysValid
  BY DEF PaceInv
<1>2. /\ LoadOK /\ shape \in LoadShape /\ Accepted(shape) /\ UNCHANGED shape
      /\ stage \in Dispatch /\ stage' \in Dispatch /\ now < scenario.duration
      /\ dispatched' \in {dispatched, dispatched + 1}
  BY <1>1, TickMoves
<1>3. PICK w \in 1 .. Slowest, late \in Nat :
        w = Period(RateNow) /\ now' = now + w + late /\ lag' = lag + late
  BY <1>1, TickMoves
<1>4. Slowest \in Nat /\ w \in Nat /\ w >= 1
  BY <1>3, PacingAssumption
<1>5. now \in Nat /\ lag \in Nat /\ dispatched \in Nat /\ lag <= now /\ scenario.duration \in Nat
  BY <1>1, <1>2 DEF PaceOK, LoadOK
<1>6. PaceOK'
  <2>1. shape' \in Shapes /\ Accepted(shape)' /\ now' \in Nat /\ lag' \in Nat /\ lag' <= now' /\ dispatched' \in Nat
    BY <1>1, <1>2, <1>3, <1>4, <1>5 DEF PaceOK, Accepted
  <2>2. QED
    BY <1>2, <2>1 DEF PaceOK
<1>7. Period(InitialTps) \in Nat /\ RateNow \in Rates
  BY <1>1, <1>2, RateNowIsOne
<1>8. w <= LongestWait /\ LongestWait \in Nat
  BY <1>2, <1>3, <1>7, NoWaitIsLonger
<1>9. InitialTps' = InitialTps /\ LongestWait' = LongestWait
  BY <1>2, RatesKept
<1>10. now' # 0 /\ now' >= Period(InitialTps) /\ now' - lag' < scenario.duration + LongestWait
  <2>1. now # 0 => now >= Period(InitialTps)
    BY <1>1, <1>2 DEF Waited
  <2>2. now = 0 => w = Period(InitialTps)
    BY <1>3 DEF RateNow
  <2>3. QED
    BY <1>2, <1>3, <1>4, <1>5, <1>7, <1>8, <2>1, <2>2
<1>11. Waited'
  BY <1>2, <1>9, <1>10 DEF Waited
<1>12. QED
  BY <1>6, <1>11

\* Two active accounts have an intent to draw.
LEMMA IntentsToDraw ==
  ASSUME LoadOK, shape \in LoadShape, Cardinality(active) >= 2
  PROVE  NextIntents # {}
<1>1. PICK a \in active, b \in active : a # b
  <2>1. active # {}
    BY FS_EmptySet
  <2>3. PICK a : a \in active
    BY <2>1
  <2>2. Cardinality({a}) = 1
    BY FS_Singleton
  <2>4. active # {a}
    BY <2>2
  <2>5. QED
    BY <2>3, <2>4
<1>2. PICK f \in Flows : EffectiveFlows(shape)[f] > 0
  <2>1. CASE shape.kind = "mixed"
    BY <2>1 DEF EffectiveFlows, MixedFlowConfig, Flows, Whole
  <2>2. CASE shape.kind # "mixed"
    <3>1. scenario.flows["TToT"] + scenario.flows["TToZ"] + scenario.flows["ZToT"]
            + scenario.flows["ZToZ"] = 10
      BY TotalIsSum DEF LoadOK, Whole
    <3>2. \A f \in Flows : scenario.flows[f] \in Int
      BY DEF LoadOK
    <3>3. \E f \in Flows : scenario.flows[f] > 0
      BY <3>1, <3>2 DEF Flows
    <3>4. QED
      BY <2>2, <3>3 DEF EffectiveFlows
  <2>3. QED
    BY <2>1, <2>2
<1>3. scenario.min \in scenario.min .. scenario.max
  BY DEF LoadOK
<1> DEFINE i == [sender |-> a, recipient |-> b, flow |-> f, amount |-> scenario.min]
<1>4. i \in NextIntents
  BY <1>1, <1>2, <1>3 DEF NextIntents
<1>5. QED
  BY <1>4

LEMMA InStepStep ==
  ASSUME AccountsOK, PaceInv, Tick, UNCHANGED <<scenario, active>>
  PROVE  InStep'
<1> SUFFICES ASSUME Constant', Cardinality(active) >= 2
             PROVE  now' = dispatched' * Period(Times(1, 1))' + lag'
  BY DEF InStep
<1>1. PaceOK /\ InStep /\ StaysValid
  BY DEF PaceInv
<1>2. /\ LoadOK /\ shape \in LoadShape /\ Accepted(shape) /\ UNCHANGED shape /\ stage \in Dispatch
      /\ dispatched' = IF NextIntents = {} THEN dispatched ELSE dispatched + 1
  BY <1>1, TickMoves
<1>3. PICK w \in 1 .. Slowest, late \in Nat :
        w = Period(RateNow) /\ now' = now + w + late /\ lag' = lag + late
  BY <1>1, TickMoves
<1>4. Constant /\ now \in Nat /\ lag \in Nat /\ dispatched \in Nat /\ Slowest \in Nat
  BY <1>1, <1>2, PacingAssumption DEF Constant, PaceOK
<1>5. RateNow = Times(1, 1)
  BY <1>2, <1>4, RatesOfShape DEF RateNow
<1>6. Period(Times(1, 1))' = Period(Times(1, 1))
  BY DEF Times, Period
<1>7. dispatched' = dispatched + 1
  BY <1>2, IntentsToDraw
<1>8. now = dispatched * w + lag
  BY <1>1, <1>2, <1>3, <1>4, <1>5 DEF InStep
<1>9. (dispatched + 1) * w = dispatched * w + w /\ dispatched * w \in Nat
  BY <1>3, <1>4
<1>10. now' = (dispatched + 1) * w + lag'
  BY <1>3, <1>4, <1>8, <1>9
<1>11. QED
  BY <1>3, <1>5, <1>6, <1>7, <1>10

\* A fraction of the target has a wait that is long enough for the target.
LEMMA FractionWaits ==
  ASSUME LoadOK, AboveFloor(Times(1, 1)), NEW n \in Nat, NEW d \in Nat, d >= 1, n <= d
  PROVE  Period(Times(n, d)) * scenario.rate >= Second
<1> DEFINE r == scenario.rate
           w == Period(Times(n, d))
<1>1. r \in Nat /\ r >= 1 /\ Second \in Nat /\ Second >= 1 /\ Slowest \in Nat
  BY PacingAssumption DEF LoadOK
<1>2. r * Slowest >= Second
  <2>1. Times(1, 1).n = r /\ Times(1, 1).d = 1
    BY <1>1 DEF Times
  <2>2. QED
    BY <1>1, <2>1 DEF AboveFloor
<1>3. w \in Nat /\ (AboveFloor(Times(n, d)) => w * (n * r) >= Second * d)
  BY TimesWait
<1>4. CASE AboveFloor(Times(n, d))
  <2> HIDE DEF r, w
  <2>1. w * (n * r) >= Second * d /\ Second * d >= Second * n
    BY <1>1, <1>3, <1>4
  <2>2. n >= 1
    BY <1>1, <1>3, <2>1
  <2>3. w * (n * r) = n * (w * r) /\ w * r \in Nat
    BY <1>1, <1>3
  <2>4. n * (w * r) >= n * Second
    BY <1>1, <1>3, <2>1, <2>3
  <2>5. w * r >= Second
    BY <1>1, <2>2, <2>3, <2>4
  <2>6. QED
    BY <2>5 DEF r, w
<1>5. CASE ~AboveFloor(Times(n, d))
  <2>1. w = Slowest
    <3>1. Times(n, d).n = n * r /\ Times(n, d).d = d /\ (n * r) \in Nat /\ Second * d \in Nat
      BY <1>1 DEF Times
    <3>2. (n * r) * Slowest <= Second * d
      BY <1>1, <1>5, <3>1 DEF AboveFloor
    <3>3. QED
      BY <3>1, <3>2 DEF Period
  <2>2. QED
    BY <1>1, <1>2, <2>1
<1>6. QED
  BY <1>4, <1>5

LEMMA OnTargetStep ==
  ASSUME AccountsOK, PaceInv, Tick, UNCHANGED <<scenario, active>>
  PROVE  OnTarget'
<1> SUFFICES ASSUME shape'.kind # "burst", AboveFloor(Times(1, 1))'
             PROVE  /\ Second * dispatched' <= scenario'.rate * now'
                    /\ dispatched' <= ExpectedIntents(scenario')
                    /\ active' = {} => dispatched' = 0
  BY DEF OnTarget
<1>1. PaceOK /\ OnTarget /\ StaysValid
  BY DEF PaceInv
<1>2. /\ LoadOK /\ shape \in LoadShape /\ Accepted(shape) /\ UNCHANGED shape /\ stage \in Dispatch
      /\ now < scenario.duration
      /\ dispatched' = IF NextIntents = {} THEN dispatched ELSE dispatched + 1
  BY <1>1, TickMoves
<1>3. PICK w \in 1 .. Slowest, late \in Nat :
        w = Period(RateNow) /\ now' = now + w + late /\ lag' = lag + late
  BY <1>1, TickMoves
<1> DEFINE r == scenario.rate
           D == scenario.duration
           E == ExpectedIntents(scenario)
<1>4. /\ r \in Nat /\ r >= 1 /\ D \in Nat /\ Second \in Nat /\ Second >= 1 /\ Slowest \in Nat
      /\ now \in Nat /\ dispatched \in Nat /\ shape.kind # "burst"
  BY <1>1, <1>2, PacingAssumption DEF PaceOK, LoadOK
<1>5. AboveFloor(Times(1, 1))
  BY DEF AboveFloor, Times
<1>6. w * r >= Second
  <2>1. \E n \in Nat, d \in Nat : d >= 1 /\ n <= d /\ RateNow = Times(n, d)
    <3>1. CASE Constant
      <4>1. RateNow = Times(1, 1)
        BY <1>2, <1>4, <3>1, RatesOfShape DEF RateNow
      <4>2. QED
        BY <4>1
    <3>2. CASE shape.kind = "ramp"
      <4>1. /\ shape.ramp \in Nat
            /\ \/ RateNow \in {Times(1, FirstShare), Times(1, 1)}
               \/ now < shape.ramp /\ RateNow = Times(now, shape.ramp)
        BY <1>2, <1>4, <3>2, RatesOfShape DEF RateNow
      <4>2. FirstShare \in Nat /\ FirstShare >= 1
        BY <1>2 DEF LoadOK
      <4>3. CASE RateNow \in {Times(1, FirstShare), Times(1, 1)}
        BY <4>2, <4>3
      <4>4. CASE now < shape.ramp /\ RateNow = Times(now, shape.ramp)
        BY <1>4, <4>1, <4>4
      <4>5. QED
        BY <4>1, <4>3, <4>4
    <3>3. QED
      BY <1>2, <1>4, <3>1, <3>2, RatesOfShape DEF Constant
  <2>2. QED
    BY <1>2, <1>3, <1>5, <2>1, FractionWaits
<1>7. Second * dispatched <= r * now /\ dispatched <= E /\ (active = {} => dispatched = 0)
  BY <1>1, <1>2, <1>4, <1>5 DEF OnTarget
<1>8. E \in Nat /\ E * Second >= r * D
  <2>1. r * D \in Nat
    BY <1>4
  <2> HIDE DEF r, D
  <2>2. CeilDiv(r * D, Second) \in Nat /\ CeilDiv(r * D, Second) * Second >= r * D
    BY <1>4, <2>1, CeilDivCovers
  <2>3. QED
    BY <2>2 DEF ExpectedIntents, r, D
<1>9. active = {} => NextIntents = {}
  BY DEF NextIntents
<1> HIDE DEF r, D, E
<1>10. Second * (dispatched + 1) <= r * now'
  <2>1. r * now' = r * now + w * r + r * late
    BY <1>3, <1>4
  <2>2. r * late \in Nat /\ w * r \in Nat /\ r * now \in Nat /\ Second * (dispatched + 1) = Second * dispatched + Second
    BY <1>3, <1>4
  <2>3. QED
    BY <1>4, <1>6, <1>7, <2>1, <2>2
<1>11. dispatched + 1 <= E
  <2>1. r * now < r * D
    BY <1>2, <1>4 DEF D
  <2>2. Second * dispatched < Second * E
    BY <1>4, <1>7, <1>8, <2>1
  <2>3. QED
    BY <1>4, <1>8, <2>2
<1>12. Second * dispatched <= r * now'
  <2>1. Second * (dispatched + 1) = Second * dispatched + Second /\ Second * dispatched \in Nat
    BY <1>4
  <2>2. r * now' \in Int
    BY <1>3, <1>4
  <2>3. QED
    BY <1>4, <1>10, <2>1, <2>2
<1>13. QED
  BY <1>2, <1>7, <1>9, <1>10, <1>11, <1>12 DEF r, E

-----------------------------------------------------------------------------
(* The curve, step by step. *)

LEMMA AskedIsAskedAt ==
  ASSUME shape \in LoadShape, now \in Nat
  PROVE  AskedFor = AskedAt(now)
<1>1. CASE shape.kind = "ramp" /\ shape.ramp > 0
  <2>1. shape.ramp \in Nat
    BY <1>1 DEF LoadShape
  <2>2. Overlap(0, shape.ramp) = IF now < shape.ramp THEN now ELSE shape.ramp
    BY <2>1 DEF Overlap, MaxOf
  <2>3. QED
    BY <1>1, <2>2 DEF AskedFor, AskedAt, Ramped
<1>2. CASE ~(shape.kind = "ramp" /\ shape.ramp > 0)
  BY <1>2 DEF AskedFor, AskedAt, Overlap, Spiked
<1>3. QED
  BY <1>1, <1>2

\* A wait begun at t that the floor did not shorten lets the curve rise by one intent, unless
\* a spike ends or a lull begins in it; and the curve never falls.
Gains(t, u) ==
  /\ AskedAt(t) \in Nat /\ AskedAt(u) \in Nat /\ Unit \in Nat
  /\ AskedAt(u) >= AskedAt(t)
  /\ (shape.kind = "burst" /\ t < Bend => u < Bend) => AskedAt(u) >= AskedAt(t) + Unit

LEMMA ConstantGains ==
  ASSUME LoadOK, Constant \/ (shape.kind = "ramp" /\ shape.ramp = 0), NEW t \in Nat, NEW u \in Nat,
         NEW w \in Nat, t + w <= u, w * scenario.rate >= Second
  PROVE  Gains(t, u)
<1> DEFINE r == scenario.rate
<1>1. r \in Nat /\ Second \in Nat
  BY DEF LoadOK
<1>2. AskedAt(t) = 20 * (r * t) /\ AskedAt(u) = 20 * (r * u) /\ Unit = 20 * Second
  BY <1>1 DEF AskedAt, Unit, Constant, Whole, MaxOf
<1> HIDE DEF r
<1>3. r * u >= r * t + r * w /\ r * t \in Nat /\ r * u \in Nat /\ r * w = w * r /\ r * w \in Nat
  BY <1>1
<1>4. QED
  BY <1>1, <1>2, <1>3 DEF Gains, Constant, r

LEMMA RampGains ==
  ASSUME LoadOK, shape.kind = "ramp", shape.ramp \in Nat, shape.ramp > 0, NEW t \in Nat,
         NEW u \in Nat, NEW w \in Nat, t + w <= u,
         IF t < shape.ramp THEN w * (t * scenario.rate) >= Second * shape.ramp
                           ELSE w * scenario.rate >= Second
  PROVE  Gains(t, u)
<1> DEFINE r == scenario.rate
           R == shape.ramp
           q(x) == Ramped(x, R)
<1>1. r \in Nat /\ Second \in Nat /\ R \in Nat /\ R >= 1
  BY DEF LoadOK
<1>2. AskedAt(t) = r * 10 * q(t) /\ AskedAt(u) = r * 10 * q(u)
  BY <1>1 DEF AskedAt, Whole
<1>3. Unit = 20 * (Second * R)
  BY <1>1 DEF Unit, Whole, MaxOf
<1>4. /\ q(t) \in Nat /\ q(u) \in Nat
      /\ t < R => q(u) >= q(t) + 2 * (t * (u - t))
      /\ t >= R => q(u) = q(t) + 2 * (R * (u - t))
  <2>1. t <= u
    OBVIOUS
  <2>2. QED
    BY <1>1, <2>1, RampGrows
<1>5. IF t < R THEN w * (t * r) >= Second * R ELSE w * r >= Second
  OBVIOUS
<1> HIDE DEF r, R, q
<1>6. u - t \in Nat /\ u - t >= w /\ Second * R \in Nat
  BY <1>1
<1>7. PICK g \in Nat : q(u) >= q(t) + 2 * g /\ r * g >= Second * R
  <2>1. CASE t < R
    <3>1. r * (t * (u - t)) >= r * (t * w)
      <4>1. t * (u - t) >= t * w /\ t * w \in Nat /\ t * (u - t) \in Nat
        BY <1>6
      <4>2. QED
        BY <1>1, <4>1
    <3>2. r * (t * w) = w * (t * r)
      BY <1>1
    <3>3. t * (u - t) \in Nat /\ r * (t * (u - t)) \in Nat /\ r * (t * w) \in Nat
      BY <1>1, <1>6
    <3>4. QED
      BY <1>4, <1>5, <1>6, <2>1, <3>1, <3>2, <3>3
  <2>2. CASE t >= R
    <3>1. r * (R * (u - t)) >= r * (R * w)
      <4>1. R * (u - t) >= R * w /\ R * w \in Nat /\ R * (u - t) \in Nat
        BY <1>1, <1>6
      <4>2. QED
        BY <1>1, <4>1
    <3>2. r * (R * w) = (w * r) * R /\ w * r \in Nat
      BY <1>1
    <3>3. (w * r) * R >= Second * R
      BY <1>1, <1>5, <2>2, <3>2
    <3>4. R * (u - t) \in Nat /\ r * (R * (u - t)) \in Nat /\ r * (R * w) \in Nat
      BY <1>1, <1>6
    <3>5. QED
      BY <1>4, <1>6, <2>2, <3>1, <3>2, <3>3, <3>4
  <2>3. QED
    BY <1>1, <2>1, <2>2
<1>8. r * q(u) >= r * (q(t) + 2 * g)
  <2>1. q(t) + 2 * g \in Nat
    BY <1>4
  <2>2. QED
    BY <1>1, <1>4, <1>7, <2>1
<1>9. r * (q(t) + 2 * g) = r * q(t) + 2 * (r * g) /\ r * q(t) \in Nat /\ r * q(u) \in Nat /\ r * g \in Nat
  BY <1>1, <1>4
<1>10. r * 10 * q(t) = 10 * (r * q(t)) /\ r * 10 * q(u) = 10 * (r * q(u))
  BY <1>1, <1>4
<1>11. r * q(u) >= r * q(t) + 2 * (Second * R)
  BY <1>6, <1>7, <1>8, <1>9
<1>12. QED
  BY <1>2, <1>3, <1>6, <1>9, <1>10, <1>11 DEF Gains

LEMMA BurstGains ==
  ASSUME LoadOK, shape.kind = "burst", shape.pre \in Nat, shape.burst \in Nat,
         shape.multiplier \in Nat, NEW t \in Nat, NEW u \in Nat, NEW w \in Nat, t + w <= u,
         IF InBurst(t) THEN w * (shape.multiplier * scenario.rate) >= Second * Whole
                       ELSE w * scenario.rate >= Second
  PROVE  Gains(t, u)
<1> DEFINE r == scenario.rate
           m == shape.multiplier
           lo == shape.pre
           hi == shape.pre + shape.burst
           s == Spiked(t, lo, hi)
           z == Spiked(u, lo, hi)
           a == Whole * (t - s) + m * s
           b == Whole * (u - z) + m * z
<1>1. /\ r \in Nat /\ Second \in Nat /\ m \in Nat /\ lo \in Nat /\ hi \in Nat /\ lo <= hi
      /\ Whole = 10
  BY DEF LoadOK, Whole
<1>2. AskedAt(t) = 2 * r * a /\ AskedAt(u) = 2 * r * b /\ Unit = 20 * Second
  BY <1>1 DEF AskedAt, Unit
<1>3. /\ s \in 0 .. t /\ z \in 0 .. u /\ z - s \in 0 .. u - t
      /\ t >= lo /\ u <= hi => z - s = u - t
      /\ u <= lo \/ t >= hi => z = s
  <2>1. t <= u
    OBVIOUS
  <2> HIDE DEF lo, hi
  <2>2. /\ Spiked(t, lo, hi) \in 0 .. t /\ Spiked(u, lo, hi) \in 0 .. u
        /\ Spiked(u, lo, hi) - Spiked(t, lo, hi) \in 0 .. u - t
        /\ t >= lo /\ u <= hi => Spiked(u, lo, hi) - Spiked(t, lo, hi) = u - t
        /\ u <= lo \/ t >= hi => Spiked(u, lo, hi) = Spiked(t, lo, hi)
    <3>1. lo \in Nat /\ hi \in Nat /\ lo <= hi
      BY <1>1
    <3>2. QED
      BY <2>1, <3>1 DEF Spiked, MaxOf
  <2>3. QED
    BY <2>2
<1>4. InBurst(t) <=> t >= lo /\ t < hi
  BY DEF InBurst
<1>5. IF t >= lo /\ t < hi THEN w * (m * r) >= 10 * Second ELSE w * r >= Second
  BY <1>1, <1>4
<1>6. Bend = IF m >= 10 THEN hi ELSE lo
  BY <1>1 DEF Bend
<1> HIDE DEF r, m, lo, hi, s, z
<1>7. /\ a \in Nat /\ b \in Nat /\ b >= a
      /\ m < 10 \/ z - s = u - t => b >= a + m * (u - t)
      /\ m >= 10 \/ z = s => b >= a + 10 * (u - t)
  <2>1. t <= u /\ 10 \in Nat
    OBVIOUS
  <2>2. QED
    BY <1>1, <1>3, <2>1, BurstGrows
<1> HIDE DEF a, b
<1>8. u - t \in Nat /\ u - t >= w
  OBVIOUS
<1>9. ASSUME t < Bend => u < Bend
      PROVE  r * b >= r * a + 10 * Second
  <2>1. CASE t >= lo /\ t < hi
    <3>1. m < 10 \/ z - s = u - t
      BY <1>1, <1>3, <1>6, <1>9, <2>1
    <3>2. b >= a + m * (u - t) /\ m * (u - t) >= m * w /\ m * w \in Nat /\ m * (u - t) \in Nat
      BY <1>1, <1>7, <1>8, <3>1
    <3>3. r * b >= r * (a + m * w)
      <4>1. b >= a + m * w /\ a + m * w \in Nat
        BY <1>7, <3>2
      <4>2. QED
        BY <1>1, <1>7, <4>1
    <3>4. r * (a + m * w) = r * a + w * (m * r)
      BY <1>1, <1>7
    <3>5. QED
      BY <1>1, <1>5, <1>7, <2>1, <3>3, <3>4
  <2>2. CASE ~(t >= lo /\ t < hi)
    <3>1. m >= 10 \/ z = s
      BY <1>1, <1>3, <1>6, <1>9, <2>2
    <3>2. b >= a + 10 * w
      BY <1>7, <1>8, <3>1
    <3>3. r * b >= r * (a + 10 * w)
      BY <1>1, <1>7, <3>2
    <3>4. r * (a + 10 * w) = r * a + 10 * (w * r) /\ w * r \in Nat
      BY <1>1, <1>7
    <3>5. QED
      BY <1>1, <1>5, <1>7, <2>2, <3>3, <3>4
  <2>3. QED
    BY <2>1, <2>2
<1>10. r * a \in Nat /\ r * b \in Nat /\ r * b >= r * a
  BY <1>1, <1>7
<1>11. 2 * r * a = 2 * (r * a) /\ 2 * r * b = 2 * (r * b)
  BY <1>1, <1>7
<1>12. QED
  BY <1>1, <1>2, <1>9, <1>10, <1>11 DEF Gains

LEMMA AskedType ==
  ASSUME LoadOK, shape \in LoadShape, Accepted(shape), NEW x \in Nat
  PROVE  AskedAt(x) \in Nat /\ Unit \in Nat
<1>1. /\ scenario.rate \in Nat /\ Second \in Nat /\ Whole = 10
      /\ shape.kind \in {"steady", "mixed", "ramp", "burst"}
  BY RatesOfShape DEF LoadOK, Whole
<1>2. CASE shape.kind = "ramp"
  <2>1. shape.ramp \in Nat
    BY <1>2, RatesOfShape
  <2>2. MaxOf(shape.ramp, 1) \in Nat
    BY <2>1 DEF MaxOf
  <2>3. Unit \in Nat
    BY <1>1, <1>2, <2>2 DEF Unit
  <2>4. Ramped(x, shape.ramp) \in Nat
    <3>1. x <= x
      OBVIOUS
    <3>2. QED
      BY <2>1, <3>1, RampGrows
  <2>5. scenario.rate * Whole * Ramped(x, shape.ramp) \in Nat /\ 2 * scenario.rate * Whole * x \in Nat
    BY <1>1, <2>4
  <2>6. QED
    BY <1>2, <2>3, <2>5 DEF AskedAt
<1>3. CASE shape.kind = "burst"
  <2>1. shape.pre \in Nat /\ shape.burst \in Nat /\ shape.multiplier \in Nat
    BY <1>3, RatesOfShape
  <2> DEFINE s == Spiked(x, shape.pre, shape.pre + shape.burst)
  <2>2. s \in 0 .. x
    BY <2>1 DEF Spiked, MaxOf
  <2>3. AskedAt(x) = 2 * scenario.rate * (Whole * (x - s) + shape.multiplier * s)
    BY <1>3 DEF AskedAt
  <2> HIDE DEF s
  <2>4. x - s \in Nat /\ s \in Nat
    BY <2>2
  <2>5. Whole * (x - s) + shape.multiplier * s \in Nat
    BY <1>1, <2>1, <2>4
  <2>6. 2 * scenario.rate * (Whole * (x - s) + shape.multiplier * s) \in Nat
    BY <1>1, <2>5
  <2>7. Unit \in Nat
    BY <1>1, <1>3 DEF Unit
  <2>8. QED
    BY <2>3, <2>6, <2>7
<1>4. CASE shape.kind \in {"steady", "mixed"}
  <2>1. 2 * scenario.rate * Whole * x \in Nat
    BY <1>1
  <2>2. Unit \in Nat
    BY <1>1, <1>4 DEF Unit
  <2>3. QED
    BY <1>4, <2>1, <2>2 DEF AskedAt
<1>5. QED
  BY <1>1, <1>2, <1>3, <1>4

\* The first tick of a ramp apart, a wait that the floor does not shorten covers an intent.
LEMMA WaitGains ==
  ASSUME LoadOK, shape \in LoadShape, Accepted(shape), now \in Nat, NEW w \in Nat,
         w = Period(RateNow), AboveFloor(RateNow), ~(shape.kind = "ramp" /\ now = 0),
         NEW u \in Nat, now + w <= u
  PROVE  Gains(now, u)
<1>1. scenario.rate \in Nat /\ Second \in Nat /\ Whole \in Nat /\ Whole >= 1
  BY DEF LoadOK, Whole
<1>2. RateNow = InstantaneousTps(now)
  BY RatesOfShape DEF RateNow, Constant
<1>3. ASSUME NEW n \in Nat, NEW d \in Nat, d >= 1, RateNow = Times(n, d)
      PROVE  w * (n * scenario.rate) >= Second * d
  BY <1>3, TimesWait
<1>4. RateNow = Times(1, 1) => w * scenario.rate >= Second
  <2>1. RateNow = Times(1, 1) => w * (1 * scenario.rate) >= Second * 1
    BY <1>3
  <2>2. 1 * scenario.rate = scenario.rate /\ Second * 1 = Second
    BY <1>1
  <2>3. QED
    BY <2>1, <2>2
<1>5. CASE Constant
  <2>1. w * scenario.rate >= Second
    BY <1>2, <1>4, <1>5, RatesOfShape
  <2>2. QED
    BY <1>5, <2>1, ConstantGains
<1>6. CASE shape.kind = "ramp" /\ shape.ramp = 0
  <2>1. w * scenario.rate >= Second
    BY <1>2, <1>4, <1>6, RatesOfShape
  <2>2. QED
    BY <1>6, <2>1, ConstantGains
<1>7. CASE shape.kind = "ramp" /\ shape.ramp # 0
  <2>1. shape.ramp \in Nat /\ shape.ramp >= 1 /\ shape.ramp > 0
    BY <1>7, RatesOfShape
  <2>2. IF now < shape.ramp THEN w * (now * scenario.rate) >= Second * shape.ramp
                            ELSE w * scenario.rate >= Second
    <3>1. RateNow = IF now < shape.ramp THEN Times(now, shape.ramp) ELSE Times(1, 1)
      BY <1>2, <1>7, RatesOfShape
    <3>2. QED
      BY <1>3, <1>4, <2>1, <3>1
  <2>3. QED
    BY <1>7, <2>1, <2>2, RampGains
<1>8. CASE shape.kind = "burst"
  <2>1. shape.pre \in Nat /\ shape.burst \in Nat /\ shape.multiplier \in Nat
    BY <1>8, RatesOfShape
  <2>2. IF InBurst(now) THEN w * (shape.multiplier * scenario.rate) >= Second * Whole
                        ELSE w * scenario.rate >= Second
    <3>1. RateNow = IF InBurst(now) THEN Times(shape.multiplier, Whole) ELSE Times(1, 1)
      BY <1>2, <1>8, RatesOfShape
    <3>2. QED
      BY <1>1, <1>3, <1>4, <2>1, <3>1
  <2>3. QED
    BY <1>8, <2>1, <2>2, BurstGains
<1>9. QED
  BY <1>5, <1>6, <1>7, <1>8, RatesOfShape DEF Constant

LEMMA OnCurveStep ==
  ASSUME AccountsOK, PaceInv, Tick, UNCHANGED scenario
  PROVE  OnCurve'
<1> SUFFICES ASSUME \A tps \in Rates' : AboveFloor(tps)'
             PROVE  /\ (Unit * dispatched)' <= (AskedFor + Unit)'
                    /\ (shape.kind = "burst" /\ now < Bend)' => (Unit * dispatched)' <= AskedFor'
  BY DEF OnCurve
<1>1. PaceOK /\ StaysValid /\ Waited /\ OnCurve
  BY DEF PaceInv
<1>2. /\ LoadOK /\ shape \in LoadShape /\ Accepted(shape) /\ UNCHANGED shape
      /\ stage \in Dispatch /\ now < scenario.duration
      /\ dispatched' \in {dispatched, dispatched + 1}
  BY <1>1, TickMoves
<1>3. PICK w \in 1 .. Slowest, late \in Nat :
        w = Period(RateNow) /\ now' = now + w + late
  BY <1>1, TickMoves
<1>4. now \in Nat /\ dispatched \in Nat /\ w \in Nat /\ now' \in Nat /\ now + w <= now' /\ Slowest \in Nat
  BY <1>1, <1>3, PacingAssumption DEF PaceOK
<1> DEFINE a == AskedAt(now)
           b == AskedAt(now')
<1>5. a \in Nat /\ b \in Nat /\ Unit \in Nat
  BY <1>2, <1>4, AskedType
<1>6. Rates' = Rates /\ Unit' = Unit /\ Bend' = Bend
  <2>1. Bend' = Bend
    BY <1>2 DEF Bend
  <2>2. QED
    BY <1>2, <2>1, RatesKept
<1>7. \A tps \in Rates : AboveFloor(tps)
  BY <1>6 DEF AboveFloor
<1>8. AboveFloor(RateNow)
  BY <1>1, <1>2, <1>7, RateNowIsOne
<1>9. AskedFor = a
  BY <1>2, <1>4, AskedIsAskedAt
<1>10. AskedFor' = b
  <2>1. CASE shape.kind = "ramp" /\ shape.ramp > 0
    <3>1. shape.ramp \in Nat
      BY <1>2, <2>1 DEF LoadShape
    <3>2. Overlap(0, shape.ramp)' = IF now' < shape.ramp THEN now' ELSE shape.ramp
      <4>1. Overlap(0, shape.ramp)' = MaxOf(0, (IF now' < shape'.ramp THEN now' ELSE shape'.ramp) - 0)
        BY DEF Overlap, MaxOf
      <4>2. shape'.ramp = shape.ramp
        BY <1>2
      <4>3. ASSUME NEW x \in Nat, NEW y \in Nat
            PROVE  MaxOf(0, (IF y < x THEN y ELSE x) - 0) = IF y < x THEN y ELSE x
        <5>1. CASE y < x
          BY <5>1 DEF MaxOf
        <5>2. CASE ~(y < x)
          BY <5>2 DEF MaxOf
        <5>3. QED
          BY <5>1, <5>2
      <4>4. QED
        BY <1>4, <3>1, <4>1, <4>2, <4>3
    <3>3. QED
      BY <1>2, <2>1, <3>2 DEF AskedFor, AskedAt, Ramped
  <2>2. CASE ~(shape.kind = "ramp" /\ shape.ramp > 0)
    BY <1>2, <2>2 DEF AskedFor, AskedAt, Overlap, Spiked
  <2>3. QED
    BY <2>1, <2>2
<1> HIDE DEF a, b
<1> DEFINE spiky == shape.kind = "burst"
           k == Unit * dispatched
           l == Unit * dispatched'
<1>11. k \in Nat /\ (l = k \/ l = k + Unit)
  <2>1. Unit * dispatched \in Nat /\ Unit * (dispatched + 1) = Unit * dispatched + Unit
    BY <1>4, <1>5
  <2>2. QED
    BY <1>2, <2>1
<1>12. k <= a + Unit /\ (spiky /\ now < Bend => k <= a)
  <2>1. CASE now = 0
    <3>1. dispatched = 0
      BY <1>1, <1>2, <2>1 DEF Waited
    <3>2. k = 0
      BY <1>5, <3>1
    <3>3. QED
      BY <1>5, <3>2
  <2>2. CASE now # 0
    BY <1>1, <1>2, <1>7, <1>9, <2>2 DEF OnCurve
  <2>3. QED
    BY <2>1, <2>2
<1>13. CASE shape.kind = "ramp" /\ now = 0
  <2>1. dispatched = 0
    BY <1>1, <1>2, <1>13 DEF Waited
  <2>2. k = 0
    BY <1>5, <2>1
  <2>3. l <= b + Unit
    BY <1>5, <1>11, <2>2
  <2>4. QED
    BY <1>2, <1>6, <1>10, <1>13, <2>3
<1>14. CASE ~(shape.kind = "ramp" /\ now = 0)
  <2>1. Gains(now, now')
    BY <1>2, <1>3, <1>4, <1>8, <1>14, WaitGains
  <2>2. b >= a /\ ((spiky /\ now < Bend => now' < Bend) => b >= a + Unit)
    BY <2>1 DEF Gains, a, b
  <2>3. Bend \in Int \/ ~spiky
    <3>1. spiky => shape.pre \in Nat /\ shape.burst \in Nat
      BY <1>2, RatesOfShape
    <3>2. QED
      BY <3>1 DEF Bend
  <2>4. spiky /\ now' < Bend => now < Bend
    BY <1>4, <2>3
  <2>5. l <= b + Unit
    <3>1. CASE spiky /\ now < Bend /\ ~(now' < Bend)
      <4>1. k <= a
        BY <1>12, <3>1
      <4> HIDE DEF k, l
      <4>2. QED
        BY <1>5, <1>11, <2>2, <4>1
    <3>2. CASE ~(spiky /\ now < Bend /\ ~(now' < Bend))
      <4>1. b >= a + Unit
        BY <2>2, <3>2
      <4>2. k <= a + Unit
        BY <1>12
      <4> HIDE DEF k, l
      <4>3. QED
        BY <1>5, <1>11, <4>1, <4>2
    <3>3. QED
      BY <3>1, <3>2
  <2>6. ASSUME spiky, now' < Bend
        PROVE  l <= b
    <3>1. k <= a /\ b >= a + Unit
      BY <1>12, <2>2, <2>4, <2>6
    <3> HIDE DEF k, l
    <3>2. QED
      BY <1>5, <1>11, <3>1
  <2>7. QED
    BY <1>2, <1>6, <1>10, <2>5, <2>6
<1>15. QED
  BY <1>13, <1>14

-----------------------------------------------------------------------------
(* The other steps. *)

LEMMA BeforeTheLoop ==
  ASSUME Validating \/ Provisioning \/ FundingSteps
  PROVE  /\ stage \notin Dispatch \cup {"ready", "failed"} /\ stage' \notin Dispatch
         /\ UNCHANGED <<scenario, paceVars>>
         /\ stage = "validate" /\ stage' \notin {"validate", "failed"} => Violations(scenario) = {}
         /\ stage' = "failed" => cause' = stage
<1> USE DEF At, Goto, Stay, GiveUp, Dispatch
<1>1. CASE Validating
  BY <1>1 DEF Validating, Validate
<1>2. CASE Provisioning
  <2>1. UNCHANGED <<scenario, paceVars>>
    BY <1>2 DEF Provisioning
  <2>2. CASE ResolveAccount
    BY <2>1, <2>2 DEF ResolveAccount, ResolveHot, ResolveLost, ResolveRefused
  <2>3. CASE Provision
    BY <2>1, <2>3
       DEF Provision, Populate, JoinFails, JoinCreated, ListAccounts, JoinRead, Spawn, Created, Read, TaskFails
  <2>4. QED
    BY <1>2, <2>2, <2>3 DEF Provisioning, ProvNext
<1>3. CASE FundingSteps
  <2>1. UNCHANGED <<scenario, paceVars>>
    BY <1>3 DEF FundingSteps
  <2>2. CASE GenerateInChunks
    BY <2>1, <2>2, MiningStages DEF GenerateInChunks, ChunkMined, ChunkLost, ChunkRefused
  <2>3. CASE Warmup
    BY <2>1, <2>3 DEF Warmup, Probe, PollBalance, CheckAge
  <2>4. CASE FundAccounts
    BY <2>1, <2>4
       DEF FundAccounts, Measure, Shield, CheckFunded, SendWithAnchorRetries, SendAccepted, SendInsufficient, SendLost,
           MineForAnchor, WaitOperation, ShieldDone, OperationSucceeds, OperationLost, Begin
  <2>5. QED
    BY <1>3, <2>1, <2>2, <2>3, <2>4 DEF FundingSteps, FundNext
<1>4. QED
  BY <1>1, <1>2, <1>3

LEMMA BeforeTheLoopStep ==
  ASSUME Validating \/ Provisioning \/ FundingSteps, PaceInv
  PROVE  PaceInv'
<1>1. PaceOK /\ StaysValid
  BY DEF PaceInv
<1>2. /\ stage \notin Dispatch \cup {"ready", "failed"} /\ stage' \notin Dispatch
      /\ UNCHANGED <<scenario, shape, now, lag, dispatched>>
      /\ stage = "validate" /\ stage' \notin {"validate", "failed"} => Violations(scenario) = {}
      /\ stage' = "failed" => cause' = stage
  BY BeforeTheLoop DEF paceVars
<1>3. PaceOK'
  BY <1>1, <1>2 DEF PaceOK
<1>4. StaysValid'
  BY <1>1, <1>2 DEF StaysValid
<1>5. Waited' /\ InStep' /\ OnTarget' /\ OnCurve'
  BY <1>2 DEF Waited, InStep, OnTarget, OnCurve
<1>6. QED
  BY <1>3, <1>4, <1>5 DEF PaceInv

\* What was validated the generators do not refuse.
LEMMA ValidIsTaken ==
  ASSUME LoadOK, NEW sh
  PROVE  ~Refused(EffectiveFlows(sh))
<1> DEFINE w == EffectiveFlows(sh)
<1>1. w \in [Flows -> Int] /\ Total(w) = 10 /\ \A f \in Flows : w[f] >= 0
  <2>1. CASE sh.kind = "mixed"
    <3>1. w = MixedFlowConfig
      BY <2>1 DEF EffectiveFlows
    <3>2. /\ w \in [Flows -> Int]
          /\ w["TToT"] = 0 /\ w["TToZ"] = 5 /\ w["ZToT"] = 0 /\ w["ZToZ"] = 5
      BY <3>1 DEF MixedFlowConfig, Flows, Whole
    <3> HIDE DEF w
    <3>3. Total(w) = w["TToT"] + w["TToZ"] + w["ZToT"] + w["ZToZ"]
      BY <3>2, TotalIsSum
    <3>4. QED
      BY <3>2, <3>3 DEF Flows
  <2>2. CASE sh.kind # "mixed"
    <3>1. w = scenario.flows
      BY <2>2 DEF EffectiveFlows
    <3>2. QED
      BY <3>1 DEF LoadOK, Whole
  <2>3. QED
    BY <2>1, <2>2
<1>2. DOMAIN w = Flows
  BY <1>1
<1> HIDE DEF w
<1>3. ~Refused(w)
  BY <1>1, <1>2 DEF Refused
<1>4. QED
  BY <1>3 DEF w

LEMMA BeginLoadStep ==
  ASSUME AccountsOK, PaceInv, BeginLoad, UNCHANGED <<scenario, active>>
  PROVE  PaceInv'
<1>1. PaceOK /\ StaysValid
  BY DEF PaceInv
<1>2. stage = "ready" /\ shape' \in Shapes /\ Accepted(shape') /\ UNCHANGED <<now, lag, dispatched>>
  BY DEF BeginLoad, At
<1>3. Violations(scenario) = {}
  BY <1>1, <1>2 DEF StaysValid
<1>4. LoadOK
  BY <1>3, ValidScenario
<1>5. stage' = "load" /\ UNCHANGED cause
  <2>1. ~Refused(EffectiveFlows(shape'))
    BY <1>4, ValidIsTaken
  <2>2. QED
    BY <2>1 DEF BeginLoad, Goto
<1>6. now = 0 /\ lag = 0 /\ dispatched = 0
  BY <1>1, <1>2 DEF PaceOK, Dispatch
<1>7. now' = 0 /\ lag' = 0 /\ dispatched' = 0
  BY <1>2, <1>6
<1>8. PaceOK'
  BY <1>2, <1>5, <1>7 DEF PaceOK, Dispatch, Accepted
<1>9. StaysValid'
  BY <1>3, <1>5 DEF StaysValid
<1>10. Waited' /\ OnCurve'
  BY <1>7 DEF Waited, OnCurve
<1>11. InStep'
  <2>1. Period(Times(1, 1))' \in Nat
    <3>1. Period(Times(1, 1)) \in Nat
      <4>1. 1 \in Nat /\ 1 >= 1
        OBVIOUS
      <4>2. QED
        BY <1>4, <4>1, TimesWait
    <3>2. Period(Times(1, 1))' = Period(Times(1, 1))
      BY DEF Times, Period
    <3>3. QED
      BY <3>1, <3>2
  <2>2. now' = dispatched' * Period(Times(1, 1))' + lag'
    BY <1>7, <2>1
  <2>3. QED
    BY <2>2 DEF InStep
<1>12. OnTarget'
  <2>1. scenario.rate \in Nat /\ Second \in Nat /\ Second >= 1 /\ scenario.duration \in Nat
    BY <1>4 DEF LoadOK
  <2>2. ExpectedIntents(scenario) \in Nat
    <3>1. scenario.rate * scenario.duration \in Nat
      BY <2>1
    <3>2. QED
      BY <2>1, <3>1, CeilDivCovers DEF ExpectedIntents
  <2>3. Second * dispatched' <= scenario'.rate * now' /\ dispatched' <= ExpectedIntents(scenario')
    BY <1>7, <2>1, <2>2
  <2>4. QED
    BY <1>7, <2>3 DEF OnTarget
<1>13. QED
  BY <1>8, <1>9, <1>10, <1>11, <1>12 DEF PaceInv

\* At the end of the window, and where nothing moves.
LEMMA StandStill ==
  ASSUME PaceInv, UNCHANGED <<scenario, active, shape, now, lag, dispatched, cause>>,
         stage' = stage \/ (stage = "load" /\ stage' = "drain")
  PROVE  PaceInv'
<1>1. /\ stage' \in Dispatch <=> stage \in Dispatch
      /\ stage' \in {"validate", "failed"} <=> stage \in {"validate", "failed"}
      /\ stage' = "failed" <=> stage = "failed"
  BY DEF Dispatch
<1>2. PaceOK'
  BY <1>1 DEF PaceInv, PaceOK, Accepted
<1>3. StaysValid'
  BY <1>1 DEF PaceInv, StaysValid
<1>4. /\ InitialTps' = InitialTps /\ Rates' = Rates /\ LongestWait' = LongestWait /\ Unit' = Unit
      /\ Times(1, 1)' = Times(1, 1)
  BY RatesKept
<1>5. Waited'
  BY <1>1, <1>4 DEF PaceInv, Waited
<1>6. Constant' = Constant /\ Bend' = Bend /\ AskedFor' = AskedFor
  BY DEF Constant, Bend, AskedFor, Overlap
<1>7. InStep' /\ OnTarget' /\ OnCurve'
  BY <1>1, <1>4, <1>6 DEF PaceInv, InStep, OnTarget, OnCurve
<1>8. QED
  BY <1>2, <1>3, <1>5, <1>7 DEF PaceInv

LEMMA DispatchingStep ==
  ASSUME AccountsOK, PaceInv, Dispatching
  PROVE  PaceInv'
<1>1. UNCHANGED <<scenario, active>>
  BY DEF Dispatching, provVars
<1>2. CASE BeginLoad
  BY <1>1, <1>2, BeginLoadStep
<1>3. CASE Tick
  <2>1. StaysValid'
    BY <1>1, <1>3 DEF PaceInv, StaysValid, Tick, At, Stay
  <2>2. QED
    BY <1>1, <1>3, <2>1, WaitedStep, InStepStep, OnTargetStep, OnCurveStep DEF PaceInv
<1>4. CASE WindowCloses \/ LoadCancelled
  BY <1>1, <1>4, StandStill DEF WindowCloses, LoadCancelled, paceVars, At, Goto
<1>5. QED
  BY <1>2, <1>3, <1>4 DEF Dispatching, PaceNext

LEMMA InitPaceInv == Init => PaceInv
BY DEF Init, PaceInit, PaceInv, PaceOK, StaysValid, Waited, InStep, OnTarget, OnCurve, Dispatch

LEMMA NextPaceInv == IInv /\ PaceInv /\ [Next]_vars => PaceInv'
<1> SUFFICES ASSUME IInv, PaceInv, [Next]_vars
             PROVE  PaceInv'
  OBVIOUS
<1>1. AccountsOK
  BY DEF IInv, AccountsInv
<1>2. CASE Validating \/ Provisioning \/ FundingSteps
  BY <1>2, BeforeTheLoopStep
<1>3. CASE Dispatching
  BY <1>1, <1>3, DispatchingStep
<1>4. CASE UNCHANGED vars
  BY <1>4, StandStill DEF vars, provVars, paceVars
<1>5. QED
  BY <1>2, <1>3, <1>4 DEF Next

\* The dispatch loop's own inductive invariant: its clock is the waits it took and the time
\* it was late, each of them computed from a rate of the window, and what it has dispatched
\* is at most what the target, and the shape's curve, ask for by then.
THEOREM PaceInvariance == Spec => []PaceInv
<1>1. Init /\ [][Next]_vars /\ []IInv => []PaceInv
  BY InitPaceInv, NextPaceInv, PTL
<1>2. QED
  BY <1>1, Invariance, PTL DEF Spec

\* An output for each intent of the load: in the load phase, whatever calls were lost on the
\* way to it, a shape other than the burst has dispatched at most as many intents as the
\* plan has outputs for all sinks together (compute_funding_plan against the scheduler and
\* the dispatch loop), for any rate that the scheduler's floor does not raise, any fraction
\* of active accounts and however late the loop is; and the generators refuse nothing that
\* validate_scenario let pass.
THEOREM FundedSafety == Spec => []FundedForLoad
<1>1. IInv /\ PaceInv /\ SinksFunded => FundedForLoad
  <2> SUFFICES ASSUME IInv, PaceInv, SinksFunded
               PROVE  FundedForLoad
    OBVIOUS
  <2>1. AccountsOK /\ StaysValid /\ PaceOK /\ OnTarget
    BY DEF IInv, AccountsInv, PaceInv
  <2>2. ASSUME stage \in {"load", "drain"}, shape.kind # "burst", AboveFloor(Times(1, 1))
        PROVE  dispatched <= Plan.outputs * Cardinality(active)
    <3> DEFINE c == Cardinality(active)
               E == ExpectedIntents(scenario)
    <3>1. LoadOK
      BY <2>1, <2>2, ValidScenario DEF StaysValid
    <3>2. dispatched \in Nat /\ dispatched <= E /\ (active = {} => dispatched = 0)
      BY <2>1, <2>2 DEF PaceOK, OnTarget, Dispatch
    <3>3. E \in Nat
      <4>1. scenario.rate * scenario.duration \in Nat /\ Second \in Nat /\ Second >= 1
        BY <3>1 DEF LoadOK
      <4>2. QED
        BY <4>1, CeilDivCovers DEF ExpectedIntents
    <3>4. c \in Nat /\ Plan.outputs \in Nat /\ Plan.outputs >= 1
      BY <2>1, ActiveIsFinite, RoundsAreThePlan
    <3>5. Plan.outputs = MaxOf(CeilDiv(E, MaxOf(c, 1)), 1)
      BY DEF Plan, ComputePlan
    <3> HIDE DEF c, E
    <3>6. CASE c = 0
      <4>1. active = {}
        <5>1. IsFiniteSet(active)
          BY <2>1, ActiveIsFinite
        <5>2. QED
          BY <3>6, <5>1, FS_EmptySet DEF c
      <4>2. QED
        BY <3>2, <3>4, <3>6, <4>1 DEF c
    <3>7. CASE c # 0
      <4>1. c >= 1 /\ MaxOf(c, 1) = c
        BY <3>4, <3>7 DEF MaxOf
      <4>2. CeilDiv(E, c) \in Nat /\ CeilDiv(E, c) * c >= E
        BY <3>3, <3>4, <4>1, CeilDivCovers
      <4> DEFINE q == CeilDiv(E, c)
      <4> HIDE DEF q
      <4>3. Plan.outputs >= q /\ q \in Nat /\ q * c >= E
        BY <3>5, <4>1, <4>2 DEF MaxOf, q
      <4>4. Plan.outputs * c >= q * c /\ Plan.outputs * c \in Nat
        BY <3>4, <4>3
      <4>5. dispatched <= Plan.outputs * c
        BY <3>2, <3>3, <3>4, <4>3, <4>4
      <4>6. QED
        BY <4>5 DEF c
    <3>8. QED
      BY <3>6, <3>7
  <2>3. QED
    BY <2>1, <2>2 DEF FundedForLoad, StaysValid
<1>2. QED
  BY <1>1, Invariance, PaceInvariance, SinkSafety, PTL

\* The loop follows the shape's curve although it looks at it only when a wait begins: it is
\* never ahead by more than one intent - that of the first tick of a ramp, or of the wait in
\* which a spike ends or a lull begins (dispatch_tick_period against instantaneous_tps);
\* at a constant rate all that is missing when the window closes is what it was late; and it
\* outlives the window by one wait of the window's rates, for every shape, rate and delay.
THEOREM PacedSafety == Spec => []PacedByTheShape
<1>1. IInv /\ PaceInv => PacedByTheShape
  <2> SUFFICES ASSUME IInv, PaceInv, stage \in {"load", "drain"}
               PROVE  /\ (\A tps \in Rates : AboveFloor(tps)) => Unit * dispatched <= AskedFor + Unit
                      /\ now - lag < scenario.duration + LongestWait
                      /\ (now >= scenario.duration /\ shape.kind \in {"steady", "mixed"}
                            /\ Cardinality(active) >= 2) =>
                           dispatched * Period(Times(1, 1)) + lag >= scenario.duration
    BY DEF PacedByTheShape
  <2>1. AccountsOK /\ PaceOK /\ StaysValid /\ Waited /\ InStep /\ OnCurve
    BY DEF IInv, AccountsInv, PaceInv
  <2>2. LoadOK /\ stage \in Dispatch
    BY <2>1, ValidScenario DEF StaysValid, Dispatch
  <2>3. shape \in LoadShape /\ Accepted(shape)
    BY <2>1, <2>2, PacingAssumption DEF PaceOK
  <2>4. now \in Nat /\ lag \in Nat /\ dispatched \in Nat
    BY <2>1 DEF PaceOK
  <2>5. AskedFor \in Nat /\ Unit \in Nat
    <3>1. AskedFor = AskedAt(now)
      BY <2>3, <2>4, AskedIsAskedAt
    <3>2. QED
      BY <2>2, <2>3, <2>4, <3>1, AskedType
  <2>6. (\A tps \in Rates : AboveFloor(tps)) => Unit * dispatched <= AskedFor + Unit
    <3>1. CASE now = 0
      <4>1. dispatched = 0
        BY <2>1, <2>2, <3>1 DEF Waited
      <4>2. Unit * dispatched = 0
        BY <2>5, <4>1
      <4>3. QED
        BY <2>5, <4>2
    <3>2. CASE now # 0
      BY <2>1, <2>2, <3>2 DEF OnCurve
    <3>3. QED
      BY <3>1, <3>2
  <2>7. now - lag < scenario.duration + LongestWait
    <3>1. scenario.duration \in Nat /\ scenario.duration >= 1 /\ LongestWait \in Nat
      BY <2>2, <2>3, NoWaitIsLonger DEF LoadOK
    <3>2. now = 0 => lag = 0
      BY <2>1, <2>2 DEF Waited
    <3>3. now # 0 => now - lag < scenario.duration + LongestWait
      BY <2>1, <2>2 DEF Waited
    <3>4. QED
      BY <2>4, <3>1, <3>2, <3>3
  <2>8. (now >= scenario.duration /\ shape.kind \in {"steady", "mixed"} /\ Cardinality(active) >= 2) =>
          dispatched * Period(Times(1, 1)) + lag >= scenario.duration
    BY <2>1, <2>2 DEF InStep, Constant
  <2>9. QED
    BY <2>6, <2>7, <2>8
<1>2. QED
  BY <1>1, Invariance, PaceInvariance, PTL

(***************************************************************************)
(* What the hot wallet holds while no call goes wrong, for                 *)
(* WaitingConverges: with a shielded miner address, a run that creates or  *)
(* finds its hot wallet by the name.                                       *)
(***************************************************************************)

Undisturbed == faults = 0 /\ minerPool = "shielded" /\ given = Nobody

\* The blocks mined between the attempts of a round pay for the fees, of which the plan and
\* ensure_funded know nothing.
RewardsCoverFees == Rounds * Fee <= Reward * (SendRetries - Anchor)

\* What the wallet holds in the first n blocks, and what it gets back with the next.
Held(n) == Value("shielded", 1 .. n)
Pending == Total([t \in mempool |-> t.change])

\* The cost of a round and of those after it.
ToPay(r) ==
  Cardinality(active) * ((Plan.outputs + 1 - r) * Plan.transparent
                         + (IF r = 1 THEN Plan.shielded ELSE 0))

\* The blocks mined since the round before was sent.
Since == IF stage = "anchor" THEN retries - 1 ELSE retries

NotesOK ==
  /\ hotNotes \in [Pools -> [1 .. MaxHeight -> Nat]] /\ height <= MaxHeight
  /\ IsFiniteSet(mempool) /\ \A t \in mempool : t.change \in Nat

\* There is nothing to shield.
NoShielding ==
  /\ \A h \in 1 .. MaxHeight : hotNotes["transparent"][h] = 0
  /\ stage \notin {"shield", "shieldWait", "shieldMine"}

NoneBroken == \A a \in Population : task[a] # "broken"
PaidToHot == stage \notin {"validate", "resolve", "failed"} => MinerPaysHot

\* The value is there for the rounds to come, up to the fees of those before; when blocks
\* were waited for, all of it is in blocks the wait goes back to, and their rewards as well.
ValueLasts ==
  /\ retries \in Nat /\ (stage \in Early => retries = 0)
  /\ stage \in Fanning =>
       /\ Since \in 0 .. height /\ (stage # "anchor" => retries < SendRetries)
       /\ round <= Rounds
       /\ Since = 0 => Held(height) + Pending + (round - 1) * Fee >= ToPay(round)
       /\ Since > 0 =>
            /\ mempool = {}
            /\ \A j \in 1 .. Since :
                 Held(height - Since + j) + (round - 1) * Fee >= ToPay(round) + j * Reward

\* Then no round needs the last attempt, and setup has other reasons to give up.
Converges ==
  RewardsCoverFees =>
    /\ stage = "anchor" => retries < SendRetries
    /\ stage = "failed" => cause \in {"validate", "populate", "balance", "age", "check"}

CalmParts == NotesOK /\ NoShielding /\ NoneBroken /\ PaidToHot /\ ValueLasts /\ Converges
CalmInv == faults \in Nat /\ (Undisturbed => CalmParts)

-----------------------------------------------------------------------------
(* Sums, of numbers that are counts. *)

\* As many pairs as the numbers amount to.
Shares(v, s) == UNION {{x} \X (1 .. v[x]) : x \in s}

LEMMA SharesAreFinite ==
  ASSUME NEW s, IsFiniteSet(s), NEW v, \A x \in s : v[x] \in Nat
  PROVE  IsFiniteSet(Shares(v, s)) /\ Cardinality(Shares(v, s)) \in Nat
<1> DEFINE all == {{x} \X (1 .. v[x]) : x \in s}
           share == [x \in s |-> {x} \X (1 .. v[x])]
<1>1. share \in Surjection(s, all)
  BY DEF Surjection
<1>2. ASSUME NEW T \in all
      PROVE  IsFiniteSet(T)
  <2>1. PICK x \in s : T = {x} \X (1 .. v[x])
    OBVIOUS
  <2>2. v[x] \in Nat /\ 1 \in Int /\ v[x] \in Int
    OBVIOUS
  <2>3. IsFiniteSet({x}) /\ IsFiniteSet(1 .. v[x])
    BY <2>2, FS_Singleton, FS_Interval
  <2>4. QED
    BY <2>1, <2>3, FS_Product
<1> HIDE DEF share, all
<1>3. IsFiniteSet(all)
  BY <1>1, FS_Surjection
<1>4. IsFiniteSet(UNION all)
  BY <1>2, <1>3, FS_UNION
<1>5. IsFiniteSet(Shares(v, s))
  BY <1>4 DEF Shares, all
<1>6. QED
  BY <1>5, FS_CardinalityType

LEMMA SharesSplit ==
  ASSUME NEW s, IsFiniteSet(s), NEW v, \A x \in s : v[x] \in Nat, NEW x \in s
  PROVE  Cardinality(Shares(v, s)) = v[x] + Cardinality(Shares(v, s \ {x}))
<1> DEFINE rest == Shares(v, s \ {x})
           own == {x} \X (1 .. v[x])
<1>1. IsFiniteSet(rest) /\ Cardinality(rest) \in Nat
  <2>1. IsFiniteSet(s \ {x}) /\ \A y \in s \ {x} : v[y] \in Nat
    BY FS_RemoveElement
  <2>2. QED
    BY <2>1, SharesAreFinite
<1>2. IsFiniteSet(own) /\ Cardinality(own) = v[x]
  <2>1. v[x] \in Nat /\ v[x] \in Int /\ 1 \in Int
    OBVIOUS
  <2>2. IsFiniteSet({x}) /\ Cardinality({x}) = 1
    BY FS_Singleton
  <2>3. IsFiniteSet(1 .. v[x]) /\ Cardinality(1 .. v[x]) = v[x]
    <3>1. /\ IsFiniteSet(1 .. v[x])
          /\ Cardinality(1 .. v[x]) = IF 1 > v[x] THEN 0 ELSE v[x] - 1 + 1
      BY <2>1, FS_Interval
    <3>2. QED
      BY <2>1, <3>1
  <2>4. IsFiniteSet(own) /\ Cardinality(own) = 1 * v[x]
    BY <2>2, <2>3, FS_Product
  <2>5. QED
    BY <2>1, <2>4
<1>3. Shares(v, s) = own \cup rest /\ own \cap rest = {}
  BY DEF Shares
<1> HIDE DEF own, rest
<1>4. Cardinality(own \cup rest) = Cardinality(own) + Cardinality(rest) - Cardinality(own \cap rest)
  BY <1>1, <1>2, FS_Union
<1>5. Cardinality(own \cap rest) = 0
  BY <1>3, FS_EmptySet
<1>6. v[x] \in Nat
  OBVIOUS
<1>7. Cardinality(own \cup rest) = v[x] + Cardinality(rest)
  BY <1>1, <1>2, <1>4, <1>5, <1>6
<1>8. QED
  BY <1>3, <1>7 DEF rest

\* Of finite sets that are not all good there is one that is bad with every smaller one good.
LEMMA SmallestSet ==
  ASSUME NEW S, IsFiniteSet(S), NEW Bad, Bad \subseteq SUBSET S, Bad # {}
  PROVE  \E s \in Bad : \A y \in s : s \ {y} \notin Bad
<1> DEFINE Sizes == {Cardinality(s) : s \in Bad}
<1>1. \A s \in Bad : IsFiniteSet(s) /\ Cardinality(s) \in Nat
  BY FS_Subset, FS_CardinalityType
<1>2. Sizes \subseteq Nat /\ Sizes # {}
  BY <1>1
<1>3. PICK n \in Sizes : \A m \in Sizes : <<m, n>> \notin OpToRel(<, Nat)
  <2>1. IsWellFoundedOn(OpToRel(<, Nat), Nat)
    BY NatLessThanWellFounded
  <2> HIDE DEF Sizes
  <2>2. QED
    BY <1>2, <2>1, WFMin
<1>4. PICK s \in Bad : n = Cardinality(s)
  BY <1>3
<1>5. ASSUME NEW y \in s
      PROVE  s \ {y} \notin Bad
  <2>1. Cardinality(s \ {y}) = n - 1
    BY <1>1, <1>4, FS_RemoveElement
  <2>2. IsFiniteSet(s \ {y})
    BY <1>1, <1>4, FS_RemoveElement
  <2>3. Cardinality(s \ {y}) \in Nat
    BY <2>2, FS_CardinalityType
  <2>4. n \in Nat /\ n - 1 \in Nat
    BY <1>1, <1>4, <2>1, <2>3
  <2>5. <<n - 1, n>> \in OpToRel(<, Nat)
    BY <2>4 DEF OpToRel
  <2>6. n - 1 \notin Sizes
    BY <1>3, <2>5
  <2>7. QED
    BY <2>1, <2>6
<1>6. QED
  BY <1>5

\* A sum is whatever adds one number at a time, whichever way the fold goes through them.
LEMMA TotalDetermined ==
  ASSUME NEW v, IsFiniteSet(DOMAIN v), NEW count, count[{}] = 0,
         \A s \in SUBSET DOMAIN v : \A y \in s : count[s] = v[y] + count[s \ {y}]
  PROVE  Total(v) = count[DOMAIN v]
<1> DEFINE S == DOMAIN v
           x(s) == CHOOSE y \in s : TRUE
           Folds(g) == g = [s \in SUBSET S |-> IF s = {} THEN 0 ELSE v[x(s)] + g[s \ {x(s)}]]
           iter == CHOOSE g : Folds(g)
           sum == [s \in SUBSET S |-> count[s]]
<1>1. Total(v) = iter[S]
  BY DEF Total, MapThenSumSet, MapThenFoldSet
<1>2. \A s \in SUBSET S : s # {} => x(s) \in s
  OBVIOUS
<1>0. IsFiniteSet(S) /\ \A s \in SUBSET S : \A y \in s : count[s] = v[y] + count[s \ {y}]
  OBVIOUS
<1> HIDE DEF x, S
<1>3. ASSUME NEW s \in SUBSET S
      PROVE  sum[s] = IF s = {} THEN 0 ELSE v[x(s)] + sum[s \ {x(s)}]
  <2>1. CASE s = {}
    BY <2>1
  <2>2. CASE s # {}
    <3>1. x(s) \in s
      BY <1>2, <2>2
    <3>2. s \ {x(s)} \in SUBSET S
      OBVIOUS
    <3>3. QED
      BY <1>0, <2>2, <3>1, <3>2
  <2>3. QED
    BY <2>1, <2>2
<1>4. Folds(sum)
  <2>1. sum = [s \in SUBSET S |-> sum[s]]
    OBVIOUS
  <2> HIDE DEF sum
  <2>2. QED
    BY <1>3, <2>1
<1>5. Folds(iter)
  <2> HIDE DEF Folds, sum
  <2>1. \E g : Folds(g)
    BY <1>4
  <2>2. QED
    BY <2>1
<1>6. ASSUME NEW s \in SUBSET S
      PROVE  iter[s] = IF s = {} THEN 0 ELSE v[x(s)] + iter[s \ {x(s)}]
  <2> HIDE DEF iter
  <2>1. QED
    BY <1>5
<1> HIDE DEF iter
<1> DEFINE Bad == {s \in SUBSET S : iter[s] # sum[s]}
<1>7. Bad = {}
  <2> SUFFICES ASSUME Bad # {}
               PROVE  FALSE
    OBVIOUS
  <2>1. PICK s \in Bad : \A y \in s : s \ {y} \notin Bad
    <3>1. Bad \subseteq SUBSET S
      OBVIOUS
    <3> HIDE DEF Bad
    <3>2. QED
      BY <1>0, <3>1, SmallestSet
  <2> HIDE DEF sum
  <2>2. s \in SUBSET S /\ s # {}
    BY <1>3, <1>6
  <2>3. x(s) \in s /\ s \ {x(s)} \in SUBSET S
    BY <1>2, <2>2
  <2>4. iter[s \ {x(s)}] = sum[s \ {x(s)}]
    BY <2>1, <2>3
  <2>5. QED
    BY <1>3, <1>6, <2>2, <2>4
<1>8. iter[S] = sum[S]
  BY <1>7
<1>9. QED
  BY <1>1, <1>8 DEF S

\* A sum of numbers is the number of their shares.
LEMMA TotalIsCount ==
  ASSUME NEW v, IsFiniteSet(DOMAIN v), \A y \in DOMAIN v : v[y] \in Nat
  PROVE  Total(v) = Cardinality(Shares(v, DOMAIN v))
<1> DEFINE count == [s \in SUBSET DOMAIN v |-> Cardinality(Shares(v, s))]
<1>1. count[{}] = 0
  <2>1. Shares(v, {}) = {}
    BY DEF Shares
  <2>2. QED
    BY <2>1, FS_EmptySet
<1>2. ASSUME NEW s \in SUBSET DOMAIN v, NEW y \in s
      PROVE  count[s] = v[y] + count[s \ {y}]
  <2>1. IsFiniteSet(s) /\ \A z \in s : v[z] \in Nat
    BY FS_Subset
  <2>2. Cardinality(Shares(v, s)) = v[y] + Cardinality(Shares(v, s \ {y}))
    BY <2>1, SharesSplit
  <2>3. QED
    BY <2>2
<1>3. count[DOMAIN v] = Cardinality(Shares(v, DOMAIN v))
  OBVIOUS
<1> HIDE DEF count
<1>4. QED
  BY <1>1, <1>2, <1>3, TotalDetermined

\* The numbers of a set, added up.
SumOver(v, S) == Total([x \in S |-> v[x]])

LEMMA SumIsShares ==
  ASSUME NEW v, NEW S, IsFiniteSet(S), \A x \in S : v[x] \in Nat
  PROVE  SumOver(v, S) = Cardinality(Shares(v, S)) /\ SumOver(v, S) \in Nat /\ IsFiniteSet(Shares(v, S))
<1> DEFINE w == [x \in S |-> v[x]]
<1>1. DOMAIN w = S /\ \A x \in S : w[x] = v[x]
  OBVIOUS
<1>2. SumOver(v, S) = Total(w)
  BY DEF SumOver
<1> HIDE DEF w
<1>3. IsFiniteSet(DOMAIN w) /\ \A x \in DOMAIN w : w[x] \in Nat
  BY <1>1
<1>4. Total(w) = Cardinality(Shares(w, DOMAIN w))
  BY <1>3, TotalIsCount
<1>5. Shares(w, DOMAIN w) = Shares(v, S)
  BY <1>1 DEF Shares
<1>6. IsFiniteSet(Shares(v, S)) /\ Cardinality(Shares(v, S)) \in Nat
  BY SharesAreFinite
<1>7. QED
  BY <1>2, <1>4, <1>5, <1>6

\* More numbers and larger ones add up to more.
LEMMA SumGrows ==
  ASSUME NEW T, IsFiniteSet(T), NEW S \in SUBSET T, NEW v, NEW w, \A x \in T : w[x] \in Nat,
         \A x \in S : v[x] \in Nat /\ v[x] <= w[x]
  PROVE  SumOver(v, S) <= SumOver(w, T)
<1>1. IsFiniteSet(S)
  BY FS_Subset
<1>2. /\ SumOver(v, S) = Cardinality(Shares(v, S)) /\ SumOver(v, S) \in Nat
      /\ SumOver(w, T) = Cardinality(Shares(w, T)) /\ IsFiniteSet(Shares(w, T)) /\ SumOver(w, T) \in Nat
  BY <1>1, SumIsShares
<1>3. Shares(v, S) \subseteq Shares(w, T)
  <2>1. ASSUME NEW x \in S
        PROVE  {x} \X (1 .. v[x]) \subseteq {x} \X (1 .. w[x])
    <3>1. \A i \in 1 .. v[x] : i \in 1 .. w[x]
      OBVIOUS
    <3>2. QED
      BY <3>1
  <2>2. QED
    BY <2>1 DEF Shares
<1>4. Cardinality(Shares(v, S)) <= Cardinality(Shares(w, T))
  BY <1>2, <1>3, FS_Subset
<1>5. QED
  BY <1>2, <1>4

LEMMA SumSplits ==
  ASSUME NEW T, IsFiniteSet(T), NEW S \in SUBSET T, NEW v, \A x \in T : v[x] \in Nat
  PROVE  SumOver(v, T) = SumOver(v, S) + SumOver(v, T \ S)
<1>1. IsFiniteSet(S) /\ IsFiniteSet(T \ S)
  BY FS_Subset
<1>2. /\ SumOver(v, S) = Cardinality(Shares(v, S)) /\ IsFiniteSet(Shares(v, S)) /\ SumOver(v, S) \in Nat
      /\ SumOver(v, T \ S) = Cardinality(Shares(v, T \ S)) /\ IsFiniteSet(Shares(v, T \ S)) /\ SumOver(v, T \ S) \in Nat
      /\ SumOver(v, T) = Cardinality(Shares(v, T))
  BY <1>1, SumIsShares
<1>3. Shares(v, T) = Shares(v, S) \cup Shares(v, T \ S) /\ Shares(v, S) \cap Shares(v, T \ S) = {}
  BY DEF Shares
<1>4. Cardinality(Shares(v, S) \cup Shares(v, T \ S))
        = Cardinality(Shares(v, S)) + Cardinality(Shares(v, T \ S)) - Cardinality(Shares(v, S) \cap Shares(v, T \ S))
  BY <1>2, FS_Union
<1>5. Cardinality(Shares(v, S) \cap Shares(v, T \ S)) = 0
  BY <1>3, FS_EmptySet
<1>6. QED
  BY <1>2, <1>3, <1>4, <1>5

LEMMA SumOfOne ==
  ASSUME NEW x, NEW v, v[x] \in Nat
  PROVE  SumOver(v, {x}) = v[x] /\ SumOver(v, {}) = 0
<1>1. IsFiniteSet({x}) /\ IsFiniteSet({})
  BY FS_Singleton, FS_EmptySet
<1>2. SumOver(v, {x}) = Cardinality(Shares(v, {x})) /\ SumOver(v, {}) = Cardinality(Shares(v, {}))
  BY <1>1, SumIsShares
<1>3. Cardinality(Shares(v, {x})) = v[x] + Cardinality(Shares(v, {x} \ {x}))
  BY <1>1, SharesSplit
<1>4. Shares(v, {x} \ {x}) = {} /\ Shares(v, {}) = {}
  BY DEF Shares
<1>5. Cardinality({}) = 0
  BY FS_EmptySet
<1>6. QED
  BY <1>2, <1>3, <1>4, <1>5

\* A set of numbers that add up to enough has a part that does, with none left over.
LEMMA PartSuffices ==
  ASSUME NEW T, IsFiniteSet(T), NEW v, \A x \in T : v[x] \in Nat,
         NEW amount \in Nat, SumOver(v, T) >= amount
  PROVE  \E S \in SUBSET T : SumOver(v, S) >= amount /\ \A x \in S : SumOver(v, S \ {x}) < amount
<1> DEFINE Enough(S) == SumOver(v, S) >= amount
           Big == {S \in SUBSET T : Enough(S)}
<1>1. \A S \in SUBSET T : SumOver(v, S) \in Nat
  BY FS_Subset, SumIsShares
<1>2. T \in Big
  OBVIOUS
<1>3. Big \subseteq SUBSET T /\ \A S \in SUBSET T : S \in Big <=> Enough(S)
  OBVIOUS
<1> HIDE DEF Big
<1>4. Big # {}
  BY <1>2
<1>5. PICK S \in Big : \A x \in S : S \ {x} \notin Big
  BY <1>3, <1>4, SmallestSet
<1>6. S \in SUBSET T /\ Enough(S)
  BY <1>3, <1>5
<1>7. ASSUME NEW x \in S
      PROVE  SumOver(v, S \ {x}) < amount
  <2>1. S \ {x} \in SUBSET T
    BY <1>6
  <2>2. ~Enough(S \ {x}) /\ SumOver(v, S \ {x}) \in Nat
    BY <1>1, <1>3, <1>5, <2>1
  <2>3. QED
    BY <2>2
<1>8. QED
  BY <1>6, <1>7

-----------------------------------------------------------------------------
(* The rounds' costs and the wallet's notes. *)

LEMMA PlanAmounts ==
  ASSUME AccountsOK
  PROVE  /\ Plan.outputs \in Nat /\ Plan.outputs >= 1 /\ Rounds = Plan.outputs
         /\ Plan.transparent \in Nat /\ Plan.shielded \in Nat /\ Cardinality(active) \in Nat
<1> DEFINE each == Plan.outputs
           mean == (scenario.min + scenario.max) \div 2
<1>1. each \in Nat /\ each >= 1 /\ Rounds = each /\ Cardinality(active) \in Nat
  BY RoundsAreThePlan, ActiveIsFinite
<1>2. scenario.min \in Nat /\ scenario.max \in Nat /\ MinTransparent \in Nat /\ MinShielded \in Nat
  BY ScenarioAssumption, FundingAssumption DEF AccountsOK, ScenarioConfig
<1>3. /\ Plan.transparent = MaxOf(mean + mean \div 2, MinTransparent)
      /\ Plan.shielded = MaxOf((each * mean * 3) \div 2, MinShielded)
  BY DEF Plan, ComputePlan
<1>4. mean \in Nat /\ mean \div 2 \in Nat
  BY <1>2
<1> HIDE DEF each, mean
<1>5. each * mean \in Nat
  BY <1>1, <1>4
<1>6. each * mean * 3 \in Nat
  BY <1>5
<1>7. (each * mean * 3) \div 2 \in Nat
  BY <1>6
<1>8. Plan.transparent \in Nat /\ Plan.shielded \in Nat
  BY <1>2, <1>3, <1>4, <1>7 DEF MaxOf
<1>9. QED
  BY <1>1, <1>8 DEF each

LEMMA RoundsToPay ==
  ASSUME AccountsOK, NEW r \in Nat, r >= 1, r <= Rounds
  PROVE  /\ Cost(r) \in Nat /\ ToPay(r) \in Nat /\ ToPay(r + 1) \in Nat
         /\ ToPay(1) = Needed /\ ToPay(r) = Cost(r) + ToPay(r + 1)
<1> DEFINE c == Cardinality(active)
           o == Plan.outputs
           t == Plan.transparent
           s == Plan.shielded
           first(q) == IF q = 1 THEN s ELSE 0
<1>1. c \in Nat /\ o \in Nat /\ t \in Nat /\ s \in Nat /\ r <= o /\ o >= 1
  BY PlanAmounts
<1>2. /\ Cost(r) = c * (t + first(r)) /\ Needed = (o * t + s) * c
      /\ \A q : ToPay(q) = c * ((o + 1 - q) * t + first(q))
  BY <1>1 DEF Cost, Needed, ToPay
<1> HIDE DEF c, o, t, s
<1>3. first(r) \in Nat /\ first(r + 1) = 0 /\ first(1) = s
  BY <1>1
<1> HIDE DEF first
<1>4. o + 1 - r = (o - r) + 1 /\ o - r \in Nat /\ o + 1 - (r + 1) = o - r /\ o + 1 - 1 = o
  BY <1>1
<1> DEFINE u == (o - r) * t
<1>5. u \in Nat /\ (o + 1 - r) * t = u + t
  <2>1. ((o - r) + 1) * t = (o - r) * t + t /\ (o - r) * t \in Nat
    BY <1>1, <1>4
  <2>2. QED
    BY <1>4, <2>1
<1>6. ToPay(r + 1) = c * (u + first(r + 1)) /\ ToPay(r) = c * ((u + t) + first(r))
  BY <1>2, <1>4, <1>5
<1>7. ToPay(1) = c * (o * t + s)
  BY <1>2, <1>3, <1>4
<1> HIDE DEF u
<1>8. u + first(r + 1) = u
  BY <1>3, <1>5
<1>9. c * ((u + t) + first(r)) = c * (t + first(r)) + c * u
  <2>1. (u + t) + first(r) = (t + first(r)) + u /\ t + first(r) \in Nat
    BY <1>1, <1>3, <1>5
  <2> DEFINE a == t + first(r)
  <2> HIDE DEF a
  <2>2. a \in Nat => c * (a + u) = c * a + c * u
    BY <1>1, <1>5
  <2>3. QED
    BY <2>1, <2>2 DEF a
<1>10. c * u \in Nat /\ c * (t + first(r)) \in Nat
  <2>1. t + first(r) \in Nat
    BY <1>1, <1>3
  <2>2. QED
    BY <1>1, <1>5, <2>1
<1>11. c * (o * t + s) = (o * t + s) * c
  <2>1. o * t + s \in Nat
    <3>1. o * t \in Nat
      BY <1>1
    <3>2. QED
      BY <1>1, <3>1
  <2> DEFINE a == o * t + s
  <2> HIDE DEF a
  <2>2. a \in Nat => c * a = a * c
    BY <1>1
  <2>3. QED
    BY <2>1, <2>2 DEF a
<1>12. QED
  BY <1>2, <1>6, <1>7, <1>8, <1>9, <1>10, <1>11

LEMMA BlocksAreFinite ==
  ASSUME NEW n \in Nat
  PROVE  IsFiniteSet(1 .. n)
<1>1. 1 \in Int /\ n \in Int
  OBVIOUS
<1>2. QED
  BY <1>1, FS_Interval

\* The value of a set of notes is a sum.
LEMMA ValueIsSum ==
  ASSUME NotesOK, NEW S \in SUBSET (1 .. MaxHeight)
  PROVE  /\ Value("shielded", S) = SumOver(hotNotes["shielded"], S)
         /\ Value("shielded", S) \in Nat /\ IsFiniteSet(S)
         /\ \A h \in 1 .. MaxHeight : hotNotes["shielded"][h] \in Nat
<1>1. \A h \in 1 .. MaxHeight : hotNotes["shielded"][h] \in Nat
  BY DEF NotesOK, Pools
<1>2. Value("shielded", S) = SumOver(hotNotes["shielded"], S)
  BY DEF Value, SumOver
<1>3. IsFiniteSet(S)
  <2>1. MaxHeight \in Nat
    BY FundingAssumption
  <2>2. IsFiniteSet(1 .. MaxHeight)
    BY <2>1, BlocksAreFinite
  <2>3. QED
    BY <2>2, FS_Subset
<1>4. \A h \in S : hotNotes["shielded"][h] \in Nat
  BY <1>1
<1>5. SumOver(hotNotes["shielded"], S) \in Nat
  BY <1>3, <1>4, SumIsShares
<1>6. QED
  BY <1>1, <1>2, <1>3, <1>5

LEMMA PendingIsSum ==
  ASSUME NotesOK
  PROVE  Pending \in Nat /\ (mempool = {} => Pending = 0)
<1> DEFINE v == [t \in mempool |-> t.change]
<1>1. Pending = SumOver(v, mempool)
  <2>1. v = [t \in mempool |-> v[t]]
    OBVIOUS
  <2>2. Pending = Total(v)
    BY DEF Pending
  <2> HIDE DEF v
  <2>3. QED
    BY <2>1, <2>2 DEF SumOver
<1>2. IsFiniteSet(mempool) /\ \A t \in mempool : v[t] \in Nat
  BY DEF NotesOK
<1> HIDE DEF v
<1>3. SumOver(v, mempool) \in Nat /\ SumOver(v, mempool) = Cardinality(Shares(v, mempool))
  BY <1>2, SumIsShares
<1>4. mempool = {} => Shares(v, mempool) = {}
  BY DEF Shares
<1>5. QED
  BY <1>1, <1>3, <1>4, FS_EmptySet

LEMMA SumIgnoresZeros ==
  ASSUME NEW v, NEW T, IsFiniteSet(T), \A x \in T : v[x] \in Nat
  PROVE  SumOver(v, T) <= SumOver(v, {x \in T : v[x] > 0})
<1> DEFINE R == {x \in T : v[x] > 0}
<1>1. R \subseteq T /\ \A x \in R : v[x] \in Nat
  OBVIOUS
<1>2. \A x \in T : x \notin R => 1 .. v[x] = {}
  OBVIOUS
<1> HIDE DEF R
<1>3. IsFiniteSet(R)
  BY <1>1, FS_Subset
<1>4. /\ SumOver(v, T) = Cardinality(Shares(v, T))
      /\ SumOver(v, R) = Cardinality(Shares(v, R)) /\ IsFiniteSet(Shares(v, R))
  BY <1>1, <1>3, SumIsShares
<1>5. Shares(v, T) \subseteq Shares(v, R)
  BY <1>2 DEF Shares
<1>6. Cardinality(Shares(v, T)) <= Cardinality(Shares(v, R))
  BY <1>4, <1>5, FS_Subset
<1>7. QED
  BY <1>4, <1>6 DEF R

LEMMA SumOfBlocks ==
  ASSUME NEW n \in Nat, NEW v, \A h \in 1 .. n + 1 : v[h] \in Nat
  PROVE  SumOver(v, 1 .. n + 1) = SumOver(v, 1 .. n) + v[n + 1]
<1>1. n + 1 \in Nat /\ n + 1 \in 1 .. n + 1
  OBVIOUS
<1>2. IsFiniteSet(1 .. n + 1)
  BY <1>1, BlocksAreFinite
<1>3. (1 .. n) \in SUBSET (1 .. n + 1) /\ (1 .. n + 1) \ (1 .. n) = {n + 1}
  OBVIOUS
<1>4. v[n + 1] \in Nat
  BY <1>1
<1>5. SumOver(v, 1 .. n + 1) = SumOver(v, 1 .. n) + SumOver(v, (1 .. n + 1) \ (1 .. n))
  BY <1>2, <1>3, SumSplits
<1>6. SumOver(v, {n + 1}) = v[n + 1]
  BY <1>4, SumOfOne
<1>7. QED
  BY <1>3, <1>5, <1>6

LEMMA HeldGrows ==
  ASSUME NotesOK, NEW m \in Nat, NEW n \in Nat, m <= n, n <= MaxHeight
  PROVE  Held(m) \in Nat /\ Held(n) \in Nat /\ Held(m) <= Held(n)
<1>0. MaxHeight \in Nat
  BY FundingAssumption
<1>1. (1 .. m) \in SUBSET (1 .. n) /\ (1 .. n) \in SUBSET (1 .. MaxHeight) /\ (1 .. m) \in SUBSET (1 .. MaxHeight)
  BY <1>0
<1> DEFINE v == hotNotes["shielded"]
<1>2. /\ Held(m) = SumOver(v, 1 .. m) /\ Held(n) = SumOver(v, 1 .. n)
      /\ Held(m) \in Nat /\ Held(n) \in Nat /\ \A h \in 1 .. MaxHeight : v[h] \in Nat
  BY <1>1, ValueIsSum DEF Held
<1> HIDE DEF v
<1>3. IsFiniteSet(1 .. n) /\ \A h \in 1 .. n : v[h] \in Nat
  BY <1>1, <1>2, BlocksAreFinite
<1>4. \A h \in 1 .. m : v[h] \in Nat /\ v[h] <= v[h]
  BY <1>1, <1>3
<1>5. SumOver(v, 1 .. m) <= SumOver(v, 1 .. n)
  BY <1>1, <1>3, <1>4, SumGrows
<1>6. QED
  BY <1>2, <1>5

\* What ensure_funded counts is there, all of it shielded.
LEMMA BalanceIsHeld ==
  ASSUME NotesOK, NoShielding, height \in Nat, NEW depth
  PROVE  /\ Balance("shielded", depth) \in Nat /\ Balance("shielded", depth) <= Held(height)
         /\ Balance("transparent", depth) = 0
<1> DEFINE w(p) == [h \in 1 .. height |-> IF Deep(h, depth) THEN hotNotes[p][h] ELSE 0]
           v == hotNotes["shielded"]
           s == w("shielded")
           t == w("transparent")
<1>0. MaxHeight \in Nat /\ height <= MaxHeight
  BY FundingAssumption DEF NotesOK
<1>1. (1 .. height) \in SUBSET (1 .. MaxHeight)
  BY <1>0
<1>2. Held(height) = SumOver(v, 1 .. height) /\ \A h \in 1 .. MaxHeight : v[h] \in Nat
  BY <1>1, ValueIsSum DEF Held
<1>3. /\ s = [h \in 1 .. height |-> s[h]] /\ t = [h \in 1 .. height |-> t[h]]
      /\ \A h \in 1 .. height : s[h] \in {0, v[h]} /\ t[h] \in {0, hotNotes["transparent"][h]}
  OBVIOUS
<1>4. Balance("shielded", depth) = Total(s) /\ Balance("transparent", depth) = Total(t)
  BY DEF Balance
<1>5. \A h \in 1 .. height : v[h] \in Nat /\ t[h] = 0
  BY <1>1, <1>2, <1>3 DEF NoShielding
<1> HIDE DEF v, s, t
<1>6. Balance("shielded", depth) = SumOver(s, 1 .. height) /\ Balance("transparent", depth) = SumOver(t, 1 .. height)
  BY <1>3, <1>4 DEF SumOver
<1>7. IsFiniteSet(1 .. height) /\ (1 .. height) \in SUBSET (1 .. height)
  BY BlocksAreFinite
<1>8. \A h \in 1 .. height : s[h] \in Nat /\ s[h] <= v[h] /\ t[h] \in Nat
  BY <1>3, <1>5
<1>9. SumOver(s, 1 .. height) <= SumOver(v, 1 .. height)
  BY <1>5, <1>7, <1>8, SumGrows
<1>10. SumOver(s, 1 .. height) \in Nat /\ SumOver(t, 1 .. height) = Cardinality(Shares(t, 1 .. height))
  BY <1>7, <1>8, SumIsShares
<1>11. Shares(t, 1 .. height) = {}
  BY <1>5 DEF Shares
<1>12. QED
  BY <1>2, <1>6, <1>9, <1>10, <1>11, FS_EmptySet

\* Enough in blocks that are deep is enough for a send.
LEMMA SendFindsNotes ==
  ASSUME NotesOK, height \in Nat, NEW n \in Nat, n + Anchor <= height + 1,
         NEW amount \in Nat, Held(n) >= amount
  PROVE  Selections(amount) # {}
<1> DEFINE v == hotNotes["shielded"]
           ripe == {h \in 1 .. height : Deep(h, Anchor) /\ v[h] > 0}
           low == {h \in 1 .. n : v[h] > 0}
<1>0. MaxHeight \in Nat /\ height <= MaxHeight /\ Anchor \in Nat /\ Anchor >= 1
  BY FundingAssumption DEF NotesOK
<1>1. n <= height /\ (1 .. n) \in SUBSET (1 .. MaxHeight) /\ (1 .. n) \in SUBSET (1 .. height)
  BY <1>0
<1>2. ripe \in SUBSET (1 .. MaxHeight) /\ low \in SUBSET (1 .. MaxHeight)
  BY <1>0, <1>1
<1>3. low \in SUBSET ripe
  <2>1. ASSUME NEW h \in 1 .. n
        PROVE  h \in 1 .. height /\ Deep(h, Anchor)
    BY <1>0, <1>1 DEF Deep
  <2>2. QED
    BY <2>1
<1>4. /\ \A h \in 1 .. MaxHeight : v[h] \in Nat
      /\ Held(n) = SumOver(v, 1 .. n) /\ Held(n) \in Nat
      /\ Value("shielded", ripe) = SumOver(v, ripe) /\ Value("shielded", ripe) \in Nat /\ IsFiniteSet(ripe)
      /\ Value("shielded", low) = SumOver(v, low) /\ Value("shielded", low) \in Nat
  BY <1>1, <1>2, ValueIsSum DEF Held
<1>5. Selections(amount) = {S \in SUBSET ripe : /\ Value("shielded", S) >= amount
                                                /\ \A h \in S : Value("shielded", S \ {h}) < amount}
  BY DEF Selections
<1>6. \A S \in SUBSET ripe : S \in SUBSET (1 .. MaxHeight) /\ Value("shielded", S) = SumOver(v, S)
  BY <1>2, ValueIsSum
<1>7. SumOver(v, 1 .. n) <= SumOver(v, low)
  <2>1. IsFiniteSet(1 .. n) /\ \A h \in 1 .. n : v[h] \in Nat
    BY <1>1, <1>4, BlocksAreFinite
  <2> HIDE DEF v
  <2>2. QED
    BY <2>1, SumIgnoresZeros
<1> HIDE DEF v, low, ripe
<1>8. SumOver(v, low) <= SumOver(v, ripe)
  <2>1. /\ \A h \in ripe : v[h] \in Nat
        /\ \A h \in low : v[h] \in Nat /\ v[h] <= v[h]
    BY <1>2, <1>4
  <2>2. QED
    BY <1>3, <1>4, <2>1, SumGrows
<1>9. SumOver(v, ripe) >= amount
  BY <1>4, <1>7, <1>8
<1>10. \A h \in ripe : v[h] \in Nat
  BY <1>2, <1>4
<1>11. PICK S \in SUBSET ripe : SumOver(v, S) >= amount /\ \A h \in S : SumOver(v, S \ {h}) < amount
  <2>1. IsFiniteSet(ripe) /\ amount \in Nat
    BY <1>4
  <2>2. \E S \in SUBSET ripe : SumOver(v, S) >= amount /\ \A x \in S : SumOver(v, S \ {x}) < amount
    BY <2>1, <1>9, <1>10, PartSuffices
  <2>3. QED
    BY <2>2
<1>12. S \in Selections(amount)
  <2>1. \A h \in S : S \ {h} \in SUBSET ripe
    OBVIOUS
  <2>2. QED
    BY <1>5, <1>6, <1>11, <2>1
<1>13. QED
  BY <1>12

\* The next blocks: what was pending comes back with the first of them, and its reward.
LEMMA MinedNotes ==
  ASSUME NotesOK, NoShielding, height \in Nat, NEW k \in Nat, Mine(k), minerPool = "shielded"
  PROVE  /\ NotesOK' /\ Pending' = 0 /\ mempool' = {} /\ height' = height + k
         /\ \A h \in 1 .. MaxHeight : hotNotes'["transparent"][h] = 0
         /\ \A n \in 0 .. height : Held(n)' = Held(n)
         /\ (k = 1 /\ MinerPaysHot) => Held(height)' >= Held(height) + Pending + Reward
<1> DEFINE v == hotNotes["shielded"]
           w == hotNotes'["shielded"]
           reward(p, h) == IF p = minerPool /\ MinerPaysHot /\ h \in height + 1 .. height + k THEN Reward ELSE 0
           back(p, h) == IF p = "shielded" /\ h = height + 1 THEN Pending ELSE 0
<1>0. MaxHeight \in Nat /\ Reward \in Nat /\ height <= MaxHeight
  BY FundingAssumption DEF NotesOK
<1>1. height + k <= MaxHeight /\ height' = height + k /\ mempool' = {}
  BY DEF Mine
<1>2. hotNotes' = [p \in Pools |-> [h \in 1 .. MaxHeight |-> hotNotes[p][h] + reward(p, h) + back(p, h)]]
  BY DEF Mine, Pending
<1>3. Pending \in Nat
  BY PendingIsSum
<1>4. \A p \in Pools, h \in 1 .. MaxHeight : hotNotes[p][h] \in Nat
  BY DEF NotesOK
<1>5. \A p, h : reward(p, h) \in Nat /\ back(p, h) \in Nat
  BY <1>0, <1>3
<1>6. /\ \A h \in 1 .. MaxHeight : reward("transparent", h) = 0 /\ back("transparent", h) = 0
      /\ \A h \in 1 .. height : reward("shielded", h) = 0 /\ back("shielded", h) = 0
      /\ back("shielded", height + 1) = Pending
      /\ (k = 1 /\ MinerPaysHot) => reward("shielded", height + 1) = Reward
  <2>1. \A h \in 1 .. height : h # height + 1 /\ h \notin height + 1 .. height + k
    OBVIOUS
  <2>2. k = 1 => height + 1 \in height + 1 .. height + k
    OBVIOUS
  <2>3. QED
    BY <2>1, <2>2
<1> HIDE DEF reward, back
<1>7. hotNotes' \in [Pools -> [1 .. MaxHeight -> Nat]]
  <2>1. \A p \in Pools, h \in 1 .. MaxHeight : hotNotes[p][h] + reward(p, h) + back(p, h) \in Nat
    BY <1>4, <1>5
  <2>2. QED
    BY <1>2, <2>1
<1>8. NotesOK'
  <2>1. height' <= MaxHeight
    BY <1>1
  <2>2. IsFiniteSet(mempool') /\ \A t \in mempool' : t.change \in Nat
    BY <1>1, FS_EmptySet
  <2>3. QED
    BY <1>7, <2>1, <2>2 DEF NotesOK
<1>9. Pending' = 0
  <2>1. [t \in mempool' |-> t.change] = [t \in {} |-> v[t]]
    BY <1>1
  <2>2. Pending' = Total([t \in mempool' |-> t.change])
    BY DEF Pending
  <2>3. Pending' = SumOver(v, {})
    BY <2>1, <2>2 DEF SumOver
  <2>4. IsFiniteSet({}) /\ \A x \in {} : v[x] \in Nat
    BY FS_EmptySet
  <2>5. SumOver(v, {}) = Cardinality(Shares(v, {}))
    BY <2>4, SumIsShares
  <2>6. Shares(v, {}) = {}
    BY DEF Shares
  <2>7. QED
    BY <2>3, <2>5, <2>6, FS_EmptySet
<1>10. \A h \in 1 .. MaxHeight : hotNotes'["transparent"][h] = 0
  <2>1. \A h \in 1 .. MaxHeight : hotNotes'["transparent"][h] = hotNotes["transparent"][h] + reward("transparent", h) + back("transparent", h)
    BY <1>2 DEF Pools
  <2>2. QED
    BY <1>6, <2>1 DEF NoShielding
<1>11. \A h \in 1 .. MaxHeight : w[h] = v[h] + reward("shielded", h) + back("shielded", h) /\ v[h] \in Nat /\ w[h] \in Nat
  BY <1>2, <1>4, <1>7 DEF Pools
<1> HIDE DEF v, w
<1>12. \A h \in 1 .. height : w[h] = v[h]
  BY <1>0, <1>6, <1>11
<1>13. /\ \A n : Held(n) = SumOver(v, 1 .. n) /\ Held(n)' = SumOver(w, 1 .. n)
       /\ Held(height) = SumOver(v, 1 .. height) /\ Held(height)' = SumOver(w, 1 .. height + k)
  BY <1>1 DEF Held, Value, SumOver, v, w
<1>14. \A n \in 0 .. height : SumOver(w, 1 .. n) = SumOver(v, 1 .. n)
  <2>1. ASSUME NEW n \in 0 .. height
        PROVE  [h \in 1 .. n |-> w[h]] = [h \in 1 .. n |-> v[h]]
    BY <1>12
  <2>2. QED
    BY <2>1 DEF SumOver
<1>15. ASSUME k = 1, MinerPaysHot
       PROVE  SumOver(w, 1 .. height + 1) >= SumOver(v, 1 .. height) + Pending + Reward
  <2>1. height + 1 \in 1 .. MaxHeight /\ \A h \in 1 .. height + 1 : h \in 1 .. MaxHeight
    BY <1>0, <1>1, <1>15
  <2>2. \A h \in 1 .. height + 1 : w[h] \in Nat
    BY <1>11, <2>1
  <2>3. SumOver(w, 1 .. height + 1) = SumOver(w, 1 .. height) + w[height + 1]
    BY <2>2, SumOfBlocks
  <2>4. w[height + 1] >= Pending + Reward
    BY <1>0, <1>3, <1>6, <1>11, <1>15, <2>1
  <2>5. IsFiniteSet(1 .. height) /\ \A h \in 1 .. height : v[h] \in Nat
    BY <1>11, <2>1, BlocksAreFinite
  <2>6. SumOver(v, 1 .. height) \in Nat
    BY <2>5, SumIsShares
  <2>7. height \in 0 .. height
    OBVIOUS
  <2>8. SumOver(w, 1 .. height) = SumOver(v, 1 .. height)
    BY <1>14, <2>7
  <2>9. QED
    BY <1>0, <1>3, <1>11, <2>1, <2>3, <2>4, <2>6, <2>8
<1>16. QED
  BY <1>1, <1>8, <1>9, <1>10, <1>13, <1>14, <1>15

\* A round that is sent takes its cost and the fee, and no more.
LEMMA SentNotes ==
  ASSUME NotesOK, NoShielding, height \in Nat, NEW amount \in Nat, NEW S \in Selections(amount),
         NEW r, \A t \in mempool : t.round # r, Broadcast(r, "shielded", S, amount)
  PROVE  /\ NotesOK' /\ height' = height
         /\ \A h \in 1 .. MaxHeight : hotNotes'["transparent"][h] = 0
         /\ Held(height)' + Pending' + amount = Held(height) + Pending
<1> DEFINE v == hotNotes["shielded"]
           w == hotNotes'["shielded"]
           spent == Value("shielded", S)
           new == [round |-> r, change |-> spent - amount]
           all == mempool \cup {new}
           c == [t \in all |-> t.change]
<1>0. MaxHeight \in Nat /\ height <= MaxHeight
  BY FundingAssumption DEF NotesOK
<1>1. height' = height /\ mempool' = all
      /\ hotNotes' = [hotNotes EXCEPT !["shielded"] = [h \in 1 .. MaxHeight |-> IF h \in S THEN 0 ELSE @[h]]]
  BY DEF Broadcast
<1>2. S \in SUBSET (1 .. height) /\ spent >= amount /\ S \in SUBSET (1 .. MaxHeight)
      /\ (1 .. height) \in SUBSET (1 .. MaxHeight)
  BY <1>0 DEF Selections
<1>3. /\ Held(height) = SumOver(v, 1 .. height) /\ Held(height) \in Nat
      /\ spent = SumOver(v, S) /\ spent \in Nat /\ \A h \in 1 .. MaxHeight : v[h] \in Nat
  BY <1>2, ValueIsSum DEF Held
<1>4. /\ \A h \in 1 .. MaxHeight : w[h] = IF h \in S THEN 0 ELSE v[h]
      /\ hotNotes'["transparent"] = hotNotes["transparent"]
      /\ DOMAIN w = 1 .. MaxHeight
  BY <1>1 DEF NotesOK, Pools
<1>5. hotNotes' \in [Pools -> [1 .. MaxHeight -> Nat]]
  <2>1. hotNotes \in [Pools -> [1 .. MaxHeight -> Nat]]
    BY DEF NotesOK
  <2>2. [h \in 1 .. MaxHeight |-> IF h \in S THEN 0 ELSE v[h]] \in [1 .. MaxHeight -> Nat]
    BY <1>3
  <2>3. QED
    BY <1>1, <2>1, <2>2 DEF Pools
<1>6. spent - amount \in Nat /\ new.change = spent - amount /\ new \notin mempool
  <2>1. new.round = r
    OBVIOUS
  <2>2. QED
    BY <1>2, <1>3, <2>1
<1>7. IsFiniteSet(mempool) /\ (\A t \in mempool : t.change \in Nat) /\ IsFiniteSet({new})
  BY FS_Singleton DEF NotesOK
<1> HIDE DEF new, spent
<1>8. IsFiniteSet(all) /\ \A t \in all : t.change \in Nat /\ c[t] = t.change
  <2>1. IsFiniteSet(all)
    BY <1>7, FS_Union
  <2>2. QED
    BY <1>6, <1>7, <2>1
<1>9. NotesOK'
  <2>1. height' <= MaxHeight
    BY <1>0, <1>1
  <2>2. IsFiniteSet(mempool') /\ \A t \in mempool' : t.change \in Nat
    BY <1>1, <1>8
  <2>3. QED
    BY <1>5, <2>1, <2>2 DEF NotesOK
<1>10. Pending = SumOver(c, mempool) /\ Pending' = SumOver(c, all)
  <2>1. [t \in mempool |-> t.change] = [t \in mempool |-> c[t]]
    BY <1>8
  <2>2. [t \in mempool' |-> t.change] = [t \in all |-> c[t]]
    BY <1>1, <1>8
  <2>3. QED
    BY <2>1, <2>2 DEF Pending, SumOver
<1>11. mempool \in SUBSET all /\ all \ mempool = {new} /\ new \in all
  BY <1>6
<1> HIDE DEF c, all
<1>12. SumOver(c, all) = SumOver(c, mempool) + SumOver(c, all \ mempool)
  <2>1. \A t \in all : c[t] \in Nat
    BY <1>8
  <2>2. QED
    BY <1>8, <1>11, <2>1, SumSplits
<1>13. c[new] = spent - amount /\ c[new] \in Nat
  BY <1>6, <1>8, <1>11
<1>14. SumOver(c, {new}) = spent - amount
  BY <1>13, SumOfOne
<1>15. SumOver(c, mempool) \in Nat
  <2>1. \A t \in mempool : c[t] \in Nat
    BY <1>8, <1>11
  <2>2. QED
    BY <1>7, <2>1, SumIsShares
<1>16. Held(height)' = SumOver(w, 1 .. height)
  BY <1>1 DEF Held, Value, SumOver
<1> HIDE DEF v, w
<1> DEFINE H == 1 .. height
<1>17. IsFiniteSet(H) /\ S \in SUBSET H /\ H \in SUBSET (1 .. MaxHeight)
  BY <1>2, BlocksAreFinite
<1> HIDE DEF H
<1>18. /\ \A h \in H : v[h] \in Nat /\ w[h] \in Nat
       /\ \A h \in H \ S : w[h] = v[h]
       /\ \A h \in S : w[h] = 0
  BY <1>3, <1>4, <1>17
<1>19. /\ SumOver(v, H) = SumOver(v, S) + SumOver(v, H \ S)
       /\ SumOver(w, H) = SumOver(w, S) + SumOver(w, H \ S)
  BY <1>17, <1>18, SumSplits
<1>20. SumOver(w, H \ S) = SumOver(v, H \ S)
  <2>1. [h \in H \ S |-> w[h]] = [h \in H \ S |-> v[h]]
    BY <1>18
  <2>2. QED
    BY <2>1 DEF SumOver
<1>21. SumOver(w, S) = 0
  <2>1. IsFiniteSet(S) /\ \A h \in S : w[h] \in Nat
    BY <1>17, <1>18, FS_Subset
  <2>2. SumOver(w, S) = Cardinality(Shares(w, S))
    BY <2>1, SumIsShares
  <2>3. Shares(w, S) = {}
    BY <1>18 DEF Shares
  <2>4. QED
    BY <2>2, <2>3, FS_EmptySet
<1>22. SumOver(v, H \ S) \in Nat
  <2>1. IsFiniteSet(H \ S) /\ \A h \in H \ S : v[h] \in Nat
    BY <1>17, <1>18, FS_Subset
  <2>2. QED
    BY <2>1, SumIsShares
<1>23. Held(height) = SumOver(v, H) /\ Held(height)' = SumOver(w, H)
  BY <1>3, <1>16 DEF H
<1>24. Held(height)' + Pending' + amount = Held(height) + Pending
  <2>1. Held(height) = spent + SumOver(v, H \ S) /\ Held(height)' = 0 + SumOver(v, H \ S)
    BY <1>3, <1>19, <1>20, <1>21, <1>23
  <2>2. Pending' = Pending + (spent - amount) /\ Pending \in Nat
    BY <1>10, <1>11, <1>12, <1>14, <1>15
  <2>3. QED
    BY <1>3, <1>22, <2>1, <2>2
<1>25. \A h \in 1 .. MaxHeight : hotNotes'["transparent"][h] = 0
  BY <1>4 DEF NoShielding
<1>26. QED
  BY <1>1, <1>9, <1>24, <1>25

-----------------------------------------------------------------------------
(* The steps of a setup in which no call goes wrong. *)

LEMMA FaultsCounted ==
  ASSUME Next, faults \in Nat
  PROVE  /\ faults' \in Nat /\ (faults' = 0 => faults = 0 /\ NoFault)
         /\ UNCHANGED <<minerPool, given>>
<1> USE DEF Fault, NoFault
<1>1. CASE Validating
  BY <1>1 DEF Validating, Validate, provVars, fundVars
<1>2. CASE Dispatching
  BY <1>2 DEF Dispatching, PaceNext, BeginLoad, Tick, WindowCloses, LoadCancelled, provVars, fundVars
<1>3. CASE Provisioning
  <2>1. UNCHANGED minerPool
    BY <1>3 DEF Provisioning, fundVars
  <2>2. CASE ResolveAccount
    BY <2>1, <2>2 DEF ResolveAccount, ResolveHot, ResolveLost, ResolveRefused
  <2>3. CASE Provision
    BY <2>1, <2>3 DEF Provision, Populate, JoinFails, JoinCreated, ListAccounts, JoinRead, Spawn, Created, Read, TaskFails, provVars
  <2>4. QED
    BY <1>3, <2>2, <2>3 DEF Provisioning, ProvNext
<1>4. CASE FundingSteps
  <2>1. UNCHANGED given
    BY <1>4 DEF FundingSteps, provVars
  <2>2. CASE GenerateInChunks
    BY <2>1, <2>2 DEF GenerateInChunks, ChunkMined, ChunkLost, ChunkRefused
  <2>3. CASE Warmup
    BY <2>1, <2>3 DEF Warmup, Probe, PollBalance, CheckAge, fundVars
  <2>4. CASE Measure \/ Shield \/ CheckFunded
    BY <2>1, <2>4 DEF Measure, Shield, CheckFunded, fundVars
  <2>5. CASE SendWithAnchorRetries
    BY <2>1, <2>5 DEF SendWithAnchorRetries, SendAccepted, SendInsufficient, SendLost, MineForAnchor, fundVars
  <2>6. CASE WaitOperation
    BY <2>1, <2>6 DEF WaitOperation, ShieldDone, OperationSucceeds, OperationLost
  <2>7. QED
    BY <1>4, <2>2, <2>3, <2>4, <2>5, <2>6 DEF FundingSteps, FundNext, FundAccounts
<1>5. QED
  BY <1>1, <1>2, <1>3, <1>4 DEF Next

\* Nothing but the funding goes on while the rounds are sent, and what else gives up does
\* so over the scenario.
LEMMA CalmOthersMove ==
  ASSUME Validating \/ Provisioning \/ Dispatching, faults = 0, NoFault, given = Nobody, NoneBroken
  PROVE  /\ UNCHANGED <<fundVars, scenario>> /\ NoneBroken'
         /\ stage \notin Fanning /\ stage # "failed"
         /\ stage' \in {"resolve", "warmMine", "create", "list", "receivers", "plan", "load", "drain", "failed"}
         /\ stage' \in Early => stage \in Early
         /\ stage' = "failed" => cause' \in {"validate", "populate", "ready"}
<1> USE DEF At, Goto, Stay, GiveUp, Early, Fanning, Fault, NoFault
<1>0. UNCHANGED <<fundVars, scenario>>
  BY DEF Validating, Provisioning, Dispatching, Validate, PaceNext, BeginLoad
<1>1. Population' = Population
  BY <1>0 DEF Population
<1>2. CASE Validating
  BY <1>0, <1>1, <1>2 DEF Validating, Validate, provVars, NoneBroken
<1>3. CASE Dispatching
  BY <1>0, <1>1, <1>3 DEF Dispatching, PaceNext, BeginLoad, Tick, WindowCloses, LoadCancelled, provVars, NoneBroken
<1>4. CASE ResolveAccount
  BY <1>0, <1>1, <1>4 DEF ResolveAccount, ResolveHot, ResolveLost, ResolveRefused, NoneBroken
<1>5. CASE Populate \/ JoinCreated \/ ListAccounts \/ JoinRead
  BY <1>0, <1>1, <1>5 DEF Populate, JoinCreated, ListAccounts, JoinRead, provVars, NoneBroken
<1>6. CASE JoinFails
  BY <1>6 DEF JoinFails, NoneBroken
<1>7. ASSUME NEW a \in Population, Spawn(a) \/ Created(a) \/ Read(a) \/ TaskFails(a)
      PROVE  /\ stage \in {"create", "receivers"} /\ stage' = stage
             /\ NoneBroken'
  <2>1. stage \in {"create", "receivers"} /\ stage' = stage
    BY <1>7 DEF Spawn, Created, Read, TaskFails
  <2>2. \E b \in {"creating", "reading", "created", "read"} : task' = [task EXCEPT ![a] = b]
    BY <1>7 DEF Spawn, Created, Read, TaskFails
  <2>3. NoneBroken'
    BY <1>1, <2>2 DEF NoneBroken
  <2>4. QED
    BY <2>1, <2>3
<1>8. CASE Provisioning
  BY <1>0, <1>4, <1>5, <1>6, <1>7, <1>8 DEF Provisioning, ProvNext, Provision
<1>9. QED
  BY <1>2, <1>3, <1>8

\* The miner is paid to the account that setup funds from: the first of its name, when setup
\* found it there and when it had to create it.
LEMMA PaidToHotStep ==
  ASSUME Provisioning, AccountsInv, faults = 0, NoFault, given = Nobody, PaidToHot
  PROVE  PaidToHot'
<1>1. AccountsOK
  BY DEF AccountsInv
<1>2. CASE ResolveHot
  <2>1. CASE Named(HotName) # {} /\ hot' = First(Named(HotName)) /\ UNCHANGED wallet
    <3>1. Named(HotName)' = Named(HotName)
      BY <2>1 DEF Named
    <3>2. First(Named(HotName)) \in Named(HotName)
      BY <1>1, <2>1, NamedIsInWallet, FirstIsLeast
    <3>3. MinerPaysHot'
      BY <2>1, <3>1, <3>2 DEF MinerPaysHot
    <3>4. QED
      BY <3>3 DEF PaidToHot
  <2>2. CASE Named(HotName) = {} /\ hot' = Len(wallet) + 1 /\ wallet' = Append(wallet, HotName)
    <3>1. HotName \in Names
      BY DEF Names
    <3>2. /\ Len(wallet) \in Nat /\ DOMAIN wallet = 1 .. Len(wallet)
          /\ DOMAIN wallet' = 1 .. Len(wallet) + 1
          /\ \A u \in DOMAIN wallet : wallet'[u] = wallet[u]
          /\ wallet'[Len(wallet) + 1] = HotName
      BY <1>1, <2>2, <3>1, Appended DEF AccountsOK
    <3>3. Named(HotName)' = {u \in 1 .. Len(wallet) + 1 : wallet'[u] = HotName}
      BY <3>2 DEF Named
    <3>4. \A u \in 1 .. Len(wallet) : wallet'[u] # HotName
      BY <2>2, <3>2 DEF Named
    <3>5. Named(HotName)' = {Len(wallet) + 1}
      BY <3>2, <3>3, <3>4
    <3>6. First({Len(wallet) + 1}) \in {Len(wallet) + 1}
      <4>1. {Len(wallet) + 1} \subseteq Nat /\ {Len(wallet) + 1} # {}
        BY <3>2
      <4>2. QED
        BY <4>1, FirstIsLeast
    <3>7. MinerPaysHot'
      BY <2>2, <3>5, <3>6 DEF MinerPaysHot
    <3>8. QED
      BY <3>7 DEF PaidToHot
  <2>3. QED
    BY <1>2, <2>1, <2>2 DEF ResolveHot
<1>3. CASE ResolveLost \/ ResolveRefused
  BY <1>3 DEF ResolveLost, ResolveRefused, Fault, NoFault
<1>4. CASE Provision
  <2>1. stage \notin {"validate", "resolve", "failed"} /\ hot' = hot
    BY <1>4 DEF Provision, Populate, JoinFails, JoinCreated, ListAccounts, JoinRead, Spawn, Created, Read, TaskFails, provVars, At
  <2>2. wallet' = wallet \/ \E a \in Population : wallet' = Append(wallet, a)
    BY <1>4 DEF Provision, Populate, JoinFails, JoinCreated, ListAccounts, JoinRead, Spawn, Created, Read, TaskFails, provVars
  <2>3. Named(HotName)' = Named(HotName)
    <3>1. CASE wallet' = wallet
      BY <3>1 DEF Named
    <3>2. ASSUME NEW a \in Population, wallet' = Append(wallet, a)
          PROVE  Named(HotName)' = Named(HotName)
      <4>1. a \in Names /\ a # HotName
        BY <1>1, PopulationNamed DEF AccountsOK
      <4>2. /\ Len(wallet) \in Nat /\ DOMAIN wallet = 1 .. Len(wallet)
            /\ DOMAIN wallet' = 1 .. Len(wallet) + 1
            /\ \A u \in DOMAIN wallet : wallet'[u] = wallet[u]
            /\ wallet'[Len(wallet) + 1] = a
        BY <1>1, <3>2, <4>1, Appended DEF AccountsOK
      <4>3. \A u \in 1 .. Len(wallet) + 1 : u \in 1 .. Len(wallet) \/ u = Len(wallet) + 1
        BY <4>2
      <4>4. \A u \in 1 .. Len(wallet) : u \in 1 .. Len(wallet) + 1
        BY <4>2
      <4>5. QED
        BY <4>1, <4>2, <4>3, <4>4 DEF Named
    <3>3. QED
      BY <2>2, <3>1, <3>2
  <2>4. MinerPaysHot
    BY <2>1 DEF PaidToHot
  <2>5. MinerPaysHot'
    BY <2>1, <2>3, <2>4 DEF MinerPaysHot
  <2>6. QED
    BY <2>5 DEF PaidToHot
<1>5. QED
  BY <1>2, <1>3, <1>4 DEF Provisioning, ProvNext, ResolveAccount

\* What the funding does.
Reasons == {"validate", "populate", "balance", "age", "check"}

LEMMA CalmFundingMoves ==
  ASSUME FundNext, faults = 0, NoFault, NoShielding
  PROVE  \/ /\ Mine(Chunk) /\ UNCHANGED retries
            /\ \/ stage \in {"warmMine", "topUp"} /\ stage' \in {stage, "probe", "check"}
               \/ stage = "settle" /\ stage' \in {stage, "ready"}
         \/ /\ UNCHANGED <<chainVars, retries, round>>
            /\ \/ /\ stage \in {"probe", "balance", "age", "plan", "check"}
                  /\ stage' \in {"probe", "balance", "age", "populate", "check", "ready", "topUp", "failed"}
                  /\ stage' = "failed" => cause' \in Reasons
               \/ stage = "plan" /\ stage' = "shield" /\ ShieldFirst
               \/ stage = "check" /\ stage' = "send" /\ Covered
               \/ stage = "send" /\ stage' = "await"
         \/ /\ UNCHANGED <<chainVars, round>>
            /\ stage = "send" /\ stage' = "anchor" /\ retries' = retries + 1
            /\ Selections(Cost(round) + Fee) = {}
         \/ /\ Mine(1) /\ UNCHANGED <<retries, round>> /\ stage = "anchor"
            /\ IF retries < SendRetries THEN stage' = "send" ELSE stage' = "failed"
         \/ /\ OperationSucceeds /\ stage = "await"
            /\ \/ round < Rounds /\ round' = round + 1 /\ retries' = 0 /\ stage' = "send"
               \/ stage' = "settle" /\ retries' = retries
<1> USE DEF At, Goto, Stay, GiveUp, Fault, NoFault, Reasons
<1>1. CASE GenerateInChunks
  <2>1. CASE ChunkMined
    <3>1. Mine(Chunk) /\ UNCHANGED retries /\ stage \in DOMAIN AfterMining /\ stage' \in {stage, AfterMining[stage]}
      BY <2>1 DEF ChunkMined, loopVars
    <3>2. QED
      BY <3>1, MiningStages DEF NoShielding
  <2>2. CASE ChunkLost \/ ChunkRefused
    BY <2>2 DEF ChunkLost, ChunkRefused
  <2>3. QED
    BY <1>1, <2>1, <2>2 DEF GenerateInChunks
<1>2. CASE Warmup
  BY <1>2 DEF Warmup, Probe, PollBalance, CheckAge, fundVars, loopVars
<1>3. CASE Measure
  BY <1>3 DEF Measure, fundVars, loopVars
<1>4. CASE Shield \/ ShieldDone
  BY <1>4 DEF Shield, ShieldDone, NoShielding
<1>5. CASE CheckFunded
  BY <1>5 DEF CheckFunded, Begin
<1>6. CASE SendAccepted \/ SendInsufficient \/ SendLost \/ OperationLost
  BY <1>6 DEF SendAccepted, SendInsufficient, SendLost, OperationLost, fundVars, loopVars
<1>7. CASE MineForAnchor
  BY <1>7 DEF MineForAnchor, loopVars
<1>8. CASE OperationSucceeds
  BY <1>8 DEF OperationSucceeds, Begin
<1>9. QED
  BY <1>1, <1>2, <1>3, <1>4, <1>5, <1>6, <1>7, <1>8 DEF FundNext, FundAccounts, SendWithAnchorRetries, WaitOperation

\* The plan, the accounts and who the miner pays stay as they are while setup funds.
LEMMA FundingKeeps ==
  ASSUME FundingSteps
  PROVE  /\ (NoneBroken => NoneBroken') /\ (MinerPaysHot => MinerPaysHot')
         /\ Rounds' = Rounds /\ (RewardsCoverFees' <=> RewardsCoverFees)
         /\ ToPay(round)' = ToPay(round')
<1>1. UNCHANGED <<scenario, wallet, hot, task, active>>
  BY DEF FundingSteps, provVars
<1>2. Plan' = Plan /\ Rounds' = Rounds
  <2>1. Plan' = Plan
    BY <1>1 DEF Plan
  <2>2. QED
    BY <2>1, PlanKept
<1>3. Population' = Population /\ Named(HotName)' = Named(HotName)
  BY <1>1 DEF Population, Named
<1>4. NoneBroken => NoneBroken'
  BY <1>1, <1>3 DEF NoneBroken
<1>5. MinerPaysHot => MinerPaysHot'
  BY <1>1, <1>3 DEF MinerPaysHot
<1>6. RewardsCoverFees' <=> RewardsCoverFees
  BY <1>2 DEF RewardsCoverFees
<1>7. ToPay(round)' = ToPay(round')
  BY <1>1, <1>2 DEF ToPay
<1>8. QED
  BY <1>2, <1>4, <1>5, <1>6, <1>7

LEMMA NotesStay ==
  ASSUME UNCHANGED chainVars
  PROVE  /\ (NotesOK => NotesOK') /\ height' = height /\ mempool' = mempool
         /\ Pending' = Pending /\ Held(height)' = Held(height)
         /\ \A n : Held(n)' = Held(n)
         /\ hotNotes' = hotNotes
BY DEF chainVars, NotesOK, Pending, Held, Value

\* ensure_funded lets the fan-out begin.
LEMMA FirstSend ==
  ASSUME FundingSteps, AccountsOK, FundsOK, RoundsInOrder, NotesOK, NoShielding, ValueLasts,
         UNCHANGED <<chainVars, retries, round>>, stage = "check", stage' = "send", Covered
  PROVE  ValueLasts'
<1>1. height \in Nat /\ round = 1 /\ retries = 0
  BY DEF FundsOK, RoundsInOrder, ValueLasts, Early
<1>2. Balance("shielded", Anchor) \in Nat /\ Balance("shielded", Anchor) <= Held(height) /\ Balance("transparent", Anchor) = 0
  BY <1>1, BalanceIsHeld
<1>3. Balance("shielded", Anchor) >= Needed
  <2>1. Balance("shielded", Anchor) + Balance("transparent", Anchor) >= Needed
    BY DEF Covered
  <2>2. QED
    BY <1>2, <2>1
<1>4. Rounds \in Nat /\ Rounds >= 1
  BY PlanAmounts
<1>5. ToPay(1) = Needed /\ ToPay(1) \in Nat
  <2>1. 1 \in Nat /\ 1 >= 1 /\ 1 <= Rounds
    BY <1>4
  <2>2. QED
    BY <2>1, RoundsToPay
<1>6. Pending \in Nat
  BY PendingIsSum
<1>7. Held(height) \in Nat
  BY <1>1, HeldGrows DEF NotesOK
<1>8. Held(height) + Pending >= ToPay(1)
  BY <1>2, <1>3, <1>5, <1>6, <1>7
<1>9. /\ height' = height /\ Pending' = Pending /\ Held(height)' = Held(height)
      /\ round' = 1 /\ retries' = 0 /\ Since' = 0 /\ Rounds' = Rounds /\ ToPay(round)' = ToPay(round')
  BY <1>1, NotesStay, FundingKeeps DEF Since
<1>10. (round' - 1) * Fee = 0
  <2>1. Fee \in Nat
    BY FundingAssumption
  <2>2. QED
    BY <1>9, <2>1
<1>11. Held(height)' + Pending' + (round' - 1) * Fee >= ToPay(round)'
  BY <1>5, <1>6, <1>7, <1>8, <1>9, <1>10
<1>12. SendRetries \in Nat /\ SendRetries >= 1
  BY FundingAssumption
<1>13. Since' \in 0 .. height' /\ retries' < SendRetries /\ round' <= Rounds' /\ retries' \in Nat /\ ~(Since' > 0)
  BY <1>1, <1>4, <1>9, <1>12
<1>14. QED
  BY <1>11, <1>13 DEF ValueLasts, Early

LEMMA SameWait ==
  ASSUME FundingSteps, ValueLasts, UNCHANGED <<chainVars, round>>, Since' = Since, retries' \in Nat,
         stage \in Fanning, stage' \in Fanning, stage' # "anchor" => retries' < SendRetries
  PROVE  ValueLasts'
<1>1. /\ height' = height /\ mempool' = mempool /\ Pending' = Pending /\ Held(height)' = Held(height)
      /\ \A n : Held(n)' = Held(n)
  BY NotesStay
<1>2. Rounds' = Rounds /\ ToPay(round)' = ToPay(round)
  BY FundingKeeps
<1> DEFINE X(j) == height - Since + j
<1>3. \A j : Held(X(j))' = Held(X(j))
  BY <1>1 DEF Held, Value
<1> HIDE DEF X
<1>4. ValueLasts => /\ Since \in 0 .. height /\ round <= Rounds
                    /\ Since = 0 => Held(height) + Pending + (round - 1) * Fee >= ToPay(round)
                    /\ Since > 0 =>
                         /\ mempool = {}
                         /\ \A j \in 1 .. Since :
                              Held(X(j)) + (round - 1) * Fee >= ToPay(round) + j * Reward
  BY DEF ValueLasts, X
<1>5. QED
  BY <1>1, <1>2, <1>4 DEF ValueLasts, Fanning, Early

\* The attempt after which setup would give up finds the value deep enough.
LEMMA LastAttempt ==
  ASSUME AccountsOK, FundsOK, NotesOK, ValueLasts, stage = "send", RewardsCoverFees,
         Selections(Cost(round) + Fee) = {}
  PROVE  retries + 1 < SendRetries
<1>1. /\ Fee \in Nat /\ Fee >= 1 /\ Reward \in Nat /\ Anchor \in Nat /\ Anchor >= 1 /\ SendRetries \in Nat
      /\ MaxHeight \in Nat
  BY FundingAssumption
<1>2. height \in Nat /\ round \in Nat /\ round >= 1 /\ retries \in Nat /\ retries \in 0 .. height
      /\ retries < SendRetries /\ round <= Rounds /\ height <= MaxHeight
  BY DEF FundsOK, NotesOK, ValueLasts, Since, Fanning
<1>3. /\ Cost(round) \in Nat /\ ToPay(round) \in Nat /\ ToPay(round + 1) \in Nat
      /\ ToPay(round) = Cost(round) + ToPay(round + 1)
  BY <1>2, RoundsToPay
<1>4. Rounds \in Nat
  BY PlanAmounts
<1> SUFFICES ASSUME retries = SendRetries - 1
             PROVE  FALSE
  BY <1>1, <1>2
<1> DEFINE j == SendRetries - Anchor
           n == height + 1 - Anchor
           R == j * Reward
           D == (round - 1) * Fee
<1>5. D \in Nat /\ D + Fee = round * Fee /\ round * Fee <= Rounds * Fee
  <2>1. round - 1 \in Nat
    BY <1>2
  <2>2. (round - 1) * Fee \in Nat /\ (round - 1) * Fee + Fee = round * Fee
    BY <1>1, <1>2, <2>1
  <2>3. round * Fee <= Rounds * Fee
    <3>1. Rounds - round \in Nat /\ (Rounds - round) * Fee \in Nat
      BY <1>1, <1>2, <1>4
    <3>2. (Rounds - round) * Fee = Rounds * Fee - round * Fee
      BY <1>1, <1>2, <1>4
    <3>3. round * Fee \in Nat /\ Rounds * Fee \in Nat
      BY <1>1, <1>2, <1>4
    <3>4. QED
      BY <3>1, <3>2, <3>3
  <2>4. QED
    BY <2>2, <2>3
<1>6. j \in Int /\ R \in Int /\ Rounds * Fee <= R
  <2>1. j \in Int
    BY <1>1
  <2>2. Reward * j = j * Reward /\ j * Reward \in Int
    <3> HIDE DEF j
    <3>1. QED
      BY <1>1, <2>1
  <2>3. Rounds * Fee <= Reward * j
    BY DEF RewardsCoverFees
  <2>4. QED
    BY <2>1, <2>2, <2>3
<1>7. j >= 1
  <2>1. Rounds * Fee \in Nat /\ round * Fee \in Nat
    BY <1>1, <1>2, <1>4
  <2>2. R >= 1
    <3> HIDE DEF R, D
    <3>1. QED
      BY <1>1, <1>5, <1>6, <2>1
  <2> HIDE DEF j
  <2>3. CASE j <= 0
    <3>1. j * Reward <= 0
      <4>1. -j \in Nat /\ (-j) * Reward \in Nat /\ (-j) * Reward = -(j * Reward)
        BY <1>1, <1>6, <2>3
      <4>2. QED
        BY <1>6, <4>1
    <3>2. R <= 0
      BY <3>1
    <3> HIDE DEF R
    <3>3. QED
      BY <1>6, <2>2, <3>2
  <2>4. QED
    BY <1>6, <2>3
<1>8. j \in 1 .. retries /\ height - retries + j = n /\ n \in Nat /\ n <= MaxHeight /\ n + Anchor <= height + 1
  BY <1>1, <1>2, <1>6, <1>7
<1>9. Held(n) + D >= ToPay(round) + R
  <2>1. Since = retries /\ Since > 0
    BY <1>2, <1>8 DEF Since
  <2>2. \A i \in 1 .. retries : Held(height - retries + i) + (round - 1) * Fee >= ToPay(round) + i * Reward
    BY <2>1 DEF ValueLasts, Fanning
  <2>3. QED
    BY <1>8, <2>2
<1>10. Held(n) \in Nat
  BY <1>8, HeldGrows
<1>11. Held(n) >= Cost(round) + Fee
  <2>1. R >= D + Fee /\ R \in Int
    <3>1. round * Fee \in Nat /\ Rounds * Fee \in Nat
      BY <1>1, <1>2, <1>4
    <3> HIDE DEF R, D
    <3>2. QED
      BY <1>5, <1>6, <3>1
  <2>2. ToPay(round) >= Cost(round)
    BY <1>3
  <2> HIDE DEF R, D, n
  <2>3. QED
    BY <1>1, <1>3, <1>5, <1>9, <1>10, <2>1, <2>2
<1>12. Selections(Cost(round) + Fee) # {}
  <2>1. Cost(round) + Fee \in Nat
    BY <1>1, <1>3
  <2> HIDE DEF n
  <2>2. QED
    BY <1>2, <1>8, <1>11, <2>1, SendFindsNotes
<1>13. QED
  BY <1>12

\* A block for the next attempt.
LEMMA BlockForAnchor ==
  ASSUME FundingSteps, AccountsOK, FundsOK, NotesOK, NoShielding, MinerPaysHot, ValueLasts, minerPool = "shielded",
         Mine(1), UNCHANGED <<retries, round>>, stage = "anchor", stage' = "send", retries < SendRetries
  PROVE  ValueLasts'
<1> DEFINE B == height - Since
           D == (round - 1) * Fee
           Q == ToPay(round)
<1>1. height \in Nat /\ retries \in Nat /\ round <= Rounds /\ round \in Nat /\ round >= 1
      /\ Since = retries - 1 /\ Since \in 0 .. height
  BY DEF FundsOK, ValueLasts, Fanning, Since
<1>2. /\ NotesOK' /\ Pending' = 0 /\ mempool' = {} /\ height' = height + 1
      /\ \A n \in 0 .. height : Held(n)' = Held(n)
      /\ Held(height)' >= Held(height) + Pending + Reward
  BY <1>1, MinedNotes
<1>3. Rounds' = Rounds /\ ToPay(round)' = Q /\ Since' = Since + 1 /\ round' = round /\ retries' = retries
  BY <1>1, FundingKeeps DEF Since
<1>4. Reward \in Nat /\ Fee \in Nat /\ MaxHeight \in Nat
  BY FundingAssumption
<1>5. D \in Nat
  <2>1. round - 1 \in Nat
    BY <1>1
  <2>2. QED
    BY <1>4, <2>1
<1>6. Q \in Nat
  BY <1>1, RoundsToPay
<1>7. Held(height) \in Nat /\ Pending \in Nat /\ (mempool = {} => Pending = 0)
  BY <1>1, HeldGrows, PendingIsSum DEF NotesOK
<1>8. /\ Since = 0 => Held(height) + Pending + D >= Q
      /\ Since > 0 => mempool = {} /\ \A j \in 1 .. Since : Held(B + j) + D >= Q + j * Reward
  BY DEF ValueLasts, Fanning
<1>9. B' = B /\ height' - Since' = B
  BY <1>1, <1>2, <1>3
<1>10. Held(height) + Pending + D >= Q + Since * Reward
  <2>1. CASE Since = 0
    <3>1. Since * Reward = 0
      BY <1>4, <2>1
    <3>2. Held(height) + Pending + D >= Q
      BY <1>8, <2>1
    <3> HIDE DEF D, Q
    <3>3. QED
      BY <1>6, <3>1, <3>2
  <2>2. CASE Since > 0
    <3>1. Since \in 1 .. Since /\ B + Since = height
      BY <1>1, <2>2
    <3>2. Held(B + Since) + D >= Q + Since * Reward
      BY <1>8, <2>2, <3>1
    <3>3. Pending = 0
      BY <1>7, <1>8, <2>2
    <3>4. Held(height) + D >= Q + Since * Reward
      BY <3>1, <3>2
    <3> HIDE DEF D, Q
    <3>5. QED
      BY <1>5, <1>7, <3>3, <3>4
  <2>3. QED
    BY <1>1, <2>1, <2>2
<1>11. (Since + 1) * Reward = Since * Reward + Reward /\ Since * Reward \in Nat
  BY <1>1, <1>4
<1>12. Held(height)' + D >= Q + (Since + 1) * Reward
  <2>1. Held(height)' \in Int
    <3>1. Held(height)' = SumOver(hotNotes'["shielded"], 1 .. height')
      BY DEF Held, Value, SumOver
    <3>2. \A h \in 1 .. MaxHeight : hotNotes'["shielded"][h] \in Nat
      BY <1>2 DEF NotesOK, Pools
    <3>3. IsFiniteSet(1 .. height') /\ \A h \in 1 .. height' : h \in 1 .. MaxHeight
      <4>1. height' \in Nat /\ height' <= MaxHeight
        BY <1>1, <1>2 DEF NotesOK
      <4>2. QED
        BY <1>4, <4>1, BlocksAreFinite
    <3> DEFINE w == hotNotes'["shielded"]
               H == 1 .. height'
    <3>4. \A h \in H : w[h] \in Nat
      BY <3>2, <3>3
    <3>5. Held(height)' = SumOver(w, H) /\ IsFiniteSet(H)
      BY <3>1, <3>3
    <3> HIDE DEF w, H
    <3>6. QED
      BY <3>4, <3>5, SumIsShares
  <2> HIDE DEF D, Q
  <2>2. QED
    BY <1>2, <1>4, <1>5, <1>6, <1>7, <1>10, <1>11, <2>1
<1>13. ASSUME NEW j \in 1 .. Since'
       PROVE  Held(height - Since + j)' + (round' - 1) * Fee >= ToPay(round)' + j * Reward
  <2>1. CASE j = Since'
    <3>1. height' - Since' + j = height' /\ j = Since + 1
      BY <1>1, <1>2, <1>3, <2>1
    <3>2. Held(height - Since + j)' = Held(height)'
      BY <3>1 DEF Held
    <3>3. QED
      BY <1>3, <1>12, <3>1, <3>2
  <2>2. CASE j # Since'
    <3>1. j \in 1 .. Since /\ B + j \in 0 .. height /\ Since > 0
      BY <1>1, <1>3, <2>2
    <3>2. Held(B + j) + D >= Q + j * Reward
      BY <1>8, <3>1
    <3> DEFINE n == B + j
    <3>3. n \in 0 .. height /\ height' - Since' + j = n
      BY <1>9, <3>1
    <3>4. Held(height - Since + j)' = SumOver(hotNotes'["shielded"], 1 .. n)
      BY <3>3 DEF Held, Value, SumOver
    <3>5. \A m \in 0 .. height : SumOver(hotNotes'["shielded"], 1 .. m) = Held(m)
      <4>1. \A m : Held(m)' = SumOver(hotNotes'["shielded"], 1 .. m)
        BY DEF Held, Value, SumOver
      <4>2. QED
        BY <1>2, <4>1
    <3>6. Held(height - Since + j)' = Held(B + j)
      <4> HIDE DEF n
      <4>1. Held(height - Since + j)' = Held(n)
        BY <3>3, <3>4, <3>5
      <4>2. QED
        BY <4>1 DEF n
    <3>7. QED
      BY <1>3, <3>2, <3>6
  <2>3. QED
    BY <2>1, <2>2
<1>14. Since' \in 0 .. height' /\ Since' > 0 /\ ~(Since' = 0)
  BY <1>1, <1>2, <1>3
<1>15. QED
  BY <1>1, <1>2, <1>3, <1>13, <1>14 DEF ValueLasts, Early

\* A round on its way leaves the value of the next ones, less one more fee.
LEMMA RoundSent ==
  ASSUME FundingSteps, AccountsOK, FundsOK, RoundsInOrder, NotesOK, NoShielding, ValueLasts,
         OperationSucceeds, stage = "await"
  PROVE  /\ NotesOK' /\ \A h \in 1 .. MaxHeight : hotNotes'["transparent"][h] = 0
         /\ (round < Rounds /\ round' = round + 1 /\ retries' = 0 /\ stage' = "send") => ValueLasts'
<1> DEFINE A == Cost(round) + Fee
           D == (round - 1) * Fee
           Q == ToPay(round)
<1>1. height \in Nat /\ retries \in Nat /\ round <= Rounds /\ round \in Nat /\ round >= 1 /\ Since \in 0 .. height
  BY DEF FundsOK, ValueLasts, Fanning, Since
<1>2. /\ Cost(round) \in Nat /\ Q \in Nat /\ ToPay(round + 1) \in Nat /\ Q = Cost(round) + ToPay(round + 1)
  BY <1>1, RoundsToPay
<1>3. Reward \in Nat /\ Fee \in Nat /\ MaxHeight \in Nat /\ SendRetries \in Nat /\ SendRetries >= 1
  BY FundingAssumption
<1>4. \A t \in mempool : t.round # round
  <2>1. \A r \in FanOuts : r < round
    BY DEF RoundsInOrder, Fanning
  <2>2. \A t \in mempool : t.round \in Nat /\ (t.round > 0 => t.round \in FanOuts)
    BY DEF FundsOK, FanOuts
  <2>3. QED
    BY <1>1, <2>1, <2>2
<1>5. A \in Nat
  BY <1>2, <1>3
<1>6. PICK S \in Selections(A) : Broadcast(round, "shielded", S, A)
  BY DEF OperationSucceeds
<1> HIDE DEF A
<1>7. /\ NotesOK' /\ height' = height
      /\ \A h \in 1 .. MaxHeight : hotNotes'["transparent"][h] = 0
      /\ Held(height)' + Pending' + A = Held(height) + Pending
  BY <1>1, <1>4, <1>5, <1>6, SentNotes
<1>8. Held(height) \in Nat /\ Pending \in Nat /\ (mempool = {} => Pending = 0)
  BY <1>1, HeldGrows, PendingIsSum DEF NotesOK
<1>9. D \in Nat /\ round * Fee = D + Fee
  <2>1. round - 1 \in Nat
    BY <1>1
  <2>2. QED
    BY <1>1, <1>3, <2>1
<1>10. Held(height) + Pending + D >= Q
  <2>1. CASE Since = 0
    BY <2>1 DEF ValueLasts, Fanning
  <2>2. CASE Since > 0
    <3>1. Since \in 1 .. Since /\ height - Since + Since = height
      BY <1>1, <2>2
    <3>2. Held(height - Since + Since) + D >= Q + Since * Reward /\ mempool = {}
      BY <2>2, <3>1 DEF ValueLasts, Fanning
    <3>3. Pending = 0 /\ Held(height) + D >= Q + Since * Reward
      BY <1>8, <3>1, <3>2
    <3>4. Since * Reward \in Nat
      BY <1>1, <1>3
    <3> HIDE DEF D, Q
    <3>5. QED
      BY <1>2, <1>8, <1>9, <3>3, <3>4
  <2>3. QED
    BY <1>1, <2>1, <2>2
<1>11. ASSUME round < Rounds, round' = round + 1, retries' = 0, stage' = "send"
       PROVE  ValueLasts'
  <2>1. Rounds' = Rounds /\ ToPay(round)' = ToPay(round + 1)
    BY <1>11, FundingKeeps
  <2>2. (round' - 1) * Fee = D + Fee
    <3>1. round' - 1 = round
      BY <1>1, <1>11
    <3>2. QED
      BY <1>9, <3>1
  <2>3. Held(height)' \in Int /\ Pending' \in Int
    <3>1. Held(height)' = SumOver(hotNotes'["shielded"], 1 .. height')
      BY DEF Held, Value, SumOver
    <3>2. \A h \in 1 .. MaxHeight : hotNotes'["shielded"][h] \in Nat
      BY <1>7 DEF NotesOK, Pools
    <3>3. IsFiniteSet(1 .. height') /\ \A h \in 1 .. height' : h \in 1 .. MaxHeight
      <4>1. height' \in Nat /\ height' <= MaxHeight
        BY <1>1, <1>7 DEF NotesOK
      <4>2. QED
        BY <1>3, <4>1, BlocksAreFinite
    <3> DEFINE w == hotNotes'["shielded"]
               H == 1 .. height'
               c == [t \in mempool' |-> t.change]
    <3>4. \A h \in H : w[h] \in Nat
      BY <3>2, <3>3
    <3>5. Held(height)' = SumOver(w, H) /\ IsFiniteSet(H)
      BY <3>1, <3>3
    <3>6. IsFiniteSet(mempool') /\ \A t \in mempool' : c[t] \in Nat
      BY <1>7 DEF NotesOK
    <3>7. Pending' = SumOver(c, mempool')
      <4>1. Pending' = Total(c)
        BY DEF Pending
      <4>2. c = [t \in mempool' |-> c[t]]
        OBVIOUS
      <4> HIDE DEF c
      <4>3. QED
        BY <4>1, <4>2 DEF SumOver
    <3> HIDE DEF w, H, c
    <3>8. QED
      BY <3>4, <3>5, <3>6, <3>7, SumIsShares
  <2>4. Held(height)' + Pending' + (D + Fee) >= ToPay(round + 1)
    <3> HIDE DEF D, Q
    <3>1. Held(height)' + Pending' + (Cost(round) + Fee) + D >= Cost(round) + ToPay(round + 1)
      BY <1>2, <1>7, <1>8, <1>9, <1>10, <2>3 DEF A
    <3>2. QED
      BY <1>2, <1>3, <1>9, <2>3, <3>1
  <2>5. Since' = 0 /\ Since' \in 0 .. height' /\ ~(Since' > 0) /\ retries' \in Nat /\ retries' < SendRetries /\ round' <= Rounds'
    <3>1. Since' = 0
      BY <1>11 DEF Since
    <3>2. Rounds \in Nat
      BY PlanAmounts
    <3>3. QED
      BY <1>1, <1>3, <1>7, <1>11, <2>1, <3>1, <3>2
  <2>6. Held(height)' + Pending' + (round' - 1) * Fee >= ToPay(round)'
    BY <2>1, <2>2, <2>4
  <2>7. QED
    BY <1>11, <2>5, <2>6 DEF ValueLasts, Early
<1>12. QED
  BY <1>7, <1>11

\* The steps of the funding.
LEMMA CalmFundingStep ==
  ASSUME FundingSteps, IInv, Undisturbed, NoFault, CalmParts
  PROVE  CalmParts'
<1>1. AccountsOK /\ FundsOK /\ RoundsInOrder
  BY DEF IInv, AccountsInv, FundsInv
<1>2. NotesOK /\ NoShielding /\ NoneBroken /\ PaidToHot /\ ValueLasts /\ Converges
  BY DEF CalmParts
<1>3. FundNext /\ faults = 0 /\ minerPool = "shielded"
  BY DEF FundingSteps, Undisturbed
<1>4. height \in Nat /\ left \in Nat /\ Chunk \in Nat /\ retries \in Nat
  <2>1. height \in Nat /\ left \in Nat
    BY <1>1 DEF FundsOK
  <2>2. QED
    BY <1>2, <2>1, ChunkFits DEF ValueLasts
<1>5. /\ NoneBroken' /\ (MinerPaysHot => MinerPaysHot') /\ Rounds' = Rounds /\ (RewardsCoverFees' <=> RewardsCoverFees)
  BY <1>2, FundingKeeps
<1> DEFINE NotToShield == stage' \notin {"shield", "shieldWait", "shieldMine"}
<1>6. ASSUME stage \notin {"validate", "resolve", "failed"}
      PROVE  PaidToHot' /\ MinerPaysHot
  BY <1>2, <1>5, <1>6 DEF PaidToHot
<1>7. CASE /\ Mine(Chunk) /\ UNCHANGED retries
           /\ \/ stage \in {"warmMine", "topUp"} /\ stage' \in {stage, "probe", "check"}
              \/ stage = "settle" /\ stage' \in {stage, "ready"}
  <2>1. NotesOK' /\ \A h \in 1 .. MaxHeight : hotNotes'["transparent"][h] = 0
    BY <1>2, <1>3, <1>4, <1>7, MinedNotes
  <2>2. NoShielding' /\ PaidToHot'
    BY <1>6, <1>7, <2>1 DEF NoShielding
  <2>3. ValueLasts'
    BY <1>2, <1>7 DEF ValueLasts, Early, Fanning
  <2>4. Converges'
    BY <1>7 DEF Converges
  <2>5. QED
    BY <1>5, <2>1, <2>2, <2>3, <2>4 DEF CalmParts
<1>8. ASSUME UNCHANGED chainVars, stage \notin {"validate", "resolve", "failed"}, NotToShield
      PROVE  NotesOK' /\ NoShielding' /\ PaidToHot'
  <2>1. NotesOK' /\ hotNotes' = hotNotes
    BY <1>2, <1>8, NotesStay
  <2>2. QED
    BY <1>2, <1>6, <1>8, <2>1 DEF NoShielding
<1>9. CASE /\ UNCHANGED <<chainVars, retries, round>>
           /\ stage \in {"probe", "balance", "age", "plan", "check"}
           /\ stage' \in {"probe", "balance", "age", "populate", "check", "ready", "topUp", "failed"}
           /\ stage' = "failed" => cause' \in Reasons
  <2>1. NotesOK' /\ NoShielding' /\ PaidToHot'
    BY <1>8, <1>9
  <2>2. ValueLasts'
    BY <1>2, <1>9 DEF ValueLasts, Early, Fanning
  <2>3. Converges'
    BY <1>9 DEF Converges, Reasons
  <2>4. QED
    BY <1>5, <2>1, <2>2, <2>3 DEF CalmParts
<1>10. CASE stage = "plan" /\ stage' = "shield" /\ ShieldFirst
  <2>1. Balance("transparent", Anchor) = 0
    BY <1>2, <1>4, BalanceIsHeld
  <2>2. QED
    BY <1>10, <2>1 DEF ShieldFirst
<1>11. CASE UNCHANGED <<chainVars, retries, round>> /\ stage = "check" /\ stage' = "send" /\ Covered
  <2>1. NotesOK' /\ NoShielding' /\ PaidToHot'
    BY <1>8, <1>11
  <2>2. ValueLasts'
    BY <1>1, <1>2, <1>11, FirstSend
  <2>3. Converges'
    BY <1>11 DEF Converges
  <2>4. QED
    BY <1>5, <2>1, <2>2, <2>3 DEF CalmParts
<1>12. CASE UNCHANGED <<chainVars, retries, round>> /\ stage = "send" /\ stage' = "await"
  <2>1. NotesOK' /\ NoShielding' /\ PaidToHot'
    BY <1>8, <1>12
  <2>2. Since' = Since /\ retries' \in Nat /\ retries' < SendRetries
    BY <1>2, <1>4, <1>12 DEF Since, ValueLasts, Fanning
  <2>3. ValueLasts'
    BY <1>2, <1>12, <2>2, SameWait DEF Fanning
  <2>4. Converges'
    BY <1>12 DEF Converges
  <2>5. QED
    BY <1>5, <2>1, <2>3, <2>4 DEF CalmParts
<1>13. CASE /\ UNCHANGED <<chainVars, round>> /\ stage = "send" /\ stage' = "anchor" /\ retries' = retries + 1
            /\ Selections(Cost(round) + Fee) = {}
  <2>1. NotesOK' /\ NoShielding' /\ PaidToHot'
    BY <1>8, <1>13
  <2>2. Since' = Since /\ retries' \in Nat
    BY <1>4, <1>13 DEF Since
  <2>3. ValueLasts'
    BY <1>2, <1>13, <2>2, SameWait DEF Fanning
  <2>4. RewardsCoverFees => retries + 1 < SendRetries
    BY <1>1, <1>2, <1>13, LastAttempt
  <2>5. Converges'
    BY <1>5, <1>13, <2>4 DEF Converges
  <2>6. QED
    BY <1>5, <2>1, <2>3, <2>5 DEF CalmParts
<1>14. CASE /\ Mine(1) /\ UNCHANGED <<retries, round>> /\ stage = "anchor"
            /\ IF retries < SendRetries THEN stage' = "send" ELSE stage' = "failed"
  <2>1. NotesOK' /\ \A h \in 1 .. MaxHeight : hotNotes'["transparent"][h] = 0
    BY <1>2, <1>3, <1>4, <1>14, MinedNotes
  <2>2. NoShielding' /\ PaidToHot' /\ MinerPaysHot
    BY <1>6, <1>14, <2>1 DEF NoShielding
  <2>3. ValueLasts'
    <3>1. CASE stage' = "send"
      BY <1>1, <1>2, <1>3, <1>14, <2>2, <3>1, BlockForAnchor
    <3>2. CASE stage' = "failed"
      BY <1>4, <1>14, <3>2 DEF ValueLasts, Early, Fanning
    <3>3. QED
      BY <1>14, <3>1, <3>2
  <2>4. Converges'
    BY <1>2, <1>5, <1>14 DEF Converges
  <2>5. QED
    BY <1>5, <2>1, <2>2, <2>3, <2>4 DEF CalmParts
<1>15. CASE /\ OperationSucceeds /\ stage = "await"
            /\ \/ round < Rounds /\ round' = round + 1 /\ retries' = 0 /\ stage' = "send"
               \/ stage' = "settle" /\ retries' = retries
  <2>1. /\ NotesOK' /\ \A h \in 1 .. MaxHeight : hotNotes'["transparent"][h] = 0
        /\ (round < Rounds /\ round' = round + 1 /\ retries' = 0 /\ stage' = "send") => ValueLasts'
    BY <1>1, <1>2, <1>15, RoundSent
  <2>2. NoShielding' /\ PaidToHot'
    BY <1>6, <1>15, <2>1 DEF NoShielding
  <2>3. ValueLasts'
    <3>1. CASE stage' = "settle"
      BY <1>4, <1>15, <3>1 DEF ValueLasts, Early, Fanning
    <3>2. QED
      BY <1>15, <2>1, <3>1
  <2>4. Converges'
    BY <1>15 DEF Converges
  <2>5. QED
    BY <1>5, <2>1, <2>2, <2>3, <2>4 DEF CalmParts
<1>16. QED
  BY <1>2, <1>3, <1>7, <1>9, <1>10, <1>11, <1>12, <1>13, <1>14, <1>15, CalmFundingMoves

LEMMA CalmStep ==
  ASSUME Next, IInv, StaysValid', CalmInv
  PROVE  CalmInv'
<1>1. faults \in Nat /\ (Undisturbed => CalmParts)
  BY DEF CalmInv
<1>2. faults' \in Nat /\ (faults' = 0 => faults = 0 /\ NoFault) /\ UNCHANGED <<minerPool, given>>
  BY <1>1, FaultsCounted
<1>3. SUFFICES ASSUME Undisturbed'
               PROVE  CalmParts'
  BY <1>2 DEF CalmInv
<1>4. Undisturbed /\ NoFault /\ faults = 0 /\ given = Nobody
  BY <1>2, <1>3 DEF Undisturbed, Nobody
<1>5. CalmParts /\ NotesOK /\ NoShielding /\ NoneBroken /\ PaidToHot /\ ValueLasts /\ Converges
  BY <1>1, <1>4 DEF CalmParts
<1>6. CASE FundingSteps
  BY <1>4, <1>5, <1>6, CalmFundingStep
<1>7. CASE Validating \/ Provisioning \/ Dispatching
  <2>1. /\ UNCHANGED <<fundVars, scenario>> /\ NoneBroken'
        /\ stage \notin Fanning /\ stage # "failed"
        /\ stage' \in {"resolve", "warmMine", "create", "list", "receivers", "plan", "load", "drain", "failed"}
        /\ stage' \in Early => stage \in Early
        /\ stage' = "failed" => cause' \in {"validate", "populate", "ready"}
    BY <1>4, <1>5, <1>7, CalmOthersMove
  <2>2. UNCHANGED chainVars /\ retries' = retries
    BY <2>1 DEF fundVars, loopVars
  <2>3. NotesOK' /\ hotNotes' = hotNotes
    BY <1>5, <2>2, NotesStay
  <2>4. NoShielding'
    BY <1>5, <2>1, <2>3 DEF NoShielding
  <2>5. PaidToHot'
    <3>1. CASE Provisioning
      BY <1>4, <1>5, <3>1, PaidToHotStep DEF IInv
    <3>2. CASE Validating
      BY <3>2 DEF Validating, Validate, Goto, GiveUp, PaidToHot
    <3>3. CASE Dispatching
      <4>1. UNCHANGED <<hot, wallet>> /\ stage \notin {"validate", "resolve", "failed"}
        BY <3>3 DEF Dispatching, provVars, PaceNext, BeginLoad, Tick, WindowCloses, LoadCancelled, At
      <4>2. Named(HotName)' = Named(HotName)
        BY <4>1 DEF Named
      <4>3. QED
        BY <1>5, <4>1, <4>2 DEF PaidToHot, MinerPaysHot
    <3>4. QED
      BY <1>7, <3>1, <3>2, <3>3
  <2>6. ValueLasts'
    BY <1>5, <2>1, <2>2 DEF ValueLasts, Early, Fanning
  <2>7. Converges'
    BY <2>1 DEF Converges, StaysValid
  <2>8. QED
    BY <2>1, <2>3, <2>4, <2>5, <2>6, <2>7 DEF CalmParts
<1>8. QED
  BY <1>6, <1>7 DEF Next

LEMMA InitCalm == Init => CalmInv
<1> SUFFICES ASSUME Init
             PROVE  CalmInv
  OBVIOUS
<1>1. /\ stage = "validate" /\ faults = 0 /\ task = [a \in Population |-> "new"]
      /\ height = 0 /\ hotNotes = [p \in Pools |-> [h \in 1 .. MaxHeight |-> 0]] /\ mempool = {} /\ retries = 0
  BY DEF Init, ProvInit, FundInit
<1>2. NotesOK
  <2>1. 0 <= MaxHeight
    BY FundingAssumption
  <2>2. QED
    BY <1>1, <2>1, FS_EmptySet DEF NotesOK
<1>3. NoShielding /\ NoneBroken /\ PaidToHot /\ ValueLasts /\ Converges
  BY <1>1 DEF NoShielding, NoneBroken, PaidToHot, ValueLasts, Converges, Early, Fanning, Pools
<1>4. QED
  BY <1>1, <1>2, <1>3 DEF CalmInv, CalmParts

LEMMA CalmStutter ==
  ASSUME UNCHANGED vars, CalmInv
  PROVE  CalmInv'
<1>1. /\ UNCHANGED <<stage, cause, faults, scenario, wallet, hot, task, given, active, minerPool, round, retries>>
      /\ UNCHANGED chainVars
  BY DEF vars, provVars, fundVars, loopVars
<1>2. Plan' = Plan /\ Population' = Population /\ Named(HotName)' = Named(HotName)
  BY <1>1 DEF Plan, Population, Named
<1>3. Rounds' = Rounds /\ (MinerPaysHot' <=> MinerPaysHot) /\ ToPay(round)' = ToPay(round)
  BY <1>1, <1>2 DEF Rounds, MinerPaysHot, ToPay
<1>4. /\ (NotesOK => NotesOK') /\ height' = height /\ mempool' = mempool
      /\ Pending' = Pending /\ Held(height)' = Held(height) /\ hotNotes' = hotNotes
  BY <1>1, NotesStay
<1>5. (RewardsCoverFees' <=> RewardsCoverFees) /\ Since' = Since
  BY <1>1, <1>3 DEF RewardsCoverFees, Since
<1>6. \A j : Held(height - Since + j)' = Held(height - Since + j)
  BY <1>4, <1>5 DEF Held, Value
<1>7. ValueLasts => ValueLasts'
  <2> DEFINE X(j) == Held(height - Since + j)
  <2>1. \A j : X(j)' = X(j)
    BY <1>6
  <2>2. ValueLasts <=>
          /\ retries \in Nat /\ (stage \in Early => retries = 0)
          /\ stage \in Fanning =>
               /\ Since \in 0 .. height /\ (stage # "anchor" => retries < SendRetries)
               /\ round <= Rounds
               /\ Since = 0 => Held(height) + Pending + (round - 1) * Fee >= ToPay(round)
               /\ Since > 0 => mempool = {} /\ \A j \in 1 .. Since : X(j) + (round - 1) * Fee >= ToPay(round) + j * Reward
    BY DEF ValueLasts
  <2>3. ValueLasts' <=>
          /\ retries' \in Nat /\ (stage' \in Early => retries' = 0)
          /\ stage' \in Fanning =>
               /\ Since' \in 0 .. height' /\ (stage' # "anchor" => retries' < SendRetries)
               /\ round' <= Rounds'
               /\ Since' = 0 => Held(height)' + Pending' + (round' - 1) * Fee >= ToPay(round)'
               /\ Since' > 0 => mempool' = {} /\ \A j \in 1 .. Since' : X(j)' + (round' - 1) * Fee >= ToPay(round)' + j * Reward
    BY DEF ValueLasts, Early, Fanning
  <2> HIDE DEF X
  <2>4. QED
    BY <1>1, <1>3, <1>4, <1>5, <2>1, <2>2, <2>3 DEF Early, Fanning
<1>8. (NoShielding => NoShielding') /\ (NoneBroken => NoneBroken') /\ (PaidToHot => PaidToHot') /\ (Converges => Converges')
  BY <1>1, <1>2, <1>3, <1>4, <1>5 DEF NoShielding, NoneBroken, PaidToHot, Converges
<1>9. Undisturbed' => Undisturbed
  BY <1>1 DEF Undisturbed, Nobody
<1>10. QED
  BY <1>1, <1>4, <1>7, <1>8, <1>9 DEF CalmInv, CalmParts

\* What the hot wallet holds while no call goes wrong: every round's change and the plan's
\* amounts are accounted for until the last round is sent, whatever notes the wallet spends
\* and however many blocks the sends wait for (send_with_anchor_retries in funding.rs).
THEOREM CalmInvariance == Spec => []CalmInv
<1>1. IInv /\ PaceInv' /\ CalmInv /\ [Next]_vars => CalmInv'
  <2> SUFFICES ASSUME IInv, PaceInv', CalmInv, [Next]_vars
               PROVE  CalmInv'
    OBVIOUS
  <2>1. StaysValid'
    BY DEF PaceInv
  <2>2. CASE Next
    BY <2>1, <2>2, CalmStep
  <2>3. CASE UNCHANGED vars
    BY <2>3, CalmStutter
  <2>4. QED
    BY <2>2, <2>3
<1>2. Init /\ [][Next]_vars /\ []IInv /\ []PaceInv => []CalmInv
  BY <1>1, InitCalm, PTL
<1>3. QED
  BY <1>2, Invariance, PaceInvariance, PTL DEF Spec

\* "One block is mined per retry so waiting always converges" (funding.rs:402) - as long as
\* the blocks a round may wait for, beyond those its change needs, reward at least the fees of
\* all rounds: then, when no call goes wrong, the miner is paid to a shielded receiver and the
\* hot wallet goes by its name, a fan-out that ensure_funded let begin is never given up,
\* for any scenario, amounts, depth and choice of notes.
THEOREM WaitingSafety == Spec => [](RewardsCoverFees => WaitingConverges)
<1>1. CalmInv => (RewardsCoverFees => WaitingConverges)
  BY DEF CalmInv, Undisturbed, CalmParts, Converges, WaitingConverges
<1>2. QED
  BY <1>1, CalmInvariance, PTL

=============================================================================
