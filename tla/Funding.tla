------------------------------- MODULE Funding -------------------------------
(***************************************************************************)
(* Value for the accounts of a run: warmup mines and checks the hot wallet *)
(* (runner/lifecycle.rs), then fund_accounts (runner/funding.rs) shields,  *)
(* tops up and fans out in rounds, and setup mines the confirmations.      *)
(*                                                                         *)
(* Zebra and Zallet are external.  A block pays Reward to the hot wallet's *)
(* receiver in one pool and confirms what the wallet broadcast; the wallet *)
(* spends whole shielded notes at least Anchor deep and gets change as a   *)
(* new note.  Notes of one height are one note.  Amounts are small units.  *)
(***************************************************************************)
EXTENDS Provisioner

CONSTANTS MinTransparent, MinShielded,    \* its floors
          MinerPools,     \* pools the miner address may be a receiver of
          Reward, Fee, Anchor, Maturity,  \* Maturity: of transparent coinbase
          TopUpBlocks, TopUpRounds,
          ChunkBlocks, ChunkAttempts,     \* of generate_in_chunks
          ProbeAttempts,  \* of the two polls of warmup
          SendRetries,
          MaxHeight       \* bound: never reached in the instances

ASSUME FundingAssumption ==
  /\ {MinTransparent, MinShielded, Reward, Fee, Anchor, Maturity, TopUpBlocks,
      TopUpRounds, ChunkBlocks, ChunkAttempts, ProbeAttempts, SendRetries, MaxHeight}
       \subseteq Nat \ {0}
  /\ MinerPools \subseteq {"transparent", "shielded"}

VARIABLES minerPool,
          height,
          hotNotes,       \* the hot wallet's unspent value by pool and height
          mempool,        \* broadcast and not mined: the round (0 shields), its change
          paid,           \* fan-out transactions that were mined
          left, attempts, \* of generate_in_chunks: blocks to mine, tries of this chunk
          polls, topUps, round, retries

chainVars == <<height, hotNotes, mempool, paid>>
mineVars == <<left, attempts>>
loopVars == <<polls, topUps, round, retries>>
fundVars == <<minerPool, chainVars, mineVars, loopVars>>

Pools == {"transparent", "shielded"}

-----------------------------------------------------------------------------
\* The plan (compute_funding_plan)

MaxOf(a, b) == IF a >= b THEN a ELSE b

ComputePlan(s, accounts) ==
  LET each == MaxOf(CeilDiv(ExpectedIntents(s), MaxOf(accounts, 1)), 1)
      mean == (s.min + s.max) \div 2
  IN [outputs |-> each,
      transparent |-> MaxOf(mean + mean \div 2, MinTransparent),
      shielded |-> MaxOf((each * mean * 3) \div 2, MinShielded)]

Plan == ComputePlan(scenario, Cardinality(active))
Rounds == MaxOf(Plan.outputs, 1)   \* MinShielded > 0: the first round has shielded outputs
Needed == (Plan.outputs * Plan.transparent + Plan.shielded) * Cardinality(active)

\* The recipients of a round: each sink's p2pkh receiver, in the first round its UA as well.
Recipients(r) ==
  {<<entry[a], "transparent">> : a \in {b \in active : r <= Plan.outputs}}
    \cup {<<entry[a], "shielded">> : a \in {b \in active : r = 1}}
Cost(r) == Cardinality(active) * ((IF r <= Plan.outputs THEN Plan.transparent ELSE 0)
                                  + (IF r = 1 THEN Plan.shielded ELSE 0))

-----------------------------------------------------------------------------
\* Wallet and chain (external)

Deep(h, depth) == h <= height /\ height - h + 1 >= depth
Balance(pool, depth) ==
  Total([h \in 1 .. height |-> IF Deep(h, depth) THEN hotNotes[pool][h] ELSE 0])

Value(pool, S) == Total([h \in S |-> hotNotes[pool][h]])

\* The bootstrap script points the coinbase at the first account of that name.
MinerPaysHot == hot \in Named(HotName) /\ hot = First(Named(HotName))

Mine(k) ==
  /\ height + k <= MaxHeight
  /\ height' = height + k
  /\ LET change == Total([t \in mempool |-> t.change])
     IN hotNotes' = [p \in Pools |-> [h \in 1 .. MaxHeight |->
          hotNotes[p][h]
            + (IF p = minerPool /\ MinerPaysHot /\ h \in height + 1 .. height + k THEN Reward ELSE 0)
            + (IF p = "shielded" /\ h = height + 1 THEN change ELSE 0)]]
  /\ paid' = paid \cup {[round |-> t.round, at |-> height + 1] :
                          t \in {u \in mempool : u.round > 0}}
  /\ mempool' = {}

\* A request that may or may not reach the node.
MineOrNot(k) == Mine(k) \/ UNCHANGED chainVars

\* Sets of notes with enough value, none of them superfluous.
Selections(amount) ==
  LET ripe == {h \in 1 .. height : Deep(h, Anchor) /\ hotNotes["shielded"][h] > 0}
  IN {S \in SUBSET ripe : /\ Value("shielded", S) >= amount
                          /\ \A h \in S : Value("shielded", S \ {h}) < amount}

Broadcast(r, pool, S, amount) ==
  /\ hotNotes' = [hotNotes EXCEPT ![pool] = [h \in 1 .. MaxHeight |->
                                               IF h \in S THEN 0 ELSE @[h]]]
  /\ mempool' = mempool \cup
       {[round |-> r,
         change |-> Value(pool, S) - amount]}
  /\ UNCHANGED <<height, paid>>

-----------------------------------------------------------------------------
FundInit ==
  /\ minerPool \in MinerPools
  /\ height = 0 /\ hotNotes = [p \in Pools |-> [h \in 1 .. MaxHeight |-> 0]]
  /\ mempool = {} /\ paid = {}
  /\ left = scenario.warmup /\ attempts = 0
  /\ polls = 0 /\ topUps = 0 /\ round = 1 /\ retries = 0

\* generate_in_chunks: the stages that mine, with what follows each of them.
AfterMining == [warmMine |-> "probe", shieldMine |-> "check", topUp |-> "check",
                settle |-> "ready"]
Chunk == IF left < ChunkBlocks THEN left ELSE ChunkBlocks

ChunkMined ==
  /\ stage \in DOMAIN AfterMining
  /\ Mine(Chunk)
  /\ left' = left - Chunk /\ attempts' = 0
  /\ IF left' = 0 THEN Goto(AfterMining[stage]) ELSE Stay
  /\ NoFault /\ UNCHANGED <<minerPool, loopVars>>

\* Mutant: a chunk whose answer was lost counts as mined.
ChunkLostCounted ==
  /\ stage \in DOMAIN AfterMining /\ Fault
  /\ MineOrNot(Chunk)
  /\ left' = left - Chunk /\ attempts' = 0
  /\ IF left' = 0 THEN Goto(AfterMining[stage]) ELSE Stay
  /\ UNCHANGED <<minerPool, loopVars>>

\* The call or its answer is lost (RpcError::Transport): the chunk is asked for again.
ChunkLost ==
  /\ stage \in DOMAIN AfterMining /\ Fault
  /\ MineOrNot(Chunk)
  /\ attempts' = attempts + 1 /\ UNCHANGED left
  /\ IF attempts' < ChunkAttempts THEN Stay ELSE GiveUp
  /\ UNCHANGED <<minerPool, loopVars>>

\* Any other error is final; a body that breaks off does not tell what the node did.
ChunkRefused ==
  /\ stage \in DOMAIN AfterMining /\ Fault
  /\ MineOrNot(Chunk) /\ GiveUp
  /\ UNCHANGED <<minerPool, mineVars, loopVars>>

Begin(mining, blocks) == Goto(mining) /\ left' = blocks /\ attempts' = 0

\* get_blockchain_info once, then get_wallet_info until the wallet answers.
Probe ==
  /\ At("probe")
  /\ \/ Goto("balance") /\ polls' = 0 /\ NoFault
     \/ Fault /\ polls' = polls + 1 /\ (IF polls' < ProbeAttempts THEN Stay ELSE GiveUp)
     \/ Fault /\ GiveUp /\ UNCHANGED polls     \* get_blockchain_info
  /\ UNCHANGED <<minerPool, chainVars, mineVars, topUps, round, retries>>

\* The wallet may not have scanned the blocks yet; an error is final here.
PollBalance ==
  /\ At("balance")
  /\ \/ /\ \E p \in Pools : Balance(p, 1) > 0
        /\ Goto("age") /\ NoFault /\ UNCHANGED polls
     \/ /\ polls' = polls + 1 /\ NoFault
        /\ IF polls' < ProbeAttempts THEN Stay ELSE GiveUp
     \/ Fault /\ GiveUp /\ UNCHANGED polls
  /\ UNCHANGED <<minerPool, chainVars, mineVars, topUps, round, retries>>

\* Some output is old enough; when z_listunspent fails, the check is skipped.
OldEnough == Balance("transparent", Maturity) > 0 \/ Balance("shielded", Anchor) > 0
CheckAge ==
  /\ At("age")
  /\ \/ OldEnough /\ Goto("populate") /\ NoFault
     \/ ~OldEnough /\ GiveUp /\ NoFault
     \/ Goto("populate") /\ Fault
  /\ UNCHANGED fundVars

\* fund_accounts: whether the coinbase has to be shielded first.
ShieldFirst == Balance("shielded", Anchor) < Needed /\ Balance("transparent", Anchor) > 0
Measure ==
  /\ At("plan")
  /\ \/ active = {} /\ Goto("ready") /\ NoFault
     \/ active # {} /\ ShieldFirst /\ Goto("shield") /\ NoFault
     \/ active # {} /\ ~ShieldFirst /\ Goto("check") /\ NoFault
     \/ active # {} /\ GiveUp /\ Fault
  /\ UNCHANGED fundVars

\* z_shieldcoinbase: the wallet takes every mature coinbase output.
Mature == {h \in 1 .. height : Deep(h, Maturity) /\ hotNotes["transparent"][h] > 0}
Shield ==
  /\ At("shield")
  /\ \/ /\ Balance("transparent", Maturity) > Fee
        /\ Goto("shieldWait") /\ NoFault
     \/ Balance("transparent", Maturity) <= Fee /\ GiveUp /\ NoFault
     \/ GiveUp /\ Fault
  /\ UNCHANGED fundVars

ShieldDone ==
  /\ At("shieldWait")
  /\ \/ Broadcast(0, "transparent", Mature, Fee) /\ NoFault /\ Begin("shieldMine", Anchor)
     \/ GiveUp /\ Fault /\ UNCHANGED <<chainVars, mineVars>>
  /\ UNCHANGED <<minerPool, loopVars>>

\* ensure_funded measures before each round of mining, and once more after the last.
\* It counts both pools.
Covered == Balance("shielded", Anchor) + Balance("transparent", Anchor) >= Needed

CheckFunded ==
  /\ At("check")
  /\ \/ Covered /\ Goto("send") /\ NoFault /\ UNCHANGED <<mineVars, topUps>>
     \/ /\ ~Covered /\ topUps < TopUpRounds
        /\ topUps' = topUps + 1 /\ Begin("topUp", TopUpBlocks) /\ NoFault
     \/ /\ ~Covered /\ topUps = TopUpRounds
        /\ GiveUp /\ NoFault /\ UNCHANGED <<mineVars, topUps>>
     \/ GiveUp /\ Fault /\ UNCHANGED <<mineVars, topUps>>
  /\ UNCHANGED <<minerPool, chainVars, polls, round, retries>>

\* send_with_anchor_retries: the wallet accepts, or finds too little that is old enough.
SendAccepted ==
  /\ At("send") /\ Selections(Cost(round) + Fee) # {}
  /\ Goto("await") /\ NoFault
  /\ UNCHANGED fundVars

SendInsufficient ==
  /\ At("send")
  /\ \/ Selections(Cost(round) + Fee) = {} /\ NoFault
     \/ Fault    \* the wallet's scan trails the chain
  /\ retries' = retries + 1 /\ Goto("anchor")
  /\ UNCHANGED <<minerPool, chainVars, mineVars, polls, topUps, round>>

\* Mutant: a send whose answer was lost is tried again.
SendLostRetried ==
  /\ At("send") /\ Fault
  /\ retries' = retries + 1 /\ Goto("anchor")
  /\ \/ UNCHANGED chainVars
     \/ \E S \in Selections(Cost(round) + Fee) :
          Broadcast(round, "shielded", S, Cost(round) + Fee)
  /\ UNCHANGED <<minerPool, mineVars, polls, topUps, round>>

\* The answer is lost: whether the wallet will pay is unknown, and setup gives up.
SendLost ==
  /\ At("send") /\ Fault /\ GiveUp
  /\ \/ UNCHANGED chainVars
     \/ \E S \in Selections(Cost(round) + Fee) :
          Broadcast(round, "shielded", S, Cost(round) + Fee)
  /\ UNCHANGED <<minerPool, mineVars, loopVars>>

\* Mutant: the next attempt waits, but no block is mined.
WaitForAnchor ==
  /\ At("anchor") /\ NoFault
  /\ IF retries < SendRetries THEN Goto("send") ELSE GiveUp
  /\ UNCHANGED fundVars

\* Mutant: the attempts are not counted.
MineForAnchorForever ==
  /\ At("anchor") /\ Goto("send") /\ Mine(1) /\ NoFault
  /\ retries' = 0
  /\ UNCHANGED <<minerPool, mineVars, polls, topUps, round>>

\* One block before the next attempt, whatever becomes of the call.
MineForAnchor ==
  /\ At("anchor")
  /\ \/ Mine(1) /\ NoFault
     \/ MineOrNot(1) /\ Fault
  /\ IF retries < SendRetries THEN Goto("send") ELSE GiveUp
  /\ UNCHANGED <<minerPool, mineVars, loopVars>>

\* wait_operation
OperationSucceeds ==
  /\ At("await")
  /\ \E S \in Selections(Cost(round) + Fee) :
       Broadcast(round, "shielded", S, Cost(round) + Fee)
  /\ IF round < Rounds
     THEN round' = round + 1 /\ retries' = 0 /\ Goto("send") /\ UNCHANGED mineVars
     ELSE Begin("settle", Anchor) /\ UNCHANGED <<round, retries>>
  /\ NoFault /\ UNCHANGED <<minerPool, polls, topUps>>

\* It fails, is not done in time, or cannot be asked for; the wallet may still broadcast.
OperationLost ==
  /\ At("await") /\ Fault /\ GiveUp
  /\ \/ UNCHANGED chainVars
     \/ \E S \in Selections(Cost(round) + Fee) :
          Broadcast(round, "shielded", S, Cost(round) + Fee)
  /\ UNCHANGED <<minerPool, mineVars, loopVars>>

GenerateInChunks == ChunkMined \/ ChunkLost \/ ChunkRefused
Warmup == Probe \/ PollBalance \/ CheckAge
SendWithAnchorRetries == SendAccepted \/ SendInsufficient \/ SendLost \/ MineForAnchor
WaitOperation == ShieldDone \/ OperationSucceeds \/ OperationLost
FundAccounts == Measure \/ Shield \/ CheckFunded \/ SendWithAnchorRetries \/ WaitOperation

FundNext == GenerateInChunks \/ Warmup \/ FundAccounts
=============================================================================
