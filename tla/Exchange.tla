------------------------------ MODULE Exchange ------------------------------
(***************************************************************************)
(* The exchange workflows (scenarios/exchange.rs) as runner/dispatch.rs    *)
(* composes them: an intent is a deposit (TToZ, ZToZ), a withdrawal (TToT) *)
(* or a sweep followed by a withdrawal from the hot wallet (ZToT).  Any    *)
(* number of intents run side by side, against one wallet and one chain.   *)
(*                                                                         *)
(* Value is abstracted to coins: a payment moves `need` coins from one     *)
(* purse (an account's transparent or shielded funds, or the hot wallet)   *)
(* to another when it is mined; fees are not modelled.  Zallet and Zebra   *)
(* are external: the model keeps what the workflows can observe of them.   *)
(* A deadline is a number of polls.                                        *)
(***************************************************************************)
EXTENDS Naturals, FiniteSets, Sequences

CONSTANTS Intents, Accounts,
          Flow, Sender, Recipient,  \* of each intent
          Provisioned,     \* accounts zallet_uuids and zallet_addresses know: all of
                           \* them after provision, but dispatch does not rely on it
          Coins, Purse0,   \* the coins and the purse that first holds each
          Since0,          \* the height each coin was mined at
          SendRetries,     \* SEND_RETRIES
          MaxPolls,        \* polls until a deadline has passed
          AnchorDepth,     \* confirmations Zallet wants of a shielded note
          Height0,         \* the chain's height when the load phase starts
          MaxHeight,       \* bound: blocks the miner mines
          MaxFaults        \* bound: RPC calls and operations that go wrong

Flows == {"TToT", "TToZ", "ZToT", "ZToZ"}
Hot == <<"hot", "shielded">>
Purses == {Hot} \cup (Accounts \X {"transparent", "shielded"})

ASSUME IntentsAssumption ==
  /\ IsFiniteSet(Intents)
  /\ Flow \in [Intents -> Flows]
  /\ Sender \in [Intents -> Accounts] /\ Recipient \in [Intents -> Accounts]
ASSUME CoinsAssumption ==
  /\ IsFiniteSet(Coins)
  /\ Purse0 \in [Coins -> Purses] /\ Since0 \in [Coins -> Nat]
ASSUME BoundsAssumption ==
  /\ SendRetries \in Nat \ {0} /\ MaxPolls \in Nat \ {0} /\ AnchorDepth \in Nat
  /\ Height0 \in Nat /\ MaxHeight \in Nat /\ MaxFaults \in Nat

VARIABLES
  pc, leg,    \* where each intent is, and in which of its legs
  attempt,    \* number of the z_sendmany attempt, from 1 in each leg
  polls,      \* polls made in the stage at hand
  need,       \* coins the leg pays, fixed before its first attempt
  outcome,    \* of each intent
  err,        \* why it failed
  sends,      \* the recorded z_sendmany attempts, in order
  op,         \* the wallet's operations, by intent, leg and attempt
  stray,      \* requests whose caller gave up before the wallet took them
  coin,       \* purse and height of each coin
  spentBy,    \* the broadcast operation that spends the coin
  height, faults

intentVars == <<pc, leg, attempt, polls, need, outcome, err, sends>>
walletVars == <<op, stray>>
chainVars == <<coin, spentBy, height>>
vars == <<intentVars, walletVars, chainVars, faults>>

OpIds == Intents \X {1, 2} \X (1..SendRetries)
NoOp == <<>>

OpId(i) == <<i, leg[i], attempt[i]>>

Legs(i) == IF Flow[i] = "ZToT" THEN 2 ELSE 1

Kind(i, l) == IF Flow[i] = "ZToT" /\ l = 1 THEN "sweep"
              ELSE IF Flow[i] \in {"TToT", "ZToT"} THEN "withdrawal" ELSE "deposit"

\* A UA draws shielded funds only, a bare t-addr that address's transparent ones.
Source(i, l) ==
  IF Flow[i] = "ZToT" /\ l = 2 THEN Hot
  ELSE <<Sender[i], IF Flow[i] \in {"TToT", "TToZ"} THEN "transparent" ELSE "shielded">>

Dest(i, l) ==
  IF Kind(i, l) = "sweep" THEN Hot
  ELSE <<Recipient[i], IF Kind(i, l) = "deposit" THEN "shielded" ELSE "transparent">>

Unspent(p) == {c \in Coins : coin[c].purse = p /\ spentBy[c] = NoOp}

\* What Zallet is willing to spend: shielded notes only at anchor depth.
Spendable(p) == {c \in Unspent(p) : p[2] = "shielded" => coin[c].since + AnchorDepth <= height}

FirstStage(i) == IF Flow[i] = "ZToT" THEN "resolve" ELSE "send"

Init ==
  /\ pc = [i \in Intents |-> FirstStage(i)]
  /\ leg = [i \in Intents |-> 1]
  /\ attempt = [i \in Intents |-> 1]
  /\ polls = [i \in Intents |-> 0]
  /\ need = [i \in Intents |-> 1]
  /\ outcome = [i \in Intents |-> "none"]
  /\ err = [i \in Intents |-> "none"]
  /\ sends = [i \in Intents |-> <<>>]
  /\ op = [o \in OpIds |-> [state |-> "none", coins |-> {}]]
  /\ stray = {}
  /\ coin = [c \in Coins |-> [purse |-> Purse0[c], since |-> Since0[c]]]
  /\ spentBy = [c \in Coins |-> NoOp]
  /\ height = Height0
  /\ faults = 0

-----------------------------------------------------------------------------
(* How a workflow ends. *)

Settle(i, o, e) ==
  /\ pc' = [pc EXCEPT ![i] = "done"]
  /\ outcome' = [outcome EXCEPT ![i] = o]
  /\ err' = [err EXCEPT ![i] = e]

Fail(i, e) == Settle(i, "failed", e)

Goto(i, s) ==
  /\ pc' = [pc EXCEPT ![i] = s]
  /\ polls' = [polls EXCEPT ![i] = 0]

\* A call that goes wrong in a way no workflow retries.
Fault == faults < MaxFaults /\ faults' = faults + 1

-----------------------------------------------------------------------------
(* The stages of a workflow. *)

\* The ZToT arm looks its account up before it calls anything.
Resolve(i) ==
  /\ pc[i] = "resolve"
  /\ \/ /\ Sender[i] \in Provisioned
        /\ pc' = [pc EXCEPT ![i] = "list"]
        /\ UNCHANGED <<outcome, err>>
     \/ Sender[i] \notin Provisioned /\ Fail(i, "unresolved")
  /\ UNCHANGED <<leg, attempt, polls, need, sends, walletVars, chainVars, faults>>

\* The sweep takes every shielded note with a confirmation, spendable yet or not,
\* and keeps that amount whatever happens to the notes later.
List(i) ==
  /\ pc[i] = "list"
  /\ LET notes == Unspent(Source(i, 1))
     IN \/ /\ notes # {}
           /\ need' = [need EXCEPT ![i] = Cardinality(notes)]
           /\ pc' = [pc EXCEPT ![i] = "send"]
           /\ UNCHANGED <<outcome, err, faults>>
        \/ notes = {} /\ Fail(i, "empty") /\ UNCHANGED <<need, faults>>
        \/ Fault /\ Fail(i, "rpc") /\ UNCHANGED need
  /\ UNCHANGED <<leg, attempt, polls, sends, walletVars, chainVars>>

\* The recorded attempt.
Record(i, ok) ==
  sends' = [sends EXCEPT ![i] = Append(@, [leg |-> leg[i], attempt |-> attempt[i], ok |-> ok])]

\* The wallet takes a request: it selects notes nobody's broadcast transaction
\* spends.
Take(o, n) ==
  \E K \in SUBSET Spendable(Source(o[1], o[2])) :
    /\ Cardinality(K) = n
    /\ op' = [op EXCEPT ![o] = [state |-> "proving", coins |-> K]]

SendAccepted(i) ==
  /\ pc[i] = "send"
  /\ Take(OpId(i), need[i])
  /\ Record(i, TRUE)
  /\ Goto(i, "poll")
  /\ UNCHANGED <<leg, attempt, need, outcome, err, stray, chainVars, faults>>

\* "Insufficient balance" is the one error that is tried again.
SendInsufficient(i) ==
  /\ pc[i] = "send"
  /\ Cardinality(Spendable(Source(i, leg[i]))) < need[i]
  /\ Record(i, FALSE)
  /\ \/ /\ attempt[i] < SendRetries
        /\ attempt' = [attempt EXCEPT ![i] = @ + 1]
        /\ UNCHANGED <<pc, outcome, err>>
     \/ attempt[i] = SendRetries /\ Fail(i, "insufficient") /\ UNCHANGED attempt
  /\ UNCHANGED <<leg, polls, need, walletVars, chainVars, faults>>

\* Mutant: a lost answer is tried again too.
SendFailsRetried(i) ==
  /\ pc[i] = "send"
  /\ Fault
  /\ Record(i, FALSE)
  /\ stray' \in {stray, stray \cup {OpId(i)}}
  /\ attempt[i] < SendRetries
  /\ attempt' = [attempt EXCEPT ![i] = @ + 1]
  /\ UNCHANGED <<pc, leg, polls, need, outcome, err, op, chainVars>>

\* Any other answer, or none: the wallet may still take a request whose answer
\* was lost.
SendFails(i) ==
  /\ pc[i] = "send"
  /\ Fault
  /\ Record(i, FALSE)
  /\ stray' \in {stray, stray \cup {OpId(i)}}
  /\ Fail(i, "rpc")
  /\ UNCHANGED <<leg, attempt, polls, need, op, chainVars>>

Send(i) == SendAccepted(i) \/ SendInsufficient(i) \/ SendFails(i)

\* Mutant: no deadline.
PollAgainForever(i) ==
  /\ polls' = [polls EXCEPT ![i] = IF @ + 1 < MaxPolls THEN @ + 1 ELSE @]
  /\ UNCHANGED <<pc, outcome, err>>

\* Mutant: what has not come by the deadline counts as refused.
PollAgainFinal(i) ==
  \/ /\ polls[i] + 1 < MaxPolls
     /\ polls' = [polls EXCEPT ![i] = @ + 1]
     /\ UNCHANGED <<pc, outcome, err>>
  \/ /\ polls[i] + 1 >= MaxPolls
     /\ Settle(i, "failed", "operation")
     /\ UNCHANGED polls

\* A poll that finds nothing: the deadline is checked after the answer.
PollAgain(i) ==
  \/ /\ polls[i] + 1 < MaxPolls
     /\ polls' = [polls EXCEPT ![i] = @ + 1]
     /\ UNCHANGED <<pc, outcome, err>>
  \/ /\ polls[i] + 1 >= MaxPolls
     /\ Settle(i, "timedOut", "timeout")
     /\ UNCHANGED polls

\* A withdrawal asks for the operation's result before it waits, a deposit and a
\* sweep take the txid from the status.
Poll(i) ==
  /\ pc[i] = "poll"
  /\ LET o == op[OpId(i)]
     IN \/ /\ o.state \in {"mempool", "mined"}
           /\ Goto(i, IF Kind(i, leg[i]) = "withdrawal" THEN "result" ELSE "confirm")
           /\ UNCHANGED <<outcome, err, faults>>
        \/ o.state = "failed" /\ Fail(i, "operation") /\ UNCHANGED <<polls, faults>>
        \/ o.state = "proving" /\ PollAgain(i) /\ UNCHANGED faults
        \/ Fault /\ Fail(i, "rpc") /\ UNCHANGED polls
  /\ UNCHANGED <<leg, attempt, need, sends, walletVars, chainVars>>

\* z_getoperationresult gives its answer once; a lost one fails the withdrawal
\* although its payment is on its way.
Result(i) ==
  /\ pc[i] = "result"
  /\ \/ Goto(i, "confirm") /\ UNCHANGED <<outcome, err, faults>>
     \/ Fault /\ Fail(i, "rpc") /\ UNCHANGED polls
  /\ UNCHANGED <<leg, attempt, need, sends, walletVars, chainVars>>

\* Mutant: the mempool counts as confirmed.
OnChainOrSoon(i) == op[OpId(i)].state \in {"mempool", "mined"}

\* `confirmations >= 1`.
OnChain(i) == op[OpId(i)].state = "mined"

\* The confirmed sweep of a ZToT intent starts its payout, with attempts numbered
\* from 1 again.
NextLeg(i) ==
  /\ leg' = [leg EXCEPT ![i] = 2]
  /\ attempt' = [attempt EXCEPT ![i] = 1]
  /\ need' = [need EXCEPT ![i] = 1]
  /\ Goto(i, "send")
  /\ UNCHANGED <<outcome, err>>

Confirm(i) ==
  /\ pc[i] = "confirm"
  /\ \/ /\ OnChain(i) /\ leg[i] < Legs(i)
        /\ NextLeg(i)
        /\ UNCHANGED faults
     \/ /\ OnChain(i) /\ leg[i] = Legs(i)
        /\ Settle(i, "confirmed", "none")
        /\ UNCHANGED <<leg, attempt, need, polls, faults>>
     \/ /\ ~OnChain(i)
        /\ PollAgain(i)
        /\ UNCHANGED <<leg, attempt, need, faults>>
     \/ Fault /\ Fail(i, "rpc") /\ UNCHANGED <<leg, attempt, need, polls>>
  /\ UNCHANGED <<sends, walletVars, chainVars>>

-----------------------------------------------------------------------------
(* The wallet and the chain. *)

\* A request its caller has given up on is taken after all.
TakeStray(o) ==
  /\ o \in stray
  /\ Take(o, need[o[1]])
  /\ stray' = stray \ {o}
  /\ UNCHANGED <<intentVars, chainVars, faults>>

\* Proving ends: the transaction is broadcast unless another one has spent its
\* notes meanwhile.
Prove(o) ==
  /\ op[o].state = "proving"
  /\ \/ /\ op[o].coins \subseteq Unspent(Source(o[1], o[2]))
        /\ op' = [op EXCEPT ![o].state = "mempool"]
        /\ spentBy' = [c \in Coins |-> IF c \in op[o].coins THEN o ELSE spentBy[c]]
        /\ UNCHANGED faults
     \/ /\ ~(op[o].coins \subseteq Unspent(Source(o[1], o[2])))
        /\ op' = [op EXCEPT ![o].state = "failed"]
        /\ UNCHANGED <<spentBy, faults>>
     \/ /\ Fault
        /\ op' = [op EXCEPT ![o].state = "failed"]
        /\ UNCHANGED spentBy
  /\ UNCHANGED <<intentVars, stray, coin, height>>

\* A block of the background miner takes the whole mempool.
Mine ==
  /\ height < MaxHeight
  /\ height' = height + 1
  /\ op' = [o \in OpIds |-> IF op[o].state = "mempool"
                            THEN [op[o] EXCEPT !.state = "mined"] ELSE op[o]]
  /\ coin' = [c \in Coins |->
                IF spentBy[c] = NoOp THEN coin[c]
                ELSE [purse |-> Dest(spentBy[c][1], spentBy[c][2]), since |-> height + 1]]
  /\ spentBy' = [c \in Coins |-> NoOp]
  /\ UNCHANGED <<intentVars, stray, faults>>

Deposit(i) == Kind(i, leg[i]) = "deposit" /\ (Send(i) \/ Poll(i) \/ Confirm(i))

Withdrawal(i) ==
  Kind(i, leg[i]) = "withdrawal" /\ (Send(i) \/ Poll(i) \/ Result(i) \/ Confirm(i))

Sweep(i) == Kind(i, leg[i]) = "sweep" /\ (List(i) \/ Send(i) \/ Poll(i) \/ Confirm(i))

Step(i) == Resolve(i) \/ Deposit(i) \/ Withdrawal(i) \/ Sweep(i)

Next == \/ \E i \in Intents : Step(i)
        \/ \E o \in OpIds : TakeStray(o) \/ Prove(o)
        \/ Mine

Spec == Init /\ [][Next]_vars

(* Each intent's future is polled again and again; nothing is promised of the
   wallet, the miner or the network. *)
FairSpec == Spec /\ \A i \in Intents : WF_vars(Step(i))

-----------------------------------------------------------------------------
(* Properties. *)

\* Every variable stays in its range.
TypeOK ==
  /\ pc \in [Intents -> {"resolve", "list", "send", "poll", "result", "confirm", "done"}]
  /\ leg \in [Intents -> {1, 2}]
  /\ attempt \in [Intents -> 1..SendRetries]
  /\ polls \in [Intents -> 0..MaxPolls]
  /\ need \in [Intents -> Nat \ {0}]
  /\ outcome \in [Intents -> {"none", "confirmed", "failed", "timedOut"}]
  /\ err \in [Intents -> {"none", "unresolved", "empty", "rpc", "insufficient", "operation",
                          "timeout"}]
  /\ sends \in [Intents -> Seq([leg : {1, 2}, attempt : 1..SendRetries, ok : BOOLEAN])]
  /\ op \in [OpIds -> [state : {"none", "proving", "failed", "mempool", "mined"},
                       coins : SUBSET Coins]]
  /\ stray \in SUBSET OpIds
  /\ coin \in [Coins -> [purse : Purses, since : Nat]]
  /\ spentBy \in [Coins -> OpIds \cup {NoOp}]
  /\ height \in Nat /\ faults \in Nat

\* The requests of leg l of intent i the wallet took or may still take.
Requested(i, l) ==
  {o \in OpIds : o[1] = i /\ o[2] = l /\ (op[o].state # "none" \/ o \in stray)}

\* Retrying a send never pays twice: whatever is lost, at most one request of a
\* leg ever reaches the wallet, and none of a leg that was given up for lack of
\* funds.
OneRequestPerLeg ==
  \A i \in Intents :
    /\ \A l \in {1, 2} : \A o, q \in Requested(i, l) : o = q
    /\ err[i] = "insufficient" => Requested(i, leg[i]) = {}

\* The hot wallet pays a ZToT intent out only when its sweep is on the chain.
PayoutAfterSweep ==
  \A i \in Intents : Flow[i] = "ZToT" /\ Requested(i, 2) # {} =>
    \E o \in Requested(i, 1) : op[o].state = "mined"

\* Nothing is credited on a promise: a confirmed intent's payments, all of its
\* legs, are on the chain.
ConfirmedIsMined ==
  \A i \in Intents : outcome[i] = "confirmed" =>
    \A l \in 1..Legs(i) : \E o \in Requested(i, l) : op[o].state = "mined"

\* A payment is made when its leg's request is mined.  Wrong balances and operations that
\* failed are final; after an error of a call or a timeout the payment may still come.
Paid == {<<o[1], o[2]>> : o \in {q \in OpIds : op[q].state = "mined"}}

Final == {"unresolved", "empty", "insufficient", "operation"}

Fate(i) == IF outcome[i] = "none" THEN "open"
           ELSE IF outcome[i] = "confirmed" THEN "confirmed"
           ELSE IF err[i] \in Final THEN "refused" ELSE "uncertain"

Ledger == INSTANCE PaymentLedger WITH
  LegCount <- [i \in Intents |-> Legs(i)],
  Payer <- [p \in Intents \X {1, 2} |-> Source(p[1], p[2])],
  Payee <- [p \in Intents \X {1, 2} |-> Dest(p[1], p[2])],
  purse <- [c \in Coins |-> coin[c].purse],
  paid <- Paid,
  fate <- [i \in Intents |-> Fate(i)]

\* The workflows keep the ledger of payments: whatever is retried, lost, late or in
\* conflict, every leg is paid once, in order, out of the right purse, and nothing is said
\* of an intent that the chain belies later.
PaymentSpec == Ledger!Spec

\* The deadlines alone end every intent: neither wallet nor miner has to help.
Terminates == \A i \in Intents : <>(pc[i] = "done")
=============================================================================
