-------------------------- MODULE Exchange_proofs --------------------------
(***************************************************************************)
(* Proofs about Exchange, for any finite set of intents of any flows,      *)
(* accounts and coins, any retry and poll limits and any number of faults. *)
(***************************************************************************)
EXTENDS Exchange, FiniteSetTheorems, SequenceTheorems, TLAPS

(***************************************************************************)
(* The inductive invariant: how the requests the wallet took, or may still *)
(* take, follow the control of the workflow that made them.                *)
(***************************************************************************)

\* Errors after which nothing was asked of the wallet.
Unsent == {"unresolved", "empty", "insufficient"}

\* An intent goes through its own legs.  The request of the leg at hand, if any, is the one of the attempt at hand; none
\* before it is accepted or lost, and none of the payout before the sweep is mined.
RequestsFollow ==
  \A i \in Intents :
    /\ leg[i] \in 1..Legs(i)
    /\ Requested(i, leg[i]) \subseteq {OpId(i)}
    /\ pc[i] \in {"resolve", "list", "send"} \/ err[i] \in Unsent => Requested(i, leg[i]) = {}
    /\ leg[i] = 1 => Requested(i, 2) = {}
    /\ leg[i] = 2 => \E o \in OpIds : Requested(i, 1) = {o} /\ op[o].state = "mined"

\* A request nobody waits for has not been taken yet.
StrayIsFresh == \A o \in stray : op[o].state = "none"

\* An intent has its outcome when its workflow ends, a confirmed one that of its last leg,
\* and one whose operation failed that of the wallet.
OutcomeAtEnd ==
  \A i \in Intents :
    /\ pc[i] # "done" => outcome[i] = "none" /\ err[i] = "none"
    /\ outcome[i] = "confirmed" => leg[i] = Legs(i) /\ op[OpId(i)].state = "mined"
    /\ err[i] = "operation" => op[OpId(i)].state = "failed"

\* A request that the wallet took spends some note.
NotesTaken == \A o \in OpIds : op[o].state # "none" => op[o].coins # {}

\* A payment in the mempool keeps the notes it spends, where it draws on them, and
\* nothing else does.
NotesAreKept ==
  /\ \A o \in OpIds : op[o].state = "mempool" => \A c \in op[o].coins : spentBy[c] = o
  /\ \A c \in Coins : spentBy[c] # NoOp =>
       /\ op[spentBy[c]].state = "mempool" /\ c \in op[spentBy[c]].coins
       /\ coin[c].purse = Source(spentBy[c][1], spentBy[c][2])

IInv == TypeOK /\ RequestsFollow /\ StrayIsFresh /\ OutcomeAtEnd /\ NotesTaken /\ NotesAreKept

-----------------------------------------------------------------------------
(* Identifiers of requests, purses and notes. *)

LEMMA OpIdParts ==
  ASSUME NEW o \in OpIds
  PROVE  /\ o[1] \in Intents /\ o[2] \in {1, 2} /\ o[3] \in 1..SendRetries
         /\ o = <<o[1], o[2], o[3]>> /\ o # NoOp
BY DEF OpIds, NoOp

LEMMA OpIdOf ==
  ASSUME TypeOK, NEW i \in Intents
  PROVE  OpId(i) \in OpIds /\ OpId(i)[1] = i /\ OpId(i)[2] = leg[i]
BY DEF TypeOK, OpId, OpIds

LEMMA PursesOfLegs ==
  ASSUME NEW i \in Intents, NEW l \in {1, 2}
  PROVE  Source(i, l) \in Purses /\ Dest(i, l) \in Purses
BY IntentsAssumption DEF Source, Dest, Purses, Hot

\* The wallet picks exactly so many of the notes it may spend.
LEMMA TakenCoins ==
  ASSUME TypeOK, NEW o \in OpIds, NEW n, Take(o, n)
  PROVE  \E K \in SUBSET Coins :
           /\ op' = [op EXCEPT ![o] = [state |-> "proving", coins |-> K]]
           /\ K \subseteq Spendable(Source(o[1], o[2]))
           /\ Cardinality(K) = n
BY DEF Take, Spendable, Unspent

\* Proving ends in the mempool or in a failure, of that request alone.
LEMMA Proved ==
  ASSUME TypeOK, NEW o \in OpIds, Prove(o)
  PROVE  /\ op[o].state = "proving" /\ UNCHANGED <<intentVars, stray, coin, height>>
         /\ op'[o].state \in {"mempool", "failed"} /\ op'[o].coins = op[o].coins
         /\ \A q \in OpIds \ {o} : op'[q] = op[q]
         /\ op'[o].state = "mempool" =>
              /\ op[o].coins \subseteq Unspent(Source(o[1], o[2]))
              /\ spentBy' = [c \in Coins |-> IF c \in op[o].coins THEN o ELSE spentBy[c]]
         /\ op'[o].state = "failed" => UNCHANGED spentBy
<1>1. op[o] \in [state : {"none", "proving", "failed", "mempool", "mined"}, coins : SUBSET Coins]
  BY DEF TypeOK
<1>2. CASE op' = [op EXCEPT ![o].state = "mempool"]
  <2>1. op'[o].state = "mempool" /\ op'[o].coins = op[o].coins /\ \A q \in OpIds \ {o} : op'[q] = op[q]
    BY <1>1, <1>2 DEF TypeOK
  <2>2. op' # [op EXCEPT ![o].state = "failed"]
    BY <1>1, <2>1 DEF TypeOK
  <2>3. QED
    BY <2>1, <2>2 DEF Prove
<1>3. CASE op' = [op EXCEPT ![o].state = "failed"]
  <2>1. op'[o].state = "failed" /\ op'[o].coins = op[o].coins /\ \A q \in OpIds \ {o} : op'[q] = op[q]
    BY <1>1, <1>3 DEF TypeOK
  <2>2. op' # [op EXCEPT ![o].state = "mempool"]
    BY <1>1, <2>1 DEF TypeOK
  <2>3. QED
    BY <2>1, <2>2 DEF Prove
<1>4. QED
  BY <1>2, <1>3 DEF Prove

LEMMA NotesCounted ==
  ASSUME NEW p, Unspent(p) # {}
  PROVE  Cardinality(Unspent(p)) \in Nat \ {0}
<1>1. Unspent(p) \in SUBSET Coins
  BY DEF Unspent
<1>2. QED
  BY <1>1, CoinsAssumption, FS_Subset, FS_CardinalityType, FS_EmptySet

-----------------------------------------------------------------------------
(* What the steps touch. *)

Work(i) == Resolve(i) \/ List(i) \/ Send(i) \/ Poll(i) \/ Result(i) \/ Confirm(i)

LEMMA StepIsWork ==
  ASSUME NEW i \in Intents, Step(i)
  PROVE  Work(i)
BY DEF Step, Deposit, Withdrawal, Sweep, Work

\* The other workflows stay where they are, and nothing but a send reaches the wallet.
OthersStay(i) ==
  \A j \in Intents \ {i} :
    /\ pc'[j] = pc[j] /\ leg'[j] = leg[j] /\ attempt'[j] = attempt[j]
    /\ outcome'[j] = outcome[j] /\ err'[j] = err[j]

LEMMA WorkTouches ==
  ASSUME TypeOK, NEW i \in Intents, Work(i)
  PROVE  /\ OthersStay(i) /\ UNCHANGED chainVars /\ pc[i] # "done"
         /\ \A o \in OpIds \ {OpId(i)} : op'[o] = op[o] /\ (o \in stray' <=> o \in stray)
         /\ ~Send(i) => UNCHANGED walletVars
<1> USE DEF OthersStay, Settle, Fail, Goto, walletVars, chainVars
<1>1. CASE Resolve(i)
  BY <1>1 DEF TypeOK, Resolve
<1>2. CASE List(i)
  BY <1>2 DEF TypeOK, List
<1>3. CASE SendAccepted(i)
  <2>1. \E K : op' = [op EXCEPT ![OpId(i)] = [state |-> "proving", coins |-> K]]
    BY <1>3 DEF SendAccepted, Take
  <2>2. QED
    BY <1>3, <2>1 DEF TypeOK, SendAccepted, Send
<1>4. CASE SendInsufficient(i)
  BY <1>4 DEF TypeOK, SendInsufficient
<1>5. CASE SendFails(i)
  BY <1>5 DEF TypeOK, SendFails, Send
<1>6. CASE Poll(i)
  BY <1>6 DEF TypeOK, Poll, PollAgain
<1>7. CASE Result(i)
  BY <1>7 DEF TypeOK, Result
<1>8. CASE Confirm(i)
  BY <1>8 DEF TypeOK, Confirm, PollAgain, NextLeg
<1>9. QED
  BY <1>1, <1>2, <1>3, <1>4, <1>5, <1>6, <1>7, <1>8 DEF Work, Send

-----------------------------------------------------------------------------
(* Types. *)

OpRecords == [state : {"none", "proving", "failed", "mempool", "mined"}, coins : SUBSET Coins]
SendRecords == [leg : {1, 2}, attempt : 1..SendRetries, ok : BOOLEAN]

WorkflowOK ==
  /\ pc \in [Intents -> {"resolve", "list", "send", "poll", "result", "confirm", "done"}]
  /\ leg \in [Intents -> {1, 2}] /\ attempt \in [Intents -> 1..SendRetries]
  /\ polls \in [Intents -> 0..MaxPolls] /\ need \in [Intents -> Nat \ {0}]
OutcomeOK ==
  /\ outcome \in [Intents -> {"none", "confirmed", "failed", "timedOut"}]
  /\ err \in [Intents -> {"none", "unresolved", "empty", "rpc", "insufficient", "operation", "timeout"}]
SendsOK == sends \in [Intents -> Seq(SendRecords)]
WalletOK == op \in [OpIds -> OpRecords] /\ stray \in SUBSET OpIds
ChainOK ==
  /\ coin \in [Coins -> [purse : Purses, since : Nat]] /\ spentBy \in [Coins -> OpIds \cup {NoOp}]
  /\ height \in Nat

LEMMA TypeParts ==
  TypeOK <=> WorkflowOK /\ OutcomeOK /\ SendsOK /\ WalletOK /\ ChainOK /\ faults \in Nat
BY DEF TypeOK, WorkflowOK, OutcomeOK, SendsOK, WalletOK, ChainOK, OpRecords, SendRecords

LEMMA InitIInv == Init => IInv
<1> SUFFICES ASSUME Init PROVE IInv
  OBVIOUS
<1>1. TypeOK
  <2>1. WorkflowOK /\ OutcomeOK
    BY BoundsAssumption DEF Init, WorkflowOK, OutcomeOK, FirstStage
  <2>2. SendsOK
    BY DEF Init, SendsOK
  <2>3. WalletOK
    BY DEF Init, WalletOK, OpRecords
  <2>4. ChainOK /\ faults \in Nat
    BY CoinsAssumption, BoundsAssumption DEF Init, ChainOK
  <2>5. QED
    BY <2>1, <2>2, <2>3, <2>4, TypeParts
<1>2. \A i \in Intents, l \in {1, 2} : Requested(i, l) = {}
  BY DEF Init, Requested
<1>3. RequestsFollow
  BY <1>2 DEF Init, RequestsFollow, Unsent, Legs
<1>4. StrayIsFresh /\ OutcomeAtEnd /\ NotesAreKept
  BY DEF Init, StrayIsFresh, OutcomeAtEnd, NotesAreKept
<1>5. NotesTaken
  BY DEF Init, NotesTaken
<1>6. QED
  BY <1>1, <1>3, <1>4, <1>5 DEF IInv

LEMMA RecordType ==
  ASSUME TypeOK, NEW i \in Intents, NEW ok \in BOOLEAN, Record(i, ok)
  PROVE  SendsOK'
<1>1. [leg |-> leg[i], attempt |-> attempt[i], ok |-> ok] \in SendRecords
  BY DEF TypeOK, SendRecords
<1>2. Append(sends[i], [leg |-> leg[i], attempt |-> attempt[i], ok |-> ok]) \in Seq(SendRecords)
  BY <1>1, TypeParts, AppendProperties DEF SendsOK
<1>3. QED
  BY <1>2, TypeParts DEF Record, SendsOK

LEMMA TakeType ==
  ASSUME TypeOK, NEW o \in OpIds, NEW n, Take(o, n)
  PROVE  op' \in [OpIds -> OpRecords]
BY TakenCoins, TypeParts DEF WalletOK, OpRecords

LEMMA WorkType ==
  ASSUME TypeOK, NEW i \in Intents, Work(i)
  PROVE  TypeOK'
<1> USE DEF Settle, Fail, Goto, walletVars, chainVars
<1>0. /\ WorkflowOK /\ OutcomeOK /\ SendsOK /\ WalletOK /\ ChainOK /\ faults \in Nat
      /\ SendRetries \in Nat \ {0} /\ MaxPolls \in Nat \ {0}
  BY TypeParts, BoundsAssumption
<1>1. ChainOK' /\ faults' \in Nat
  <2>1. UNCHANGED chainVars
    BY WorkTouches
  <2>2. faults' = faults \/ Fault
    <3>1. CASE Resolve(i) \/ List(i) \/ Send(i)
      BY <3>1 DEF Resolve, List, Send, SendAccepted, SendInsufficient, SendFails
    <3>2. CASE Poll(i) \/ Result(i) \/ Confirm(i)
      BY <3>2 DEF Poll, Result, Confirm
    <3>3. QED
      BY <3>1, <3>2 DEF Work
  <2>3. faults' \in Nat
    BY <1>0, <2>2 DEF Fault
  <2>4. ChainOK'
    BY <1>0, <2>1 DEF ChainOK
  <2>5. QED
    BY <2>3, <2>4
<1>2. WalletOK'
  <2>1. CASE SendAccepted(i)
    BY <1>0, <2>1, OpIdOf, TakeType DEF SendAccepted, WalletOK
  <2>2. CASE SendInsufficient(i)
    BY <1>0, <2>2 DEF SendInsufficient, WalletOK
  <2>3. CASE SendFails(i)
    BY <1>0, <2>3, OpIdOf DEF SendFails, WalletOK
  <2>4. QED
    BY <1>0, <2>1, <2>2, <2>3, WorkTouches DEF Send, WalletOK
<1>3. SendsOK'
  <2>1. CASE Send(i)
    BY <2>1, RecordType DEF Send, SendAccepted, SendInsufficient, SendFails
  <2>2. CASE ~Send(i)
    BY <1>0, <2>2 DEF Work, Resolve, List, Poll, Result, Confirm, SendsOK
  <2>3. QED
    BY <2>1, <2>2
<1>4. OutcomeOK'
  BY <1>0 DEF OutcomeOK, Work, Send, Resolve, List, SendAccepted, SendInsufficient, SendFails, Poll, PollAgain, Result,
     Confirm, NextLeg
<1>5. WorkflowOK'
  <2>1. CASE Resolve(i) \/ Result(i)
    BY <1>0, <2>1 DEF WorkflowOK, Resolve, Result
  <2>2. CASE List(i)
    BY <1>0, <2>2, NotesCounted DEF WorkflowOK, List
  <2>3. CASE SendAccepted(i)
    BY <1>0, <2>3 DEF WorkflowOK, SendAccepted
  <2>4. CASE SendInsufficient(i)
    BY <1>0, <2>4 DEF WorkflowOK, SendInsufficient
  <2>5. CASE SendFails(i)
    BY <1>0, <2>5 DEF WorkflowOK, SendFails
  <2>6. CASE Poll(i)
    BY <1>0, <2>6 DEF WorkflowOK, Poll, PollAgain
  <2>7. CASE Confirm(i)
    BY <1>0, <2>7 DEF WorkflowOK, Confirm, PollAgain, NextLeg
  <2>8. QED
    BY <2>1, <2>2, <2>3, <2>4, <2>5, <2>6, <2>7 DEF Work, Send
<1>6. QED
  BY <1>1, <1>2, <1>3, <1>4, <1>5
     DEF TypeOK, WorkflowOK, OutcomeOK, SendsOK, WalletOK, ChainOK, OpRecords, SendRecords

\* The wallet and the chain.
LEMMA WalletType ==
  ASSUME TypeOK, Mine \/ \E o \in OpIds : TakeStray(o) \/ Prove(o)
  PROVE  TypeOK'
<1> USE DEF intentVars, chainVars
<1>0. WorkflowOK /\ OutcomeOK /\ SendsOK /\ WalletOK /\ ChainOK /\ faults \in Nat
  BY TypeParts
<1>1. WorkflowOK' /\ OutcomeOK' /\ SendsOK' /\ faults' \in Nat
  <2>1. UNCHANGED intentVars /\ faults' \in {faults, faults + 1}
    BY DEF Mine, TakeStray, Prove, Fault
  <2>2. QED
    BY <1>0, <2>1 DEF WorkflowOK, OutcomeOK, SendsOK
<1>2. WalletOK' /\ ChainOK'
  <2>1. ASSUME NEW o \in OpIds, TakeStray(o)
        PROVE  WalletOK' /\ ChainOK'
    BY <1>0, <2>1, TakeType DEF TakeStray, WalletOK, ChainOK
  <2>2. ASSUME NEW o \in OpIds, Prove(o)
        PROVE  WalletOK' /\ ChainOK'
    <3>1. WalletOK'
      BY <1>0, <2>2 DEF Prove, WalletOK, OpRecords
    <3>2. ChainOK'
      BY <1>0, <2>2 DEF Prove, ChainOK
    <3>3. QED
      BY <3>1, <3>2
  <2>3. CASE Mine
    <3>1. WalletOK'
      BY <1>0, <2>3 DEF Mine, WalletOK, OpRecords
    <3>2. \A c \in Coins : spentBy[c] # NoOp => Dest(spentBy[c][1], spentBy[c][2]) \in Purses
      BY <1>0, OpIdParts, PursesOfLegs DEF ChainOK
    <3>3. ChainOK'
      BY <1>0, <2>3, <3>2 DEF Mine, ChainOK
    <3>4. QED
      BY <3>1, <3>3
  <2>4. QED
    BY <2>1, <2>2, <2>3
<1>3. QED
  BY <1>1, <1>2 DEF TypeOK, WorkflowOK, OutcomeOK, SendsOK, WalletOK, ChainOK, OpRecords, SendRecords

-----------------------------------------------------------------------------
(* Requests and outcomes. *)

\* What the invariant says of one workflow.
Follows(i) ==
  /\ leg[i] \in 1..Legs(i)
  /\ Requested(i, leg[i]) \subseteq {OpId(i)}
  /\ pc[i] \in {"resolve", "list", "send"} \/ err[i] \in Unsent => Requested(i, leg[i]) = {}
  /\ leg[i] = 1 => Requested(i, 2) = {}
  /\ leg[i] = 2 => \E o \in OpIds : Requested(i, 1) = {o} /\ op[o].state = "mined"
  /\ pc[i] # "done" => outcome[i] = "none" /\ err[i] = "none"
  /\ outcome[i] = "confirmed" => leg[i] = Legs(i) /\ op[OpId(i)].state = "mined"
  /\ err[i] = "operation" => op[OpId(i)].state = "failed"

Request(o) == op[o].state # "none" \/ o \in stray

LEMMA RequestedSame ==
  ASSUME NEW i \in Intents, NEW l \in {1, 2},
         \A o \in OpIds : o[1] = i /\ o[2] = l => (Request(o)' <=> Request(o))
  PROVE  Requested(i, l)' = Requested(i, l)
BY DEF Requested, Request

\* Whoever does not move keeps what it relies on if requests stay and mined ones stay mined.
LEMMA FollowsSame ==
  ASSUME TypeOK, NEW i \in Intents, Follows(i),
         pc'[i] = pc[i], leg'[i] = leg[i], attempt'[i] = attempt[i], outcome'[i] = outcome[i], err'[i] = err[i],
         \A o \in OpIds : o[1] = i => (Request(o)' <=> Request(o)),
         \A o \in OpIds : o[1] = i /\ op[o].state \in {"mined", "failed"} => op'[o].state = op[o].state
  PROVE  Follows(i)'
<1>1. \A l \in {1, 2} : Requested(i, l)' = Requested(i, l)
  BY RequestedSame
<1>2. leg[i] \in {1, 2} /\ OpId(i)' = OpId(i) /\ OpId(i) \in OpIds /\ OpId(i)[1] = i
  BY OpIdOf DEF TypeOK, OpId
<1>3. Requested(i, leg[i])' = Requested(i, leg[i])
  BY <1>1, <1>2 DEF Requested
<1>4. ASSUME leg[i] = 2
      PROVE  \E o \in OpIds : Requested(i, 1) = {o} /\ op'[o].state = "mined"
  <2>1. PICK o \in OpIds : Requested(i, 1) = {o} /\ op[o].state = "mined"
    BY <1>4 DEF Follows
  <2>2. o[1] = i
    BY <2>1 DEF Requested
  <2>3. QED
    BY <2>1, <2>2
<1>5. QED
  BY <1>1, <1>2, <1>3, <1>4 DEF Follows, Legs

\* A workflow that goes on, or ends, without a word to the wallet.
LEMMA FollowsQuietly ==
  ASSUME TypeOK, NEW i \in Intents, Follows(i), UNCHANGED walletVars, leg'[i] = leg[i],
         attempt'[i] = attempt[i] \/ Requested(i, leg[i]) = {},
         pc'[i] \in {"resolve", "list", "send"} => pc[i] \in {"resolve", "list", "send"},
         err'[i] \in Unsent => Requested(i, leg[i]) = {},
         err'[i] = "operation" => attempt'[i] = attempt[i] /\ op[OpId(i)].state = "failed",
         pc'[i] # "done" => outcome'[i] = "none" /\ err'[i] = "none",
         outcome'[i] = "confirmed" => attempt'[i] = attempt[i] /\ leg[i] = Legs(i) /\ OnChain(i)
  PROVE  Follows(i)'
<1>1. \A l \in {1, 2} : Requested(i, l)' = Requested(i, l)
  BY DEF walletVars, Requested
<1>2. leg[i] \in {1, 2} /\ op' = op
  BY DEF TypeOK, walletVars
<1>3. Requested(i, leg[i])' = Requested(i, leg[i])
  BY <1>1, <1>2 DEF Requested
<1>4. attempt'[i] = attempt[i] => OpId(i)' = OpId(i)
  BY DEF OpId
<1>5. op'[OpId(i)].state = op[OpId(i)].state
  BY <1>2
<1>6. QED
  BY <1>1, <1>2, <1>3, <1>4, <1>5 DEF Follows, Legs, OnChain

LEMMA FollowsOwn ==
  ASSUME IInv, NEW i \in Intents, Work(i)
  PROVE  Follows(i)'
<1> USE DEF Settle, Fail, Goto
<1>0. TypeOK /\ Follows(i) /\ leg[i] \in {1, 2} /\ OpId(i) \in OpIds /\ OpId(i)[1] = i /\ OpId(i)[2] = leg[i]
  BY OpIdOf DEF IInv, RequestsFollow, OutcomeAtEnd, Follows, TypeOK
<1>1. CASE Resolve(i)
  <2>1. UNCHANGED <<walletVars, leg, attempt>> /\ pc[i] = "resolve" /\ pc'[i] \in {"list", "done"}
    BY <1>0, <1>1 DEF TypeOK, Resolve
  <2>2. /\ pc'[i] # "done" => outcome'[i] = "none" /\ err'[i] = "none"
        /\ err'[i] # "operation" /\ outcome'[i] # "confirmed"
    BY <1>0, <1>1 DEF TypeOK, Resolve, Follows
  <2>3. Requested(i, leg[i]) = {}
    BY <1>0, <2>1 DEF Follows
  <2>4. QED
    BY <1>0, <2>1, <2>2, <2>3, FollowsQuietly
<1>2. CASE List(i)
  <2>1. UNCHANGED <<walletVars, leg, attempt>> /\ pc[i] = "list" /\ pc'[i] \in {"send", "done"}
    BY <1>0, <1>2 DEF TypeOK, List
  <2>2. /\ pc'[i] # "done" => outcome'[i] = "none" /\ err'[i] = "none"
        /\ err'[i] # "operation" /\ outcome'[i] # "confirmed"
    BY <1>0, <1>2 DEF TypeOK, List, Follows
  <2>3. Requested(i, leg[i]) = {}
    BY <1>0, <2>1 DEF Follows
  <2>4. QED
    BY <1>0, <2>1, <2>2, <2>3, FollowsQuietly
<1>3. CASE SendInsufficient(i)
  <2>1. UNCHANGED <<walletVars, leg>> /\ pc[i] = "send" /\ Requested(i, leg[i]) = {}
    BY <1>0, <1>3 DEF SendInsufficient, Follows
  <2>2. /\ pc'[i] # "done" => outcome'[i] = "none" /\ err'[i] = "none"
        /\ err'[i] # "operation" /\ outcome'[i] # "confirmed"
    BY <1>0, <1>3 DEF TypeOK, SendInsufficient, Follows
  <2>3. QED
    BY <1>0, <2>1, <2>2, FollowsQuietly
<1>4. CASE Poll(i)
  <2>1. UNCHANGED <<walletVars, leg, attempt>> /\ pc'[i] \in {"poll", "result", "confirm", "done"}
    BY <1>0, <1>4 DEF TypeOK, Poll, PollAgain
  <2>2. /\ pc'[i] # "done" => outcome'[i] = "none" /\ err'[i] = "none"
        /\ err'[i] \notin Unsent /\ outcome'[i] # "confirmed"
        /\ err'[i] = "operation" => op[OpId(i)].state = "failed"
    BY <1>0, <1>4 DEF TypeOK, Poll, PollAgain, Follows, Unsent
  <2>3. QED
    BY <1>0, <2>1, <2>2, FollowsQuietly
<1>5. CASE Result(i)
  <2>1. UNCHANGED <<walletVars, leg, attempt>> /\ pc'[i] \in {"confirm", "done"}
    BY <1>0, <1>5 DEF TypeOK, Result
  <2>2. /\ pc'[i] # "done" => outcome'[i] = "none" /\ err'[i] = "none"
        /\ err'[i] \notin Unsent /\ err'[i] # "operation" /\ outcome'[i] # "confirmed"
    BY <1>0, <1>5 DEF TypeOK, Result, Follows, Unsent
  <2>3. QED
    BY <1>0, <2>1, <2>2, FollowsQuietly
<1>6. CASE Confirm(i) /\ ~(OnChain(i) /\ leg[i] < Legs(i) /\ NextLeg(i))
  <2>1. UNCHANGED <<walletVars, leg, attempt>> /\ pc'[i] \in {"confirm", "done"}
    BY <1>0, <1>6 DEF TypeOK, Confirm, PollAgain
  <2>2. /\ pc'[i] # "done" => outcome'[i] = "none" /\ err'[i] = "none"
        /\ err'[i] \notin Unsent /\ err'[i] # "operation"
    BY <1>0, <1>6 DEF TypeOK, Confirm, PollAgain, Follows, Unsent
  <2>3. outcome'[i] = "confirmed" => leg[i] = Legs(i) /\ OnChain(i)
    BY <1>0, <1>6 DEF TypeOK, Confirm, PollAgain, Follows
  <2>4. QED
    BY <1>0, <2>1, <2>2, <2>3, FollowsQuietly
<1>7. CASE Confirm(i) /\ OnChain(i) /\ leg[i] < Legs(i) /\ NextLeg(i)
  <2>1. /\ leg[i] = 1 /\ leg'[i] = 2 /\ pc'[i] = "send" /\ UNCHANGED walletVars
        /\ outcome'[i] = "none" /\ err'[i] = "none"
    BY <1>0, <1>7 DEF TypeOK, Confirm, NextLeg, Legs, Follows
  <2>2. Requested(i, 2)' = {} /\ Requested(i, 1)' = Requested(i, 1)
    BY <1>0, <2>1 DEF Follows, Requested, walletVars
  <2>3. Requested(i, 1) = {OpId(i)} /\ op'[OpId(i)].state = "mined"
    BY <1>0, <1>7, <2>1 DEF Follows, Requested, OnChain, walletVars
  <2>4. Requested(i, leg[i])' = {}
    BY <2>1, <2>2 DEF Requested
  <2>5. QED
    BY <1>0, <1>7, <2>1, <2>2, <2>3, <2>4 DEF Follows, Legs
<1>8. CASE SendAccepted(i) \/ SendFails(i)
  <2>1. /\ pc[i] = "send" /\ leg'[i] = leg[i] /\ OpId(i)' = OpId(i)
        /\ pc'[i] \in {"poll", "done"} /\ err'[i] \in {"none", "rpc"} /\ outcome'[i] # "confirmed"
        /\ pc'[i] # "done" => outcome'[i] = "none" /\ err'[i] = "none"
    BY <1>0, <1>8 DEF TypeOK, SendAccepted, SendFails, OpId, Follows
  <2>2. \A o \in OpIds \ {OpId(i)} : Request(o)' <=> Request(o)
    BY <1>0, WorkTouches DEF Request
  <2>3. Requested(i, leg[i])' \subseteq {OpId(i)}
    <3>1. Requested(i, leg[i]) = {}
      BY <1>0, <2>1 DEF Follows
    <3>2. QED
      BY <1>0, <2>1, <2>2, <3>1 DEF Requested, Request
  <2>4. ASSUME NEW l \in {1, 2}, l # leg[i]
        PROVE  Requested(i, l)' = Requested(i, l)
    BY <1>0, <2>2, <2>4, RequestedSame
  <2>5. ASSUME leg[i] = 2
        PROVE  \E o \in OpIds : Requested(i, 1)' = {o} /\ op'[o].state = "mined"
    <3>1. PICK o \in OpIds : Requested(i, 1) = {o} /\ op[o].state = "mined"
      BY <1>0, <2>5 DEF Follows
    <3>2. o # OpId(i)
      BY <1>0, <2>5, <3>1 DEF Requested
    <3>3. op'[o] = op[o] /\ Requested(i, 1)' = Requested(i, 1)
      BY <1>0, <2>4, <2>5, <3>2, WorkTouches
    <3>4. QED
      BY <3>1, <3>3
  <2>6. leg[i] = 1 => Requested(i, 2)' = {}
    BY <1>0, <2>4 DEF Follows
  <2>7. QED
    BY <1>0, <2>1, <2>3, <2>5, <2>6 DEF Follows, Unsent, Legs
<1>9. QED
  BY <1>1, <1>2, <1>3, <1>4, <1>5, <1>6, <1>7, <1>8 DEF Work, Send


LEMMA FollowsOthers ==
  ASSUME IInv, NEW i \in Intents, Work(i), NEW j \in Intents \ {i}
  PROVE  Follows(j)'
<1>1. TypeOK /\ Follows(j) /\ OpId(i)[1] = i
  BY OpIdOf DEF IInv, RequestsFollow, OutcomeAtEnd, Follows
<1>2. \A o \in OpIds : o[1] = j => op'[o] = op[o] /\ (Request(o)' <=> Request(o))
  BY <1>1, WorkTouches DEF Request
<1>3. QED
  BY <1>1, <1>2, WorkTouches, FollowsSame DEF OthersStay

\* The wallet and the chain only take requests that were there, and keep what is mined.
LEMMA WalletFollows ==
  ASSUME IInv, Mine \/ \E o \in OpIds : TakeStray(o) \/ Prove(o), NEW i \in Intents
  PROVE  Follows(i)'
<1>0. TypeOK /\ StrayIsFresh /\ Follows(i)
  BY DEF IInv, RequestsFollow, OutcomeAtEnd, Follows
<1>1. UNCHANGED intentVars
  BY DEF Mine, TakeStray, Prove
<1>2. \A o \in OpIds : (Request(o)' <=> Request(o)) /\ (op[o].state \in {"mined", "failed"} => op'[o].state = op[o].state)
  <2>1. ASSUME NEW o \in OpIds, TakeStray(o)
        PROVE  \A q \in OpIds : (Request(q)' <=> Request(q)) /\ (op[q].state \in {"mined", "failed"} => op'[q].state = op[q].state)
    <3>1. PICK K \in SUBSET Coins : op' = [op EXCEPT ![o] = [state |-> "proving", coins |-> K]]
      BY <1>0, <2>1, TakenCoins DEF TakeStray
    <3>2. QED
      BY <1>0, <2>1, <3>1 DEF TakeStray, TypeOK, StrayIsFresh, Request
  <2>2. ASSUME NEW o \in OpIds, Prove(o)
        PROVE  \A q \in OpIds : (Request(q)' <=> Request(q)) /\ (op[q].state \in {"mined", "failed"} => op'[q].state = op[q].state)
    BY <1>0, <2>2, Proved DEF Request
  <2>3. CASE Mine
    BY <1>0, <2>3 DEF Mine, TypeOK, Request
  <2>4. QED
    BY <2>1, <2>2, <2>3
<1>3. QED
  BY <1>0, <1>1, <1>2, FollowsSame DEF intentVars

LEMMA StrayStaysFresh ==
  ASSUME IInv, Next
  PROVE  StrayIsFresh'
<1>0. TypeOK /\ StrayIsFresh /\ stray \subseteq OpIds
  BY DEF IInv, TypeOK
<1>1. ASSUME NEW i \in Intents, Work(i)
      PROVE  StrayIsFresh'
  <2>1. CASE Send(i)
    <3>1. OpId(i) \in OpIds /\ OpId(i)[1] = i /\ OpId(i)[2] = leg[i]
      BY <1>0, OpIdOf
    <3>2. pc[i] = "send" /\ Requested(i, leg[i]) = {}
      BY <2>1 DEF IInv, RequestsFollow, Send, SendAccepted, SendInsufficient, SendFails
    <3>3. ~Request(OpId(i))
      BY <3>1, <3>2 DEF Requested, Request
    <3>4. op' = op \/ UNCHANGED stray
      BY <2>1 DEF Send, SendAccepted, SendInsufficient, SendFails, walletVars
    <3>5. \A o \in OpIds \ {OpId(i)} : op'[o] = op[o] /\ (o \in stray' <=> o \in stray)
      BY <1>0, <1>1, WorkTouches
    <3>6. stray' \subseteq stray \cup {OpId(i)}
      BY <2>1 DEF Send, SendAccepted, SendInsufficient, SendFails, walletVars
    <3>7. QED
      BY <1>0, <3>1, <3>3, <3>4, <3>5, <3>6 DEF StrayIsFresh, Request
  <2>2. CASE ~Send(i)
    BY <1>0, <1>1, <2>2, WorkTouches DEF StrayIsFresh, walletVars
  <2>3. QED
    BY <2>1, <2>2
<1>2. ASSUME NEW o \in OpIds, TakeStray(o)
      PROVE  StrayIsFresh'
  <2>1. PICK K \in SUBSET Coins : op' = [op EXCEPT ![o] = [state |-> "proving", coins |-> K]]
    BY <1>0, <1>2, TakenCoins DEF TakeStray
  <2>2. QED
    BY <1>0, <1>2, <2>1 DEF TakeStray, TypeOK, StrayIsFresh
<1>3. ASSUME NEW o \in OpIds, Prove(o)
      PROVE  StrayIsFresh'
  BY <1>0, <1>3 DEF Prove, TypeOK, StrayIsFresh
<1>4. CASE Mine
  BY <1>0, <1>4 DEF Mine, TypeOK, StrayIsFresh
<1>5. QED
  BY <1>1, <1>2, <1>3, <1>4, StepIsWork DEF Next

-----------------------------------------------------------------------------
(* Notes. *)

\* Taking a request that is new moves no note.
LEMMA TakeKeepsNotes ==
  ASSUME TypeOK, NotesAreKept, NEW o \in OpIds, NEW n, Take(o, n), op[o].state = "none", UNCHANGED chainVars
  PROVE  NotesAreKept'
<1>1. PICK K \in SUBSET Coins : op' = [op EXCEPT ![o] = [state |-> "proving", coins |-> K]]
  BY TakenCoins
<1>2. QED
  BY <1>1 DEF TypeOK, NotesAreKept, chainVars

\* A request is taken with notes, and keeps them.
LEMMA TakeTakesNotes ==
  ASSUME TypeOK, NotesTaken, NEW o \in OpIds, NEW n \in Nat \ {0}, Take(o, n)
  PROVE  NotesTaken'
<1>1. PICK K \in SUBSET Coins :
        op' = [op EXCEPT ![o] = [state |-> "proving", coins |-> K]] /\ Cardinality(K) = n
  BY TakenCoins
<1>2. K # {}
  BY <1>1, FS_EmptySet
<1>3. QED
  BY <1>1, <1>2 DEF TypeOK, NotesTaken

LEMMA NotesStayTaken ==
  ASSUME IInv, Next
  PROVE  NotesTaken'
<1>0. TypeOK /\ NotesTaken
  BY DEF IInv
<1>1. ASSUME NEW i \in Intents, Work(i)
      PROVE  NotesTaken'
  <2>1. CASE SendAccepted(i)
    <3>1. OpId(i) \in OpIds /\ need[i] \in Nat \ {0} /\ Take(OpId(i), need[i])
      BY <1>0, <2>1, OpIdOf DEF SendAccepted, TypeOK
    <3>2. QED
      BY <1>0, <3>1, TakeTakesNotes
  <2>2. CASE ~SendAccepted(i)
    <3>1. op' = op
      BY <1>0, <1>1, <2>2, WorkTouches DEF Send, SendInsufficient, SendFails, walletVars
    <3>2. QED
      BY <1>0, <3>1 DEF NotesTaken
  <2>3. QED
    BY <2>1, <2>2
<1>2. ASSUME NEW o \in OpIds, TakeStray(o)
      PROVE  NotesTaken'
  <2>1. need[o[1]] \in Nat \ {0} /\ Take(o, need[o[1]])
    BY <1>0, <1>2, OpIdParts DEF TakeStray, TypeOK
  <2>2. QED
    BY <1>0, <2>1, TakeTakesNotes
<1>3. ASSUME NEW o \in OpIds, Prove(o)
      PROVE  NotesTaken'
  BY <1>0, <1>3, Proved DEF NotesTaken
<1>4. CASE Mine
  BY <1>0, <1>4 DEF Mine, TypeOK, NotesTaken
<1>5. QED
  BY <1>1, <1>2, <1>3, <1>4, StepIsWork DEF Next

LEMMA NotesStayKept ==
  ASSUME IInv, Next
  PROVE  NotesAreKept'
<1>0. TypeOK /\ StrayIsFresh /\ NotesAreKept
  BY DEF IInv
<1>1. ASSUME NEW i \in Intents, Work(i)
      PROVE  NotesAreKept'
  <2>1. CASE SendAccepted(i)
    <3>1. OpId(i) \in OpIds /\ op[OpId(i)].state = "none"
      BY <1>0, <2>1, OpIdOf DEF IInv, RequestsFollow, Requested, SendAccepted
    <3>2. QED
      BY <1>0, <2>1, <3>1, TakeKeepsNotes DEF SendAccepted, chainVars
  <2>2. CASE ~SendAccepted(i)
    <3>1. op' = op
      BY <1>0, <1>1, <2>2, WorkTouches DEF Send, SendInsufficient, SendFails, walletVars
    <3>2. QED
      BY <1>0, <1>1, <3>1, WorkTouches DEF NotesAreKept, chainVars
  <2>3. QED
    BY <2>1, <2>2
<1>2. ASSUME NEW o \in OpIds, TakeStray(o)
      PROVE  NotesAreKept'
  BY <1>0, <1>2, TakeKeepsNotes DEF TakeStray, StrayIsFresh, chainVars
<1>3. ASSUME NEW o \in OpIds, Prove(o)
      PROVE  NotesAreKept'
  <2>0. \A q \in OpIds : q # NoOp
    BY OpIdParts
  <2>1. CASE op'[o].state = "failed"
    <3>1. ASSUME NEW q \in OpIds, op'[q].state = "mempool"
          PROVE  op[q].state = "mempool" /\ op'[q] = op[q]
      BY <1>0, <1>3, <2>1, <3>1, Proved
    <3>2. ASSUME NEW q \in OpIds, op[q].state = "mempool"
          PROVE  op'[q] = op[q]
      BY <1>0, <1>3, <2>1, <3>2, Proved
    <3>3. UNCHANGED <<coin, spentBy>>
      BY <1>0, <1>3, <2>1, Proved
    <3>4. QED
      BY <1>0, <3>1, <3>2, <3>3 DEF TypeOK, NotesAreKept
  <2>2. CASE op'[o].state = "mempool"
    <3>0. spentBy' = [c \in Coins |-> IF c \in op[o].coins THEN o ELSE spentBy[c]] /\ coin' = coin
      BY <1>0, <1>3, <2>2, Proved
    <3>1. \A c \in op[o].coins : c \in Coins /\ spentBy[c] = NoOp /\ coin[c].purse = Source(o[1], o[2])
      BY <1>0, <1>3, <2>2, Proved DEF Unspent
    <3>2. /\ op[o].state = "proving" /\ op'[o].coins = op[o].coins
          /\ \A q \in OpIds \ {o} : op'[q] = op[q]
      BY <1>0, <1>3, Proved
    <3>3. ASSUME NEW q \in OpIds, op'[q].state = "mempool", NEW c \in op'[q].coins
          PROVE  spentBy'[c] = q
      <4>1. CASE q = o
        BY <3>0, <3>1, <3>2, <3>3, <4>1
      <4>2. CASE q # o
        <5>1. op[q].state = "mempool" /\ c \in op[q].coins /\ c \in Coins
          BY <1>0, <3>2, <3>3, <4>2 DEF TypeOK
        <5>2. spentBy[c] = q /\ c \notin op[o].coins
          BY <1>0, <2>0, <3>1, <5>1 DEF NotesAreKept
        <5>3. QED
          BY <3>0, <5>1, <5>2
      <4>3. QED
        BY <4>1, <4>2
    <3>4. ASSUME NEW c \in Coins, spentBy'[c] # NoOp
          PROVE  /\ op'[spentBy'[c]].state = "mempool" /\ c \in op'[spentBy'[c]].coins
                 /\ coin'[c].purse = Source(spentBy'[c][1], spentBy'[c][2])
      <4>1. CASE c \in op[o].coins
        BY <2>2, <3>0, <3>1, <3>2, <4>1
      <4>2. CASE c \notin op[o].coins
        <5>1. spentBy'[c] = spentBy[c] /\ spentBy[c] \in OpIds
          BY <1>0, <3>0, <3>4, <4>2 DEF TypeOK
        <5>2. op[spentBy[c]].state = "mempool"
          BY <1>0, <3>4, <5>1 DEF NotesAreKept
        <5>3. op'[spentBy[c]] = op[spentBy[c]]
          BY <3>2, <5>1, <5>2
        <5>4. QED
          BY <1>0, <3>0, <3>4, <5>1, <5>3 DEF NotesAreKept
      <4>3. QED
        BY <4>1, <4>2
    <3>5. QED
      BY <3>3, <3>4 DEF NotesAreKept
  <2>3. QED
    BY <1>0, <1>3, <2>1, <2>2, Proved
<1>4. CASE Mine
  BY <1>0, <1>4 DEF Mine, TypeOK, NotesAreKept
<1>5. QED
  BY <1>1, <1>2, <1>3, <1>4, StepIsWork DEF Next

\* Without a block no note moves and no payment is made or undone.
LEMMA OnlyMinePays ==
  ASSUME IInv, Next, ~Mine
  PROVE  coin' = coin /\ \A o \in OpIds : op'[o].state = "mined" <=> op[o].state = "mined"
<1>0. TypeOK /\ StrayIsFresh
  BY DEF IInv
<1>1. coin' = coin
  <2>1. ASSUME NEW i \in Intents, Work(i)
        PROVE  coin' = coin
    BY <1>0, <2>1, WorkTouches DEF chainVars
  <2>2. ASSUME NEW o \in OpIds, TakeStray(o) \/ Prove(o)
        PROVE  coin' = coin
    BY <2>2 DEF TakeStray, Prove, chainVars
  <2>3. QED
    BY <2>1, <2>2, StepIsWork DEF Next
<1>2. \A o \in OpIds : op'[o].state = "mined" <=> op[o].state = "mined"
  <2>1. ASSUME NEW i \in Intents, Work(i)
        PROVE  \A o \in OpIds : op'[o].state = "mined" <=> op[o].state = "mined"
    <3>1. CASE SendAccepted(i)
      <4>1. OpId(i) \in OpIds /\ Take(OpId(i), need[i]) /\ op[OpId(i)].state = "none"
        BY <1>0, <3>1, OpIdOf DEF IInv, RequestsFollow, Requested, SendAccepted
      <4>2. PICK K \in SUBSET Coins : op' = [op EXCEPT ![OpId(i)] = [state |-> "proving", coins |-> K]]
        BY <1>0, <4>1, TakenCoins
      <4>3. QED
        BY <1>0, <4>1, <4>2 DEF TypeOK
    <3>2. CASE ~SendAccepted(i)
      BY <1>0, <2>1, <3>2, WorkTouches DEF Send, SendInsufficient, SendFails, walletVars
    <3>3. QED
      BY <3>1, <3>2
  <2>2. ASSUME NEW o \in OpIds, TakeStray(o)
        PROVE  \A q \in OpIds : op'[q].state = "mined" <=> op[q].state = "mined"
    <3>1. PICK K \in SUBSET Coins : op' = [op EXCEPT ![o] = [state |-> "proving", coins |-> K]]
      BY <1>0, <2>2, TakenCoins DEF TakeStray
    <3>2. QED
      BY <1>0, <2>2, <3>1 DEF TakeStray, StrayIsFresh, TypeOK
  <2>3. ASSUME NEW o \in OpIds, Prove(o)
        PROVE  \A q \in OpIds : op'[q].state = "mined" <=> op[q].state = "mined"
    BY <1>0, <2>3, Proved
  <2>4. QED
    BY <2>1, <2>2, <2>3, StepIsWork DEF Next
<1>3. QED
  BY <1>1, <1>2

-----------------------------------------------------------------------------
(* The theorems. *)

LEMMA NextIInv == IInv /\ [Next]_vars => IInv'
<1> SUFFICES ASSUME IInv, [Next]_vars PROVE IInv'
  OBVIOUS
<1>1. CASE Next
  <2>1. TypeOK'
    BY <1>1, StepIsWork, WorkType, WalletType DEF Next, IInv
  <2>2. \A i \in Intents : Follows(i)'
    BY <1>1, StepIsWork, FollowsOwn, FollowsOthers, WalletFollows DEF Next
  <2>3. RequestsFollow' /\ OutcomeAtEnd'
    BY <2>2 DEF Follows, RequestsFollow, OutcomeAtEnd
  <2>4. QED
    BY <1>1, <2>1, <2>3, StrayStaysFresh, NotesStayTaken, NotesStayKept DEF IInv
<1>2. CASE UNCHANGED vars
  <2>1. TypeOK'
    BY <1>2 DEF vars, intentVars, walletVars, chainVars, IInv, TypeOK
  <2>2. RequestsFollow' /\ OutcomeAtEnd'
    BY <1>2 DEF vars, intentVars, walletVars, chainVars, IInv, RequestsFollow, OutcomeAtEnd, Requested, OpId, Legs
  <2>3. StrayIsFresh' /\ NotesTaken' /\ NotesAreKept'
    BY <1>2 DEF vars, intentVars, walletVars, chainVars, IInv, StrayIsFresh, NotesTaken, NotesAreKept
  <2>4. QED
    BY <2>1, <2>2, <2>3 DEF IInv
<1>3. QED
  BY <1>1, <1>2

\* The inductive invariant: what the wallet took of an intent's requests follows from
\* where the intent's workflow is.
THEOREM Invariance == Spec => []IInv
BY InitIInv, NextIInv, PTL DEF Spec

\* Every variable of the workflows, the wallet and the chain stays in its range.
THEOREM TypeCorrect == Spec => []TypeOK
<1>1. IInv => TypeOK
  BY DEF IInv
<1>2. QED
  BY <1>1, Invariance, PTL

\* Retrying a send never pays twice: with any number of retries, lost answers and late
\* wallets, at most one request of a leg reaches the wallet, and none of a leg that
\* exchange.rs gave up for lack of funds.
THEOREM RetrySafety == Spec => []OneRequestPerLeg
<1>1. IInv => OneRequestPerLeg
  <2> SUFFICES ASSUME IInv, NEW i \in Intents
               PROVE  /\ \A l \in {1, 2} : \A o, q \in Requested(i, l) : o = q
                      /\ err[i] = "insufficient" => Requested(i, leg[i]) = {}
    BY DEF OneRequestPerLeg
  <2>1. CASE leg[i] = 1
    BY <2>1 DEF IInv, RequestsFollow, Unsent
  <2>2. CASE leg[i] = 2
    <3>1. PICK o \in OpIds : Requested(i, 1) = {o}
      BY <2>2 DEF IInv, RequestsFollow
    <3>2. QED
      BY <2>2, <3>1 DEF IInv, RequestsFollow, Unsent
  <2>3. QED
    BY <2>1, <2>2 DEF IInv, TypeOK
<1>2. QED
  BY <1>1, Invariance, PTL

\* The hot wallet never pays a ZToT intent out of funds that its sweep has not brought in:
\* dispatch.rs starts the withdrawal only when the sweep is on the chain.
THEOREM PayoutSafety == Spec => []PayoutAfterSweep
<1>1. IInv => PayoutAfterSweep
  <2> SUFFICES ASSUME IInv, NEW i \in Intents, Requested(i, 2) # {}
               PROVE  \E o \in Requested(i, 1) : op[o].state = "mined"
    BY DEF PayoutAfterSweep
  <2>1. leg[i] = 2
    BY DEF IInv, TypeOK, RequestsFollow
  <2>2. PICK o \in OpIds : Requested(i, 1) = {o} /\ op[o].state = "mined"
    BY <2>1 DEF IInv, RequestsFollow
  <2>3. QED
    BY <2>2
<1>2. QED
  BY <1>1, Invariance, PTL

\* Nothing is credited on a promise: every payment of an intent that is reported as
\* confirmed is on the chain.
THEOREM CreditSafety == Spec => []ConfirmedIsMined
<1>1. IInv => ConfirmedIsMined
  <2> SUFFICES ASSUME IInv, NEW i \in Intents, outcome[i] = "confirmed", NEW l \in 1..Legs(i)
               PROVE  \E o \in Requested(i, l) : op[o].state = "mined"
    BY DEF ConfirmedIsMined
  <2>1. leg[i] = Legs(i) /\ op[OpId(i)].state = "mined" /\ OpId(i) \in Requested(i, leg[i])
    BY OpIdOf DEF IInv, OutcomeAtEnd, Requested
  <2>2. CASE l = leg[i]
    BY <2>1, <2>2
  <2>3. CASE l # leg[i]
    <3>1. l = 1 /\ leg[i] = 2
      BY <2>1, <2>3 DEF Legs
    <3>2. PICK o \in OpIds : Requested(i, 1) = {o} /\ op[o].state = "mined"
      BY <3>1 DEF IInv, RequestsFollow
    <3>3. QED
      BY <3>1, <3>2
  <2>4. QED
    BY <2>2, <2>3
<1>2. QED
  BY <1>1, Invariance, PTL

\* No two broadcast payments spend one note, and a note that is spoken for is spoken for
\* by a payment in the mempool.
THEOREM NoteSafety == Spec => []NotesAreKept
<1>1. IInv => NotesAreKept
  BY DEF IInv
<1>2. QED
  BY <1>1, Invariance, PTL


\* Value moves in one way only: a note changes hands when a block takes the payment that
\* spends it, from where that payment draws to where it pays; and a payment that a block
\* takes moves all of its notes there.
NotesMoveByPayment ==
  /\ \A c \in Coins : coin'[c] # coin[c] =>
       \E o \in OpIds :
         /\ op[o].state = "mempool" /\ op'[o].state = "mined" /\ c \in op[o].coins
         /\ coin[c].purse = Source(o[1], o[2]) /\ coin'[c].purse = Dest(o[1], o[2])
  /\ \A o \in OpIds : op[o].state # "mined" /\ op'[o].state = "mined" =>
       \A c \in op[o].coins : coin[c].purse = Source(o[1], o[2]) /\ coin'[c].purse = Dest(o[1], o[2])

THEOREM PaymentSafety == Spec => [][NotesMoveByPayment]_vars
<1>1. IInv /\ [Next]_vars => [NotesMoveByPayment]_vars
  <2> SUFFICES ASSUME IInv, Next PROVE NotesMoveByPayment
    OBVIOUS
  <2>0. TypeOK /\ StrayIsFresh /\ NotesAreKept
    BY DEF IInv
  <2>1. CASE Mine
    <3>1. \A o \in OpIds : o # NoOp
      BY OpIdParts
    <3>2. ASSUME NEW c \in Coins, coin'[c] # coin[c]
          PROVE  LET o == spentBy[c] IN
                 /\ o \in OpIds /\ op[o].state = "mempool" /\ op'[o].state = "mined" /\ c \in op[o].coins
                 /\ coin[c].purse = Source(o[1], o[2]) /\ coin'[c].purse = Dest(o[1], o[2])
      BY <2>0, <2>1, <3>2 DEF Mine, TypeOK, NotesAreKept
    <3>3. ASSUME NEW o \in OpIds, op[o].state # "mined", op'[o].state = "mined", NEW c \in op[o].coins
          PROVE  coin[c].purse = Source(o[1], o[2]) /\ coin'[c].purse = Dest(o[1], o[2])
      <4>1. op[o].state = "mempool" /\ c \in Coins
        BY <2>0, <2>1, <3>3 DEF Mine, TypeOK
      <4>2. spentBy[c] = o
        BY <2>0, <4>1 DEF NotesAreKept
      <4>3. QED
        BY <2>0, <2>1, <3>1, <4>1, <4>2 DEF Mine, NotesAreKept
    <3>4. QED
      BY <3>2, <3>3 DEF NotesMoveByPayment
  <2>2. CASE ~Mine
    <3>1. coin' = coin /\ \A o \in OpIds : op'[o].state = "mined" => op[o].state = "mined"
      BY <2>2, OnlyMinePays
    <3>2. QED
      BY <3>1 DEF NotesMoveByPayment
  <2>3. QED
    BY <2>1, <2>2
<1>2. QED
  BY <1>1, Invariance, PTL DEF Spec

-----------------------------------------------------------------------------
(* The workflows keep the ledger. *)

LEMMA LedgerPayments ==
  ASSUME NEW i \in Intents, NEW l
  PROVE  /\ <<i, l>> \in Ledger!Payments <=> l \in 1..Legs(i)
         /\ Ledger!Of(i) = {<<i, k>> : k \in 1..Legs(i)}
<1>1. \A p : p \in Ledger!Payments <=> \E j \in Intents : \E k \in 1..Legs(j) : p = <<j, k>>
  BY DEF Ledger!Payments
<1>2. QED
  BY <1>1 DEF Ledger!Of

LEMMA PaidOf ==
  ASSUME NEW i, NEW l
  PROVE  <<i, l>> \in Paid <=> \E o \in OpIds : o[1] = i /\ o[2] = l /\ op[o].state = "mined"
BY DEF Paid

\* A payment in the mempool is one of its intent's, made for the first time and after
\* those before it, and nothing final was said of the intent.
LEMMA Underway ==
  ASSUME IInv, NEW o \in OpIds, op[o].state = "mempool"
  PROVE  /\ o[1] \in Intents /\ o[2] \in 1..Legs(o[1]) /\ <<o[1], o[2]>> \notin Paid
         /\ Fate(o[1]) \in {"open", "uncertain"}
         /\ \A l \in 1..(o[2] - 1) : <<o[1], l>> \in Paid
<1> DEFINE i == o[1]
<1>1. i \in Intents /\ o[2] \in {1, 2} /\ leg[i] \in {1, 2} /\ leg[i] \in 1..Legs(i)
  BY OpIdParts DEF IInv, TypeOK, RequestsFollow
<1>2. o \in Requested(i, o[2])
  BY <1>1 DEF Requested
<1>3. o[2] = leg[i]
  <2>1. CASE leg[i] = 1
    BY <1>1, <1>2, <2>1 DEF IInv, RequestsFollow
  <2>2. CASE leg[i] = 2
    <3>1. PICK q \in OpIds : Requested(i, 1) = {q} /\ op[q].state = "mined"
      BY <1>1, <2>2 DEF IInv, RequestsFollow
    <3>2. QED
      BY <1>1, <1>2, <2>2, <3>1
  <2>3. QED
    BY <1>1, <2>1, <2>2
<1>4. o = OpId(i) /\ Requested(i, leg[i]) \subseteq {o}
  BY <1>1, <1>2, <1>3 DEF IInv, RequestsFollow
<1>5. <<i, o[2]>> \notin Paid
  BY <1>3, <1>4, PaidOf DEF Requested
<1>6. Fate(i) \in {"open", "uncertain"}
  <2>1. outcome[i] # "confirmed" /\ err[i] # "operation"
    BY <1>1, <1>4 DEF IInv, OutcomeAtEnd
  <2>2. err[i] \notin Unsent
    BY <1>1, <1>2, <1>3 DEF IInv, RequestsFollow
  <2>3. QED
    BY <2>1, <2>2 DEF Fate, Final, Unsent
<1>7. ASSUME NEW l \in 1..(o[2] - 1)
      PROVE  <<i, l>> \in Paid
  <2>1. l = 1 /\ leg[i] = 2
    BY <1>1, <1>3
  <2>2. PICK q \in OpIds : Requested(i, 1) = {q} /\ op[q].state = "mined"
    BY <1>1, <2>1 DEF IInv, RequestsFollow
  <2>3. QED
    BY <2>1, <2>2, PaidOf DEF Requested
<1>8. QED
  BY <1>1, <1>3, <1>5, <1>6, <1>7

\* What was said of an intent in the end is true.
FateIsTrue ==
  \A i \in Intents :
    /\ Fate(i) = "confirmed" => Ledger!Of(i) \subseteq Paid
    /\ Fate(i) = "refused" => ~(Ledger!Of(i) \subseteq Paid)

LEMMA FateTold == IInv => FateIsTrue
<1> SUFFICES ASSUME IInv, NEW i \in Intents
             PROVE  /\ Fate(i) = "confirmed" => Ledger!Of(i) \subseteq Paid
                    /\ Fate(i) = "refused" => ~(Ledger!Of(i) \subseteq Paid)
  BY DEF FateIsTrue
<1>0. leg[i] \in 1..Legs(i) /\ leg[i] \in {1, 2}
  BY DEF IInv, TypeOK, RequestsFollow
<1>1. ASSUME Fate(i) = "confirmed"
      PROVE  Ledger!Of(i) \subseteq Paid
  <2>1. outcome[i] = "confirmed"
    BY <1>1 DEF Fate
  <2>2. leg[i] = Legs(i) /\ OpId(i) \in OpIds /\ OpId(i)[1] = i /\ OpId(i)[2] = leg[i] /\ op[OpId(i)].state = "mined"
    BY <2>1, OpIdOf DEF IInv, OutcomeAtEnd
  <2>3. <<i, leg[i]>> \in Paid
    BY <2>2, PaidOf
  <2>4. ASSUME leg[i] = 2
        PROVE  <<i, 1>> \in Paid
    <3>1. PICK q \in OpIds : Requested(i, 1) = {q} /\ op[q].state = "mined"
      BY <2>4 DEF IInv, RequestsFollow
    <3>2. QED
      BY <3>1, PaidOf DEF Requested
  <2>5. \A k \in 1..Legs(i) : <<i, k>> \in Paid
    BY <1>0, <2>2, <2>3, <2>4
  <2>6. Ledger!Of(i) = {<<i, k>> : k \in 1..Legs(i)}
    BY LedgerPayments
  <2>7. QED
    BY <2>5, <2>6
<1>2. ASSUME Fate(i) = "refused"
      PROVE  ~(Ledger!Of(i) \subseteq Paid)
  <2>1. err[i] \in Unsent \/ err[i] = "operation"
    BY <1>2 DEF Fate, Final, Unsent
  <2>2. \A o \in Requested(i, leg[i]) : op[o].state # "mined"
    BY <2>1 DEF IInv, RequestsFollow, OutcomeAtEnd
  <2>3. <<i, leg[i]>> \notin Paid
    BY <2>2, PaidOf DEF Requested
  <2>4. QED
    BY <1>0, <2>3, LedgerPayments
<1>3. QED
  BY <1>1, <1>2

LEMMA LedgerInit == Init => Ledger!Init
<1> SUFFICES ASSUME Init PROVE Ledger!Init
  OBVIOUS
<1>1. [c \in Coins |-> coin[c].purse] \in [Coins -> Purses]
  BY CoinsAssumption DEF Init
<1>2. Paid = {}
  BY DEF Init, Paid
<1>3. [i \in Intents |-> Fate(i)] = [i \in Intents |-> "open"]
  BY DEF Init, Fate
<1>4. QED
  BY <1>1, <1>2, <1>3 DEF Ledger!Init

\* A block makes the payments of the mempool, or none.
LEMMA MineKeepsLedger ==
  ASSUME IInv, Mine
  PROVE  Ledger!Pay \/ UNCHANGED Ledger!vars
<1>0. TypeOK /\ NotesTaken /\ NotesAreKept /\ UNCHANGED intentVars /\ \A o \in OpIds : o # NoOp
  BY OpIdParts DEF IInv, Mine
<1> DEFINE made == Paid' \ Paid
           sent == {o \in OpIds : op[o].state = "mempool"}
           by == [c \in Coins |-> IF spentBy[c] = NoOp THEN Ledger!Kept ELSE <<spentBy[c][1], spentBy[c][2]>>]
<1>1. \A o \in OpIds : op'[o].state = "mined" <=> op[o].state = "mined" \/ o \in sent
  BY <1>0 DEF Mine, TypeOK
<1>2. /\ Paid' = Paid \cup made
      /\ \A o \in sent : <<o[1], o[2]>> \in made
      /\ \A p \in made : \E o \in sent : p = <<o[1], o[2]>>
  <2>1. \A o \in sent : <<o[1], o[2]>> \notin Paid
    BY Underway
  <2>2. Paid \subseteq Paid'
    BY <1>1 DEF Paid
  <2>3. \A o \in sent : <<o[1], o[2]>> \in Paid'
    BY <1>1 DEF Paid
  <2>4. ASSUME NEW p \in made
        PROVE  \E o \in sent : p = <<o[1], o[2]>>
    BY <1>1, <2>4 DEF Paid
  <2>5. QED
    BY <2>1, <2>2, <2>3, <2>4
<1>3. \A c \in Coins : spentBy[c] = NoOp \/ spentBy[c] \in sent
  BY <1>0 DEF NotesAreKept, TypeOK
<1>4. UNCHANGED [i \in Intents |-> Fate(i)]
  BY <1>0 DEF Fate, intentVars
<1>5. CASE made = {}
  <2>1. \A c \in Coins : spentBy[c] = NoOp
    BY <1>2, <1>3, <1>5
  <2>2. coin' = coin
    BY <1>0, <2>1 DEF Mine, TypeOK
  <2>3. QED
    BY <1>2, <1>4, <1>5, <2>2 DEF Ledger!vars
<1>6. CASE made # {}
  <2>1. made \subseteq Ledger!Payments
    BY <1>2, Underway, LedgerPayments
  <2>2. \A p \in made : /\ [i \in Intents |-> Fate(i)][p[1]] \in {"open", "uncertain"}
                        /\ \A l \in 1..(p[2] - 1) : <<p[1], l>> \in Paid
    BY <1>2, Underway
  <2>3. by \in [Coins -> made \cup {Ledger!Kept}]
    BY <1>2, <1>3
  <2>4. \A p \in made : \E c \in Coins : by[c] = p
    <3> SUFFICES ASSUME NEW p \in made PROVE \E c \in Coins : by[c] = p
      OBVIOUS
    <3>1. PICK o \in sent : p = <<o[1], o[2]>>
      BY <1>2
    <3>2. PICK c \in Coins : c \in op[o].coins
      BY <1>0, <3>1 DEF NotesTaken, TypeOK
    <3>3. spentBy[c] = o
      BY <1>0, <3>2 DEF NotesAreKept
    <3>4. QED
      BY <1>0, <3>1, <3>3
  <2>5. ASSUME NEW c \in Coins
        PROVE  /\ by[c] = Ledger!Kept <=> spentBy[c] = NoOp
               /\ spentBy[c] # NoOp =>
                    /\ coin[c].purse = [p \in Intents \X {1, 2} |-> Source(p[1], p[2])][by[c]]
                    /\ coin'[c].purse = [p \in Intents \X {1, 2} |-> Dest(p[1], p[2])][by[c]]
               /\ spentBy[c] = NoOp => coin'[c] = coin[c]
    <3>1. spentBy[c] = NoOp => coin'[c] = coin[c]
      BY <1>0 DEF Mine
    <3>2. ASSUME spentBy[c] # NoOp
          PROVE  /\ spentBy[c][1] \in Intents /\ spentBy[c][2] \in {1, 2}
                 /\ coin[c].purse = Source(spentBy[c][1], spentBy[c][2])
                 /\ coin'[c].purse = Dest(spentBy[c][1], spentBy[c][2])
      BY <1>0, <1>3, <3>2, OpIdParts DEF Mine, NotesAreKept
    <3>3. QED
      BY <3>1, <3>2 DEF Ledger!Kept
  <2> HIDE DEF made, by
  <2>6. [c \in Coins |-> coin[c].purse]' = [c \in Coins |-> IF by[c] = Ledger!Kept THEN [d \in Coins |-> coin[d].purse][c]
                                                             ELSE [p \in Intents \X {1, 2} |-> Dest(p[1], p[2])][by[c]]]
    BY <2>5
  <2>7. \A c \in Coins : by[c] # Ledger!Kept =>
          [d \in Coins |-> coin[d].purse][c] = [p \in Intents \X {1, 2} |-> Source(p[1], p[2])][by[c]]
    BY <2>5
  <2>8. QED
    BY <1>2, <1>4, <1>6, <2>1, <2>2, <2>3, <2>4, <2>6, <2>7 DEF Ledger!Pay, made
<1>7. QED
  BY <1>5, <1>6

\* Everything else leaves the ledger as it is, but for the end of a workflow, which
\* says what became of its intent.
LEMMA OthersKeepLedger ==
  ASSUME IInv, Next, ~Mine, FateIsTrue'
  PROVE  Ledger!Next \/ UNCHANGED Ledger!vars
<1> DEFINE purses == [c \in Coins |-> coin[c].purse]
           fates == [i \in Intents |-> Fate(i)]
<1>1. UNCHANGED <<purses, Paid>>
  <2>1. coin' = coin /\ \A o \in OpIds : op'[o].state = "mined" <=> op[o].state = "mined"
    BY OnlyMinePays
  <2>2. QED
    BY <2>1 DEF Paid
<1>2. ASSUME NEW o \in OpIds, TakeStray(o) \/ Prove(o)
      PROVE  UNCHANGED Ledger!vars
  BY <1>1, <1>2 DEF TakeStray, Prove, intentVars, Fate, Ledger!vars
<1>3. ASSUME NEW i \in Intents, Work(i)
      PROVE  Ledger!Next \/ UNCHANGED Ledger!vars
  <2>1. /\ Fate(i) = "open" /\ \A j \in Intents \ {i} : Fate(j)' = Fate(j)
    BY <1>3, WorkTouches DEF IInv, OutcomeAtEnd, OthersStay, Fate
  <2>2. fates' = [fates EXCEPT ![i] = Fate(i)']
    BY <2>1
  <2>3. Fate(i)' \in {"open", "confirmed", "refused", "uncertain"}
    BY DEF Fate
  <2>4. CASE Fate(i)' = "open"
    <3>1. fates' = fates
      BY <2>1, <2>4
    <3>2. QED
      BY <1>1, <3>1 DEF Ledger!vars
  <2>5. CASE Fate(i)' # "open"
    <3>1. /\ Fate(i)' = "confirmed" => Ledger!Of(i) \subseteq Paid
          /\ Fate(i)' = "refused" => ~(Ledger!Of(i) \subseteq Paid)
      BY <1>1 DEF FateIsTrue, Ledger!Of, Ledger!Payments
    <3>2. Ledger!Settle(i, Fate(i)')
      BY <1>1, <2>1, <2>2, <3>1 DEF Ledger!Settle
    <3>3. QED
      BY <2>3, <2>5, <3>2 DEF Ledger!Next
  <2>6. QED
    BY <2>4, <2>5
<1>4. QED
  BY <1>2, <1>3, StepIsWork DEF Next

\* The workflows implement the ledger of payments: attempts, lost answers, polls, timeouts,
\* late and conflicting operations and blocks come to nothing but payments made once, in
\* order and out of the right purse, and to true words on what became of each intent.
THEOREM PaymentRefinement == Spec => PaymentSpec
<1>1. IInv /\ FateIsTrue' /\ [Next]_vars => [Ledger!Next]_(Ledger!vars)
  <2> SUFFICES ASSUME IInv, FateIsTrue', [Next]_vars
               PROVE  Ledger!Next \/ UNCHANGED Ledger!vars
    OBVIOUS
  <2>1. CASE Mine
    BY <2>1, MineKeepsLedger DEF Ledger!Next
  <2>2. CASE Next /\ ~Mine
    BY <2>2, OthersKeepLedger
  <2>3. CASE UNCHANGED vars
    BY <2>3 DEF vars, intentVars, walletVars, chainVars, Paid, Fate, Ledger!vars
  <2>4. QED
    BY <2>1, <2>2, <2>3
<1>2. QED
  BY <1>1, LedgerInit, FateTold, Invariance, PTL DEF Spec, PaymentSpec, Ledger!Spec

=============================================================================
