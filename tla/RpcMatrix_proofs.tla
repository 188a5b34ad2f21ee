-------------------------- MODULE RpcMatrix_proofs --------------------------
(***************************************************************************)
(* Proofs about RpcMatrix: the matrix row of the payments, for any intents *)
(* of any flows and any limit of the retries.                              *)
(***************************************************************************)
EXTENDS RpcMatrix, Exchange_proofs

(***************************************************************************)
(* The invariant: in its first leg an intent numbers its attempts from 1,  *)
(* without a gap, up to the one that it is about to make.                  *)
(***************************************************************************)

Numbers(i) ==
  leg[i] = 1 =>
    /\ \A k \in DOMAIN sends[i] : sends[i][k].attempt = k
    /\ pc[i] \in {"resolve", "list", "send"} => attempt[i] = Len(sends[i]) + 1

Numbered == \A i \in Intents : Numbers(i)

LEMMA SendsType ==
  ASSUME TypeOK, NEW i \in Intents
  PROVE  /\ sends[i] \in Seq(SendRecords) /\ Len(sends[i]) \in Nat /\ DOMAIN sends[i] = 1..Len(sends[i])
         /\ sends[i] # <<>> => Len(sends[i]) \in DOMAIN sends[i]
<1>1. sends[i] \in Seq(SendRecords)
  BY TypeParts DEF SendsOK
<1>2. QED
  BY <1>1, LenProperties, EmptySeq

\* An intent that goes on without a record of its own.
LEMMA NumbersQuietly ==
  ASSUME NEW i \in Intents, Numbers(i), leg'[i] = leg[i] \/ leg'[i] # 1, attempt'[i] = attempt[i] \/ leg'[i] # 1,
         sends'[i] = sends[i],
         pc'[i] \in {"resolve", "list", "send"} => pc[i] \in {"resolve", "list", "send"} \/ leg'[i] # 1
  PROVE  Numbers(i)'
BY DEF Numbers

\* The record takes the number of the attempt, and the next attempt the next number.
LEMMA NumbersRecorded ==
  ASSUME TypeOK, NEW i \in Intents, Numbers(i), pc[i] = "send", leg'[i] = leg[i], NEW ok \in BOOLEAN, Record(i, ok),
         pc'[i] = "send" => attempt'[i] = attempt[i] + 1, pc'[i] \in {"send", "poll", "done"}
  PROVE  Numbers(i)'
<1> DEFINE r == [leg |-> leg[i], attempt |-> attempt[i], ok |-> ok]
<1>1. sends'[i] = Append(sends[i], r)
  BY DEF TypeOK, Record
<1>2. r.attempt = attempt[i]
  OBVIOUS
<1> HIDE DEF r
<1>3. /\ Len(sends'[i]) = Len(sends[i]) + 1 /\ DOMAIN sends'[i] = 1..(Len(sends[i]) + 1)
      /\ sends'[i][Len(sends[i]) + 1] = r
      /\ \A k \in 1..Len(sends[i]) : sends'[i][k] = sends[i][k]
  BY <1>1, SendsType
<1>4. attempt[i] \in Nat /\ Len(sends[i]) \in Nat /\ DOMAIN sends[i] = 1..Len(sends[i])
  BY SendsType DEF TypeOK
<1>5. ASSUME leg[i] = 1
      PROVE  /\ \A k \in DOMAIN sends'[i] : sends'[i][k].attempt = k
             /\ pc'[i] = "send" => attempt'[i] = Len(sends'[i]) + 1
  BY <1>2, <1>3, <1>4, <1>5 DEF Numbers
<1>6. QED
  BY <1>5 DEF Numbers

LEMMA NumbersOwn ==
  ASSUME IInv, NEW i \in Intents, Numbers(i), Work(i)
  PROVE  Numbers(i)'
<1> USE DEF Settle, Fail, Goto
<1>0. TypeOK
  BY DEF IInv
<1>1. CASE Resolve(i) \/ List(i)
  <2>1. pc[i] \in {"resolve", "list"} /\ UNCHANGED <<leg, attempt, sends>>
    BY <1>1 DEF Resolve, List
  <2>2. QED
    BY <2>1, NumbersQuietly
<1>2. CASE SendInsufficient(i)
  <2>1. /\ pc[i] = "send" /\ leg'[i] = leg[i] /\ pc'[i] \in {"send", "done"}
        /\ \E ok \in BOOLEAN : Record(i, ok)
        /\ pc'[i] = "send" => attempt'[i] = attempt[i] + 1
    BY <1>0, <1>2 DEF TypeOK, SendInsufficient
  <2>2. QED
    BY <1>0, <2>1, NumbersRecorded
<1>3. CASE SendAccepted(i) \/ SendFails(i)
  <2>1. pc[i] = "send" /\ leg'[i] = leg[i] /\ pc'[i] \in {"poll", "done"} /\ \E ok \in BOOLEAN : Record(i, ok)
    BY <1>0, <1>3 DEF TypeOK, SendAccepted, SendFails
  <2>2. QED
    BY <1>0, <2>1, NumbersRecorded
<1>4. CASE Poll(i) \/ Result(i)
  <2>1. UNCHANGED <<leg, attempt, sends>> /\ pc'[i] \notin {"resolve", "list", "send"}
    BY <1>0, <1>4 DEF TypeOK, Poll, PollAgain, Result
  <2>2. QED
    BY <2>1, NumbersQuietly
<1>5. CASE Confirm(i)
  <2>1. CASE leg[i] < Legs(i) /\ NextLeg(i)
    <3>1. leg'[i] = 2
      BY <1>0, <2>1 DEF TypeOK, NextLeg
    <3>2. QED
      BY <3>1 DEF Numbers
  <2>2. CASE ~(leg[i] < Legs(i) /\ NextLeg(i))
    <3>1. UNCHANGED <<leg, attempt, sends>> /\ pc'[i] \in {"confirm", "done"}
      BY <1>0, <1>5, <2>2 DEF TypeOK, Confirm, PollAgain
    <3>2. QED
      BY <3>1, NumbersQuietly
  <2>3. QED
    BY <2>1, <2>2
<1>6. QED
  BY <1>1, <1>2, <1>3, <1>4, <1>5 DEF Work, Send

LEMMA NumbersOthers ==
  ASSUME IInv, NEW i \in Intents, Work(i), NEW j \in Intents \ {i}, Numbers(j)
  PROVE  Numbers(j)'
<1>1. TypeOK
  BY DEF IInv
<1>2. pc'[j] = pc[j] /\ leg'[j] = leg[j] /\ attempt'[j] = attempt[j]
  BY <1>1, WorkTouches DEF OthersStay
<1>3. sends'[j] = sends[j]
  <2>1. CASE Send(i)
    BY <1>1, <2>1 DEF TypeOK, Send, SendAccepted, SendInsufficient, SendFails, Record
  <2>2. CASE ~Send(i)
    BY <2>2 DEF Work, Resolve, List, Poll, Result, Confirm
  <2>3. QED
    BY <2>1, <2>2
<1>4. QED
  BY <1>2, <1>3 DEF Numbers

\* In its first leg every intent numbers its recorded attempts in their order, from 1.
THEOREM Numbering == Spec => []Numbered
<1>1. Init => Numbered
  BY DEF Init, Numbered, Numbers
<1>2. IInv /\ Numbered /\ [Next]_vars => Numbered'
  <2> SUFFICES ASSUME IInv, Numbered, [Next]_vars, NEW i \in Intents
               PROVE  Numbers(i)'
    BY DEF Numbered
  <2>1. ASSUME NEW j \in Intents, Step(j)
        PROVE  Numbers(i)'
    BY <2>1, StepIsWork, NumbersOwn, NumbersOthers DEF Numbered
  <2>2. CASE Mine \/ \E o \in OpIds : TakeStray(o) \/ Prove(o)
    BY <2>2 DEF Mine, TakeStray, Prove, intentVars, Numbered, Numbers
  <2>3. CASE UNCHANGED vars
    BY <2>3 DEF vars, intentVars, Numbered, Numbers
  <2>4. QED
    BY <2>1, <2>2, <2>3 DEF Next
<1>3. QED
  BY <1>1, <1>2, Invariance, PTL DEF Spec

-----------------------------------------------------------------------------
(* Places in the file. *)

LEMMA Turns ==
  /\ Cardinality(Intents) \in Nat
  /\ \A i \in Intents : Turn[i] \in 1..Cardinality(Intents)
  /\ \A i, j \in Intents : Turn[i] = Turn[j] => i = j
<1>1. IsFiniteSet(Intents) /\ Cardinality(Intents) \in Nat
  BY IntentsAssumption, FS_CardinalityType
<1>2. IsFiniteSet(1..Cardinality(Intents)) /\ Cardinality(1..Cardinality(Intents)) = Cardinality(Intents)
  BY <1>1, FS_Interval
<1>3. ExistsBijection(Intents, 1..Cardinality(Intents))
  BY <1>1, <1>2, FS_SameCardinalityBij
<1>4. Turn \in Bijection(Intents, 1..Cardinality(Intents))
  BY <1>3 DEF ExistsBijection, Turn
<1>5. QED
  BY <1>1, <1>4 DEF Bijection, Injection, IsInjective

\* Rounds of n places do not overlap.
LEMMA RoundsApart ==
  ASSUME NEW n \in Nat, NEW k \in Nat, NEW j \in Nat, NEW s \in 1..n, NEW t \in 1..n, k < j
  PROVE  n * k + s < n * j + t
<1>1. j = k + 1 + (j - k - 1) /\ j - k - 1 \in Nat
  OBVIOUS
<1>2. n * (j - k - 1) \in Nat
  BY <1>1
<1>3. n * j = n * k + n + n * (j - k - 1)
  BY <1>1
<1>4. n * k \in Nat /\ n * j \in Nat
  OBVIOUS
<1>5. QED
  BY <1>2, <1>3, <1>4

LEMMA Places ==
  ASSUME NEW i \in Intents, NEW j \in Intents, NEW k \in Nat \ {0}, NEW m \in Nat \ {0}
  PROVE  /\ Place(i, k) \in Nat
         /\ k < m => Place(i, k) < Place(j, m)
         /\ Place(i, k) = Place(j, m) => i = j /\ k = m
<1> DEFINE n == Cardinality(Intents)
<1>1. n \in Nat /\ Turn[i] \in 1..n /\ Turn[j] \in 1..n
  BY Turns
<1>2. Place(i, k) = n * (k - 1) + Turn[i] /\ Place(j, m) = n * (m - 1) + Turn[j]
  BY DEF Place
<1> HIDE DEF n
<1>3. k - 1 \in Nat /\ m - 1 \in Nat
  OBVIOUS
<1>4. n * (k - 1) \in Nat /\ n * (m - 1) \in Nat
  BY <1>1, <1>3
<1>5. Place(i, k) \in Nat /\ Place(j, m) \in Nat
  BY <1>1, <1>2, <1>4
<1>6. k < m => Place(i, k) < Place(j, m)
  BY <1>1, <1>2, <1>3, RoundsApart
<1>7. m < k => Place(j, m) < Place(i, k)
  BY <1>1, <1>2, <1>3, RoundsApart
<1>8. k = m /\ Place(i, k) = Place(j, m) => i = j
  BY <1>1, <1>2, <1>4, Turns
<1>9. QED
  BY <1>5, <1>6, <1>7, <1>8

-----------------------------------------------------------------------------
(* The row. *)

\* The record that a place of the file holds.
LEMMA CallAt ==
  ASSUME TypeOK, NEW i \in Intents, NEW k \in DOMAIN sends[i]
  PROVE  /\ k \in Nat \ {0} /\ Place(i, k) \in DOMAIN Calls
         /\ Calls[Place(i, k)] = Recorded(<<i, k>>)
<1>1. \A a \in Attempts : a[1] \in Intents /\ a[2] \in DOMAIN sends[a[1]] /\ a = <<a[1], a[2]>>
  BY DEF Attempts
<1>2. \A j \in Intents : \A m \in DOMAIN sends[j] : m \in Nat \ {0}
  BY SendsType
<1>3. <<i, k>> \in Attempts
  BY DEF Attempts
<1>4. \A a \in Attempts : Place(a[1], a[2]) = Place(i, k) => a = <<i, k>>
  BY <1>1, <1>2, Places
<1>5. (CHOOSE a \in Attempts : Place(a[1], a[2]) = Place(i, k)) = <<i, k>>
  BY <1>3, <1>4
<1>6. Place(i, k) \in {Place(a[1], a[2]) : a \in Attempts}
  BY <1>3
<1>7. QED
  BY <1>2, <1>5, <1>6 DEF Calls

LEMMA CallIsAttempt ==
  ASSUME TypeOK, NEW p \in DOMAIN Calls
  PROVE  \E i \in Intents : \E k \in DOMAIN sends[i] : p = Place(i, k)
<1>1. PICK a \in Attempts : p = Place(a[1], a[2])
  BY DEF Calls
<1>2. a[1] \in Intents /\ a[2] \in DOMAIN sends[a[1]]
  BY DEF Attempts
<1>3. QED
  BY <1>1, <1>2

Last(i) == Place(i, Len(sends[i]))

\* If every intent that sent anything has one leg, its last call stands for it.
LEMMA LastStands ==
  ASSUME TypeOK, RequestsFollow, Numbered, \A i \in Linked : Legs(i) = 1
  PROVE  /\ M!CallsTo(Calls, "z_sendmany", M!Workload) = DOMAIN Calls
         /\ M!Representatives(Calls, DOMAIN Calls) = {Last(i) : i \in Linked}
         /\ \A i \in Linked : /\ Calls[Last(i)].ok = LastSend(i).ok /\ Calls[Last(i)].intent = i
                              /\ Calls[Last(i)].attempt = Len(sends[i])
<1>1. \A i \in Intents : \A k \in DOMAIN sends[i] : i \in Linked /\ k \in 1..Len(sends[i]) /\ Len(sends[i]) \in Nat
  BY SendsType, EmptySeq DEF Linked
<1>2. ASSUME NEW i \in Linked
      PROVE  leg[i] = 1 /\ \A k \in DOMAIN sends[i] : sends[i][k].attempt = k
  BY <1>2 DEF Linked, TypeOK, RequestsFollow, Numbered, Numbers
<1>3. ASSUME NEW i \in Intents, NEW k \in DOMAIN sends[i]
      PROVE  /\ Calls[Place(i, k)].intent = i /\ Calls[Place(i, k)].run = 1
             /\ Calls[Place(i, k)].method = "z_sendmany" /\ Calls[Place(i, k)].phase = "load"
             /\ Calls[Place(i, k)].attempt = k /\ Calls[Place(i, k)].ok = sends[i][k].ok
  <2>1. Calls[Place(i, k)] = Recorded(<<i, k>>)
    BY CallAt
  <2>2. sends[i][k].attempt = k
    BY <1>1, <1>2
  <2>3. QED
    BY <2>1, <2>2 DEF Recorded
<1>4. M!CallsTo(Calls, "z_sendmany", M!Workload) = DOMAIN Calls
  BY <1>3, CallIsAttempt DEF M!CallsTo, M!Scoped, M!Workload
<1>5. ASSUME NEW i \in Intents, NEW k \in DOMAIN sends[i], NEW j \in Intents, NEW m \in DOMAIN sends[j]
      PROVE  M!SameIntent(Calls[Place(j, m)], Calls[Place(i, k)]) <=> j = i
  BY <1>3, LinkAssumption DEF M!SameIntent, M!Unlinked
<1>6. ASSUME NEW i \in Intents, NEW k \in DOMAIN sends[i]
      PROVE  Place(i, k) \in M!Representatives(Calls, DOMAIN Calls) <=> k = Len(sends[i])
  <2>1. Len(sends[i]) \in DOMAIN sends[i] /\ \A m \in DOMAIN sends[i] : m \in Nat \ {0} /\ m <= Len(sends[i])
    BY <1>1, SendsType DEF Linked
  <2>2. ASSUME Place(i, k) \in M!Representatives(Calls, DOMAIN Calls)
        PROVE  k = Len(sends[i])
    <3>1. Place(i, Len(sends[i])) \in DOMAIN Calls
      BY <2>1, CallAt
    <3>2. Calls[Place(i, Len(sends[i]))].attempt <= Calls[Place(i, k)].attempt
      BY <1>5, <2>1, <2>2, <3>1 DEF M!Representatives
    <3>3. Len(sends[i]) <= k
      BY <1>3, <2>1, <3>2
    <3>4. QED
      BY <1>1, <2>1, <3>3
  <2>3. ASSUME k = Len(sends[i])
        PROVE  Place(i, k) \in M!Representatives(Calls, DOMAIN Calls)
    <3> SUFFICES ASSUME NEW p \in DOMAIN Calls, M!SameIntent(Calls[p], Calls[Place(i, k)])
                 PROVE  /\ Calls[p].attempt <= Calls[Place(i, k)].attempt
                        /\ p < Place(i, k) => Calls[p].attempt < Calls[Place(i, k)].attempt
      BY CallAt DEF M!Representatives
    <3>1. PICK j \in Intents : \E m \in DOMAIN sends[j] : p = Place(j, m)
      BY CallIsAttempt
    <3>2. PICK m \in DOMAIN sends[j] : p = Place(j, m)
      BY <3>1
    <3>3. j = i
      BY <1>5, <3>2
    <3>4. Calls[p].attempt = m /\ Calls[Place(i, k)].attempt = k /\ m \in Nat /\ k \in Nat /\ m <= k
      BY <1>3, <2>1, <2>3, <3>2, <3>3
    <3>5. p < Place(i, k) => m # k
      BY <2>1, <3>2, <3>3, Places
    <3>6. QED
      BY <3>4, <3>5
  <2>4. QED
    BY <2>2, <2>3
<1>7. \A i \in Linked : i \in Intents /\ Len(sends[i]) \in DOMAIN sends[i]
  BY SendsType DEF Linked
<1>8. M!Representatives(Calls, DOMAIN Calls) = {Last(i) : i \in Linked}
  <2>1. \A p \in M!Representatives(Calls, DOMAIN Calls) : p \in DOMAIN Calls
    BY DEF M!Representatives
  <2>2. QED
    BY <1>1, <1>6, <1>7, <2>1, CallIsAttempt DEF Last
<1>9. QED
  BY <1>3, <1>4, <1>7, <1>8 DEF Last, LastSend

\* Counting last calls is counting intents.
LEMMA LastCounted ==
  ASSUME TypeOK, NEW S \in SUBSET {Last(i) : i \in Linked}, NEW P \in SUBSET Linked,
         \A i \in Linked : Last(i) \in S <=> i \in P
  PROVE  Cardinality(S) = Cardinality(P)
<1> DEFINE T == {Last(i) : i \in P}
           f == [i \in P |-> Last(i)]
<1>1. IsFiniteSet(P)
  BY IntentsAssumption, FS_Subset DEF Linked
<1>2. \A i, j \in P : Last(i) = Last(j) => i = j
  <2>1. \A i \in P : i \in Intents /\ Len(sends[i]) \in Nat \ {0}
    BY SendsType DEF Linked
  <2>2. QED
    BY <2>1, Places DEF Last
<1>3. f \in Bijection(P, T)
  BY <1>2 DEF Bijection, Injection, Surjection, IsInjective
<1>4. ExistsBijection(P, T)
  BY <1>3 DEF ExistsBijection
<1>5. S = T
  OBVIOUS
<1> HIDE DEF T, f
<1>6. QED
  BY <1>1, <1>4, <1>5, FS_Bijection

LEMMA SameCardinality ==
  ASSUME NEW S
  PROVE  M!Cardinality(S) = Cardinality(S)
BY DEF M!Cardinality, Cardinality

\* What a row and a line of the retry detail count.
LEMMA RowSuccesses ==
  ASSUME NEW file, NEW S
  PROVE  M!Aggregate(file, S).successes = Cardinality({k \in S : file[k].ok})
<1> DEFINE total == Cardinality(S)
           successes == Cardinality({k \in S : file[k].ok})
           status == M!Status(total, successes)
           codes == {file[k].code : k \in {j \in S : ~file[j].ok}} \ {"none"}
           latency == M!Quantiles(M!Latencies(file, S))
<1>1. M!Aggregate(file, S) = [status |-> status, calls |-> total, successes |-> successes,
                              codes |-> codes, latency |-> latency]
  BY SameCardinality DEF M!Aggregate
<1> HIDE DEF total, successes, status, codes, latency
<1>2. M!Aggregate(file, S).successes = successes
  BY <1>1
<1>3. QED
  BY <1>2 DEF successes

LEMMA DetailCounts ==
  ASSUME NEW R, R # {}, "z_sendmany" \in M!Roster,
         M!Representatives(Calls, M!CallsTo(Calls, "z_sendmany", M!Workload)) = R,
         {k \in R : Calls[k].intent # M!Unlinked} = R
  PROVE  /\ RetryDetail.single = Cardinality({k \in R : Calls[k].attempt \in {0, 1}})
         /\ RetryDetail.twoToThree = Cardinality({k \in R : Calls[k].attempt \in {2, 3}})
<1> DEFINE L(m) == {k \in M!Representatives(Calls, M!CallsTo(Calls, m, M!Workload)) : Calls[k].intent # M!Unlinked}
           Needing(m, attempts) == Cardinality({k \in L(m) : Calls[k].attempt \in attempts})
           Line(m) == [single |-> Needing(m, {0, 1}), twoToThree |-> Needing(m, {2, 3}),
                       fourPlus |-> Cardinality(L(m)) - Needing(m, 0 .. 3)]
<1>1. M!RetryDetail(Calls, M!Workload) = [m \in {r \in M!Roster : L(r) # {}} |-> Line(m)]
  BY SameCardinality DEF M!RetryDetail
<1>2. L("z_sendmany") = R
  OBVIOUS
<1>3. Line("z_sendmany").single = Needing("z_sendmany", {0, 1}) /\ Line("z_sendmany").twoToThree = Needing("z_sendmany", {2, 3})
  OBVIOUS
<1>4. /\ Needing("z_sendmany", {0, 1}) = Cardinality({k \in R : Calls[k].attempt \in {0, 1}})
      /\ Needing("z_sendmany", {2, 3}) = Cardinality({k \in R : Calls[k].attempt \in {2, 3}})
  BY <1>2
<1> HIDE DEF Line, Needing, L
<1>5. RetryDetail = Line("z_sendmany")
  BY <1>1, <1>2 DEF RetryDetail
<1>6. QED
  BY <1>3, <1>4, <1>5

\* Once every intent has ended, and if those that sent anything have one leg each, the row of
\* z_sendmany counts each of them once, by how its retries ended, and the retry detail tells
\* how many attempts it took (report/rpc_matrix.rs).
THEOREM RowSafety == Spec => []RowShowsOutcomes
<1>1. IInv /\ Numbered => RowShowsOutcomes
  <2> SUFFICES ASSUME IInv, Numbered, Linked # {}, \A i \in Linked : Legs(i) = 1
               PROVE  /\ Row.successes = Cardinality({i \in Linked : LastSend(i).ok})
                      /\ RetryDetail.single = Cardinality({i \in Linked : Len(sends[i]) = 1})
                      /\ RetryDetail.twoToThree = Cardinality({i \in Linked : Len(sends[i]) \in {2, 3}})
    BY DEF RowShowsOutcomes
  <2> DEFINE R == {Last(i) : i \in Linked}
  <2>0. TypeOK /\ RequestsFollow
    BY DEF IInv
  <2>1. M!Representatives(Calls, M!CallsTo(Calls, "z_sendmany", M!Workload)) = R
    BY <2>0, LastStands
  <2>2. \A i \in Linked : /\ Calls[Last(i)].ok = LastSend(i).ok /\ Calls[Last(i)].intent = i
                          /\ Calls[Last(i)].attempt = Len(sends[i]) /\ Len(sends[i]) \in Nat \ {0}
    BY <2>0, LastStands, SendsType DEF Linked
  <2>3. Row.successes = Cardinality({k \in R : Calls[k].ok})
    BY <2>1, RowSuccesses DEF Row, M!Row
  <2>4. Cardinality({k \in R : Calls[k].ok}) = Cardinality({i \in Linked : LastSend(i).ok})
    BY <2>0, <2>2, LastCounted
  <2>5. {k \in R : Calls[k].intent # M!Unlinked} = R
    BY <2>2, LinkAssumption DEF M!Unlinked, Linked
  <2>6. R # {} /\ "z_sendmany" \in M!Roster
    BY DEF M!Roster
  <2>7. /\ RetryDetail.single = Cardinality({k \in R : Calls[k].attempt \in {0, 1}})
        /\ RetryDetail.twoToThree = Cardinality({k \in R : Calls[k].attempt \in {2, 3}})
    BY <2>1, <2>5, <2>6, DetailCounts
  <2>8. \A i \in Linked : /\ Calls[Last(i)].attempt \in {0, 1} <=> Len(sends[i]) = 1
                          /\ Calls[Last(i)].attempt \in {2, 3} <=> Len(sends[i]) \in {2, 3}
    BY <2>2
  <2>9. ASSUME NEW A, NEW B, \A i \in Linked : Calls[Last(i)].attempt \in A <=> Len(sends[i]) \in B
        PROVE  Cardinality({k \in R : Calls[k].attempt \in A}) = Cardinality({i \in Linked : Len(sends[i]) \in B})
    <3> DEFINE S == {k \in R : Calls[k].attempt \in A}
               P == {i \in Linked : Len(sends[i]) \in B}
    <3>1. \A i \in Linked : Last(i) \in S <=> i \in P
      BY <2>9
    <3> HIDE DEF S, P
    <3>2. S \subseteq {Last(i) : i \in Linked} /\ P \subseteq Linked
      BY DEF S, P
    <3>3. Cardinality(S) = Cardinality(P)
      BY <2>0, <3>1, <3>2, LastCounted
    <3>4. QED
      BY <3>3 DEF S, P
  <2>10. /\ Cardinality({k \in R : Calls[k].attempt \in {0, 1}}) = Cardinality({i \in Linked : Len(sends[i]) \in {1}})
         /\ Cardinality({k \in R : Calls[k].attempt \in {2, 3}}) = Cardinality({i \in Linked : Len(sends[i]) \in {2, 3}})
    <3>1. \A i \in Linked : Calls[Last(i)].attempt \in {0, 1} <=> Len(sends[i]) \in {1}
      BY <2>8
    <3>2. \A i \in Linked : Calls[Last(i)].attempt \in {2, 3} <=> Len(sends[i]) \in {2, 3}
      BY <2>8
    <3> HIDE DEF R
    <3>3. Cardinality({k \in R : Calls[k].attempt \in {0, 1}}) = Cardinality({i \in Linked : Len(sends[i]) \in {1}})
      BY <2>9, <3>1, Zenon
    <3>4. Cardinality({k \in R : Calls[k].attempt \in {2, 3}}) = Cardinality({i \in Linked : Len(sends[i]) \in {2, 3}})
      BY <2>9, <3>2, Zenon
    <3>5. QED
      BY <3>3, <3>4
  <2> HIDE DEF R
  <2>11. QED
    BY <2>0, <2>3, <2>4, <2>7, <2>10
<1>2. QED
  BY <1>1, Invariance, Numbering, PTL

=============================================================================
