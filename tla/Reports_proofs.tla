--------------------------- MODULE Reports_proofs ---------------------------
(***************************************************************************)
(* Proofs about Reports, for whatever there is to record, any number of    *)
(* runs in a report and any thresholds and expectations.                   *)
(***************************************************************************)
EXTENDS Reports, FiniteSetTheorems, SequenceTheorems, WellFoundedInduction, TLAPS

(***************************************************************************)
(* The inductive invariant, first of the calls: the attempts of each       *)
(* sequence of retries stand in the file in their order, and only an       *)
(* intent of two legs begins a second sequence.                            *)
(***************************************************************************)

LineOf(r, c, n) == [RpcCall(r, c.via, c.intent, c.answer, c.phase, c.ms, c.at) EXCEPT !.attempt = n]
Lines == {LineOf(r, c, n) : r \in Nat, c \in Feeds[feed].calls, n \in Nat}

\* Two calls of one intent and method, in one run.
Together(c, d) == SameIntent(c, d) /\ c.method = d.method

Earlier(file, k) == {j \in DOMAIN file : j < k /\ Together(file[j], file[k])}

\* Of those, the ones after the last success, or all.
Sequence(file, k) == {i \in Earlier(file, k) : \A j \in Earlier(file, k) : file[j].ok => j < i}

\* The attempt number is the position among the attempts before it.
NumberedIn(file) == \A k \in DOMAIN file : file[k].attempt = Cardinality(Sequence(file, k)) + 1

\* A success is followed only by the payout it was the sweep for.
LeggedIn(file) ==
  \A k \in DOMAIN file : \A j \in Earlier(file, k) :
    file[j].ok => file[k].intent \in Feeds[feed].sweeping

CallsInv ==
  /\ run \in Nat \ {0} /\ feed \in DOMAIN Feeds
  /\ calls \in Seq(Lines) /\ NumberedIn(calls) /\ LeggedIn(calls)

-----------------------------------------------------------------------------
(* Files of lines. *)

LEMMA FileDomain ==
  ASSUME NEW S, NEW file \in Seq(S)
  PROVE  Len(file) \in Nat /\ DOMAIN file = 1 .. Len(file) /\ \A k \in DOMAIN file : file[k] \in S
BY LenProperties, ElementOfSeq

LEMMA Appended ==
  ASSUME NEW S, NEW file \in Seq(S), NEW line \in S
  PROVE  /\ Append(file, line) \in Seq(S) /\ Len(Append(file, line)) = Len(file) + 1
         /\ DOMAIN Append(file, line) = 1 .. Len(file) + 1
         /\ \A k \in 1 .. Len(file) : Append(file, line)[k] = file[k]
         /\ Append(file, line)[Len(file) + 1] = line
BY AppendProperties, LenProperties

LEMMA Cut ==
  ASSUME NEW S, NEW file \in Seq(S), file # <<>>
  PROVE  /\ ButLast(file) \in Seq(S) /\ Len(ButLast(file)) = Len(file) - 1 /\ Len(file) >= 1
         /\ DOMAIN ButLast(file) = 1 .. Len(file) - 1
         /\ \A k \in 1 .. Len(file) - 1 : ButLast(file)[k] = file[k]
<1>1. Len(file) \in Nat /\ DOMAIN file = 1 .. Len(file) /\ \A k \in DOMAIN file : file[k] \in S
  BY FileDomain
<1>2. Len(file) # 0
  BY EmptySeq
<1>3. \A k \in 1 .. Len(file) - 1 : file[k] \in S
  BY <1>1
<1>4. QED
  BY <1>1, <1>2, <1>3, SubSeqProperties DEF ButLast

LEMMA EarlierIsFinite ==
  ASSUME NEW S, NEW file \in Seq(S), NEW k
  PROVE  /\ IsFiniteSet(Earlier(file, k)) /\ Cardinality(Earlier(file, k)) \in Nat
         /\ IsFiniteSet(Sequence(file, k)) /\ Cardinality(Sequence(file, k)) \in 0 .. Len(file)
<1>1. Len(file) \in Nat /\ DOMAIN file = 1 .. Len(file)
  BY FileDomain
<1>2. IsFiniteSet(1 .. Len(file)) /\ Cardinality(1 .. Len(file)) = Len(file)
  <2>1. 1 \in Int /\ Len(file) \in Int
    BY <1>1
  <2>2. /\ IsFiniteSet(1 .. Len(file))
        /\ Cardinality(1 .. Len(file)) = IF 1 > Len(file) THEN 0 ELSE Len(file) - 1 + 1
    BY <2>1, FS_Interval
  <2>3. QED
    BY <1>1, <2>2
<1>3. Earlier(file, k) \subseteq 1 .. Len(file) /\ Sequence(file, k) \subseteq 1 .. Len(file)
  BY <1>1 DEF Earlier, Sequence
<1>4. /\ IsFiniteSet(Earlier(file, k))
      /\ IsFiniteSet(Sequence(file, k)) /\ Cardinality(Sequence(file, k)) <= Len(file)
  BY <1>2, <1>3, FS_Subset
<1>5. Cardinality(Earlier(file, k)) \in Nat /\ Cardinality(Sequence(file, k)) \in Nat
  BY <1>4, FS_CardinalityType
<1>6. QED
  BY <1>1, <1>4, <1>5

LEMMA AttemptIsNumber ==
  ASSUME NEW S, NEW file \in Seq(S), NumberedIn(file), NEW k \in DOMAIN file
  PROVE  file[k].attempt \in 1 .. Len(file) + 1
<1>1. Cardinality(Sequence(file, k)) \in 0 .. Len(file)
  BY EarlierIsFinite
<1>2. file[k].attempt = Cardinality(Sequence(file, k)) + 1 /\ Len(file) \in Nat
  BY FileDomain DEF NumberedIn
<1>3. QED
  BY <1>1, <1>2

\* In such a file a later attempt has the higher number, unless a success came between.
LEMMA LaterIsHigher ==
  ASSUME NEW S, NEW file \in Seq(S), NumberedIn(file),
         NEW j \in DOMAIN file, NEW k \in DOMAIN file, j < k, Together(file[j], file[k]),
         \A i \in Earlier(file, k) : file[i].ok => i < j
  PROVE  file[j].attempt < file[k].attempt
<1>1. Len(file) \in Nat /\ DOMAIN file = 1 .. Len(file)
  BY FileDomain
<1>2. /\ IsFiniteSet(Sequence(file, j)) /\ Cardinality(Sequence(file, j)) \in Nat
      /\ IsFiniteSet(Sequence(file, k)) /\ Cardinality(Sequence(file, k)) \in Nat
  BY <1>1, EarlierIsFinite
<1>3. j \notin Sequence(file, j)
  BY <1>1 DEF Sequence, Earlier
<1>4. Cardinality(Sequence(file, j) \cup {j}) = Cardinality(Sequence(file, j)) + 1
  BY <1>2, <1>3, FS_AddElement
<1>5. Sequence(file, j) \cup {j} \subseteq Sequence(file, k)
  <2>1. Earlier(file, j) \subseteq Earlier(file, k) /\ j \in Earlier(file, k)
    BY <1>1 DEF Earlier, Together, SameIntent
  <2>2. \A i \in Earlier(file, k) : file[i].ok => i \in Earlier(file, j)
    BY <1>1 DEF Earlier, Together, SameIntent
  <2>3. QED
    BY <2>1, <2>2 DEF Sequence
<1>6. Cardinality(Sequence(file, j) \cup {j}) <= Cardinality(Sequence(file, k))
  BY <1>2, <1>5, FS_Subset
<1>7. file[j].attempt = Cardinality(Sequence(file, j)) + 1 /\ file[k].attempt = Cardinality(Sequence(file, k)) + 1
  BY DEF NumberedIn
<1>8. QED
  BY <1>2, <1>4, <1>6, <1>7

\* What is common to two files is numbered alike.
LEMMA EarlierKept ==
  ASSUME NEW S, NEW file \in Seq(S), NEW other \in Seq(S), NEW n \in Nat, n <= Len(file), n <= Len(other),
         \A k \in 1 .. n : other[k] = file[k], NEW k \in 1 .. n
  PROVE  Earlier(other, k) = Earlier(file, k) /\ Sequence(other, k) = Sequence(file, k)
<1>1. /\ Len(file) \in Nat /\ DOMAIN file = 1 .. Len(file)
      /\ Len(other) \in Nat /\ DOMAIN other = 1 .. Len(other)
  BY FileDomain
<1>2. Earlier(other, k) = Earlier(file, k)
  BY <1>1 DEF Earlier
<1>3. \A j \in Earlier(file, k) : other[j] = file[j]
  BY <1>1 DEF Earlier
<1>4. Sequence(other, k) = Sequence(file, k)
  BY <1>2, <1>3 DEF Sequence
<1>5. QED
  BY <1>2, <1>4

-----------------------------------------------------------------------------
(* The calls, step by step. *)

Line(c) == RpcCall(run, c.via, c.intent, c.answer, c.phase, c.ms, c.at)

LEMMA LineKept ==
  ASSUME NEW r, NEW c, NEW n
  PROVE  LET line == RpcCall(r, c.via, c.intent, c.answer, c.phase, c.ms, c.at)
             new == [line EXCEPT !.attempt = n]
         IN /\ new.attempt = n /\ new.run = line.run /\ new.method = line.method
            /\ new.intent = line.intent /\ new.phase = line.phase /\ new.run = r
BY DEF RpcCall

\* What the steps do to the calls.
\* What the steps do to the calls.
LEMMA CallsChange ==
  ASSUME [Next]_vars
  PROVE  /\ feed' = feed
         /\ \/ run' = run
            \/ run' = run + 1
         /\ \/ calls' = calls
            \/ \E c \in Feeds[feed].calls :
                 /\ Retried(Line(c)) /\ run' = run
                 /\ calls' = Append(calls, [Line(c) EXCEPT !.attempt = AttemptOf(Line(c))])
            \/ LastOfRun(calls) /\ calls' = ButLast(calls)
<1>1. CASE \E c \in Feeds[feed].calls : RecordCall(c)
  BY <1>1 DEF RecordCall, Line
<1>2. CASE Kill
  BY <1>2 DEF Kill, timeVars
<1>3. CASE NextRun
  BY <1>3 DEF NextRun, fileVars
<1>4. CASE UNCHANGED vars
  BY <1>4 DEF vars, fileVars
<1>5. CASE Mark \/ Tick \/ AbortSetup \/ RefuseLoad
  BY <1>5 DEF Mark, Tick, AbortSetup, RefuseLoad, timeVars, fileVars
<1>6. CASE (\E m \in Feeds[feed].samples : RecordMetric(m)) \/ \E o \in Feeds[feed].outcomes : Settle(o)
  BY <1>6 DEF RecordMetric, Settle, timeVars, fileVars
<1>7. CASE EndLoad \/ RecordIntent
  BY <1>7 DEF EndLoad, RecordIntent, timeVars
<1>8. CASE Finalise
  BY <1>8 DEF Finalise, timeVars, fileVars
<1>9. QED
  BY <1>1, <1>2, <1>3, <1>4, <1>5, <1>6, <1>7, <1>8 DEF Next


LEMMA RecordedInOrder ==
  ASSUME CallsInv, NEW c \in Feeds[feed].calls, feed' = feed, run' = run, Retried(Line(c)),
         calls' = Append(calls, [Line(c) EXCEPT !.attempt = AttemptOf(Line(c))])
  PROVE  CallsInv'
<1> DEFINE line == Line(c)
           new == [line EXCEPT !.attempt = AttemptOf(line)]
           last == Len(calls) + 1
           before == Before(line)
           own == {k \in before : \A j \in before : calls[j].ok => j < k}
           good == {k \in before : calls[k].ok}
<1>1. /\ calls \in Seq(Lines) /\ NumberedIn(calls) /\ LeggedIn(calls)
      /\ run \in Nat \ {0} /\ feed \in DOMAIN Feeds
  BY DEF CallsInv
<1>2. Len(calls) \in Nat /\ DOMAIN calls = 1 .. Len(calls)
  BY <1>1, FileDomain
<1>3. new.attempt = AttemptOf(line) /\ new.run = line.run /\ new.method = line.method /\ new.intent = line.intent
  BY LineKept DEF Line
<1>4. AttemptOf(line) = Cardinality(own) + 1
  BY DEF AttemptOf
<1>5. IsFiniteSet(own) /\ Cardinality(own) \in Nat /\ IsFiniteSet(good)
  <2>1. IsFiniteSet(DOMAIN calls) /\ before \subseteq DOMAIN calls
    BY <1>2, FS_Interval DEF Before
  <2>2. own \subseteq DOMAIN calls /\ good \subseteq DOMAIN calls
    BY <2>1
  <2>3. IsFiniteSet(own) /\ IsFiniteSet(good)
    <3> HIDE DEF own, good
    <3>1. QED
      BY <2>1, <2>2, FS_Subset
  <2>4. QED
    BY <2>3, FS_CardinalityType
<1>6. new \in Lines
  <2>1. AttemptOf(line) \in Nat /\ run \in Nat
    BY <1>1, <1>4, <1>5
  <2>2. ASSUME NEW n \in Nat
        PROVE  [Line(c) EXCEPT !.attempt = n] \in Lines
    <3>1. [Line(c) EXCEPT !.attempt = n] = LineOf(run, c, n)
      BY DEF LineOf, Line
    <3>2. QED
      BY <2>1, <3>1 DEF Lines
  <2>3. QED
    BY <2>1, <2>2
<1>a. good # {} => line.intent \in Feeds[feed].sweeping
  <2> SUFFICES ASSUME good # {}, line.intent \notin Feeds[feed].sweeping PROVE FALSE
    OBVIOUS
  <2>1. Cardinality(good) < Legs(line)
    BY DEF Retried
  <2>2. Legs(line) = 1
    BY DEF Legs
  <2>3. Cardinality(good) \in Nat /\ Cardinality(good) # 0
    <3> HIDE DEF good
    <3>1. QED
      BY <1>5, FS_CardinalityType, FS_EmptySet
  <2> HIDE DEF good, line
  <2>4. QED
    BY <2>1, <2>2, <2>3
<1> HIDE DEF new
<1>7. /\ calls' = Append(calls, new) /\ calls' \in Seq(Lines) /\ DOMAIN calls' = 1 .. last /\ Len(calls') = last
      /\ \A k \in 1 .. Len(calls) : calls'[k] = calls[k]
      /\ calls'[last] = new
  <2>1. calls' = Append(calls, new)
    BY DEF new
  <2>2. QED
    BY <1>1, <1>6, <2>1, Appended
<1>8. ASSUME NEW k \in 1 .. Len(calls)
      PROVE  Earlier(calls', k) = Earlier(calls, k) /\ Sequence(calls', k) = Sequence(calls, k)
  <2>1. Len(calls) <= Len(calls) /\ Len(calls) <= Len(calls')
    BY <1>2, <1>7
  <2> DEFINE file == calls'
  <2>2. file \in Seq(Lines) /\ Len(calls) <= Len(file) /\ \A i \in 1 .. Len(calls) : file[i] = calls[i]
    BY <1>7, <2>1
  <2> HIDE DEF file
  <2>3. Earlier(file, k) = Earlier(calls, k) /\ Sequence(file, k) = Sequence(calls, k)
    BY <1>1, <1>2, <2>1, <2>2, EarlierKept
  <2>4. QED
    BY <2>3 DEF file
<1>9. Earlier(calls', last) = before
  <2>1. \A k \in 1 .. Len(calls) : Together(calls'[k], calls'[last])
                                     <=> SameIntent(calls[k], line) /\ calls[k].method = line.method
    BY <1>3, <1>7 DEF Together, SameIntent
  <2> HIDE DEF line
  <2>2. QED
    BY <1>2, <1>7, <2>1 DEF Earlier, Before
<1>b. \A k \in before : k \in 1 .. Len(calls) /\ calls'[k] = calls[k]
  BY <1>2, <1>7 DEF Before
<1> HIDE DEF before
<1>c. Sequence(calls', last) = own
  BY <1>9, <1>b DEF Sequence
<1> HIDE DEF own, line
<1>d. \A k \in DOMAIN calls' : k \in 1 .. Len(calls) \/ k = last
  BY <1>2, <1>7
<1>10. NumberedIn(calls')
  <2>1. ASSUME NEW k \in 1 .. Len(calls)
        PROVE  calls'[k].attempt = Cardinality(Sequence(calls', k)) + 1
    BY <1>1, <1>2, <1>7, <1>8, <2>1 DEF NumberedIn
  <2>2. calls'[last].attempt = Cardinality(Sequence(calls', last)) + 1
    BY <1>3, <1>4, <1>7, <1>c
  <2>3. QED
    BY <1>d, <2>1, <2>2 DEF NumberedIn
<1>11. LeggedIn(calls)'
  <2>1. ASSUME NEW k \in 1 .. Len(calls), NEW j \in Earlier(calls', k), calls'[j].ok
        PROVE  calls'[k].intent \in Feeds[feed].sweeping
    <3>1. j \in Earlier(calls, k) /\ j \in 1 .. Len(calls)
      BY <1>2, <1>8, <2>1 DEF Earlier
    <3>2. QED
      BY <1>1, <1>2, <1>7, <2>1, <3>1 DEF LeggedIn
  <2>2. ASSUME NEW j \in Earlier(calls', last), calls'[j].ok
        PROVE  calls'[last].intent \in Feeds[feed].sweeping
    BY <1>3, <1>7, <1>9, <1>a, <1>b, <2>2
  <2>3. QED
    BY <1>d, <2>1, <2>2 DEF LeggedIn
<1>12. Lines' = Lines
  BY DEF Lines
<1>13. QED
  BY <1>1, <1>7, <1>10, <1>11, <1>12 DEF CallsInv

LEMMA CallsStep ==
  ASSUME CallsInv, [Next]_vars
  PROVE  CallsInv'
<1>1. /\ calls \in Seq(Lines) /\ NumberedIn(calls) /\ LeggedIn(calls)
      /\ run \in Nat \ {0} /\ feed \in DOMAIN Feeds
  BY DEF CallsInv
<1>2. feed' = feed /\ Lines' = Lines /\ run' \in Nat \ {0}
  <2>1. feed' = feed /\ (run' = run \/ run' = run + 1)
    BY CallsChange
  <2>2. run' \in Nat \ {0}
    BY <1>1, <2>1
  <2>3. QED
    BY <2>1, <2>2 DEF Lines
<1>3. CASE calls' = calls
  <2>1. NumberedIn(calls)' /\ LeggedIn(calls)'
    BY <1>1, <1>2, <1>3 DEF NumberedIn, LeggedIn, Sequence, Earlier
  <2>2. QED
    BY <1>1, <1>2, <1>3, <2>1 DEF CallsInv
<1>4. ASSUME NEW c \in Feeds[feed].calls, Retried(Line(c)), run' = run,
             calls' = Append(calls, [Line(c) EXCEPT !.attempt = AttemptOf(Line(c))])
      PROVE  CallsInv'
  BY <1>2, <1>4, RecordedInOrder
<1>5. CASE LastOfRun(calls) /\ calls' = ButLast(calls)
  <2>1. calls # <<>>
    BY <1>5 DEF LastOfRun
  <2>2. /\ calls' \in Seq(Lines) /\ Len(calls') = Len(calls) - 1 /\ Len(calls) >= 1 /\ Len(calls) \in Nat
        /\ DOMAIN calls' = 1 .. Len(calls) - 1 /\ DOMAIN calls = 1 .. Len(calls)
        /\ \A k \in 1 .. Len(calls) - 1 : calls'[k] = calls[k]
    BY <1>1, <1>5, <2>1, Cut, FileDomain
  <2>3. ASSUME NEW k \in 1 .. Len(calls) - 1
        PROVE  Earlier(calls', k) = Earlier(calls, k) /\ Sequence(calls', k) = Sequence(calls, k)
    <3> DEFINE file == calls'
               n == Len(calls) - 1
    <3>1. file \in Seq(Lines) /\ n \in Nat /\ n <= Len(calls) /\ n <= Len(file) /\ \A i \in 1 .. n : file[i] = calls[i]
      BY <2>2
    <3>2. k \in 1 .. n
      OBVIOUS
    <3> HIDE DEF file, n
    <3>3. Earlier(file, k) = Earlier(calls, k) /\ Sequence(file, k) = Sequence(calls, k)
      BY <1>1, <3>1, <3>2, EarlierKept
    <3>4. QED
      BY <3>3 DEF file
  <2>4. NumberedIn(calls')
    BY <1>1, <2>2, <2>3 DEF NumberedIn
  <2>5. LeggedIn(calls)'
    <3>1. ASSUME NEW k \in 1 .. Len(calls) - 1, NEW j \in Earlier(calls', k)
          PROVE  j \in Earlier(calls, k) /\ calls'[j] = calls[j]
      BY <2>2, <2>3, <3>1 DEF Earlier
    <3>2. QED
      BY <1>1, <1>2, <2>2, <3>1 DEF LeggedIn
  <2>6. QED
    BY <1>1, <1>2, <2>2, <2>4, <2>5 DEF CallsInv
<1>6. QED
  BY <1>3, <1>4, <1>5, CallsChange

-----------------------------------------------------------------------------
(* Findings of failures: one call for each intent, of its last attempts, or its sweep. *)

\* A set of numbers that is not empty has a least element and, if bounded, a greatest.
LEMMA Extremes ==
  ASSUME NEW n \in Nat, NEW S, S \subseteq 0 .. n, S # {}
  PROVE  (\E x \in S : \A y \in S : x <= y) /\ \E x \in S : \A y \in S : y <= x
<1>0. \A T : T \subseteq Nat /\ T # {} => \E x \in T : \A y \in T : x <= y
  <2> SUFFICES ASSUME NEW T, T \subseteq Nat, T # {}
               PROVE  \E x \in T : \A y \in T : x <= y
    OBVIOUS
  <2>1. IsWellFoundedOn(OpToRel(<, Nat), Nat)
    BY NatLessThanWellFounded
  <2>2. PICK x \in T : \A y \in T : <<y, x>> \notin OpToRel(<, Nat)
    BY <2>1, WFMin
  <2>3. \A y \in T : ~(y < x) /\ x \in Nat /\ y \in Nat
    BY <2>2 DEF OpToRel
  <2>4. \A y \in T : x <= y
    BY <2>3
  <2>5. QED
    BY <2>4
<1>1. \E x \in S : \A y \in S : x <= y
  <2>1. S \subseteq Nat
    OBVIOUS
  <2>2. QED
    BY <1>0, <2>1
<1>2. \E x \in S : \A y \in S : y <= x
  <2> DEFINE T == {n - x : x \in S}
  <2>1. T \subseteq Nat /\ T # {}
    <3>1. \A x \in S : n - x \in Nat
      OBVIOUS
    <3>2. QED
      BY <3>1
  <2>2. PICK t \in T : \A u \in T : t <= u
    <3> HIDE DEF T
    <3>1. QED
      BY <1>0, <2>1
  <2>3. PICK x \in S : t = n - x
    OBVIOUS
  <2>4. \A y \in S : n - x <= n - y
    BY <2>2, <2>3
  <2>5. \A y \in S : y <= x
    BY <2>4
  <2>6. QED
    BY <2>5
<1>3. QED
  BY <1>1, <1>2

\* What is linked to an intent is a call of the load.
LEMMA LinkedInLoad ==
  ASSUME CallsInv, NEW k \in DOMAIN calls, calls[k].intent # Unlinked
  PROVE  calls[k].phase \in Workload
<1>1. calls[k] \in Lines /\ feed \in DOMAIN Feeds
  BY FileDomain DEF CallsInv
<1>2. PICK r \in Nat, c \in Feeds[feed].calls, n \in Nat : calls[k] = LineOf(r, c, n)
  BY <1>1 DEF Lines
<1>3. calls[k].phase = c.phase /\ calls[k].intent = IntentOf(c.via, c.intent)
  BY <1>2 DEF LineOf, RpcCall
<1>4. c.via = "z_send_many_attempt"
  BY <1>3 DEF IntentOf, Unlinked
<1>5. QED
  BY <1>1, <1>3, <1>4, FeedsAssumption

Calling(m) == CallsTo(calls, m, Workload)

LEMMA CallsToMethod ==
  ASSUME CallsInv, NEW m
  PROVE  /\ Calling(m) \subseteq 1 .. Len(calls) /\ Calling(m) \subseteq DOMAIN calls /\ IsFiniteSet(Calling(m))
         /\ Len(calls) \in Nat /\ DOMAIN calls = 1 .. Len(calls)
         /\ \A k : k \in Calling(m) <=> k \in Scoped(calls, Workload) /\ calls[k].method = m
<1>1. DOMAIN calls = 1 .. Len(calls) /\ Len(calls) \in Nat
  BY FileDomain DEF CallsInv
<1>2. Calling(m) \subseteq DOMAIN calls
  BY DEF Calling, CallsTo, Scoped
<1>3. IsFiniteSet(Calling(m))
  <2>1. IsFiniteSet(DOMAIN calls)
    BY <1>1, FS_Interval
  <2>2. QED
    BY <1>2, <2>1, FS_Subset
<1>4. QED
  BY <1>1, <1>2, <1>3 DEF Calling, CallsTo

\* The calls of a method fall into the attempts of its intents, and single ones.
LEMMA AttemptsToMethod ==
  ASSUME CallsInv, NEW m, NEW k \in Calling(m)
  PROVE  /\ Attempts(k) \subseteq Calling(m) /\ k \in Attempts(k)
         /\ \A j \in Calling(m) : /\ j \in Attempts(k) <=> j = k \/ Together(calls[j], calls[k])
                                  /\ j \in Attempts(k) => Attempts(j) = Attempts(k)
                                  /\ SameIntent(calls[j], calls[k]) => Together(calls[j], calls[k])
<1>1. calls[k].method = m /\ k \in Scoped(calls, Workload)
  BY CallsToMethod
<1>2. \A i \in Calling(m) : \A j : j \in Attempts(i) <=> j \in Calling(m) /\ (j = i \/ Together(calls[j], calls[i]))
  BY CallsToMethod DEF Attempts, Together
<1>3. ASSUME NEW j \in Calling(m), j \in Attempts(k)
      PROVE  Attempts(j) = Attempts(k)
  <2>1. \A i : i \in Attempts(j) <=> i \in Attempts(k)
    BY <1>2, <1>3 DEF Together, SameIntent
  <2>2. QED
    BY <2>1
<1>4. \A j \in Calling(m) : SameIntent(calls[j], calls[k]) => Together(calls[j], calls[k])
  BY CallsToMethod DEF Together
<1>5. QED
  BY <1>2, <1>3, <1>4

\* Of those, one is the last.
LEMMA OneIsLast ==
  ASSUME CallsInv, NEW m, NEW k \in Calling(m)
  PROVE  /\ \E l \in Attempts(k) : LastAttempt(l)
         /\ \A i, j \in Attempts(k) : LastAttempt(i) /\ LastAttempt(j) => i = j
<1>1. /\ Attempts(k) \subseteq 0 .. Len(calls) /\ Len(calls) \in Nat /\ k \in Attempts(k)
      /\ \A j \in Attempts(k) : Attempts(j) = Attempts(k)
  BY CallsToMethod, AttemptsToMethod
<1>2. PICK l \in Attempts(k) : \A j \in Attempts(k) : j <= l
  BY <1>1, Extremes
<1>3. LastAttempt(l)
  BY <1>1, <1>2 DEF LastAttempt
<1>4. ASSUME NEW i \in Attempts(k), NEW j \in Attempts(k), LastAttempt(i), LastAttempt(j)
      PROVE  i = j
  <2>1. i <= j /\ j <= i
    BY <1>1, <1>4 DEF LastAttempt
  <2>2. QED
    BY <1>1, <2>1
<1>5. QED
  BY <1>3, <1>4

\* And one stands for them.
LEMMA OneStands ==
  ASSUME CallsInv, NEW m, NEW k \in Calling(m)
  PROVE  /\ \E r \in Attempts(k) : r \in Representatives(calls, Calling(m))
         /\ \A i, j \in Attempts(k) :
              i \in Representatives(calls, Calling(m)) /\ j \in Representatives(calls, Calling(m)) => i = j
<1> DEFINE R == Representatives(calls, Calling(m))
           numbers == {calls[j].attempt : j \in Attempts(k)}
<1>1. /\ Attempts(k) \subseteq 0 .. Len(calls) /\ Attempts(k) \subseteq DOMAIN calls
      /\ Len(calls) \in Nat /\ k \in Attempts(k) /\ Attempts(k) \subseteq Calling(m)
  BY CallsToMethod, AttemptsToMethod
<1>2. \A j \in DOMAIN calls : calls[j].attempt \in 1 .. Len(calls) + 1
  BY AttemptIsNumber DEF CallsInv
<1>3. PICK a \in numbers : \A b \in numbers : b <= a
  <2>1. numbers \subseteq 0 .. Len(calls) + 1 /\ numbers # {} /\ Len(calls) + 1 \in Nat
    BY <1>1, <1>2
  <2> HIDE DEF numbers
  <2>2. QED
    BY <2>1, Extremes
<1> DEFINE highest == {j \in Attempts(k) : calls[j].attempt = a}
<1>4. PICK r \in highest : \A j \in highest : r <= j
  <2>1. highest \subseteq 0 .. Len(calls) /\ highest # {} /\ Len(calls) \in Nat
    BY <1>1
  <2> HIDE DEF highest
  <2>2. QED
    BY <2>1, Extremes
<1>5. \A i \in Attempts(k) : \A j \in Calling(m) : SameIntent(calls[j], calls[i]) => j \in Attempts(k)
  <2> SUFFICES ASSUME NEW i \in Attempts(k), NEW j \in Calling(m), SameIntent(calls[j], calls[i])
               PROVE  j \in Attempts(k)
    OBVIOUS
  <2>1. i \in Calling(m)
    BY <1>1
  <2>2. j \in Attempts(i)
    BY <2>1, AttemptsToMethod
  <2>3. Attempts(i) = Attempts(k)
    BY <2>1, AttemptsToMethod
  <2>4. QED
    BY <2>2, <2>3
<1>6. r \in R
  <2>1. r \in Attempts(k) /\ r \in Calling(m) /\ calls[r].attempt = a
    BY <1>1
  <2>2. ASSUME NEW j \in Calling(m), SameIntent(calls[j], calls[r])
        PROVE  calls[j].attempt <= calls[r].attempt /\ (j < r => calls[j].attempt < calls[r].attempt)
    <3>1. j \in Attempts(k)
      BY <1>5, <2>1, <2>2
    <3>2. calls[j].attempt <= a
      BY <1>3, <3>1
    <3>3. calls[j].attempt = a => r <= j
      BY <1>4, <3>1
    <3>4. calls[j].attempt \in Nat /\ a \in Nat /\ j \in Nat /\ r \in Nat
      BY <1>1, <1>2, <2>1, <3>1
    <3>5. QED
      BY <2>1, <3>2, <3>3, <3>4
  <2>3. QED
    BY <2>1, <2>2 DEF Representatives
<1>7. ASSUME NEW i \in Attempts(k), NEW j \in Attempts(k), i \in R, j \in R, i < j
      PROVE  FALSE
  <2>1. i \in Calling(m) /\ j \in Calling(m)
    BY <1>1
  <2>2. SameIntent(calls[i], calls[j]) /\ SameIntent(calls[j], calls[i])
    <3>1. i \in Attempts(j)
      BY <2>1, AttemptsToMethod
    <3>2. i # j
      BY <1>1, <1>7
    <3>3. QED
      BY <2>1, <3>1, <3>2, AttemptsToMethod DEF Together, SameIntent
  <2>3. calls[i].attempt < calls[j].attempt /\ calls[j].attempt <= calls[i].attempt
    BY <1>7, <2>1, <2>2 DEF Representatives
  <2>4. calls[i].attempt \in Nat /\ calls[j].attempt \in Nat
    BY <1>1, <1>2
  <2>5. QED
    BY <2>3, <2>4
<1>8. \A i, j \in Attempts(k) : i \in R /\ j \in R => i = j
  <2>1. \A i, j \in Attempts(k) : i = j \/ i < j \/ j < i
    BY <1>1
  <2>2. QED
    BY <1>7, <2>1
<1>9. QED
  BY <1>4, <1>6, <1>8

\* What is known and tolerated in warm-up is no call of the load.
LEMMA LimitationsAreSetup ==
  LET scored == WithoutKnownLimitations(calls)
  IN \A m : /\ CallsTo(scored, m, Workload) = Calling(m)
            /\ \A k \in Calling(m) : scored[k] = calls[k]
<1> DEFINE scored == WithoutKnownLimitations(calls)
<1>1. \A k \in DOMAIN calls : calls[k].phase \in Workload => ~KnownLimitation(calls[k])
  BY DEF KnownLimitation, Workload
<1>2. /\ DOMAIN scored = {j \in DOMAIN calls : ~KnownLimitation(calls[j])}
      /\ \A k \in DOMAIN scored : scored[k] = calls[k]
  BY DEF WithoutKnownLimitations
<1> HIDE DEF scored
<1>3. ASSUME NEW m
      PROVE  CallsTo(scored, m, Workload) = Calling(m)
  BY <1>1, <1>2 DEF CallsTo, Scoped, Calling
<1>4. ASSUME NEW m, NEW k \in Calling(m)
      PROVE  scored[k] = calls[k]
  BY <1>1, <1>2, <1>4 DEF CallsTo, Scoped, Calling
<1>5. QED
  BY <1>3, <1>4 DEF scored

\* If the call that stands for an intent failed it was the last attempt, and no success stands
\* beside it.
LEMMA FailedIsLast ==
  ASSUME CallsInv, NEW m, NEW k \in Representatives(calls, Calling(m)), ~calls[k].ok
  PROVE  LastAttempt(k) /\ ~Hidden(k)
<1>1. /\ calls \in Seq(Lines) /\ NumberedIn(calls) /\ Len(calls) \in Nat /\ DOMAIN calls = 1 .. Len(calls)
      /\ k \in Calling(m) /\ k \in DOMAIN calls /\ calls[k].method = m
  BY CallsToMethod DEF CallsInv, Representatives
<1>2. /\ Attempts(k) \subseteq Calling(m) /\ Attempts(k) \subseteq DOMAIN calls
      /\ \A j \in Attempts(k) : j = k \/ (Together(calls[j], calls[k]) /\ SameIntent(calls[j], calls[k]))
  BY <1>1, CallsToMethod, AttemptsToMethod DEF Together
<1>3. \A j \in DOMAIN calls : calls[j].attempt \in Nat
  BY <1>1, AttemptIsNumber
<1>4. LastAttempt(k)
  <2> SUFFICES ASSUME ~LastAttempt(k) PROVE FALSE
    OBVIOUS
  <2> DEFINE later == {j \in Attempts(k) : k < j}
  <2>1. PICK l \in later : \A j \in later : l <= j
    <3>1. later \subseteq 0 .. Len(calls) /\ later # {}
      BY <1>1, <1>2 DEF LastAttempt
    <3> HIDE DEF later
    <3>2. QED
      BY <1>1, <3>1, Extremes
  <2>2. l \in DOMAIN calls /\ k < l /\ Together(calls[l], calls[k])
    BY <1>1, <1>2
  <2>3. ASSUME NEW i \in Earlier(calls, l), calls[i].ok
        PROVE  i < k
    <3>1. i \in DOMAIN calls /\ i < l /\ Together(calls[i], calls[l])
      BY <2>3 DEF Earlier
    <3>2. Together(calls[i], calls[k]) /\ calls[i].intent # Unlinked
      BY <2>2, <3>1 DEF Together, SameIntent
    <3>3. i \in Calling(m)
      BY <1>1, <3>1, <3>2, LinkedInLoad, CallsToMethod DEF Scoped, Together
    <3>4. i \in Attempts(k)
      BY <1>1, <3>2, <3>3, AttemptsToMethod
    <3>5. ~(k < i)
      BY <1>1, <2>1, <2>2, <3>1, <3>4
    <3>6. i # k
      BY <2>3
    <3>7. QED
      BY <1>1, <3>1, <3>5, <3>6
  <2>4. Together(calls[k], calls[l])
    BY <2>2 DEF Together, SameIntent
  <2>5. calls[k].attempt < calls[l].attempt
    BY <1>1, <2>2, <2>3, <2>4, LaterIsHigher
  <2>6. calls[l].attempt <= calls[k].attempt
    BY <1>1, <1>2, <2>2 DEF Representatives
  <2>7. calls[k].attempt \in Nat /\ calls[l].attempt \in Nat
    BY <1>1, <1>3, <2>2
  <2>8. QED
    BY <2>5, <2>6, <2>7
<1>5. ASSUME NEW j \in Attempts(k), calls[j].ok
      PROVE  calls[j].attempt < calls[k].attempt
  <2>1. j # k /\ j \in Calling(m) /\ SameIntent(calls[j], calls[k])
    BY <1>2, <1>5
  <2>2. j < k
    BY <1>1, <1>2, <1>4, <2>1 DEF LastAttempt
  <2>3. QED
    BY <2>1, <2>2 DEF Representatives
<1>6. ~Hidden(k)
  <2> SUFFICES ASSUME NEW j \in Attempts(k), calls[j].ok, calls[j].attempt >= calls[k].attempt
               PROVE  FALSE
    BY DEF Hidden
  <2>1. calls[j].attempt < calls[k].attempt
    BY <1>5
  <2>2. calls[j].attempt \in Nat /\ calls[k].attempt \in Nat
    BY <1>1, <1>2, <1>3
  <2>3. QED
    BY <2>1, <2>2
<1>7. QED
  BY <1>4, <1>6

\* A last attempt that failed is not hidden only if a failure stands for its intent.
LEMMA LastIsShown ==
  ASSUME CallsInv, NEW m, NEW k \in Calling(m), ~calls[k].ok, LastAttempt(k), ~Hidden(k)
  PROVE  \E r \in Representatives(calls, Calling(m)) : ~calls[r].ok
<1>1. PICK r \in Attempts(k) : r \in Representatives(calls, Calling(m))
  BY OneStands
<1>2. SUFFICES ASSUME calls[r].ok PROVE FALSE
  BY <1>1
<1>3. /\ Len(calls) \in Nat /\ DOMAIN calls = 1 .. Len(calls) /\ k \in DOMAIN calls /\ r \in DOMAIN calls
      /\ r # k /\ r \in Calling(m) /\ Together(calls[r], calls[k]) /\ SameIntent(calls[k], calls[r])
  BY <1>1, <1>2, CallsToMethod, AttemptsToMethod DEF Together, SameIntent
<1>4. r < k
  BY <1>1, <1>3 DEF LastAttempt
<1>5. calls[k].intent \in Feeds[feed].sweeping
  <2>1. r \in Earlier(calls, k)
    BY <1>3, <1>4 DEF Earlier
  <2>2. QED
    BY <1>2, <1>3, <2>1 DEF CallsInv, LeggedIn
<1>6. calls[k].attempt <= calls[r].attempt
  BY <1>1, <1>3 DEF Representatives
<1>7. calls[r].attempt \in Nat /\ calls[k].attempt \in Nat
  BY <1>3, AttemptIsNumber DEF CallsInv
<1>8. calls[r].attempt >= calls[k].attempt
  BY <1>6, <1>7
<1>9. QED
  BY <1>1, <1>2, <1>5, <1>8 DEF Hidden

\* A row shows failures exactly if one of the calls it counts failed.
LEMMA FailingRow ==
  ASSUME NEW file, NEW R, IsFiniteSet(R)
  PROVE  Aggregate(file, R).status \in {"ExercisedPartialFailure", "ExercisedAllFailed"}
           <=> \E k \in R : ~file[k].ok
<1> DEFINE good == {k \in R : file[k].ok}
           total == Cardinality(R)
           successes == Cardinality(good)
<1>1. total \in Nat /\ successes \in Nat /\ successes <= total /\ (total = successes => good = R)
      /\ (total = 0 <=> R = {})
  <2>1. good \subseteq R
    OBVIOUS
  <2>2. IsFiniteSet(good) /\ Cardinality(good) <= Cardinality(R) /\ (Cardinality(R) = Cardinality(good) => R = good)
    BY <2>1, FS_Subset
  <2>3. QED
    BY <2>2, FS_CardinalityType, FS_EmptySet
<1>2. Aggregate(file, R).status = Status(total, successes)
  <2> DEFINE codes == {file[k].code : k \in {j \in R : ~file[j].ok}} \ {"none"}
             latency == Quantiles(Latencies(file, R))
             status == Status(total, successes)
  <2>1. Aggregate(file, R) = [status |-> status, calls |-> total, successes |-> successes,
                              codes |-> codes, latency |-> latency]
    BY DEF Aggregate
  <2> HIDE DEF codes, latency, status
  <2>2. Aggregate(file, R).status = status
    BY <2>1
  <2>3. QED
    BY <2>2 DEF status
<1>3. (\E k \in R : ~file[k].ok) <=> good # R
  OBVIOUS
<1>4. good = R => successes = total
  OBVIOUS
<1>5. good # R => total # 0
  BY <1>1
<1> HIDE DEF good, total, successes
<1>6. Status(total, successes) \in {"ExercisedPartialFailure", "ExercisedAllFailed"} <=> total # 0 /\ successes # total
  BY DEF Status
<1>7. QED
  BY <1>1, <1>2, <1>3, <1>4, <1>5, <1>6

LEMMA FailuresByMethod ==
  ASSUME CallsInv, NEW m \in Roster
  PROVE  Matrix(WithoutKnownLimitations(calls), Workload)[m].status \in {"ExercisedPartialFailure", "ExercisedAllFailed"}
           <=> \E k \in Calling(m) : ~calls[k].ok /\ LastAttempt(k) /\ ~Hidden(k)
<1> DEFINE scored == WithoutKnownLimitations(calls)
           R == Representatives(scored, Calling(m))
<1>1. CallsTo(scored, m, Workload) = Calling(m) /\ \A k \in Calling(m) : scored[k] = calls[k]
  BY LimitationsAreSetup
<1>2. Matrix(scored, Workload)[m] = Aggregate(scored, R)
  BY <1>1 DEF Matrix, Row
<1> HIDE DEF scored
<1>3. R = Representatives(calls, Calling(m))
  BY <1>1 DEF Representatives
<1>4. R \subseteq Calling(m) /\ IsFiniteSet(R)
  <2>1. R \subseteq Calling(m)
    BY DEF Representatives
  <2>2. QED
    BY <2>1, CallsToMethod, FS_Subset
<1>5. Aggregate(scored, R).status \in {"ExercisedPartialFailure", "ExercisedAllFailed"} <=> \E k \in R : ~scored[k].ok
  BY <1>4, FailingRow
<1> HIDE DEF R
<1>6. (\E k \in R : ~scored[k].ok) <=> \E k \in R : ~calls[k].ok
  BY <1>1, <1>4
<1>7. (\E k \in R : ~calls[k].ok) <=> \E k \in Calling(m) : ~calls[k].ok /\ LastAttempt(k) /\ ~Hidden(k)
  <2>1. ASSUME NEW k \in R, ~calls[k].ok
        PROVE  k \in Calling(m) /\ LastAttempt(k) /\ ~Hidden(k)
    BY <1>3, <1>4, <2>1, FailedIsLast
  <2>2. ASSUME NEW k \in Calling(m), ~calls[k].ok, LastAttempt(k), ~Hidden(k)
        PROVE  \E r \in R : ~calls[r].ok
    BY <1>3, <2>2, LastIsShown
  <2>3. QED
    BY <2>1, <2>2
<1>8. QED
  BY <1>2, <1>5, <1>6, <1>7 DEF scored

LEMMA FailuresReported == CallsInv => FailuresAreReported
<1> SUFFICES ASSUME CallsInv
             PROVE  {f.about : f \in RpcFailureFindings(calls)}
                      = {calls[k].method : k \in {j \in Failing : ~Hidden(j)}}
  BY DEF FailuresAreReported
<1> DEFINE matrix == Matrix(WithoutKnownLimitations(calls), Workload)
           failing == {r \in Roster \ Controls : matrix[r].status \in {"ExercisedPartialFailure", "ExercisedAllFailed"}}
<1>1. {f.about : f \in RpcFailureFindings(calls)} = failing
  <2> DEFINE Finding(m) == [category |-> "RpcFailure", about |-> m,
                            severity |-> SeverityOf(matrix[m].calls - matrix[m].successes, matrix[m].calls),
                            runs |-> RunOccurrence(WithoutKnownLimitations(calls), m).failed]
  <2>1. RpcFailureFindings(calls) = {Finding(m) : m \in failing}
    BY DEF RpcFailureFindings
  <2>2. \A m : Finding(m).about = m
    OBVIOUS
  <2> HIDE DEF Finding, failing
  <2>3. QED
    BY <2>1, <2>2
<1>2. \A m : m \in failing <=> /\ m \in Roster \ Controls
                               /\ \E k \in Calling(m) : ~calls[k].ok /\ LastAttempt(k) /\ ~Hidden(k)
  BY FailuresByMethod
<1>3. \A m : \A k : k \in Calling(m) <=> k \in Scoped(calls, Workload) /\ calls[k].method = m
  BY CallsToMethod
<1> HIDE DEF failing
<1>4. failing = {calls[k].method : k \in {j \in Failing : ~Hidden(j)}}
  BY <1>2, <1>3 DEF Failing
<1>5. QED
  BY <1>1, <1>4

-----------------------------------------------------------------------------
(* Findings of slow methods: tailed or slow, not both. *)

LEMMA SlowOnce == SlowReportedOnce
<1> SUFFICES ASSUME NEW m \in Roster \ Controls,
                    Row(calls, m, Workload).calls >= MinTailSample,
                    Row(calls, m, Workload).latency.p50 >= SlownessFloor
             PROVE  Cardinality({f \in TailFindings(calls) : f.about = m})
                      + Cardinality({f \in SlowFindings(calls) : f.about = m}) = 1
  BY DEF SlowReportedOnce
<1> DEFINE matrix == Matrix(calls, Workload)
           row == Row(calls, m, Workload)
           tailed == {r \in Roster \ Controls : matrix[r].calls >= MinTailSample /\ Tailed(matrix[r])}
           slow == {r \in Roster : /\ matrix[r].calls >= MinTailSample
                                   /\ matrix[r].latency.p50 >= SlownessFloor
                                   /\ ~Tailed(matrix[r])}
           Outlier(n) == [category |-> "LatencyOutlier", about |-> n,
                       severity |-> IF matrix[n].latency.p99 >= HighTailMultiple * matrix[n].latency.p50
                                      THEN "High" ELSE "Medium",
                       runs |-> RunOccurrence(calls, n).called]
           Slow(n) == [category |-> "LatencyOutlier", about |-> n, severity |-> "High",
                       runs |-> RunOccurrence(calls, n).called, control |-> n \in Controls]
<1>1. TailFindings(calls) = {Outlier(n) : n \in tailed}
  BY DEF TailFindings
<1>2. SlowFindings(calls) = {Slow(n) : n \in slow}
  BY DEF SlowFindings
<1>3. (\A n : Outlier(n).about = n) /\ (\A n : Slow(n).about = n)
  OBVIOUS
<1>4. matrix[m] = row
  BY DEF Matrix
<1> HIDE DEF matrix, row
<1>5. m \in tailed <=> Tailed(row)
  BY <1>4 DEF row
<1>6. m \in slow <=> ~Tailed(row)
  BY <1>4 DEF row
<1> HIDE DEF Outlier, Slow, tailed, slow
<1>7. Cardinality({f \in TailFindings(calls) : f.about = m}) = IF m \in tailed THEN 1 ELSE 0
  <2>1. CASE m \in tailed
    <3>1. {f \in TailFindings(calls) : f.about = m} = {Outlier(m)}
      BY <1>1, <1>3, <2>1
    <3>2. QED
      BY <2>1, <3>1, FS_Singleton
  <2>2. CASE m \notin tailed
    <3>1. {f \in TailFindings(calls) : f.about = m} = {}
      BY <1>1, <1>3, <2>2
    <3>2. QED
      BY <2>2, <3>1, FS_EmptySet
  <2>3. QED
    BY <2>1, <2>2
<1>8. Cardinality({f \in SlowFindings(calls) : f.about = m}) = IF m \in slow THEN 1 ELSE 0
  <2>1. CASE m \in slow
    <3>1. {f \in SlowFindings(calls) : f.about = m} = {Slow(m)}
      BY <1>2, <1>3, <2>1
    <3>2. QED
      BY <2>1, <3>1, FS_Singleton
  <2>2. CASE m \notin slow
    <3>1. {f \in SlowFindings(calls) : f.about = m} = {}
      BY <1>2, <1>3, <2>2
    <3>2. QED
      BY <2>2, <3>1, FS_EmptySet
  <2>3. QED
    BY <2>1, <2>2
<1>9. QED
  BY <1>5, <1>6, <1>7, <1>8

-----------------------------------------------------------------------------
(***************************************************************************)
(* Then of the intents: the file holds what was settled, in its order, and *)
(* runs follow each other in it.                                           *)
(***************************************************************************)

IntentRecords == {Record(o, r) : o \in Feeds[feed].outcomes, r \in Nat}

RecordsOK ==
  /\ feed \in DOMAIN Feeds /\ run \in Nat \ {0}
  /\ DOMAIN warnings = 1 .. run /\ DOMAIN manifest = 1 .. run
  /\ outcomes \in Seq(Feeds[feed].outcomes) /\ records \in Seq(IntentRecords)

Tallied == {"tally", "ended", "killed"}

\* Up to position b the file was written by earlier runs.
Since(b) ==
  /\ \A k \in DOMAIN records : records[k].run <= run /\ (records[k].run = run <=> k > b)
  /\ Len(records) - b <= Len(outcomes)
  /\ \A k \in 1 .. Len(records) - b : records[b + k] = Record(outcomes[k], run)
  /\ stage \notin Tallied => b = Len(records)
  /\ stage = "ended" => Len(records) - b = Len(outcomes)
  /\ stage \notin Workload \cup Tallied => outcomes = <<>>

RunsApart == \E b \in 0 .. Len(records) : Since(b)

\* A verdict that the records of its run bear out.
BorneOut(verdict, own) ==
  verdict = {} <=> /\ Cardinality(Having(own, "confirmed")) >= MinConfirmed
                   /\ Cardinality(Having(own, "timed_out")) <= MaxTimeouts
                   /\ Cardinality(Having(own, "failed"))
                        - Cardinality({k \in DOMAIN own : own[k].outcome = "failed" /\ own[k].class \in AllowedErrorClasses})
                        <= MaxTerminalFailures

VerdictsKept ==
  /\ stage # "ended" => manifest[run] = NoManifest
  /\ summary = {} => manifest[run].assertion = {"none"}
  /\ \A r \in 1 .. run : manifest[r].assertion # {"none"} => BorneOut(manifest[r].assertion, OfRun(records, r))

RecordsInv == RecordsOK /\ RunsApart /\ VerdictsKept

IInv == CallsInv /\ RecordsInv

-----------------------------------------------------------------------------
(* Records of intents. *)

LEMMA RecordFields ==
  ASSUME NEW o, NEW r, o.kind \in {"ok", "failed", "timedOut"}
  PROVE  /\ Record(o, r).run = r
         /\ Record(o, r).outcome = "confirmed" <=> o.kind = "ok"
         /\ Record(o, r).outcome = "failed" <=> o.kind = "failed"
         /\ Record(o, r).outcome = "timed_out" <=> o.kind = "timedOut"
         /\ o.kind = "failed" => Record(o, r).class # "none"
<1>1. Classify(o.text) # "none"
  BY DEF Classify
<1>2. CASE o.kind = "ok"
  BY <1>2 DEF Record
<1>3. CASE o.kind = "failed"
  BY <1>1, <1>3 DEF Record
<1>4. CASE o.kind = "timedOut"
  BY <1>4 DEF Record
<1>5. QED
  BY <1>2, <1>3, <1>4

LEMMA OutcomesSettled ==
  ASSUME RecordsOK
  PROVE  /\ Len(outcomes) \in Nat /\ DOMAIN outcomes = 1 .. Len(outcomes)
         /\ Len(records) \in Nat /\ DOMAIN records = 1 .. Len(records)
         /\ \A k \in DOMAIN outcomes : outcomes[k] \in Feeds[feed].outcomes /\ outcomes[k].kind \in {"ok", "failed", "timedOut"}
         /\ \A k \in DOMAIN records : records[k].run \in Nat
<1>1. outcomes \in Seq(Feeds[feed].outcomes) /\ records \in Seq(IntentRecords) /\ feed \in DOMAIN Feeds
  BY DEF RecordsOK
<1>2. \A o \in Feeds[feed].outcomes : o.kind \in {"ok", "failed", "timedOut"}
  BY <1>1, FeedsAssumption
<1>3. \A x \in IntentRecords : x.run \in Nat
  BY <1>2, RecordFields DEF IntentRecords
<1>4. QED
  BY <1>1, <1>2, <1>3, FileDomain

\* The records of the run at hand are those behind b.
LEMMA OwnRecords ==
  ASSUME RecordsOK, NEW b \in 0 .. Len(records), Since(b)
  PROVE  /\ DOMAIN OfRun(records, run) = b + 1 .. Len(records)
         /\ \A k \in b + 1 .. Len(records) : OfRun(records, run)[k] = records[k]
         /\ Written = Len(records) - b
<1>1. Len(records) \in Nat /\ DOMAIN records = 1 .. Len(records)
  BY OutcomesSettled
<1>2. \A k \in DOMAIN records : records[k].run = run <=> k > b
  BY DEF Since
<1>3. {j \in DOMAIN records : records[j].run = run} = b + 1 .. Len(records)
  BY <1>1, <1>2
<1>4. DOMAIN OfRun(records, run) = b + 1 .. Len(records)
  BY <1>3 DEF OfRun
<1>5. Cardinality(b + 1 .. Len(records)) = Len(records) - b
  <2>1. b + 1 \in Int /\ Len(records) \in Int /\ b <= Len(records) /\ b \in Nat
    BY <1>1
  <2>2. Cardinality(b + 1 .. Len(records)) = IF b + 1 > Len(records) THEN 0 ELSE Len(records) - (b + 1) + 1
    BY <2>1, FS_Interval
  <2>3. QED
    BY <2>1, <2>2
<1>6. QED
  BY <1>3, <1>4, <1>5 DEF OfRun, Written

\* Outcomes and records of the same kind are as many.
LEMMA CountsAgree ==
  ASSUME RecordsOK, NEW b \in 0 .. Len(records), Since(b), Len(records) - b = Len(outcomes),
         NEW kind, NEW outcome,
         \A k \in DOMAIN outcomes : Record(outcomes[k], run).outcome = outcome <=> outcomes[k].kind = kind
  PROVE  Cardinality({k \in DOMAIN outcomes : outcomes[k].kind = kind})
           = Cardinality(Having(OfRun(records, run), outcome))
<1> DEFINE settled == {k \in DOMAIN outcomes : outcomes[k].kind = kind}
           shown == Having(OfRun(records, run), outcome)
           place == [k \in settled |-> b + k]
<1>1. /\ Len(outcomes) \in Nat /\ DOMAIN outcomes = 1 .. Len(outcomes)
      /\ Len(records) \in Nat /\ DOMAIN records = 1 .. Len(records)
  BY OutcomesSettled
<1>2. \A k \in 1 .. Len(outcomes) : records[b + k] = Record(outcomes[k], run)
  BY DEF Since
<1>3. /\ DOMAIN OfRun(records, run) = b + 1 .. Len(records)
      /\ \A k \in b + 1 .. Len(records) : OfRun(records, run)[k] = records[k]
  BY OwnRecords
<1>4. \A k \in b + 1 .. Len(records) : k - b \in 1 .. Len(outcomes) /\ b + (k - b) = k
  BY <1>1
<1>5. \A k \in 1 .. Len(outcomes) : b + k \in b + 1 .. Len(records)
  BY <1>1
<1>6. \A k \in b + 1 .. Len(records) : k \in shown <=> records[k].outcome = outcome
  BY <1>3 DEF Having
<1>7. shown \subseteq b + 1 .. Len(records)
  BY <1>3 DEF Having
<1>8. \A k \in 1 .. Len(outcomes) : b + k \in shown <=> k \in settled
  BY <1>1, <1>2, <1>5, <1>6
<1>9. IsFiniteSet(settled)
  <2>1. IsFiniteSet(1 .. Len(outcomes))
    BY <1>1, FS_Interval
  <2>2. settled \subseteq 1 .. Len(outcomes)
    BY <1>1
  <2>3. QED
    BY <2>1, <2>2, FS_Subset
<1>10. place \in Bijection(settled, shown)
  <2>1. settled \subseteq 1 .. Len(outcomes)
    BY <1>1
  <2> HIDE DEF settled, shown
  <2>2. place \in [settled -> shown]
    BY <1>8, <2>1
  <2>3. \A i, j \in settled : place[i] = place[j] => i = j
    BY <2>1
  <2>4. \A k \in shown : \E i \in settled : place[i] = k
    <3>1. ASSUME NEW k \in shown
          PROVE  k - b \in settled /\ place[k - b] = k
      <4>1. k - b \in 1 .. Len(outcomes) /\ b + (k - b) = k
        BY <1>4, <1>7
      <4>2. QED
        BY <1>8, <4>1
    <3>2. QED
      BY <3>1
  <2>5. QED
    BY <2>2, <2>3, <2>4 DEF Bijection, Injection, Surjection, IsInjective
<1>11. ExistsBijection(settled, shown)
  BY <1>10 DEF ExistsBijection
<1> HIDE DEF settled, shown, place
<1>12. Cardinality(settled) = Cardinality(shown)
  BY <1>9, <1>11, FS_Bijection
<1>13. QED
  BY <1>12 DEF settled, shown

LEMMA Finalised ==
  ASSUME NEW assertion, NEW succeeded \in BOOLEAN, WriteArtifacts(assertion, succeeded)
  PROVE  /\ stage' = "ended" /\ (summary' = {} => ~succeeded)
         /\ manifest' = [manifest EXCEPT ![run] = [assertion |-> assertion, marks |-> marks,
                                                   loaded |-> loaded, completed |-> {now}]]
BY DEF WriteArtifacts

\* A verdict on records that are all there is borne out by them.
LEMMA VerdictOfRecords ==
  ASSUME RecordsOK, NEW b \in 0 .. Len(records), Since(b), Len(records) - b = Len(outcomes)
  PROVE  BorneOut(Evaluate(Stats(outcomes), OfRun(records, run)), OfRun(records, run))
<1> DEFINE own == OfRun(records, run)
           failed == Having(own, "failed")
           pardoned == {k \in DOMAIN own : own[k].outcome = "failed" /\ own[k].class \in AllowedErrorClasses}
           counted == {k \in TerminalFailures(own) : own[k].class \notin AllowedErrorClasses}
<1>1. /\ Len(outcomes) \in Nat /\ DOMAIN outcomes = 1 .. Len(outcomes)
      /\ Len(records) \in Nat /\ DOMAIN records = 1 .. Len(records)
      /\ \A k \in DOMAIN outcomes : outcomes[k].kind \in {"ok", "failed", "timedOut"}
  BY OutcomesSettled
<1>2. \A k \in DOMAIN outcomes :
        /\ Record(outcomes[k], run).outcome = "confirmed" <=> outcomes[k].kind = "ok"
        /\ Record(outcomes[k], run).outcome = "failed" <=> outcomes[k].kind = "failed"
        /\ Record(outcomes[k], run).outcome = "timed_out" <=> outcomes[k].kind = "timedOut"
        /\ outcomes[k].kind = "failed" => Record(outcomes[k], run).class # "none"
  BY <1>1, RecordFields
<1>3. DOMAIN own = b + 1 .. Len(records) /\ \A k \in b + 1 .. Len(records) : own[k] = records[k]
  BY OwnRecords
<1>4. \A k \in 1 .. Len(outcomes) : records[b + k] = Record(outcomes[k], run)
  BY DEF Since
<1>5. Stats(outcomes).confirmed = Cardinality(Having(own, "confirmed"))
  <2>1. Cardinality({k \in DOMAIN outcomes : outcomes[k].kind = "ok"}) = Cardinality(Having(own, "confirmed"))
    BY <1>2, CountsAgree
  <2>2. QED
    BY <2>1 DEF Stats
<1>6. Stats(outcomes).timedOut = Cardinality(Having(own, "timed_out"))
  <2>1. Cardinality({k \in DOMAIN outcomes : outcomes[k].kind = "timedOut"}) = Cardinality(Having(own, "timed_out"))
    BY <1>2, CountsAgree
  <2>2. QED
    BY <2>1 DEF Stats
<1>7. IsFiniteSet(DOMAIN own)
  <2>1. IsFiniteSet(b + 1 .. Len(records))
    BY <1>1, FS_Interval
  <2>2. QED
    BY <1>3, <2>1
<1>8. \A k \in failed : own[k].class # "none"
  <2> SUFFICES ASSUME NEW k \in failed PROVE own[k].class # "none"
    OBVIOUS
  <2>1. k \in b + 1 .. Len(records) /\ own[k] = records[k] /\ own[k].outcome = "failed"
    BY <1>3 DEF Having
  <2>2. k - b \in 1 .. Len(outcomes) /\ b + (k - b) = k
    BY <1>1, <2>1
  <2>3. own[k] = Record(outcomes[k - b], run)
    BY <1>4, <2>1, <2>2
  <2>4. QED
    BY <1>1, <1>2, <2>1, <2>2, <2>3
<1>9. counted = failed \ pardoned /\ pardoned \subseteq failed
  BY <1>8 DEF TerminalFailures, Having
<1>10. /\ IsFiniteSet(failed) /\ IsFiniteSet(pardoned) /\ IsFiniteSet(counted)
       /\ IsFiniteSet(Having(own, "confirmed")) /\ IsFiniteSet(Having(own, "timed_out"))
  <2>1. /\ failed \subseteq DOMAIN own /\ pardoned \subseteq DOMAIN own /\ counted \subseteq DOMAIN own
        /\ Having(own, "confirmed") \subseteq DOMAIN own /\ Having(own, "timed_out") \subseteq DOMAIN own
    BY DEF Having, TerminalFailures
  <2> HIDE DEF own, failed, pardoned, counted
  <2>2. QED
    BY <1>7, <2>1, FS_Subset
<1>11. Cardinality(counted) = Cardinality(failed) - Cardinality(pardoned)
  <2>1. failed \cap pardoned = pardoned
    BY <1>9
  <2> HIDE DEF own, failed, pardoned, counted
  <2>2. Cardinality(failed \ pardoned) = Cardinality(failed) - Cardinality(failed \cap pardoned)
    BY <1>10, FS_Difference
  <2>3. QED
    BY <1>9, <2>1, <2>2
<1>12. Evaluate(Stats(outcomes), own) = {} <=> /\ ~(Stats(outcomes).confirmed < MinConfirmed)
                                              /\ ~(Cardinality(counted) > MaxTerminalFailures)
                                              /\ ~(Stats(outcomes).timedOut > MaxTimeouts)
  <2> HIDE DEF own
  <2>1. QED
    BY DEF Evaluate
<1>13. /\ Cardinality(counted) \in Nat /\ Cardinality(Having(own, "confirmed")) \in Nat
       /\ Cardinality(Having(own, "timed_out")) \in Nat
  <2> HIDE DEF own, failed, pardoned, counted
  <2>1. QED
    BY <1>10, FS_CardinalityType
<1>14. MinConfirmed \in Nat /\ MaxTerminalFailures \in Nat /\ MaxTimeouts \in Nat
  BY ExpectationsAssumption
<1>15. Evaluate(Stats(outcomes), own) = {} <=> /\ Cardinality(Having(own, "confirmed")) >= MinConfirmed
                                              /\ Cardinality(Having(own, "timed_out")) <= MaxTimeouts
                                              /\ Cardinality(failed) - Cardinality(pardoned) <= MaxTerminalFailures
  <2>1. (Stats(outcomes).confirmed < MinConfirmed) <=> ~(Cardinality(Having(own, "confirmed")) >= MinConfirmed)
    <3> HIDE DEF own
    <3>1. QED
      BY <1>5, <1>13, <1>14
  <2>2. (Stats(outcomes).timedOut > MaxTimeouts) <=> ~(Cardinality(Having(own, "timed_out")) <= MaxTimeouts)
    <3> HIDE DEF own
    <3>1. QED
      BY <1>6, <1>13, <1>14
  <2>3. (Cardinality(counted) > MaxTerminalFailures) <=> ~(Cardinality(failed) - Cardinality(pardoned) <= MaxTerminalFailures)
    <3> HIDE DEF failed, pardoned, counted
    <3>1. QED
      BY <1>11, <1>13, <1>14
  <2> HIDE DEF own, failed, pardoned, counted
  <2>4. QED
    BY <1>12, <2>1, <2>2, <2>3
<1>16. QED
  BY <1>15 DEF BorneOut

-----------------------------------------------------------------------------
(* The records, step by step. *)

\* What is appended or cut is of one run; the others keep their records.
LEMMA OthersKept ==
  ASSUME NEW file, NEW other, NEW r,
         \A k : (k \in DOMAIN other /\ other[k].run = r) <=> (k \in DOMAIN file /\ file[k].run = r),
         \A k : (k \in DOMAIN file /\ file[k].run = r) => other[k] = file[k]
  PROVE  OfRun(other, r) = OfRun(file, r)
BY DEF OfRun

\* Steps that settle, write and finalise nothing.
LEMMA QuietStep ==
  ASSUME RecordsInv, UNCHANGED <<feed, run, outcomes, records, manifest, summary>>,
         DOMAIN warnings' = DOMAIN warnings,
         stage' = "ended" <=> stage = "ended",
         stage' \notin Tallied => stage \notin Tallied,
         stage' \notin Workload \cup Tallied => stage \notin Workload \cup Tallied
  PROVE  RecordsInv'
<1>1. RecordsOK'
  BY DEF RecordsInv, RecordsOK, IntentRecords
<1>2. RunsApart'
  <2>1. PICK b \in 0 .. Len(records) : Since(b)
    BY DEF RecordsInv, RunsApart
  <2>2. Since(b)'
    BY <2>1 DEF Since
  <2>3. QED
    BY <2>2 DEF RunsApart
<1>3. VerdictsKept'
  BY DEF RecordsInv, VerdictsKept
<1>4. QED
  BY <1>1, <1>2, <1>3 DEF RecordsInv

LEMMA SettleStep ==
  ASSUME RecordsInv, NEW o \in Feeds[feed].outcomes, Settle(o)
  PROVE  RecordsInv'
<1>1. RecordsOK /\ VerdictsKept /\ \E b \in 0 .. Len(records) : Since(b)
  BY DEF RecordsInv, RunsApart
<1>2. /\ stage \in Workload /\ outcomes' = Append(outcomes, o)
      /\ UNCHANGED <<feed, run, stage, records, warnings, manifest, summary>>
  BY DEF Settle, fileVars
<1>3. outcomes \in Seq(Feeds[feed].outcomes)
  BY <1>1 DEF RecordsOK
<1>4. outcomes' \in Seq(Feeds[feed].outcomes) /\ Len(outcomes') \in Nat
  BY <1>2, <1>3, Appended, FileDomain
<1>5. RecordsOK'
  BY <1>1, <1>2, <1>4 DEF RecordsOK, IntentRecords
<1>6. RunsApart'
  <2>1. PICK b \in 0 .. Len(records) : Since(b)
    BY <1>1
  <2>2. stage \notin Tallied
    BY <1>2 DEF Workload, Tallied
  <2>3. b = Len(records) /\ Len(records) \in Nat
    BY <1>1, <2>1, <2>2, OutcomesSettled DEF Since
  <2>4. Len(records') - b = 0 /\ 1 .. Len(records') - b = {}
    BY <1>2, <2>3
  <2>5. Len(records') - b <= Len(outcomes')
    BY <1>4, <2>4
  <2>6. \A k \in DOMAIN records' : records'[k].run <= run' /\ (records'[k].run = run' <=> k > b)
    BY <1>2, <2>1 DEF Since
  <2>7. stage' \in Workload /\ stage' # "ended"
    BY <1>2 DEF Workload
  <2>8. Since(b)'
    BY <1>2, <2>3, <2>4, <2>5, <2>6, <2>7 DEF Since
  <2>9. QED
    BY <1>2, <2>1, <2>8 DEF RunsApart
<1>7. VerdictsKept'
  BY <1>1, <1>2 DEF VerdictsKept
<1>8. QED
  BY <1>5, <1>6, <1>7 DEF RecordsInv

LEMMA RecordStep ==
  ASSUME RecordsInv, RecordIntent
  PROVE  RecordsInv'
<1>1. RecordsOK /\ VerdictsKept /\ \E b \in 0 .. Len(records) : Since(b)
  BY DEF RecordsInv, RunsApart
<1>2. PICK b \in 0 .. Len(records) : Since(b)
  BY <1>1
<1> DEFINE record == Record(outcomes[Written + 1], run)
           last == Len(records) + 1
<1>3. /\ stage = "tally" /\ Written < Len(outcomes) /\ records' = Append(records, record)
      /\ UNCHANGED <<feed, run, stage, outcomes, warnings, manifest, summary>>
  BY DEF RecordIntent
<1>4. Written = Len(records) - b
  BY <1>1, <1>2, OwnRecords
<1>5. /\ Len(outcomes) \in Nat /\ DOMAIN outcomes = 1 .. Len(outcomes)
      /\ Len(records) \in Nat /\ DOMAIN records = 1 .. Len(records)
      /\ \A k \in DOMAIN outcomes : outcomes[k] \in Feeds[feed].outcomes /\ outcomes[k].kind \in {"ok", "failed", "timedOut"}
      /\ \A k \in DOMAIN records : records[k].run \in Nat
  BY <1>1, OutcomesSettled
<1>6. run \in Nat \ {0} /\ records \in Seq(IntentRecords) /\ DOMAIN manifest = 1 .. run
  BY <1>1 DEF RecordsOK
<1>7. Written + 1 \in 1 .. Len(outcomes)
  BY <1>3, <1>4, <1>5
<1>8. record.run = run
  BY <1>5, <1>7, RecordFields
<1>9. record \in IntentRecords
  BY <1>5, <1>6, <1>7 DEF IntentRecords
<1> HIDE DEF record
<1>10. /\ records' \in Seq(IntentRecords) /\ Len(records') = last /\ DOMAIN records' = 1 .. last
       /\ \A k \in 1 .. Len(records) : records'[k] = records[k]
       /\ records'[last] = record
  BY <1>3, <1>6, <1>9, Appended
<1>11. RecordsOK'
  BY <1>1, <1>3, <1>10 DEF RecordsOK, IntentRecords
<1>12. Since(b)'
  <2>1. \A k \in DOMAIN records' : records'[k].run <= run' /\ (records'[k].run = run' <=> k > b)
    <3> SUFFICES ASSUME NEW k \in 1 .. last
                 PROVE  records'[k].run <= run /\ (records'[k].run = run <=> k > b)
      BY <1>3, <1>10
    <3>1. CASE k = last
      BY <1>5, <1>6, <1>8, <1>10, <3>1
    <3>2. CASE k # last
      <4>1. k \in 1 .. Len(records) /\ k \in DOMAIN records
        BY <1>5, <3>2
      <4>2. QED
        BY <1>2, <1>10, <4>1 DEF Since
    <3>3. QED
      BY <3>1, <3>2
  <2>2. Len(records') - b <= Len(outcomes')
    BY <1>3, <1>4, <1>5, <1>10
  <2>3. \A k \in 1 .. Len(records') - b : records'[b + k] = Record(outcomes'[k], run')
    <3> SUFFICES ASSUME NEW k \in 1 .. last - b
                 PROVE  records'[b + k] = Record(outcomes[k], run)
      BY <1>3, <1>10
    <3>1. CASE k = Written + 1
      <4>1. b + k = last
        BY <1>4, <1>5, <3>1
      <4>2. QED
        BY <1>10, <3>1, <4>1 DEF record
    <3>2. CASE k # Written + 1
      <4>1. k \in 1 .. Len(records) - b /\ b + k \in 1 .. Len(records)
        BY <1>4, <1>5, <3>2
      <4>2. QED
        BY <1>2, <1>10, <4>1 DEF Since
    <3>3. QED
      BY <3>1, <3>2
  <2>4. stage' \in Tallied /\ stage' # "ended"
    BY <1>3 DEF Tallied
  <2>5. QED
    BY <2>1, <2>2, <2>3, <2>4 DEF Since
<1>13. RunsApart'
  <2>1. b \in 0 .. Len(records')
    BY <1>5, <1>10
  <2>2. QED
    BY <1>12, <2>1 DEF RunsApart
<1>14. VerdictsKept'
  <2>1. manifest[run] = NoManifest
    BY <1>1, <1>3 DEF VerdictsKept
  <2>2. ASSUME NEW r \in 1 .. run, r # run
        PROVE  OfRun(records', r) = OfRun(records, r)
    <3>1. \A k : (k \in 1 .. last /\ records'[k].run = r) <=> (k \in 1 .. Len(records) /\ records[k].run = r)
      <4>1. \A k : k \in 1 .. last <=> k \in 1 .. Len(records) \/ k = last
        BY <1>5
      <4>2. last \notin 1 .. Len(records)
        BY <1>5
      <4>3. QED
        BY <1>8, <1>10, <2>2, <4>1, <4>2
    <3>2. QED
      BY <1>5, <1>10, <3>1, OthersKept
  <2>3. manifest[run].assertion = {"none"}
    BY <2>1 DEF NoManifest
  <2>4. QED
    BY <1>1, <1>3, <2>2, <2>3 DEF VerdictsKept
<1>15. QED
  BY <1>11, <1>13, <1>14 DEF RecordsInv

LEMMA FinaliseStep ==
  ASSUME RecordsInv, Finalise
  PROVE  RecordsInv'
<1>1. RecordsOK /\ VerdictsKept /\ \E b \in 0 .. Len(records) : Since(b)
  BY DEF RecordsInv, RunsApart
<1>2. PICK b \in 0 .. Len(records) : Since(b)
  BY <1>1
<1>3. Len(outcomes) \in Nat /\ Len(records) \in Nat
  BY <1>1, OutcomesSettled
<1>4. UNCHANGED <<feed, run, outcomes, records, warnings>>
  BY DEF Finalise, fileVars
<1>5. run \in Nat \ {0} /\ DOMAIN manifest = 1 .. run
  BY <1>1 DEF RecordsOK
<1>6. PICK assertion :
        /\ stage' = "ended"
        /\ manifest' = [manifest EXCEPT ![run] = [assertion |-> assertion, marks |-> marks,
                                                  loaded |-> loaded, completed |-> {now}]]
        /\ summary' = {} => assertion = {"none"}
        /\ Len(records) - b = Len(outcomes)
        /\ assertion # {"none"} => BorneOut(assertion, OfRun(records, run))
  <2>1. CASE /\ stage = "tally" /\ Written = Len(outcomes)
             /\ WriteArtifacts(Evaluate(Stats(outcomes), OfRun(records, run)), TRUE)
    <3> DEFINE verdict == Evaluate(Stats(outcomes), OfRun(records, run))
    <3>1. Len(records) - b = Len(outcomes)
      BY <1>1, <1>2, <2>1, OwnRecords
    <3>2. BorneOut(verdict, OfRun(records, run))
      BY <1>1, <1>2, <3>1, VerdictOfRecords
    <3>3. WriteArtifacts(verdict, TRUE)
      BY <2>1
    <3> HIDE DEF verdict
    <3>4. /\ stage' = "ended" /\ (summary' = {} => ~TRUE)
          /\ manifest' = [manifest EXCEPT ![run] = [assertion |-> verdict, marks |-> marks,
                                                    loaded |-> loaded, completed |-> {now}]]
      BY <3>3, Finalised
    <3>5. QED
      BY <3>1, <3>2, <3>4
  <2>2. CASE stage \in {"aborted", "refused"} /\ WriteArtifacts({"none"}, FALSE)
    <3>1. stage \notin Workload \cup Tallied
      BY <2>2 DEF Workload, Tallied
    <3>2. b = Len(records) /\ Len(outcomes) = 0
      BY <1>2, <3>1 DEF Since
    <3>3. Len(records) - b = Len(outcomes)
      BY <1>3, <3>2
    <3>4. /\ stage' = "ended" /\ (summary' = {} => ~FALSE)
          /\ manifest' = [manifest EXCEPT ![run] = [assertion |-> {"none"}, marks |-> marks,
                                                    loaded |-> loaded, completed |-> {now}]]
      BY <2>2, Finalised
    <3>5. QED
      BY <3>3, <3>4
  <2>3. QED
    BY <2>1, <2>2 DEF Finalise
<1>7. DOMAIN manifest' = 1 .. run
  BY <1>5, <1>6
<1>8. RecordsOK'
  BY <1>1, <1>4, <1>7 DEF RecordsOK, IntentRecords
<1>9. RunsApart'
  <2>1. stage' \in Tallied
    BY <1>6 DEF Tallied
  <2>2. Since(b)'
    BY <1>2, <1>4, <1>6, <2>1 DEF Since
  <2>3. QED
    BY <1>2, <1>4, <2>2 DEF RunsApart
<1>10. VerdictsKept'
  <2>1. manifest'[run].assertion = assertion
    BY <1>5, <1>6
  <2>2. \A r \in 1 .. run : r # run => manifest'[r] = manifest[r]
    BY <1>5, <1>6
  <2>3. summary' = {} => manifest'[run'].assertion = {"none"}
    BY <1>4, <1>6, <2>1
  <2>4. ASSUME NEW r \in 1 .. run, manifest'[r].assertion # {"none"}
        PROVE  BorneOut(manifest'[r].assertion, OfRun(records, r))
    <3>1. CASE r = run
      BY <1>6, <2>1, <2>4, <3>1
    <3>2. CASE r # run
      BY <1>1, <2>2, <2>4, <3>2 DEF VerdictsKept
    <3>3. QED
      BY <3>1, <3>2
  <2>5. QED
    BY <1>4, <1>6, <2>3, <2>4 DEF VerdictsKept
<1>11. QED
  BY <1>8, <1>9, <1>10 DEF RecordsInv

LEMMA KillStep ==
  ASSUME RecordsInv, Kill
  PROVE  RecordsInv'
<1>1. RecordsOK /\ VerdictsKept /\ \E b \in 0 .. Len(records) : Since(b)
  BY DEF RecordsInv, RunsApart
<1>2. PICK b \in 0 .. Len(records) : Since(b)
  BY <1>1
<1>3. stage # "ended" /\ stage' = "killed" /\ UNCHANGED <<feed, run, outcomes, manifest, summary>>
  BY DEF Kill, Ended
<1>4. DOMAIN warnings' = DOMAIN warnings
  BY DEF Kill
<1>5. CASE records' = records
  BY <1>3, <1>4, <1>5, QuietStep DEF Tallied, Workload
<1>6. CASE LastOfRun(records) /\ records' = ButLast(records)
  <2>1. /\ run \in Nat \ {0} /\ records \in Seq(IntentRecords) /\ records # <<>> /\ records[Len(records)].run = run
        /\ DOMAIN manifest = 1 .. run
    BY <1>1, <1>6 DEF RecordsOK, LastOfRun
  <2>2. /\ records' \in Seq(IntentRecords) /\ Len(records') = Len(records) - 1 /\ Len(records) >= 1
        /\ DOMAIN records' = 1 .. Len(records) - 1
        /\ \A k \in 1 .. Len(records) - 1 : records'[k] = records[k]
    BY <1>6, <2>1, Cut
  <2>3. Len(records) \in Nat /\ DOMAIN records = 1 .. Len(records) /\ Len(outcomes) \in Nat
    BY <1>1, OutcomesSettled
  <2>4. RecordsOK'
    BY <1>1, <1>3, <1>4, <2>2 DEF RecordsOK, IntentRecords
  <2>5. Len(records) > b
    <3>1. Len(records) \in DOMAIN records
      BY <2>2, <2>3
    <3>2. QED
      BY <1>2, <2>1, <3>1 DEF Since
  <2>6. Since(b)'
    <3>1. \A k \in 1 .. Len(records) - 1 : records'[k].run <= run /\ (records'[k].run = run <=> k > b)
      <4>1. \A k \in 1 .. Len(records) - 1 : k \in DOMAIN records
        BY <2>3
      <4>2. QED
        BY <1>2, <2>2, <4>1 DEF Since
    <3>2. Len(records') - b <= Len(outcomes)
      <4>1. Len(records) - b <= Len(outcomes)
        BY <1>2 DEF Since
      <4>2. QED
        BY <2>2, <2>3, <4>1
    <3>3. \A k \in 1 .. Len(records') - b : records'[b + k] = Record(outcomes[k], run)
      <4> SUFFICES ASSUME NEW k \in 1 .. Len(records') - b
                   PROVE  records'[b + k] = Record(outcomes[k], run)
        OBVIOUS
      <4>1. k \in 1 .. Len(records) - b /\ b + k \in 1 .. Len(records) - 1
        BY <2>2, <2>3, <2>5
      <4>2. QED
        BY <1>2, <2>2, <4>1 DEF Since
    <3>4. stage' \in Tallied /\ stage' # "ended"
      BY <1>3 DEF Tallied
    <3>5. QED
      BY <1>3, <2>2, <3>1, <3>2, <3>3, <3>4 DEF Since
  <2>7. RunsApart'
    <3>1. b \in 0 .. Len(records')
      BY <2>2, <2>3, <2>5
    <3>2. QED
      BY <2>6, <3>1 DEF RunsApart
  <2>8. VerdictsKept'
    <3>1. manifest[run] = NoManifest
      BY <1>1, <1>3 DEF VerdictsKept
    <3>2. ASSUME NEW r \in 1 .. run, r # run
          PROVE  OfRun(records', r) = OfRun(records, r)
      <4>1. \A k : k \in 1 .. Len(records) <=> k \in 1 .. Len(records) - 1 \/ k = Len(records)
        BY <2>2, <2>3
      <4>2. \A k : (k \in 1 .. Len(records) - 1 /\ records'[k].run = r) <=> (k \in 1 .. Len(records) /\ records[k].run = r)
        BY <2>1, <2>2, <3>2, <4>1
      <4>3. \A k : (k \in 1 .. Len(records) /\ records[k].run = r) => records'[k] = records[k]
        BY <2>1, <2>2, <3>2, <4>1
      <4>4. QED
        BY <2>2, <2>3, <4>2, <4>3, OthersKept
    <3>3. manifest[run].assertion = {"none"}
      BY <3>1 DEF NoManifest
    <3>4. QED
      BY <1>1, <1>3, <3>1, <3>2, <3>3 DEF VerdictsKept
  <2>9. QED
    BY <2>4, <2>7, <2>8 DEF RecordsInv
<1>7. QED
  BY <1>5, <1>6 DEF Kill

LEMMA NextRunStep ==
  ASSUME RecordsInv, NextRun
  PROVE  RecordsInv'
<1>1. RecordsOK /\ VerdictsKept /\ \E b \in 0 .. Len(records) : Since(b)
  BY DEF RecordsInv, RunsApart
<1>2. PICK b \in 0 .. Len(records) : Since(b)
  BY <1>1
<1>3. /\ run' = run + 1 /\ stage' = "bootstrap" /\ outcomes' = <<>> /\ summary' = {}
      /\ warnings' = [r \in 1 .. run + 1 |-> IF r \in DOMAIN warnings THEN warnings[r] ELSE 0]
      /\ manifest' = [r \in 1 .. run + 1 |-> IF r \in DOMAIN manifest THEN manifest[r] ELSE NoManifest]
      /\ feed' = feed /\ records' = records
  BY DEF NextRun, fileVars
<1>4. run \in Nat \ {0} /\ records \in Seq(IntentRecords) /\ DOMAIN manifest = 1 .. run /\ feed \in DOMAIN Feeds
  BY <1>1 DEF RecordsOK
<1>5. Len(records) \in Nat /\ DOMAIN records = 1 .. Len(records) /\ \A k \in DOMAIN records : records[k].run \in Nat
  BY <1>1, OutcomesSettled
<1>6. outcomes' \in Seq(Feeds[feed].outcomes) /\ Len(outcomes') = 0
  BY <1>3
<1>7. run' \in Nat \ {0} /\ DOMAIN warnings' = 1 .. run' /\ DOMAIN manifest' = 1 .. run'
  BY <1>3, <1>4
<1>8. RecordsOK'
  BY <1>3, <1>4, <1>6, <1>7 DEF RecordsOK, IntentRecords
<1>9. RunsApart'
  <2> DEFINE all == Len(records)
  <2>1. \A k \in DOMAIN records : records[k].run <= run
    BY <1>2 DEF Since
  <2>2. \A k \in DOMAIN records : records[k].run <= run + 1 /\ records[k].run # run + 1 /\ ~(k > all)
    BY <1>4, <1>5, <2>1
  <2>3. all - all = 0 /\ 1 .. all - all = {}
    BY <1>5
  <2>4. stage' \notin Workload \cup Tallied /\ stage' # "ended"
    BY <1>3 DEF Workload, Tallied
  <2>5. Since(all)'
    BY <1>3, <1>6, <2>2, <2>3, <2>4 DEF Since
  <2>6. all \in 0 .. Len(records')
    BY <1>3, <1>5
  <2>7. \E c \in 0 .. Len(records') : Since(c)'
    BY <2>5, <2>6
  <2>8. QED
    BY <2>7 DEF RunsApart
<1>10. VerdictsKept'
  <2>1. manifest'[run'] = NoManifest /\ \A r \in 1 .. run : manifest'[r] = manifest[r]
    BY <1>3, <1>4
  <2>2. manifest'[run'].assertion = {"none"}
    BY <2>1 DEF NoManifest
  <2>3. ASSUME NEW r \in 1 .. run', manifest'[r].assertion # {"none"}
        PROVE  BorneOut(manifest'[r].assertion, OfRun(records, r))
    <3>1. r # run'
      BY <2>2, <2>3
    <3>2. r \in 1 .. run
      BY <1>3, <1>4, <3>1
    <3>3. QED
      BY <1>1, <2>1, <2>3, <3>2 DEF VerdictsKept
  <2>4. QED
    BY <1>3, <2>1, <2>2, <2>3 DEF VerdictsKept
<1>11. QED
  BY <1>8, <1>9, <1>10 DEF RecordsInv

LEMMA RecordsStep ==
  ASSUME RecordsInv, [Next]_vars
  PROVE  RecordsInv'
<1>1. CASE Mark
  <2>1. /\ UNCHANGED <<feed, run, outcomes, records, warnings, manifest, summary>>
        /\ stage \in DOMAIN PhaseAfter /\ stage' = PhaseAfter[stage]
    BY <1>1 DEF Mark, fileVars
  <2>2. \/ stage = "bootstrap" /\ stage' = "readiness"
        \/ stage = "readiness" /\ stage' = "warmup"
        \/ stage = "warmup" /\ stage' = "funding"
        \/ stage = "funding" /\ stage' = "load"
        \/ stage = "load" /\ stage' = "drain"
    BY <2>1 DEF PhaseAfter
  <2>3. QED
    BY <2>1, <2>2, QuietStep DEF Tallied, Workload
<1>2. CASE Tick
  BY <1>2, QuietStep DEF Tick, fileVars
<1>3. CASE AbortSetup
  <2>1. /\ UNCHANGED <<feed, run, outcomes, records, warnings, manifest, summary>>
        /\ stage \in Setup /\ stage' = "aborted"
    BY <1>3 DEF AbortSetup, fileVars
  <2>2. QED
    BY <2>1, QuietStep DEF Setup, Tallied, Workload
<1>4. CASE RefuseLoad
  <2>1. /\ UNCHANGED <<feed, run, outcomes, records, warnings, manifest, summary>>
        /\ stage = "funding" /\ stage' = "refused"
    BY <1>4 DEF RefuseLoad, fileVars
  <2>2. QED
    BY <2>1, QuietStep DEF Tallied, Workload
<1>5. CASE \E c \in Feeds[feed].calls : RecordCall(c)
  BY <1>5, QuietStep DEF RecordCall
<1>6. CASE \E m \in Feeds[feed].samples : RecordMetric(m)
  BY <1>6, QuietStep DEF RecordMetric
<1>7. CASE \E o \in Feeds[feed].outcomes : Settle(o)
  BY <1>7, SettleStep
<1>8. CASE EndLoad
  <2>1. /\ UNCHANGED <<feed, run, outcomes, records, warnings, manifest, summary>>
        /\ stage = "drain" /\ stage' = "tally"
    BY <1>8 DEF EndLoad
  <2>2. QED
    BY <2>1, QuietStep DEF Tallied, Workload
<1>9. CASE RecordIntent
  BY <1>9, RecordStep
<1>10. CASE Finalise
  BY <1>10, FinaliseStep
<1>11. CASE Kill
  BY <1>11, KillStep
<1>12. CASE NextRun
  BY <1>12, NextRunStep
<1>13. CASE UNCHANGED vars
  BY <1>13, QuietStep DEF vars, fileVars
<1>14. QED
  BY <1>1, <1>2, <1>3, <1>4, <1>5, <1>6, <1>7, <1>8, <1>9, <1>10, <1>11, <1>12, <1>13 DEF Next

-----------------------------------------------------------------------------
(* The invariant, and what it gives. *)

LEMMA InitIInv == Init => IInv
<1> SUFFICES ASSUME Init PROVE IInv
  OBVIOUS
<1>1. /\ feed \in DOMAIN Feeds /\ run = 1 /\ stage = "bootstrap" /\ summary = {}
      /\ outcomes = <<>> /\ calls = <<>> /\ records = <<>>
      /\ warnings = [r \in {1} |-> 0] /\ manifest = [r \in {1} |-> NoManifest]
  BY DEF Init
<1>2. CallsInv
  BY <1>1 DEF CallsInv, NumberedIn, LeggedIn
<1>3. RecordsOK
  BY <1>1 DEF RecordsOK
<1>4. RunsApart
  <2>1. Since(0)
    BY <1>1 DEF Since, Workload, Tallied
  <2>2. QED
    BY <1>1, <2>1 DEF RunsApart
<1>5. VerdictsKept
  <2>1. manifest[1] = NoManifest /\ NoManifest.assertion = {"none"} /\ 1 .. run = {1}
    BY <1>1 DEF NoManifest
  <2>2. QED
    BY <1>1, <2>1 DEF VerdictsKept
<1>6. QED
  BY <1>2, <1>3, <1>4, <1>5 DEF IInv, RecordsInv

\* What is shown of a run is what was settled, and bears out its verdict.
LEMMA VerdictShown == RecordsInv => VerdictIsOfTheReport
<1> SUFFICES ASSUME RecordsInv PROVE VerdictIsOfTheReport
  OBVIOUS
<1>1. RecordsOK /\ VerdictsKept /\ \E b \in 0 .. Len(records) : Since(b)
  BY DEF RecordsInv, RunsApart
<1>2. PICK b \in 0 .. Len(records) : Since(b)
  BY <1>1
<1>3. DOMAIN warnings = 1 .. run /\ DOMAIN manifest = 1 .. run /\ run \in Nat \ {0} /\ run \in 1 .. run
  BY <1>1 DEF RecordsOK
<1>4. \A r \in 1 .. run : LoadResults(records, Runs)[r] = Tally(OfRun(records, r))
  BY <1>3 DEF LoadResults, Runs
<1>5. stage = "ended" => LoadResults(records, Runs)[run].attempted = Len(outcomes)
  <2> SUFFICES ASSUME stage = "ended" PROVE LoadResults(records, Runs)[run].attempted = Len(outcomes)
    OBVIOUS
  <2>1. Len(records) - b = Len(outcomes)
    BY <1>2 DEF Since
  <2>2. Written = Len(records) - b
    BY <1>1, <1>2, OwnRecords
  <2>3. Tally(OfRun(records, run)).attempted = Written
    BY DEF Tally, Written
  <2>4. QED
    BY <1>3, <1>4, <2>1, <2>2, <2>3
<1>6. ASSUME NEW r \in DOMAIN manifest, manifest[r].assertion # {"none"}
      PROVE  manifest[r].assertion = {} <=>
               /\ LoadResults(records, Runs)[r].confirmed >= MinConfirmed
               /\ LoadResults(records, Runs)[r].timedOut <= MaxTimeouts
               /\ LoadResults(records, Runs)[r].failed - Cardinality(Pardoned(r)) <= MaxTerminalFailures
  <2> DEFINE own == OfRun(records, r)
  <2>1. BorneOut(manifest[r].assertion, own)
    BY <1>1, <1>3, <1>6 DEF VerdictsKept
  <2>2. /\ LoadResults(records, Runs)[r].confirmed = Cardinality(Having(own, "confirmed"))
        /\ LoadResults(records, Runs)[r].timedOut = Cardinality(Having(own, "timed_out"))
        /\ LoadResults(records, Runs)[r].failed = Cardinality(Having(own, "failed"))
    <3>1. LoadResults(records, Runs)[r] = Tally(own)
      BY <1>3, <1>4, <1>6
    <3> HIDE DEF own
    <3>2. QED
      BY <3>1 DEF Tally
  <2>3. Pardoned(r) = {k \in DOMAIN own : own[k].outcome = "failed" /\ own[k].class \in AllowedErrorClasses}
    BY DEF Pardoned
  <2> HIDE DEF own
  <2>4. QED
    BY <2>1, <2>2, <2>3 DEF BorneOut
<1>7. summary = {} => manifest[run].assertion = {"none"}
  BY <1>1 DEF VerdictsKept
<1>8. warnings[run] > 0 => \E f \in CompletenessFindings(warnings) : f.run = run
  <2> SUFFICES ASSUME warnings[run] > 0 PROVE \E f \in CompletenessFindings(warnings) : f.run = run
    OBVIOUS
  <2> DEFINE finding == [category |-> "DataCompleteness", run |-> run, severity |-> "Low"]
  <2>1. run \in DOMAIN warnings
    BY <1>3
  <2>2. finding \in CompletenessFindings(warnings)
    BY <2>1 DEF CompletenessFindings
  <2>3. finding.run = run
    OBVIOUS
  <2>4. QED
    BY <2>2, <2>3
<1>9. QED
  BY <1>5, <1>6, <1>7, <1>8 DEF VerdictIsOfTheReport

\* The file of calls numbers the attempts of each sequence of retries in their order and has a
\* second sequence only of an intent of two legs, after its sweep, the file of intents holds
\* what was settled in its order and run by run, and each verdict is of the records of its run: of JsonlRecorder's appends, record_load_outcomes and finalize_run_artifacts.
THEOREM Invariance == Spec => []IInv
<1>1. Init => IInv
  BY InitIInv
<1>2. IInv /\ [Next]_vars => IInv'
  BY CallsStep, RecordsStep DEF IInv
<1>3. QED
  BY <1>1, <1>2, PTL DEF Spec

\* The report's findings of failures are the methods with a call of no intent that failed or
\* an intent that failed in its last attempt, outside setup and in any run, but for payouts
\* behind a sweep that took as many attempts: only those representative_calls hides.
THEOREM FailureSafety == Spec => []FailuresAreReported
<1>1. IInv => FailuresAreReported
  BY FailuresReported DEF IInv
<1>2. QED
  BY <1>1, Invariance, PTL

\* A slow method is reported once, as tailed or as slow.
THEOREM SlowSafety == Spec => []SlowReportedOnce
<1>1. IInv => SlowReportedOnce
  BY SlowOnce
<1>2. QED
  BY <1>1, Invariance, PTL

\* The intents shown of a run are those it settled and bear out the verdict in its manifest.
THEOREM VerdictSafety == Spec => []VerdictIsOfTheReport
<1>1. IInv => VerdictIsOfTheReport
  BY VerdictShown DEF IInv
<1>2. QED
  BY <1>1, Invariance, PTL

-----------------------------------------------------------------------------
(* Sums, of numbers that are counts. *)

\* As many pairs as the numbers amount to.
Shares(v, s) == UNION {{x} \X (1 .. v[x]) : x \in s}

LEMMA SharesAreFinite ==
  ASSUME NEW s, IsFiniteSet(s), NEW v, \A x \in s : v[x] \in Nat
  PROVE  IsFiniteSet(Shares(v, s)) /\ Cardinality(Shares(v, s)) \in Nat
<1> DEFINE all == {{x} \X (1 .. v[x]) : x \in s}
           share == [x \in s |-> {x} \X (1 .. v[x])]
<1>1. share \in Surjection(s, all)
  BY DEF Surjection
<1>2. ASSUME NEW T \in all
      PROVE  IsFiniteSet(T)
  <2>1. PICK x \in s : T = {x} \X (1 .. v[x])
    OBVIOUS
  <2>2. v[x] \in Nat /\ 1 \in Int /\ v[x] \in Int
    OBVIOUS
  <2>3. IsFiniteSet({x}) /\ IsFiniteSet(1 .. v[x])
    BY <2>2, FS_Singleton, FS_Interval
  <2>4. QED
    BY <2>1, <2>3, FS_Product
<1> HIDE DEF share, all
<1>3. IsFiniteSet(all)
  BY <1>1, FS_Surjection
<1>4. IsFiniteSet(UNION all)
  BY <1>2, <1>3, FS_UNION
<1>5. IsFiniteSet(Shares(v, s))
  BY <1>4 DEF Shares, all
<1>6. QED
  BY <1>5, FS_CardinalityType

LEMMA SharesSplit ==
  ASSUME NEW s, IsFiniteSet(s), NEW v, \A x \in s : v[x] \in Nat, NEW x \in s
  PROVE  Cardinality(Shares(v, s)) = v[x] + Cardinality(Shares(v, s \ {x}))
<1> DEFINE rest == Shares(v, s \ {x})
           own == {x} \X (1 .. v[x])
<1>1. IsFiniteSet(rest) /\ Cardinality(rest) \in Nat
  <2>1. IsFiniteSet(s \ {x}) /\ \A y \in s \ {x} : v[y] \in Nat
    BY FS_RemoveElement
  <2>2. QED
    BY <2>1, SharesAreFinite
<1>2. IsFiniteSet(own) /\ Cardinality(own) = v[x]
  <2>1. v[x] \in Nat /\ v[x] \in Int /\ 1 \in Int
    OBVIOUS
  <2>2. IsFiniteSet({x}) /\ Cardinality({x}) = 1
    BY FS_Singleton
  <2>3. IsFiniteSet(1 .. v[x]) /\ Cardinality(1 .. v[x]) = v[x]
    <3>1. /\ IsFiniteSet(1 .. v[x])
          /\ Cardinality(1 .. v[x]) = IF 1 > v[x] THEN 0 ELSE v[x] - 1 + 1
      BY <2>1, FS_Interval
    <3>2. QED
      BY <2>1, <3>1
  <2>4. IsFiniteSet(own) /\ Cardinality(own) = 1 * v[x]
    BY <2>2, <2>3, FS_Product
  <2>5. QED
    BY <2>1, <2>4
<1>3. Shares(v, s) = own \cup rest /\ own \cap rest = {}
  BY DEF Shares
<1> HIDE DEF own, rest
<1>4. Cardinality(own \cup rest) = Cardinality(own) + Cardinality(rest) - Cardinality(own \cap rest)
  BY <1>1, <1>2, FS_Union
<1>5. Cardinality(own \cap rest) = 0
  BY <1>3, FS_EmptySet
<1>6. v[x] \in Nat
  OBVIOUS
<1>7. Cardinality(own \cup rest) = v[x] + Cardinality(rest)
  BY <1>1, <1>2, <1>4, <1>5, <1>6
<1>8. QED
  BY <1>3, <1>7 DEF rest

\* Of finite sets that are not all good there is one that is bad with every smaller one good.
LEMMA SmallestSet ==
  ASSUME NEW S, IsFiniteSet(S), NEW Bad, Bad \subseteq SUBSET S, Bad # {}
  PROVE  \E s \in Bad : \A y \in s : s \ {y} \notin Bad
<1> DEFINE Sizes == {Cardinality(s) : s \in Bad}
<1>1. \A s \in Bad : IsFiniteSet(s) /\ Cardinality(s) \in Nat
  BY FS_Subset, FS_CardinalityType
<1>2. Sizes \subseteq Nat /\ Sizes # {}
  BY <1>1
<1>3. PICK n \in Sizes : \A m \in Sizes : <<m, n>> \notin OpToRel(<, Nat)
  <2>1. IsWellFoundedOn(OpToRel(<, Nat), Nat)
    BY NatLessThanWellFounded
  <2> HIDE DEF Sizes
  <2>2. QED
    BY <1>2, <2>1, WFMin
<1>4. PICK s \in Bad : n = Cardinality(s)
  BY <1>3
<1>5. ASSUME NEW y \in s
      PROVE  s \ {y} \notin Bad
  <2>1. Cardinality(s \ {y}) = n - 1
    BY <1>1, <1>4, FS_RemoveElement
  <2>2. IsFiniteSet(s \ {y})
    BY <1>1, <1>4, FS_RemoveElement
  <2>3. Cardinality(s \ {y}) \in Nat
    BY <2>2, FS_CardinalityType
  <2>4. n \in Nat /\ n - 1 \in Nat
    BY <1>1, <1>4, <2>1, <2>3
  <2>5. <<n - 1, n>> \in OpToRel(<, Nat)
    BY <2>4 DEF OpToRel
  <2>6. n - 1 \notin Sizes
    BY <1>3, <2>5
  <2>7. QED
    BY <2>1, <2>6
<1>6. QED
  BY <1>5

\* A sum is whatever adds one number at a time, whichever way the fold goes through them.
LEMMA SumDetermined ==
  ASSUME NEW v, IsFiniteSet(DOMAIN v), NEW count, count[{}] = 0,
         \A s \in SUBSET DOMAIN v : \A y \in s : count[s] = v[y] + count[s \ {y}]
  PROVE  SumOf(v) = count[DOMAIN v]
<1> DEFINE S == DOMAIN v
           x(s) == CHOOSE y \in s : TRUE
           Folds(g) == g = [s \in SUBSET S |-> IF s = {} THEN 0 ELSE v[x(s)] + g[s \ {x(s)}]]
           iter == CHOOSE g : Folds(g)
           sum == [s \in SUBSET S |-> count[s]]
<1>1. SumOf(v) = iter[S]
  BY DEF SumOf, Sets!MapThenSumSet, Sets!MapThenFoldSet
<1>2. \A s \in SUBSET S : s # {} => x(s) \in s
  OBVIOUS
<1>0. IsFiniteSet(S) /\ \A s \in SUBSET S : \A y \in s : count[s] = v[y] + count[s \ {y}]
  OBVIOUS
<1> HIDE DEF x, S
<1>3. ASSUME NEW s \in SUBSET S
      PROVE  sum[s] = IF s = {} THEN 0 ELSE v[x(s)] + sum[s \ {x(s)}]
  <2>1. CASE s = {}
    BY <2>1
  <2>2. CASE s # {}
    <3>1. x(s) \in s
      BY <1>2, <2>2
    <3>2. s \ {x(s)} \in SUBSET S
      OBVIOUS
    <3>3. QED
      BY <1>0, <2>2, <3>1, <3>2
  <2>3. QED
    BY <2>1, <2>2
<1>4. Folds(sum)
  <2>1. sum = [s \in SUBSET S |-> sum[s]]
    OBVIOUS
  <2> HIDE DEF sum
  <2>2. QED
    BY <1>3, <2>1
<1>5. Folds(iter)
  <2> HIDE DEF Folds, sum
  <2>1. \E g : Folds(g)
    BY <1>4
  <2>2. QED
    BY <2>1
<1>6. ASSUME NEW s \in SUBSET S
      PROVE  iter[s] = IF s = {} THEN 0 ELSE v[x(s)] + iter[s \ {x(s)}]
  <2> HIDE DEF iter
  <2>1. QED
    BY <1>5
<1> HIDE DEF iter
<1> DEFINE Bad == {s \in SUBSET S : iter[s] # sum[s]}
<1>7. Bad = {}
  <2> SUFFICES ASSUME Bad # {}
               PROVE  FALSE
    OBVIOUS
  <2>1. PICK s \in Bad : \A y \in s : s \ {y} \notin Bad
    <3>1. Bad \subseteq SUBSET S
      OBVIOUS
    <3> HIDE DEF Bad
    <3>2. QED
      BY <1>0, <3>1, SmallestSet
  <2> HIDE DEF sum
  <2>2. s \in SUBSET S /\ s # {}
    BY <1>3, <1>6
  <2>3. x(s) \in s /\ s \ {x(s)} \in SUBSET S
    BY <1>2, <2>2
  <2>4. iter[s \ {x(s)}] = sum[s \ {x(s)}]
    BY <2>1, <2>3
  <2>5. QED
    BY <1>3, <1>6, <2>2, <2>4
<1>8. iter[S] = sum[S]
  BY <1>7
<1>9. QED
  BY <1>1, <1>8 DEF S

\* A sum of numbers is the number of their shares.
LEMMA SumIsCount ==
  ASSUME NEW v, IsFiniteSet(DOMAIN v), \A y \in DOMAIN v : v[y] \in Nat
  PROVE  SumOf(v) = Cardinality(Shares(v, DOMAIN v))
<1> DEFINE count == [s \in SUBSET DOMAIN v |-> Cardinality(Shares(v, s))]
<1>1. count[{}] = 0
  <2>1. Shares(v, {}) = {}
    BY DEF Shares
  <2>2. QED
    BY <2>1, FS_EmptySet
<1>2. ASSUME NEW s \in SUBSET DOMAIN v, NEW y \in s
      PROVE  count[s] = v[y] + count[s \ {y}]
  <2>1. IsFiniteSet(s) /\ \A z \in s : v[z] \in Nat
    BY FS_Subset
  <2>2. Cardinality(Shares(v, s)) = v[y] + Cardinality(Shares(v, s \ {y}))
    BY <2>1, SharesSplit
  <2>3. QED
    BY <2>2
<1>3. count[DOMAIN v] = Cardinality(Shares(v, DOMAIN v))
  OBVIOUS
<1> HIDE DEF count
<1>4. QED
  BY <1>1, <1>2, <1>3, SumDetermined

\* What is counted key by key adds up to what has one of the keys.
LEMMA SumOfFibers ==
  ASSUME NEW S, IsFiniteSet(S), NEW key, NEW v, IsFiniteSet(DOMAIN v),
         \A y \in DOMAIN v : v[y] = Cardinality({k \in S : key[k] = y})
  PROVE  SumOf(v) = Cardinality({k \in S : key[k] \in DOMAIN v})
<1> DEFINE With(s) == {k \in S : key[k] \in s}
           count == [s \in SUBSET DOMAIN v |-> Cardinality(With(s))]
<1>1. count[{}] = 0
  <2>1. With({}) = {}
    OBVIOUS
  <2>2. QED
    BY <2>1, FS_EmptySet
<1>2. ASSUME NEW s \in SUBSET DOMAIN v, NEW y \in s
      PROVE  count[s] = v[y] + count[s \ {y}]
  <2> DEFINE own == {k \in S : key[k] = y}
             rest == With(s \ {y})
  <2>1. IsFiniteSet(own) /\ IsFiniteSet(rest)
    BY FS_Subset
  <2>2. With(s) = own \cup rest /\ own \cap rest = {}
    OBVIOUS
  <2>3. v[y] = Cardinality(own) /\ count[s] = Cardinality(With(s)) /\ count[s \ {y}] = Cardinality(rest)
    OBVIOUS
  <2> HIDE DEF own, rest, With, count
  <2>4. Cardinality(own \cup rest) = Cardinality(own) + Cardinality(rest) - Cardinality(own \cap rest)
    BY <2>1, FS_Union
  <2>5. Cardinality(own) \in Nat /\ Cardinality(rest) \in Nat
    BY <2>1, FS_CardinalityType
  <2>6. Cardinality(own \cap rest) = 0
    BY <2>2, FS_EmptySet
  <2>7. QED
    BY <2>2, <2>3, <2>4, <2>5, <2>6
<1>3. count[DOMAIN v] = Cardinality(With(DOMAIN v))
  OBVIOUS
<1> HIDE DEF count
<1>4. SumOf(v) = Cardinality(With(DOMAIN v))
  BY <1>1, <1>2, <1>3, SumDetermined
<1>5. QED
  BY <1>4

-----------------------------------------------------------------------------
(* The times of a run. *)

\* Every difference of times is cut to whole units; what is lost is less than one each.
LEMMA CutTimes ==
  ASSUME NEW d \in Nat
  PROVE  /\ d \div Second \in Nat /\ (d \div Second) * Second <= d
         /\ d < (d \div Second) * Second + Second
<1>1. Second \in Nat /\ Second >= 1
  BY SecondAssumption
<1> DEFINE q == d \div Second
           r == d % Second
<1>2. q \in Int /\ r \in 0 .. Second - 1 /\ d = Second * q + r
  BY <1>1
<1> HIDE DEF q, r
<1>3. q * Second = d - r /\ q * Second \in Int
  BY <1>1, <1>2
<1>4. q >= 0
  <2>1. CASE q <= -1
    <3>1. q * Second <= -1 * Second
      BY <1>1, <1>2, <2>1
    <3>2. QED
      BY <1>1, <1>2, <1>3, <3>1
  <2>2. QED
    BY <1>2, <2>1
<1>5. QED
  BY <1>1, <1>2, <1>3, <1>4 DEF q

LEMMA BoundsAdd ==
  ASSUME NEW s \in Nat, NEW t \in Nat, NEW u \in Nat, NEW x \in Nat, NEW y \in Nat, NEW z \in Int,
         NEW e \in Nat, x <= t - s, t - s < x + z, y <= u - t, u - t < y + e
  PROVE  x + y <= u - s /\ u - s < (x + z) + (y + e)
OBVIOUS

LEMMA IntervalLess ==
  ASSUME NEW k \in Int
  PROVE  (1 .. k) \ {k} = 1 .. k - 1
<1>1. \A j \in (1 .. k) \ {k} : j \in 1 .. k - 1
  OBVIOUS
<1>2. \A j \in 1 .. k - 1 : j \in (1 .. k) \ {k}
  OBVIOUS
<1>3. QED
  BY <1>1, <1>2

\* Rows that follow each other without a gap sum up to the time from the first to the last.
LEMMA RowsAddUp ==
  ASSUME NEW n \in Nat, n >= 1, NEW a \in [1 .. n + 1 -> Nat],
         \A i \in 1 .. n : a[i] <= a[i + 1],
         NEW rows, DOMAIN rows = 1 .. n,
         \A i \in 1 .. n : rows[i] = (a[i + 1] - a[i]) \div Second
  PROVE  /\ SumOf(rows) \in Nat
         /\ SumOf(rows) * Second <= a[n + 1] - a[1]
         /\ a[n + 1] - a[1] < (SumOf(rows) + n) * Second
<1> DEFINE part(k) == Cardinality(Shares(rows, 1 .. k))
           Good(k) == /\ part(k) \in Nat /\ part(k) * Second <= a[k + 1] - a[1]
                      /\ a[k + 1] - a[1] < (part(k) + k) * Second
           Bad == {k \in 1 .. n : ~Good(k)}
<1>1. Second \in Nat /\ Second >= 1
  BY SecondAssumption
<1>2. ASSUME NEW i \in 1 .. n
      PROVE  /\ a[i] \in Nat /\ a[i + 1] \in Nat /\ a[i] <= a[i + 1]
             /\ rows[i] \in Nat /\ rows[i] * Second <= a[i + 1] - a[i]
             /\ a[i + 1] - a[i] < rows[i] * Second + Second
  <2>1. i \in 1 .. n + 1 /\ i + 1 \in 1 .. n + 1
    OBVIOUS
  <2>2. a[i] \in Nat /\ a[i + 1] \in Nat /\ a[i] <= a[i + 1]
    BY <2>1
  <2>3. a[i + 1] - a[i] \in Nat
    BY <2>2
  <2>4. rows[i] = (a[i + 1] - a[i]) \div Second
    OBVIOUS
  <2>5. QED
    BY <2>2, <2>3, <2>4, CutTimes
<1>3. ASSUME NEW k \in 1 .. n
      PROVE  part(k) \in Nat /\ part(k) = rows[k] + part(k - 1)
  <2>1. IsFiniteSet(1 .. k) /\ \A i \in 1 .. k : rows[i] \in Nat
    <3>1. 1 \in Int /\ k \in Int /\ \A i \in 1 .. k : i \in 1 .. n
      OBVIOUS
    <3>2. IsFiniteSet(1 .. k)
      BY <3>1, FS_Interval
    <3>3. QED
      BY <1>2, <3>1, <3>2
  <2>2. Cardinality(Shares(rows, 1 .. k)) = rows[k] + Cardinality(Shares(rows, (1 .. k) \ {k}))
    <3>1. k \in 1 .. k
      OBVIOUS
    <3>2. QED
      BY <2>1, <3>1, SharesSplit
  <2>3. (1 .. k) \ {k} = 1 .. k - 1
    <3>1. k \in Int
      OBVIOUS
    <3>2. QED
      BY <3>1, IntervalLess
  <2>4. part(k) \in Nat
    BY <2>1, SharesAreFinite
  <2>5. QED
    BY <2>2, <2>3, <2>4
<1>4. part(0) = 0
  <2>1. 1 .. 0 = {}
    OBVIOUS
  <2>2. Shares(rows, 1 .. 0) = {}
    BY <2>1 DEF Shares
  <2>3. QED
    BY <2>2, FS_EmptySet
<1> HIDE DEF part
<1>5. Good(1)
  <2>1. 1 \in 1 .. n /\ 1 - 1 = 0
    OBVIOUS
  <2>2. part(1) = rows[1] + 0 /\ rows[1] \in Nat
    BY <1>2, <1>3, <1>4, <2>1
  <2>3. part(1) = rows[1] /\ part(1) \in Nat
    BY <2>2
  <2>4. rows[1] * Second <= a[1 + 1] - a[1] /\ a[1 + 1] - a[1] < rows[1] * Second + Second
    BY <1>2, <2>1
  <2>5. (part(1) + 1) * Second = rows[1] * Second + Second
    BY <1>1, <2>2, <2>3
  <2>6. QED
    BY <2>3, <2>4, <2>5
<1>6. ASSUME NEW k \in 1 .. n, k # 1, Good(k - 1)
      PROVE  Good(k)
  <2>1. k - 1 \in 1 .. n /\ k - 1 + 1 = k /\ 1 \in 1 .. n
    BY <1>6
  <2>2. /\ part(k - 1) \in Nat /\ part(k - 1) * Second <= a[k] - a[1]
        /\ a[k] - a[1] < (part(k - 1) + (k - 1)) * Second
    BY <1>6, <2>1
  <2>3. part(k) \in Nat /\ part(k) = rows[k] + part(k - 1)
    BY <1>3
  <2>4. /\ rows[k] \in Nat /\ a[k] \in Nat /\ a[k + 1] \in Nat /\ a[1] \in Nat
        /\ rows[k] * Second <= a[k + 1] - a[k] /\ a[k + 1] - a[k] < rows[k] * Second + Second
    BY <1>2, <2>1
  <2> DEFINE p == part(k - 1)
             w == rows[k]
             x == p * Second
             y == w * Second
  <2>5. p \in Nat /\ w \in Nat /\ x \in Nat /\ y \in Nat /\ k \in Nat /\ part(k) = w + p
    <3>1. p \in Nat /\ w \in Nat /\ k \in Nat /\ part(k) = w + p
      BY <2>2, <2>3, <2>4
    <3> HIDE DEF p, w
    <3>2. p * Second \in Nat /\ w * Second \in Nat
      BY <1>1, <3>1
    <3>3. QED
      BY <3>1, <3>2
  <2>6. /\ part(k) * Second = x + y
        /\ (part(k) + k) * Second = x + (k - 1) * Second + y + Second
        /\ (p + (k - 1)) * Second = x + (k - 1) * Second /\ (k - 1) * Second \in Int
    <3> HIDE DEF p, w
    <3>1. (w + p) * Second = p * Second + w * Second
      BY <1>1, <2>5
    <3>2. (w + p + k) * Second = p * Second + (k - 1) * Second + w * Second + Second
      BY <1>1, <2>5
    <3>3. (p + (k - 1)) * Second = p * Second + (k - 1) * Second /\ (k - 1) * Second \in Int
      BY <1>1, <2>5
    <3>4. QED
      BY <2>5, <3>1, <3>2, <3>3
  <2> HIDE DEF x, y
  <2>7. x <= a[k] - a[1] /\ a[k] - a[1] < x + (k - 1) * Second
    BY <2>2, <2>6 DEF x
  <2>8. y <= a[k + 1] - a[k] /\ a[k + 1] - a[k] < y + Second
    BY <2>4 DEF y
  <2>9. part(k) * Second <= a[k + 1] - a[1] /\ a[k + 1] - a[1] < (part(k) + k) * Second
    <3> DEFINE z == (k - 1) * Second
               g == part(k) * Second
               h == (part(k) + k) * Second
    <3>1. z \in Int /\ g = x + y /\ h = x + z + y + Second
      BY <2>6
    <3>2. x <= a[k] - a[1] /\ a[k] - a[1] < x + z
      BY <2>7
    <3>a. a[k] \in Nat /\ a[k + 1] \in Nat /\ a[1] \in Nat /\ x \in Nat /\ y \in Nat
      BY <2>4, <2>5
    <3> HIDE DEF z, g, h
    <3>3. g <= a[k + 1] - a[1] /\ a[k + 1] - a[1] < h
      <4>1. x + y <= a[k + 1] - a[1] /\ a[k + 1] - a[1] < (x + z) + (y + Second)
        BY <1>1, <2>8, <3>1, <3>2, <3>a, BoundsAdd
      <4>2. (x + z) + (y + Second) = x + z + y + Second
        BY <1>1, <3>1, <3>a
      <4>3. QED
        BY <3>1, <4>1, <4>2
    <3>4. QED
      BY <3>3 DEF g, h
  <2>10. QED
    BY <2>3, <2>9
<1> HIDE DEF Good
<1>7. Bad = {}
  <2> SUFFICES ASSUME Bad # {}
               PROVE  FALSE
    OBVIOUS
  <2>1. Bad \subseteq Nat
    OBVIOUS
  <2>2. PICK k \in Bad : \A j \in Bad : <<j, k>> \notin OpToRel(<, Nat)
    <3>1. IsWellFoundedOn(OpToRel(<, Nat), Nat)
      BY NatLessThanWellFounded
    <3> HIDE DEF Bad
    <3>2. QED
      BY <2>1, <3>1, WFMin
  <2>3. k \in 1 .. n /\ k # 1
    BY <1>5
  <2>4. k - 1 \in 1 .. n /\ <<k - 1, k>> \in OpToRel(<, Nat)
    <3>1. k \in Nat /\ k - 1 \in Nat /\ k - 1 < k /\ k - 1 \in 1 .. n
      BY <2>3
    <3>2. QED
      BY <3>1 DEF OpToRel
  <2>5. Good(k - 1)
    BY <2>2, <2>4
  <2>6. QED
    BY <1>6, <2>3, <2>5
<1>8. Good(n)
  <2>1. n \in 1 .. n
    OBVIOUS
  <2>2. QED
    BY <1>7, <2>1
<1>9. SumOf(rows) = part(n)
  <2>1. IsFiniteSet(DOMAIN rows) /\ \A i \in DOMAIN rows : rows[i] \in Nat
    <3>1. 1 \in Int /\ n \in Int
      OBVIOUS
    <3>2. IsFiniteSet(1 .. n)
      BY <3>1, FS_Interval
    <3>3. QED
      BY <1>2, <3>2
  <2>2. QED
    BY <2>1, SumIsCount DEF part
<1>10. QED
  BY <1>8, <1>9 DEF Good
-----------------------------------------------------------------------------
(* The inductive invariant of the times. *)

RunPhases == {"bootstrap", "readiness", "warmup", "funding", "load", "drain"}
PhaseMarks == [phase : RunPhases, at : Nat]

\* The boundaries of the phases, in their order, up to a time.
Ordered(m, t) ==
  /\ t \in Nat /\ m \in Seq(PhaseMarks) /\ Len(m) >= 1
  /\ \A i \in 1 .. Len(m) : m[i].at <= t /\ \A j \in i .. Len(m) : m[i].at <= m[j].at

\* Both the load and the run ended after the last of them, and in this order.
OrderedTo(m, l, u) ==
  /\ Ordered(m, u)
  /\ l # {} => \E t \in Nat : l = {t} /\ t <= u /\ Ordered(m, t)

TimesOK ==
  /\ OrderedTo(marks, loaded, now)
  /\ stage \in DOMAIN PhaseAfter => loaded = {}

TimingKept(m) == m.completed # {} => \E u \in Nat : m.completed = {u} /\ OrderedTo(m.marks, m.loaded, u)

TimesInv == TimesOK /\ \A r \in DOMAIN manifest : TimingKept(manifest[r])

LEMMA OrderedLater ==
  ASSUME NEW m, NEW l, NEW t, NEW u \in Nat, t <= u, OrderedTo(m, l, t)
  PROVE  OrderedTo(m, l, u)
<1>1. t \in Nat /\ m \in Seq(PhaseMarks) /\ Len(m) \in Nat /\ DOMAIN m = 1 .. Len(m)
  BY LenProperties DEF OrderedTo, Ordered
<1>2. \A i \in 1 .. Len(m) : m[i].at \in Nat /\ m[i].at <= t
  <2>1. \A i \in 1 .. Len(m) : m[i] \in PhaseMarks
    BY <1>1, ElementOfSeq
  <2>2. QED
    BY <2>1 DEF PhaseMarks, OrderedTo, Ordered
<1>3. Ordered(m, u)
  BY <1>1, <1>2 DEF OrderedTo, Ordered
<1>4. ASSUME l # {}
      PROVE  \E v \in Nat : l = {v} /\ v <= u /\ Ordered(m, v)
  <2>1. PICK v \in Nat : l = {v} /\ v <= t /\ Ordered(m, v)
    BY <1>4 DEF OrderedTo
  <2>2. v <= u
    BY <1>1, <2>1
  <2>3. QED
    BY <2>1, <2>2
<1>5. QED
  BY <1>3, <1>4 DEF OrderedTo

LEMMA MarkedNow ==
  ASSUME NEW m, NEW t, Ordered(m, t), NEW p \in RunPhases
  PROVE  Ordered(Append(m, [phase |-> p, at |-> t]), t)
<1> DEFINE mark == [phase |-> p, at |-> t]
           new == Append(m, mark)
           n == Len(m)
<1>1. t \in Nat /\ m \in Seq(PhaseMarks) /\ n \in Nat /\ n >= 1 /\ mark \in PhaseMarks /\ mark.at = t
  BY LenProperties DEF Ordered, PhaseMarks
<1>2. \A i \in 1 .. n : m[i].at <= t /\ \A j \in i .. n : m[i].at <= m[j].at
  BY DEF Ordered
<1>3. /\ new \in Seq(PhaseMarks) /\ Len(new) = n + 1
      /\ \A i \in 1 .. n : new[i] = m[i]
      /\ new[n + 1] = mark
  <2> HIDE DEF mark
  <2>1. QED
    BY <1>1, Appended
<1> HIDE DEF mark, new, n
<1>4. ASSUME NEW i \in 1 .. n + 1
      PROVE  new[i].at <= t /\ \A j \in i .. n + 1 : new[i].at <= new[j].at
  <2>1. CASE i = n + 1
    <3>1. \A j \in i .. n + 1 : j = i
      BY <1>1, <2>1
    <3>2. new[i].at = t
      BY <1>1, <1>3, <2>1
    <3>3. QED
      BY <1>1, <3>1, <3>2
  <2>2. CASE i # n + 1
    <3>1. i \in 1 .. n /\ new[i] = m[i] /\ m[i].at <= t
      BY <1>1, <1>2, <1>3, <2>2
    <3>2. ASSUME NEW j \in i .. n + 1
          PROVE  new[i].at <= new[j].at
      <4>1. CASE j = n + 1
        BY <1>1, <1>3, <3>1, <4>1
      <4>2. CASE j # n + 1
        <5>1. j \in i .. n /\ j \in 1 .. n
          BY <1>1, <3>1, <4>2
        <5>2. QED
          BY <1>2, <1>3, <3>1, <5>1
      <4>3. QED
        BY <4>1, <4>2
    <3>3. QED
      BY <3>1, <3>2
  <2>3. QED
    BY <2>1, <2>2
<1>5. Ordered(new, t)
  BY <1>1, <1>3, <1>4 DEF Ordered
<1>6. QED
  BY <1>5 DEF new, mark

LEMMA FirstIsOrdered == OrderedTo(FirstMark, {}, 0)
<1> DEFINE mark == [phase |-> "bootstrap", at |-> 0]
<1>1. mark \in PhaseMarks /\ FirstMark = <<mark>> /\ mark.at = 0
  BY DEF FirstMark, PhaseMarks, RunPhases
<1> HIDE DEF mark
<1>2. FirstMark \in Seq(PhaseMarks) /\ Len(FirstMark) = 1 /\ FirstMark[1] = mark
  BY <1>1
<1>3. \A i \in 1 .. 1 : i = 1 /\ \A j \in i .. 1 : j = 1
  OBVIOUS
<1>4. Ordered(FirstMark, 0)
  BY <1>1, <1>2, <1>3 DEF Ordered
<1>5. QED
  BY <1>4 DEF OrderedTo

LEMMA TimesStep == TimesInv /\ [Next]_vars => TimesInv'
<1> SUFFICES ASSUME TimesInv, [Next]_vars
             PROVE  TimesInv'
  OBVIOUS
<1>1. OrderedTo(marks, loaded, now) /\ now \in Nat /\ (stage \in DOMAIN PhaseAfter => loaded = {})
  BY DEF TimesInv, TimesOK, OrderedTo, Ordered
<1>2. \A r \in DOMAIN manifest : TimingKept(manifest[r])
  BY DEF TimesInv
<1>a. DOMAIN PhaseAfter = {"bootstrap", "readiness", "warmup", "funding", "load"}
  BY DEF PhaseAfter
<1>3. CASE Mark
  <2>1. /\ stage \in DOMAIN PhaseAfter /\ marks' = Append(marks, [phase |-> stage', at |-> now])
        /\ stage' = PhaseAfter[stage] /\ UNCHANGED <<now, loaded, manifest>>
    BY <1>3 DEF Mark
  <2>2. stage' \in RunPhases
    BY <2>1 DEF PhaseAfter, RunPhases
  <2>3. Ordered(marks', now)
    BY <1>1, <2>1, <2>2, MarkedNow DEF OrderedTo
  <2>4. loaded' = {} /\ now' = now
    BY <1>1, <2>1
  <2>5. TimesOK'
    BY <2>3, <2>4 DEF TimesOK, OrderedTo
  <2>6. QED
    BY <1>2, <2>1, <2>5 DEF TimesInv
<1>4. CASE Tick
  <2>1. stage \notin Ended /\ now' = now + 1 /\ UNCHANGED <<stage, marks, loaded, manifest>>
    BY <1>4 DEF Tick
  <2>2. now + 1 \in Nat /\ now <= now + 1
    BY <1>1
  <2>3. OrderedTo(marks, loaded, now + 1)
    BY <1>1, <2>2, OrderedLater
  <2>4. TimesOK'
    BY <1>1, <2>1, <2>3 DEF TimesOK
  <2>5. QED
    BY <1>2, <2>1, <2>4 DEF TimesInv
<1>5. CASE RefuseLoad \/ EndLoad
  <2>1. stage' \in {"refused", "tally"} /\ loaded' = {now} /\ UNCHANGED <<now, marks, manifest>>
    BY <1>5 DEF RefuseLoad, EndLoad
  <2>2. now <= now /\ Ordered(marks, now)
    BY <1>1 DEF OrderedTo
  <2>3. OrderedTo(marks, {now}, now)
    BY <1>1, <2>2 DEF OrderedTo
  <2>4. TimesOK'
    BY <1>a, <2>1, <2>3 DEF TimesOK
  <2>5. QED
    BY <1>2, <2>1, <2>4 DEF TimesInv
<1>6. CASE Finalise
  <2>1. /\ stage' = "ended" /\ UNCHANGED <<now, marks, loaded>>
        /\ \E a : manifest' = [manifest EXCEPT ![run] =
                                 [assertion |-> a, marks |-> marks, loaded |-> loaded, completed |-> {now}]]
    BY <1>6 DEF Finalise, WriteArtifacts, timeVars
  <2>2. PICK a : manifest' = [manifest EXCEPT ![run] =
                                [assertion |-> a, marks |-> marks, loaded |-> loaded, completed |-> {now}]]
    BY <2>1
  <2> DEFINE new == [assertion |-> a, marks |-> marks, loaded |-> loaded, completed |-> {now}]
  <2>3. TimingKept(new)
    BY <1>1 DEF TimingKept
  <2>4. DOMAIN manifest' = DOMAIN manifest /\ \A r \in DOMAIN manifest : manifest'[r] \in {manifest[r], new}
    BY <2>2
  <2> HIDE DEF new
  <2>5. \A r \in DOMAIN manifest' : TimingKept(manifest'[r])
    BY <1>2, <2>3, <2>4
  <2>6. TimesOK'
    BY <1>1, <1>a, <2>1 DEF TimesOK
  <2>7. QED
    BY <2>5, <2>6 DEF TimesInv
<1>7. CASE NextRun
  <2>1. /\ now' = 0 /\ marks' = FirstMark /\ loaded' = {}
        /\ manifest' = [r \in 1 .. run + 1 |-> IF r \in DOMAIN manifest THEN manifest[r] ELSE NoManifest]
    BY <1>7 DEF NextRun
  <2>2. TimingKept(NoManifest)
    BY DEF TimingKept, NoManifest
  <2>3. \A r \in DOMAIN manifest' : TimingKept(manifest'[r])
    BY <1>2, <2>1, <2>2
  <2>4. OrderedTo(FirstMark, {}, 0)
    BY FirstIsOrdered
  <2>5. TimesOK'
    BY <2>1, <2>4 DEF TimesOK
  <2>6. QED
    BY <2>3, <2>5 DEF TimesInv
<1>8. CASE UNCHANGED <<now, marks, loaded, manifest>> /\ (stage' \in DOMAIN PhaseAfter => stage \in DOMAIN PhaseAfter)
  BY <1>1, <1>2, <1>8 DEF TimesInv, TimesOK
<1>9. CASE AbortSetup \/ Kill
  <2>1. UNCHANGED <<now, marks, loaded, manifest>> /\ stage' \in {"aborted", "killed"}
    BY <1>9 DEF AbortSetup, Kill, timeVars
  <2>2. QED
    BY <1>8, <1>a, <2>1
<1>10. CASE (\E c \in Feeds[feed].calls : RecordCall(c)) \/ (\E m \in Feeds[feed].samples : RecordMetric(m))
  BY <1>8, <1>10 DEF RecordCall, RecordMetric, timeVars
<1>11. CASE (\E o \in Feeds[feed].outcomes : Settle(o)) \/ RecordIntent
  BY <1>8, <1>11 DEF Settle, RecordIntent, timeVars
<1>12. CASE UNCHANGED vars
  BY <1>8, <1>12 DEF vars, timeVars
<1>13. QED
  BY <1>3, <1>4, <1>5, <1>6, <1>7, <1>9, <1>10, <1>11, <1>12 DEF Next

LEMMA InitTimesInv == Init => TimesInv
<1> SUFFICES ASSUME Init
             PROVE  TimesInv
  OBVIOUS
<1>1. now = 0 /\ marks = FirstMark /\ loaded = {} /\ manifest = [r \in {1} |-> NoManifest]
  BY DEF Init
<1>2. OrderedTo(FirstMark, {}, 0)
  BY FirstIsOrdered
<1>3. TimingKept(NoManifest)
  BY DEF TimingKept, NoManifest
<1>4. QED
  BY <1>1, <1>2, <1>3 DEF TimesInv, TimesOK
-----------------------------------------------------------------------------
(* What the table of the times shows of a manifest. *)

LEMMA TimingShown ==
  ASSUME NEW m, NEW u \in Nat, m.completed = {u}, OrderedTo(m.marks, m.loaded, u)
  PROVE  LET t == PhaseTiming(m)
             Value(S) == IF S = {} THEN 0 ELSE CHOOSE v \in S : TRUE
             rows == [i \in DOMAIN t.phases |-> Value(t.phases[i])]
             shown == SumOf(rows) + Value(t.teardown)
             lasted == Value(m.completed) - m.marks[1].at
         IN /\ shown * Second <= lasted
            /\ lasted < (shown + Len(m.marks) + 1) * Second
<1> DEFINE t == PhaseTiming(m)
           Value(S) == IF S = {} THEN 0 ELSE CHOOSE v \in S : TRUE
           rows == [i \in DOMAIN t.phases |-> Value(t.phases[i])]
           n == Len(m.marks)
           e == IF m.loaded = {} THEN u ELSE CHOOSE v \in m.loaded : TRUE
           a == [i \in 1 .. n + 1 |-> IF i <= n THEN m.marks[i].at ELSE e]
           Piece(i) == (a[i + 1] - a[i]) \div Second
           rest == (u - e) \div Second
<1>1. Value({}) = 0 /\ \A v : Value({v}) = v
  OBVIOUS
<1> HIDE DEF Value
<1>2. /\ e \in Nat /\ e <= u /\ Ordered(m.marks, e)
      /\ (m.loaded = {} /\ e = u) \/ m.loaded = {e}
  <2>1. CASE m.loaded = {}
    BY <2>1 DEF OrderedTo
  <2>2. CASE m.loaded # {}
    <3>1. PICK v \in Nat : m.loaded = {v} /\ v <= u /\ Ordered(m.marks, v)
      BY <2>2 DEF OrderedTo
    <3>2. e = v
      BY <3>1
    <3>3. QED
      BY <3>1, <3>2
  <2>3. QED
    BY <2>1, <2>2
<1> HIDE DEF e
<1>3. /\ n \in Nat /\ n >= 1 /\ m.marks \in Seq(PhaseMarks) /\ DOMAIN m.marks = 1 .. n
      /\ \A i \in 1 .. n : m.marks[i].at \in Nat
  <2>1. m.marks \in Seq(PhaseMarks) /\ n >= 1
    BY <1>2 DEF Ordered
  <2>2. n \in Nat /\ DOMAIN m.marks = 1 .. n /\ \A i \in 1 .. n : m.marks[i] \in PhaseMarks
    BY <2>1, LenProperties, ElementOfSeq
  <2>3. QED
    BY <2>1, <2>2 DEF PhaseMarks
<1>4. /\ a \in [1 .. n + 1 -> Nat] /\ a[1] = m.marks[1].at /\ a[n + 1] = e
      /\ \A i \in 1 .. n : a[i] = m.marks[i].at /\ a[i + 1] = IF i < n THEN m.marks[i + 1].at ELSE e
  <2>1. a \in [1 .. n + 1 -> Nat]
    BY <1>2, <1>3
  <2>2. 1 \in 1 .. n + 1 /\ n + 1 \in 1 .. n + 1 /\ 1 <= n /\ ~(n + 1 <= n)
    BY <1>3
  <2>3. \A i \in 1 .. n : i \in 1 .. n + 1 /\ i + 1 \in 1 .. n + 1 /\ i <= n /\ (i + 1 <= n <=> i < n)
    BY <1>3
  <2>4. QED
    BY <2>1, <2>2, <2>3
<1>5. \A i \in 1 .. n : a[i] <= a[i + 1]
  <2> SUFFICES ASSUME NEW i \in 1 .. n
               PROVE  a[i] <= a[i + 1]
    OBVIOUS
  <2>1. m.marks[i].at <= e /\ \A j \in i .. n : m.marks[i].at <= m.marks[j].at
    BY <1>2 DEF Ordered
  <2>2. i < n => i + 1 \in i .. n
    BY <1>3
  <2> HIDE DEF a
  <2>3. QED
    BY <1>4, <2>1, <2>2
<1> HIDE DEF a
<1>6. DOMAIN rows = 1 .. n /\ \A i \in 1 .. n : rows[i] = Piece(i)
  <2>1. DOMAIN t.phases = 1 .. n
    BY <1>3 DEF PhaseTiming
  <2>2. ASSUME NEW i \in 1 .. n
        PROVE  t.phases[i] = {Piece(i)}
    <3>1. PhaseEnd(m, i) = {a[i + 1]}
      <4>1. CASE i < n
        BY <1>4, <4>1 DEF PhaseEnd
      <4>2. CASE ~(i < n)
        BY <1>2, <1>4, <4>2 DEF PhaseEnd
      <4>3. QED
        BY <4>1, <4>2
    <3>2. t.phases[i] = {(v - m.marks[i].at) \div Second : v \in PhaseEnd(m, i)}
      BY <1>3 DEF PhaseTiming
    <3>3. m.marks[i].at = a[i]
      BY <1>4
    <3>4. QED
      BY <3>1, <3>2, <3>3
  <2> HIDE DEF t
  <2>3. \A i \in 1 .. n : rows[i] = Value(t.phases[i])
    BY <2>1
  <2> HIDE DEF Piece
  <2>4. \A i \in 1 .. n : Value(t.phases[i]) = Piece(i)
    BY <1>1, <2>2
  <2>5. QED
    BY <2>1, <2>3, <2>4
<1>7. Value(t.teardown) = rest
  <2>1. t.teardown = {(w - v) \div Second : v \in m.loaded, w \in {u}} \ {0}
    BY DEF PhaseTiming
  <2>2. CASE m.loaded = {e}
    <3>1. t.teardown = {rest} \ {0}
      BY <2>1, <2>2
    <3> HIDE DEF t, rest
    <3>2. CASE rest = 0
      <4>1. t.teardown = {}
        BY <3>1, <3>2
      <4>2. QED
        BY <1>1, <3>2, <4>1
    <3>3. CASE rest # 0
      <4>1. t.teardown = {rest}
        BY <3>1, <3>3
      <4>2. QED
        BY <1>1, <4>1
    <3>4. QED
      BY <3>2, <3>3
  <2>3. CASE m.loaded = {} /\ e = u
    <3>1. t.teardown = {}
      BY <2>1, <2>3
    <3>2. rest = 0
      <4>1. 0 \div Second = 0
        BY SecondAssumption
      <4>2. u - e = 0
        BY <2>3
      <4>3. QED
        BY <4>1, <4>2
    <3> HIDE DEF t, rest
    <3>3. QED
      BY <1>1, <3>1, <3>2
  <2>4. QED
    BY <1>2, <2>2, <2>3
<1>8. Value(m.completed) = u
  BY <1>1
<1>9. /\ SumOf(rows) \in Nat /\ SumOf(rows) * Second <= e - a[1]
      /\ e - a[1] < (SumOf(rows) + n) * Second
  <2> HIDE DEF rows
  <2>1. /\ SumOf(rows) \in Nat /\ SumOf(rows) * Second <= a[n + 1] - a[1]
        /\ a[n + 1] - a[1] < (SumOf(rows) + n) * Second
    BY <1>3, <1>4, <1>5, <1>6, RowsAddUp
  <2>2. QED
    BY <1>4, <2>1
<1>10. rest \in Nat /\ rest * Second <= u - e /\ u - e < rest * Second + Second
  <2>1. u - e \in Nat
    BY <1>2
  <2>2. QED
    BY <2>1, CutTimes
<1>11. a[1] \in Nat
  BY <1>3, <1>4
<1> DEFINE s == SumOf(rows)
           first == a[1]
<1>12. s \in Nat /\ s * Second <= e - first /\ e - first < (s + n) * Second /\ first \in Nat
  BY <1>9, <1>11
<1> HIDE DEF s, first, rest, n
<1>13. Second \in Nat /\ Second >= 1
  BY SecondAssumption
<1>14. /\ (s + rest) * Second = s * Second + rest * Second
       /\ (s + rest + n + 1) * Second = (s + n) * Second + rest * Second + Second
       /\ s * Second \in Nat /\ rest * Second \in Nat /\ (s + n) * Second \in Nat
  BY <1>3, <1>10, <1>12, <1>13
<1>15. (s + rest) * Second <= u - first /\ u - first < (s + rest + n + 1) * Second
  <2> DEFINE x == s * Second
             y == rest * Second
             z == (s + n) * Second
  <2>1. x \in Nat /\ y \in Nat /\ z \in Nat /\ x <= e - first /\ e - first < z /\ y <= u - e /\ u - e < y + Second
    BY <1>10, <1>12, <1>14
  <2>2. (s + rest) * Second = x + y /\ (s + rest + n + 1) * Second = z + y + Second
    BY <1>14
  <2> HIDE DEF x, y, z
  <2>3. x + y <= u - first /\ u - first < z + y + Second
    BY <1>2, <1>12, <1>13, <2>1
  <2>4. QED
    BY <2>2, <2>3
<1>16. first = m.marks[1].at
  BY <1>4 DEF first
<1>17. /\ (SumOf(rows) + Value(t.teardown)) * Second <= Value(m.completed) - m.marks[1].at
       /\ Value(m.completed) - m.marks[1].at < (SumOf(rows) + Value(t.teardown) + Len(m.marks) + 1) * Second
  <2> HIDE DEF t, rows
  <2>1. QED
    BY <1>7, <1>8, <1>15, <1>16 DEF s, n
<1>18. QED
  BY <1>17 DEF Value

LEMMA TimesAddUp == TimesInv => TimingAddsUp
<1> SUFFICES ASSUME TimesInv, NEW r \in DOMAIN manifest, manifest[r].completed # {}
             PROVE  LET t == PhaseTiming(manifest[r])
                        Value(S) == IF S = {} THEN 0 ELSE CHOOSE v \in S : TRUE
                        rows == [i \in DOMAIN t.phases |-> Value(t.phases[i])]
                        shown == SumOf(rows) + Value(t.teardown)
                        lasted == Value(manifest[r].completed) - manifest[r].marks[1].at
                    IN /\ shown * Second <= lasted
                       /\ lasted < (shown + Len(manifest[r].marks) + 1) * Second
  BY DEF TimingAddsUp
<1>1. PICK u \in Nat : manifest[r].completed = {u} /\ OrderedTo(manifest[r].marks, manifest[r].loaded, u)
  BY DEF TimesInv, TimingKept
<1>2. QED
  BY <1>1, TimingShown

\* The times of a report: however setup, load or teardown ended, the rows of a run's phases
\* and its teardown neither count a second twice nor leave one out (render_setup_phase_timing
\* against PhaseTracker and finalize_run_artifacts): together they are the time from the
\* first mark to the end, but for less than a second a row, for any times and any second.
THEOREM TimingSafety == Spec => []TimingAddsUp
<1>1. Spec => []TimesInv
  BY InitTimesInv, TimesStep, PTL DEF Spec
<1>2. QED
  BY <1>1, TimesAddUp, PTL

-----------------------------------------------------------------------------
(***************************************************************************)
(* The summary of a run, against its part of the report.                   *)
(***************************************************************************)

Mine == OfRun(calls, run)

Phases == Setup \cup Workload \cup {"unknown"}

LEMMA FiniteImage ==
  ASSUME NEW S, IsFiniteSet(S), NEW f, DOMAIN f = S
  PROVE  IsFiniteSet({f[k] : k \in S})
<1> DEFINE g == [k \in S |-> f[k]]
<1>1. g \in Surjection(S, {f[k] : k \in S})
  BY DEF Surjection
<1> HIDE DEF g
<1>2. QED
  BY <1>1, FS_Surjection

LEMMA Disjoint ==
  ASSUME NEW S, NEW T, NEW U, IsFiniteSet(S), S = T \cup U, T \cap U = {}
  PROVE  /\ Cardinality(S) = Cardinality(T) + Cardinality(U)
         /\ Cardinality(T) \in Nat /\ Cardinality(U) \in Nat
<1>1. IsFiniteSet(T) /\ IsFiniteSet(U)
  BY FS_Subset
<1>2. Cardinality(T \cup U) = Cardinality(T) + Cardinality(U) - Cardinality(T \cap U)
  BY <1>1, FS_Union
<1>3. Cardinality(T) \in Nat /\ Cardinality(U) \in Nat
  BY <1>1, FS_CardinalityType
<1>4. Cardinality(T \cap U) = 0
  BY FS_EmptySet
<1>5. QED
  BY <1>2, <1>3, <1>4

LEMMA CallFields ==
  ASSUME CallsInv, feed \in DOMAIN Feeds, NEW k \in DOMAIN calls
  PROVE  /\ calls[k].phase \in Phases /\ calls[k].at \in Nat
         /\ calls[k].phase \in Setup => calls[k].intent = Unlinked
<1>1. calls[k] \in Lines
  BY FileDomain DEF CallsInv
<1>2. PICK r \in Nat, c \in Feeds[feed].calls, n \in Nat : calls[k] = LineOf(r, c, n)
  BY <1>1 DEF Lines
<1>3. calls[k].phase = c.phase /\ calls[k].at = c.at /\ calls[k].intent = IntentOf(c.via, c.intent)
  BY <1>2 DEF LineOf, RpcCall
<1>4. /\ c.phase \in Phases /\ c.at \in Nat
      /\ c.phase \in Setup => c.via # "z_send_many_attempt"
  BY FeedsAssumption DEF Phases, Setup, Workload
<1>5. QED
  BY <1>3, <1>4 DEF IntentOf, Unlinked

LEMMA MineFields ==
  ASSUME CallsInv
  PROVE  /\ DOMAIN Mine = {k \in DOMAIN calls : calls[k].run = run} /\ IsFiniteSet(DOMAIN Mine)
         /\ \A k \in DOMAIN Mine : Mine[k] = calls[k]
<1>1. DOMAIN Mine = {k \in DOMAIN calls : calls[k].run = run}
  BY DEF Mine, OfRun
<1>2. IsFiniteSet(DOMAIN calls)
  <2>1. Len(calls) \in Nat /\ DOMAIN calls = 1 .. Len(calls)
    BY FileDomain DEF CallsInv
  <2>2. QED
    BY <2>1, FS_Interval
<1>3. IsFiniteSet(DOMAIN Mine)
  BY <1>1, <1>2, FS_Subset
<1>4. QED
  BY <1>1, <1>3 DEF Mine, OfRun

\* The rows of a table count its calls, each once.
LEMMA TableCounted ==
  ASSUME NEW file, IsFiniteSet(DOMAIN file), NEW table, NEW keys \in SUBSET DOMAIN Rows(file, table)
  PROVE  CallsSummed(Rows(file, table), keys)
           = Cardinality({k \in InTable(file, table) : <<file[k].method, file[k].backend>> \in keys})
<1> DEFINE S == InTable(file, table)
           key == [k \in S |-> <<file[k].method, file[k].backend>>]
           v == [y \in keys |-> Rows(file, table)[y].calls]
<1>1. IsFiniteSet(S)
  BY FS_Subset DEF InTable
<1>2. DOMAIN Rows(file, table) = {key[k] : k \in S}
  BY DEF Rows
<1>3. \A y \in DOMAIN v : v[y] = Cardinality({k \in S : key[k] = y})
  <2> SUFFICES ASSUME NEW y \in keys
               PROVE  Rows(file, table)[y].calls = Cardinality({k \in S : key[k] = y})
    OBVIOUS
  <2>1. y \in {<<file[k].method, file[k].backend>> : k \in S}
    BY <1>2
  <2>2. Rows(file, table)[y].calls = Cardinality({k \in S : <<file[k].method, file[k].backend>> = y})
    <3> DEFINE Of(x) == {k \in S : <<file[k].method, file[k].backend>> = x}
               Cells(x) == [calls |-> Cardinality(Of(x)), errors |-> Cardinality({k \in Of(x) : ~file[k].ok}),
                            latency |-> Quantiles(Latencies(file, Of(x))),
                            codes |-> {file[k].code : k \in Of(x)} \ {"none"}]
    <3>1. Rows(file, table) = [x \in {<<file[k].method, file[k].backend>> : k \in S} |-> Cells(x)]
      BY DEF Rows
    <3>2. Rows(file, table)[y] = Cells(y)
      <4> HIDE DEF Cells
      <4>1. QED
        BY <2>1, <3>1
    <3>3. Cells(y).calls = Cardinality(Of(y))
      OBVIOUS
    <3>4. QED
      BY <3>2, <3>3
  <2>3. {k \in S : <<file[k].method, file[k].backend>> = y} = {k \in S : key[k] = y}
    OBVIOUS
  <2>4. QED
    BY <2>2, <2>3
<1>4. IsFiniteSet(DOMAIN v)
  <2>1. IsFiniteSet({key[k] : k \in S})
    <3>1. DOMAIN key = S
      OBVIOUS
    <3> HIDE DEF S, key
    <3>2. QED
      BY <1>1, <3>1, FiniteImage
  <2>2. keys \subseteq {key[k] : k \in S}
    BY <1>2
  <2> HIDE DEF key
  <2>3. QED
    BY <2>1, <2>2, FS_Subset
<1>5. DOMAIN v = keys /\ CallsSummed(Rows(file, table), keys) = SumOf(v)
  BY DEF CallsSummed
<1>6. {k \in S : key[k] \in keys} = {k \in S : <<file[k].method, file[k].backend>> \in keys}
  OBVIOUS
<1> HIDE DEF S, key, v
<1>7. SumOf(v) = Cardinality({k \in S : key[k] \in DOMAIN v})
  BY <1>1, <1>3, <1>4, SumOfFibers
<1>8. QED
  BY <1>5, <1>6, <1>7 DEF S

\* The three tables are those of the phases.
LEMMA InTables ==
  ASSUME CallsInv, feed \in DOMAIN Feeds
  PROVE  /\ InTable(Mine, "workload") = Scoped(Mine, Workload)
         /\ InTable(Mine, "setup") = Scoped(Mine, Setup)
         /\ InTable(Mine, "unknown") = Scoped(Mine, {"unknown"})
<1>1. \A k \in DOMAIN Mine : Mine[k].phase \in Phases
  BY MineFields, CallFields
<1>2. Setup \cap Workload = {} /\ "unknown" \notin Setup \cup Workload
  BY DEF Setup, Workload
<1>3. \A p \in Phases : /\ Table(p) = "workload" <=> p \in Workload
                        /\ Table(p) = "setup" <=> p \in Setup
                        /\ Table(p) = "unknown" <=> p = "unknown"
  BY <1>2 DEF Table, Phases
<1>4. QED
  BY <1>1, <1>3 DEF InTable, Scoped
\* Of the workload calls of a run and method, one stands for each intent, and one is the last.
LEMMA MineRepresentatives ==
  ASSUME CallsInv, NEW m
  PROVE  LET C == CallsTo(Mine, m, Workload) IN
         /\ C = {k \in Calling(m) : calls[k].run = run}
         /\ Representatives(Mine, C) = {k \in C : k \in Representatives(calls, Calling(m))}
         /\ \A k \in C : Attempts(k) \subseteq C
<1> DEFINE C == CallsTo(Mine, m, Workload)
<1>1. C = {k \in Calling(m) : calls[k].run = run}
  BY MineFields DEF Calling, CallsTo, Scoped
<1>2. \A k \in C : k \in DOMAIN Mine /\ Mine[k] = calls[k]
  BY MineFields DEF CallsTo, Scoped
<1> HIDE DEF C
<1>3. ASSUME NEW k \in C
      PROVE  k \in Representatives(Mine, C) <=> k \in Representatives(calls, Calling(m))
  <2>1. k \in Calling(m) /\ calls[k].run = run
    BY <1>1
  <2>2. ASSUME NEW j \in Calling(m), SameIntent(calls[j], calls[k])
        PROVE  j \in C
    BY <1>1, <2>1, <2>2 DEF SameIntent
  <2>3. \A j \in C : j \in Calling(m) /\ Mine[j] = calls[j]
    BY <1>1, <1>2
  <2>4. Mine[k] = calls[k]
    BY <1>2
  <2>5. QED
    BY <2>1, <2>2, <2>3, <2>4 DEF Representatives
<1>4. Representatives(Mine, C) = {k \in C : k \in Representatives(calls, Calling(m))}
  <2>1. Representatives(Mine, C) \subseteq C
    BY DEF Representatives
  <2>2. QED
    BY <1>3, <2>1
<1>5. ASSUME NEW k \in C
      PROVE  Attempts(k) \subseteq C
  <2>1. k \in Calling(m) /\ calls[k].run = run
    BY <1>1
  <2>2. /\ Attempts(k) \subseteq Calling(m)
        /\ \A j \in Calling(m) : j \in Attempts(k) => j = k \/ Together(calls[j], calls[k])
    BY <2>1, AttemptsToMethod
  <2>3. QED
    BY <1>1, <2>1, <2>2 DEF Together, SameIntent
<1>6. QED
  BY <1>1, <1>4, <1>5 DEF C

\* As many stand for intents, or for themselves, as are last.
LEMMA AsManyStand ==
  ASSUME CallsInv, NEW m
  PROVE  LET C == CallsTo(Mine, m, Workload)
         IN Cardinality(Representatives(Mine, C)) = Cardinality({k \in C : LastAttempt(k)})
<1> DEFINE C == CallsTo(Mine, m, Workload)
           R == Representatives(Mine, C)
           last == {k \in C : LastAttempt(k)}
           end == [r \in R |-> CHOOSE l \in Attempts(r) : LastAttempt(l)]
<1>1. /\ C = {k \in Calling(m) : calls[k].run = run}
      /\ R = {k \in C : k \in Representatives(calls, Calling(m))}
      /\ \A k \in C : Attempts(k) \subseteq C
  BY MineRepresentatives
<1>2. IsFiniteSet(R)
  <2>1. R \subseteq Calling(m) /\ IsFiniteSet(Calling(m))
    <3> HIDE DEF C, R
    <3>1. QED
      BY <1>1, CallsToMethod
  <2> HIDE DEF R
  <2>2. QED
    BY <2>1, FS_Subset
<1> HIDE DEF C, R
<1>3. ASSUME NEW r \in R
      PROVE  end[r] \in Attempts(r) /\ LastAttempt(end[r]) /\ end[r] \in last /\ r \in Calling(m)
  <2>1. r \in C /\ r \in Calling(m)
    BY <1>1
  <2>2. \E l \in Attempts(r) : LastAttempt(l)
    BY <2>1, OneIsLast
  <2>3. end[r] \in Attempts(r) /\ LastAttempt(end[r])
    BY <2>2
  <2>4. end[r] \in C
    BY <1>1, <2>1, <2>3
  <2>5. QED
    BY <2>1, <2>3, <2>4
<1> HIDE DEF end
<1>4. \A r, s \in R : end[r] = end[s] => r = s
  <2> SUFFICES ASSUME NEW r \in R, NEW s \in R, end[r] = end[s] PROVE r = s
    OBVIOUS
  <2>1. /\ r \in Calling(m) /\ s \in Calling(m)
        /\ r \in Representatives(calls, Calling(m)) /\ s \in Representatives(calls, Calling(m))
    BY <1>1
  <2>2. /\ Attempts(end[r]) = Attempts(r) /\ Attempts(end[s]) = Attempts(s)
        /\ r \in Attempts(r) /\ s \in Attempts(s)
    <3>1. Attempts(r) \subseteq Calling(m) /\ Attempts(s) \subseteq Calling(m)
      BY <2>1, AttemptsToMethod
    <3>2. /\ end[r] \in Calling(m) /\ end[r] \in Attempts(r)
          /\ end[s] \in Calling(m) /\ end[s] \in Attempts(s)
      BY <1>3, <3>1
    <3>3. QED
      BY <2>1, <3>2, AttemptsToMethod
  <2>3. s \in Attempts(r)
    BY <2>2
  <2>4. QED
    BY <2>1, <2>2, <2>3, OneStands
<1>5. \A l \in last : \E r \in R : end[r] = l
  <2> SUFFICES ASSUME NEW l \in last PROVE \E r \in R : end[r] = l
    OBVIOUS
  <2>1. l \in C /\ l \in Calling(m) /\ LastAttempt(l)
    BY <1>1
  <2>2. PICK r \in Attempts(l) : r \in Representatives(calls, Calling(m))
    BY <2>1, OneStands
  <2>3. r \in R /\ r \in Calling(m)
    BY <1>1, <2>1, <2>2
  <2>4. Attempts(r) = Attempts(l) /\ l \in Attempts(l)
    BY <2>1, <2>2, <2>3, AttemptsToMethod
  <2>5. end[r] \in Attempts(l) /\ LastAttempt(end[r])
    BY <1>3, <2>3, <2>4
  <2>6. end[r] = l
    BY <2>1, <2>4, <2>5, OneIsLast
  <2>7. QED
    BY <2>3, <2>6
<1>6. DOMAIN end = R
  BY DEF end
<1>7. end \in [R -> last]
  <2>1. end = [r \in R |-> end[r]]
    BY DEF end
  <2> HIDE DEF last
  <2>2. QED
    BY <1>3, <2>1
<1> HIDE DEF last
<1>8. end \in Bijection(R, last)
  BY <1>4, <1>5, <1>7 DEF Bijection, Injection, Surjection, IsInjective
<1>9. ExistsBijection(R, last)
  BY <1>8 DEF ExistsBijection
<1>10. Cardinality(last) = Cardinality(R)
  BY <1>2, <1>9, FS_Bijection
<1>11. QED
  BY <1>10 DEF last, R, C

\* So the calls of a method are those its row counts and as many as were repeated.
LEMMA RepeatedCounted ==
  ASSUME CallsInv, NEW m
  PROVE  Cardinality(CallsTo(Mine, m, Workload))
           = Row(Mine, m, Workload).calls
               + Cardinality({k \in CallsTo(calls, m, Workload) : calls[k].run = run /\ ~LastAttempt(k)})
<1> DEFINE C == CallsTo(Mine, m, Workload)
           last == {k \in C : LastAttempt(k)}
           repeated == {k \in CallsTo(calls, m, Workload) : calls[k].run = run /\ ~LastAttempt(k)}
<1>1. IsFiniteSet(C)
  <2>1. C \subseteq DOMAIN Mine
    BY DEF CallsTo, Scoped
  <2>2. QED
    BY <2>1, MineFields, FS_Subset
<1>2. C = {k \in CallsTo(calls, m, Workload) : calls[k].run = run}
  BY MineRepresentatives DEF Calling
<1>3. Row(Mine, m, Workload).calls = Cardinality(Representatives(Mine, C))
  BY DEF Row, Aggregate
<1>4. Cardinality(Representatives(Mine, C)) = Cardinality(last)
  BY AsManyStand
<1>5. C = last \cup repeated /\ last \cap repeated = {}
  <2> HIDE DEF C
  <2>1. QED
    BY <1>2
<1> HIDE DEF C, last, repeated
<1>6. Cardinality(C) = Cardinality(last) + Cardinality(repeated)
  BY <1>1, <1>5, Disjoint
<1>7. QED
  BY <1>3, <1>4, <1>6 DEF C, repeated

\* In setup every call stands for itself.
LEMMA SetupCounted ==
  ASSUME CallsInv, feed \in DOMAIN Feeds, NEW m
  PROVE  Row(Mine, m, Setup).calls = Cardinality(CallsTo(Mine, m, Setup))
<1> DEFINE C == CallsTo(Mine, m, Setup)
<1>1. ASSUME NEW j \in C, NEW k \in C
      PROVE  ~SameIntent(Mine[j], Mine[k])
  <2>1. j \in DOMAIN Mine /\ Mine[j].phase \in Setup
    BY DEF CallsTo, Scoped
  <2>2. Mine[j].intent = Unlinked
    BY <2>1, MineFields, CallFields
  <2>3. QED
    BY <2>2 DEF SameIntent
<1>2. Representatives(Mine, C) = C
  <2> HIDE DEF C
  <2>1. QED
    BY <1>1 DEF Representatives
<1>3. Row(Mine, m, Setup).calls = Cardinality(Representatives(Mine, C))
  BY DEF Row, Aggregate
<1>4. QED
  BY <1>2, <1>3

\* The calls of setup, listed in the roster or not.
LEMMA ActivityCounted ==
  ASSUME CallsInv, feed \in DOMAIN Feeds
  PROVE  LET activity == SetupActivity(Mine)
         IN CallsSummed(activity.exercised, DOMAIN activity.exercised)
              + CallsSummed(activity.unlisted, DOMAIN activity.unlisted)
            = Cardinality(Scoped(Mine, Setup))
<1> DEFINE activity == SetupActivity(Mine)
           S == Scoped(Mine, Setup)
           method == [k \in S |-> Mine[k].method]
           methods == {method[k] : k \in S}
           Of(m) == {k \in S : method[k] = m}
           v == [m \in methods \cap Roster |-> activity.exercised[m].calls]
           w == [m \in methods \ Roster |-> activity.unlisted[m].calls]
<1>1. IsFiniteSet(S)
  BY MineFields, FS_Subset DEF Scoped
<1>2. IsFiniteSet(methods \cap Roster) /\ IsFiniteSet(methods \ Roster)
  <2>1. DOMAIN method = S
    OBVIOUS
  <2> HIDE DEF S, method
  <2>2. IsFiniteSet(methods)
    BY <1>1, <2>1, FiniteImage
  <2> HIDE DEF methods
  <2>3. QED
    BY <2>2, FS_Subset
<1>3. ASSUME NEW m
      PROVE  Row(Mine, m, Setup).calls = Cardinality(Of(m))
  <2>1. CallsTo(Mine, m, Setup) = Of(m)
    BY DEF CallsTo
  <2>2. QED
    BY <2>1, SetupCounted
<1>4. ASSUME NEW m
      PROVE  Row(Mine, m, Setup).calls > 0 <=> m \in methods
  <2>1. IsFiniteSet(Of(m)) /\ Cardinality(Of(m)) \in Nat
    <3>1. IsFiniteSet(Of(m))
      BY <1>1, FS_Subset
    <3>2. QED
      BY <3>1, FS_CardinalityType
  <2>2. Of(m) = {} <=> m \notin methods
    OBVIOUS
  <2> HIDE DEF Of, methods
  <2>3. Cardinality(Of(m)) = 0 <=> Of(m) = {}
    BY <2>1, FS_EmptySet
  <2>4. QED
    BY <1>3, <2>1, <2>2, <2>3
<1>5. /\ DOMAIN activity.exercised = methods \cap Roster
      /\ \A m \in methods \cap Roster : activity.exercised[m] = Row(Mine, m, Setup)
  <2> DEFINE listed == {r \in Roster : Matrix(Mine, Setup)[r].calls > 0}
  <2>1. activity.exercised = [m \in listed |-> Matrix(Mine, Setup)[m]]
    BY DEF SetupActivity
  <2>2. \A m \in Roster : Matrix(Mine, Setup)[m] = Row(Mine, m, Setup)
    BY DEF Matrix
  <2>3. listed = methods \cap Roster
    <3> HIDE DEF methods
    <3>1. QED
      BY <1>4, <2>2
  <2> HIDE DEF listed, methods, activity
  <2>4. QED
    BY <2>1, <2>2, <2>3
<1>6. /\ DOMAIN activity.unlisted = methods \ Roster
      /\ \A m \in methods \ Roster : activity.unlisted[m] = Row(Mine, m, Setup)
  <2>1. activity.unlisted = [m \in {Mine[k].method : k \in S} \ Roster |-> Row(Mine, m, Setup)]
    BY DEF SetupActivity, Unlisted
  <2>2. {Mine[k].method : k \in S} = methods
    OBVIOUS
  <2> HIDE DEF methods, activity, S
  <2>3. QED
    BY <2>1, <2>2
<1>7. SumOf(v) = Cardinality({k \in S : method[k] \in methods \cap Roster})
  <2>1. DOMAIN v = methods \cap Roster /\ \A m \in DOMAIN v : v[m] = Cardinality(Of(m))
    <3> HIDE DEF activity, methods, Of
    <3>1. QED
      BY <1>3, <1>5
  <2>2. \A m \in DOMAIN v : v[m] = Cardinality({k \in S : method[k] = m})
    BY <2>1
  <2> HIDE DEF v, S, method, methods
  <2>3. QED
    BY <1>1, <1>2, <2>1, <2>2, SumOfFibers
<1>8. SumOf(w) = Cardinality({k \in S : method[k] \in methods \ Roster})
  <2>1. DOMAIN w = methods \ Roster /\ \A m \in DOMAIN w : w[m] = Cardinality(Of(m))
    <3> HIDE DEF activity, methods, Of
    <3>1. QED
      BY <1>3, <1>6
  <2>2. \A m \in DOMAIN w : w[m] = Cardinality({k \in S : method[k] = m})
    BY <2>1
  <2> HIDE DEF w, S, method, methods
  <2>3. QED
    BY <1>1, <1>2, <2>1, <2>2, SumOfFibers
<1>9. Cardinality(S) = Cardinality({k \in S : method[k] \in methods \cap Roster})
                         + Cardinality({k \in S : method[k] \in methods \ Roster})
  <2> DEFINE T == {k \in S : method[k] \in methods \cap Roster}
             U == {k \in S : method[k] \in methods \ Roster}
  <2>1. S = T \cup U /\ T \cap U = {}
    OBVIOUS
  <2> HIDE DEF T, U, S
  <2>2. Cardinality(S) = Cardinality(T) + Cardinality(U)
    BY <1>1, <2>1, Disjoint
  <2>3. QED
    BY <2>2 DEF T, U
<1>10. /\ CallsSummed(activity.exercised, DOMAIN activity.exercised) = SumOf(v)
       /\ CallsSummed(activity.unlisted, DOMAIN activity.unlisted) = SumOf(w)
  <2> HIDE DEF activity, methods
  <2>1. QED
    BY <1>5, <1>6 DEF CallsSummed
<1> HIDE DEF activity, v, w, S, method, methods
<1>11. SumOf(v) + SumOf(w) = Cardinality(S)
  BY <1>7, <1>8, <1>9
<1>12. QED
  BY <1>10, <1>11 DEF activity, S
-----------------------------------------------------------------------------
(* The totals, and what the summary was made of.                           *)

Total(name, n) == [run |-> run, name |-> name, value |-> n, process |-> "none"]

Samples ==
  {[m EXCEPT !.run = r] : m \in Feeds[feed].samples, r \in Nat}
    \cup [run : Nat, name : {"confirmed_txs_total", "failed_txs_total"}, value : Nat, process : {"none"}]

\* Nothing is recorded behind the totals of a load.
TotalsLast ==
  LET n == Len(samples)
      s == Stats(outcomes)
  IN /\ n >= 2 /\ samples[n - 1] = Total("confirmed_txs_total", s.confirmed)
     /\ samples[n] = Total("failed_txs_total", s.failed + s.timedOut)

SummaryInv ==
  /\ samples \in Seq(Samples)
  /\ stage = "tally" \/ summary # {} => TotalsLast
  /\ summary # {} => /\ stage = "ended"
                     /\ summary = {SummaryOf(Mine, SamplesOf(samples, run), OfRun(records, run))}

\* The kinds of outcomes make up all of them.
LEMMA KindsAddUp ==
  ASSUME RecordsOK
  PROVE  LET s == Stats(outcomes)
         IN /\ s.confirmed \in Nat /\ s.failed \in Nat /\ s.timedOut \in Nat
            /\ s.attempted = s.confirmed + (s.failed + s.timedOut)
<1> DEFINE D == DOMAIN outcomes
           Kind(kind) == {k \in D : outcomes[k].kind = kind}
           rest == {k \in D : outcomes[k].kind # "ok"}
<1>1. /\ Len(outcomes) \in Nat /\ D = 1 .. Len(outcomes)
      /\ \A k \in D : outcomes[k].kind \in {"ok", "failed", "timedOut"}
  BY OutcomesSettled
<1>2. IsFiniteSet(D) /\ Cardinality(D) = Len(outcomes)
  <2>1. 1 \in Int /\ Len(outcomes) \in Int
    BY <1>1
  <2>2. IsFiniteSet(1 .. Len(outcomes)) /\ Cardinality(1 .. Len(outcomes)) = IF 1 > Len(outcomes) THEN 0 ELSE Len(outcomes) - 1 + 1
    BY <2>1, FS_Interval
  <2>3. QED
    BY <1>1, <2>2
<1>3. D = Kind("ok") \cup rest /\ Kind("ok") \cap rest = {}
  OBVIOUS
<1>4. rest = Kind("failed") \cup Kind("timedOut") /\ Kind("failed") \cap Kind("timedOut") = {}
  BY <1>1
<1>5. IsFiniteSet(rest)
  BY <1>2, FS_Subset
<1>6. /\ Stats(outcomes).confirmed = Cardinality(Kind("ok"))
      /\ Stats(outcomes).failed = Cardinality(Kind("failed"))
      /\ Stats(outcomes).timedOut = Cardinality(Kind("timedOut"))
      /\ Stats(outcomes).attempted = Len(outcomes)
  BY DEF Stats
<1> DEFINE ok == Kind("ok")
           bad == Kind("failed")
           late == Kind("timedOut")
<1> HIDE DEF D, ok, bad, late, rest
<1>7. Cardinality(D) = Cardinality(ok) + Cardinality(rest) /\ Cardinality(ok) \in Nat
  <2>1. D = ok \cup rest /\ ok \cap rest = {}
    BY <1>3 DEF ok
  <2>2. QED
    BY <1>2, <2>1, Disjoint
<1>8. Cardinality(rest) = Cardinality(bad) + Cardinality(late) /\ Cardinality(bad) \in Nat /\ Cardinality(late) \in Nat
  <2>1. rest = bad \cup late /\ bad \cap late = {}
    BY <1>4 DEF bad, late
  <2>2. QED
    BY <1>5, <2>1, Disjoint
<1>9. Stats(outcomes).confirmed = Cardinality(ok) /\ Stats(outcomes).failed = Cardinality(bad) /\ Stats(outcomes).timedOut = Cardinality(late)
  BY <1>6 DEF ok, bad, late
<1>10. QED
  BY <1>2, <1>6, <1>7, <1>8, <1>9

\* The outcomes in the report are those in memory.
LEMMA OutcomesShown ==
  ASSUME RecordsInv, stage = "ended"
  PROVE  LET shown == Tally(OfRun(records, run))
             s == Stats(outcomes)
         IN /\ shown.confirmed = s.confirmed /\ shown.failed = s.failed /\ shown.timedOut = s.timedOut
            /\ shown.attempted = s.attempted
<1>1. RecordsOK /\ \E b \in 0 .. Len(records) : Since(b)
  BY DEF RecordsInv, RunsApart
<1>2. PICK b \in 0 .. Len(records) : Since(b)
  BY <1>1
<1>3. Len(records) - b = Len(outcomes)
  BY <1>2 DEF Since
<1>4. \A k \in DOMAIN outcomes :
        /\ Record(outcomes[k], run).outcome = "confirmed" <=> outcomes[k].kind = "ok"
        /\ Record(outcomes[k], run).outcome = "failed" <=> outcomes[k].kind = "failed"
        /\ Record(outcomes[k], run).outcome = "timed_out" <=> outcomes[k].kind = "timedOut"
  BY <1>1, OutcomesSettled, RecordFields
<1>5. Cardinality({k \in DOMAIN outcomes : outcomes[k].kind = "ok"}) = Cardinality(Having(OfRun(records, run), "confirmed"))
  BY <1>1, <1>2, <1>3, <1>4, CountsAgree
<1>6. Cardinality({k \in DOMAIN outcomes : outcomes[k].kind = "failed"}) = Cardinality(Having(OfRun(records, run), "failed"))
  BY <1>1, <1>2, <1>3, <1>4, CountsAgree
<1>7. Cardinality({k \in DOMAIN outcomes : outcomes[k].kind = "timedOut"}) = Cardinality(Having(OfRun(records, run), "timed_out"))
  BY <1>1, <1>2, <1>3, <1>4, CountsAgree
<1>8. Cardinality(DOMAIN OfRun(records, run)) = Len(outcomes)
  BY <1>1, <1>2, <1>3, OwnRecords DEF Written
<1>9. QED
  BY <1>5, <1>6, <1>7, <1>8 DEF Tally, Stats

\* The totals in the summary are those that were recorded last.
LEMMA TotalsShown ==
  ASSUME RecordsOK, samples \in Seq(Samples), TotalsLast
  PROVE  LET totals == Totals(SamplesOf(samples, run))
             s == Stats(outcomes)
         IN totals.confirmed = s.confirmed /\ totals.failed = s.failed + s.timedOut
<1> DEFINE own == SamplesOf(samples, run)
           n == Len(samples)
           s == Stats(outcomes)
           c == "confirmed_txs_total"
           f == "failed_txs_total"
           Read(name) == IF Named(own, name) = {} THEN 0 ELSE CHOOSE v \in Latest(own, name) : TRUE
<1>1. n \in Nat /\ DOMAIN samples = 1 .. n
  BY FileDomain
<1>2. /\ n >= 2 /\ samples[n - 1] = Total(c, s.confirmed) /\ samples[n] = Total(f, s.failed + s.timedOut)
  BY DEF TotalsLast
<1>3. /\ DOMAIN own = {k \in 1 .. n : samples[k].run = run}
      /\ \A k \in DOMAIN own : own[k] = samples[k]
  BY <1>1 DEF SamplesOf, OfRun
<1> HIDE DEF n, s, own
<1>4. n - 1 \in DOMAIN own /\ n \in DOMAIN own /\ own[n - 1] = Total(c, s.confirmed) /\ own[n] = Total(f, s.failed + s.timedOut)
  BY <1>1, <1>2, <1>3 DEF Total
<1>5. Latest(own, c) = {s.confirmed} /\ Named(own, c) # {}
  <2>1. n - 1 \in Named(own, c) /\ n \notin Named(own, c) /\ own[n - 1].value = s.confirmed
    BY <1>4 DEF Named, Total
  <2>2. \A k \in Named(own, c) : k \in Int /\ k <= n - 1
    BY <1>1, <1>3, <2>1 DEF Named
  <2>3. {j \in Named(own, c) : \A i \in Named(own, c) : i <= j} = {n - 1}
    BY <1>1, <2>1, <2>2
  <2>4. QED
    BY <2>1, <2>3 DEF Latest
<1>6. Latest(own, f) = {s.failed + s.timedOut} /\ Named(own, f) # {}
  <2>1. n \in Named(own, f) /\ own[n].value = s.failed + s.timedOut
    BY <1>4 DEF Named, Total
  <2>2. \A k \in Named(own, f) : k \in Int /\ k <= n
    BY <1>1, <1>3 DEF Named
  <2>3. {j \in Named(own, f) : \A i \in Named(own, f) : i <= j} = {n}
    <3> DEFINE F == Named(own, f)
    <3>1. n \in Int /\ n \in F /\ \A k \in F : k \in Int /\ k <= n
      BY <1>1, <2>1, <2>2
    <3> HIDE DEF F
    <3>2. \A j \in F : n <= j => j = n
      BY <3>1
    <3>3. QED
      BY <3>1, <3>2 DEF F
  <2>4. QED
    BY <2>1, <2>3 DEF Latest
<1>7. Read(c) = s.confirmed /\ Read(f) = s.failed + s.timedOut
  <2>1. \A x : (CHOOSE v \in {x} : TRUE) = x
    OBVIOUS
  <2>2. QED
    BY <1>5, <1>6, <2>1
<1>8. Totals(own).confirmed = Read(c) /\ Totals(own).failed = Read(f)
  BY DEF Totals
<1>9. QED
  BY <1>7, <1>8 DEF own, s
LEMMA NoSummaryYet ==
  ASSUME samples' \in Seq(Samples'), summary' = {}, stage' # "tally"
  PROVE  SummaryInv'
BY DEF SummaryInv

LEMMA SamplesKept ==
  ASSUME UNCHANGED <<feed, samples>>, samples \in Seq(Samples)
  PROVE  samples' \in Seq(Samples')
BY DEF Samples

LEMMA SummaryStep ==
  ASSUME RecordsInv, SummaryInv, [Next]_vars
  PROVE  SummaryInv'
<1> USE DEF SummaryInv
<1>0. samples \in Seq(Samples) /\ (stage # "ended" => summary = {})
  OBVIOUS
<1>f. RecordsOK /\ feed \in DOMAIN Feeds /\ run \in Nat
  BY DEF RecordsInv, RecordsOK
<1> HIDE DEF SummaryInv
<1>1. CASE Mark
  <2>1. /\ UNCHANGED <<feed, samples, summary>>
        /\ stage \in DOMAIN PhaseAfter /\ stage' = PhaseAfter[stage]
    BY <1>1 DEF Mark, fileVars
  <2>2. stage # "ended" /\ stage' # "tally"
    BY <2>1 DEF PhaseAfter
  <2>3. QED
    BY <1>0, <2>1, <2>2, SamplesKept, NoSummaryYet
<1>2. CASE Tick
  <2>1. UNCHANGED <<feed, run, stage, outcomes, calls, samples, records, summary>>
    BY <1>2 DEF Tick, fileVars
  <2>2. QED
    BY <2>1 DEF SummaryInv, Samples, TotalsLast, Mine, Total
<1>3. CASE AbortSetup
  <2>1. UNCHANGED <<feed, samples, summary>> /\ stage # "ended" /\ stage' = "aborted"
    BY <1>3 DEF AbortSetup, fileVars, Setup
  <2>2. QED
    BY <1>0, <2>1, SamplesKept, NoSummaryYet
<1>4. CASE RefuseLoad
  <2>1. UNCHANGED <<feed, samples, summary>> /\ stage # "ended" /\ stage' = "refused"
    BY <1>4 DEF RefuseLoad, fileVars
  <2>2. QED
    BY <1>0, <2>1, SamplesKept, NoSummaryYet
<1>5. ASSUME NEW c \in Feeds[feed].calls, RecordCall(c)
      PROVE  SummaryInv'
  <2>1. /\ UNCHANGED <<feed, stage, samples, summary>>
        /\ stage = c.phase \/ stage = "load"
    BY <1>5 DEF RecordCall
  <2>2. c.phase \in Phases
    BY <1>f, FeedsAssumption DEF Phases
  <2>3. stage # "ended" /\ stage # "tally"
    BY <2>1, <2>2 DEF Phases, Setup, Workload
  <2>4. QED
    BY <1>0, <2>1, <2>3, SamplesKept, NoSummaryYet
<1>6. ASSUME NEW m \in Feeds[feed].samples, RecordMetric(m)
      PROVE  SummaryInv'
  <2>1. UNCHANGED <<feed, stage, summary>> /\ stage = "load" /\ samples' = Append(samples, [m EXCEPT !.run = run])
    BY <1>6 DEF RecordMetric
  <2>2. [m EXCEPT !.run = run] \in Samples
    BY <1>f DEF Samples
  <2>3. Append(samples, [m EXCEPT !.run = run]) \in Seq(Samples)
    BY <1>0, <2>2, AppendProperties
  <2>4. samples' \in Seq(Samples')
    <3>1. Samples' = Samples
      BY <2>1 DEF Samples
    <3>2. QED
      BY <2>1, <2>3, <3>1
  <2>5. QED
    BY <1>0, <2>1, <2>4, NoSummaryYet
<1>7. ASSUME NEW o \in Feeds[feed].outcomes, Settle(o)
      PROVE  SummaryInv'
  <2>1. UNCHANGED <<feed, stage, samples, summary>> /\ stage # "ended" /\ stage # "tally"
    BY <1>7 DEF Settle, fileVars, Workload
  <2>2. QED
    BY <1>0, <2>1, SamplesKept, NoSummaryYet
<1>8. CASE EndLoad
  <2> DEFINE s == Stats(outcomes)
             a == Total("confirmed_txs_total", s.confirmed)
             b == Total("failed_txs_total", s.failed + s.timedOut)
             n == Len(samples)
  <2>1. /\ UNCHANGED <<feed, run, outcomes, summary>> /\ stage = "drain" /\ stage' = "tally"
        /\ samples' = samples \o <<a, b>>
    BY <1>8 DEF EndLoad, Total
  <2>2. a \in Samples /\ b \in Samples
    <3>1. s.confirmed \in Nat /\ s.failed + s.timedOut \in Nat
      BY <1>f, KindsAddUp
    <3> HIDE DEF s
    <3>2. QED
      BY <1>f, <3>1 DEF Samples, Total
  <2> HIDE DEF a, b
  <2>3. <<a, b>> \in Seq(Samples) /\ Len(<<a, b>>) = 2 /\ <<a, b>>[1] = a /\ <<a, b>>[2] = b
    BY <2>2
  <2>4. n \in Nat
    BY <1>0, LenProperties
  <2>5. /\ samples' \in Seq(Samples) /\ Len(samples') = n + 2
        /\ \A i \in 1 .. n + 2 : samples'[i] = IF i <= n THEN samples[i] ELSE <<a, b>>[i - n]
    BY <1>0, <2>1, <2>3, ConcatProperties
  <2>6. samples'[n + 1] = a /\ samples'[n + 2] = b
    <3>1. n + 1 \in 1 .. n + 2 /\ n + 2 \in 1 .. n + 2 /\ ~(n + 1 <= n) /\ ~(n + 2 <= n) /\ n + 1 - n = 1 /\ n + 2 - n = 2
      BY <2>4
    <3> HIDE DEF n
    <3> DEFINE pair == <<a, b>>
               Cell(i) == IF i <= n THEN samples[i] ELSE pair[i - n]
    <3>2. \A i \in 1 .. n + 2 : samples'[i] = Cell(i)
      BY <2>5
    <3> HIDE DEF pair
    <3>3. Cell(n + 1) = pair[1] /\ Cell(n + 2) = pair[2]
      BY <2>4, <3>1
    <3> HIDE DEF Cell
    <3>4. samples'[n + 1] = Cell(n + 1) /\ samples'[n + 2] = Cell(n + 2)
      BY <3>1, <3>2
    <3>5. QED
      BY <2>3, <3>3, <3>4 DEF pair
  <2>7. n + 2 >= 2 /\ (n + 2) - 1 = n + 1
    BY <2>4
  <2>8. TotalsLast'
    <3>1. Total("confirmed_txs_total", s.confirmed)' = a /\ Total("failed_txs_total", s.failed + s.timedOut)' = b
      BY <2>1 DEF a, b, Total
    <3> HIDE DEF n
    <3>2. Len(samples') >= 2 /\ samples'[Len(samples') - 1] = a /\ samples'[Len(samples')] = b
      BY <2>5, <2>6, <2>7
    <3>3. QED
      BY <3>1, <3>2 DEF TotalsLast
  <2>9. samples' \in Seq(Samples') /\ summary' = {}
    BY <1>0, <2>1, <2>5 DEF Samples
  <2>10. QED
    BY <2>8, <2>9 DEF SummaryInv
<1>9. CASE RecordIntent
  <2>1. UNCHANGED <<feed, run, outcomes, samples, summary>> /\ stage = "tally"
    BY <1>9 DEF RecordIntent
  <2>2. TotalsLast /\ summary' = {}
    BY <1>0, <2>1 DEF SummaryInv
  <2>3. TotalsLast'
    BY <2>1, <2>2 DEF TotalsLast, Total
  <2>4. samples' \in Seq(Samples')
    BY <1>0, <2>1, SamplesKept
  <2>5. QED
    BY <2>2, <2>3, <2>4 DEF SummaryInv
<1>10. CASE Finalise
  <2>1. UNCHANGED <<feed, run, outcomes, calls, samples, records>>
    BY <1>10 DEF Finalise, fileVars
  <2>2. samples' \in Seq(Samples')
    BY <1>0, <2>1, SamplesKept
  <2>3. CASE stage = "tally" /\ WriteArtifacts(Evaluate(Stats(outcomes), OfRun(records, run)), TRUE)
    <3>1. stage' = "ended" /\ summary' = {SummaryOf(OfRun(calls, run), SamplesOf(samples, run), OfRun(records, run))}
      BY <2>3 DEF WriteArtifacts
    <3>2. summary' = {SummaryOf(Mine, SamplesOf(samples, run), OfRun(records, run))}'
      BY <2>1, <3>1 DEF Mine
    <3>3. TotalsLast
      BY <2>3 DEF SummaryInv
    <3>4. TotalsLast'
      BY <2>1, <3>3 DEF TotalsLast, Total
    <3>5. QED
      BY <2>2, <3>1, <3>2, <3>4 DEF SummaryInv
  <2>4. CASE WriteArtifacts({"none"}, FALSE)
    <3>1. stage' = "ended" /\ summary' = {}
      BY <2>4 DEF WriteArtifacts
    <3>2. QED
      BY <2>2, <3>1, NoSummaryYet
  <2>5. QED
    BY <1>10, <2>3, <2>4 DEF Finalise
<1>11. CASE Kill
  <2>1. UNCHANGED <<feed, samples, summary>> /\ stage # "ended" /\ stage' = "killed"
    BY <1>11 DEF Kill, Ended
  <2>2. QED
    BY <1>0, <2>1, SamplesKept, NoSummaryYet
<1>12. CASE NextRun
  <2>1. UNCHANGED <<feed, samples>> /\ summary' = {} /\ stage' = "bootstrap"
    BY <1>12 DEF NextRun, fileVars
  <2>2. QED
    BY <1>0, <2>1, SamplesKept, NoSummaryYet
<1>13. CASE UNCHANGED vars
  <2>1. UNCHANGED <<feed, run, stage, outcomes, calls, samples, records, summary>>
    BY <1>13 DEF vars, fileVars
  <2>2. QED
    BY <2>1 DEF SummaryInv, Samples, TotalsLast, Mine, Total
<1>14. QED
  BY <1>1, <1>2, <1>3, <1>4, <1>5, <1>6, <1>7, <1>8, <1>9, <1>10, <1>11, <1>12, <1>13 DEF Next

LEMMA InitSummaryInv == Init => SummaryInv
<1> SUFFICES ASSUME Init
             PROVE  SummaryInv
  OBVIOUS
<1>1. samples = <<>> /\ summary = {} /\ stage = "bootstrap"
  BY DEF Init
<1>2. QED
  BY <1>1 DEF SummaryInv
\* Errors of the last attempts are errors of attempts.
LEMMA ErrorsListed ==
  ASSUME CallsInv, feed \in DOMAIN Feeds, NEW m, NEW code \in Row(Mine, m, Workload).codes
  PROVE  <<"workload", m, code>> \in Notable("workload", Rows(Mine, "workload"))
<1> DEFINE C == CallsTo(Mine, m, Workload)
           R == Representatives(Mine, C)
           rows == Rows(Mine, "workload")
<1>1. code \in {Mine[k].code : k \in {j \in R : ~Mine[j].ok}} \ {"none"}
  <2> HIDE DEF C
  <2>1. Row(Mine, m, Workload).codes = {Mine[k].code : k \in {j \in R : ~Mine[j].ok}} \ {"none"}
    BY DEF Row, Aggregate, C
  <2>2. QED
    BY <2>1
<1>2. PICK k \in R : Mine[k].code = code
  BY <1>1
<1>3. k \in Scoped(Mine, Workload) /\ Mine[k].method = m
  BY <1>2 DEF Representatives, CallsTo
<1> DEFINE S == InTable(Mine, "workload")
           Key(i) == <<Mine[i].method, Mine[i].backend>>
           Of(y) == {i \in S : Key(i) = y}
           Cells(y) == [calls |-> Cardinality(Of(y)), errors |-> Cardinality({i \in Of(y) : ~Mine[i].ok}),
                        latency |-> Quantiles(Latencies(Mine, Of(y))),
                        codes |-> {Mine[i].code : i \in Of(y)} \ {"none"}]
<1>4. rows = [y \in {Key(i) : i \in S} |-> Cells(y)]
  BY DEF Rows
<1>5. k \in S
  BY <1>3, InTables
<1>6. code \in Cells(Key(k)).codes
  <2>1. code # "none"
    BY <1>1
  <2>2. code \in {Mine[i].code : i \in Of(Key(k))} \ {"none"}
    BY <1>2, <1>5, <2>1
  <2>3. QED
    BY <2>2
<1>7. Key(k) \in DOMAIN rows /\ rows[Key(k)] = Cells(Key(k))
  <2> HIDE DEF rows, Cells
  <2>1. QED
    BY <1>4, <1>5
<1>8. Key(k)[1] = m
  BY <1>3
<1> HIDE DEF rows, Cells, Key
<1>9. code \in rows[Key(k)].codes
  BY <1>6, <1>7
<1>10. <<"workload", Key(k)[1], code>> \in Notable("workload", rows)
  BY <1>7, <1>9 DEF Notable
<1>11. QED
  BY <1>8, <1>10 DEF rows

\* The health of a run is of the samples its summary is made of.
LEMMA HealthShown ==
  ASSUME NEW own
  PROVE  /\ Health(own).saturations = Totals(own).saturations
         /\ Health(own).proving = Totals(own).proving
         /\ Totals(own).peakMempool \subseteq Health(own).mempoolTxs \cup {0}
<1> DEFINE V == {own[k].value : k \in Named(own, "mempool_tx_count")}
<1>1. Health(own).saturations = Saturations(own) /\ Totals(own).saturations = Saturations(own)
  BY DEF Health, Totals
<1>2. Health(own).proving = Totals(own).proving
  BY DEF Health, Totals
<1>3. Totals(own).peakMempool = Highest({0} \cup V) /\ Health(own).mempoolTxs = Highest(V)
  BY DEF Health, Totals, PeakOf
<1> HIDE DEF V
<1>4. Highest({0} \cup V) \subseteq Highest(V) \cup {0}
  BY DEF Highest
<1>5. QED
  BY <1>1, <1>2, <1>3, <1>4

LEMMA SummaryShown ==
  ASSUME CallsInv, RecordsInv, SummaryInv
  PROVE  SummaryAgreesWithReport
<1> DEFINE report == ReportOf(calls, samples, records, warnings, manifest)
           shown == report.loadResults[run]
           mine == OfRun(calls, run)
           All(phases) == Cardinality(Scoped(mine, phases))
           activity == SetupActivity(mine)
           Repeated(m) == {k \in CallsTo(calls, m, Workload) : calls[k].run = run /\ ~LastAttempt(k)}
           health == report.health[run]
           own == SamplesOf(samples, run)
           kept == OfRun(records, run)
           s == SummaryOf(mine, own, kept)
           stats == Stats(outcomes)
           rows == Rows(mine, "workload")
           setup == Rows(mine, "setup")
<1> SUFFICES ASSUME summary # {}
             PROVE  /\ s.totals.confirmed = shown.confirmed
                    /\ s.totals.failed = shown.failed + shown.timedOut
                    /\ s.attempted = shown.attempted
                    /\ \A m \in Roster :
                         CallsSummed(s.workload, {key \in DOMAIN s.workload : key[1] = m})
                           = Row(mine, m, Workload).calls + Cardinality(Repeated(m))
                    /\ \A m \in Roster : \A code \in Row(mine, m, Workload).codes :
                         <<"workload", m, code>> \in s.errors
                    /\ CallsSummed(s.workload, DOMAIN s.workload) = All(Workload)
                    /\ CallsSummed(s.setup, DOMAIN s.setup) = All(Setup)
                    /\ CallsSummed(activity.exercised, DOMAIN activity.exercised)
                         + CallsSummed(activity.unlisted, DOMAIN activity.unlisted) = All(Setup)
                    /\ s.unknown = IF run \in DOMAIN report.unknown THEN report.unknown[run] ELSE 0
                    /\ run \in DOMAIN report.health =>
                         /\ health.saturations = s.totals.saturations
                         /\ health.proving = s.totals.proving
                         /\ s.totals.peakMempool \subseteq health.mempoolTxs \cup {0}
  <2>1. \A x \in summary : x = s
    BY DEF SummaryInv, Mine
  <2> HIDE DEF report, shown, mine, All, activity, health, s, Repeated
  <2>2. CASE summary = {}
    BY <2>2 DEF SummaryAgreesWithReport
  <2>3. CASE summary # {}
    BY <2>1, <2>3 DEF SummaryAgreesWithReport, report, shown, mine, All, activity, health, Repeated
  <2>4. QED
    BY <2>2, <2>3
<1>1. /\ stage = "ended" /\ TotalsLast /\ samples \in Seq(Samples)
      /\ RecordsOK /\ feed \in DOMAIN Feeds /\ run \in Nat /\ run \in 1 .. run /\ DOMAIN warnings = 1 .. run
  <2>1. RecordsOK
    BY DEF RecordsInv
  <2>2. feed \in DOMAIN Feeds /\ run \in Nat /\ run \in 1 .. run /\ DOMAIN warnings = 1 .. run
    BY <2>1 DEF RecordsOK
  <2>3. QED
    BY <2>1, <2>2 DEF SummaryInv
<1>2. /\ s.totals = Totals(own) /\ s.attempted = Totals(own).confirmed + Totals(own).failed
      /\ s.workload = rows /\ s.setup = setup
      /\ s.unknown = Cardinality(InTable(mine, "unknown"))
      /\ s.errors = Notable("workload", rows) \cup Notable("setup", setup)
  BY DEF SummaryOf
<1>3. /\ report.loadResults = LoadResults(records, 1 .. run)
      /\ report.health = HealthByRun(samples, 1 .. run)
      /\ report.unknown = UnknownPhase(calls)
  BY <1>1 DEF ReportOf
<1>4. shown = Tally(kept)
  BY <1>1, <1>3 DEF LoadResults
<1>m. mine = Mine
  BY DEF Mine
<1>t. Totals(own).confirmed = stats.confirmed /\ Totals(own).failed = stats.failed + stats.timedOut
  BY <1>1, TotalsShown
<1>o. shown.confirmed = stats.confirmed /\ shown.failed = stats.failed /\ shown.timedOut = stats.timedOut /\ shown.attempted = stats.attempted
  <2>1. LET tally == Tally(OfRun(records, run))
        IN /\ tally.confirmed = stats.confirmed /\ tally.failed = stats.failed /\ tally.timedOut = stats.timedOut
           /\ tally.attempted = stats.attempted
    BY <1>1, OutcomesShown
  <2> HIDE DEF shown, stats
  <2>2. QED
    BY <1>4, <2>1
<1>k. stats.attempted = stats.confirmed + (stats.failed + stats.timedOut)
  BY <1>1, KindsAddUp
<1> HIDE DEF s, report, shown, stats, own, kept, mine, rows, setup
<1>5. /\ s.totals.confirmed = shown.confirmed
      /\ s.totals.failed = shown.failed + shown.timedOut
      /\ s.attempted = shown.attempted
  BY <1>2, <1>t, <1>o, <1>k
<1>6. IsFiniteSet(DOMAIN mine)
  BY <1>m, MineFields
<1>7. /\ InTable(mine, "workload") = Scoped(mine, Workload)
      /\ InTable(mine, "setup") = Scoped(mine, Setup)
      /\ InTable(mine, "unknown") = Scoped(mine, {"unknown"})
  BY <1>1, <1>m, InTables
<1>8. ASSUME NEW table, NEW keys \in SUBSET DOMAIN Rows(mine, table)
      PROVE  CallsSummed(Rows(mine, table), keys)
               = Cardinality({k \in InTable(mine, table) : <<mine[k].method, mine[k].backend>> \in keys})
  BY <1>6, TableCounted
<1>9. ASSUME NEW table
      PROVE  DOMAIN Rows(mine, table) = {<<mine[k].method, mine[k].backend>> : k \in InTable(mine, table)}
  BY DEF Rows
<1>10. ASSUME NEW table
       PROVE  CallsSummed(Rows(mine, table), DOMAIN Rows(mine, table)) = Cardinality(InTable(mine, table))
  <2>1. {k \in InTable(mine, table) : <<mine[k].method, mine[k].backend>> \in DOMAIN Rows(mine, table)} = InTable(mine, table)
    BY <1>9
  <2>2. QED
    BY <1>8, <2>1
<1>11. ASSUME NEW m
       PROVE  CallsSummed(s.workload, {key \in DOMAIN s.workload : key[1] = m})
                = Row(mine, m, Workload).calls + Cardinality(Repeated(m))
  <2> DEFINE keys == {key \in DOMAIN rows : key[1] = m}
  <2>1. {k \in InTable(mine, "workload") : <<mine[k].method, mine[k].backend>> \in keys} = CallsTo(mine, m, Workload)
    <3>1. \A k \in InTable(mine, "workload") : <<mine[k].method, mine[k].backend>> \in keys <=> mine[k].method = m
      BY <1>9 DEF rows
    <3>2. QED
      BY <1>7, <3>1 DEF CallsTo
  <2>2. keys \in SUBSET DOMAIN Rows(mine, "workload")
    BY DEF rows
  <2>3. CallsSummed(rows, keys) = Cardinality(CallsTo(mine, m, Workload))
    BY <1>8, <2>1, <2>2 DEF rows
  <2>4. Cardinality(CallsTo(mine, m, Workload)) = Row(mine, m, Workload).calls + Cardinality(Repeated(m))
    BY <1>m, RepeatedCounted
  <2>5. QED
    BY <1>2, <2>3, <2>4
<1>12. ASSUME NEW m, NEW code \in Row(mine, m, Workload).codes
       PROVE  <<"workload", m, code>> \in s.errors
  <2>1. <<"workload", m, code>> \in Notable("workload", rows)
    BY <1>1, <1>m, ErrorsListed DEF rows
  <2>2. QED
    BY <1>2, <2>1
<1>13. /\ CallsSummed(s.workload, DOMAIN s.workload) = All(Workload)
       /\ CallsSummed(s.setup, DOMAIN s.setup) = All(Setup)
  BY <1>2, <1>7, <1>10 DEF rows, setup
<1>14. CallsSummed(activity.exercised, DOMAIN activity.exercised)
         + CallsSummed(activity.unlisted, DOMAIN activity.unlisted) = All(Setup)
  BY <1>1, <1>m, ActivityCounted
<1>15. s.unknown = IF run \in DOMAIN report.unknown THEN report.unknown[run] ELSE 0
  <2> DEFINE U == {k \in Scoped(calls, {"unknown"}) : calls[k].run = run}
             runs == {calls[k].run : k \in Scoped(calls, {"unknown"})}
  <2>1. Scoped(mine, {"unknown"}) = U
    BY <1>m, MineFields DEF Scoped
  <2>2. s.unknown = Cardinality(U)
    BY <1>2, <1>7, <2>1
  <2>3. /\ DOMAIN report.unknown = runs
        /\ run \in runs => report.unknown[run] = Cardinality(U)
    BY <1>3 DEF UnknownPhase, CallsOf
  <2>4. run \notin runs => Cardinality(U) = 0
    <3>1. run \notin runs => U = {}
      OBVIOUS
    <3> HIDE DEF U, runs
    <3>2. QED
      BY <3>1, FS_EmptySet
  <2>5. QED
    BY <2>2, <2>3, <2>4
<1>16. ASSUME run \in DOMAIN report.health
       PROVE  /\ report.health[run].saturations = s.totals.saturations
              /\ report.health[run].proving = s.totals.proving
              /\ s.totals.peakMempool \subseteq report.health[run].mempoolTxs \cup {0}
  <2>1. report.health[run] = Health(own)
    BY <1>3, <1>16 DEF HealthByRun, own
  <2>2. QED
    BY <1>2, <2>1, HealthShown
<1>17. QED
  BY <1>5, <1>11, <1>12, <1>13, <1>14, <1>15, <1>16

\* The summary of a run and its part of the report agree (generate_summary against
\* render_report_impl), although one counts samples and every attempt, the other intent
\* records and one call for each intent: in the outcomes, the calls but for what was
\* repeated, the errors and the peaks, for any methods, calls, samples and runs.
THEOREM SummarySafety == Spec => []SummaryAgreesWithReport
<1>1. Init => SummaryInv
  BY InitSummaryInv
<1>2. IInv /\ SummaryInv /\ [Next]_vars => SummaryInv'
  BY SummaryStep DEF IInv
<1>3. IInv /\ SummaryInv => SummaryAgreesWithReport
  BY SummaryShown DEF IInv
<1>4. QED
  BY <1>1, <1>2, <1>3, Invariance, PTL DEF Spec

-----------------------------------------------------------------------------
(***************************************************************************)
(* The load curve: it is of the calls, and not of their order in the file. *)
(***************************************************************************)

LEMMA EarliestExists ==
  ASSUME NEW S, S # {}, NEW at, \A k \in S : at[k] \in Nat
  PROVE  \E x \in S : \A y \in S : at[x] <= at[y]
<1> DEFINE V == {at[k] : k \in S}
<1>1. V \subseteq Nat /\ V # {}
  OBVIOUS
<1>2. PICK n \in V : \A m \in V : <<m, n>> \notin OpToRel(<, Nat)
  <2>1. IsWellFoundedOn(OpToRel(<, Nat), Nat)
    BY NatLessThanWellFounded
  <2> HIDE DEF V
  <2>2. QED
    BY <1>1, <2>1, WFMin
<1>3. \A m \in V : n <= m
  <2> SUFFICES ASSUME NEW m \in V, m < n
               PROVE  FALSE
    <3> HIDE DEF V
    <3>1. \A m \in V : m \in Nat /\ n \in Nat
      BY <1>1
    <3>2. QED
      BY <3>1
  <2>1. <<m, n>> \in OpToRel(<, Nat)
    BY <1>1 DEF OpToRel
  <2>2. QED
    BY <1>2, <2>1
<1>4. PICK x \in S : n = at[x]
  BY <1>2
<1>5. QED
  BY <1>3, <1>4

\* One after the other in the order of their numbers.
Sorts(p, at) ==
  /\ \A i, j \in DOMAIN p : i # j => p[i] # p[j]
  /\ \A i, j \in DOMAIN p : i < j => at[p[i]] <= at[p[j]]

LEMMA PutFirst ==
  ASSUME NEW n \in Nat, NEW S, NEW x, x \notin S, NEW q \in [1 .. n -> S], NEW at, Sorts(q, at),
         \A y \in S : at[x] <= at[y]
  PROVE  \E p \in [1 .. n + 1 -> S \cup {x}] : Sorts(p, at)
<1> DEFINE p == [i \in 1 .. n + 1 |-> IF i = 1 THEN x ELSE q[i - 1]]
<1>1. \A i \in 1 .. n + 1 : i # 1 => i - 1 \in 1 .. n
  OBVIOUS
<1>2. /\ DOMAIN p = 1 .. n + 1 /\ p[1] = x
      /\ \A i \in 1 .. n + 1 : i # 1 => i - 1 \in 1 .. n /\ p[i] = q[i - 1] /\ p[i] \in S
  BY <1>1
<1>3. p \in [1 .. n + 1 -> S \cup {x}]
  BY <1>1
<1> HIDE DEF p
<1>4. ASSUME NEW i \in 1 .. n + 1, NEW j \in 1 .. n + 1, i # j
      PROVE  p[i] # p[j]
  <2>1. CASE i = 1 \/ j = 1
    BY <1>2, <1>4, <2>1
  <2>2. CASE i # 1 /\ j # 1
    <3>1. i - 1 \in 1 .. n /\ j - 1 \in 1 .. n /\ i - 1 # j - 1
      BY <1>1, <1>4, <2>2
    <3>2. q[i - 1] # q[j - 1]
      BY <3>1 DEF Sorts
    <3>3. QED
      BY <1>2, <2>2, <3>2
  <2>3. QED
    BY <2>1, <2>2
<1>5. ASSUME NEW i \in 1 .. n + 1, NEW j \in 1 .. n + 1, i < j
      PROVE  at[p[i]] <= at[p[j]]
  <2>1. j # 1
    BY <1>5
  <2>2. CASE i = 1
    BY <1>2, <2>1, <2>2
  <2>3. CASE i # 1
    <3>1. i - 1 \in 1 .. n /\ j - 1 \in 1 .. n /\ i - 1 < j - 1
      BY <1>1, <1>5, <2>1, <2>3
    <3>2. at[q[i - 1]] <= at[q[j - 1]]
      BY <3>1 DEF Sorts
    <3>3. QED
      BY <1>2, <2>1, <2>3, <3>2
  <2>4. QED
    BY <2>2, <2>3
<1>6. QED
  BY <1>2, <1>3, <1>4, <1>5 DEF Sorts

\* A finite set can be put in order.
LEMMA OrderExists ==
  ASSUME NEW S, IsFiniteSet(S), NEW at, \A k \in S : at[k] \in Nat
  PROVE  \E p \in [1 .. Cardinality(S) -> S] : Sorts(p, at)
<1> DEFINE Good(s) == \E p \in [1 .. Cardinality(s) -> s] : Sorts(p, at)
           Bad == {s \in SUBSET S : ~Good(s)}
<1> SUFFICES ASSUME Bad # {}
             PROVE  FALSE
  <2>1. S \in SUBSET S
    OBVIOUS
  <2>2. QED
    BY <2>1
<1>1. PICK s \in Bad : \A y \in s : s \ {y} \notin Bad
  <2>1. Bad \subseteq SUBSET S
    OBVIOUS
  <2> HIDE DEF Bad
  <2>2. QED
    BY <2>1, SmallestSet
<1>2. s \subseteq S /\ ~Good(s) /\ IsFiniteSet(s)
  BY FS_Subset
<1>3. CASE s = {}
  <2>1. Cardinality(s) = 0 /\ 1 .. 0 = {}
    BY <1>3, FS_EmptySet
  <2> DEFINE p == [i \in {} |-> i]
  <2>2. p \in [1 .. Cardinality(s) -> s] /\ Sorts(p, at)
    BY <2>1 DEF Sorts
  <2>3. QED
    BY <1>2, <2>2
<1>4. CASE s # {}
  <2>1. PICK x \in s : \A y \in s : at[x] <= at[y]
    BY <1>2, <1>4, EarliestExists
  <2> DEFINE rest == s \ {x}
             n == Cardinality(rest)
  <2>2. Good(rest)
    <3>1. rest \notin Bad
      BY <1>1
    <3>2. rest \in SUBSET S
      BY <1>2
    <3> HIDE DEF Good, rest
    <3>3. QED
      BY <3>1, <3>2
  <2>3. IsFiniteSet(rest) /\ n = Cardinality(s) - 1
    BY <1>2, FS_RemoveElement
  <2>4. n \in Nat /\ Cardinality(s) \in Nat
    BY <1>2, <2>3, FS_CardinalityType
  <2>5. x \notin rest /\ rest \cup {x} = s /\ \A y \in rest : at[x] <= at[y]
    BY <2>1
  <2>6. n + 1 = Cardinality(s)
    BY <2>3, <2>4
  <2> HIDE DEF rest, n
  <2>7. \E q \in [1 .. n -> rest] : Sorts(q, at)
    BY <2>2 DEF n
  <2>8. \E p \in [1 .. n + 1 -> rest \cup {x}] : Sorts(p, at)
    BY <2>4, <2>5, <2>7, PutFirst
  <2>9. QED
    BY <1>2, <2>5, <2>6, <2>8
<1>5. QED
  BY <1>3, <1>4

\* Without repetitions it is a bijection.
LEMMA OrderIsBijection ==
  ASSUME NEW S, IsFiniteSet(S), NEW p \in [1 .. Cardinality(S) -> S],
         \A i, j \in DOMAIN p : i # j => p[i] # p[j]
  PROVE  p \in Bijection(1 .. Cardinality(S), S)
<1> DEFINE n == Cardinality(S)
<1>1. n \in Nat
  BY FS_CardinalityType
<1>2. IsFiniteSet(1 .. n) /\ Cardinality(1 .. n) = n
  <2>1. 1 \in Int /\ n \in Int
    BY <1>1
  <2>2. IsFiniteSet(1 .. n) /\ Cardinality(1 .. n) = IF 1 > n THEN 0 ELSE n - 1 + 1
    BY <2>1, FS_Interval
  <2>3. QED
    BY <1>1, <2>2
<1>3. p \in Injection(1 .. n, S)
  BY DEF Injection, IsInjective
<1>4. p \in Surjection(1 .. n, S)
  <2> HIDE DEF n
  <2>1. Cardinality(1 .. n) = Cardinality(S)
    BY <1>2 DEF n
  <2>2. QED
    BY <1>3, <2>1, FS_Injection
<1>5. QED
  BY <1>3, <1>4 DEF Bijection
\* The file g holds, at T, what f holds at S.
Reorders(p, S, f, T, g) ==
  /\ IsFiniteSet(S) /\ IsFiniteSet(T) /\ p \in Bijection(T, S)
  /\ \A i \in T : g[i] = f[p[i]]

\* p takes one part to the other.
Matched(p, A, B) ==
  /\ IsFiniteSet(A) /\ IsFiniteSet(B) /\ Cardinality(A) = Cardinality(B)
  /\ [i \in A |-> p[i]] \in Bijection(A, B)

LEMMA SamePart ==
  ASSUME NEW S, NEW T, IsFiniteSet(S), IsFiniteSet(T), NEW p, p \in Bijection(T, S),
         NEW B, B \in SUBSET S
  PROVE  Matched(p, {i \in T : p[i] \in B}, B)
<1> DEFINE A == {i \in T : p[i] \in B}
           q == [i \in A |-> p[i]]
<1>1. /\ p \in [T -> S] /\ \A i, j \in T : p[i] = p[j] => i = j
      /\ \A k \in S : \E i \in T : p[i] = k
  BY DEF Bijection, Injection, Surjection, IsInjective
<1>2. q \in [A -> B] /\ \A i, j \in A : q[i] = q[j] => i = j
  BY <1>1
<1>3. \A k \in B : \E i \in A : q[i] = k
  BY <1>1
<1>4. q \in Bijection(A, B)
  <2> HIDE DEF q, A
  <2>1. QED
    BY <1>2, <1>3 DEF Bijection, Injection, Surjection, IsInjective
<1>5. IsFiniteSet(A) /\ IsFiniteSet(B)
  BY FS_Subset
<1>6. ExistsBijection(A, B)
  BY <1>4 DEF ExistsBijection
<1> HIDE DEF q, A
<1>7. Cardinality(A) = Cardinality(B)
  BY <1>5, <1>6, FS_Bijection
<1>8. Matched(p, A, B)
  BY <1>4, <1>5, <1>7 DEF q, Matched
<1>9. QED
  BY <1>8 DEF A

\* A percentile is of the values, whoever has them.
LEMMA SamePercentile ==
  ASSUME NEW S, NEW T, IsFiniteSet(S), IsFiniteSet(T), NEW p \in Bijection(T, S),
         NEW v, NEW w, DOMAIN v = S, DOMAIN w = T, \A i \in T : w[i] = v[p[i]], NEW rank
  PROVE  Percentile(w, rank) = Percentile(v, rank)
<1>1. /\ p \in [T -> S] /\ \A k \in S : \E i \in T : p[i] = k
  BY DEF Bijection, Injection, Surjection
<1>2. Cardinality(T) = Cardinality(S)
  <2>1. ExistsBijection(T, S)
    BY DEF ExistsBijection
  <2>2. QED
    BY <2>1, FS_Bijection
<1>3. {w[i] : i \in T} = {v[k] : k \in S}
  BY <1>1
<1>4. ASSUME NEW x
      PROVE  Cardinality({i \in T : w[i] < x}) = Cardinality({k \in S : v[k] < x})
  <2> DEFINE A == {i \in T : w[i] < x}
             B == {k \in S : v[k] < x}
  <2>1. A = {i \in T : p[i] \in B} /\ B \in SUBSET S
    BY <1>1
  <2> HIDE DEF A, B
  <2>2. Matched(p, {i \in T : p[i] \in B}, B)
    BY <2>1, SamePart
  <2>3. QED
    BY <2>1, <2>2 DEF Matched, A, B
<1>5. ASSUME NEW x
      PROVE  Cardinality({i \in T : w[i] <= x}) = Cardinality({k \in S : v[k] <= x})
  <2> DEFINE A == {i \in T : w[i] <= x}
             B == {k \in S : v[k] <= x}
  <2>1. A = {i \in T : p[i] \in B} /\ B \in SUBSET S
    BY <1>1
  <2> HIDE DEF A, B
  <2>2. Matched(p, {i \in T : p[i] \in B}, B)
    BY <2>1, SamePart
  <2>3. QED
    BY <2>1, <2>2 DEF Matched, A, B
<1> DEFINE n == Cardinality(S)
           place == IF (rank * n) \div 100 < n THEN (rank * n) \div 100 ELSE n - 1
           BelowV(x) == Cardinality({k \in S : v[k] < x})
           UpToV(x) == Cardinality({k \in S : v[k] <= x})
           BelowW(x) == Cardinality({i \in T : w[i] < x})
           UpToW(x) == Cardinality({i \in T : w[i] <= x})
           values == {v[k] : k \in S}
           pickV == CHOOSE x \in values : BelowV(x) <= place /\ place < UpToV(x)
           pickW == CHOOSE x \in values : BelowW(x) <= place /\ place < UpToW(x)
<1>6. Percentile(v, rank) = IF n = 0 THEN 0 ELSE pickV
  BY DEF Percentile
<1>7. Percentile(w, rank) = IF n = 0 THEN 0 ELSE pickW
  <2> DEFINE m == Cardinality(T)
             at == IF (rank * m) \div 100 < m THEN (rank * m) \div 100 ELSE m - 1
             pick == CHOOSE x \in {w[i] : i \in T} : BelowW(x) <= at /\ at < UpToW(x)
  <2>1. Percentile(w, rank) = IF m = 0 THEN 0 ELSE pick
    BY DEF Percentile
  <2>2. m = n /\ at = place /\ {w[i] : i \in T} = values
    BY <1>2, <1>3
  <2> HIDE DEF BelowW, UpToW, m, n, at, place, values
  <2>3. pick = pickW
    BY <2>2
  <2>4. QED
    BY <2>1, <2>2, <2>3
<1>8. pickV = pickW
  <2>1. \A x \in values : BelowV(x) = BelowW(x) /\ UpToV(x) = UpToW(x)
    BY <1>4, <1>5
  <2> HIDE DEF BelowV, UpToV, BelowW, UpToW, values, place
  <2>2. QED
    BY <2>1
<1> HIDE DEF pickV, pickW, n
<1>9. QED
  BY <1>6, <1>7, <1>8

\* Two parts of two files amount to the same.
Alike(g, A, f, B) ==
  /\ Cardinality(A) = Cardinality(B)
  /\ Cardinality({i \in A : g[i].ok}) = Cardinality({k \in B : f[k].ok})
  /\ Cardinality({i \in A : ~g[i].ok}) = Cardinality({k \in B : ~f[k].ok})
  /\ Quantiles(Latencies(g, A)) = Quantiles(Latencies(f, B))

LEMMA SameFigures ==
  ASSUME NEW p, NEW S, NEW f, NEW T, NEW g, Reorders(p, S, f, T, g), NEW B, B \in SUBSET S
  PROVE  Alike(g, {i \in T : p[i] \in B}, f, B)
<1> DEFINE A == {i \in T : p[i] \in B}
<1>1. IsFiniteSet(S) /\ IsFiniteSet(T) /\ p \in Bijection(T, S) /\ \A i \in T : g[i] = f[p[i]]
  BY DEF Reorders
<1>2. p \in [T -> S]
  BY <1>1 DEF Bijection, Injection
<1>3. /\ IsFiniteSet(A) /\ IsFiniteSet(B) /\ Cardinality(A) = Cardinality(B)
      /\ [i \in A |-> p[i]] \in Bijection(A, B)
  <2>1. Matched(p, A, B)
    BY <1>1, SamePart
  <2>2. QED
    BY <2>1 DEF Matched
<1>4. Cardinality({i \in A : g[i].ok}) = Cardinality({k \in B : f[k].ok})
  <2> DEFINE C == {k \in B : f[k].ok}
             D == {i \in A : g[i].ok}
  <2>1. D = {i \in T : p[i] \in C} /\ C \in SUBSET S
    BY <1>1, <1>2
  <2> HIDE DEF C, D
  <2>2. Matched(p, {i \in T : p[i] \in C}, C)
    BY <1>1, <2>1, SamePart
  <2>3. QED
    BY <2>1, <2>2 DEF Matched, C, D
<1>5. Cardinality({i \in A : ~g[i].ok}) = Cardinality({k \in B : ~f[k].ok})
  <2> DEFINE C == {k \in B : ~f[k].ok}
             D == {i \in A : ~g[i].ok}
  <2>1. D = {i \in T : p[i] \in C} /\ C \in SUBSET S
    BY <1>1, <1>2
  <2> HIDE DEF C, D
  <2>2. Matched(p, {i \in T : p[i] \in C}, C)
    BY <1>1, <2>1, SamePart
  <2>3. QED
    BY <2>1, <2>2 DEF Matched, C, D
<1>6. ASSUME NEW rank
      PROVE  Percentile(Latencies(g, A), rank) = Percentile(Latencies(f, B), rank)
  <2> DEFINE v == Latencies(f, B)
             w == Latencies(g, A)
             q == [i \in A |-> p[i]]
  <2>1. DOMAIN v = B /\ DOMAIN w = A
    BY DEF Latencies
  <2>2. \A i \in A : w[i] = v[q[i]]
    BY <1>1, <1>2 DEF Latencies
  <2> HIDE DEF v, w, A
  <2>3. q \in Bijection(A, B)
    BY <1>3
  <2> HIDE DEF q
  <2>4. Percentile(w, rank) = Percentile(v, rank)
    BY <1>3, <2>1, <2>2, <2>3, SamePercentile
  <2>5. QED
    BY <2>4 DEF v, w
<1>7. Quantiles(Latencies(g, A)) = Quantiles(Latencies(f, B))
  BY <1>6 DEF Quantiles
<1>8. QED
  BY <1>3, <1>4, <1>5, <1>7 DEF Alike
LEMMA SameWindow ==
  ASSUME NEW p, NEW S, NEW f, NEW T, NEW g, Reorders(p, S, f, T, g)
  PROVE  /\ \A i \in T : p[i] \in S /\ WindowOf(g, T, i) = WindowOf(f, S, p[i])
         /\ Windows(g, T) = Windows(f, S)
<1>1. /\ p \in [T -> S] /\ \A k \in S : \E i \in T : p[i] = k
      /\ \A i \in T : g[i] = f[p[i]]
  BY DEF Reorders, Bijection, Injection, Surjection
<1>2. {g[i].at : i \in T} = {f[k].at : k \in S}
  BY <1>1
<1>3. \A i \in T : p[i] \in S /\ g[i].at = f[p[i]].at
  BY <1>1
<1>4. \A i \in T : WindowOf(g, T, i) = WindowOf(f, S, p[i])
  BY <1>2, <1>3 DEF WindowOf
<1>5. Windows(g, T) = Windows(f, S)
  BY <1>1, <1>4 DEF Windows
<1>6. QED
  BY <1>3, <1>4, <1>5

LEMMA SameCurve ==
  ASSUME NEW p, NEW S, NEW f, NEW T, NEW g, Reorders(p, S, f, T, g)
  PROVE  Curve(g, T) = Curve(f, S) /\ Throughput(g, T) = Throughput(f, S)
<1> DEFINE In(w) == {k \in S : WindowOf(f, S, k) = w}
           Ours(w) == {i \in T : WindowOf(g, T, i) = w}
           Point(file, W) == [calls |-> Cardinality(W), errors |-> Cardinality({k \in W : ~file[k].ok}),
                              latency |-> Quantiles(Latencies(file, W))]
<1>1. ASSUME NEW w
      PROVE  Cardinality(Ours(w)) = Cardinality(In(w)) /\ Point(g, Ours(w)) = Point(f, In(w))
  <2>1. Ours(w) = {i \in T : p[i] \in In(w)}
    BY SameWindow
  <2> DEFINE A == Ours(w)
             B == In(w)
  <2>2. A = {i \in T : p[i] \in B} /\ B \in SUBSET S
    BY <2>1
  <2> HIDE DEF A, B
  <2>3. Alike(g, {i \in T : p[i] \in B}, f, B)
    BY <2>2, SameFigures
  <2>4. Alike(g, A, f, B)
    BY <2>2, <2>3
  <2>5. Point(g, A) = Point(f, B)
    BY <2>4 DEF Alike
  <2>6. QED
    BY <2>4, <2>5 DEF A, B, Alike
<1>2. Curve(f, S) = [w \in Windows(f, S) |-> Point(f, In(w))]
  BY DEF Curve
<1>3. Curve(g, T) = [w \in Windows(g, T) |-> Point(g, Ours(w))]
  BY DEF Curve
<1>4. /\ Throughput(f, S) = [w \in Windows(f, S) |-> Cardinality(In(w))]
      /\ Throughput(g, T) = [w \in Windows(g, T) |-> Cardinality(Ours(w))]
  BY DEF Throughput
<1>5. Windows(g, T) = Windows(f, S)
  BY SameWindow
<1> HIDE DEF In, Ours, Point
<1>6. QED
  BY <1>1, <1>2, <1>3, <1>4, <1>5

LEMMA SameWindowStats ==
  ASSUME NEW p, NEW S, NEW f, NEW T, NEW g, Reorders(p, S, f, T, g)
  PROVE  WindowStats(g, T) = WindowStats(f, S)
<1> DEFINE KeyF(k) == <<f[k].method, f[k].backend, WindowOf(f, S, k)>>
           KeyG(i) == <<g[i].method, g[i].backend, WindowOf(g, T, i)>>
           In(key) == {k \in S : KeyF(k) = key}
           Ours(key) == {i \in T : KeyG(i) = key}
           Point(file, W) == [calls |-> Cardinality(W), successes |-> Cardinality({k \in W : file[k].ok}),
                              latency |-> Quantiles(Latencies(file, W))]
<1>1. /\ p \in [T -> S] /\ \A k \in S : \E i \in T : p[i] = k
      /\ \A i \in T : g[i] = f[p[i]]
  BY DEF Reorders, Bijection, Injection, Surjection
<1>2. \A i \in T : p[i] \in S /\ KeyG(i) = KeyF(p[i])
  <2>1. \A i \in T : p[i] \in S /\ WindowOf(g, T, i) = WindowOf(f, S, p[i])
    BY SameWindow
  <2>2. QED
    BY <1>1, <2>1
<1>3. WindowStats(f, S) = [key \in {KeyF(k) : k \in S} |-> Point(f, In(key))]
  BY DEF WindowStats
<1>4. WindowStats(g, T) = [key \in {KeyG(i) : i \in T} |-> Point(g, Ours(key))]
  BY DEF WindowStats
<1> HIDE DEF KeyF, KeyG
<1>5. {KeyG(i) : i \in T} = {KeyF(k) : k \in S}
  BY <1>1, <1>2
<1>6. ASSUME NEW key
      PROVE  Point(g, Ours(key)) = Point(f, In(key))
  <2>1. Ours(key) = {i \in T : p[i] \in In(key)}
    BY <1>2
  <2> DEFINE A == Ours(key)
             B == In(key)
  <2>2. A = {i \in T : p[i] \in B} /\ B \in SUBSET S
    BY <2>1
  <2> HIDE DEF A, B
  <2>3. Alike(g, {i \in T : p[i] \in B}, f, B)
    BY <2>2, SameFigures
  <2>4. Alike(g, A, f, B)
    BY <2>2, <2>3
  <2>5. Point(g, A) = Point(f, B)
    BY <2>4 DEF Alike
  <2>6. QED
    BY <2>5 DEF A, B
<1> HIDE DEF In, Ours, Point
<1>7. QED
  BY <1>3, <1>4, <1>5, <1>6

LEMMA CurveShown ==
  ASSUME CallsInv, feed \in DOMAIN Feeds
  PROVE  CurveIgnoresFileOrder
<1> SUFFICES ASSUME NEW r \in Runs, CallsOf(calls, r, Workload) # {}
             PROVE  LET S == CallsOf(calls, r, Workload)
                        order == ByRequest(S)
                        sorted == [i \in DOMAIN order |-> calls[order[i]]]
                        T == DOMAIN sorted
                        curve == Curve(sorted, T)
                    IN /\ LoadCurves(calls, Runs)[r] = [points |-> curve, peak |-> Peak(curve),
                                                        degradation |-> Degradation(curve)]
                       /\ Throughput(calls, S) = Throughput(sorted, T)
                       /\ WindowStats(calls, S) = WindowStats(sorted, T)
  BY DEF CurveIgnoresFileOrder
<1> DEFINE S == CallsOf(calls, r, Workload)
           n == Cardinality(S)
           at == [k \in S |-> calls[k].at]
           order == ByRequest(S)
           sorted == [i \in DOMAIN order |-> calls[order[i]]]
           T == DOMAIN sorted
<1>1. IsFiniteSet(S) /\ \A k \in S : k \in DOMAIN calls
  <2>1. Len(calls) \in Nat /\ DOMAIN calls = 1 .. Len(calls)
    BY FileDomain DEF CallsInv
  <2>2. IsFiniteSet(DOMAIN calls)
    BY <2>1, FS_Interval
  <2>3. S \subseteq DOMAIN calls
    BY DEF CallsOf, Scoped
  <2>4. QED
    BY <2>2, <2>3, FS_Subset
<1>2. \A k \in S : at[k] \in Nat /\ at[k] = calls[k].at
  BY <1>1, CallFields
<1> HIDE DEF S
<1>3. PICK p \in [1 .. n -> S] : Sorts(p, at)
  <2> HIDE DEF at
  <2>1. QED
    BY <1>1, <1>2, OrderExists
<1>4. /\ \A i, j \in DOMAIN p : i # j => p[i] # p[j]
      /\ \A i, j \in DOMAIN p : i < j => calls[p[i]].at <= calls[p[j]].at
  <2>1. \A i \in DOMAIN p : p[i] \in S
    BY <1>3
  <2> HIDE DEF at
  <2>2. QED
    BY <1>2, <1>3, <2>1 DEF Sorts
<1>5. order \in [1 .. n -> S] /\ \A i, j \in DOMAIN order : i # j => order[i] # order[j]
  BY <1>3, <1>4 DEF ByRequest
<1>6. order \in Bijection(1 .. n, S)
  <2> HIDE DEF order
  <2>1. QED
    BY <1>1, <1>5, OrderIsBijection
<1>7. T = 1 .. n /\ \A i \in T : sorted[i] = calls[order[i]]
  <2> HIDE DEF order
  <2>1. DOMAIN order = 1 .. n
    BY <1>5
  <2>2. QED
    BY <2>1
<1>8. IsFiniteSet(1 .. n)
  <2>1. n \in Nat
    BY <1>1, FS_CardinalityType
  <2>2. 1 \in Int /\ n \in Int
    BY <2>1
  <2> HIDE DEF n
  <2>3. QED
    BY <2>2, FS_Interval
<1> HIDE DEF sorted, T, order, n
<1>9. Reorders(order, S, calls, T, sorted)
  BY <1>1, <1>6, <1>7, <1>8 DEF Reorders
<1>10. /\ Curve(sorted, T) = Curve(calls, S) /\ Throughput(sorted, T) = Throughput(calls, S)
       /\ WindowStats(sorted, T) = WindowStats(calls, S)
  BY <1>9, SameCurve, SameWindowStats
<1>11. LoadCurves(calls, Runs)[r] = [points |-> Curve(calls, S), peak |-> Peak(Curve(calls, S)),
                                     degradation |-> Degradation(Curve(calls, S))]
  BY DEF LoadCurves, S
<1>12. QED
  BY <1>10, <1>11 DEF order, sorted, T, S

\* Curve, degradation, peak, throughput and windowed latencies are those of the calls in the
\* order of their requests, although lines come in the order of the answers
\* (windowed_load_curve, windowed_throughput, windowed_stats): for any calls and windows.
THEOREM CurveSafety == Spec => []CurveIgnoresFileOrder
<1>1. IInv => CurveIgnoresFileOrder
  BY CurveShown DEF IInv, RecordsInv, RecordsOK
<1>2. QED
  BY <1>1, Invariance, PTL

=============================================================================
