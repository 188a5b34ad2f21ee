-------------------------- MODULE LoadPhase_proofs --------------------------
(***************************************************************************)
(* Proofs about LoadPhase, for any finite set of intents, any number of    *)
(* permits and any population.                                             *)
(***************************************************************************)
EXTENDS LoadPhase, FiniteSetTheorems, SequenceTheorems, TLAPS

(***************************************************************************)
(* The inductive invariant: the type invariant, the properties of the      *)
(* semaphore and of the counter, and the facts below that tie the control  *)
(* of `load_phase` to its tasks.                                           *)
(***************************************************************************)

\* Shutdown is signalled after the drain only, and a background task stops on
\* its signal only.
ShutdownOrder ==
  /\ signalled # {} => loop \in {"stop", "done"}
  /\ \A b \in Background : bg[b] = "stopped" => b \in signalled
  /\ loop \in {"stop", "done"} => \A i \in Intents : task[i] \in {"undispatched", "joined"}

\* An outcome exists for the joined intents exactly; a future that has
\* returned carries its result.
Settlement ==
  /\ \A i \in Intents : outcomes[i] # "none" <=> task[i] = "joined"
  /\ \A i \in Intents : task[i] \in {"releasing", "finished"} => result[i] # "none"

\* total_attempted counts the intents that were spawned.
AttemptsCounted == attempted = Cardinality(Intents \ In({"undispatched"}))

\* The figures are published once, at the end.
Published == report = IF loop = "done" THEN <<Tally>> ELSE <<>>

\* One dispatch may come late, and none after it.
LateOnce ==
  /\ late <= 1
  /\ late = 1 => (windowOver \/ cancelled) /\ loop # "tick"

IInv == /\ TypeOK /\ PermitsConserved /\ QueueServed /\ ActiveCounted
        /\ ShutdownOrder /\ Settlement /\ AttemptsCounted /\ Published /\ LateOnce

-----------------------------------------------------------------------------
(* Counting the tasks at some control points. *)

LEMMA InFinite ==
  ASSUME NEW S
  PROVE  IsFiniteSet(In(S)) /\ Cardinality(In(S)) \in Nat
BY IntentsAssumption, FS_Subset, FS_CardinalityType, In(S) \in SUBSET Intents DEF In

\* No task but i's moves.
MovesOnly(i) == \A j \in Intents \ {i} : task'[j] = task[j]

LEMMA MoveIn ==
  ASSUME NEW i \in Intents, MovesOnly(i), NEW CONSTANT S, task[i] \notin S, task'[i] \in S
  PROVE  Cardinality(In(S)') = Cardinality(In(S)) + 1
<1>1. In(S)' = In(S) \cup {i} /\ i \notin In(S)
  BY DEF In, MovesOnly
<1>2. QED
  BY <1>1, InFinite, FS_AddElement

LEMMA MoveOut ==
  ASSUME NEW i \in Intents, MovesOnly(i), NEW CONSTANT S, task[i] \in S, task'[i] \notin S
  PROVE  Cardinality(In(S)') = Cardinality(In(S)) - 1 /\ Cardinality(In(S)) > 0
<1>1. In(S)' = In(S) \ {i} /\ i \in In(S)
  BY DEF In, MovesOnly
<1>2. QED
  BY <1>1, InFinite, FS_RemoveElement, FS_EmptySet

LEMMA MoveBeside ==
  ASSUME NEW i \in Intents, MovesOnly(i), NEW CONSTANT S, task[i] \in S <=> task'[i] \in S
  PROVE  In(S)' = In(S)
BY DEF In, MovesOnly

LEMMA InSame ==
  ASSUME UNCHANGED task, NEW CONSTANT S
  PROVE  In(S)' = In(S)
BY DEF In

-----------------------------------------------------------------------------
(* Which steps move a task, and how. *)

\* A step that hands its permit over moves two tasks.
HandOver(i) ==
  /\ queue # <<>>
  /\ queue' = Tail(queue)
  /\ task' = [task EXCEPT ![i] = "releasing", ![Head(queue)] = "running"]
  /\ UNCHANGED permits

LEMMA HeadWaits ==
  ASSUME TypeOK, QueueServed, queue # <<>>
  PROVE  Head(queue) \in Intents /\ task[Head(queue)] = "waiting" /\ Head(queue) = queue[1]
<1>1. Len(queue) \in Nat \ {0} /\ Head(queue) = queue[1] /\ Head(queue) \in Intents
  BY EmptySeq, HeadTailProperties DEF TypeOK
<1>2. queue[1] \in In({"waiting"})
  BY <1>1 DEF QueueServed
<1>3. QED
  BY <1>1, <1>2 DEF In

\* The cardinality of In(S) after a hand-over.
LEMMA InHandOver ==
  ASSUME TypeOK, QueueServed, NEW i \in Intents, task[i] = "running", HandOver(i),
         NEW CONSTANT S
  PROVE  /\ "running" \in S /\ "waiting" \in S /\ "releasing" \in S
               => In(S)' = In(S)
         /\ S = {"running"} => Cardinality(In(S)') = Cardinality(In(S))
<1> DEFINE h == Head(queue)
<1>1. h \in Intents /\ task[h] = "waiting" /\ h # i
  BY HeadWaits DEF HandOver
<1>2. \A j \in Intents : task'[j] = IF j = i THEN "releasing" ELSE IF j = h THEN "running" ELSE task[j]
  BY <1>1 DEF HandOver, TypeOK
<1>3. ASSUME "running" \in S, "waiting" \in S, "releasing" \in S
      PROVE  In(S)' = In(S)
  BY <1>1, <1>2, <1>3 DEF In
<1>4. ASSUME S = {"running"}
      PROVE  Cardinality(In(S)') = Cardinality(In(S))
  <2>1. In(S)' = (In(S) \ {i}) \cup {h}
    BY <1>1, <1>2, <1>4 DEF In
  <2>2. i \in In(S) /\ h \notin In(S)
    BY <1>1, <1>4 DEF In
  <2>3. /\ IsFiniteSet(In(S) \ {i})
        /\ Cardinality(In(S) \ {i}) = Cardinality(In(S)) - 1
    BY <2>2, InFinite, FS_RemoveElement
  <2>4. Cardinality((In(S) \ {i}) \cup {h}) = Cardinality(In(S) \ {i}) + 1
    BY <2>2, <2>3, FS_AddElement
  <2>5. QED
    BY <2>1, <2>3, <2>4, InFinite
<1>5. QED
  BY <1>3, <1>4

\* Every step moves one task, hands a permit over, or leaves tasks, queue,
\* permits and counter alone.
LEMMA TaskMoves ==
  ASSUME [Next]_vars
  PROVE  \/ \E i \in Intents : Dispatch(i) \/ Join(i) \/ Enter(i) \/ Acquire(i) \/ DropGuard(i)
         \/ \E i \in Intents, r \in Results : Finish(i, r)
         \/ UNCHANGED <<task, queue, permits, active>>
<1>1. CASE LoopStep
  BY <1>1 DEF LoopStep, StartBackground, LoopTop, IdleTick, DrainEnds, Report, Signal, taskVars
<1>2. ASSUME NEW i \in Intents, TaskStep(i) \/ Broadcast(i)
      PROVE  \/ Enter(i) \/ Acquire(i) \/ DropGuard(i)
             \/ \E r \in Results : Finish(i, r)
             \/ UNCHANGED <<task, queue, permits, active>>
  BY <1>2 DEF TaskStep, Broadcast, taskVars
<1>3. CASE \E b \in Background : BgCall(b) \/ BgStop(b) \/ \E ok \in BOOLEAN : BgReturn(b, ok)
  BY <1>3 DEF BgCall, BgStop, BgReturn, taskVars
<1>4. CASE WindowCloses \/ Cancel \/ UNCHANGED vars
  BY <1>4 DEF WindowCloses, Cancel, vars, taskVars
<1>5. QED
  BY <1>1, <1>2, <1>3, <1>4 DEF Next

-----------------------------------------------------------------------------
(* The initial states. *)

LEMMA InitIInv == Init => IInv
<1> SUFFICES ASSUME Init PROVE IInv
  OBVIOUS
<1>1. \A S : "undispatched" \notin S => In(S) = {}
  BY DEF Init, In
<1>2. \A S : "undispatched" \notin S => Cardinality(In(S)) = 0
  BY <1>1, InFinite, FS_EmptySet
<1>3. TypeOK
  BY MaxInFlightAssumption, EmptySeq DEF Init, TypeOK, Outcomes
<1>4. PermitsConserved /\ ActiveCounted
  <2>1. Cardinality(In({"running"})) = 0
    BY <1>2
  <2>2. Cardinality(In({"entered", "waiting", "running", "releasing"})) = 0
    BY <1>2
  <2>3. QED
    BY <2>1, <2>2, MaxInFlightAssumption DEF Init, PermitsConserved, ActiveCounted
<1>5. QueueServed
  BY <1>1 DEF Init, QueueServed
<1>6. AttemptsCounted
  <2>1. Intents \ In({"undispatched"}) = {}
    BY DEF Init, In
  <2>2. QED
    BY <2>1, FS_EmptySet DEF Init, AttemptsCounted
<1>7. ShutdownOrder /\ Settlement /\ Published /\ LateOnce
  BY DEF Init, ShutdownOrder, Settlement, Published, LateOnce
<1>8. QED
  BY <1>3, <1>4, <1>5, <1>6, <1>7 DEF IInv

-----------------------------------------------------------------------------
(* The semaphore. *)

LEMMA PermitsStep ==
  ASSUME IInv, [Next]_vars
  PROVE  PermitsConserved'
<1> DEFINE R == {"running"}
<1>0. Cardinality(In(R)) \in Nat /\ permits \in Nat /\ permits + Cardinality(In(R)) = MaxInFlight
  BY InFinite DEF IInv, TypeOK, PermitsConserved
<1> SUFFICES permits' + Cardinality(In(R)') = permits + Cardinality(In(R))
  BY <1>0 DEF PermitsConserved
<1>1. ASSUME NEW i \in Intents, Dispatch(i) \/ Join(i) \/ Enter(i) \/ DropGuard(i)
      PROVE  permits' = permits /\ In(R)' = In(R)
  <2>1. permits' = permits /\ MovesOnly(i) /\ task[i] \notin R /\ task'[i] \notin R
    BY <1>1 DEF Dispatch, Join, Enter, DropGuard, MovesOnly, IInv, TypeOK
  <2>2. QED
    BY <2>1, MoveBeside
<1>2. ASSUME NEW i \in Intents, Acquire(i)
      PROVE  permits' + Cardinality(In(R)') = permits + Cardinality(In(R))
  <2>1. MovesOnly(i) /\ task[i] \notin R
    BY <1>2 DEF Acquire, MovesOnly, IInv, TypeOK
  <2>2. CASE permits > 0
    <3>1. task'[i] \in R /\ permits' = permits - 1
      BY <1>2, <2>2 DEF Acquire, IInv, TypeOK
    <3>2. QED
      BY <1>0, <2>1, <3>1, MoveIn
  <2>3. CASE ~(permits > 0)
    <3>1. task'[i] \notin R /\ permits' = permits
      BY <1>2, <2>3 DEF Acquire, IInv, TypeOK
    <3>2. QED
      BY <2>1, <3>1, MoveBeside
  <2>4. QED
    BY <2>2, <2>3
<1>3. ASSUME NEW i \in Intents, NEW r \in Results, Finish(i, r)
      PROVE  permits' + Cardinality(In(R)') = permits + Cardinality(In(R))
  <2>1. task[i] \in R
    BY <1>3 DEF Finish
  <2>2. CASE queue = <<>>
    <3>1. MovesOnly(i) /\ task'[i] \notin R /\ permits' = permits + 1
      BY <1>3, <2>2 DEF Finish, Release, MovesOnly, IInv, TypeOK
    <3>2. QED
      BY <1>0, <2>1, <3>1, MoveOut
  <2>3. CASE queue # <<>>
    <3>1. HandOver(i) /\ permits' = permits
      BY <1>3, <2>3 DEF Finish, Release, HandOver
    <3>2. QED
      BY <1>3, <3>1, InHandOver DEF Finish, IInv
  <2>4. QED
    BY <2>2, <2>3
<1>4. CASE UNCHANGED <<task, queue, permits, active>>
  BY <1>4, InSame
<1>5. QED
  BY <1>1, <1>2, <1>3, <1>4, TaskMoves

\* A hand-over takes the oldest waiter out of the queue and the others stay.
LEMMA QueueStep ==
  ASSUME IInv, [Next]_vars
  PROVE  QueueServed'
<1> DEFINE W == {"waiting"}
           Q == 1..Len(queue)
<1>0. /\ Len(queue) \in Nat /\ \A k \in Q : queue[k] \in Intents
      /\ {queue[k] : k \in Q} = In(W)
      /\ \A j, k \in Q : queue[j] = queue[k] => j = k
      /\ queue # <<>> => permits = 0
  BY ElementOfSeq, LenProperties DEF IInv, TypeOK, QueueServed
<1>1. ASSUME NEW i \in Intents, Dispatch(i) \/ Join(i) \/ Enter(i) \/ DropGuard(i)
      PROVE  QueueServed'
  <2>1. /\ UNCHANGED <<queue, permits>> /\ MovesOnly(i)
        /\ task[i] \notin W /\ task'[i] \notin W
    BY <1>1 DEF Dispatch, Join, Enter, DropGuard, MovesOnly, IInv, TypeOK
  <2>2. In(W)' = In(W)
    BY <2>1, MoveBeside
  <2>3. QED
    BY <1>0, <2>1, <2>2 DEF QueueServed
<1>2. ASSUME NEW i \in Intents, Acquire(i), permits > 0
      PROVE  QueueServed'
  <2>1. queue = <<>> /\ queue' = <<>>
    BY <1>0, <1>2 DEF Acquire
  <2>2. MovesOnly(i) /\ task[i] \notin W /\ task'[i] \notin W
    BY <1>2 DEF Acquire, MovesOnly, IInv, TypeOK
  <2>3. In(W)' = In(W)
    BY <2>2, MoveBeside
  <2>4. QED
    BY <1>0, <2>1, <2>3 DEF QueueServed
<1>3. ASSUME NEW i \in Intents, Acquire(i), ~(permits > 0)
      PROVE  QueueServed'
  <2>1. /\ queue' = Append(queue, i) /\ permits' = 0
        /\ MovesOnly(i) /\ task[i] \notin W /\ task'[i] \in W
    BY <1>3 DEF Acquire, MovesOnly, IInv, TypeOK
  <2>2. In(W)' = In(W) \cup {i} /\ i \notin In(W)
    BY <2>1 DEF In, MovesOnly
  <2>3. /\ Len(queue') = Len(queue) + 1 /\ queue'[Len(queue) + 1] = i
        /\ \A k \in Q : queue'[k] = queue[k]
    BY <1>0, <2>1 DEF IInv, TypeOK
  <2>4. 1..Len(queue') = Q \cup {Len(queue) + 1}
    BY <1>0, <2>3
  <2>5. {queue'[k] : k \in 1..Len(queue')} = In(W) \cup {i}
    BY <1>0, <2>3, <2>4
  <2>6. \A j, k \in 1..Len(queue') : queue'[j] = queue'[k] => j = k
    BY <1>0, <2>2, <2>3, <2>4
  <2>7. QED
    BY <2>1, <2>2, <2>5, <2>6 DEF QueueServed
<1>4. ASSUME NEW i \in Intents, NEW r \in Results, Finish(i, r), queue = <<>>
      PROVE  QueueServed'
  <2>1. queue' = <<>> /\ MovesOnly(i) /\ task[i] \notin W /\ task'[i] \notin W
    BY <1>4 DEF Finish, Release, MovesOnly, IInv, TypeOK
  <2>2. In(W)' = In(W)
    BY <2>1, MoveBeside
  <2>3. QED
    BY <1>0, <1>4, <2>1, <2>2 DEF QueueServed
<1>5. ASSUME NEW i \in Intents, NEW r \in Results, Finish(i, r), queue # <<>>
      PROVE  QueueServed'
  <2>1. /\ HandOver(i) /\ task[i] = "running"
    BY <1>5 DEF Finish, Release, HandOver
  <2>2. /\ Head(queue) = queue[1] /\ Head(queue) \in Intents
        /\ task[Head(queue)] = "waiting" /\ Head(queue) # i
    BY <2>1, HeadWaits DEF IInv, HandOver
  <2>3. In(W)' = In(W) \ {queue[1]}
    BY <2>1, <2>2 DEF HandOver, In, IInv, TypeOK
  <2>4. /\ Len(queue') = Len(queue) - 1 /\ Len(queue) > 0
        /\ \A k \in 1..Len(queue') : queue'[k] = queue[k + 1]
    BY <2>1, HeadTailProperties, EmptySeq DEF HandOver, IInv, TypeOK
  <2>5. {queue'[k] : k \in 1..Len(queue')} = In(W) \ {queue[1]}
    <3>1. \A k \in 1..Len(queue') : k + 1 \in Q /\ k + 1 # 1 /\ 1 \in Q
      BY <1>0, <2>4
    <3>2. \A k \in Q : k # 1 => k - 1 \in 1..Len(queue') /\ queue'[k - 1] = queue[k]
      BY <1>0, <2>4
    <3>3. QED
      BY <1>0, <2>4, <3>1, <3>2
  <2>6. \A j, k \in 1..Len(queue') : queue'[j] = queue'[k] => j = k
    BY <1>0, <2>4
  <2>7. permits' = 0
    BY <1>0, <1>5, <2>1 DEF HandOver
  <2>8. QED
    BY <2>3, <2>5, <2>6, <2>7 DEF QueueServed
<1>6. CASE UNCHANGED <<task, queue, permits, active>>
  BY <1>6, <1>0, InSame DEF QueueServed
<1>7. QED
  BY <1>1, <1>2, <1>3, <1>4, <1>5, <1>6, TaskMoves

-----------------------------------------------------------------------------
(* The counter of live intents. *)

Live == {"entered", "waiting", "running", "releasing"}

LEMMA ActiveStep ==
  ASSUME IInv, [Next]_vars
  PROVE  active' = Cardinality(In(Live)') /\ active' \in Nat
<1>0. active \in Nat /\ active = Cardinality(In(Live))
  BY DEF IInv, TypeOK, ActiveCounted, Live
<1>1. ASSUME NEW i \in Intents, Dispatch(i) \/ Join(i)
      PROVE  active' = active /\ In(Live)' = In(Live)
  <2>1. MovesOnly(i) /\ task[i] \notin Live /\ task'[i] \notin Live /\ active' = active
    BY <1>1 DEF Dispatch, Join, MovesOnly, Live, IInv, TypeOK
  <2>2. QED
    BY <2>1, MoveBeside
<1>2. ASSUME NEW i \in Intents, Enter(i)
      PROVE  active' = active + 1 /\ Cardinality(In(Live)') = Cardinality(In(Live)) + 1
  <2>1. MovesOnly(i) /\ task[i] \notin Live /\ task'[i] \in Live /\ active' = active + 1
    BY <1>2 DEF Enter, MovesOnly, Live, IInv, TypeOK
  <2>2. QED
    BY <2>1, MoveIn
<1>3. ASSUME NEW i \in Intents, Acquire(i)
      PROVE  active' = active /\ In(Live)' = In(Live)
  <2>1. MovesOnly(i) /\ task[i] \in Live /\ task'[i] \in Live /\ active' = active
    BY <1>3 DEF Acquire, MovesOnly, Live, IInv, TypeOK
  <2>2. QED
    BY <2>1, MoveBeside
<1>4. ASSUME NEW i \in Intents, NEW r \in Results, Finish(i, r)
      PROVE  active' = active /\ In(Live)' = In(Live)
  <2>1. CASE queue = <<>>
    <3>1. MovesOnly(i) /\ task[i] \in Live /\ task'[i] \in Live /\ active' = active
      BY <1>4, <2>1 DEF Finish, Release, MovesOnly, Live, IInv, TypeOK
    <3>2. QED
      BY <3>1, MoveBeside
  <2>2. CASE queue # <<>>
    <3>1. HandOver(i) /\ task[i] = "running" /\ active' = active
      BY <1>4, <2>2 DEF Finish, Release, HandOver
    <3>2. "running" \in Live /\ "waiting" \in Live /\ "releasing" \in Live
      BY DEF Live
    <3>3. QED
      BY <3>1, <3>2, InHandOver DEF IInv
  <2>3. QED
    BY <2>1, <2>2
<1>5. ASSUME NEW i \in Intents, DropGuard(i)
      PROVE  /\ active' = active - 1 /\ Cardinality(In(Live)') = Cardinality(In(Live)) - 1
             /\ active > 0
  <2>1. MovesOnly(i) /\ task[i] \in Live /\ task'[i] \notin Live /\ active' = active - 1
    BY <1>5 DEF DropGuard, MovesOnly, Live, IInv, TypeOK
  <2>2. QED
    BY <1>0, <2>1, MoveOut
<1>6. CASE UNCHANGED <<task, queue, permits, active>>
  BY <1>0, <1>6, InSame
<1>7. QED
  BY <1>0, <1>1, <1>2, <1>3, <1>4, <1>5, <1>6, TaskMoves

-----------------------------------------------------------------------------
(* Types. *)

LEMMA TypeStep ==
  ASSUME IInv, [Next]_vars
  PROVE  TypeOK'
<1> USE DEF IInv, TypeOK
<1>0. active' \in Nat
  BY ActiveStep
<1>1. CASE StartBackground \/ LoopTop \/ IdleTick \/ DrainEnds
  BY <1>1 DEF StartBackground, LoopTop, IdleTick, DrainEnds, envVars, taskVars, Background
<1>2. CASE \E b \in Background : Signal(b)
  BY <1>2 DEF Signal, envVars, taskVars
<1>3. CASE Report
  <2>1. Tally \in [attempted : Nat, confirmed : Nat, failed : Nat, timedOut : Nat]
    <3>1. \A S : Cardinality(Counted(S)) \in Nat
      BY IntentsAssumption, FS_Subset, FS_CardinalityType DEF Counted
    <3>2. QED
      BY <3>1 DEF Tally
  <2>2. QED
    BY <1>3, <2>1 DEF Report, envVars, taskVars
<1>4. ASSUME NEW i \in Intents, Dispatch(i) \/ Join(i)
      PROVE  TypeOK'
  <2>1. CASE Dispatch(i)
    BY <2>1 DEF Dispatch, envVars
  <2>2. CASE Join(i)
    <3>1. Outcome(result[i]) \in Outcomes \cup {"none"}
      BY ResultsAssumption DEF Outcome, Outcomes
    <3>2. QED
      BY <2>2, <3>1 DEF Join, envVars
  <2>3. QED
    BY <1>4, <2>1, <2>2
<1>5. ASSUME NEW i \in Intents, Enter(i) \/ DropGuard(i) \/ Broadcast(i)
      PROVE  TypeOK'
  BY <1>0, <1>5 DEF Enter, DropGuard, Broadcast, loopVars, envVars, taskVars
<1>6. ASSUME NEW i \in Intents, Acquire(i)
      PROVE  TypeOK'
  <2>1. permits' \in Nat
    BY <1>6 DEF Acquire
  <2>2. queue' \in Seq(Intents)
    <3>1. Append(queue, i) \in Seq(Intents) /\ queue \in Seq(Intents)
      OBVIOUS
    <3>2. queue' = queue \/ queue' = Append(queue, i)
      BY <1>6 DEF Acquire
    <3>3. QED
      BY <3>1, <3>2
  <2>3. task' = [task EXCEPT ![i] = "running"] \/ task' = [task EXCEPT ![i] = "waiting"]
    BY <1>6 DEF Acquire
  <2>4. QED
    BY <1>6, <2>1, <2>2, <2>3 DEF Acquire, loopVars, envVars
<1>7. ASSUME NEW i \in Intents, NEW r \in Results, Finish(i, r)
      PROVE  TypeOK'
  <2>1. CASE queue = <<>>
    BY <1>7, <2>1 DEF Finish, Release, loopVars, envVars
  <2>2. CASE queue # <<>>
    <3>1. Head(queue) \in Intents /\ Tail(queue) \in Seq(Intents)
      BY <2>2, HeadTailProperties
    <3>2. QED
      BY <1>7, <2>2, <3>1 DEF Finish, Release, loopVars, envVars
  <2>3. QED
    BY <2>1, <2>2
<1>8. ASSUME NEW b \in Background, BgCall(b) \/ BgStop(b) \/ \E ok \in BOOLEAN : BgReturn(b, ok)
      PROVE  TypeOK'
  BY <1>8 DEF BgCall, BgStop, BgReturn, loopVars, envVars, taskVars
<1>9. CASE WindowCloses \/ Cancel \/ UNCHANGED vars
  BY <1>9 DEF WindowCloses, Cancel, vars, loopVars, envVars, taskVars
<1>10. QED
  BY <1>1, <1>2, <1>3, <1>4, <1>5, <1>6, <1>7, <1>8, <1>9 DEF Next, LoopStep, TaskStep

-----------------------------------------------------------------------------
(* The control of load_phase. *)

LEMMA ShutdownStep ==
  ASSUME IInv, [Next]_vars
  PROVE  ShutdownOrder'
<1> USE DEF IInv, ShutdownOrder
<1>1. CASE StartBackground \/ LoopTop \/ IdleTick \/ Report
  BY <1>1 DEF StartBackground, LoopTop, IdleTick, Report, envVars, taskVars, Background
<1>2. CASE DrainEnds
  BY <1>2 DEF DrainEnds, In, envVars, taskVars
<1>3. CASE \E b \in Background : Signal(b)
  BY <1>3 DEF Signal, envVars, taskVars
<1>4. ASSUME NEW i \in Intents, Dispatch(i) \/ Join(i)
      PROVE  ShutdownOrder'
  BY <1>4 DEF Dispatch, Join, envVars
<1>5. ASSUME NEW i \in Intents, Enter(i) \/ DropGuard(i) \/ Acquire(i) \/ Broadcast(i)
                                  \/ \E r \in Results : Finish(i, r)
      PROVE  ShutdownOrder'
  <2>1. CASE Broadcast(i)
    BY <2>1 DEF Broadcast, loopVars, envVars, taskVars
  <2>2. CASE ~Broadcast(i)
    <3>1. task[i] \notin {"undispatched", "joined"} /\ UNCHANGED <<loopVars, bg>>
      BY <1>5, <2>2 DEF Enter, DropGuard, Acquire, Finish
    <3>2. QED
      BY <3>1 DEF loopVars
  <2>3. QED
    BY <2>1, <2>2
<1>6. ASSUME NEW b \in Background, BgCall(b) \/ BgStop(b) \/ \E ok \in BOOLEAN : BgReturn(b, ok)
      PROVE  ShutdownOrder'
  <2>1. UNCHANGED <<loopVars, taskVars>>
    BY <1>6 DEF BgCall, BgStop, BgReturn
  <2>2. \A c \in Background : bg'[c] = "stopped" => c \in signalled
    BY <1>6 DEF BgCall, BgStop, BgReturn, TypeOK
  <2>3. QED
    BY <2>1, <2>2 DEF loopVars, taskVars
<1>7. CASE WindowCloses \/ Cancel \/ UNCHANGED vars
  BY <1>7 DEF WindowCloses, Cancel, vars, loopVars, taskVars
<1>8. QED
  BY <1>1, <1>2, <1>3, <1>4, <1>5, <1>6, <1>7 DEF Next, LoopStep, TaskStep

\* The same split as TaskMoves, with what joins and results depend on.
LEMMA OtherSteps ==
  ASSUME [Next]_vars
  PROVE  \/ \E i \in Intents : Dispatch(i) \/ Join(i) \/ Enter(i) \/ Acquire(i) \/ DropGuard(i)
         \/ \E i \in Intents, r \in Results : Finish(i, r)
         \/ UNCHANGED <<task, result, outcomes, attempted>>
<1>1. CASE LoopStep
  BY <1>1 DEF LoopStep, StartBackground, LoopTop, IdleTick, DrainEnds, Report, Signal, taskVars
<1>2. ASSUME NEW i \in Intents, TaskStep(i) \/ Broadcast(i)
      PROVE  \/ Enter(i) \/ Acquire(i) \/ DropGuard(i)
             \/ \E r \in Results : Finish(i, r)
             \/ UNCHANGED <<task, result, outcomes, attempted>>
  BY <1>2 DEF TaskStep, Broadcast, taskVars, loopVars
<1>3. CASE \E b \in Background : BgCall(b) \/ BgStop(b) \/ \E ok \in BOOLEAN : BgReturn(b, ok)
  BY <1>3 DEF BgCall, BgStop, BgReturn, taskVars, loopVars
<1>4. CASE WindowCloses \/ Cancel \/ UNCHANGED vars
  BY <1>4 DEF WindowCloses, Cancel, vars, taskVars, loopVars
<1>5. QED
  BY <1>1, <1>2, <1>3, <1>4 DEF Next

LEMMA SettlementStep ==
  ASSUME IInv, [Next]_vars
  PROVE  Settlement'
<1> USE DEF IInv, TypeOK, Settlement
<1>1. ASSUME NEW i \in Intents, Join(i)
      PROVE  Settlement'
  <2>1. Outcome(result[i]) # "none"
    BY <1>1 DEF Join, Outcome
  <2>2. QED
    BY <1>1, <2>1 DEF Join
<1>2. ASSUME NEW i \in Intents, NEW r \in Results, Finish(i, r)
      PROVE  Settlement'
  <2>1. r # "none" /\ result' = [result EXCEPT ![i] = r] /\ outcomes' = outcomes
    BY <1>2, ResultsAssumption DEF Finish, loopVars
  <2>2. CASE queue = <<>>
    BY <1>2, <2>1, <2>2 DEF Finish, Release
  <2>3. CASE queue # <<>>
    <3>1. HandOver(i)
      BY <1>2, <2>3 DEF Finish, Release, HandOver
    <3>2. Head(queue) \in Intents /\ task[Head(queue)] = "waiting"
      BY <2>3, HeadWaits
    <3>3. QED
      BY <1>2, <2>1, <3>1, <3>2 DEF Finish, HandOver
  <2>4. QED
    BY <2>2, <2>3
<1>3. ASSUME NEW i \in Intents, Dispatch(i) \/ Enter(i) \/ Acquire(i) \/ DropGuard(i)
      PROVE  Settlement'
  <2>1. PICK p \in {"spawned", "entered", "running", "waiting", "finished"} :
          /\ task' = [task EXCEPT ![i] = p] /\ UNCHANGED <<result, outcomes>>
          /\ task[i] # "joined" /\ (p = "finished" => task[i] = "releasing")
    BY <1>3 DEF Dispatch, Enter, Acquire, DropGuard, loopVars
  <2>2. QED
    BY <2>1
<1>4. CASE UNCHANGED <<task, result, outcomes>>
  BY <1>4
<1>5. QED
  BY <1>1, <1>2, <1>3, <1>4, OtherSteps

LEMMA AttemptsStep ==
  ASSUME IInv, [Next]_vars
  PROVE  AttemptsCounted'
<1> DEFINE U == {"undispatched"}
<1>0. Intents \ In(U) = In({"spawned", "entered", "waiting", "running", "releasing",
                            "finished", "joined"})
  BY DEF In, IInv, TypeOK
<1>1. ASSUME NEW i \in Intents, Dispatch(i)
      PROVE  AttemptsCounted'
  <2>1. (Intents \ In(U))' = (Intents \ In(U)) \cup {i} /\ i \notin Intents \ In(U)
    BY <1>1 DEF Dispatch, In, IInv, TypeOK
  <2>2. IsFiniteSet(Intents \ In(U))
    BY <1>0, InFinite
  <2>3. QED
    BY <1>1, <2>1, <2>2, FS_AddElement DEF Dispatch, AttemptsCounted, IInv
<1>2. ASSUME NEW i \in Intents, task[i] \notin U, task'[i] \notin U, MovesOnly(i),
             UNCHANGED attempted
      PROVE  AttemptsCounted'
  BY <1>2, MoveBeside DEF AttemptsCounted, IInv
<1>3. ASSUME NEW i \in Intents, Join(i) \/ Enter(i) \/ Acquire(i) \/ DropGuard(i)
      PROVE  AttemptsCounted'
  <2>1. /\ task[i] \notin U /\ task'[i] \notin U /\ MovesOnly(i) /\ UNCHANGED attempted
    BY <1>3 DEF Join, Enter, Acquire, DropGuard, loopVars, MovesOnly, IInv, TypeOK
  <2>2. QED
    BY <1>2, <2>1
<1>4. ASSUME NEW i \in Intents, NEW r \in Results, Finish(i, r)
      PROVE  AttemptsCounted'
  <2>1. CASE queue = <<>>
    <3>1. task[i] \notin U /\ task'[i] \notin U /\ MovesOnly(i) /\ UNCHANGED attempted
      BY <1>4, <2>1 DEF Finish, Release, loopVars, MovesOnly, IInv, TypeOK
    <3>2. QED
      BY <1>2, <3>1
  <2>2. CASE queue # <<>>
    <3>1. HandOver(i) /\ task[i] = "running" /\ UNCHANGED attempted
      BY <1>4, <2>2 DEF Finish, Release, HandOver, loopVars
    <3>2. Head(queue) \in Intents /\ task[Head(queue)] = "waiting"
      BY <2>2, HeadWaits DEF IInv
    <3>3. In(U)' = In(U)
      BY <3>1, <3>2 DEF HandOver, In, IInv, TypeOK
    <3>4. QED
      BY <3>1, <3>3 DEF AttemptsCounted, IInv
  <2>3. QED
    BY <2>1, <2>2
<1>5. CASE UNCHANGED <<task, attempted>>
  BY <1>5, InSame DEF AttemptsCounted, IInv
<1>6. QED
  BY <1>1, <1>3, <1>4, <1>5, OtherSteps

\* The end of the phase: the figures are those of the joined outcomes, which
\* no later step changes.
LEMMA PublishedStep ==
  ASSUME IInv, [Next]_vars
  PROVE  Published'
<1>1. CASE Report
  <2>1. Tally' = Tally
    BY <1>1 DEF Report, Tally, Counted
  <2>2. QED
    BY <1>1, <2>1 DEF Report, Published
<1>2. CASE UNCHANGED <<loop, report, attempted, outcomes>>
  <2>1. Tally' = Tally
    BY <1>2 DEF Tally, Counted
  <2>2. QED
    BY <1>2, <2>1 DEF Published, IInv
<1>3. ASSUME loop # "done", loop' # "done", UNCHANGED report
      PROVE  Published'
  BY <1>3 DEF Published, IInv
<1>4. QED
  <2>1. CASE LoopStep
    BY <2>1, <1>1, <1>3 DEF LoopStep, StartBackground, LoopTop, IdleTick, DrainEnds, Dispatch,
                            Join, Signal
  <2>2. CASE ~LoopStep
    <3>1. UNCHANGED loopVars
      BY <2>2 DEF Next, TaskStep, Enter, Acquire, Finish, DropGuard, Broadcast, BgCall, BgStop,
                  BgReturn, WindowCloses, Cancel, vars
    <3>2. QED
      BY <3>1, <1>2 DEF loopVars
  <2>3. QED
    BY <2>1, <2>2

\* The stop condition, once it holds, holds for ever: the tick under way when it
\* came about is the only one that may still dispatch.
LEMMA LateStep ==
  ASSUME IInv, [Next]_vars
  PROVE  LateOnce'
<1> USE DEF IInv, TypeOK, LateOnce
<1>1. CASE \E i \in Intents : Dispatch(i)
  BY <1>1 DEF Dispatch, envVars
<1>2. CASE LoopStep /\ ~(\E i \in Intents : Dispatch(i))
  BY <1>2 DEF LoopStep, StartBackground, LoopTop, IdleTick, DrainEnds, Join, Signal, Report, envVars
<1>3. CASE ~LoopStep
  <2>1. UNCHANGED loopVars
    BY <1>3 DEF Next, TaskStep, Enter, Acquire, Finish, DropGuard, Broadcast, BgCall, BgStop,
                BgReturn, WindowCloses, Cancel, vars
  <2>2. (windowOver => windowOver') /\ (cancelled => cancelled')
    BY <1>3 DEF Next, TaskStep, Enter, Acquire, Finish, DropGuard, Broadcast, BgCall, BgStop,
                BgReturn, WindowCloses, Cancel, vars, envVars
  <2>3. QED
    BY <2>1, <2>2 DEF loopVars
<1>4. QED
  BY <1>1, <1>2, <1>3

-----------------------------------------------------------------------------
(* Theorems. *)

LEMMA IInvStep ==
  ASSUME IInv, [Next]_vars
  PROVE  IInv'
<1>1. TypeOK' /\ PermitsConserved' /\ QueueServed' /\ ShutdownOrder' /\ Settlement'
  BY TypeStep, PermitsStep, QueueStep, ShutdownStep, SettlementStep
<1>2. AttemptsCounted' /\ Published' /\ LateOnce'
  BY AttemptsStep, PublishedStep, LateStep
<1>3. ActiveCounted'
  <2>1. active' = Cardinality(In(Live)')
    BY ActiveStep
  <2>2. loop' \in {"stop", "done"} => In(Live)' = {}
    BY <1>1 DEF ShutdownOrder, In, Live
  <2>3. QED
    BY <2>1, <2>2, FS_EmptySet DEF ActiveCounted, Live
<1>4. QED
  BY <1>1, <1>2, <1>3 DEF IInv

\* IInv is an inductive invariant of the load phase.
THEOREM Invariance == Spec => []IInv
<1>1. IInv /\ [Next]_vars => IInv'
  BY IInvStep
<1>2. QED
  BY InitIInv, <1>1, PTL DEF Spec

\* The variables keep their types.
THEOREM TypeCorrect == Spec => []TypeOK
BY Invariance, PTL DEF IInv

\* The semaphore loses and mints no permit.
THEOREM PermitSafety == Spec => []PermitsConserved
BY Invariance, PTL DEF IInv

\* No permit lies idle beside a waiter, and no waiter is stranded.
THEOREM QueueSafety == Spec => []QueueServed
BY Invariance, PTL DEF IInv

\* active_count counts the futures between first poll and guard drop.
THEOREM ActiveSafety == Spec => []ActiveCounted
BY Invariance, PTL DEF IInv

\* The miner is stopped only after every dispatched intent is resolved.
THEOREM MinerSafety == Spec => []MinerOutlivesIntents
<1>1. IInv => MinerOutlivesIntents
  BY DEF IInv, ShutdownOrder, MinerOutlivesIntents, Background
<1>2. QED
  BY <1>1, Invariance, PTL

\* At most one intent is dispatched after the window closed or the cancel came.
THEOREM LateSafety == Spec => []AtMostOneLateDispatch
<1>1. IInv => AtMostOneLateDispatch
  BY DEF IInv, LateOnce, AtMostOneLateDispatch
<1>2. QED
  BY <1>1, Invariance, PTL

-----------------------------------------------------------------------------
(* The figures. *)

\* The outcomes of the three kinds are disjoint and, once the drain is over,
\* are those of all the spawned intents.
LEMMA TallyAdds ==
  ASSUME IInv, loop \in {"stop", "done"}
  PROVE  attempted = Cardinality(Counted({"confirmed"})) + Cardinality(Counted({"failed", "unknown"}))
                     + Cardinality(Counted({"timedOut"}))
<1> DEFINE A == Counted({"confirmed"})
           B == Counted({"failed", "unknown"})
           C == Counted({"timedOut"})
<1>1. \A S : IsFiniteSet(Counted(S)) /\ Cardinality(Counted(S)) \in Nat
  BY IntentsAssumption, FS_Subset, FS_CardinalityType DEF Counted
<1>2. A \cap B = {} /\ (A \cup B) \cap C = {}
  BY DEF Counted
<1>3. Intents \ In({"undispatched"}) = (A \cup B) \cup C
  <2>1. \A i \in Intents : task[i] # "undispatched" <=> outcomes[i] # "none"
    BY DEF IInv, ShutdownOrder, Settlement
  <2>2. \A i \in Intents : outcomes[i] \in {"none", "confirmed", "failed", "timedOut", "unknown"}
    BY DEF IInv, TypeOK, Outcomes
  <2>3. QED
    BY <2>1, <2>2 DEF In, Counted
<1>4. /\ IsFiniteSet(A \cup B)
      /\ Cardinality(A \cup B) = Cardinality(A) + Cardinality(B) - Cardinality(A \cap B)
  BY <1>1, FS_Union
<1>5. Cardinality((A \cup B) \cup C)
        = Cardinality(A \cup B) + Cardinality(C) - Cardinality((A \cup B) \cap C)
  BY <1>1, <1>4, FS_Union
<1>6. Cardinality({}) = 0
  BY FS_EmptySet
<1>7. attempted = Cardinality((A \cup B) \cup C)
  BY <1>3 DEF IInv, AttemptsCounted
<1>8. Cardinality(A \cap B) = 0 /\ Cardinality((A \cup B) \cap C) = 0
  BY <1>2, <1>6, Zenon
<1>9. Cardinality(A) \in Nat /\ Cardinality(B) \in Nat /\ Cardinality(C) \in Nat
  BY <1>1
<1> HIDE DEF A, B, C
<1>10. attempted = Cardinality(A) + Cardinality(B) + Cardinality(C)
  BY <1>4, <1>5, <1>7, <1>8, <1>9
<1>11. QED
  BY <1>10 DEF A, B, C

\* The published figures account for every dispatched intent, once.
THEOREM ReportSafety == Spec => []ReportBalances
<1>1. IInv => ReportBalances
  <2> SUFFICES ASSUME IInv, NEW k \in 1..Len(report)
               PROVE  report[k].attempted = report[k].confirmed + report[k].failed
                                            + report[k].timedOut
    BY DEF ReportBalances
  <2>1. CASE loop = "done"
    <3>1. report = <<Tally>> /\ k = 1
      BY <2>1 DEF IInv, Published
    <3>2. report[k] = Tally
      BY <3>1
    <3>3. QED
      BY <2>1, <3>2, TallyAdds DEF Tally
  <2>2. CASE loop # "done"
    BY <2>2 DEF IInv, Published
  <2>3. QED
    BY <2>1, <2>2
<1>2. QED
  BY <1>1, Invariance, PTL

-----------------------------------------------------------------------------
(* LoadPhase implements IntentLedger. *)

Closed == loop \in {"drain", "stop", "done"}

\* What the ledger sees of the intents.
LEMMA StatusValues ==
  ASSUME IInv
  PROVE  /\ \A i \in Intents : status[i] = IF outcomes[i] # "none" THEN outcomes[i]
                                           ELSE IF task[i] = "undispatched" THEN "none" ELSE "open"
         /\ loop \in {"stop", "done"} => \A i \in Intents : status[i] # "open"
         /\ \A i \in Intents : status[i] \in Ledger!Terminal <=> outcomes[i] # "none"
         /\ \A i \in Intents : outcomes[i] # "none" => status[i] = outcomes[i]
BY DEF IInv, TypeOK, Outcomes, status, ShutdownOrder, Settlement, Ledger!Terminal

LEMMA LedgerStep ==
  ASSUME IInv, [Next]_vars
  PROVE  [Ledger!Next]_(Ledger!vars)
<1> USE DEF Ledger!Next, Ledger!vars
<1>1. ASSUME NEW i \in Intents, Dispatch(i)
      PROVE  Ledger!Open(i)
  <2>1. status' = [status EXCEPT ![i] = "open"] /\ status[i] = "none"
    BY <1>1 DEF Dispatch, status, IInv, TypeOK, Settlement
  <2>2. QED
    BY <1>1, <2>1 DEF Dispatch, Ledger!Open
<1>2. ASSUME NEW i \in Intents, Join(i)
      PROVE  \E t \in Ledger!Terminal : Ledger!Settle(i, t)
  <2>1. Outcome(result[i]) \in Ledger!Terminal
    BY <1>2, ResultsAssumption DEF Join, Outcome, IInv, TypeOK, Settlement, Ledger!Terminal
  <2>2. Outcome(result[i]) # "none"
    BY <2>1 DEF Ledger!Terminal
  <2>3. status' = [status EXCEPT ![i] = Outcome(result[i])] /\ status[i] = "open"
    BY <1>2, <2>2 DEF Join, status, IInv, TypeOK, Settlement
  <2>4. Ledger!Settle(i, Outcome(result[i]))
    BY <1>2, <2>3 DEF Join, Ledger!Settle
  <2>5. QED
    BY <2>1, <2>4
<1>3. ASSUME LoopTop, loop' = "drain"
      PROVE  Ledger!Close
  <2>1. status' = status
    BY <1>3 DEF LoopTop, status, taskVars
  <2>2. QED
    BY <1>3, <2>1 DEF LoopTop, Ledger!Close
<1>4. ASSUME Report
      PROVE  Ledger!Publish
  <2>1. status' = status /\ report = <<>> /\ loop = "stop"
    BY <1>4 DEF Report, status, taskVars, IInv, Published
  <2>2. Ledger!Having({"open"}) = 0
    <3>1. {i \in Intents : status[i] \in {"open"}} = {}
      BY <2>1, StatusValues
    <3>2. QED
      BY <3>1, FS_EmptySet DEF Ledger!Having, Ledger!Cardinality, Cardinality
  <2>3. Ledger!Having(Ledger!Terminal) = attempted
    <3>1. {i \in Intents : status[i] \in Ledger!Terminal} = Intents \ In({"undispatched"})
      BY <2>1, StatusValues DEF In, IInv, ShutdownOrder, Settlement
    <3>2. QED
      BY <3>1 DEF Ledger!Having, Ledger!Cardinality, Cardinality, IInv, AttemptsCounted
  <2>4. ASSUME NEW S \in SUBSET Ledger!Terminal
        PROVE  Ledger!Having(S) = Cardinality(Counted(S))
    <3>1. {i \in Intents : status[i] \in S} = Counted(S)
      BY StatusValues DEF Counted, IInv, TypeOK, Outcomes, Ledger!Terminal
    <3>2. QED
      BY <3>1 DEF Ledger!Having, Ledger!Cardinality, Cardinality
  <2>5. /\ Ledger!Having({"confirmed"}) = Cardinality(Counted({"confirmed"}))
        /\ Ledger!Having({"failed", "unknown"}) = Cardinality(Counted({"failed", "unknown"}))
        /\ Ledger!Having({"timedOut"}) = Cardinality(Counted({"timedOut"}))
    BY <2>4 DEF Ledger!Terminal
  <2>6. report' = <<Tally>>
    BY <1>4 DEF Report
  <2>7. loop' = "done"
    BY <1>4 DEF Report
  <2>8. QED
    BY <2>1, <2>2, <2>3, <2>5, <2>6, <2>7 DEF Ledger!Publish, Tally
<1>5. ASSUME StartBackground \/ IdleTick \/ DrainEnds \/ (\E b \in Background : Signal(b))
             \/ (LoopTop /\ loop' # "drain")
      PROVE  UNCHANGED Ledger!vars
  <2>1. UNCHANGED <<task, outcomes, report>> /\ Closed' = Closed
    BY <1>5 DEF StartBackground, IdleTick, DrainEnds, Signal, LoopTop, taskVars, Closed
  <2>2. QED
    BY <2>1 DEF status, Closed
<1>6. ASSUME ~LoopStep
      PROVE  UNCHANGED Ledger!vars
  <2>1. UNCHANGED loopVars
    BY <1>6 DEF Next, TaskStep, Enter, Acquire, Finish, DropGuard, Broadcast, BgCall, BgStop,
                BgReturn, WindowCloses, Cancel, vars
  <2>2. \A i \in Intents : task'[i] = "undispatched" <=> task[i] = "undispatched"
    <3>1. ASSUME NEW i \in Intents, NEW r \in Results, Finish(i, r)
          PROVE  \A j \in Intents : task'[j] = "undispatched" <=> task[j] = "undispatched"
      <4>1. CASE queue = <<>>
        BY <3>1, <4>1 DEF Finish, Release, IInv, TypeOK
      <4>2. CASE queue # <<>>
        BY <3>1, <4>2, HeadWaits DEF Finish, Release, IInv, TypeOK
      <4>3. QED
        BY <4>1, <4>2
    <3>2. ASSUME NEW i \in Intents, Enter(i) \/ Acquire(i) \/ DropGuard(i)
          PROVE  \A j \in Intents : task'[j] = "undispatched" <=> task[j] = "undispatched"
      BY <3>2 DEF Enter, Acquire, DropGuard, IInv, TypeOK
    <3>3. ASSUME NEW i \in Intents, Dispatch(i) \/ Join(i)
          PROVE  FALSE
      BY <1>6, <3>3 DEF LoopStep
    <3>4. QED
      BY <3>1, <3>2, <3>3, TaskMoves
  <2>3. status' = status
    BY <2>1, <2>2 DEF status, loopVars
  <2>4. QED
    BY <2>1, <2>3 DEF loopVars
<1>7. QED
  BY <1>1, <1>2, <1>3, <1>4, <1>5, <1>6 DEF LoopStep

\* The load phase keeps the ledger: every dispatched intent is settled exactly
\* once, nothing is opened after the dispatch is closed, and the figures are
\* published when nothing is open and say what was settled.
THEOREM LedgerRefinement == Spec => LedgerSpec
<1>1. Init => Ledger!Init
  BY DEF Init, Ledger!Init, status
<1>2. IInv /\ [Next]_vars => [Ledger!Next]_(Ledger!vars)
  BY LedgerStep
<1>3. QED
  BY <1>1, <1>2, Invariance, PTL DEF Spec, LedgerSpec, Ledger!Spec
=============================================================================
