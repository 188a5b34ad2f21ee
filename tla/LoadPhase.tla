----------------------------- MODULE LoadPhase -----------------------------
(***************************************************************************)
(* The load phase of one run: `load_phase` in runner/mod.rs (the scheduler *)
(* loop, the drain, the end-of-load figures), the intent futures it spawns *)
(* (runner/dispatch.rs) and the three background tasks that run beside     *)
(* them.  Every task runs on a multi-threaded runtime, so each step below  *)
(* is one synchronous stretch of one task, and any task may run next.      *)
(*                                                                         *)
(* Time is abstracted: `windowOver` says that `elapsed >= load_duration`   *)
(* holds by now, and a tick of the dispatch ticker may come at any time.   *)
(* What an intent does on the chain is reduced to one transaction (none,   *)
(* in the mempool, mined); module Exchange has the workflows themselves.   *)
(***************************************************************************)
EXTENDS Naturals, FiniteSets, Sequences

CONSTANTS Intents,         \* the intents the generator may hand out: bounds the run
          MaxInFlight,     \* RunOptions.max_in_flight
          ActiveAccounts,  \* accounts of the population flagged active
          Results          \* ways in which the intents' workflows end

ASSUME IntentsAssumption == IsFiniteSet(Intents)
ASSUME MaxInFlightAssumption == MaxInFlight \in Nat \ {0}
ASSUME ActiveAccountsAssumption == ActiveAccounts \in Nat
ASSUME ResultsAssumption == Results \subseteq {"confirmed", "failed", "timedOut", "panic"}

VARIABLES
  loop,        \* where `load_phase` itself is
  windowOver,  \* elapsed >= load_duration
  cancelled,   \* RunOptions.cancel was triggered
  attempted,   \* total_attempted
  late,        \* history: intents dispatched after the window closed or the cancel
  task,        \* where each intent's future is
  result,      \* what a future returns, kept until it is joined
  queue,       \* waiters of the semaphore, oldest first
  permits,     \* permits of the semaphore nobody holds
  active,      \* the counter `active_count`
  chain,       \* the transaction of each intent
  bg,          \* where each background task is
  signalled,   \* background tasks whose shutdown channel was sent to
  outcomes,    \* the outcome the drain collected for each intent
  report       \* what `load_phase` returns and `run` tallies, <<>> until then

loopVars == <<loop, attempted, late, outcomes, report, signalled>>
envVars  == <<windowOver, cancelled>>
taskVars == <<task, result, queue, permits, active>>
vars == <<loopVars, envVars, taskVars, chain, bg>>

Background == {"mempool", "balance", "miner"}

\* A join error is pushed as a Failed outcome of intent "unknown".
Outcomes == {"confirmed", "failed", "timedOut", "unknown"}

In(pcs) == {i \in Intents : task[i] \in pcs}

Counted(kinds) == {i \in Intents : outcomes[i] \in kinds}

Init ==
  /\ loop = "start"
  /\ windowOver = FALSE /\ cancelled = FALSE
  /\ attempted = 0 /\ late = 0
  /\ task = [i \in Intents |-> "undispatched"]
  /\ result = [i \in Intents |-> "none"]
  /\ queue = <<>> /\ permits = MaxInFlight /\ active = 0
  /\ chain = [i \in Intents |-> "none"]
  /\ bg = [b \in Background |-> "off"]
  /\ signalled = {}
  /\ outcomes = [i \in Intents |-> "none"]
  /\ report = <<>>

-----------------------------------------------------------------------------
(* The scheduler loop. *)

\* The mempool watcher polls before its first select; the two others start
\* at their select.
StartBackground ==
  /\ loop = "start"
  /\ loop' = "top"
  /\ bg' = [b \in Background |-> IF b = "mempool" THEN "calling" ELSE "idle"]
  /\ UNCHANGED <<attempted, late, outcomes, report, signalled, envVars, taskVars, chain>>

\* Mutants: a check of the loop is missing.
LoopTopIgnoresCancel ==
  /\ loop = "top"
  /\ loop' = IF windowOver THEN "drain" ELSE "tick"
  /\ UNCHANGED <<attempted, late, outcomes, report, signalled, envVars, taskVars, chain, bg>>

LoopTopIgnoresWindow ==
  /\ loop = "top"
  /\ loop' = IF cancelled THEN "drain" ELSE "tick"
  /\ UNCHANGED <<attempted, late, outcomes, report, signalled, envVars, taskVars, chain, bg>>

LoopTop ==
  /\ loop = "top"
  /\ loop' = IF windowOver \/ cancelled THEN "drain" ELSE "tick"
  /\ UNCHANGED <<attempted, late, outcomes, report, signalled, envVars, taskVars, chain, bg>>

\* Neither the end of the window nor the cancel interrupts `ticker.tick()`:
\* what the tick dispatches may be late.
Dispatch(i) ==
  /\ loop = "tick"
  /\ ActiveAccounts >= 2
  /\ task[i] = "undispatched"
  /\ loop' = "top"
  /\ attempted' = attempted + 1
  /\ late' = IF windowOver \/ cancelled THEN late + 1 ELSE late
  /\ task' = [task EXCEPT ![i] = "spawned"]
  /\ UNCHANGED <<result, queue, permits, active, outcomes, report, signalled, envVars, chain, bg>>

\* `next_intent` finds fewer than two active accounts, or (the bound on
\* Intents) this run has dispatched all the intents the model gives it.
IdleTick ==
  /\ loop = "tick"
  /\ ActiveAccounts < 2 \/ In({"undispatched"}) = {}
  /\ loop' = "top"
  /\ UNCHANGED <<attempted, late, outcomes, report, signalled, envVars, taskVars, chain, bg>>

-----------------------------------------------------------------------------
(* An intent's future. *)

\* Mutant: the counter is not raised by the first poll.
EnterUncounted(i) ==
  /\ task[i] = "spawned"
  /\ task' = [task EXCEPT ![i] = "entered"]
  /\ UNCHANGED <<result, queue, permits, active, loopVars, envVars, chain, bg>>

\* The first poll raises the counter before it asks for a permit.
Enter(i) ==
  /\ task[i] = "spawned"
  /\ task' = [task EXCEPT ![i] = "entered"]
  /\ active' = active + 1
  /\ UNCHANGED <<result, queue, permits, loopVars, envVars, chain, bg>>

Acquire(i) ==
  /\ task[i] = "entered"
  /\ IF permits > 0
       THEN /\ permits' = permits - 1
            /\ task' = [task EXCEPT ![i] = "running"]
            /\ UNCHANGED queue
       ELSE /\ queue' = Append(queue, i)
            /\ task' = [task EXCEPT ![i] = "waiting"]
            /\ UNCHANGED permits
  /\ UNCHANGED <<result, active, loopVars, envVars, chain, bg>>

Broadcast(i) ==
  /\ task[i] = "running" /\ chain[i] = "none"
  /\ chain' = [chain EXCEPT ![i] = "mempool"]
  /\ UNCHANGED <<loopVars, envVars, taskVars, bg>>

\* Mutants: a permit is handed over and given back as well; given back without
\* waking the waiter.
ReleaseTwice(i) ==
  /\ permits' = permits + 1
  /\ IF queue = <<>>
       THEN task' = [task EXCEPT ![i] = "releasing"] /\ UNCHANGED queue
       ELSE /\ queue' = Tail(queue)
            /\ task' = [task EXCEPT ![i] = "releasing", ![Head(queue)] = "running"]

ReleaseForgets(i) ==
  /\ permits' = permits + 1
  /\ task' = [task EXCEPT ![i] = "releasing"]
  /\ UNCHANGED queue

\* The dropped permit goes straight to the oldest waiter when there is one.
Release(i) ==
  IF queue = <<>>
    THEN /\ permits' = permits + 1
         /\ task' = [task EXCEPT ![i] = "releasing"]
         /\ UNCHANGED queue
    ELSE /\ queue' = Tail(queue)
         /\ task' = [task EXCEPT ![i] = "releasing", ![Head(queue)] = "running"]
         /\ UNCHANGED permits

\* The workflow returns, or panics: either way its permit is dropped first.
Finish(i, r) ==
  /\ task[i] = "running"
  /\ r = "confirmed" => chain[i] = "mined"
  /\ result' = [result EXCEPT ![i] = r]
  /\ Release(i)
  /\ UNCHANGED <<active, loopVars, envVars, chain, bg>>

\* The ActiveGuard is dropped after the permit.
DropGuard(i) ==
  /\ task[i] = "releasing"
  /\ task' = [task EXCEPT ![i] = "finished"]
  /\ active' = active - 1
  /\ UNCHANGED <<result, queue, permits, loopVars, envVars, chain, bg>>

-----------------------------------------------------------------------------
(* The drain and the end of the phase. *)

\* Mutant: a join error is pushed as it is.
OutcomeRaw(r) == r

Outcome(r) == IF r = "panic" THEN "unknown" ELSE r

Join(i) ==
  /\ loop = "drain"
  /\ task[i] = "finished"
  /\ task' = [task EXCEPT ![i] = "joined"]
  /\ outcomes' = [outcomes EXCEPT ![i] = Outcome(result[i])]
  /\ UNCHANGED <<loop, attempted, late, report, signalled,
                 result, queue, permits, active, envVars, chain, bg>>

\* Mutant: the background tasks are signalled before the drain.
DrainEndsEarly ==
  /\ loop = "drain"
  /\ loop' = "stop"
  /\ UNCHANGED <<attempted, late, outcomes, report, signalled, envVars, taskVars, chain, bg>>

\* `join_next` returns None: the drain ends.
DrainEnds ==
  /\ loop = "drain"
  /\ In({"undispatched", "joined"}) = Intents
  /\ loop' = "stop"
  /\ UNCHANGED <<attempted, late, outcomes, report, signalled, envVars, taskVars, chain, bg>>

\* The three sends, in program order.
Signal(b) ==
  /\ loop = "stop"
  /\ b \notin signalled
  /\ b = "balance" => "mempool" \in signalled
  /\ b = "miner" => "balance" \in signalled
  /\ signalled' = signalled \cup {b}
  /\ UNCHANGED <<loop, attempted, late, outcomes, report, envVars, taskVars, chain, bg>>

\* Mutant: an outcome without an intent id is not tallied.
TallySkipsUnknown == [attempted |-> attempted,
                      confirmed |-> Cardinality(Counted({"confirmed"})),
                      failed    |-> Cardinality(Counted({"failed"})),
                      timedOut  |-> Cardinality(Counted({"timedOut"}))]

\* What `load_phase` returns, tallied by `run`: `failed` counts the joins that
\* failed as well.
Tally == [attempted |-> attempted,
          confirmed |-> Cardinality(Counted({"confirmed"})),
          failed    |-> Cardinality(Counted({"failed", "unknown"})),
          timedOut  |-> Cardinality(Counted({"timedOut"}))]

Report ==
  /\ loop = "stop"
  /\ signalled = Background
  /\ loop' = "done"
  /\ report' = <<Tally>>
  /\ UNCHANGED <<attempted, late, outcomes, signalled, envVars, taskVars, chain, bg>>

-----------------------------------------------------------------------------
(* The background tasks and the environment. *)

\* A select may take the tick although the shutdown is ready too.
BgCall(b) ==
  /\ bg[b] = "idle"
  /\ bg' = [bg EXCEPT ![b] = "calling"]
  /\ UNCHANGED <<loopVars, envVars, taskVars, chain>>

\* The answer, or an error the task logs and forgets; the miner's block takes
\* what the mempool holds.
BgReturn(b, ok) ==
  /\ bg[b] = "calling"
  /\ bg' = [bg EXCEPT ![b] = "idle"]
  /\ chain' = IF b = "miner" /\ ok
                THEN [i \in Intents |-> IF chain[i] = "mempool" THEN "mined" ELSE chain[i]]
                ELSE chain
  /\ UNCHANGED <<loopVars, envVars, taskVars>>

BgStop(b) ==
  /\ bg[b] = "idle" /\ b \in signalled
  /\ bg' = [bg EXCEPT ![b] = "stopped"]
  /\ UNCHANGED <<loopVars, envVars, taskVars, chain>>

WindowCloses ==
  /\ loop # "start" /\ ~windowOver
  /\ windowOver' = TRUE
  /\ UNCHANGED <<cancelled, loopVars, taskVars, chain, bg>>

Cancel ==
  /\ ~cancelled
  /\ cancelled' = TRUE
  /\ UNCHANGED <<windowOver, loopVars, taskVars, chain, bg>>

LoopStep == \/ StartBackground \/ LoopTop \/ IdleTick \/ DrainEnds \/ Report
            \/ \E i \in Intents : Dispatch(i) \/ Join(i)
            \/ \E b \in Background : Signal(b)

TaskStep(i) == Enter(i) \/ Acquire(i) \/ (\E r \in Results : Finish(i, r)) \/ DropGuard(i)

Next == \/ LoopStep
        \/ \E i \in Intents : TaskStep(i) \/ Broadcast(i)
        \/ \E b \in Background : BgCall(b) \/ BgStop(b) \/ \E ok \in BOOLEAN : BgReturn(b, ok)
        \/ WindowCloses \/ Cancel

Spec == Init /\ [][Next]_vars

(* The runtime polls every ready task, an RPC answers or times out, and the
   window closes by the clock.  tokio's select polls its branches in random
   order, so a shutdown that stays ready is taken in the end.  Nothing promises
   a cancel, a broadcast or a block. *)
Fairness ==
  /\ WF_vars(LoopStep) /\ WF_vars(WindowCloses)
  /\ \A b \in Background : /\ WF_vars(\E ok \in BOOLEAN : BgReturn(b, ok))
                           /\ SF_vars(BgStop(b))

FairSpec == Spec /\ Fairness

(* Every workflow returns by its deadlines (module Exchange shows that). *)
IntentsEnd == \A i \in Intents : WF_vars(TaskStep(i))

(* Patience: the miner keeps being called while it runs, and the node keeps
   accepting its calls. *)
Patience == WF_vars(BgCall("miner")) /\ SF_vars(BgReturn("miner", TRUE))

-----------------------------------------------------------------------------
(* Properties. *)

\* Every variable stays in its range.
TypeOK ==
  /\ loop \in {"start", "top", "tick", "drain", "stop", "done"}
  /\ windowOver \in BOOLEAN /\ cancelled \in BOOLEAN
  /\ attempted \in Nat /\ late \in Nat
  /\ task \in [Intents -> {"undispatched", "spawned", "entered", "waiting", "running",
                           "releasing", "finished", "joined"}]
  /\ result \in [Intents -> Results \cup {"none"}]
  /\ queue \in Seq(Intents)
  /\ permits \in Nat /\ active \in Nat
  /\ chain \in [Intents -> {"none", "mempool", "mined"}]
  /\ bg \in [Background -> {"off", "idle", "calling", "stopped"}]
  /\ signalled \in SUBSET Background
  /\ outcomes \in [Intents -> Outcomes \cup {"none"}]
  /\ report \in Seq([attempted : Nat, confirmed : Nat, failed : Nat, timedOut : Nat])

\* No permit is lost or minted, whichever way a workflow ends (an early return,
\* a failure, a panic): at most max_in_flight workflows run, and in the end all
\* the permits are back.
PermitsConserved == permits + Cardinality(In({"running"})) = MaxInFlight

\* A permit never lies idle while an intent waits for one, and every waiting
\* intent is in the queue, once: none is stranded by a hand-over.
QueueServed ==
  /\ queue # <<>> => permits = 0
  /\ {queue[k] : k \in 1..Len(queue)} = In({"waiting"})
  /\ \A j, k \in 1..Len(queue) : queue[j] = queue[k] => j = k

\* The counter the balance check publishes as `active_accounts` is exactly the
\* number of futures between their first poll and the drop of their guard,
\* those still waiting for a permit included; it is 0 once the drain is over.
ActiveCounted ==
  /\ active = Cardinality(In({"entered", "waiting", "running", "releasing"}))
  /\ loop \in {"stop", "done"} => active = 0

\* The miner is not told to stop while any dispatched intent is unresolved: the
\* comment at the drain says what would happen otherwise.
MinerOutlivesIntents ==
  (\E i \in Intents : task[i] \notin {"undispatched", "joined"}) =>
    /\ signalled = {}
    /\ bg["miner"] # "stopped"

\* The figures `run` tallies add up: every dispatched intent is counted once, a
\* panicked one as failed.
ReportBalances ==
  \A k \in 1..Len(report) :
    report[k].attempted = report[k].confirmed + report[k].failed + report[k].timedOut

\* A cancel or the end of the window stops the dispatch within one tick.
AtMostOneLateDispatch == late <= 1

status == [i \in Intents |-> IF outcomes[i] # "none" THEN outcomes[i]
                             ELSE IF task[i] = "undispatched" THEN "none" ELSE "open"]

\* The load phase keeps the ledger its caller relies on.
Ledger == INSTANCE IntentLedger
            WITH closed <- loop \in {"drain", "stop", "done"}, published <- report
LedgerSpec == Ledger!Spec

\* If intents end, the phase does: none holds the drain up for ever for want of a
\* permit, and no background task outlives its shutdown for ever.
PhaseEnds == IntentsEnd => <>(loop = "done" /\ \A b \in Background : bg[b] = "stopped")

\* No dispatched intent starves in the semaphore's queue.
NoStarvation ==
  IntentsEnd =>
    \A i \in Intents : task[i] = "entered" ~> task[i] \in {"running", "joined"}

\* With a patient node an intent whose transaction is in the mempool sees it
\* mined, also when it was broadcast during the drain and however long the intent
\* would wait (the drain in runner/mod.rs, load_phase), unless it gives up first.
DrainIsMined ==
  Patience =>
    \A i \in Intents : chain[i] = "mempool" ~> (chain[i] = "mined" \/ task[i] # "running")
=============================================================================
