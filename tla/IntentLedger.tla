---------------------------- MODULE IntentLedger ----------------------------
(***************************************************************************)
(* What the load phase promises its caller, without tasks, permits or      *)
(* channels: an intent is opened while dispatch is open, settled once with *)
(* a terminal outcome that never changes, and the figures are published    *)
(* when dispatch is closed and nothing is open any more.                   *)
(***************************************************************************)
EXTENDS Naturals, FiniteSets

CONSTANT Intents

VARIABLES status,     \* "none", "open" or the intent's terminal outcome
          closed,     \* no intent is opened any more
          published   \* the figures, <<>> until they are published

vars == <<status, closed, published>>

Terminal == {"confirmed", "failed", "timedOut", "unknown"}

Having(kinds) == Cardinality({i \in Intents : status[i] \in kinds})

Init == /\ status = [i \in Intents |-> "none"]
        /\ closed = FALSE
        /\ published = <<>>

Open(i) == /\ ~closed /\ status[i] = "none"
           /\ status' = [status EXCEPT ![i] = "open"]
           /\ UNCHANGED <<closed, published>>

Settle(i, t) == /\ closed /\ status[i] = "open"
                /\ status' = [status EXCEPT ![i] = t]
                /\ UNCHANGED <<closed, published>>

Close == /\ ~closed
         /\ closed' = TRUE
         /\ UNCHANGED <<status, published>>

Publish == /\ closed /\ published = <<>> /\ Having({"open"}) = 0
           /\ published' = <<[attempted |-> Having(Terminal),
                              confirmed |-> Having({"confirmed"}),
                              failed    |-> Having({"failed", "unknown"}),
                              timedOut  |-> Having({"timedOut"})]>>
           /\ UNCHANGED <<status, closed>>

Next == \/ \E i \in Intents : Open(i) \/ \E t \in Terminal : Settle(i, t)
        \/ Close \/ Publish

Spec == Init /\ [][Next]_vars
=============================================================================
