----------------------------- MODULE RpcMatrix -----------------------------
(***************************************************************************)
(* What the RPC matrix (CallMatrix) makes of the z_sendmany attempts that  *)
(* the workflows of Exchange record: one run, one method, all in the load. *)
(***************************************************************************)
EXTENDS Exchange, Functions

ASSUME LinkAssumption == "none" \notin Intents

M == INSTANCE CallMatrix WITH Category <- [m \in {"z_sendmany"} |-> "Stress"]

\* The file has the first attempts of all intents, then the second ones, and so on, in some
\* order of the intents, to which the matrix does not look.
Turn == CHOOSE f \in Bijection(Intents, 1..Cardinality(Intents)) : TRUE
Place(i, k) == Cardinality(Intents) * (k - 1) + Turn[i]

Attempts == UNION {{<<i, k>> : k \in DOMAIN sends[i]} : i \in Intents}

Recorded(a) ==
  LET send == sends[a[1]][a[2]]
  IN [run |-> 1, method |-> "z_sendmany", phase |-> "load", intent |-> a[1],
      attempt |-> send.attempt, ok |-> send.ok,
      code |-> IF send.ok THEN "none" ELSE "error", ms |-> 1]

\* The attempts of all intents as records of the calls file, at their places.
Calls == [p \in {Place(a[1], a[2]) : a \in Attempts} |->
            Recorded(CHOOSE a \in Attempts : Place(a[1], a[2]) = p)]

Row == M!Row(Calls, "z_sendmany", M!Workload)
RetryDetail == M!RetryDetail(Calls, M!Workload)["z_sendmany"]

\* The call that stands for an intent.
Representative(i) ==
  LET All == M!CallsTo(Calls, "z_sendmany", M!Workload)
  IN Calls[CHOOSE k \in M!Representatives(Calls, All) : Calls[k].intent = i]

-----------------------------------------------------------------------------
(* Properties. *)

Settled == \A i \in Intents : pc[i] = "done"

Linked == {i \in Intents : sends[i] # <<>>}
LastSend(i) == sends[i][Len(sends[i])]

\* Of a run whose senders have one leg each, the row counts each of them once, by
\* how its retries ended, and the retry detail says how many it took.
RowShowsOutcomes ==
  Settled /\ Linked # {} /\ (\A i \in Linked : Legs(i) = 1) =>
    /\ Row.successes = Cardinality({i \in Linked : LastSend(i).ok})
    /\ RetryDetail.single = Cardinality({i \in Linked : Len(sends[i]) = 1})
    /\ RetryDetail.twoToThree = Cardinality({i \in Linked : Len(sends[i]) \in {2, 3}})

\* "the attempt with the highest attempt_number, whose success is that retry
\* sequence's terminal outcome": whatever its legs, an intent whose last send
\* failed is not a success of the matrix.
RepresentativeIsTerminal ==
  \A i \in Linked : pc[i] = "done" => (Representative(i).ok <=> LastSend(i).ok)
=============================================================================
