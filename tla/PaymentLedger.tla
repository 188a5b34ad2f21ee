--------------------------- MODULE PaymentLedger ---------------------------
(***************************************************************************)
(* What the exchange workflows promise of the money, without attempts,     *)
(* polls, operations or a mempool: an intent pays its legs in their order  *)
(* and each of them once, every payment moves notes from who owes it to    *)
(* whom it is owed, and what is said of an intent in the end is true:      *)
(* confirmed if all of it was paid, refused if the rest never will be.     *)
(* Only of an intent whose end is uncertain a payment may still come.      *)
(***************************************************************************)
EXTENDS Naturals

CONSTANTS Intents, Coins, Purses,
          LegCount,        \* number of payments of each intent
          Payer, Payee     \* purses of each payment

VARIABLES purse,    \* that holds each coin
          paid,     \* the payments that are made
          fate      \* of each intent: "open", or what was said of it

vars == <<purse, paid, fate>>

Payments == UNION {{<<i, l>> : l \in 1..LegCount[i]} : i \in Intents}
Of(i) == {p \in Payments : p[1] = i}
Kept == <<>>

Init == /\ purse \in [Coins -> Purses]
        /\ paid = {}
        /\ fate = [i \in Intents |-> "open"]

\* Payments are made, one or more at once, each of coins of its own.
Pay ==
  LET made == paid' \ paid IN
  /\ made # {} /\ paid' = paid \cup made /\ made \subseteq Payments
  /\ \A p \in made : /\ fate[p[1]] \in {"open", "uncertain"}
                     /\ \A l \in 1..(p[2] - 1) : <<p[1], l>> \in paid
  /\ \E by \in [Coins -> made \cup {Kept}] :
       /\ \A p \in made : \E c \in Coins : by[c] = p
       /\ \A c \in Coins : by[c] # Kept => purse[c] = Payer[by[c]]
       /\ purse' = [c \in Coins |-> IF by[c] = Kept THEN purse[c] ELSE Payee[by[c]]]
  /\ UNCHANGED fate

Settle(i, f) ==
  /\ fate[i] = "open" /\ fate' = [fate EXCEPT ![i] = f]
  /\ f = "confirmed" => Of(i) \subseteq paid
  /\ f = "refused" => ~(Of(i) \subseteq paid)
  /\ UNCHANGED <<purse, paid>>

Next == Pay \/ \E i \in Intents, f \in {"confirmed", "refused", "uncertain"} : Settle(i, f)

Spec == Init /\ [][Next]_vars
=============================================================================
