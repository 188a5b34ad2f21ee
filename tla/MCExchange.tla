----------------------------- MODULE MCExchange -----------------------------
(***************************************************************************)
(* Instances of Exchange for TLC.                                          *)
(***************************************************************************)
EXTENDS Exchange, TLC

CONSTANTS i1, i2, i3, a1, a2, c1, c2, c3

\* Two withdrawals from one shielded account, which sweep the same notes, one of
\* them mined just now, beside a deposit from it; the hot wallet holds one note.
Sweeps == i1 :> "ZToT" @@ i2 :> "ZToT" @@ i3 :> "ZToZ"
ShieldedPurses == c1 :> <<a1, "shielded">> @@ c2 :> <<a1, "shielded">> @@ c3 :> Hot

\* The two withdrawals change places.
SweepsAlike == Permutations({i1, i2})

FromA1 == [i \in Intents |-> a1]
ToA2 == [i \in Intents |-> a2]
\* The third intent goes the other way.
Senders == [i \in Intents |-> IF i = i3 THEN a2 ELSE a1]
Recipients == [i \in Intents |-> IF i = i3 THEN a1 ELSE a2]
YoungNote == c1 :> 0 @@ c2 :> 2 @@ c3 :> 0
=============================================================================
