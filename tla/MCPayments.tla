------------------------------- MODULE MCPayments -------------------------------
(* Small instances of Payments for TLC. *)
EXTENDS PaymentsProperties, TLC

CONSTANTS q1, w1, w2, worker

PaidThenFree == 1 :> "A" @@ 2 :> "FREE"
PaidOnly     == 1 :> "A"

Calm == [web |-> {w1}, async |-> FALSE, saves |-> 0, repeats |-> 0, kills |-> 0]
NoHazard == {Calm}
\* One hazard at a time.
OneHazard == {[Calm EXCEPT !.repeats = 1, !.kills = 1], [Calm EXCEPT !.web = Web],
              [Calm EXCEPT !.saves = 1],
              [Calm EXCEPT !.async = TRUE]}
=============================================================================
