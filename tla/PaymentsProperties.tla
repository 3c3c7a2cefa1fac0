--------------------------- MODULE PaymentsProperties ---------------------------
(* What holds of payments, and when: with cards only (nothing settles later), with one request *)
(* at a time, without a change of the configuration.                                           *)
EXTENDS Payments

Sole    == Cardinality(env.web) <= 1
Careful == Sole /\ ~env.async

\* However often Stripe repeats its events, the chain of the first batch is started once for a
\* questionnaire, by the draft's completion or by its first payment (next_step_trigger), unless
\* the plan changes in between or a web process dies between the trigger and the UPDATE.
FirstBatchOnce ==
    Careful /\ saves = 0 /\ kills = 0 => \A q \in Questionnaires : first[q] <= 1

\* What counts as completed has been paid: the status that the webhook stores, or the stale one
\* that CreatePayment writes back, belongs to a session that Stripe has the money for, and no
\* promo code goes out for a session that was left to expire.
CompletedIsPaid ==
    Careful =>
        /\ \A i \in CompletedRows : session[payment[i].session].state = "paid"
        /\ \A s \in Sessions : granted[s] > 0 => session[s].state = "paid"

\* A completed payment is never touched again: no session is put in its place, no later event
\* takes its status back.
CompletedStays ==
    [][Careful => \A i \in CompletedRows : payment'[i] = payment[i]]_payment

\* The customer is not asked for the first batch's price twice: at most one initial payment of
\* a questionnaire is completed, and further batches are sold at a later price.
PricesAdvance ==
    Careful => \A q \in Questionnaires :
        /\ Cardinality(Completed(q, {"initial"})) <= 1
        /\ \A i \in RowsOf(q) :
               payment[i].type = "buy_more" => session[payment[i].session].price >= Min({1, Prices - 1})

\* Once every event about it has been answered, a completed payment for experts has set its
\* flags on the questionnaire, even if the process died in between.
ExpertsGranted ==
    Sole => \A i \in CompletedRows :
        \/ payment[i].type \notin ExpertTypes
        \/ Granted(payment[i].type) \subseteq flags[payment[i].q]
        \/ \E e \in event : e.session = payment[i].session

\* What a customer pays for a further batch or for experts, or as a gift, is recorded in the end,
\* unless an administrator leaves no configuration active.
Recorded(s) ==
    \/ granted[s] > 0
    \/ \E i \in CompletedRows : payment[i].session = s
ForFirstBatch(s) ==
    session[s].product = "batch" /\ \A i \in Payments : payment[i].session = s => payment[i].type = "initial"
PaidIsRecorded ==
    \A s \in Sessions :
        session[s].state = "paid" /\ ~ForFirstBatch(s) ~> Recorded(s) \/ active = {}

\* Until it is recorded, Stripe has an event to deliver for it: no 200 is given before the UPDATE,
\* no stale row and no event that is overtaken undoes it, with any number of web processes,
\* payments that settle later and requests that are killed.
PaidIsReported ==
    \A s \in Sessions :
        session[s].state = "paid" /\ ~ForFirstBatch(s)
            => Recorded(s) \/ \E e \in event : e.session = s

\* A configuration that stays active is in the end the one every process works with, although
\* only one of them was told.
CachesCatchUp ==
    \A c \in Configs : <>[](active = {c}) => []<>(\A p \in Processes : cache[p] \in {NoConfig, c})

\* A session that Stripe has the money for belongs to a Payment.
PaidHasPayment ==
    \A s \in Sessions :
        session[s].state = "paid" /\ session[s].product \in {"batch", "expert"}
            => \E i \in Payments : payment[i].session = s
=============================================================================
