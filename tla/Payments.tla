-------------------------------- MODULE Payments --------------------------------
(***************************************************************************)
(* Checkout sessions, Payment rows and the Stripe events about them        *)
(* (app/core/views.py, app/expert/views.py, app/core/signals.py,           *)
(* app/core/clients/stripe_client).  A web request asks Stripe for a       *)
(* session and stores a Payment with its id; Stripe reports what became of *)
(* the session, at least once, and the webhook stores the status, which    *)
(* starts the first request for names, sells a batch or grants the         *)
(* experts' flags.                                                         *)
(*                                                                         *)
(* A web process serves one request at a time.  Payment.save() writes the  *)
(* whole row as the request read it, after the signal pre_save has looked  *)
(* at the table.  All questionnaires here belong to one family (a parent   *)
(* and its children), whose payments set the price.  What a sold batch or  *)
(* an expert's review goes on to is the subject of BatchDelivery and       *)
(* ExpertReviews.                                                          *)
(***************************************************************************)
EXTENDS FeatureConfig

CONSTANTS
    Questionnaires,
    Payments,           \* primary keys of Payment (bound)
    Sessions,           \* Stripe's checkout sessions (bound)
    Web,                \* the processes that serve requests
    Prices,             \* how many BatchPrice rows each plan has
    Environments        \* what may happen: [web |-> the processes that serve customers,
                        \*   async |-> payments may settle later, saves |-> saves of the
                        \*   configuration, repeats |-> events that come again after a 200,
                        \*   kills |-> requests that end with their process] (the last 3: bounds)

ASSUME PaymentsAssumption ==
    /\ Payments \subseteq Nat \ {0} /\ IsFiniteSet(Payments) /\ Sessions \subseteq Nat \ {0}
    /\ Web \subseteq Processes /\ IsFiniteSet(Processes)
    /\ Prices \in Nat \ {0}
    /\ Environments \subseteq
           [web : SUBSET Web, async : BOOLEAN, saves : Nat, repeats : Nat, kills : Nat]

NoId == 0

VARIABLES
    env,            \* which of the Environments this is
    questionnaire,  \* the Questionnaire rows
    first,          \* [Questionnaires -> calls of get_first_batch]
    flags,          \* [Questionnaires -> expert_review_payed ("review"), expert_plus_payed ("plus")]
    payment,        \* [Payments -> the Payment row, if there is one]
    session,        \* [Sessions -> the session, as Stripe knows it]
    event,          \* Stripe's events that have not been answered with 200
    asked,          \* payments for which get_new_batch has been called
    granted,        \* [Sessions -> promo codes or thanks sent for a gift card or a donation]
    req,            \* [Web -> the request the process serves, with its locals]
    repeats, kills

rowVars    == <<questionnaire, first, flags, payment, asked, granted>>
stripeVars == <<session, event, repeats>>
vars == <<configVars, env, rowVars, stripeVars, req, kills>>

ExpertTypes  == {"expert_in_the_loop", "expert_plus", "experts"}
PaymentTypes == {"initial", "buy_more"} \cup ExpertTypes
Flags        == {"review", "plus"}
Products     == {"batch", "expert", "gift_card", "donation"}
EventTypes   == {"completed", "async_payment_succeeded", "async_payment_failed", "expired"}
Event        == [session : Sessions, type : EventTypes]
NoEvent      == [session |-> NoId, type |-> "none"]
Statuses     == {"open", "completed", "failed"}

Row == [q : Questionnaires, type : PaymentTypes, status : Statuses, session : Sessions]
NoRow == [status |-> "none", session |-> NoId]
Session == [product : Products, price : Nat, state : {"created", "open", "processing", "paid",
                                                      "failed", "expired"}]
NoSession == [product |-> "none", price |-> 0, state |-> "none"]
\* row: the Payment to write, with id its key; flags: those of the questionnaire, as read
Idle == [pc |-> "idle", id |-> NoId, row |-> NoRow, event |-> NoEvent, flags |-> {}]
Request ==
         {Idle}
    \cup [pc : {"find", "insert"}, id : {NoId}, row : Row, event : {NoEvent}, flags : {{}}]
    \cup [pc : {"presave", "update", "experts"}, id : Payments, row : Row,
          event : Event \cup {NoEvent}, flags : SUBSET Flags]

PaymentsTypeOK ==
    /\ env \in Environments
    /\ questionnaire \subseteq Questionnaires
    /\ first \in [Questionnaires -> Nat] /\ flags \in [Questionnaires -> SUBSET Flags]
    /\ payment \in [Payments -> Row \cup {NoRow}]
    /\ session \in [Sessions -> Session \cup {NoSession}]
    /\ event \subseteq Event
    /\ asked \subseteq Payments /\ granted \in [Sessions -> Nat]
    /\ req \in [Web -> Request]
    /\ repeats \in Nat /\ kills \in Nat
TypeOK == ConfigTypeOK /\ PaymentsTypeOK

Init ==
    /\ InitConfig
    /\ env \in Environments
    /\ questionnaire = {}
    /\ first = [q \in Questionnaires |-> 0] /\ flags = [q \in Questionnaires |-> {}]
    /\ payment = [i \in Payments |-> NoRow] /\ session = [s \in Sessions |-> NoSession]
    /\ event = {} /\ asked = {} /\ granted = [s \in Sessions |-> 0]
    /\ req = [w \in Web |-> Idle]
    /\ repeats = 0 /\ kills = 0

-----------------------------------------------------------------------------
(* Web processes *)

\* The process is free to serve a request.
Ready(w) == w \in env.web /\ req[w] = Idle /\ saver[w] = NotSaving
At(w, pc) == req[w].pc = pc
Goto(w, pc) == req' = [req EXCEPT ![w].pc = pc]
Done(w) == req' = [req EXCEPT ![w] = Idle]

\* Other reads of the configuration: GET config, the size of a batch in the tasks.
ReadConfig(p) ==
    /\ LoadConfig(p)
    /\ UNCHANGED <<env, rowVars, stripeVars, req, kills>>

\* A cached entry grows old at any time; a save is a request.
ChangeConfig(p) ==
    /\ \/ Expire(p)
       \/ (p \in Web => req[p] = Idle) /\ SaveConfig(p) /\ saves' <= env.saves
    /\ UNCHANGED <<env, rowVars, stripeVars, req, kills>>

\* CompleteDraft, of which Drafts tells the rest: in the free plan there is nothing to pay.  With no
\* active configuration the questionnaire is there and the answer is a 500.
CompleteDraft(w, q) ==
    /\ Ready(w) /\ q \notin questionnaire
    /\ questionnaire' = questionnaire \cup {q}
    /\ \/ LoadConfig(w) /\ first' = IF IsFree(w) THEN [first EXCEPT ![q] = @ + 1] ELSE first
       \/ ~CanLoad(w) /\ UNCHANGED <<configVars, first>>
    /\ UNCHANGED <<env, flags, payment, asked, granted, stripeVars, req, kills>>

-----------------------------------------------------------------------------
(* Questionnaire's properties about its payments *)

RowsOf(q)       == {i \in Payments : payment[i] # NoRow /\ payment[i].q = q}
CompletedRows   == {i \in Payments : payment[i].status = "completed"}
Completed(q, T) == {i \in RowsOf(q) \cap CompletedRows : payment[i].type \in T}
HasCompleted(q) == Completed(q, {"initial"}) # {}

InProgress_None(q) == {}
InProgress(q) == {i \in RowsOf(q) : payment[i].type = "initial" /\ payment[i].status # "failed"}

-----------------------------------------------------------------------------
(* Sessions (StripeClient) *)

\* get_bought_batches_number: the completed payments of the family, whatever they were for.
BoughtBatches == Cardinality(CompletedRows)
\* The last price holds for all that come after it.
PriceOf(number) == Min({number, Prices - 1})

Unused(f, none) == {i \in DOMAIN f : f[i] = none}

NewId == Min(Unused(session, NoSession))

\* The caller learns the address of the session.
NewSession(product, price, state) ==
    /\ Unused(session, NoSession) # {}
    /\ session' = [session EXCEPT ![Min(Unused(session, NoSession))] =
            [product |-> product, price |-> price, state |-> state]]

BatchSession    == NewSession("batch", PriceOf(BoughtBatches), "created")
ExpertSession   == NewSession("expert", 0, "created")
GiftCardSession == NewSession("gift_card", 0, "open")
DonationSession == NewSession("donation", 0, "open")

\* create_expert_session: the flag of the first purchase decides what is on sale.
ExpertType(plus, has) ==
    CASE plus /\ "review" \notin has -> "experts"
      [] plus /\ "review" \in has    -> "expert_plus"
      [] ~plus                       -> "expert_in_the_loop"

-----------------------------------------------------------------------------
(* CreatePayment, BuyMore, BuyExpertInTheLoop *)

Open_New(q, type) == [q |-> q, type |-> type, status |-> "new", session |-> NewId]
Open(q, type) == [q |-> q, type |-> type, status |-> "open", session |-> NewId]

CreatePayment_Again(w, q) ==
    /\ Ready(w) /\ q \in questionnaire
    /\ LoadConfig(w)
    /\ BatchSession
    /\ req' = [req EXCEPT ![w] = [Idle EXCEPT !.pc = "find", !.row = Open(q, "initial")]]
    /\ UNCHANGED <<env, rowVars, event, repeats, kills>>

CreatePayment(w, q) ==
    /\ Ready(w) /\ q \in questionnaire
    /\ ~HasCompleted(q)
    /\ LoadConfig(w)
    /\ BatchSession
    /\ req' = [req EXCEPT ![w] = [Idle EXCEPT !.pc = "find", !.row = Open(q, "initial")]]
    /\ UNCHANGED <<env, rowVars, event, repeats, kills>>

\* initial_payment_in_progress: a row that has not failed gets the new session, with the status
\* it has now.
FindInitial(w) ==
    /\ At(w, "find")
    /\ LET rows == InProgress(req[w].row.q)
       IN  req' = [req EXCEPT ![w] =
               IF rows = {} THEN [@ EXCEPT !.pc = "insert"]
               ELSE [@ EXCEPT !.pc = "presave", !.id = Min(rows),
                              !.row.status = payment[Min(rows)].status]]
    /\ UNCHANGED <<configVars, env, rowVars, stripeVars, kills>>

\* There are batches left (the first request has made some), and the plan is not free.
BuyMore(w, q) ==
    /\ Ready(w) /\ q \in questionnaire
    /\ first[q] > 0 /\ HasCompleted(q)
    /\ LoadConfig(w) /\ ~IsFree(w)
    /\ BatchSession
    /\ req' = [req EXCEPT ![w] = [Idle EXCEPT !.pc = "insert", !.row = Open(q, "buy_more")]]
    /\ UNCHANGED <<env, rowVars, event, repeats, kills>>

\* What the view answers with "You have already paid".
AlreadyPaid(q, plus) ==
    IF plus THEN "plus" \in flags[q] \/ Completed(q, {"experts", "expert_plus"}) # {}
            ELSE "review" \in flags[q] \/ Completed(q, {"experts", "expert_in_the_loop"}) # {}

\* In the free plan it is not asked for what has been paid; only Stripe refuses a session with
\* nothing on sale.
BuyExpert(w, q, plus) ==
    /\ Ready(w) /\ q \in questionnaire
    /\ \/ HasCompleted(q) /\ ~AlreadyPaid(q, plus) /\ UNCHANGED configVars
       \/ ~HasCompleted(q) /\ LoadConfig(w) /\ IsFree(w) /\ (plus \/ "review" \notin flags[q])
    /\ ExpertSession
    /\ req' = [req EXCEPT ![w] =
            [Idle EXCEPT !.pc = "insert", !.row = Open(q, ExpertType(plus, flags[q]))]]
    /\ UNCHANGED <<env, rowVars, event, repeats, kills>>

\* get_gift_card_session, MakeDonation: a session without a Payment.
BuyGiftCard(w) ==
    /\ Ready(w)
    /\ LoadConfig(w)
    /\ GiftCardSession
    /\ UNCHANGED <<env, rowVars, event, repeats, req, kills>>
MakeDonation(w) ==
    /\ Ready(w)
    /\ DonationSession
    /\ UNCHANGED <<configVars, env, rowVars, event, repeats, req, kills>>

-----------------------------------------------------------------------------
(* Payment.save and its signals *)

\* With the answer the customer gets the address.
OpenSession(s) == session' = [session EXCEPT ![s].state = "open"]

InsertPayment(w) ==
    /\ At(w, "insert")
    /\ LoadConfig(w)
    /\ Unused(payment, NoRow) # {}
    /\ payment' = [payment EXCEPT ![Min(Unused(payment, NoRow))] = req[w].row]
    /\ OpenSession(req[w].row.session)
    /\ Done(w)
    /\ UNCHANGED <<env, questionnaire, first, flags, asked, granted, event, repeats, kills>>

FirstTrigger_EachPayment(w) ==
    LET r == req[w]
    IN  payment[r.id].status # "completed" /\ r.row.status = "completed"

FirstTrigger(w) ==
    LET r == req[w]
    IN  /\ payment[r.id].status # "completed" /\ r.row.status = "completed"
        /\ RowsOf(r.row.q) \cap CompletedRows = {}

\* next_step_trigger, before the UPDATE: the first completed payment of the questionnaire.
PreSave(w) ==
    /\ At(w, "presave")
    /\ LoadConfig(w)
    /\ first' = IF ~IsFree(w) /\ FirstTrigger(w) THEN [first EXCEPT ![req[w].row.q] = @ + 1]
                                                 ELSE first
    /\ Goto(w, "update")
    /\ UNCHANGED <<env, questionnaire, flags, payment, asked, granted, stripeVars, kills>>

\* A 200 is the last that is heard of the event, or it comes again all the same.
Answered(e) ==
    \/ event' = event \ {e} /\ UNCHANGED repeats
    \/ event' = event /\ repeats < env.repeats /\ repeats' = repeats + 1

\* The UPDATE, and bought_new_batch after it.  Then CreatePayment answers with the session, and
\* the webhook goes on with the experts or answers.
UpdatePayment(w) ==
    LET r == req[w]
        completed == r.row.status = "completed"
    IN  /\ At(w, "update")
        /\ payment' = [payment EXCEPT ![r.id] = r.row]
        /\ \/ /\ LoadConfig(w)
              /\ asked' = IF ~IsFree(w) /\ completed /\ r.row.type = "buy_more"
                          THEN asked \cup {r.id} ELSE asked
              /\ \/ r.event = NoEvent /\ OpenSession(r.row.session) /\ Done(w)
                    /\ UNCHANGED <<event, repeats>>
                 \/ /\ r.event # NoEvent /\ completed /\ r.row.type \in ExpertTypes
                    /\ Goto(w, "experts") /\ UNCHANGED stripeVars
                 \/ /\ r.event # NoEvent /\ ~(completed /\ r.row.type \in ExpertTypes)
                    /\ Answered(r.event) /\ Done(w) /\ UNCHANGED session
           \/ ~CanLoad(w) /\ Done(w) /\ UNCHANGED <<configVars, asked, stripeVars>>
        /\ UNCHANGED <<env, questionnaire, first, flags, granted, kills>>

\* get_active_config raises, and the request ends with a 500.
FailRequest(w) ==
    /\ req[w].pc \in {"insert", "presave"} /\ ~CanLoad(w)
    /\ Done(w)
    /\ UNCHANGED <<configVars, env, rowVars, stripeVars, kills>>

-----------------------------------------------------------------------------
(* stripe_payment_webhook *)

NewStatus_Always(type) == "completed"
NewStatus_AsyncOnly(type) == IF type = "async_payment_succeeded" THEN "completed" ELSE "failed"
NewStatus(type) ==
    IF type \in {"completed", "async_payment_succeeded"} THEN "completed" ELSE "failed"

\* BatchHandler and ExpertHandler look the Payment up, with its questionnaire; without one they
\* raise, and the event stays.
PaymentsOf(e) == {i \in Payments : payment[i].session = e.session}
HandleEvent(w, e) ==
    /\ Ready(w) /\ e \in event
    /\ \E i \in PaymentsOf(e) :
        req' = [req EXCEPT ![w] = [pc |-> "presave", id |-> i, event |-> e,
            row |-> [payment[i] EXCEPT !.status = NewStatus(e.type)], flags |-> flags[payment[i].q]]]
    /\ UNCHANGED <<configVars, env, rowVars, stripeVars, kills>>

\* GiftCardHandler sends the task for the promo codes, DonationHandler the thanks; other events
\* than a completion go unnoticed.
GrantGift(e, product) ==
    /\ session[e.session].product = product
    /\ granted' = IF NewStatus(e.type) = "completed" THEN [granted EXCEPT ![e.session] = @ + 1]
                                                      ELSE granted
PromoCodes(e) == GrantGift(e, "gift_card")
Thanks(e)     == GrantGift(e, "donation")
HandleGift(w, e) ==
    /\ Ready(w) /\ e \in event
    /\ PromoCodes(e) \/ Thanks(e)
    /\ Answered(e)
    /\ UNCHANGED <<configVars, env, questionnaire, first, flags, payment, asked, session, req, kills>>

Granted(type) ==
    CASE type = "expert_in_the_loop"          -> {"review"}
      [] type \in {"experts", "expert_plus"}  -> {"review", "plus"}

GrantExperts_Only(w) ==
    LET r == req[w]
    IN  /\ At(w, "experts")
        /\ flags' = [flags EXCEPT ![r.row.q] = Granted(r.row.type)]
        /\ Answered(r.event) /\ Done(w)
        /\ UNCHANGED <<configVars, env, questionnaire, first, payment, asked, granted, session, kills>>

\* The questionnaire is saved as it was read with the payment, with the new flags.
GrantExperts(w) ==
    LET r == req[w]
    IN  /\ At(w, "experts")
        /\ flags' = [flags EXCEPT ![r.row.q] = r.flags \cup Granted(r.row.type)]
        /\ Answered(r.event) /\ Done(w)
        /\ UNCHANGED <<configVars, env, questionnaire, first, payment, asked, granted, session, kills>>

\* gunicorn kills a process that takes too long, or it is redeployed.
Kill(w) ==
    /\ req[w] # Idle /\ kills < env.kills
    /\ kills' = kills + 1
    /\ Done(w)
    /\ UNCHANGED <<configVars, env, rowVars, stripeVars>>

-----------------------------------------------------------------------------
(* Stripe *)

Report(s, state, type) ==
    /\ session' = [session EXCEPT ![s].state = state]
    /\ event' = event \cup {[session |-> s, type |-> type]}
    /\ UNCHANGED <<configVars, env, rowVars, repeats, req, kills>>

Pay(s) ==
    /\ session[s].state = "open"
    /\ Report(s, "paid", "completed") \/ (env.async /\ Report(s, "processing", "completed"))
Settle(s) ==
    /\ session[s].state = "processing"
    /\ Report(s, "paid", "async_payment_succeeded") \/ Report(s, "failed", "async_payment_failed")
ExpireSession(s) ==
    /\ session[s].state = "open"
    /\ Report(s, "expired", "expired")

-----------------------------------------------------------------------------
SaveStep(w) == FindInitial(w) \/ InsertPayment(w) \/ PreSave(w) \/ UpdatePayment(w)
               \/ GrantExperts(w) \/ FailRequest(w)
ViewStep(w) ==
    \/ \E q \in Questionnaires : CompleteDraft(w, q) \/ CreatePayment(w, q) \/ BuyMore(w, q)
    \/ \E q \in Questionnaires, plus \in BOOLEAN : BuyExpert(w, q, plus)
    \/ BuyGiftCard(w) \/ MakeDonation(w)
EventStep(w) == \E e \in event : HandleEvent(w, e) \/ HandleGift(w, e)

Next ==
    \/ \E p \in Processes : ReadConfig(p) \/ ChangeConfig(p)
    \/ \E w \in Web : SaveStep(w) \/ ViewStep(w) \/ EventStep(w) \/ Kill(w)
    \/ \E s \in Sessions : Pay(s) \/ Settle(s) \/ ExpireSession(s)

Spec == Init /\ [][Next]_vars

\* A process goes on with its request, Stripe repeats an event until it gets a 200, entries of
\* the cache grow old, and a save of the configuration that has begun is carried through.
Fairness ==
    /\ \A w \in Web : WF_vars(SaveStep(w)) /\ WF_vars(EventStep(w))
    /\ \A p \in Processes : WF_vars(ChangeConfig(p) /\ UNCHANGED saves)
FairSpec == Spec /\ Fairness
=============================================================================
