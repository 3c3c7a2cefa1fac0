------------------------------ MODULE ExpertReviews ------------------------------
(***************************************************************************)
(* What follows a payment for the experts (app/expert, ExpertHandler,      *)
(* get_new_batch): the flags of the questionnaire, the review of every     *)
(* bought batch, the three suggestions of the "plus" service, and what the *)
(* customer is told.  One questionnaire, whose first batch has been paid.  *)
(*                                                                         *)
(* Each save() writes all columns of a row as it was read: the             *)
(* questionnaire's by the webhook and by generate_offering_description, a  *)
(* batch's by the webhook, get_new_batch and check_phrases_completion.     *)
(* A request of the administration pages is one transaction.               *)
(***************************************************************************)
EXTENDS Naturals, FiniteSets, FiniteSetsExt

CONSTANTS
    Batches,        \* primary keys of ResultBatch (bound)
    Names,          \* names that experts may suggest
    Web,            \* the processes that serve requests
    Environments    \* what may happen: [web |-> the processes that serve customers,
                    \*   early |-> experts are paid before the first batch is there,
                    \*   overlap |-> worker tasks and edits overlap with requests,
                    \*   careless |-> experts tick "review completed" too soon,
                    \*   removes |-> administrators add and delete reviews and what they contain,
                    \*   moves |-> administrators attach a review to another batch,
                    \*   dry |-> the generation for the experts may end without candidates,
                    \*   batches, kills, repeats, edits, orders |-> bounds]

ASSUME ReviewsAssumption ==
    /\ Batches \subseteq Nat \ {0} /\ IsFiniteSet(Batches) /\ IsFiniteSet(Web)
    /\ Environments \subseteq [web : SUBSET Web, early : BOOLEAN, overlap : BOOLEAN,
           careless : BOOLEAN, removes : BOOLEAN, moves : BOOLEAN, dry : BOOLEAN,
           batches : Nat, kills : Nat, repeats : Nat, edits : Nat, orders : Nat]

VARIABLES
    env,            \* which of the Environments this is
    row,            \* the questionnaire: expert_review_payed, expert_plus_payed, picks_shown
    batch,          \* [Batches -> bought and expert_review_required of the row, if there is one]
    review,         \* [Batches -> the ExpertBatchReview with its reviews, if there is one]
    candidates,     \* names of the questionnaire's NameCandidate rows
    order,          \* a payment for experts of which Stripe has not got a 200
    paid,           \* types of the completed payments for experts
    req,            \* [Web -> the request the process serves, with its locals]
    check, writer,  \* rows that check_phrases_completion and generate_offering_description read
    due,            \* how many of these tasks are on their way
    unused,         \* the pathways have not all been run for the experts
    told,           \* the experts have their mail about the candidates
    mails,          \* mails "review completed"
    kills, repeats, edits

rows == <<row, batch, review, candidates>>
workers == <<check, writer, due, unused, told>>
counts == <<kills, repeats, edits>>
vars == <<env, rows, order, paid, req, workers, mails, counts>>

OrderTypes == {"expert_in_the_loop", "expert_plus", "experts"}
Plus       == {"expert_plus", "experts"}
Questionnaire == [review : BOOLEAN, plus : BOOLEAN, picks : BOOLEAN]
Batch    == [bought : BOOLEAN, status : {"none", "new", "required", "pending", "done"}]
NoBatch  == [bought |-> FALSE, status |-> "none"]
\* results: the ResultReviews do not exist, are not (all) filled in, or pass the validation;
\* of: the batches whose results they review; triples, filled: ExpertPlusReviews, three at a
\* time; names: what they suggest.
Review   == [completed : BOOLEAN, results : {"none", "empty", "valid"},
             of : SUBSET Batches, triples : Nat, filled : BOOLEAN, names : SUBSET Names]
Created  == [completed |-> FALSE, results |-> "none", of |-> {}, triples |-> 0,
             filled |-> TRUE, names |-> {}]
NoReview == [Created EXCEPT !.results = "no review"]
NoRow    == [review |-> FALSE, plus |-> FALSE, picks |-> FALSE]
Idle     == [pc |-> "idle", type |-> "none", row |-> NoRow, rows |-> [b \in Batches |-> NoBatch],
             todo |-> {}]
NoCheck  == [pc |-> "none", rows |-> [b \in Batches |-> NoBatch], todo |-> {}]
NoWriter == [pc |-> "none", row |-> NoRow]

TypeOK ==
    /\ env \in Environments
    /\ row \in Questionnaire /\ batch \in [Batches -> Batch]
    /\ review \in [Batches -> Review \cup {NoReview}] /\ candidates \subseteq Names
    /\ order \in OrderTypes \cup {"none"} /\ paid \subseteq OrderTypes
    /\ req \in [Web -> [pc : {"idle", "pay", "mark", "sell", "review", "fill", "plus"},
                        type : OrderTypes \cup {"none", "sale"}, row : Questionnaire,
                        rows : [Batches -> Batch], todo : SUBSET Batches]]
    /\ check \in [pc : {"none", "run"}, rows : [Batches -> Batch], todo : SUBSET Batches]
    /\ writer \in [pc : {"none", "read"}, row : Questionnaire]
    /\ due \in [check : Nat, describe : Nat, generate : Nat, rationales : Nat]
    /\ unused \in BOOLEAN /\ told \in BOOLEAN
    /\ mails \in Nat /\ kills \in Nat /\ repeats \in Nat /\ edits \in Nat

Init ==
    /\ env \in Environments
    /\ row = NoRow /\ batch = [b \in Batches |-> NoBatch]
    /\ review = [b \in Batches |-> NoReview] /\ candidates = Names
    /\ order = "none" /\ paid = {} /\ req = [w \in Web |-> Idle]
    /\ check = NoCheck /\ writer = NoWriter /\ unused = TRUE /\ told = FALSE
    /\ due = [check |-> 0, describe |-> 0, generate |-> 0, rationales |-> 0]
    /\ mails = 0 /\ kills = 0 /\ repeats = 0 /\ edits = 0

Rows         == {b \in Batches : batch[b] # NoBatch}
Bought(f)    == {b \in Batches : f[b].bought}
In(f, state) == {b \in Batches : f[b].status = state}
HasReview(b) == review[b] # NoReview
\* A result has one ResultReview at most.
Held(b)      == \E c \in Batches : b \in review[c].of

\* common_expert_review_status: numbers of batches are compared, with the flag of the row in hand.
CommonStatus(r, f) ==
    LET all == Cardinality(Bought(f))
    IN  CASE ~r.review                                                    -> "not_payed"
          [] r.review /\ all = Cardinality(In(f, "done"))                 -> "completed"
          [] r.review /\ all # Cardinality(In(f, "done"))
                      /\ all = Cardinality(In(f, "required"))             -> "requested"
          [] OTHER                                                        -> "pending"

\* Without overlap a worker's task is not disturbed between its read and its last save, and
\* nobody edits a review in the middle of a request about it.
Undisturbed == env.overlap \/ (check = NoCheck /\ writer = NoWriter)
NoRequests  == env.overlap \/ \A w \in Web : req[w] = Idle

-----------------------------------------------------------------------------
(* Models and signals *)

\* ExpertBatchReview.save: the status of the batch first; then, whatever has changed, the mail
\* if all are done.
StatusFor_Completed(r) == IF r.completed THEN "completed" ELSE "pending"
StatusFor(r) == IF r.completed THEN "done" ELSE "pending"
MailsFor(f) == IF CommonStatus(row, f) = "completed" THEN 1 ELSE 0
SaveReview(b, r, bought) ==
    /\ batch' = [batch EXCEPT ![b] = [bought |-> bought, status |-> StatusFor(r)]]
    /\ review' = [review EXCEPT ![b] = r]
    /\ mails' = mails + MailsFor(batch')

\* set_required_status_on_delete, with the cascade to the reviews.
DeleteReview(b) ==
    /\ batch' = [batch EXCEPT ![b].status = "required"]
    /\ review' = [review EXCEPT ![b] = NoReview]
    /\ UNCHANGED <<candidates, mails>>

-----------------------------------------------------------------------------
(* Payments for experts (BuyExpertInTheLoop, ExpertHandler) *)

Started(w) == w \in env.web /\ req[w] = Idle /\ Undisturbed
At(w, pc)  == req[w].pc = pc
Goto(w, pc) == req' = [req EXCEPT ![w].pc = pc]
Done(w)    == req' = [req EXCEPT ![w] = Idle]
This(w)    == Min(req[w].todo)

\* The customer pays what the view offers, one order after the other.
Order(type) ==
    /\ order = "none" /\ Cardinality(paid) < env.orders
    /\ env.early \/ Bought(batch) # {}
    /\ CASE type = "expert_in_the_loop" -> ~row.review /\ paid \cap {"expert_in_the_loop", "experts"} = {}
         [] type = "experts"            -> ~row.review /\ ~row.plus /\ paid \cap Plus = {}
         [] type = "expert_plus"        -> row.review /\ ~row.plus /\ paid \cap Plus = {}
    /\ order' = type
    /\ UNCHANGED <<env, rows, paid, req, workers, mails, counts>>

\* handle_data: the payment is looked up with its questionnaire, and saved.
TakeOrder(w) ==
    /\ Started(w) /\ order # "none" /\ \A v \in Web : req[v].type # order
    /\ req' = [req EXCEPT ![w] = [Idle EXCEPT !.pc = "pay", !.type = order, !.row = row]]
    /\ paid' = paid \cup {order}
    /\ UNCHANGED <<env, rows, order, workers, mails, counts>>

\* __set_expert_review_payed, up to the batches that _prepare_modified_data goes through.
SetPayed(w) ==
    LET r == req[w].row
    IN  /\ At(w, "pay")
        /\ row' = [review |-> TRUE, plus |-> r.plus \/ req[w].type \in Plus,
                   picks |-> r.picks \/ (req[w].type = "expert_plus"
                                         /\ CommonStatus(r, batch) = "completed")]
        /\ req' = [req EXCEPT ![w].pc = "mark", ![w].rows = batch, ![w].todo = Bought(batch)]
        /\ UNCHANGED <<env, batch, review, candidates, order, paid, workers, mails, counts>>

MarkBatch(w) ==
    /\ At(w, "mark") /\ req[w].todo # {}
    /\ batch' = [batch EXCEPT ![This(w)] = [req[w].rows[This(w)] EXCEPT !.status = "required"]]
    /\ Goto(w, "review")
    /\ UNCHANGED <<env, row, review, candidates, order, paid, workers, mails, counts>>

\* An exception: a 500, and the event stays.
Raise(w) == Done(w) /\ UNCHANGED <<rows, mails>>

\* get_or_create saves a new review, which makes the batch pending; a separate payment for the
\* suggestions reopens the review, and there must be one.
FindReview(w) ==
    LET b == This(w)
        plus == req[w].type = "expert_plus"
    IN  /\ At(w, "review")
        /\ \/ /\ plus /\ HasReview(b) /\ Goto(w, "plus")
              /\ IF review[b].completed THEN SaveReview(b, [review[b] EXCEPT !.completed = FALSE],
                                                              batch[b].bought)
                                        ELSE UNCHANGED <<batch, review, mails>>
           \/ /\ ~plus /\ Goto(w, "fill")
              /\ IF HasReview(b) THEN UNCHANGED <<batch, review, mails>>
                                 ELSE SaveReview(b, Created, TRUE)
           \/ plus /\ ~HasReview(b) /\ Raise(w)
        /\ UNCHANGED <<env, row, candidates, order, paid, workers, counts>>

WithPlus(w) == req[w].type = "experts" \/ (req[w].type = "sale" /\ req[w].row.plus)
NextBatch(w) == [req[w] EXCEPT !.pc = "mark", !.todo = @ \ {This(w)}]

\* bulk_create of a ResultReview for each result; nothing is filled in yet.
FillReview(w) ==
    /\ At(w, "fill")
    /\ IF HasReview(This(w)) /\ ~Held(This(w))
       THEN /\ review' = [review EXCEPT ![This(w)].results = IF @ = "valid" THEN @ ELSE "empty",
                                        ![This(w)].of = @ \cup {This(w)}]
            /\ req' = [req EXCEPT ![w] = IF WithPlus(w) THEN [@ EXCEPT !.pc = "plus"] ELSE NextBatch(w)]
            /\ UNCHANGED <<row, batch, candidates, mails>>
       ELSE Raise(w)
    /\ UNCHANGED <<env, order, paid, workers, counts>>

\* create_three_empty_expert_plus_reviews_for_payed_batch; 2 stands for all that are too many.
AddPlus(w) ==
    /\ At(w, "plus")
    /\ IF HasReview(This(w))
       THEN /\ review' = [review EXCEPT ![This(w)].triples = Min({@ + 1, 2}), ![This(w)].filled = FALSE]
            /\ req' = [req EXCEPT ![w] = NextBatch(w)]
            /\ UNCHANGED <<row, batch, candidates, mails>>
       ELSE Raise(w)
    /\ UNCHANGED <<env, order, paid, workers, counts>>

Ordered_SeparatelyOnly(w) ==
    due' = [due EXCEPT !.generate = IF req[w].type = "expert_plus" THEN @ + 1 ELSE @]
\* For the suggestions the experts get candidates of their own.
Ordered(w) == due' = [due EXCEPT !.generate = IF req[w].type \in Plus THEN @ + 1 ELSE @]
\* All batches have their reviews: the experts get their mail now, or when there are candidates.
EndOrder(w) ==
    /\ At(w, "mark") /\ req[w].todo = {}
    /\ Ordered(w)
    /\ \/ order' = (IF req[w].type = "sale" THEN order ELSE "none") /\ UNCHANGED repeats
       \/ req[w].type # "sale" /\ repeats < env.repeats /\ repeats' = repeats + 1 /\ UNCHANGED order
    /\ Done(w)
    /\ UNCHANGED <<env, rows, paid, check, writer, unused, told, mails, kills, edits>>

-----------------------------------------------------------------------------
(* Sale of a further batch (get_new_batch; whether one is due is the subject of BatchDelivery) *)

PickBatch(w) ==
    /\ Started(w) /\ Rows \ Bought(batch) # {}
    /\ req' = [req EXCEPT ![w] = [pc |-> "sell", type |-> "sale", row |-> row, rows |-> batch,
                                  todo |-> {Min(Rows \ Bought(batch))}]]
    /\ UNCHANGED <<env, rows, order, paid, workers, mails, counts>>

SellBatch_Unreviewed(w) ==
    /\ At(w, "sell")
    /\ batch' = [batch EXCEPT ![This(w)] = [req[w].rows[This(w)] EXCEPT !.bought = TRUE]]
    /\ Done(w)
    /\ UNCHANGED <<env, row, review, candidates, order, paid, workers, mails, counts>>

SellBatch(w) ==
    LET b == This(w)
        reviewed == req[w].row.review
    IN  /\ At(w, "sell")
        /\ batch' = [batch EXCEPT ![b] = [bought |-> TRUE,
                        status |-> IF reviewed THEN "required" ELSE req[w].rows[b].status]]
        /\ IF reviewed THEN Goto(w, "review") ELSE Done(w)
        /\ UNCHANGED <<env, row, review, candidates, order, paid, workers, mails, counts>>

\* The process ends in the middle of a request.
Kill(w) ==
    /\ req[w] # Idle /\ kills < env.kills
    /\ kills' = kills + 1
    /\ Done(w)
    /\ UNCHANGED <<env, rows, order, paid, workers, mails, repeats, edits>>

-----------------------------------------------------------------------------
(* Worker tasks *)

\* create_batch, of which NameGeneration tells the rest.
MakeBatch(b) ==
    /\ b <= env.batches /\ batch[b] = NoBatch /\ \A c \in Batches : c < b => batch[c] # NoBatch
    /\ batch' = [batch EXCEPT ![b].status = "new"]
    /\ due' = [due EXCEPT !.check = @ + 1]
    /\ UNCHANGED <<env, row, review, candidates, order, paid, req, check, writer, unused, told, mails, counts>>

\* check_phrases_completion: the rows are read, and saved one by one; the first batch of which
\* all results have a rationale is given away on the way.
StartCheck ==
    /\ check = NoCheck /\ due.check > 0 /\ NoRequests
    /\ check' = [pc |-> "run", rows |-> batch, todo |-> Rows]
    /\ due' = [due EXCEPT !.check = @ - 1]
    /\ UNCHANGED <<env, rows, order, paid, req, writer, unused, told, mails, counts>>
SaveChecked ==
    LET b == Min(check.todo)
    IN  /\ check # NoCheck
        /\ \E explained \in BOOLEAN :
               batch' = [batch EXCEPT ![b] =
                            [check.rows[b] EXCEPT !.bought = @ \/ (explained /\ Bought(batch) = {})]]
        /\ IF check.todo = {b}
           THEN check' = NoCheck /\ due' = [due EXCEPT !.describe = @ + 1]
           ELSE check' = [check EXCEPT !.todo = @ \ {b}] /\ UNCHANGED due
        /\ UNCHANGED <<env, row, review, candidates, order, paid, req, writer, unused, told, mails, counts>>

\* generate_offering_description; the description itself is of no account here.
ReadRow ==
    /\ writer = NoWriter /\ due.describe > 0 /\ NoRequests
    /\ due' = [due EXCEPT !.describe = @ - 1]
    /\ writer' = [pc |-> "read", row |-> row]
    /\ UNCHANGED <<env, rows, order, paid, req, check, unused, told, mails, counts>>
SaveRow ==
    /\ writer # NoWriter
    /\ row' = writer.row
    /\ writer' = NoWriter
    /\ UNCHANGED <<env, batch, review, candidates, order, paid, req, check, due, unused, told, mails, counts>>

\* generate_name_candidates for the experts, until check_generation_completion has seen the end
\* of all its pathways: the candidates get rationales.  With no pathway left to run there is
\* nothing to do, and if too many fail, the journey fails; the experts are told nothing then.
DelegateRationales ==
    /\ due.generate > 0
    /\ \/ unused /\ due' = [due EXCEPT !.generate = @ - 1, !.rationales = @ + 1]
       \/ (~unused \/ env.dry) /\ due' = [due EXCEPT !.generate = @ - 1]
    /\ unused' = FALSE
    /\ UNCHANGED <<env, rows, order, paid, req, check, writer, told, mails, counts>>
\* When the task that makes the rationales has ended, well or not, the experts get their mail.
CheckRationales ==
    /\ due.rationales > 0
    /\ due' = [due EXCEPT !.rationales = @ - 1] /\ told' = TRUE
    /\ UNCHANGED <<env, rows, order, paid, req, check, writer, unused, mails, counts>>

-----------------------------------------------------------------------------
(* Administration pages (ExpertBatchReviewAdmin) *)

\* validate_reviews
Valid(r) == r.results = "valid" /\ r.filled

Validated_Never(r) == r
\* save_related: a review that does not pass is saved again as not completed.
Validated(r) == IF r.completed /\ ~Valid(r) THEN [r EXCEPT !.completed = FALSE] ELSE r

\* delete_name_candidates_selected_in_expert_plus: for the suggestions saved by this request.
TakeSuggestions(r, names) ==
    candidates' = IF r.completed THEN candidates \ names ELSE candidates

\* save_model has saved the review, for batch c, and sent the mail before the validation.  The
\* batch that had the review before keeps its status.
SaveForm(b, c, r) ==
    LET saved == Validated(r)
        first == [batch EXCEPT ![c].status = StatusFor(r)]
        again == [batch EXCEPT ![c].status = StatusFor(saved)]
    IN  /\ review' = [review EXCEPT ![b] = NoReview, ![c] = saved]
        /\ batch' = again
        /\ mails' = mails + MailsFor(first) + (IF saved = r THEN 0 ELSE MailsFor(again))

\* formfield_for_foreignkey: the form offers the review's own batch and those that require one.
Offers(b) == {b} \cup {c \in Batches : env.moves /\ batch[c].status = "required" /\ ~HasReview(c)}

\* What the inlines make of the reviews of results; they may also delete them.
Entries(b) ==
    IF review[b].results = "none" THEN {"none"}
    ELSE {"empty", "valid"} \cup (IF env.removes THEN {"none"} ELSE {})

EditReview(b) ==
    /\ HasReview(b)
    /\ \E c \in Offers(b), completed, filled \in BOOLEAN, results \in Entries(b),
          triples \in {review[b].triples} \cup (IF env.removes THEN {0} ELSE {}),
          names \in SUBSET (candidates \cup review[b].names) :
        LET r == [review[b] EXCEPT !.completed = completed, !.results = results,
                                   !.of = IF results = "none" THEN {} ELSE @,
                                   !.triples = triples, !.filled = filled, !.names = names]
        IN  /\ triples = 0 => filled /\ names = {}
            /\ filled => (triples = 0 \/ names # {})
            /\ completed => Valid(r) \/ env.careless
            /\ SaveForm(b, c, r)
            /\ \E saved \in SUBSET names :
                   names \ review[b].names \subseteq saved /\ TakeSuggestions(r, saved)

\* There is nothing to validate yet.  If the results have their reviews already, which are with
\* a review that was moved, the request fails after the mail.
AddReview(b) ==
    /\ batch[b].status = "required" /\ ~HasReview(b)
    /\ \E completed \in {FALSE, env.careless} :
        LET r == [Created EXCEPT !.completed = completed, !.results = "empty", !.of = {b}]
        IN  \/ ~Held(b) /\ SaveForm(b, b, r)
            \/ /\ Held(b) /\ mails' = mails + MailsFor([batch EXCEPT ![b].status = StatusFor(r)])
               /\ UNCHANGED <<batch, review>>
    /\ UNCHANGED candidates

ChangeReview(b) ==
    /\ edits < env.edits /\ edits' = edits + 1
    /\ Undisturbed /\ NoRequests
    /\ EditReview(b) \/ (env.removes /\ (AddReview(b) \/ (HasReview(b) /\ DeleteReview(b))))
    /\ UNCHANGED <<env, row, order, paid, req, workers, kills, repeats>>

-----------------------------------------------------------------------------
(* Pages (ResultsListView, PresentationListView) *)

\* The suggestions are shown once all reviews are done, the experts' picks also when picks_shown.
SuggestionsShown == CommonStatus(row, batch) = "completed"
PicksShown       == SuggestionsShown \/ row.picks
\* ResultSerializer takes the expert_review of every result, and raises without one.
PageRaises == PicksShown /\ \E b \in Bought(batch) : ~Held(b)

-----------------------------------------------------------------------------
WebStep(w) == SetPayed(w) \/ MarkBatch(w) \/ FindReview(w) \/ FillReview(w) \/ AddPlus(w)
              \/ EndOrder(w) \/ SellBatch(w)
WorkerStep == SaveChecked \/ SaveRow \/ DelegateRationales \/ CheckRationales

Next ==
    \/ \E type \in OrderTypes : Order(type)
    \/ \E w \in Web : TakeOrder(w) \/ PickBatch(w) \/ WebStep(w) \/ Kill(w)
    \/ \E b \in Batches : MakeBatch(b) \/ ChangeReview(b)
    \/ StartCheck \/ ReadRow \/ WorkerStep

Spec == Init /\ [][Next]_vars

\* A process goes on with its request, Stripe repeats an event until it gets a 200, and the
\* worker goes on with its tasks.
Fairness ==
    /\ \A w \in Web : WF_vars(WebStep(w)) /\ WF_vars(TakeOrder(w))
    /\ WF_vars(StartCheck) /\ WF_vars(ReadRow)
    /\ WF_vars(SaveChecked) /\ WF_vars(SaveRow)
    /\ WF_vars(DelegateRationales) /\ WF_vars(CheckRationales)
FairSpec == Spec /\ Fairness
=============================================================================
