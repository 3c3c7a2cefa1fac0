------------------------ MODULE ExpertReviewsProperties ------------------------
(* What experts' payments lead to, and when. *)
EXTENDS ExpertReviews

\* The batch has a review that is completed and passes the validation, of its own results.
Reviewed(b) == HasReview(b) /\ review[b].completed /\ Valid(review[b]) /\ review[b].of = {b}
\* The review that the batch had was attached to another one, or came to it from another one.
Displaced(b) == ~HasReview(b) \/ review[b].of # {b}
Attended(b) == Reviewed(b) \/ (env.moves /\ Displaced(b))
Sole    == Cardinality(env.web) <= 1
Regular == /\ Sole /\ ~env.early /\ ~env.overlap /\ ~env.careless
           /\ ~env.removes /\ ~env.moves /\ env.kills = 0 /\ env.repeats = 0

Granted(type) == IF type = "expert_in_the_loop" THEN {"review"} ELSE {"review", "plus"}
Flags == {f \in {"review", "plus"} : row[f]}

\* What has been paid is provided: the flags are set, and every bought batch, whether it was sold
\* before the payment or after it, has its review, with one triple of suggestions if they were paid.
OrderHonoured ==
    Regular /\ (\A w \in Web : req[w] = Idle) =>
        /\ UNION {Granted(type) : type \in paid \ {order}} = Flags
        /\ \A b \in Bought(batch) : Flags # {} =>
               /\ review[b].results \notin {"no review", "none"}
               /\ review[b].triples = IF "plus" \in Flags THEN 1 ELSE 0

\* Where the customer is told that all reviews are done, by the pages or by mail, every bought
\* batch has one that is, unless administrators moved reviews from batch to batch: a batch that
\* lost its review stays "done", and nothing else does.
CompletedMeansReviewed ==
    [][~env.overlap =>
        /\ CommonStatus(row, batch)' = "completed" => \A b \in Bought(batch)' : Attended(b)'
        /\ mails' # mails /\ ~env.careless => \A b \in Bought(batch)' : Attended(b)']_vars

\* A payment for experts is answered in the end, and the experts hear of the candidates for the
\* suggestions.  Only where their generation may end without candidates they may not, and then
\* nothing is left that could still tell them.
OrderServed ==
    \A type \in OrderTypes :
        (Regular /\ order = type) ~>
            /\ order = "none"
            /\ type \in Plus => told \/ (env.dry /\ due.generate + due.rationales = 0)

\* The results page shows the experts' picks, and does not raise.
PageNeverRaises == ~PageRaises
=============================================================================
