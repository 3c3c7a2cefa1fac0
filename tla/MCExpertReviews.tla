---------------------------- MODULE MCExpertReviews ----------------------------
(* Small instances of ExpertReviews for TLC. *)
EXTENDS ExpertReviewsProperties

CONSTANTS n1, w1, w2

Calm == [web |-> {w1}, early |-> FALSE, overlap |-> FALSE, careless |-> FALSE,
         removes |-> FALSE, moves |-> FALSE, dry |-> FALSE,
         batches |-> 2, kills |-> 0, repeats |-> 0, edits |-> 2, orders |-> 2]
\* One hazard at a time; and an administrator who deletes a review in the middle of a request.
OneHazard == {Calm,
    [Calm EXCEPT !.web = Web, !.edits = 0],
    [Calm EXCEPT !.early = TRUE, !.edits = 1],
    [Calm EXCEPT !.overlap = TRUE, !.edits = 0, !.orders = 1],
    [Calm EXCEPT !.careless = TRUE, !.removes = TRUE],
    [Calm EXCEPT !.removes = TRUE, !.moves = TRUE, !.edits = 3, !.orders = 1],
    [Calm EXCEPT !.overlap = TRUE, !.removes = TRUE, !.batches = 1, !.edits = 1, !.orders = 1],
    [Calm EXCEPT !.kills = 1, !.repeats = 1, !.edits = 1],
    [Calm EXCEPT !.dry = TRUE, !.edits = 0]}
OnlyEarly == {[Calm EXCEPT !.early = TRUE, !.edits = 0]}
=============================================================================
