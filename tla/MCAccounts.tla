------------------------------- MODULE MCAccounts -------------------------------
(* Small instances of Accounts for TLC. *)
EXTENDS AccountsProperties, TLC

CONSTANTS w1, w2

Retries == "contact" :> 1 @@ "deal" :> 2 @@ "opportunity" :> 1

Calm == [web |-> {w1}, workers |-> 1, overlap |-> FALSE, deletes |-> FALSE, gifts |-> FALSE,
         queue |-> 2, docs |-> 2, pays |-> 1, edits |-> 0, schedules |-> 0, errors |-> 0, crashes |-> 0]
\* One hazard at a time.
OneHazard == {
    [Calm EXCEPT !.docs = 4, !.pays = 0],
    [Calm EXCEPT !.edits = 1, !.schedules = 2],
    [Calm EXCEPT !.web = Web, !.queue = 1, !.docs = 3, !.pays = 0],
    [Calm EXCEPT !.web = Web, !.deletes = TRUE, !.queue = 1, !.docs = 2, !.pays = 0],
    [Calm EXCEPT !.web = Web, !.docs = 0, !.edits = 1],
    [Calm EXCEPT !.workers = 2, !.docs = 1, !.edits = 1, !.schedules = 2],
    [Calm EXCEPT !.workers = 2],
    [Calm EXCEPT !.overlap = TRUE, !.docs = 1, !.edits = 1, !.schedules = 2],
    [Calm EXCEPT !.deletes = TRUE],
    [Calm EXCEPT !.deletes = TRUE, !.queue = 1, !.docs = 4, !.pays = 0],
    [Calm EXCEPT !.gifts = TRUE, !.queue = 3, !.pays = 0],
    [Calm EXCEPT !.errors = 1],
    [Calm EXCEPT !.docs = 1, !.schedules = 2, !.errors = 1],
    [Calm EXCEPT !.docs = 1, !.schedules = 2, !.crashes = 1]}
=============================================================================
