---------------------- MODULE NameGenerationProperties ----------------------
(* What the name generation tasks guarantee, and under how much concurrency. *)
EXTENDS NameGeneration

Terminal == {"ended", "stalled", "failed"}

\* A name of the questionnaire is in one place: one result of one batch, or a candidate.
\* It is what validate_new_name_candidate checks before each INSERT; a single worker keeps it.
NamesOnce ==
    /\ \A b, c \in Batches : \A x \in results[b], y \in results[c] :
           x.name = y.name => b = c /\ x = y
    /\ \A b \in Batches : \A x \in results[b] : x.name \notin CandidateNames

\* As long as one request alone has been made, a name is in one place with any number of workers,
\* and whichever of them die: the pathways of a level ask for the results and for the candidates by
\* two queries, and no candidate becomes a result in between, because the chain of the request
\* does not go on to its next batch before all of them have ended.
Alone == \A q, r \in Requests : ~At(q, "idle") /\ ~At(r, "idle") => q = r
OneChainNamesOnce == Alone => NamesOnce

\* A batch sent to delegate_rationale_tasks has BatchSize names, no two of them related, and
\* no more of a capped pathway type than the pricing plan allows, whoever else was running.
BatchesWellFormed ==
    \A b \in delegated :
        /\ b \in rows
        /\ Cardinality(results[b]) = BatchSize
        /\ Unrelated(results[b]) /\ WithinCaps(results[b])

\* Unless a worker died, a batch row without results belongs to a task that is about to fill
\* or delete it, and to only one: no half-made batch is left for the customer to buy.
NoBatchLeftEmpty ==
    crashes = 0 =>
        \A b \in rows :
            LET makers == {r \in Requests : task[r].batch = b}
            IN  IF results[b] = {} THEN Cardinality(makers) = 1 ELSE makers = {}

Quiescent ==
    /\ \A r \in Requests : task[r].pc \in Terminal \cup {"idle"}
    /\ \A r \in Requests, p \in Pathways : run[r][p].pc = "none"

\* A first request that comes to rest without a batch has come to the end of the cascade: the
\* last level, or one at which no pathway is enabled.  Failed pathways do not stop it before.
\* With two workers a run for the experts may write an older level back.
StopsOnlyWhenExhausted ==
    Quiescent /\ delegated = {} /\ Started("first") # {}
              /\ (Concurrency = 1 \/ Started("experts") = {})
        => cascadeRun >= LastLevel \/ \A p \in Enabled : Level[p] # cascadeRun

\* Every request that ended has delivered what it was for: a first request two batches (the
\* second one is the additional batch), a bought batch its successor, and no batch twice.
BatchesDue(r) ==
    CASE Origin[r] = "first" /\ task[r].first     -> 0
      [] Origin[r] = "first" /\ ~task[r].first    -> IF task[r].pc = "ended" THEN 2 ELSE 1
      [] Origin[r] = "more"                       -> IF task[r].pc = "ended" THEN 1 ELSE 0
      [] Origin[r] = "experts"                    -> 0
Due == {rn \in Requests \X (1..2) : rn[2] <= BatchesDue(rn[1])}
RequestsServed == Cardinality(delegated) = Cardinality(Due)

\* With ALLOWED_FAILURE_THRESHOLD = 100 the journey is never marked failed, not even when
\* every pathway of a level fails: fail_journey cannot be reached.
NeverFailed == ~failed

\* No pathway is at work for two requests at once: the model calls are paid for once.  A single
\* worker keeps it, unless it dies between sending the pathways of a level and saving the level.
PathwayNotDoubled ==
    crashes = 0 =>
        \A q, r \in Requests, p \in Pathways :
            run[q][p].pc # "none" /\ run[r][p].pc # "none" => q = r

\* cascade_level_run never goes back, so that no level is run again.  A single worker keeps it;
\* with two, a save of a row read earlier undoes the other's.
CascadeAdvances == [][cascadeRun' >= cascadeRun]_cascadeRun

\* A name that has been delivered stays in the batch it was delivered in.
DeliveredStays == [][\A b \in Batches : results[b] # {} => results'[b] = results[b]]_results

\* Unless a worker dies, every request comes to an end: the check that polls stops polling, and
\* the chain from create_batch back to generate_name_candidates is not followed for ever.
Settles ==
    \A r \in Requests : (task[r].pc # "idle") ~> (task[r].pc \in Terminal \/ crashes > 0)

Ledger == INSTANCE NameLedger WITH
    pool  <- CandidateNames,
    batch <- [b \in Batches |-> {x.name : x \in results[b]}]

\* The tasks keep the ledger of names as NameLedger promises it, with one worker.
KeepsLedger == Ledger!Spec
=============================================================================
