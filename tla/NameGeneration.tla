--------------------------- MODULE NameGeneration ---------------------------
(***************************************************************************)
(* The Celery tasks that turn a questionnaire into batches of names        *)
(* (app/algorithm/tasks.py, app/algorithm/models.py): a request starts a   *)
(* chain generate_name_candidates -> run_pathway* ->                       *)
(* check_generation_completion -> create_batch, which goes back to         *)
(* generate_name_candidates, one cascade level further, until a batch is   *)
(* filled or no pathway is left.                                           *)
(*                                                                         *)
(* Every request has one task of its chain in the broker or in a worker at *)
(* any time, besides the pathway tasks that task waits for; so the queue   *)
(* is a record per request and a record per pathway task of a request.     *)
(* Tasks run concurrently on the worker processes, without row locks and   *)
(* with one transaction per statement: each action below is one database   *)
(* access of a task with the task messages sent right after it.            *)
(***************************************************************************)
EXTENDS Naturals, FiniteSets, FiniteSetsExt

CONSTANTS
    Names,          \* the names the language models can come up with
    Related,        \* the pairs {m, n} of names one of which has a word inside a word of the other
    Pathways,       \* the rows of Pathway
    Enabled,        \* those with active and candidates_per_batch > 0
    Level,          \* [Pathways -> their cascade_level]
    PerBatch,       \* [Pathways -> their candidates_per_batch]
    Yield,          \* [Pathways -> the names each may return]
    Capped,         \* groups of pathways with MaxPathwayTypeValidator(1): none unless plan B
    BatchSize,      \* FeatureConfig.batch_size
    AllowedFailureThreshold,
    Requests,       \* the external calls that start a chain
    Origin,         \* [Requests -> "first" (get_first_batch), "more" (get_new_batch), "experts"]
    Batches,        \* ids of ResultBatch rows (bound)
    NoName, NoBatch,
    Concurrency,    \* worker processes
    MaxCrashes      \* how many tasks a crashing worker may take with it (bound)

ASSUME FiniteAssumption ==
    /\ IsFiniteSet(Names) /\ IsFiniteSet(Pathways) /\ IsFiniteSet(Requests)
ASSUME PathwayAssumption ==
    /\ Enabled \subseteq Pathways
    /\ Level \in [Pathways -> Nat] /\ PerBatch \in [Pathways -> Nat]
    /\ Yield \in [Pathways -> SUBSET Names]
ASSUME SizeAssumption ==
    /\ BatchSize \in Nat \ {0} /\ Concurrency \in Nat /\ MaxCrashes \in Nat
ASSUME NoneAssumption == NoName \notin Names /\ NoBatch \notin Batches
ASSUME LevelAssumption == \E p \in Pathways : \A q \in Pathways : Level[q] <= Level[p]
ASSUME ThresholdAssumption == AllowedFailureThreshold = 100
ASSUME OriginAssumption == Origin \in [Requests -> {"first", "more", "experts"}]

VARIABLES
    cascadeRun,     \* Questionnaire.cascade_level_run
    failed,         \* Questionnaire.failed
    candidates,     \* the NameCandidate rows
    rows,           \* the ResultBatch rows
    results,        \* [Batches -> the Result rows of the batch]
    task,           \* [Requests -> the task the request's chain is at]
    run,            \* [Requests -> [Pathways -> the run_pathway task it awaits]]
    delegated,      \* batches delegate_rationale_tasks was sent for
    crashes

vars == <<cascadeRun, failed, candidates, rows, results, task, run, delegated, crashes>>

Candidate == [name : Names, pathway : Pathways]

Making  == {"construct", "fill", "undo"}    \* the points at which a task owns a batch row
ChainPc == Making \cup {"idle", "generate", "save", "check", "create", "make",
            "rationales", "fetch", "store", "ended", "stalled", "failed", "lost"}
RunPc == {"none", "queued", "names", "insert", "done", "failed", "lost"}

\* A chain's task: first is the argument first_run; the other fields are locals of the task.
Task == [pc : ChainPc, first : BOOLEAN, level : Nat, batch : Batches \cup {NoBatch},
         picked : SUBSET Candidate, fetched : SUBSET Candidate]
\* A run_pathway task: the names still to insert, and the one being inserted.
PathwayTask == [pc : RunPc, todo : SUBSET Names, name : Names \cup {NoName}]

NoRun == [pc |-> "none", todo |-> {}, name |-> NoName]

TablesOK ==
    /\ cascadeRun \in Nat /\ failed \in BOOLEAN /\ crashes \in Nat
    /\ candidates \subseteq Candidate
    /\ rows \subseteq Batches /\ delegated \subseteq Batches
    /\ results \in [Batches -> SUBSET Candidate]
\* A task has set the locals it needs at its point, and no others.
TasksOK ==
    /\ task \in [Requests -> Task]
    /\ \A r \in Requests : task[r].pc \in Making <=> task[r].batch \in Batches
RunsOK ==
    /\ run \in [Requests -> [Pathways -> PathwayTask]]
    /\ \A r \in Requests, p \in Pathways :
           run[r][p].pc = "insert" <=> run[r][p].name \in Names
TypeOK == TablesOK /\ TasksOK /\ RunsOK

-----------------------------------------------------------------------------
(* Worker processes *)

BusyChains == {r \in Requests :
                   task[r].pc \in Making \cup {"save", "make", "fetch", "store"}}
BusyRuns   == {rp \in Requests \X Pathways : run[rp[1]][rp[2]].pc \in {"names", "insert"}}

WorkerFree == Cardinality(BusyChains) + Cardinality(BusyRuns) < Concurrency

-----------------------------------------------------------------------------
(* Choosing the names of a batch *)

Unrelated(S) == \A x, y \in S : x # y => {x.name, y.name} \notin Related
OfGroup(S, G) == {x \in S : x.pathway \in G}
WithinCaps(S) == \A G \in Capped : Cardinality(OfGroup(S, G)) <= 1

\* candidates_from_pathway for every pathway: a random sample of candidates_per_batch each.
Samples ==
    {S \in SUBSET candidates :
        \A p \in Pathways :
            LET available == Cardinality(OfGroup(candidates, {p}))
            IN  Cardinality(OfGroup(S, {p})) =
                    IF PerBatch[p] > available THEN available ELSE PerBatch[p]}

GreedyPicks_RelatedToo(S) == {picked \in SUBSET S : Cardinality(picked) <= BatchSize}

\* What _construct_candidates_batch may return when it goes through S in a random order and
\* keeps what the validators accept, up to BatchSize.  UniqueNameValidator comes first, and it
\* remembers the words of a candidate that a MaxPathwayTypeValidator then rejects: seen is
\* what it accepted, picked what was kept of that.
GreedyPicks(S) ==
    {picked \in SUBSET S :
        /\ Cardinality(picked) <= BatchSize
        /\ WithinCaps(picked)
        /\ \E seen \in SUBSET S :
            /\ picked \subseteq seen /\ Unrelated(seen)
            /\ \A x \in seen \ picked :
                \E G \in Capped : x.pathway \in G /\ OfGroup(picked, G) # {}
            /\ Cardinality(picked) < BatchSize =>
                \A y \in S \ seen : \E x \in seen : {x.name, y.name} \in Related}

-----------------------------------------------------------------------------
Init ==
    /\ cascadeRun = 0
    /\ failed = FALSE
    /\ candidates = {}
    /\ rows = {}
    /\ results = [b \in Batches |-> {}]
    /\ task = [r \in Requests |-> [pc |-> "idle", first |-> Origin[r] = "first", level |-> 0,
                                   batch |-> NoBatch, picked |-> {}, fetched |-> {}]]
    /\ run = [r \in Requests |-> [p \in Pathways |-> NoRun]]
    /\ delegated = {}
    /\ crashes = 0

At(r, pc)  == task[r].pc = pc
Goto(r, pc) == task' = [task EXCEPT ![r].pc = pc]

Started(kind) == {r \in Requests : Origin[r] = kind /\ ~At(r, "idle")}

\* get_first_batch and an experts' payment send generate_name_candidates, the latter once the
\* first batch has been asked for; get_new_batch sends create_batch for each row it sells.
Request(r) ==
    /\ At(r, "idle")
    /\ Origin[r] = "more" => Cardinality(Started("more")) < Cardinality(rows)
    /\ Origin[r] = "experts" => Started("first") # {}
    /\ Goto(r, IF Origin[r] = "more" THEN "create" ELSE "generate")
    /\ UNCHANGED <<cascadeRun, failed, candidates, rows, results, run, delegated, crashes>>

-----------------------------------------------------------------------------
(* generate_name_candidates *)

PathwaysToRun(r) ==
    {p \in Enabled : IF Origin[r] = "experts" THEN Level[p] >= cascadeRun + 1
                                              ELSE Level[p] = cascadeRun + 1}

\* It reads the questionnaire and sends a run_pathway for each pathway of the level.
StartGeneration(r) ==
    /\ At(r, "generate")
    /\ WorkerFree
    /\ task' = [task EXCEPT ![r].pc = "save", ![r].level = cascadeRun]
    /\ run' = [run EXCEPT ![r] = [p \in Pathways |->
            IF p \in PathwaysToRun(r) THEN [NoRun EXCEPT !.pc = "queued"] ELSE NoRun]]
    /\ UNCHANGED <<cascadeRun, failed, candidates, rows, results, delegated, crashes>>

Awaited(r) == {p \in Pathways : run[r][p].pc # "none"}
LastLevel  == Max({Level[p] : p \in Pathways})

LevelToSave_OutsideLoop(r) == IF Origin[r] = "experts" THEN LastLevel ELSE task[r].level + 1
LevelToSave_Same(r) == task[r].level

\* The level it computed from what it read; run_all_cascades sets it inside the loop only.
LevelToSave(r) ==
    CASE Origin[r] # "experts"                     -> task[r].level + 1
      [] Origin[r] = "experts" /\ Awaited(r) # {}  -> LastLevel
      [] OTHER                                     -> task[r].level

\* questionnaire.save() writes the row it read back, and the completion check is sent.
SaveLevel(r) ==
    /\ At(r, "save")
    /\ cascadeRun' = LevelToSave(r)
    /\ task' = [task EXCEPT ![r].pc = "check", ![r].level = 0]
    /\ UNCHANGED <<failed, candidates, rows, results, run, delegated, crashes>>

-----------------------------------------------------------------------------
(* run_pathway *)

RunAt(r, p, pc) == run[r][p].pc = pc

StartPathway(r, p) ==
    /\ RunAt(r, p, "queued")
    /\ WorkerFree
    /\ \E names \in SUBSET Yield[p] :
        run' = [run EXCEPT ![r][p] = [pc |-> "names", todo |-> names, name |-> NoName]]
    /\ UNCHANGED <<cascadeRun, failed, candidates, rows, results, task, delegated, crashes>>

ResultNames    == {x.name : x \in UNION {results[b] : b \in Batches}}
CandidateNames == {x.name : x \in candidates}

CheckResults_Skipped(r, p) ==
    /\ RunAt(r, p, "names")
    /\ \E n \in run[r][p].todo :
        run' = [run EXCEPT ![r][p] = [pc |-> "insert", todo |-> @.todo \ {n}, name |-> n]]
    /\ UNCHANGED <<cascadeRun, failed, candidates, rows, results, task, delegated, crashes>>

\* validate_new_name_candidate, first query: a name among the results is dropped.
CheckResults(r, p) ==
    /\ RunAt(r, p, "names")
    /\ \E n \in run[r][p].todo :
        run' = [run EXCEPT ![r][p] =
            IF n \in ResultNames
            THEN [pc |-> "names", todo |-> @.todo \ {n}, name |-> NoName]
            ELSE [pc |-> "insert", todo |-> @.todo \ {n}, name |-> n]]
    /\ UNCHANGED <<cascadeRun, failed, candidates, rows, results, task, delegated, crashes>>

InsertCandidate_NameCleared(r, p) ==
    /\ RunAt(r, p, "insert")
    /\ run' = [run EXCEPT ![r][p].pc = "names", ![r][p].name = NoName]
    /\ candidates' = candidates \cup {[name |-> run'[r][p].name, pathway |-> p]}
    /\ UNCHANGED <<cascadeRun, failed, rows, results, task, delegated, crashes>>

\* Second query and INSERT, which unique_together guards: a name among the candidates is dropped.
InsertCandidate(r, p) ==
    /\ RunAt(r, p, "insert")
    /\ candidates' = IF run[r][p].name \in CandidateNames
                     THEN candidates
                     ELSE candidates \cup {[name |-> run[r][p].name, pathway |-> p]}
    /\ run' = [run EXCEPT ![r][p].pc = "names", ![r][p].name = NoName]
    /\ UNCHANGED <<cascadeRun, failed, rows, results, task, delegated, crashes>>

\* The task ends: all names done, or an exception (the model call, a name full_clean refuses).
FinishPathway(r, p) ==
    /\ run[r][p].pc \in {"names", "insert"}
    /\ \/ /\ RunAt(r, p, "names") /\ run[r][p].todo = {}
          /\ run' = [run EXCEPT ![r][p] = [NoRun EXCEPT !.pc = "done"]]
       \/ /\ run[r][p].todo # {} \/ RunAt(r, p, "insert")
          /\ run' = [run EXCEPT ![r][p] = [NoRun EXCEPT !.pc = "failed"]]
    /\ UNCHANGED <<cascadeRun, failed, candidates, rows, results, task, delegated, crashes>>

-----------------------------------------------------------------------------
(* check_generation_completion *)

FailedRuns(r) == {p \in Pathways : RunAt(r, p, "failed")}
Ready_Succeeded(r) == \A p \in Awaited(r) : RunAt(r, p, "done")
Ready(r) == \A p \in Awaited(r) : run[r][p].pc \in {"done", "failed"}
TooManyFailed_OrEqual(r) ==
    Cardinality(FailedRuns(r)) * 100 >= AllowedFailureThreshold * Cardinality(Awaited(r))
TooManyFailed(r) ==
    Cardinality(FailedRuns(r)) * 100 > AllowedFailureThreshold * Cardinality(Awaited(r))

CheckGeneration_StopsOnFailure(r) ==
    /\ At(r, "check")
    /\ WorkerFree
    /\ Ready(r)
    /\ Goto(r, IF Awaited(r) = {} \/ FailedRuns(r) # {} THEN "stalled" ELSE "create")
    /\ run' = [run EXCEPT ![r] = [p \in Pathways |-> NoRun]]
    /\ UNCHANGED <<cascadeRun, failed, candidates, rows, results, delegated, crashes>>

CheckGeneration_OneReady(r) ==
    /\ At(r, "check")
    /\ WorkerFree
    /\ \E p \in Awaited(r) : run[r][p].pc \in {"done", "failed"}
    /\ Goto(r, "create")
    /\ run' = [run EXCEPT ![r] = [p \in Pathways |->
            IF run[r][p].pc \in {"done", "failed"} THEN NoRun ELSE run[r][p]]]
    /\ UNCHANGED <<cascadeRun, failed, candidates, rows, results, delegated, crashes>>

\* While a task is not ready the check sends itself again, which changes nothing.  An experts'
\* run goes on to the rationales of the candidates (on_run_all_cascades), not to a batch.
CheckGeneration(r) ==
    /\ At(r, "check")
    /\ WorkerFree
    /\ Ready(r)
    /\ Goto(r, CASE Awaited(r) = {}                            -> "stalled"
                 [] Awaited(r) # {} /\ TooManyFailed(r)        -> "failed"
                 [] Awaited(r) # {} /\ ~TooManyFailed(r)
                      /\ Origin[r] = "experts"                 -> "rationales"
                 [] OTHER                                      -> "create")
    /\ failed' = (failed \/ (Awaited(r) # {} /\ TooManyFailed(r)))
    /\ run' = [run EXCEPT ![r] = [p \in Pathways |-> NoRun]]
    /\ UNCHANGED <<cascadeRun, candidates, rows, results, delegated, crashes>>

-----------------------------------------------------------------------------
(* create_batch *)

\* With BatchSize candidates or fewer the chain generates more of them.
CountCandidates(r) ==
    /\ At(r, "create")
    /\ WorkerFree
    /\ Goto(r, IF Cardinality(candidates) <= BatchSize THEN "generate" ELSE "make")
    /\ UNCHANGED <<cascadeRun, failed, candidates, rows, results, run, delegated, crashes>>

MakeBatch_LastRow(r) ==
    /\ At(r, "make")
    /\ \E b \in IF rows = {} THEN Batches ELSE rows, sample \in Samples :
        /\ rows' = rows \cup {b}
        /\ task' = [task EXCEPT ![r].pc = IF Cardinality(sample) < BatchSize
                                         THEN "undo" ELSE "construct",
                                ![r].batch = b, ![r].picked = sample]
    /\ UNCHANGED <<cascadeRun, failed, candidates, results, run, delegated, crashes>>

\* The row of the batch is committed, and then a sample of candidate ids is read: one that is
\* too small raises BatchingException.
MakeBatch(r) ==
    /\ At(r, "make")
    /\ \E b \in Batches \ rows, sample \in Samples :
        /\ rows' = rows \cup {b}
        /\ task' = [task EXCEPT ![r] =
            IF Cardinality(sample) < BatchSize
            THEN [@ EXCEPT !.pc = "undo", !.batch = b]
            ELSE [@ EXCEPT !.pc = "construct", !.batch = b, !.picked = sample]]
    /\ UNCHANGED <<cascadeRun, failed, candidates, results, run, delegated, crashes>>

\* The ids are read again, which leaves out those deleted since, and the names of the batch are
\* chosen among them: a choice that falls short raises BatchingException.
ConstructBatch(r) ==
    /\ At(r, "construct")
    /\ \E picked \in GreedyPicks(task[r].picked \cap candidates) :
        task' = [task EXCEPT ![r] =
            IF Cardinality(picked) < BatchSize
            THEN [@ EXCEPT !.pc = "undo", !.picked = {}]
            ELSE [@ EXCEPT !.pc = "fill", !.picked = picked]]
    /\ UNCHANGED <<cascadeRun, failed, candidates, rows, results, run, delegated, crashes>>

\* manage_batches: a first run goes on to the additional batch.
AfterBatch(r) == [pc |-> IF task[r].first THEN "create" ELSE "ended", first |-> FALSE,
                  level |-> 0, batch |-> NoBatch, picked |-> {}, fetched |-> {}]

FillBatch_CandidatesKept(r) ==
    /\ At(r, "fill")
    /\ results' = [results EXCEPT ![task[r].batch] = task[r].picked]
    /\ delegated' = delegated \cup {task[r].batch}
    /\ task' = [task EXCEPT ![r] = AfterBatch(r)]
    /\ UNCHANGED <<cascadeRun, failed, candidates, rows, run, crashes>>

FillBatch_StillFirst(r) ==
    /\ At(r, "fill")
    /\ results' = [results EXCEPT ![task[r].batch] = task[r].picked]
    /\ candidates' = candidates \ task[r].picked
    /\ delegated' = delegated \cup {task[r].batch}
    /\ task' = [task EXCEPT ![r].pc = IF task[r].first THEN "create" ELSE "ended",
                            ![r].batch = NoBatch, ![r].picked = {}]
    /\ UNCHANGED <<cascadeRun, failed, rows, run, crashes>>

\* The one transaction: the results are created and the candidates deleted.  Then the batch is
\* delegated.
FillBatch(r) ==
    /\ At(r, "fill")
    /\ results' = [results EXCEPT ![task[r].batch] = task[r].picked]
    /\ candidates' = candidates \ task[r].picked
    /\ delegated' = delegated \cup {task[r].batch}
    /\ task' = [task EXCEPT ![r] = AfterBatch(r)]
    /\ UNCHANGED <<cascadeRun, failed, rows, run, crashes>>

UndoBatch_RowKept(r) ==
    /\ At(r, "undo")
    /\ task' = [task EXCEPT ![r].pc = "generate", ![r].batch = NoBatch]
    /\ UNCHANGED <<cascadeRun, failed, candidates, rows, results, run, delegated, crashes>>

\* except BatchingException: the row is deleted and the chain generates more candidates.
UndoBatch(r) ==
    /\ At(r, "undo")
    /\ rows' = rows \ {task[r].batch}
    /\ task' = [task EXCEPT ![r].pc = "generate", ![r].batch = NoBatch]
    /\ UNCHANGED <<cascadeRun, failed, candidates, results, run, delegated, crashes>>

-----------------------------------------------------------------------------
(* generate_rationales_for_name_candidates, of an experts' run (app/expert/tasks.py) *)

StartRationales(r) ==
    /\ At(r, "rationales")
    /\ WorkerFree
    /\ task' = [task EXCEPT ![r].pc = "fetch", ![r].picked = candidates]
    /\ UNCHANGED <<cascadeRun, failed, candidates, rows, results, run, delegated, crashes>>

\* Each candidate it read is looked up again by name.  One the model gave no rationale for is
\* skipped; one that is gone ends the task: the row it creates instead has no pathway.
FetchCandidate(r) ==
    /\ At(r, "fetch")
    /\ \E x \in task[r].picked :
        \/ task' = [task EXCEPT ![r].picked = @ \ {x}]
        \/ \E y \in candidates :
            /\ y.name = x.name
            /\ task' = [task EXCEPT ![r].pc = "store", ![r].picked = @ \ {x}, ![r].fetched = {y}]
        \/ /\ x.name \notin CandidateNames
           /\ task' = [task EXCEPT ![r].pc = "ended", ![r].picked = {}]
    /\ UNCHANGED <<cascadeRun, failed, candidates, rows, results, run, delegated, crashes>>

\* save() updates the row, or inserts it again when it has been deleted in the meantime.
StoreRationale(r) ==
    /\ At(r, "store")
    /\ candidates' = candidates \cup {x \in task[r].fetched : x.name \notin CandidateNames}
    /\ task' = [task EXCEPT ![r].pc = "fetch", ![r].fetched = {}]
    /\ UNCHANGED <<cascadeRun, failed, rows, results, run, delegated, crashes>>

\* All candidates are done, or a call of the model raises.
EndRationales(r) ==
    /\ At(r, "fetch")
    /\ task' = [task EXCEPT ![r].pc = "ended", ![r].picked = {}]
    /\ UNCHANGED <<cascadeRun, failed, candidates, rows, results, run, delegated, crashes>>

-----------------------------------------------------------------------------
(* A worker that dies takes its task with it: tasks are acknowledged before they run. *)

LoseChain(r) ==
    /\ r \in BusyChains
    /\ crashes < MaxCrashes
    /\ crashes' = crashes + 1
    /\ task' = [task EXCEPT ![r].pc = "lost", ![r].batch = NoBatch,
                               ![r].picked = {}, ![r].fetched = {}]
    /\ UNCHANGED <<cascadeRun, failed, candidates, rows, results, run, delegated>>

LosePathway(r, p) ==
    /\ run[r][p].pc \in {"names", "insert"}
    /\ crashes < MaxCrashes
    /\ crashes' = crashes + 1
    /\ run' = [run EXCEPT ![r][p] = [NoRun EXCEPT !.pc = "lost"]]
    /\ UNCHANGED <<cascadeRun, failed, candidates, rows, results, task, delegated>>

-----------------------------------------------------------------------------
ChainStep(r) ==
    \/ StartGeneration(r) \/ SaveLevel(r) \/ CheckGeneration(r)
    \/ CountCandidates(r) \/ MakeBatch(r) \/ ConstructBatch(r) \/ FillBatch(r) \/ UndoBatch(r)
    \/ StartRationales(r) \/ FetchCandidate(r) \/ StoreRationale(r) \/ EndRationales(r)
PathwayStep(r, p) ==
    \/ StartPathway(r, p) \/ CheckResults(r, p) \/ InsertCandidate(r, p) \/ FinishPathway(r, p)

Next ==
    \/ \E r \in Requests : Request(r) \/ ChainStep(r) \/ LoseChain(r)
    \/ \E r \in Requests, p \in Pathways : PathwayStep(r, p) \/ LosePathway(r, p)

Spec == Init /\ [][Next]_vars

\* The broker hands every message to a worker, and a worker goes on with its task.
Fairness ==
    /\ \A r \in Requests : WF_vars(ChainStep(r))
    /\ \A r \in Requests, p \in Pathways : WF_vars(PathwayStep(r, p))
FairSpec == Spec /\ Fairness
=============================================================================
