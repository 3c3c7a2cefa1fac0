---------------------- MODULE NameGenerationSole_proofs ----------------------
(* Names in one place, and levels run once: what one worker process guarantees. *)
EXTENDS NameGenerationSafety_proofs

(***************************************************************************)
(* The pathways that a request awaits.                                     *)
(***************************************************************************)
Asked(r, level) ==
    {p \in Enabled : IF Origin[r] = "experts" THEN Level[p] >= level + 1
                                              ELSE Level[p] = level + 1}

\* The pathways that a request awaits are those it has sent, until it has seen them all end.
LEMMA AwaitedStep ==
  ASSUME TypeOK, NEW r \in Requests, Request(r) \/ ChainStep(r) \/ LoseChain(r)
  PROVE  /\ \A q \in Requests \ {r} : Awaited(q)' = Awaited(q)
         /\ task[r].pc \notin {"generate", "check"} => Awaited(r)' = Awaited(r)
         /\ StartGeneration(r) => Awaited(r)' = Asked(r, cascadeRun)
<1>0. run \in [Requests -> [Pathways -> PathwayTask]]
  BY DEF TypeOK, RunsOK
<1>1. CASE StartGeneration(r)
  <2>1. /\ task[r].pc = "generate"
        /\ run' = [run EXCEPT ![r] = [p \in Pathways |->
              IF p \in PathwaysToRun(r) THEN [NoRun EXCEPT !.pc = "queued"] ELSE NoRun]]
    BY <1>1 DEF StartGeneration, At
  <2>2. PathwaysToRun(r) = Asked(r, cascadeRun) /\ Asked(r, cascadeRun) \subseteq Pathways
    BY PathwayAssumption DEF PathwaysToRun, Asked
  <2>3. /\ \A q \in Requests \ {r} : run'[q] = run[q]
        /\ \A p \in Pathways : run'[r][p].pc # "none" <=> p \in PathwaysToRun(r)
    BY <1>0, <2>1 DEF NoRun
  <2> QED BY <2>1, <2>2, <2>3 DEF Awaited
<1>2. CASE CheckGeneration(r)
  <2>1. task[r].pc = "check" /\ \A q \in Requests \ {r} : run'[q] = run[q]
    BY <1>0, <1>2 DEF CheckGeneration, At
  <2>2. ~StartGeneration(r)
    BY <2>1 DEF StartGeneration, At
  <2> QED BY <2>1, <2>2 DEF Awaited
<1>3. CASE run' = run /\ ~StartGeneration(r)
  BY <1>3 DEF Awaited
<1>4. CASE ~(StartGeneration(r) \/ CheckGeneration(r))
  <2>1. run' = run
    BY <1>4
    DEF Request, ChainStep, LoseChain, SaveLevel, CountCandidates, MakeBatch, ConstructBatch,
        FillBatch, UndoBatch, StartRationales, FetchCandidate, StoreRationale, EndRationales
  <2> QED BY <1>3, <1>4, <2>1
<1> QED BY <1>1, <1>2, <1>4

LEMMA AwaitedKept ==
  ASSUME TypeOK, NEW r \in Requests, NEW p \in Pathways, PathwayStep(r, p) \/ LosePathway(r, p)
  PROVE  \A q \in Requests : Awaited(q)' = Awaited(q)
<1>0. run \in [Requests -> [Pathways -> PathwayTask]]
  BY DEF TypeOK, RunsOK
<1>1. ASSUME NEW u, u.pc # "none", run[r][p].pc # "none", run' = [run EXCEPT ![r][p] = u]
      PROVE  \A q \in Requests, o \in Pathways : run'[q][o].pc # "none" <=> run[q][o].pc # "none"
  <2>1. run'[r] = [run[r] EXCEPT ![p] = u] /\ \A q \in Requests \ {r} : run'[q] = run[q]
    BY <1>0, <1>1
  <2> QED BY <1>0, <1>1, <2>1
<1>2. \A q \in Requests, o \in Pathways : run'[q][o].pc # "none" <=> run[q][o].pc # "none"
  <2>1. CASE StartPathway(r, p)
    BY <1>0, <1>1, <2>1 DEF StartPathway, RunAt
  <2>2. CASE CheckResults(r, p)
    <3>1. PICK n \in run[r][p].todo :
            run' = [run EXCEPT ![r][p] =
                IF n \in ResultNames
                THEN [pc |-> "names", todo |-> run[r][p].todo \ {n}, name |-> NoName]
                ELSE [pc |-> "insert", todo |-> run[r][p].todo \ {n}, name |-> n]]
      BY <1>0, <2>2 DEF CheckResults
    <3> DEFINE u == IF n \in ResultNames
                    THEN [pc |-> "names", todo |-> run[r][p].todo \ {n}, name |-> NoName]
                    ELSE [pc |-> "insert", todo |-> run[r][p].todo \ {n}, name |-> n]
    <3>2. u.pc # "none" /\ run' = [run EXCEPT ![r][p] = u]
      BY <3>1
    <3>3. run[r][p].pc # "none"
      BY <2>2 DEF CheckResults, RunAt
    <3> HIDE DEF u
    <3> QED BY <1>1, <3>2, <3>3
  <2>3. CASE InsertCandidate(r, p)
    <3>1. /\ run[r][p].pc = "insert" /\ run'[r][p].pc = "names"
          /\ \A q \in Requests, o \in Pathways : <<q, o>> # <<r, p>> => run'[q][o] = run[q][o]
      BY <1>0, <2>3 DEF InsertCandidate, RunAt, PathwayTask
    <3> QED BY <3>1
  <2>4. CASE FinishPathway(r, p) \/ LosePathway(r, p)
    <3>1. PICK pc \in {"done", "failed", "lost"} :
              run' = [run EXCEPT ![r][p] = [NoRun EXCEPT !.pc = pc]]
      BY <2>4 DEF FinishPathway, LosePathway
    <3> DEFINE u == [NoRun EXCEPT !.pc = pc]
    <3>2. u.pc # "none" /\ run' = [run EXCEPT ![r][p] = u] /\ run[r][p].pc # "none"
      BY <2>4, <3>1 DEF NoRun, FinishPathway, LosePathway
    <3> HIDE DEF u
    <3> QED BY <1>1, <3>2
  <2> QED BY <2>1, <2>2, <2>3, <2>4 DEF PathwayStep
<1> QED BY <1>2 DEF Awaited

\* A chain awaits pathways until it has seen them all end, or for ever once it is lost.
RunsAwaited == \A r \in Requests : Awaited(r) # {} => task[r].pc \in {"save", "check", "lost"}

LEMMA RunsAwaitedInvariant == Spec => []RunsAwaited
<1>1. Init => RunsAwaited
  BY DEF Init, RunsAwaited, Awaited, NoRun
<1>2. TypeOK /\ RunsAwaited /\ [Next]_vars => RunsAwaited'
  <2> SUFFICES ASSUME TypeOK, RunsAwaited, [Next]_vars PROVE RunsAwaited'
    OBVIOUS
  <2>1. CASE UNCHANGED vars
    BY <2>1 DEF vars, RunsAwaited, Awaited
  <2>2. ASSUME NEW r \in Requests, NEW p \in Pathways, PathwayStep(r, p) \/ LosePathway(r, p)
        PROVE  RunsAwaited'
    BY <2>2, AwaitedKept, PathwayLeavesTasks DEF RunsAwaited
  <2>3. ASSUME NEW r \in Requests, Request(r) \/ ChainStep(r) \/ LoseChain(r)
        PROVE  RunsAwaited'
    <3>1. PICK from \in DOMAIN NextPoints, to \in ChainPc : Moves(r, from, to)
      BY <2>3, ChainRecord
    <3>2. \A q \in Requests \ {r} : task'[q] = task[q] /\ Awaited(q)' = Awaited(q)
      BY <2>3, <3>1, AwaitedStep DEF Moves
    <3>3. ASSUME Awaited(r)' # {} PROVE task'[r].pc \in {"save", "check", "lost"}
      <4>1. CASE from \in {"generate", "save"}
        BY <3>1, <4>1 DEF Moves, NextPoints
      <4>2. CASE from = "check"
        <5>1. CheckGeneration(r)
          BY <2>3, <3>1, <4>2
          DEF Moves, Request, ChainStep, LoseChain, BusyChains, Making, StartGeneration, SaveLevel,
              CountCandidates, MakeBatch, ConstructBatch, FillBatch, UndoBatch, StartRationales,
              FetchCandidate, StoreRationale, EndRationales, At
        <5>2. run'[r] = [p \in Pathways |-> NoRun]
          BY <5>1 DEF CheckGeneration, TypeOK, RunsOK
        <5> QED BY <3>3, <5>2 DEF Awaited, NoRun
      <4>3. CASE from \notin {"generate", "save", "check"}
        BY <2>3, <3>1, <3>3, <4>3, AwaitedStep DEF RunsAwaited, Moves, NextPoints
      <4> QED BY <4>1, <4>2, <4>3
    <3> QED BY <3>2, <3>3 DEF RunsAwaited
  <2> QED BY <2>1, <2>2, <2>3 DEF Next
<1> QED BY <1>1, <1>2, TypeCorrect, PTL DEF Spec

(***************************************************************************)
(* Names in one place, with one worker or with one request.  What a task   *)
(* has read still holds when it writes: the check of a name and its        *)
(* INSERT, the choice of candidates and their move to a batch.  With one   *)
(* worker a task that is running is alone; with one request its pathways   *)
(* run together, but none of them with its create_batch.                   *)
(***************************************************************************)

Exclusive ==
    /\ \A q, r \in BusyChains : q = r
    /\ \A x, y \in BusyRuns : x = y
    /\ BusyChains = {} \/ BusyRuns = {}

CandidatesUnique == \A x, y \in candidates : x.name = y.name => x = y

\* What a task remembers of the tables until its next write.
PickedThere == \A r \in Requests : task[r].pc = "fill" => task[r].picked \subseteq candidates
FetchedThere == \A r \in Requests : task[r].pc = "store" => task[r].fetched \subseteq candidates
NamesFresh ==
    \A r \in Requests, p \in Pathways :
        run[r][p].pc = "insert" => run[r][p].name \notin ResultNames

SoleInv ==
    /\ Concurrency = 1 => Exclusive
    /\ CandidatesUnique /\ NamesOnce /\ PickedThere /\ FetchedThere /\ NamesFresh

\* What a batch of this request is filled beside.
Undisturbed(r) ==
    /\ \A q \in Requests \ {r} : task[q].pc \notin {"fill", "store"}
    /\ \A q \in Requests, p \in Pathways : run[q][p].pc # "insert"

LEMMA FreeIdle ==
  ASSUME WorkerFree, Concurrency = 1
  PROVE  BusyChains = {} /\ BusyRuns = {}
<1>1. IsFiniteSet(BusyChains)
  BY FiniteAssumption, FS_Subset DEF BusyChains
<1>2. IsFiniteSet(Requests \X Pathways) /\ BusyRuns \subseteq Requests \X Pathways
  BY FiniteAssumption, FS_Product DEF BusyRuns
<1>3. IsFiniteSet(BusyRuns)
  BY <1>2, FS_Subset
<1>4. Cardinality(BusyChains) \in Nat /\ Cardinality(BusyRuns) \in Nat
  BY <1>1, <1>3, FS_CardinalityType
<1>5. Cardinality(BusyChains) = 0 /\ Cardinality(BusyRuns) = 0
  BY <1>4 DEF WorkerFree
<1> QED BY <1>1, <1>3, <1>5, FS_EmptySet

\* A step that leaves the candidates and the results alone preserves the invariant when what
\* the tasks remember at their next points is true, and no second task is running.
LEMMA SoleFrame ==
  ASSUME SoleInv, Concurrency = 1 => Exclusive', UNCHANGED <<candidates, results>>,
         PickedThere', FetchedThere', NamesFresh'
  PROVE  SoleInv'
  BY DEF SoleInv, CandidatesUnique, NamesOnce, CandidateNames

\* A step of a chain that starts a task when none is running, or goes on with one.
LEMMA ChainMoves ==
  ASSUME TypeOK, SoleInv, NEW r \in Requests, UNCHANGED <<candidates, results>>,
         \A q \in Requests \ {r} : task'[q] = task[q],
         Concurrency = 1 => \/ BusyChains = {} /\ BusyRuns = {}
                            \/ r \in BusyChains
                            \/ r \notin BusyChains',
         \A q \in Requests, p \in Pathways :
             run'[q][p].pc \in {"names", "insert"} => run'[q][p] = run[q][p],
         task'[r].pc = "fill" => task'[r].picked \subseteq candidates,
         task'[r].pc = "store" => task'[r].fetched \subseteq candidates
  PROVE  SoleInv'
<1>1. BusyRuns' \subseteq BusyRuns
  BY DEF BusyRuns
<1>2. BusyChains' \subseteq BusyChains \cup {r} /\ (r \notin BusyChains' => BusyChains' \subseteq BusyChains)
  BY DEF BusyChains
<1>3. Concurrency = 1 => Exclusive'
  BY <1>1, <1>2 DEF SoleInv, Exclusive
<1>4. PickedThere' /\ FetchedThere'
  BY DEF SoleInv, PickedThere, FetchedThere
<1>5. NamesFresh'
  BY DEF SoleInv, NamesFresh, ResultNames
<1> QED BY <1>3, <1>4, <1>5, SoleFrame

\* The same for a step of a run_pathway task.
LEMMA PathwayMoves ==
  ASSUME TypeOK, SoleInv, NEW r \in Requests, NEW p \in Pathways,
         UNCHANGED <<candidates, results, task>>,
         \A q \in Requests, o \in Pathways : <<q, o>> # <<r, p>> => run'[q][o] = run[q][o],
         Concurrency = 1 => \/ BusyChains = {} /\ BusyRuns = {}
                            \/ <<r, p>> \in BusyRuns
                            \/ <<r, p>> \notin BusyRuns',
         run'[r][p].pc = "insert" => run'[r][p].name \notin ResultNames
  PROVE  SoleInv'
<1>1. BusyChains' = BusyChains
  BY DEF BusyChains
<1>2. BusyRuns' \subseteq BusyRuns \cup {<<r, p>>}
  BY DEF BusyRuns
<1>3. Concurrency = 1 => Exclusive'
  BY <1>1, <1>2 DEF SoleInv, Exclusive
<1>4. PickedThere' /\ FetchedThere'
  BY DEF SoleInv, PickedThere, FetchedThere
<1>5. NamesFresh'
  BY DEF SoleInv, NamesFresh, ResultNames
<1> QED BY <1>3, <1>4, <1>5, SoleFrame

\* The results and the deletion of the candidates they were made from.
LEMMA FillSole ==
  ASSUME TypeOK, SoleInv, NEW r \in Requests, FillBatch(r), Undisturbed(r)
  PROVE  SoleInv'
<1> DEFINE b == task[r].batch
           picked == task[r].picked
<1>1. /\ task \in [Requests -> Task] /\ run' = run
      /\ results' = [results EXCEPT ![b] = picked] /\ candidates' = candidates \ picked
      /\ results \in [Batches -> SUBSET Candidate] /\ picked \subseteq candidates
      /\ task[r].pc = "fill"
  BY DEF FillBatch, At, TypeOK, TablesOK, TasksOK, SoleInv, PickedThere
<1>2. task'[r].pc \in {"create", "ended"} /\ \A q \in Requests \ {r} : task'[q] = task[q]
  BY <1>1 DEF FillBatch, AfterBatch
<1>3. BusyChains' \subseteq BusyChains /\ BusyRuns' = BusyRuns
  BY <1>1, <1>2 DEF BusyChains, BusyRuns, Making
<1>4. Concurrency = 1 => Exclusive'
  BY <1>3 DEF SoleInv, Exclusive
<1>5. PickedThere' /\ FetchedThere' /\ NamesFresh'
  <2>1. \A q \in Requests : task'[q].pc \notin {"fill", "store"}
    BY <1>2 DEF Undisturbed
  <2>2. \A q \in Requests, p \in Pathways : run'[q][p].pc # "insert"
    BY <1>1 DEF Undisturbed
  <2> QED BY <2>1, <2>2 DEF PickedThere, FetchedThere, NamesFresh
<1>7. CandidatesUnique'
  BY <1>1 DEF SoleInv, CandidatesUnique
<1>8. \A c \in Batches : results'[c] = IF c = b THEN picked ELSE results[c]
  BY <1>1
<1>9. NamesOnce'
  <2>1. ASSUME NEW c \in Batches, NEW d \in Batches, NEW x \in results'[c], NEW y \in results'[d],
               x.name = y.name
        PROVE  c = d /\ x = y
    <3>1. ASSUME NEW e \in Batches, NEW z \in results[e], NEW w \in picked PROVE z.name # w.name
      BY <1>1, <3>1 DEF SoleInv, NamesOnce, CandidateNames
    <3>2. ASSUME NEW z \in picked, NEW w \in picked, z.name = w.name PROVE z = w
      BY <1>1, <3>2 DEF SoleInv, CandidatesUnique
    <3> QED BY <1>8, <2>1, <3>1, <3>2 DEF SoleInv, NamesOnce
  <2>2. ASSUME NEW c \in Batches, NEW x \in results'[c], NEW y \in candidates' PROVE x.name # y.name
    <3>1. CASE c = b
      BY <1>1, <1>8, <2>2, <3>1 DEF SoleInv, CandidatesUnique
    <3>2. CASE c # b
      BY <1>1, <1>8, <2>2, <3>2 DEF SoleInv, NamesOnce, CandidateNames
    <3> QED BY <3>1, <3>2
  <2> QED BY <2>1, <2>2 DEF NamesOnce, CandidateNames
<1> QED BY <1>4, <1>5, <1>7, <1>9 DEF SoleInv

\* The INSERT of a name that the two checks let through.
LEMMA InsertSole ==
  ASSUME TypeOK, SoleInv, NEW r \in Requests, NEW p \in Pathways, InsertCandidate(r, p)
  PROVE  SoleInv'
<1> DEFINE n == run[r][p].name
           c == [name |-> n, pathway |-> p]
<1>1. /\ run \in [Requests -> [Pathways -> PathwayTask]] /\ run[r][p].pc = "insert"
      /\ task' = task /\ results' = results
      /\ n \notin ResultNames
  BY DEF InsertCandidate, RunAt, TypeOK, RunsOK, SoleInv, NamesFresh
<1>3. /\ run'[r][p].pc = "names"
      /\ \A q \in Requests, o \in Pathways : <<q, o>> # <<r, p>> => run'[q][o] = run[q][o]
  BY <1>1 DEF InsertCandidate, PathwayTask
<1>4. BusyRuns' = BusyRuns /\ BusyChains' = BusyChains
  BY <1>1, <1>3 DEF BusyRuns, BusyChains
<1>5. Concurrency = 1 => Exclusive'
  BY <1>4 DEF SoleInv, Exclusive
<1>6. PickedThere' /\ FetchedThere'
  <2>1. candidates \subseteq candidates'
    BY DEF InsertCandidate
  <2> QED BY <1>1, <2>1 DEF SoleInv, PickedThere, FetchedThere
<1>7. NamesFresh'
  BY <1>1, <1>3 DEF SoleInv, NamesFresh, ResultNames
<1>8. candidates' = candidates \/ (candidates' = candidates \cup {c} /\ n \notin CandidateNames)
  BY DEF InsertCandidate
<1>9. CandidatesUnique' /\ NamesOnce'
  <2>1. CASE candidates' = candidates
    BY <1>1, <2>1 DEF SoleInv, CandidatesUnique, NamesOnce, CandidateNames
  <2>2. CASE candidates' = candidates \cup {c} /\ n \notin CandidateNames
    <3>1. \A x \in candidates : x.name # c.name
      BY <2>2 DEF CandidateNames
    <3>2. \A d \in Batches : \A x \in results[d] : x.name # c.name
      BY <1>1 DEF ResultNames
    <3> QED BY <1>1, <2>2, <3>1, <3>2 DEF SoleInv, CandidatesUnique, NamesOnce, CandidateNames
  <2> QED BY <1>8, <2>1, <2>2
<1> QED BY <1>5, <1>6, <1>7, <1>9 DEF SoleInv

LEMMA SoleChainStep ==
  ASSUME TypeOK, SoleInv, NEW r \in Requests, Request(r) \/ ChainStep(r) \/ LoseChain(r),
         FillBatch(r) => Undisturbed(r)
  PROVE  SoleInv'
<1>0. /\ task \in [Requests -> Task] /\ task[r] \in Task
      /\ run \in [Requests -> [Pathways -> PathwayTask]]
  BY DEF TypeOK, TasksOK, RunsOK
<1>1. CASE Request(r)
  <2>1. task'[r].pc \in {"create", "generate"} /\ \A q \in Requests \ {r} : task'[q] = task[q]
    BY <1>0, <1>1 DEF Request, Goto, Task
  <2>2. r \notin BusyChains'
    BY <2>1 DEF BusyChains, Making
  <2> QED BY <1>1, <2>1, <2>2, ChainMoves DEF Request
<1>2. CASE StartGeneration(r)
  <2>1. task'[r].pc = "save" /\ \A q \in Requests \ {r} : task'[q] = task[q]
    BY <1>0, <1>2 DEF StartGeneration, Task
  <2>2. \A q \in Requests, p \in Pathways :
            run'[q][p].pc \in {"names", "insert"} => run'[q][p] = run[q][p]
    BY <1>0, <1>2 DEF StartGeneration, NoRun
  <2> QED BY <1>2, <2>1, <2>2, FreeIdle, ChainMoves DEF StartGeneration
<1>3. CASE CheckGeneration(r)
  <2>1. /\ task'[r].pc \in {"stalled", "failed", "rationales", "create"}
        /\ \A q \in Requests \ {r} : task'[q] = task[q]
    <3>1. \E pc \in {"stalled", "failed", "rationales", "create"} : Goto(r, pc)
      BY <1>3, Zenon DEF CheckGeneration
    <3> QED BY <1>0, <3>1 DEF Goto, Task
  <2>2. \A q \in Requests, p \in Pathways :
            run'[q][p].pc \in {"names", "insert"} => run'[q][p] = run[q][p]
    BY <1>0, <1>3 DEF CheckGeneration, NoRun
  <2> QED BY <1>3, <2>1, <2>2, FreeIdle, ChainMoves DEF CheckGeneration
<1>4. CASE CountCandidates(r)
  <2>1. task'[r].pc \in {"generate", "make"} /\ \A q \in Requests \ {r} : task'[q] = task[q]
    BY <1>0, <1>4 DEF CountCandidates, Goto, Task
  <2> QED BY <1>4, <2>1, FreeIdle, ChainMoves DEF CountCandidates
<1>5. CASE StartRationales(r)
  <2>1. task'[r].pc = "fetch" /\ \A q \in Requests \ {r} : task'[q] = task[q]
    BY <1>0, <1>5 DEF StartRationales, Task
  <2> QED BY <1>5, <2>1, FreeIdle, ChainMoves DEF StartRationales
<1>6. CASE SaveLevel(r) \/ UndoBatch(r) \/ EndRationales(r) \/ LoseChain(r)
  <2>1. r \in BusyChains /\ UNCHANGED <<candidates, results, run>>
    BY <1>6 DEF SaveLevel, UndoBatch, EndRationales, LoseChain, At, BusyChains, Making
  <2>2. /\ task'[r].pc \notin {"fill", "store"}
        /\ \A q \in Requests \ {r} : task'[q] = task[q]
    BY <1>0, <1>6 DEF SaveLevel, UndoBatch, EndRationales, LoseChain, Goto, Task
  <2> QED BY <2>1, <2>2, ChainMoves
<1>7. CASE MakeBatch(r)
  <2>1. r \in BusyChains /\ UNCHANGED <<candidates, results, run>>
    BY <1>7 DEF MakeBatch, At, BusyChains
  <2>2. task'[r].pc \in {"undo", "construct"} /\ \A q \in Requests \ {r} : task'[q] = task[q]
    BY <1>0, <1>7 DEF MakeBatch, Task
  <2> QED BY <2>1, <2>2, ChainMoves
<1>8. CASE ConstructBatch(r)
  <2>1. r \in BusyChains /\ UNCHANGED <<candidates, results, run>>
    BY <1>8 DEF ConstructBatch, At, BusyChains, Making
  <2>2. PICK picked \in GreedyPicks(task[r].picked \cap candidates) :
            task' = [task EXCEPT ![r] =
                 IF Cardinality(picked) < BatchSize
                 THEN [task[r] EXCEPT !.pc = "undo", !.picked = {}]
                 ELSE [task[r] EXCEPT !.pc = "fill", !.picked = picked]]
    BY <1>0, <1>8 DEF ConstructBatch
  <2>3. picked \subseteq candidates
    BY DEF GreedyPicks
  <2>4. /\ task'[r].pc \in {"undo", "fill"} /\ task'[r].picked \subseteq candidates
        /\ \A q \in Requests \ {r} : task'[q] = task[q]
    BY <1>0, <2>2, <2>3 DEF Task
  <2> QED BY <2>1, <2>4, ChainMoves
<1>9. CASE FetchCandidate(r)
  <2>1. r \in BusyChains /\ UNCHANGED <<candidates, results, run>>
    BY <1>9 DEF FetchCandidate, At, BusyChains
  <2>2. /\ task'[r].pc \in {"fetch", "store", "ended"}
        /\ task'[r].pc = "store" => task'[r].fetched \subseteq candidates
        /\ \A q \in Requests \ {r} : task'[q] = task[q]
    BY <1>0, <1>9 DEF FetchCandidate, At, Task
  <2> QED BY <2>1, <2>2, ChainMoves
<1>10. CASE StoreRationale(r)
  <2>1. r \in BusyChains /\ UNCHANGED <<results, run>> /\ task[r].pc = "store"
    BY <1>10 DEF StoreRationale, At, BusyChains
  <2>2. candidates' = candidates
    BY <1>10, <2>1 DEF StoreRationale, CandidateNames, SoleInv, FetchedThere
  <2>3. task'[r].pc = "fetch" /\ \A q \in Requests \ {r} : task'[q] = task[q]
    BY <1>0, <1>10 DEF StoreRationale, Task
  <2> QED BY <2>1, <2>2, <2>3, ChainMoves
<1> QED
  BY <1>1, <1>2, <1>3, <1>4, <1>5, <1>6, <1>7, <1>8, <1>9, <1>10, FillSole DEF ChainStep

LEMMA SolePathwayStep ==
  ASSUME TypeOK, SoleInv, NEW r \in Requests, NEW p \in Pathways,
         PathwayStep(r, p) \/ LosePathway(r, p)
  PROVE  SoleInv'
<1>0. run \in [Requests -> [Pathways -> PathwayTask]]
  BY DEF TypeOK, RunsOK
<1>1. ASSUME NEW u, run' = [run EXCEPT ![r][p] = u]
      PROVE  /\ run'[r][p] = u
             /\ \A q \in Requests, o \in Pathways :
                    <<q, o>> # <<r, p>> => run'[q][o] = run[q][o]
  <2>1. run'[r] = [run[r] EXCEPT ![p] = u] /\ \A q \in Requests \ {r} : run'[q] = run[q]
    BY <1>0, <1>1
  <2> QED BY <1>0, <2>1
<1>2. CASE StartPathway(r, p)
  <2>1. PICK names \in SUBSET Yield[p] :
            run' = [run EXCEPT ![r][p] = [pc |-> "names", todo |-> names, name |-> NoName]]
    BY <1>2 DEF StartPathway
  <2> DEFINE u == [pc |-> "names", todo |-> names, name |-> NoName]
  <2>2. u.pc = "names" /\ run' = [run EXCEPT ![r][p] = u]
    BY <2>1
  <2> HIDE DEF u
  <2>3. run'[r][p] = u /\ \A q \in Requests, o \in Pathways :
                              <<q, o>> # <<r, p>> => run'[q][o] = run[q][o]
    BY <1>1, <2>2
  <2> QED BY <1>2, <2>2, <2>3, FreeIdle, PathwayMoves DEF StartPathway
<1>3. CASE CheckResults(r, p)
  <2>1. PICK n \in run[r][p].todo :
            run' = [run EXCEPT ![r][p] =
                IF n \in ResultNames
                THEN [pc |-> "names", todo |-> run[r][p].todo \ {n}, name |-> NoName]
                ELSE [pc |-> "insert", todo |-> run[r][p].todo \ {n}, name |-> n]]
    BY <1>0, <1>3 DEF CheckResults
  <2> DEFINE u == IF n \in ResultNames
                  THEN [pc |-> "names", todo |-> run[r][p].todo \ {n}, name |-> NoName]
                  ELSE [pc |-> "insert", todo |-> run[r][p].todo \ {n}, name |-> n]
  <2>2. (u.pc = "insert" => u.name \notin ResultNames) /\ run' = [run EXCEPT ![r][p] = u]
    BY <2>1
  <2> HIDE DEF u
  <2>3. run'[r][p] = u /\ \A q \in Requests, o \in Pathways :
                              <<q, o>> # <<r, p>> => run'[q][o] = run[q][o]
    BY <1>1, <2>2
  <2>4. <<r, p>> \in BusyRuns
    BY <1>3 DEF CheckResults, RunAt, BusyRuns
  <2> QED BY <1>3, <2>2, <2>3, <2>4, PathwayMoves DEF CheckResults
<1>4. CASE FinishPathway(r, p) \/ LosePathway(r, p)
  <2>1. PICK pc \in {"done", "failed", "lost"} :
            run' = [run EXCEPT ![r][p] = [NoRun EXCEPT !.pc = pc]]
    BY <1>4 DEF FinishPathway, LosePathway
  <2> DEFINE u == [NoRun EXCEPT !.pc = pc]
  <2>2. u.pc = pc /\ run' = [run EXCEPT ![r][p] = u]
    BY <2>1 DEF NoRun
  <2> HIDE DEF u
  <2>3. run'[r][p] = u /\ \A q \in Requests, o \in Pathways :
                              <<q, o>> # <<r, p>> => run'[q][o] = run[q][o]
    BY <1>1, <2>2
  <2>4. <<r, p>> \in BusyRuns
    BY <1>4 DEF FinishPathway, LosePathway, BusyRuns
  <2> QED BY <1>4, <2>2, <2>3, <2>4, PathwayMoves DEF FinishPathway, LosePathway
<1> QED BY <1>2, <1>3, <1>4, InsertSole DEF PathwayStep

LEMMA FillsUndisturbed ==
  ASSUME TypeOK, SoleInv, RunsAwaited, Concurrency = 1 \/ Alone, NEW r \in Requests, FillBatch(r)
  PROVE  Undisturbed(r)
<1>1. task[r].pc = "fill" /\ r \in BusyChains
  BY DEF FillBatch, At, BusyChains, Making
<1>2. CASE Concurrency = 1
  <2>1. BusyChains = {r} /\ BusyRuns = {}
    BY <1>1, <1>2 DEF SoleInv, Exclusive
  <2>2. \A q \in Requests \ {r} : task[q].pc \notin {"fill", "store"}
    BY <2>1 DEF BusyChains, Making
  <2>3. \A q \in Requests, p \in Pathways : run[q][p].pc # "insert"
    <3> SUFFICES ASSUME NEW q \in Requests, NEW p \in Pathways, run[q][p].pc = "insert" PROVE FALSE
      OBVIOUS
    <3>1. <<q, p>> \in BusyRuns
      BY DEF BusyRuns
    <3> QED BY <2>1, <3>1
  <2> QED BY <2>2, <2>3 DEF Undisturbed
<1>3. CASE Alone
  <2>1. \A q \in Requests \ {r} : task[q].pc = "idle"
    BY <1>1, <1>3 DEF Alone, At
  <2>2. \A q \in Requests : Awaited(q) = {}
    BY <1>1, <2>1 DEF RunsAwaited
  <2>3. \A q \in Requests, p \in Pathways : run[q][p].pc # "insert"
    BY <2>2 DEF Awaited
  <2> QED BY <2>1, <2>3 DEF Undisturbed
<1> QED BY <1>2, <1>3

\* A request that has been made stays made.
LEMMA AloneBefore == ASSUME TypeOK, [Next]_vars, Alone' PROVE Alone
<1>1. ASSUME NEW q \in Requests, At(q, "idle")' PROVE At(q, "idle")
  <2>1. ASSUME NEW r \in Requests, Request(r) \/ ChainStep(r) \/ LoseChain(r) PROVE At(q, "idle")
    <3>1. PICK from \in DOMAIN NextPoints, to \in ChainPc : Moves(r, from, to)
      BY <2>1, ChainRecord
    <3>2. to # "idle"
      BY <3>1 DEF Moves, NextPoints
    <3> QED BY <1>1, <3>1, <3>2 DEF Moves, At
  <2>2. CASE task' = task
    BY <1>1, <2>2 DEF At
  <2> QED BY <2>1, <2>2, PathwayLeavesTasks DEF Next, vars
<1> QED BY <1>1 DEF Alone

LEMMA NamesInvariant == Spec => []((Concurrency = 1 \/ Alone) => SoleInv)
<1>1. Init => SoleInv
  BY DEF Init, SoleInv, Exclusive, CandidatesUnique, NamesOnce, PickedThere, FetchedThere,
         NamesFresh, NoRun, BusyChains, BusyRuns, Making
<1>2. TypeOK /\ RunsAwaited /\ ((Concurrency = 1 \/ Alone) => SoleInv) /\ [Next]_vars
          => ((Concurrency = 1 \/ Alone) => SoleInv)'
  <2> SUFFICES ASSUME TypeOK, RunsAwaited, (Concurrency = 1 \/ Alone) => SoleInv, [Next]_vars,
                      Concurrency = 1 \/ Alone'
               PROVE  SoleInv'
    OBVIOUS
  <2>1. SoleInv /\ (Concurrency = 1 \/ Alone)
    BY AloneBefore
  <2>2. CASE UNCHANGED vars
    BY <2>1, <2>2 DEF vars, SoleInv, Exclusive, CandidatesUnique, NamesOnce, CandidateNames,
                ResultNames, PickedThere, FetchedThere, NamesFresh, BusyChains, BusyRuns
  <2>3. \A r \in Requests : FillBatch(r) => Undisturbed(r)
    BY <2>1, FillsUndisturbed
  <2> QED BY <2>1, <2>2, <2>3, SoleChainStep, SolePathwayStep DEF Next
<1> QED BY <1>1, <1>2, TypeCorrect, RunsAwaitedInvariant, PTL DEF Spec

LEMMA SoleInvariant == ASSUME Concurrency = 1 PROVE Spec => []SoleInv
<1>1. ((Concurrency = 1 \/ Alone) => SoleInv) => SoleInv
  OBVIOUS
<1> QED BY <1>1, NamesInvariant, PTL

\* With one worker process a name the questionnaire knows is in one place: it is a candidate,
\* or a result of one batch.
THEOREM NamesOnceWithOneWorker ==
  ASSUME Concurrency = 1
  PROVE  Spec => []NamesOnce
<1>1. SoleInv => NamesOnce
  BY DEF SoleInv
<1> QED BY <1>1, SoleInvariant, PTL

\* With any number of workers, and whichever of them die, a name is in one place as long as one
\* request alone has been made: its pathways check and insert names side by side, its batches are
\* filled when all of them have ended.
THEOREM NamesOnceWithOneRequest == Spec => []OneChainNamesOnce
<1>1. ((Concurrency = 1 \/ Alone) => SoleInv) => OneChainNamesOnce
  BY DEF SoleInv, OneChainNamesOnce
<1> QED BY <1>1, NamesInvariant, PTL

(***************************************************************************)
(* The refinement: inserting a candidate proposes its name, filling a      *)
(* batch delivers the names of the candidates it takes.  Every other step  *)
(* leaves the ledger alone.                                                *)
(***************************************************************************)
NamesOf(S) == {x.name : x \in S}

\* Candidates with different names are as many as their names.
LEMMA NamesOfSize ==
  ASSUME NEW S, IsFiniteSet(S), \A x, y \in S : x.name = y.name => x = y
  PROVE  Cardinality(NamesOf(S)) = Cardinality(S)
<1> DEFINE f == [x \in S |-> x.name]
<1>1. f \in Surjection(S, NamesOf(S)) /\ f \in Injection(S, NamesOf(S))
  BY DEF Surjection, Injection, IsInjective, NamesOf
<1> QED BY <1>1, FS_Surjection

LEMMA LedgerInsert ==
  ASSUME TypeOK, SoleInv, NEW r \in Requests, NEW p \in Pathways, InsertCandidate(r, p)
  PROVE  [Ledger!Next]_(Ledger!ledger)
<1> DEFINE n == run[r][p].name
<1>1. n \in Names /\ n \notin ResultNames /\ results' = results
  BY DEF InsertCandidate, RunAt, TypeOK, RunsOK, SoleInv, NamesFresh
<1>2. CASE n \in CandidateNames
  BY <1>1, <1>2 DEF InsertCandidate, Ledger!ledger, CandidateNames
<1>3. CASE n \notin CandidateNames
  <2>1. n \notin CandidateNames \cup Ledger!Delivered
    BY <1>1, <1>3 DEF Ledger!Delivered, ResultNames
  <2>2. candidates' = candidates \cup {[name |-> n, pathway |-> p]}
    BY <1>3 DEF InsertCandidate
  <2>3. CandidateNames' = CandidateNames \cup {n}
    <3> DEFINE c == [name |-> n, pathway |-> p]
    <3>1. c.name = n /\ candidates' = candidates \cup {c}
      BY <2>2
    <3> HIDE DEF c
    <3> QED BY <3>1 DEF CandidateNames
  <2>4. Ledger!Propose(n)
    BY <1>1, <2>1, <2>3 DEF Ledger!Propose
  <2> QED BY <1>1, <2>4 DEF Ledger!Next
<1> QED BY <1>2, <1>3

LEMMA LedgerFill ==
  ASSUME TypeOK, BatchInv, SoleInv, NEW r \in Requests, FillBatch(r)
  PROVE  Ledger!Next
<1> DEFINE b == task[r].batch
           picked == task[r].picked
<1>1. /\ results' = [results EXCEPT ![b] = picked] /\ candidates' = candidates \ picked
      /\ results \in [Batches -> SUBSET Candidate] /\ candidates \subseteq Candidate
      /\ picked \subseteq candidates /\ b \in Batches
  BY DEF FillBatch, At, TypeOK, TablesOK, TasksOK, SoleInv, PickedThere, Making
<1>2. results[b] = {} /\ Cardinality(picked) = BatchSize
  BY DEF FillBatch, At, Makers, Making, BatchInv, MakersOwn, PickedGood, GoodBatch
<1>3. \A x, y \in candidates : x.name = y.name => x = y
  BY DEF SoleInv, CandidatesUnique
<1>4. Cardinality(NamesOf(picked)) = BatchSize
  BY <1>1, <1>2, <1>3, CandidatesFinite, FS_Subset, NamesOfSize
<1>5. NamesOf(picked) \subseteq CandidateNames /\ NamesOf(picked) \in SUBSET Names
  BY <1>1 DEF NamesOf, CandidateNames, Candidate
<1>6. CandidateNames' = CandidateNames \ NamesOf(picked)
  BY <1>1, <1>3 DEF NamesOf, CandidateNames
<1> DEFINE B == [c \in Batches |-> {x.name : x \in results[c]}]
<1>7. B[b] = {} /\ B' = [B EXCEPT ![b] = NamesOf(picked)]
  BY <1>1, <1>2 DEF NamesOf
<1>8. \E d \in Batches, S \in SUBSET Names : Ledger!Deliver(d, S)
  <2>1. PICK d \in Batches, S \in SUBSET Names : d = b /\ S = NamesOf(picked)
    BY <1>1, <1>5
  <2>2. /\ B[d] = {} /\ B' = [B EXCEPT ![d] = S]
        /\ Cardinality(S) = BatchSize /\ S \subseteq CandidateNames
        /\ CandidateNames' = CandidateNames \ S
    BY <1>4, <1>5, <1>6, <1>7, <2>1
  <2>3. Ledger!Deliver(d, S)
    BY <2>2 DEF Ledger!Deliver, Cardinality, Ledger!Cardinality
  <2> QED BY <2>3
<1> QED BY <1>8 DEF Ledger!Next

\* With one worker the tasks implement the ledger: a name nobody has seen becomes a candidate,
\* and leaves the candidates with the one batch that delivers it.
THEOREM LedgerKeptByOneWorker ==
  ASSUME Concurrency = 1
  PROVE  Spec => KeepsLedger
<1>1. Init => Ledger!Init
  BY DEF Init, Ledger!Init, CandidateNames
<1>2. TypeOK /\ BatchInv /\ SoleInv /\ [Next]_vars => [Ledger!Next]_(Ledger!ledger)
  <2> SUFFICES ASSUME TypeOK, BatchInv, SoleInv, [Next]_vars
               PROVE  [Ledger!Next]_(Ledger!ledger)
    OBVIOUS
  <2>1. CASE UNCHANGED <<candidates, results>>
    BY <2>1 DEF Ledger!ledger, CandidateNames
  <2>2. CASE ~UNCHANGED <<candidates, results>>
    <3>1. \/ \E r \in Requests : FillBatch(r) \/ StoreRationale(r)
          \/ \E r \in Requests, p \in Pathways : InsertCandidate(r, p)
      BY <2>2
      DEF vars, Next, Request, ChainStep, LoseChain, PathwayStep, LosePathway, StartGeneration,
          SaveLevel, CheckGeneration, CountCandidates, MakeBatch, ConstructBatch, UndoBatch,
          StartRationales, FetchCandidate, EndRationales, StartPathway, CheckResults,
          FinishPathway
    <3>2. ASSUME NEW r \in Requests, StoreRationale(r) PROVE FALSE
      BY <2>2, <3>2 DEF StoreRationale, At, CandidateNames, SoleInv, FetchedThere
    <3> QED BY <3>1, <3>2, LedgerFill, LedgerInsert
  <2> QED BY <2>1, <2>2
<1> QED BY <1>1, <1>2, TypeCorrect, BatchInvariant, SoleInvariant, PTL
        DEF Spec, KeepsLedger, Ledger!Spec

(***************************************************************************)
(* The cascade.  A chain that is about to save its level awaits the        *)
(* pathways that the level it has read asks for.                           *)
(***************************************************************************)
SavesTried == \A r \in Requests : task[r].pc = "save" => Awaited(r) = Asked(r, task[r].level)
\* With one worker the level is still the one it has read.
SavesFresh == \A r \in Requests : task[r].pc = "save" => task[r].level = cascadeRun

LEMMA TriedInvariant == Spec => []SavesTried
<1>1. Init => SavesTried
  BY DEF Init, SavesTried
<1>2. TypeOK /\ SavesTried /\ [Next]_vars => SavesTried'
  <2> SUFFICES ASSUME TypeOK, SavesTried, [Next]_vars PROVE SavesTried'
    OBVIOUS
  <2>0. task \in [Requests -> Task]
    BY DEF TypeOK, TasksOK
  <2>1. CASE UNCHANGED <<task, run>>
    BY <2>1 DEF SavesTried, Awaited, Asked
  <2>2. ASSUME NEW r \in Requests, NEW p \in Pathways, PathwayStep(r, p) \/ LosePathway(r, p)
        PROVE  SavesTried'
    BY <2>2, AwaitedKept, PathwayLeavesTasks DEF SavesTried, Asked
  <2>3. ASSUME NEW r \in Requests, Request(r) \/ ChainStep(r) \/ LoseChain(r)
        PROVE  SavesTried'
    <3>1. PICK from \in DOMAIN NextPoints, to \in ChainPc : Moves(r, from, to)
      BY <2>3, ChainRecord
    <3>2. ASSUME task'[r].pc = "save" PROVE Awaited(r)' = Asked(r, task'[r].level)
      <4>1. StartGeneration(r)
        <5>1. from = "generate"
          BY <3>1, <3>2 DEF Moves, NextPoints
        <5> QED
          BY <2>3, <3>1, <5>1
          DEF Moves, Request, ChainStep, LoseChain, BusyChains, Making, SaveLevel, CheckGeneration,
              CountCandidates, MakeBatch, ConstructBatch, FillBatch, UndoBatch, StartRationales,
              FetchCandidate, StoreRationale, EndRationales, At
      <4>2. task'[r].level = cascadeRun
        BY <2>0, <4>1 DEF StartGeneration, Task
      <4> QED BY <2>3, <4>1, <4>2, AwaitedStep
    <3>3. \A q \in Requests \ {r} : task'[q] = task[q] /\ Awaited(q)' = Awaited(q)
      BY <2>3, <3>1, AwaitedStep DEF Moves
    <3> QED BY <3>2, <3>3 DEF SavesTried, Asked
  <2> QED BY <2>1, <2>2, <2>3 DEF Next, vars
<1> QED BY <1>1, <1>2, TypeCorrect, PTL DEF Spec

LEMMA FreshInvariant == ASSUME Concurrency = 1 PROVE Spec => []SavesFresh
<1>1. Init => SavesFresh
  BY DEF Init, SavesFresh
<1>2. TypeOK /\ SoleInv /\ SavesFresh /\ [Next]_vars => SavesFresh'
  <2> SUFFICES ASSUME TypeOK, SoleInv, SavesFresh, [Next]_vars PROVE SavesFresh'
    OBVIOUS
  <2>0. task \in [Requests -> Task]
    BY DEF TypeOK, TasksOK
  <2>1. CASE UNCHANGED <<task, cascadeRun>>
    BY <2>1 DEF SavesFresh
  <2>2. ASSUME NEW r \in Requests, Request(r) \/ ChainStep(r) \/ LoseChain(r)
        PROVE  SavesFresh'
    <3>1. PICK from \in DOMAIN NextPoints, to \in ChainPc : Moves(r, from, to)
      BY <2>2, ChainRecord
    <3>2. CASE SaveLevel(r)
      <4>1. task[r].pc = "save" /\ task'[r].pc = "check"
        BY <2>0, <3>2 DEF SaveLevel, At, Task
      <4>2. \A q \in Requests \ {r} : task'[q].pc # "save"
        BY <3>1, <4>1 DEF Moves, SoleInv, Exclusive, BusyChains
      <4> QED BY <4>1, <4>2 DEF SavesFresh
    <3>3. CASE StartGeneration(r)
      <4>1. task'[r].level = cascadeRun /\ cascadeRun' = cascadeRun
        BY <2>0, <3>3 DEF StartGeneration, Task
      <4> QED BY <3>1, <4>1 DEF Moves, SavesFresh
    <3>4. CASE ~SaveLevel(r) /\ ~StartGeneration(r)
      <4>1. cascadeRun' = cascadeRun /\ task[r].pc # "generate"
        BY <2>2, <3>4
        DEF Request, ChainStep, LoseChain, BusyChains, Making, CheckGeneration, CountCandidates,
            MakeBatch, ConstructBatch, FillBatch, UndoBatch, StartRationales, FetchCandidate,
            StoreRationale, EndRationales, At
      <4>2. task'[r].pc # "save"
        BY <3>1, <4>1 DEF Moves, NextPoints
      <4> QED BY <3>1, <4>1, <4>2 DEF Moves, SavesFresh
    <3> QED BY <3>2, <3>3, <3>4
  <2> QED BY <2>1, <2>2, PathwayLeavesTasks DEF Next, vars
<1> QED BY <1>1, <1>2, TypeCorrect, SoleInvariant, PTL DEF Spec

\* What the save of a level does that has been read a moment ago.
LEMMA LevelSaved ==
  ASSUME TypeOK, SavesTried, NEW r \in Requests, SaveLevel(r), task[r].level = cascadeRun
  PROVE  /\ cascadeRun' >= cascadeRun
         /\ \A p \in Awaited(r) : Level[p] > cascadeRun /\ Level[p] <= cascadeRun'
         /\ Origin[r] = "experts" => IF Awaited(r) = {} THEN cascadeRun' = cascadeRun
                                                        ELSE cascadeRun' = LastLevel
<1>1. /\ cascadeRun' = LevelToSave(r) /\ cascadeRun \in Nat
      /\ Awaited(r) = Asked(r, cascadeRun) /\ Awaited(r) \subseteq Pathways
  BY DEF SaveLevel, At, SavesTried, TypeOK, TablesOK, Awaited
<1>2. \A p \in Awaited(r) : Level[p] \in Nat /\ Level[p] <= LastLevel /\ LastLevel \in Nat
  BY <1>1, PathwayAssumption, LastLevelLast, LastLevelType
<1>3. CASE Origin[r] # "experts"
  <2>1. cascadeRun' = cascadeRun + 1
    BY <1>1, <1>3 DEF LevelToSave
  <2>2. \A p \in Awaited(r) : Level[p] = cascadeRun + 1
    BY <1>1, <1>3 DEF Asked
  <2> QED BY <1>1, <1>3, <2>1, <2>2
<1>4. CASE Origin[r] = "experts" /\ Awaited(r) # {}
  <2>1. cascadeRun' = LastLevel
    BY <1>1, <1>4 DEF LevelToSave
  <2>2. \A p \in Awaited(r) : Level[p] >= cascadeRun + 1
    BY <1>1, <1>4 DEF Asked
  <2> QED BY <1>1, <1>2, <1>4, <2>1, <2>2
<1>5. CASE Origin[r] = "experts" /\ Awaited(r) = {}
  BY <1>1, <1>5 DEF LevelToSave
<1> QED BY <1>3, <1>4, <1>5

LEMMA LevelLeft ==
  ASSUME [Next]_vars, \A r \in Requests : ~SaveLevel(r)
  PROVE  cascadeRun' = cascadeRun
<1>1. ASSUME NEW r \in Requests, Request(r) \/ ChainStep(r) \/ LoseChain(r)
      PROVE  cascadeRun' = cascadeRun
  BY <1>1
  DEF Request, ChainStep, LoseChain, StartGeneration, CheckGeneration, CountCandidates,
      MakeBatch, ConstructBatch, FillBatch, UndoBatch, StartRationales, FetchCandidate,
      StoreRationale, EndRationales
<1> QED BY <1>1, PathwayLeavesTasks DEF Next, vars

\* With one worker no save of the questionnaire takes cascade_level_run back.
THEOREM CascadeOnlyAdvances ==
  ASSUME Concurrency = 1
  PROVE  Spec => CascadeAdvances
<1>1. TypeOK /\ SavesTried /\ SavesFresh /\ [Next]_vars => [cascadeRun' >= cascadeRun]_cascadeRun
  BY LevelSaved, LevelLeft DEF SavesFresh, SaveLevel, At
<1> QED BY <1>1, TypeCorrect, TriedInvariant, FreshInvariant, PTL DEF Spec, CascadeAdvances

\* The pathways that were sent are of levels behind the questionnaire's, but for those of a
\* chain that has not saved its level yet.
RunBelow ==
    crashes = 0 =>
        \A r \in Requests : task[r].pc # "save" => \A p \in Awaited(r) : Level[p] <= cascadeRun
DoubledInv == SavesTried /\ SavesFresh /\ RunBelow /\ PathwayNotDoubled

LEMMA DoubledStep ==
  ASSUME Concurrency = 1, TypeOK, SoleInv, DoubledInv, NEW r \in Requests,
         Request(r) \/ ChainStep(r) \/ LoseChain(r)
  PROVE  RunBelow' /\ PathwayNotDoubled'
<1>0. /\ task \in [Requests -> Task] /\ run \in [Requests -> [Pathways -> PathwayTask]]
      /\ cascadeRun \in Nat
  BY DEF TypeOK, TasksOK, RunsOK, TablesOK
<1>1. PICK from \in DOMAIN NextPoints, to \in ChainPc : Moves(r, from, to)
  BY ChainRecord
<1>2. \A q \in Requests, p \in Pathways : run[q][p].pc # "none" <=> p \in Awaited(q)
  BY DEF Awaited
<1>3. PathwayNotDoubled = (crashes = 0 => \A q, s \in Requests : Awaited(q) \cap Awaited(s) # {} => q = s)
  BY DEF PathwayNotDoubled, Awaited
<1>4. PathwayNotDoubled' = (crashes' = 0 => \A q, s \in Requests : Awaited(q)' \cap Awaited(s)' # {} => q = s)
  BY DEF PathwayNotDoubled, Awaited
<1>5. \A q \in Requests : \A p \in Awaited(q) : Level[p] \in Nat
  BY PathwayAssumption DEF Awaited
<1>6. CASE StartGeneration(r)
  <2>1. /\ Awaited(r)' = Asked(r, cascadeRun) /\ task'[r].pc = "save"
        /\ \A q \in Requests \ {r} : Awaited(q)' = Awaited(q) /\ task'[q] = task[q]
        /\ UNCHANGED <<crashes, cascadeRun>>
    <3>1. task'[r].pc = "save" /\ UNCHANGED <<crashes, cascadeRun>>
      BY <1>0, <1>6 DEF StartGeneration, Task
    <3> QED BY <1>1, <1>6, <3>1, AwaitedStep DEF Moves
  <2>2. \A q \in Requests : task[q].pc # "save"
    BY <1>6, FreeIdle DEF StartGeneration, BusyChains
  <2>3. RunBelow'
    BY <2>1 DEF DoubledInv, RunBelow
  <2>4. \A p \in Asked(r, cascadeRun) : Level[p] \in Nat /\ Level[p] >= cascadeRun + 1
    BY <1>0, PathwayAssumption DEF Asked
  <2>5. ASSUME crashes = 0, NEW q \in Requests \ {r} PROVE Awaited(q) \cap Asked(r, cascadeRun) = {}
    <3>1. \A p \in Awaited(q) : Level[p] <= cascadeRun
      BY <2>2, <2>5 DEF DoubledInv, RunBelow
    <3> QED BY <1>0, <2>4, <3>1
  <2>6. ASSUME crashes = 0, NEW q \in Requests, NEW s \in Requests,
               Awaited(q)' \cap Awaited(s)' # {}
        PROVE  q = s
    <3>1. CASE q # r /\ s # r
      BY <1>3, <2>1, <2>6, <3>1 DEF DoubledInv
    <3>2. CASE q = r \/ s = r
      BY <2>1, <2>5, <2>6, <3>2
    <3> QED BY <3>1, <3>2
  <2> QED BY <1>4, <2>1, <2>3, <2>6
<1>7. CASE SaveLevel(r)
  <2>1. /\ \A q \in Requests : Awaited(q)' = Awaited(q)
        /\ crashes' = crashes /\ task[r].pc = "save"
    BY <1>7, AwaitedStep DEF SaveLevel, At
  <2>2. cascadeRun' >= cascadeRun /\ \A p \in Awaited(r) : Level[p] <= cascadeRun'
    BY <1>7, <2>1, LevelSaved DEF DoubledInv, SavesFresh
  <2>3. cascadeRun' \in Nat
    BY <2>1, <1>7, ChainTypeStep DEF ChainStep, TypeOK, TablesOK
  <2>4. ASSUME crashes = 0, NEW q \in Requests, NEW p \in Awaited(q) PROVE Level[p] <= cascadeRun'
    <3>1. CASE q = r
      BY <2>2, <3>1
    <3>2. CASE q # r
      <4>1. task[q].pc # "save"
        BY <2>1, <3>2 DEF SoleInv, Exclusive, BusyChains
      <4> QED BY <1>0, <1>5, <2>2, <2>3, <2>4, <4>1 DEF DoubledInv, RunBelow
    <3> QED BY <3>1, <3>2
  <2>5. RunBelow'
    BY <2>1, <2>4 DEF RunBelow
  <2> QED BY <1>3, <1>4, <2>1, <2>5 DEF DoubledInv
<1>8. CASE CheckGeneration(r)
  <2>1. /\ Awaited(r)' = {} /\ UNCHANGED <<crashes, cascadeRun>>
        /\ \A q \in Requests \ {r} : Awaited(q)' = Awaited(q) /\ task'[q] = task[q]
    BY <1>0, <1>1, <1>8, AwaitedStep DEF CheckGeneration, Awaited, NoRun, Moves
  <2> QED BY <1>3, <1>4, <2>1 DEF DoubledInv, RunBelow
<1>9. CASE LoseChain(r)
  BY <1>9 DEF LoseChain, TypeOK, TablesOK, RunBelow, PathwayNotDoubled
<1>10. CASE ~(StartGeneration(r) \/ SaveLevel(r) \/ CheckGeneration(r) \/ LoseChain(r))
  <2>1. UNCHANGED <<run, cascadeRun, crashes>> /\ task[r].pc # "save"
    BY <1>10
    DEF Request, ChainStep, CountCandidates, MakeBatch, ConstructBatch, FillBatch, UndoBatch,
        StartRationales, FetchCandidate, StoreRationale, EndRationales, At
  <2>2. \A q \in Requests : task'[q].pc # "save" => task[q].pc # "save"
    BY <1>1, <2>1 DEF Moves
  <2>3. \A q \in Requests : Awaited(q)' = Awaited(q)
    BY <2>1 DEF Awaited
  <2>4. \A q \in Requests \ {r} : task'[q] = task[q]
    BY <1>1 DEF Moves
  <2> QED BY <1>3, <1>4, <2>1, <2>3, <2>4 DEF DoubledInv, RunBelow
<1> QED BY <1>6, <1>7, <1>8, <1>9, <1>10

\* With one worker, and unless it dies, no pathway is at work for two requests at once: a level
\* is saved before the next task reads it.
THEOREM PathwaysNotDoubled ==
  ASSUME Concurrency = 1
  PROVE  Spec => []PathwayNotDoubled
<1>1. Init => RunBelow /\ PathwayNotDoubled
  BY DEF Init, RunBelow, PathwayNotDoubled, Awaited, NoRun
<1>2. TypeOK /\ SoleInv /\ DoubledInv /\ [Next]_vars => RunBelow' /\ PathwayNotDoubled'
  <2> SUFFICES ASSUME TypeOK, SoleInv, DoubledInv, [Next]_vars
               PROVE  RunBelow' /\ PathwayNotDoubled'
    OBVIOUS
  <2>1. CASE UNCHANGED vars
    BY <2>1 DEF vars, DoubledInv, RunBelow, PathwayNotDoubled, Awaited
  <2>2. ASSUME NEW r \in Requests, NEW p \in Pathways, PathwayStep(r, p) \/ LosePathway(r, p)
        PROVE  RunBelow' /\ PathwayNotDoubled'
    <3>1. crashes' = 0 => crashes = 0
      BY <2>2 DEF PathwayStep, StartPathway, CheckResults, InsertCandidate, FinishPathway,
                  LosePathway, TypeOK, TablesOK
    <3>2. RunBelow'
      BY <2>2, <3>1, AwaitedKept, PathwayLeavesTasks DEF DoubledInv, RunBelow
    <3>3. \A q \in Requests, o \in Pathways : run'[q][o].pc # "none" => run[q][o].pc # "none"
      BY <2>2, AwaitedKept DEF Awaited
    <3> QED BY <3>1, <3>2, <3>3 DEF DoubledInv, PathwayNotDoubled
  <2> QED BY <2>1, <2>2, DoubledStep DEF Next
<1>3. SavesTried /\ SavesFresh /\ RunBelow /\ PathwayNotDoubled => DoubledInv
  BY DEF DoubledInv
<1> QED BY <1>1, <1>2, <1>3, TypeCorrect, SoleInvariant, TriedInvariant, FreshInvariant, PTL DEF Spec

(***************************************************************************)
(* Coming to rest.  While nothing has been delivered, some chain goes on,  *)
(* or the level saved last has no pathway that is enabled.                 *)
(***************************************************************************)
Going(r) ==
    /\ Origin[r] # "experts" /\ task[r].pc \notin {"idle", "ended", "stalled", "failed"}
    /\ task[r].pc = "check" => Awaited(r) # {}
Exhausted == cascadeRun >= LastLevel \/ \A p \in Enabled : Level[p] # cascadeRun
Considered ==
    /\ Concurrency = 1 \/ Started("experts") = {}
    /\ delegated = {} /\ Started("first") # {}
GoesOn == Considered => Exhausted \/ \E r \in Requests : Going(r)

\* What the step of a chain makes of whether it goes on.
LEMMA GoingStep ==
  ASSUME TypeOK, KindsKept, NEW r \in Requests, Request(r) \/ ChainStep(r) \/ LoseChain(r),
         delegated' = {}, ~SaveLevel(r), Going(r) \/ (task[r].pc = "idle" /\ Origin[r] # "experts")
  PROVE  Going(r)'
<1>1. PICK from \in DOMAIN NextPoints, to \in ChainPc : Moves(r, from, to)
  BY ChainRecord
<1>2. to # "check"
  <2>1. task[r].pc # "save" \/ LoseChain(r)
    BY DEF Request, ChainStep, StartGeneration, CheckGeneration, CountCandidates, MakeBatch,
           ConstructBatch, FillBatch, UndoBatch, StartRationales, FetchCandidate,
           StoreRationale, EndRationales, At
  <2>2. LoseChain(r) => to = "lost"
    BY <1>1 DEF LoseChain, Moves, TypeOK, TasksOK, Task
  <2> QED BY <1>1, <2>1, <2>2 DEF Moves, NextPoints
<1>3. to \notin {"stalled", "failed"}
  <2>1. CASE CheckGeneration(r)
    <3>1. task[r].pc = "check" /\ Awaited(r) # {}
      BY <2>1 DEF CheckGeneration, At, Going
    <3>2. \E pc \in {"rationales", "create"} : Goto(r, pc)
      BY <2>1, <3>1, NeverTooMany, Zenon DEF CheckGeneration
    <3> QED BY <1>1, <3>2 DEF Goto, Moves, TypeOK, TasksOK, Task
  <2>2. CASE ~CheckGeneration(r)
    <3>1. task[r].pc # "check"
      BY <2>2
      DEF Request, ChainStep, LoseChain, BusyChains, Making, StartGeneration, SaveLevel,
          CountCandidates, MakeBatch, ConstructBatch, FillBatch, UndoBatch, StartRationales,
          FetchCandidate, StoreRationale, EndRationales, At
    <3> QED BY <1>1, <3>1 DEF Moves, NextPoints
  <2> QED BY <2>1, <2>2
<1>4. to # "ended"
  <2>1. ~FillBatch(r)
    BY DEF FillBatch
  <2>2. from # "fetch"
    BY <1>1 DEF Moves, KindsKept, Going
  <2>3. task[r].pc = "fill" => LoseChain(r)
    BY <2>1
    DEF Request, ChainStep, StartGeneration, SaveLevel, CheckGeneration, CountCandidates,
        MakeBatch, ConstructBatch, UndoBatch, StartRationales, FetchCandidate, StoreRationale,
        EndRationales, At
  <2>4. from = "fill" => to = "lost"
    BY <1>1, <2>3 DEF LoseChain, Moves, TypeOK, TasksOK, Task
  <2> QED BY <1>1, <2>2, <2>4 DEF Moves, NextPoints
<1>5. Origin[r] # "experts" /\ to # "idle"
  BY <1>1 DEF Moves, NextPoints, Going
<1>6. task'[r].pc = to
  BY <1>1 DEF Moves
<1> QED BY <1>2, <1>3, <1>4, <1>5, <1>6 DEF Going

LEMMA GoesOnStep ==
  ASSUME TypeOK, KindsKept, SavesTried, Concurrency = 1 => SavesFresh, GoesOn,
         NEW r \in Requests, Request(r) \/ ChainStep(r) \/ LoseChain(r)
  PROVE  GoesOn'
<1>1. PICK from \in DOMAIN NextPoints, to \in ChainPc : Moves(r, from, to)
  BY ChainRecord
<1>2. \A q \in Requests \ {r} : task'[q] = task[q] /\ Awaited(q)' = Awaited(q)
  BY <1>1, AwaitedStep DEF Moves
<1>3. \A q \in Requests \ {r} : Going(q) => Going(q)'
  BY <1>2 DEF Going
<1>4. task'[r].pc # "idle" /\ cascadeRun \in Nat
  BY <1>1 DEF Moves, NextPoints, TypeOK, TablesOK
<1>5. delegated' = {} => delegated = {}
  BY DEF Request, ChainStep, LoseChain, StartGeneration, SaveLevel, CheckGeneration,
         CountCandidates, MakeBatch, ConstructBatch, FillBatch, UndoBatch, StartRationales,
         FetchCandidate, StoreRationale, EndRationales
<1>6. Started("experts")' = {} => Started("experts") = {} /\ Origin[r] # "experts"
  BY <1>2, <1>4 DEF Started, At
<1>7. CASE SaveLevel(r)
  <2>1. /\ task[r].pc = "save" /\ task'[r].pc = "check" /\ Awaited(r)' = Awaited(r)
        /\ cascadeRun' = LevelToSave(r) /\ delegated' = delegated
        /\ Awaited(r) = Asked(r, task[r].level)
    <3>1. task[r].pc = "save" /\ task'[r].pc = "check"
      BY <1>7 DEF SaveLevel, At, TypeOK, TasksOK, Task
    <3> QED BY <1>7, <3>1, AwaitedStep DEF SaveLevel, SavesTried
  <2>2. Started("first")' # {} => Started("first") # {}
    BY <1>2, <2>1 DEF Started, At
  <2>3. CASE Origin[r] # "experts" /\ Awaited(r) # {}
    BY <2>1, <2>3 DEF Going, GoesOn
  <2>4. CASE Origin[r] # "experts" /\ Awaited(r) = {}
    <3>1. cascadeRun' = task[r].level + 1
      BY <2>1, <2>4 DEF LevelToSave
    <3> QED BY <2>1, <2>4, <3>1 DEF Asked, GoesOn, Exhausted
  <2>5. CASE Origin[r] = "experts" /\ Concurrency = 1
    <3>1. IF Awaited(r) = {} THEN cascadeRun' = cascadeRun ELSE cascadeRun' = LastLevel
      BY <1>7, <2>1, <2>5, LevelSaved DEF SavesFresh
    <3>2. CASE Awaited(r) # {}
      BY <3>1, <3>2, LastLevelType DEF GoesOn, Exhausted
    <3>3. CASE Awaited(r) = {}
      <4>1. ~Going(r)
        BY <2>5 DEF Going
      <4>2. Considered' => Considered
        BY <2>1, <2>2, <2>5 DEF Considered
      <4> QED BY <1>3, <3>1, <3>3, <4>1, <4>2 DEF GoesOn, Exhausted
    <3> QED BY <3>2, <3>3
  <2>6. CASE Origin[r] = "experts" /\ Concurrency # 1
    BY <1>6, <2>6 DEF GoesOn, Considered
  <2> QED BY <2>3, <2>4, <2>5, <2>6
<1>8. CASE ~SaveLevel(r)
  <2> SUFFICES ASSUME Considered' PROVE Exhausted' \/ \E q \in Requests : Going(q)'
    BY DEF GoesOn
  <2>1. delegated' = {} /\ delegated = {}
    BY <1>5 DEF Considered
  <2>2. cascadeRun' = cascadeRun
    BY <1>8
    DEF Request, ChainStep, LoseChain, StartGeneration, CheckGeneration, CountCandidates,
        MakeBatch, ConstructBatch, FillBatch, UndoBatch, StartRationales, FetchCandidate,
        StoreRationale, EndRationales
  <2> DEFINE Goes == Going(r) \/ (task[r].pc = "idle" /\ Origin[r] # "experts")
  <2>3. CASE Goes
    BY <1>8, <2>1, <2>3, GoingStep
  <2>4. CASE ~Goes
    <3>1. Started("first") # {}
      BY <1>2, <2>4 DEF Considered, Started, At
    <3>2. Considered
      BY <1>6, <2>1, <3>1 DEF Considered
    <3> QED BY <1>3, <2>2, <2>4, <3>2 DEF GoesOn, Exhausted
  <2> QED BY <2>3, <2>4
<1> QED BY <1>7, <1>8

\* A first request does not come to rest without a batch before the end of the cascade, under
\* any concurrency, but that of a run for the experts, and whatever fails.
THEOREM FirstRequestStopsExhausted == Spec => []StopsOnlyWhenExhausted
<1> DEFINE Fresh == Concurrency = 1 => SavesFresh
<1>1. Spec => []Fresh
  <2>1. CASE Concurrency = 1
    <3>1. SavesFresh => Fresh
      OBVIOUS
    <3> QED BY <2>1, <3>1, FreshInvariant, PTL
  <2>2. CASE Concurrency # 1
    <3>1. Fresh
      BY <2>2
    <3> QED BY <3>1, PTL
  <2> QED BY <2>1, <2>2
<1>2. Init => GoesOn
  BY DEF Init, GoesOn, Considered, Started, At
<1>3. TypeOK /\ KindsKept /\ SavesTried /\ Fresh /\ GoesOn /\ [Next]_vars => GoesOn'
  <2> SUFFICES ASSUME TypeOK, KindsKept, SavesTried, Fresh, GoesOn, [Next]_vars PROVE GoesOn'
    OBVIOUS
  <2>1. CASE UNCHANGED <<task, run, delegated, cascadeRun>>
    BY <2>1 DEF GoesOn, Considered, Exhausted, Going, Started, At, Awaited
  <2>2. ASSUME NEW r \in Requests, NEW p \in Pathways, PathwayStep(r, p) \/ LosePathway(r, p)
        PROVE  GoesOn'
    BY <2>2, AwaitedKept, PathwayLeavesTasks
    DEF GoesOn, Considered, Exhausted, Going, Started, At
  <2> QED BY <2>1, <2>2, GoesOnStep DEF Next, vars
<1>4. GoesOn => StopsOnlyWhenExhausted
  BY DEF GoesOn, Considered, Exhausted, Going, StopsOnlyWhenExhausted, Quiescent, Terminal
<1> QED BY <1>1, <1>2, <1>3, <1>4, TypeCorrect, KindsInvariant, TriedInvariant, PTL DEF Spec
=============================================================================
