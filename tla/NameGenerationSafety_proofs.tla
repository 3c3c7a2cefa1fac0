--------------------- MODULE NameGenerationSafety_proofs ---------------------
(* The safety of the name generation tasks: batches, and names in one place. *)
EXTENDS NameGeneration_proofs

(***************************************************************************)
(* Batches, under any concurrency and any crashes.  A task that has made a *)
(* row owns it: nobody fills, delegates or deletes that row but the task.  *)
(***************************************************************************)
Makers == {r \in Requests : task[r].pc \in Making}
GoodBatch(S) == Cardinality(S) = BatchSize /\ Unrelated(S) /\ WithinCaps(S)

PickedGood == \A r \in Requests : task[r].pc = "fill" => GoodBatch(task[r].picked)
MakersOwn ==
    \A r \in Makers : /\ task[r].batch \in rows \ delegated
                      /\ results[task[r].batch] = {}
MakersApart == \A q, r \in Makers : task[q].batch = task[r].batch => q = r
FilledDelegated == \A b \in Batches : results[b] # {} => b \in delegated
DelegatedGood == \A b \in delegated : b \in rows /\ GoodBatch(results[b])

BatchInv == PickedGood /\ MakersOwn /\ MakersApart /\ FilledDelegated /\ DelegatedGood

\* A step that makes, fills and deletes no batch, and brings no task to a point at which it
\* would, preserves it.
LEMMA BatchFrame ==
  ASSUME BatchInv, UNCHANGED <<rows, delegated, results>>,
         \A q \in Requests : task'[q].pc \in Making => task'[q] = task[q]
  PROVE  BatchInv'
<1> USE DEF BatchInv, Makers, Making, GoodBatch, WithinCaps
<1>1. PickedGood'
  BY DEF PickedGood
<1>2. MakersOwn'
  BY DEF MakersOwn
<1>3. MakersApart'
  BY DEF MakersApart
<1>4. FilledDelegated' /\ DelegatedGood'
  BY DEF FilledDelegated, DelegatedGood
<1> QED BY <1>1, <1>2, <1>3, <1>4

\* What the validators accept: a choice that does not fall short is a good batch.
LEMMA PicksGood ==
  ASSUME NEW S, IsFiniteSet(S), NEW picked \in GreedyPicks(S), ~(Cardinality(picked) < BatchSize)
  PROVE  GoodBatch(picked)
<1>1. picked \subseteq S /\ Cardinality(picked) <= BatchSize /\ WithinCaps(picked)
  BY DEF GreedyPicks
<1>2. Unrelated(picked)
  BY DEF GreedyPicks, Unrelated
<1>3. Cardinality(picked) \in Nat
  BY <1>1, FS_Subset, FS_CardinalityType
<1> QED BY <1>1, <1>2, <1>3, SizeAssumption DEF GoodBatch

LEMMA CandidatesFinite == ASSUME TypeOK PROVE IsFiniteSet(candidates)
<1> DEFINE P == Names \X Pathways
           F == [x \in P |-> [name |-> x[1], pathway |-> x[2]]]
<1>1. IsFiniteSet(P)
  BY FiniteAssumption, FS_Product
<1>2. F \in Surjection(P, Candidate)
  <2>1. F \in [P -> Candidate]
    BY DEF Candidate
  <2>2. ASSUME NEW c \in Candidate PROVE \E x \in P : F[x] = c
    <3>1. <<c.name, c.pathway>> \in P /\ F[<<c.name, c.pathway>>] = c
      BY DEF Candidate
    <3> QED BY <3>1
  <2> QED BY <2>1, <2>2 DEF Surjection
<1>3. IsFiniteSet(Candidate)
  BY <1>1, <1>2, FS_Surjection
<1> QED BY <1>3, FS_Subset DEF TypeOK, TablesOK

\* The steps of a request's chain, one by one.
LEMMA BatchStep ==
  ASSUME TypeOK, BatchInv, NEW r \in Requests, Request(r) \/ ChainStep(r) \/ LoseChain(r)
  PROVE  BatchInv'
<1>0. TasksOK /\ task \in [Requests -> Task] /\ task[r] \in Task
  BY DEF TypeOK, TasksOK
<1>1. ASSUME UNCHANGED <<rows, delegated, results>>,
             NEW t, t.pc \notin Making, task' = [task EXCEPT ![r] = t]
      PROVE  BatchInv'
  BY <1>0, <1>1, BatchFrame
<1>2. ASSUME NEW pc \in ChainPc \ Making, Goto(r, pc), UNCHANGED <<rows, delegated, results>>
      PROVE  BatchInv'
  <2>1. task' = [task EXCEPT ![r] = [task[r] EXCEPT !.pc = pc]]
    BY <1>0, <1>2 DEF Goto
  <2>2. [task[r] EXCEPT !.pc = pc].pc = pc
    BY <1>0 DEF Task
  <2> QED BY <1>1, <1>2, <2>1, <2>2
<1>3. CASE Request(r) \/ CountCandidates(r)
  BY <1>2, <1>3 DEF Request, CountCandidates, ChainPc, Making
<1>4. CASE CheckGeneration(r)
  <2>1. \E pc \in {"stalled", "failed", "rationales", "create"} : Goto(r, pc)
    BY <1>4, Zenon DEF CheckGeneration
  <2> QED BY <1>2, <1>4, <2>1 DEF CheckGeneration, ChainPc, Making
<1>5. CASE StartGeneration(r) \/ SaveLevel(r) \/ StartRationales(r) \/ StoreRationale(r)
           \/ EndRationales(r) \/ LoseChain(r)
  <2>1. \A q \in Requests : task'[q].pc \in Making => task'[q] = task[q]
    BY <1>0, <1>5
    DEF StartGeneration, SaveLevel, StartRationales, StoreRationale, EndRationales, LoseChain,
        Making, Task
  <2> QED BY <1>5, <2>1, BatchFrame
      DEF StartGeneration, SaveLevel, StartRationales, StoreRationale, EndRationales, LoseChain
<1>6. CASE FetchCandidate(r)
  <2>1. \A q \in Requests : task'[q].pc \in Making => task'[q] = task[q]
    BY <1>0, <1>6 DEF FetchCandidate, At, Making, Task
  <2> QED BY <1>6, <2>1, BatchFrame DEF FetchCandidate
<1>7. CASE MakeBatch(r)
  <2>1. PICK b \in Batches \ rows, t \in Task :
            /\ rows' = rows \cup {b}
            /\ task' = [task EXCEPT ![r] = t]
            /\ t.pc \in {"undo", "construct"} /\ t.batch = b
    <3>1. PICK b \in Batches \ rows, sample \in Samples :
              /\ rows' = rows \cup {b}
              /\ task' = [task EXCEPT ![r] =
                   IF Cardinality(sample) < BatchSize
                   THEN [task[r] EXCEPT !.pc = "undo", !.batch = b]
                   ELSE [task[r] EXCEPT !.pc = "construct", !.batch = b, !.picked = sample]]
      BY <1>0, <1>7 DEF MakeBatch
    <3>2. sample \in SUBSET Candidate
      BY DEF Samples, TypeOK, TablesOK
    <3> DEFINE u == [task[r] EXCEPT !.pc = "undo", !.batch = b]
               c == [task[r] EXCEPT !.pc = "construct", !.batch = b, !.picked = sample]
    <3>3. u \in Task /\ u.pc = "undo" /\ u.batch = b
      BY <1>0 DEF Task, ChainPc, Making
    <3>4. c \in Task /\ c.pc = "construct" /\ c.batch = b
      BY <1>0, <3>2 DEF Task, ChainPc, Making
    <3> QED BY <3>1, <3>3, <3>4
  <2>2. b \notin delegated /\ results[b] = {}
    BY DEF BatchInv, DelegatedGood, FilledDelegated
  <2>3. UNCHANGED <<delegated, results>>
    BY <1>7 DEF MakeBatch
  <2>4. task'[r] = t /\ \A q \in Requests \ {r} : task'[q] = task[q]
    BY <1>0, <2>1
  <2>5. PickedGood'
    BY <2>1, <2>4 DEF BatchInv, PickedGood, GoodBatch, WithinCaps
  <2>6. MakersOwn'
    BY <2>1, <2>2, <2>3, <2>4 DEF BatchInv, MakersOwn, Makers
  <2>7. MakersApart'
    BY <2>1, <2>4 DEF BatchInv, MakersOwn, MakersApart, Makers
  <2>8. FilledDelegated' /\ DelegatedGood'
    BY <2>1, <2>3 DEF BatchInv, FilledDelegated, DelegatedGood, GoodBatch, WithinCaps
  <2> QED BY <2>5, <2>6, <2>7, <2>8 DEF BatchInv
<1>8. CASE ConstructBatch(r)
  <2>1. PICK picked \in GreedyPicks(task[r].picked \cap candidates) :
            task' = [task EXCEPT ![r] =
                 IF Cardinality(picked) < BatchSize
                 THEN [task[r] EXCEPT !.pc = "undo", !.picked = {}]
                 ELSE [task[r] EXCEPT !.pc = "fill", !.picked = picked]]
    BY <1>0, <1>8 DEF ConstructBatch
  <2>2. r \in Makers /\ task[r].pc = "construct" /\ UNCHANGED <<rows, delegated, results>>
    BY <1>8 DEF ConstructBatch, At, Makers, Making
  <2>3. /\ task'[r].pc \in {"undo", "fill"} /\ task'[r].batch = task[r].batch
        /\ task'[r].pc = "fill" => ~(Cardinality(picked) < BatchSize) /\ task'[r].picked = picked
        /\ \A q \in Requests \ {r} : task'[q] = task[q]
    BY <1>0, <2>1 DEF Task
  <2>4. task'[r].pc = "fill" => GoodBatch(picked)
    <3>1. IsFiniteSet(task[r].picked \cap candidates)
      BY CandidatesFinite, FS_Subset
    <3> QED BY <2>3, <3>1, PicksGood
  <2>5. PickedGood'
    BY <2>3, <2>4 DEF BatchInv, PickedGood, GoodBatch, WithinCaps
  <2>6. Makers' = Makers
    BY <2>2, <2>3 DEF Makers, Making
  <2>7. MakersOwn' /\ MakersApart'
    <3>1. \A q \in Makers : task'[q].batch = task[q].batch
      BY <2>3 DEF Makers
    <3> QED BY <2>2, <2>6, <3>1 DEF BatchInv, MakersOwn, MakersApart
  <2>8. FilledDelegated' /\ DelegatedGood'
    BY <2>2 DEF BatchInv, FilledDelegated, DelegatedGood, GoodBatch, WithinCaps
  <2> QED BY <2>5, <2>7, <2>8 DEF BatchInv
<1>9. CASE FillBatch(r)
  <2> DEFINE b == task[r].batch
  <2>1. /\ r \in Makers /\ GoodBatch(task[r].picked)
        /\ b \in rows /\ b \in Batches
    BY <1>0, <1>9
    DEF FillBatch, At, Makers, Making, BatchInv, PickedGood, MakersOwn, TasksOK
  <2>2. /\ task'[r].pc \notin Making
        /\ \A q \in Requests \ {r} : task'[q] = task[q]
    BY <1>0, <1>9 DEF FillBatch, AfterBatch, Making
  <2>3. /\ results' = [results EXCEPT ![b] = task[r].picked]
        /\ delegated' = delegated \cup {b} /\ rows' = rows
        /\ results \in [Batches -> SUBSET Candidate]
    BY <1>9 DEF FillBatch, TypeOK, TablesOK
  <2>4. \A q \in Makers' : q \in Makers /\ q # r /\ task'[q] = task[q] /\ task[q].batch # b
    BY <2>1, <2>2 DEF Makers, BatchInv, MakersApart
  <2>5. PickedGood'
    BY <2>2 DEF Making, BatchInv, PickedGood, GoodBatch, WithinCaps
  <2>6. MakersOwn' /\ MakersApart'
    BY <2>3, <2>4 DEF BatchInv, MakersOwn, MakersApart
  <2>7. FilledDelegated'
    BY <2>3 DEF BatchInv, FilledDelegated
  <2>8. DelegatedGood'
    <3>1. ASSUME NEW c \in delegated' PROVE c \in rows' /\ GoodBatch(results'[c])
      BY <2>1, <2>3, <3>1 DEF BatchInv, DelegatedGood
    <3> QED BY <3>1 DEF DelegatedGood, GoodBatch, WithinCaps
  <2> QED BY <2>5, <2>6, <2>7, <2>8 DEF BatchInv
<1>10. CASE UndoBatch(r)
  <2>1. r \in Makers /\ task[r].batch \notin delegated
    BY <1>10 DEF UndoBatch, At, Makers, Making, BatchInv, MakersOwn
  <2>2. /\ rows' = rows \ {task[r].batch} /\ UNCHANGED <<results, delegated>>
        /\ task'[r].pc = "generate" /\ \A q \in Requests \ {r} : task'[q] = task[q]
    BY <1>0, <1>10 DEF UndoBatch, Task
  <2>3. \A q \in Makers' :
            q \in Makers /\ task'[q] = task[q] /\ task[q].batch # task[r].batch
    BY <2>1, <2>2 DEF Makers, Making, BatchInv, MakersApart
  <2>4. PickedGood'
    BY <2>2 DEF BatchInv, PickedGood, GoodBatch, WithinCaps
  <2>5. MakersOwn' /\ MakersApart'
    BY <2>2, <2>3 DEF BatchInv, MakersOwn, MakersApart
  <2>6. FilledDelegated' /\ DelegatedGood'
    BY <2>1, <2>2 DEF BatchInv, FilledDelegated, DelegatedGood, GoodBatch, WithinCaps
  <2> QED BY <2>4, <2>5, <2>6 DEF BatchInv
<1> QED BY <1>3, <1>4, <1>5, <1>6, <1>7, <1>8, <1>9, <1>10 DEF ChainStep

LEMMA BatchInvariant == Spec => []BatchInv
<1>1. Init => BatchInv
  BY DEF Init, BatchInv, PickedGood, MakersOwn, MakersApart, FilledDelegated, DelegatedGood,
         Makers, Making
<1>2. TypeOK /\ BatchInv /\ [Next]_vars => BatchInv'
  <2> SUFFICES ASSUME TypeOK, BatchInv, [Next]_vars PROVE BatchInv'
    OBVIOUS
  <2>1. CASE UNCHANGED vars
    BY <2>1, BatchFrame DEF vars
  <2>2. ASSUME NEW r \in Requests, NEW p \in Pathways, PathwayStep(r, p) \/ LosePathway(r, p)
        PROVE  BatchInv'
    BY <2>2, BatchFrame
    DEF PathwayStep, StartPathway, CheckResults, InsertCandidate, FinishPathway, LosePathway
  <2> QED BY <2>1, <2>2, BatchStep DEF Next
<1> QED BY <1>1, <1>2, TypeCorrect, PTL DEF Spec

\* A batch that was delegated is what the customer was promised, however the tasks of other
\* requests interleave with the one that made it and whatever a dying worker leaves behind.
THEOREM BatchesAlwaysWellFormed == Spec => []BatchesWellFormed
<1>1. BatchInv => BatchesWellFormed
  BY DEF BatchInv, DelegatedGood, GoodBatch, BatchesWellFormed
<1> QED BY <1>1, BatchInvariant, PTL

\* A delivered batch is not filled again: FillBatch finds the row its task made empty.
THEOREM DeliveredNamesStay == Spec => DeliveredStays
<1> DEFINE A == \A b \in Batches : results[b] # {} => results'[b] = results[b]
<1>1. TypeOK /\ BatchInv /\ [Next]_vars => [A]_results
  <2> SUFFICES ASSUME TypeOK, BatchInv, [Next]_vars, results' # results PROVE A
    OBVIOUS
  <2>1. PICK r \in Requests : FillBatch(r)
    BY DEF vars, Next, Request, ChainStep, LoseChain, PathwayStep, LosePathway,
           StartGeneration, SaveLevel, CheckGeneration, CountCandidates, MakeBatch,
           ConstructBatch, UndoBatch, StartRationales, FetchCandidate, StoreRationale,
           EndRationales, StartPathway, CheckResults, InsertCandidate, FinishPathway
  <2>2. results[task[r].batch] = {}
    BY <2>1 DEF FillBatch, At, Makers, Making, BatchInv, MakersOwn
  <2> QED BY <2>1, <2>2 DEF FillBatch, TypeOK, TablesOK
<1> QED BY <1>1, TypeCorrect, BatchInvariant, PTL DEF Spec, DeliveredStays

(***************************************************************************)
(* The failure threshold.                                                  *)
(***************************************************************************)
\* No number of failed pathways is more than a hundred percent of those awaited, so that
\* check_generation_completion never calls fail_journey.
LEMMA NeverTooMany == ASSUME NEW r \in Requests PROVE ~TooManyFailed(r)
<1>1. FailedRuns(r) \subseteq Awaited(r) /\ Awaited(r) \subseteq Pathways
  BY DEF FailedRuns, Awaited, RunAt
<1>2. IsFiniteSet(Awaited(r))
  BY <1>1, FiniteAssumption, FS_Subset
<1>3. /\ Cardinality(FailedRuns(r)) <= Cardinality(Awaited(r))
      /\ Cardinality(FailedRuns(r)) \in Nat /\ Cardinality(Awaited(r)) \in Nat
  BY <1>1, <1>2, FS_Subset, FS_CardinalityType
<1> QED BY <1>3, ThresholdAssumption DEF TooManyFailed

\* The journey is never marked failed by the tasks that generate its names.
THEOREM JourneyNeverFails == Spec => []NeverFailed
<1>1. Init => NeverFailed
  BY DEF Init, NeverFailed
<1>2. NeverFailed /\ [Next]_vars => NeverFailed'
  <2> SUFFICES ASSUME NeverFailed, [Next]_vars PROVE NeverFailed'
    OBVIOUS
  <2>1. ASSUME NEW r \in Requests, CheckGeneration(r) PROVE NeverFailed'
    BY <2>1, NeverTooMany DEF CheckGeneration, NeverFailed
  <2> QED
    BY <2>1 DEF NeverFailed, vars, Next, Request, ChainStep, LoseChain, PathwayStep,
           LosePathway, StartGeneration, SaveLevel, CountCandidates, MakeBatch, FillBatch,
           ConstructBatch, UndoBatch, StartRationales, FetchCandidate, StoreRationale,
           EndRationales, StartPathway, CheckResults, InsertCandidate, FinishPathway
<1> QED BY <1>1, <1>2, PTL DEF Spec
(***************************************************************************)
(* What every step of a chain does to the record of its task.              *)
(***************************************************************************)
NextPoints ==
    [idle |-> {"create", "generate"}, generate |-> {"save"}, save |-> {"check", "lost"},
     check |-> {"stalled", "failed", "rationales", "create"}, create |-> {"generate", "make"},
     make |-> {"undo", "construct", "lost"}, construct |-> {"undo", "fill", "lost"},
     fill |-> {"create", "ended", "lost"}, undo |-> {"generate", "lost"},
     rationales |-> {"fetch"}, fetch |-> {"fetch", "store", "ended", "lost"},
     store |-> {"fetch", "lost"}]

\* Where the chain goes, with the record it leaves there.
Moves(r, from, to) ==
    /\ task[r].pc = from /\ task'[r].pc = to /\ to \in NextPoints[from]
    /\ \A q \in Requests \ {r} : task'[q] = task[q]
    /\ IF from = "fill" /\ to # "lost" THEN ~task'[r].first ELSE task'[r].first = task[r].first
    /\ from \in {"idle", "check"} /\ to = "create" => Origin[r] # "experts"
    /\ to = "rationales" => Origin[r] = "experts"

LEMMA ChainRecord ==
  ASSUME TypeOK, NEW r \in Requests, Request(r) \/ ChainStep(r) \/ LoseChain(r)
  PROVE  \E from \in DOMAIN NextPoints, to \in ChainPc : Moves(r, from, to)
<1>0. task \in [Requests -> Task] /\ task[r] \in Task
  BY DEF TypeOK, TasksOK
<1>1. CASE Request(r)
  <2>1. /\ task[r].pc = "idle" /\ task'[r].pc \in {"create", "generate"}
        /\ task'[r].pc = "create" => Origin[r] = "more"
        /\ task'[r].first = task[r].first /\ \A q \in Requests \ {r} : task'[q] = task[q]
    BY <1>0, <1>1 DEF Request, At, Goto, Task
  <2> QED BY <2>1 DEF Moves, NextPoints, ChainPc
<1>2. CASE StartGeneration(r)
  <2>1. /\ task[r].pc = "generate" /\ task'[r].pc = "save"
        /\ task'[r].first = task[r].first /\ \A q \in Requests \ {r} : task'[q] = task[q]
    BY <1>0, <1>2 DEF StartGeneration, At, Task
  <2> QED BY <2>1 DEF Moves, NextPoints, ChainPc
<1>3. CASE SaveLevel(r)
  <2>1. /\ task[r].pc = "save" /\ task'[r].pc = "check"
        /\ task'[r].first = task[r].first /\ \A q \in Requests \ {r} : task'[q] = task[q]
    BY <1>0, <1>3 DEF SaveLevel, At, Task
  <2> QED BY <2>1 DEF Moves, NextPoints, ChainPc
<1>4. CASE CheckGeneration(r)
  <2>1. \E pc \in {"stalled", "failed", "rationales", "create"} :
            /\ Goto(r, pc)
            /\ pc = "rationales" => Origin[r] = "experts"
            /\ pc = "create" => Origin[r] # "experts"
    BY <1>4, NeverTooMany, Zenon DEF CheckGeneration
  <2>2. /\ task[r].pc = "check" /\ task'[r].pc \in {"stalled", "failed", "rationales", "create"}
        /\ task'[r].pc = "rationales" => Origin[r] = "experts"
        /\ task'[r].pc = "create" => Origin[r] # "experts"
        /\ task'[r].first = task[r].first /\ \A q \in Requests \ {r} : task'[q] = task[q]
    BY <1>0, <1>4, <2>1 DEF CheckGeneration, At, Goto, Task
  <2> QED BY <2>2 DEF Moves, NextPoints, ChainPc
<1>5. CASE CountCandidates(r)
  <2>1. /\ task[r].pc = "create" /\ task'[r].pc \in {"generate", "make"}
        /\ task'[r].first = task[r].first /\ \A q \in Requests \ {r} : task'[q] = task[q]
    BY <1>0, <1>5 DEF CountCandidates, At, Goto, Task
  <2> QED BY <2>1 DEF Moves, NextPoints, ChainPc
<1>6. CASE MakeBatch(r)
  <2>1. /\ task[r].pc = "make" /\ task'[r].pc \in {"undo", "construct"}
        /\ task'[r].first = task[r].first /\ \A q \in Requests \ {r} : task'[q] = task[q]
    BY <1>0, <1>6 DEF MakeBatch, At, Task
  <2> QED BY <2>1 DEF Moves, NextPoints, ChainPc, Making
<1>7. CASE ConstructBatch(r)
  <2>1. /\ task[r].pc = "construct" /\ task'[r].pc \in {"undo", "fill"}
        /\ task'[r].first = task[r].first /\ \A q \in Requests \ {r} : task'[q] = task[q]
    BY <1>0, <1>7 DEF ConstructBatch, At, Task
  <2> QED BY <2>1 DEF Moves, NextPoints, ChainPc, Making
<1>8. CASE FillBatch(r)
  <2>1. /\ task[r].pc = "fill" /\ task'[r].pc \in {"create", "ended"}
        /\ ~task'[r].first /\ \A q \in Requests \ {r} : task'[q] = task[q]
    BY <1>0, <1>8 DEF FillBatch, At, AfterBatch
  <2> QED BY <2>1 DEF Moves, NextPoints, ChainPc
<1>9. CASE UndoBatch(r)
  <2>1. /\ task[r].pc = "undo" /\ task'[r].pc = "generate"
        /\ task'[r].first = task[r].first /\ \A q \in Requests \ {r} : task'[q] = task[q]
    BY <1>0, <1>9 DEF UndoBatch, At, Task
  <2> QED BY <2>1 DEF Moves, NextPoints, ChainPc
<1>10. CASE StartRationales(r)
  <2>1. /\ task[r].pc = "rationales" /\ task'[r].pc = "fetch"
        /\ task'[r].first = task[r].first /\ \A q \in Requests \ {r} : task'[q] = task[q]
    BY <1>0, <1>10 DEF StartRationales, At, Task
  <2> QED BY <2>1 DEF Moves, NextPoints, ChainPc
<1>11. CASE FetchCandidate(r)
  <2>1. /\ task[r].pc = "fetch" /\ task'[r].pc \in {"fetch", "store", "ended"}
        /\ task'[r].first = task[r].first /\ \A q \in Requests \ {r} : task'[q] = task[q]
    BY <1>0, <1>11 DEF FetchCandidate, At, Task
  <2> QED BY <2>1 DEF Moves, NextPoints, ChainPc
<1>12. CASE StoreRationale(r)
  <2>1. /\ task[r].pc = "store" /\ task'[r].pc = "fetch"
        /\ task'[r].first = task[r].first /\ \A q \in Requests \ {r} : task'[q] = task[q]
    BY <1>0, <1>12 DEF StoreRationale, At, Task
  <2> QED BY <2>1 DEF Moves, NextPoints, ChainPc
<1>13. CASE EndRationales(r)
  <2>1. /\ task[r].pc = "fetch" /\ task'[r].pc = "ended"
        /\ task'[r].first = task[r].first /\ \A q \in Requests \ {r} : task'[q] = task[q]
    BY <1>0, <1>13 DEF EndRationales, At, Task
  <2> QED BY <2>1 DEF Moves, NextPoints, ChainPc
<1>14. CASE LoseChain(r)
  <2>1. /\ task[r].pc \in Making \cup {"save", "make", "fetch", "store"} /\ task'[r].pc = "lost"
        /\ task'[r].first = task[r].first /\ \A q \in Requests \ {r} : task'[q] = task[q]
    BY <1>0, <1>14 DEF LoseChain, BusyChains, Task
  <2> QED BY <2>1 DEF Moves, NextPoints, ChainPc, Making
<1> QED BY <1>1, <1>2, <1>3, <1>4, <1>5, <1>6, <1>7, <1>8, <1>9, <1>10, <1>11, <1>12, <1>13,
           <1>14 DEF ChainStep

LEMMA PathwayLeavesTasks ==
  ASSUME NEW r \in Requests, NEW p \in Pathways, PathwayStep(r, p) \/ LosePathway(r, p)
  PROVE  UNCHANGED <<task, rows, results, delegated, cascadeRun>>
  BY DEF PathwayStep, StartPathway, CheckResults, InsertCandidate, FinishPathway, LosePathway

\* A request keeps to its kind: only a first one is a first run, and until it has a batch; a
\* run for the experts makes no batches, and no other run writes rationales for candidates.
KindsKept ==
    \A r \in Requests :
        /\ task[r].first => Origin[r] = "first" /\ task[r].pc # "ended"
        /\ Origin[r] = "experts" => task[r].pc \notin Making \cup {"create", "make"}
        /\ Origin[r] # "experts" => task[r].pc \notin {"rationales", "fetch", "store"}

LEMMA KindsInvariant == Spec => []KindsKept
<1>1. Init => KindsKept
  <2>1. ASSUME Init, NEW r \in Requests
        PROVE  task[r].pc = "idle" /\ task[r].first = (Origin[r] = "first")
    BY <2>1 DEF Init
  <2> QED BY <2>1 DEF KindsKept, Making
<1>2. TypeOK /\ KindsKept /\ [Next]_vars => KindsKept'
  <2> SUFFICES ASSUME TypeOK, KindsKept, [Next]_vars PROVE KindsKept'
    OBVIOUS
  <2>1. CASE UNCHANGED task
    BY <2>1 DEF KindsKept
  <2>2. ASSUME NEW r \in Requests, Request(r) \/ ChainStep(r) \/ LoseChain(r) PROVE KindsKept'
    <3>1. PICK from \in DOMAIN NextPoints, to \in ChainPc : Moves(r, from, to)
      BY <2>2, ChainRecord
    <3>2. /\ task'[r].first => Origin[r] = "first" /\ to # "ended"
          /\ Origin[r] = "experts" => to \notin Making \cup {"create", "make"}
          /\ Origin[r] # "experts" => to \notin {"rationales", "fetch", "store"}
      BY <3>1 DEF Moves, NextPoints, KindsKept, Making
    <3> QED BY <3>1, <3>2 DEF Moves, KindsKept
  <2> QED BY <2>1, <2>2, PathwayLeavesTasks DEF Next, vars
<1> QED BY <1>1, <1>2, TypeCorrect, PTL DEF Spec

(***************************************************************************)
(* Rows without results, if no worker died.                                *)
(***************************************************************************)
EmptyOwned ==
    crashes = 0 => \A b \in rows : results[b] = {} => \E r \in Makers : task[r].batch = b

LEMMA EmptyStep ==
  ASSUME TypeOK, BatchInv, EmptyOwned, NEW r \in Requests,
         Request(r) \/ ChainStep(r) \/ LoseChain(r)
  PROVE  EmptyOwned'
<1>0. /\ task \in [Requests -> Task] /\ task[r] \in Task
      /\ task[r].pc \in Making => task[r].batch \in rows
  BY DEF TypeOK, TasksOK, BatchInv, MakersOwn, Makers
<1>1. PICK from \in DOMAIN NextPoints, to \in ChainPc : Moves(r, from, to)
  BY ChainRecord
<1>2. ASSUME UNCHANGED <<rows, results, crashes>>,
             from \in Making => to \in Making /\ task'[r].batch = task[r].batch
      PROVE  EmptyOwned'
  <2>1. ASSUME NEW q \in Makers PROVE q \in Makers' /\ task'[q].batch = task[q].batch
    BY <1>1, <1>2, <2>1 DEF Moves, Makers
  <2> QED BY <1>2, <2>1 DEF EmptyOwned
<1>3. CASE from \notin Making /\ UNCHANGED <<rows, results, crashes>>
  BY <1>2, <1>3
<1>4. CASE MakeBatch(r)
  <2>1. PICK b \in Batches \ rows : rows' = rows \cup {b} /\ task'[r].batch = b
    BY <1>0, <1>4 DEF MakeBatch, Task
  <2>2. r \in Makers' /\ r \notin Makers /\ UNCHANGED <<results, crashes>>
    BY <1>1, <1>4 DEF MakeBatch, At, Moves, NextPoints, Makers, Making,
       LoseChain
  <2>3. \A q \in Makers : q \in Makers' /\ task'[q].batch = task[q].batch
    BY <1>1, <2>2 DEF Moves, Makers
  <2> QED BY <2>1, <2>2, <2>3 DEF EmptyOwned
<1>5. CASE ConstructBatch(r)
  <2>1. task'[r].batch = task[r].batch /\ task'[r].pc \in Making /\ task[r].pc = "construct"
    BY <1>0, <1>5 DEF ConstructBatch, At, Task, Making
  <2>2. UNCHANGED <<rows, results, crashes>>
    BY <1>5 DEF ConstructBatch
  <2> QED BY <1>1, <1>2, <2>1, <2>2 DEF Moves
<1>6. CASE FillBatch(r)
  <2>1. /\ results' = [results EXCEPT ![task[r].batch] = task[r].picked]
        /\ results \in [Batches -> SUBSET Candidate] /\ UNCHANGED <<rows, crashes>>
        /\ task[r].pc = "fill" /\ task[r].batch \in Batches
    BY <1>0, <1>6 DEF FillBatch, At, TypeOK, TablesOK, Making
  <2>2. task[r].picked # {}
    <3>1. Cardinality(task[r].picked) = BatchSize
      BY <2>1 DEF BatchInv, PickedGood, GoodBatch
    <3> QED BY <3>1, FS_EmptySet, SizeAssumption
  <2>3. \A q \in Makers : q # r => q \in Makers' /\ task'[q].batch = task[q].batch
    BY <1>1 DEF Moves, Makers
  <2> QED BY <2>1, <2>2, <2>3 DEF EmptyOwned
<1>7. CASE UndoBatch(r)
  <2>1. /\ rows' = rows \ {task[r].batch} /\ UNCHANGED <<results, crashes>>
        /\ r \in Makers
    BY <1>7 DEF UndoBatch, At, Makers, Making
  <2>2. \A q \in Makers : q # r => q \in Makers' /\ task'[q].batch = task[q].batch
    BY <1>1 DEF Moves, Makers
  <2> QED BY <2>1, <2>2 DEF EmptyOwned
<1>8. CASE LoseChain(r)
  BY <1>8 DEF LoseChain, EmptyOwned, TypeOK, TablesOK
<1>9. CASE Request(r) \/ StartGeneration(r) \/ SaveLevel(r) \/ CheckGeneration(r)
           \/ CountCandidates(r) \/ StartRationales(r) \/ FetchCandidate(r) \/ StoreRationale(r)
           \/ EndRationales(r)
  <2>1. task[r].pc \notin Making
    BY <1>9 DEF Request, StartGeneration, SaveLevel, CheckGeneration, CountCandidates,
       StartRationales, FetchCandidate, StoreRationale, EndRationales, At, Making
  <2>2. UNCHANGED <<rows, results, crashes>>
    BY <1>9 DEF Request, StartGeneration, SaveLevel, CheckGeneration, CountCandidates,
       StartRationales, FetchCandidate, StoreRationale, EndRationales
  <2> QED BY <1>1, <1>3, <2>1, <2>2 DEF Moves
<1> QED BY <1>4, <1>5, <1>6, <1>7, <1>8, <1>9 DEF ChainStep

LEMMA EmptyInvariant == Spec => []EmptyOwned
<1>1. Init => EmptyOwned
  BY DEF Init, EmptyOwned
<1>2. TypeOK /\ BatchInv /\ EmptyOwned /\ [Next]_vars => EmptyOwned'
  <2> SUFFICES ASSUME TypeOK, BatchInv, EmptyOwned, [Next]_vars PROVE EmptyOwned'
    OBVIOUS
  <2>1. CASE UNCHANGED vars
    BY <2>1 DEF vars, EmptyOwned, Makers
  <2>2. ASSUME NEW r \in Requests, NEW p \in Pathways, PathwayStep(r, p) \/ LosePathway(r, p)
        PROVE  EmptyOwned'
    <3>1. crashes' = 0 => crashes = 0
      BY <2>2 DEF PathwayStep, StartPathway, CheckResults, InsertCandidate, FinishPathway,
                  LosePathway, TypeOK, TablesOK
    <3> QED BY <2>2, <3>1, PathwayLeavesTasks DEF EmptyOwned, Makers
  <2> QED BY <2>1, <2>2, EmptyStep DEF Next
<1> QED BY <1>1, <1>2, TypeCorrect, BatchInvariant, PTL DEF Spec

\* Unless a worker died, a row without results is in the hands of one task, which fills or
\* deletes it, and one with results in nobody's.
THEOREM NoBatchIsLeftEmpty == Spec => []NoBatchLeftEmpty
<1>1. TypeOK /\ BatchInv /\ EmptyOwned => NoBatchLeftEmpty
  <2> SUFFICES ASSUME TypeOK, BatchInv, EmptyOwned, crashes = 0, NEW b \in rows
               PROVE  LET makers == {r \in Requests : task[r].batch = b}
                      IN  IF results[b] = {} THEN Cardinality(makers) = 1 ELSE makers = {}
    BY DEF NoBatchLeftEmpty
  <2> DEFINE makers == {r \in Requests : task[r].batch = b}
  <2>1. makers = {r \in Makers : task[r].batch = b}
    BY DEF TypeOK, TasksOK, TablesOK, Makers
  <2>2. CASE results[b] = {}
    <3>1. PICK r \in Makers : task[r].batch = b
      BY <2>2 DEF EmptyOwned
    <3>2. makers = {r}
      BY <2>1, <3>1 DEF BatchInv, MakersApart
    <3> QED BY <2>2, <3>2, FS_Singleton
  <2>3. CASE results[b] # {}
    BY <2>1, <2>3 DEF BatchInv, MakersOwn
  <2> QED BY <2>2, <2>3
<1> QED BY <1>1, TypeCorrect, BatchInvariant, EmptyInvariant, PTL

(***************************************************************************)
(* What has been delivered is what the requests that ended were for.       *)
(***************************************************************************)
LEMMA DueFinite == IsFiniteSet(Due) /\ Cardinality(Due) \in Nat
<1>1. IsFiniteSet(1..2)
  <2>1. 1..2 = {1} \cup {2}
    OBVIOUS
  <2>2. IsFiniteSet({1})
    BY FS_Singleton
  <2> QED BY <2>1, <2>2, FS_AddElement
<1>2. IsFiniteSet(Requests \X (1..2))
  BY <1>1, FiniteAssumption, FS_Product
<1>3. Due \subseteq Requests \X (1..2)
  BY DEF Due
<1> QED BY <1>2, <1>3, FS_Subset, FS_CardinalityType

\* A batch that is filled is due from now on, and no other step makes one due.
LEMMA DueStep ==
  ASSUME TypeOK, KindsKept, NEW r \in Requests, Request(r) \/ ChainStep(r) \/ LoseChain(r)
  PROVE  IF FillBatch(r) THEN \E x : x \notin Due /\ Due' = Due \cup {x} ELSE Due' = Due
<1>1. PICK from \in DOMAIN NextPoints, to \in ChainPc : Moves(r, from, to)
  BY ChainRecord
<1>2. \A q \in Requests \ {r} : BatchesDue(q)' = BatchesDue(q)
  BY <1>1 DEF Moves, BatchesDue
<1>3. \A q \in Requests : BatchesDue(q) \in 0..2 /\ BatchesDue(q)' \in 0..2
  BY OriginAssumption DEF BatchesDue
<1>4. CASE FillBatch(r)
  <2>1. Origin[r] # "experts" /\ (task[r].first => Origin[r] = "first")
    BY <1>4 DEF FillBatch, At, KindsKept, Making
  <2>2. task[r].pc = "fill" /\ task'[r].pc = (IF task[r].first THEN "create" ELSE "ended") /\ ~task'[r].first
    BY <1>4 DEF FillBatch, At, AfterBatch, TypeOK, TasksOK
  <2>3. BatchesDue(r)' = BatchesDue(r) + 1
    BY <2>1, <2>2, OriginAssumption DEF BatchesDue
  <2> DEFINE x == <<r, BatchesDue(r) + 1>>
  <2>4. x \notin Due
    BY <1>3 DEF Due
  <2>5. Due' = Due \cup {x}
    BY <1>2, <1>3, <2>3 DEF Due
  <2> QED BY <1>4, <2>4, <2>5
<1>5. CASE ~FillBatch(r)
  <2>1. BatchesDue(r)' = BatchesDue(r)
    <3>1. from = "fill" => to = "lost"
      <4>1. task[r].pc = "fill" => LoseChain(r)
        BY <1>5
        DEF Request, ChainStep, StartGeneration, SaveLevel, CheckGeneration, CountCandidates,
            MakeBatch, ConstructBatch, UndoBatch, StartRationales, FetchCandidate,
            StoreRationale, EndRationales, At
      <4> QED BY <1>1, <4>1 DEF Moves, LoseChain, TypeOK, TasksOK, Task
    <3>2. task'[r].first = task[r].first
      BY <1>1, <3>1 DEF Moves
    <3>3. Origin[r] # "experts" => task[r].pc # "ended" /\ task'[r].pc # "ended"
      BY <1>1, <3>1 DEF Moves, NextPoints, KindsKept
    <3> QED BY <3>2, <3>3, OriginAssumption DEF BatchesDue
  <2> QED BY <1>2, <1>5, <2>1 DEF Due
<1> QED BY <1>4, <1>5

DeliveriesCounted == IsFiniteSet(delegated) /\ Cardinality(delegated) = Cardinality(Due)

LEMMA DeliveriesInvariant == Spec => []DeliveriesCounted
<1>1. Init => DeliveriesCounted
  <2>1. ASSUME Init, NEW r \in Requests PROVE BatchesDue(r) = 0
    <3>1. task[r].pc = "idle" /\ task[r].first = (Origin[r] = "first")
      BY <2>1 DEF Init
    <3> QED BY <3>1, OriginAssumption DEF BatchesDue
  <2>2. Init => Due = {}
    BY <2>1 DEF Due
  <2> QED BY <2>2, FS_EmptySet DEF Init, DeliveriesCounted
<1>2. TypeOK /\ BatchInv /\ KindsKept /\ DeliveriesCounted /\ [Next]_vars => DeliveriesCounted'
  <2> SUFFICES ASSUME TypeOK, BatchInv, KindsKept, DeliveriesCounted, [Next]_vars
               PROVE  DeliveriesCounted'
    OBVIOUS
  <2>1. CASE UNCHANGED <<task, delegated>>
    BY <2>1 DEF DeliveriesCounted, Due, BatchesDue
  <2>2. ASSUME NEW r \in Requests, Request(r) \/ ChainStep(r) \/ LoseChain(r)
        PROVE  DeliveriesCounted'
    <3>1. CASE FillBatch(r)
      <4> DEFINE b == task[r].batch
      <4>1. delegated' = delegated \cup {b} /\ b \notin delegated
        BY <3>1 DEF FillBatch, At, Makers, Making, BatchInv, MakersOwn
      <4>2. PICK x : x \notin Due /\ Due' = Due \cup {x}
        BY <2>2, <3>1, DueStep
      <4>3. Cardinality(Due') = Cardinality(Due) + 1
        BY <4>2, DueFinite, FS_AddElement
      <4>4. IsFiniteSet(delegated') /\ Cardinality(delegated') = Cardinality(delegated) + 1
        BY <4>1, FS_AddElement DEF DeliveriesCounted
      <4> QED BY <4>3, <4>4 DEF DeliveriesCounted
    <3>2. CASE ~FillBatch(r)
      <4>1. delegated' = delegated
        BY <2>2, <3>2
        DEF Request, ChainStep, LoseChain, StartGeneration, SaveLevel, CheckGeneration,
            CountCandidates, MakeBatch, ConstructBatch, UndoBatch, StartRationales,
            FetchCandidate, StoreRationale, EndRationales
      <4>2. Due' = Due
        BY <2>2, <3>2, DueStep
      <4> QED BY <4>1, <4>2 DEF DeliveriesCounted
    <3> QED BY <3>1, <3>2
  <2> QED BY <2>1, <2>2, PathwayLeavesTasks DEF Next, vars
<1> QED BY <1>1, <1>2, TypeCorrect, BatchInvariant, KindsInvariant, PTL DEF Spec

\* As many batches have been delivered as the requests that came to an end were for.
THEOREM RequestsAreServed == Spec => []RequestsServed
<1>1. DeliveriesCounted => RequestsServed
  BY DEF DeliveriesCounted, RequestsServed
<1> QED BY <1>1, DeliveriesInvariant, PTL
=============================================================================
