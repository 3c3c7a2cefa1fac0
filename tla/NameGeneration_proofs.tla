------------------------ MODULE NameGeneration_proofs ------------------------
(* What holds of the name generation tasks for every value of the constants. *)
EXTENDS NameGenerationProperties, FiniteSetTheorems, TLAPS

(***************************************************************************)
(* Types.  A step of a chain replaces the record of its task, a step of a  *)
(* pathway the record of its run: it is enough to look at that record.     *)
(***************************************************************************)
LEMMA Frame ==
  /\ TasksOK /\ UNCHANGED task => TasksOK'
  /\ RunsOK /\ UNCHANGED run => RunsOK'
  BY DEF TasksOK, RunsOK

LEMMA TaskUpdate ==
  ASSUME TasksOK, NEW r \in Requests, NEW t \in Task,
         t.pc \in Making <=> t.batch \in Batches,
         task' = [task EXCEPT ![r] = t]
  PROVE  TasksOK'
  BY DEF TasksOK

\* A step from a point without a batch to another one.
LEMMA TaskMove ==
  ASSUME TasksOK, NEW r \in Requests, task[r].pc \notin Making,
         NEW t \in Task, t.pc \notin Making, t.batch = task[r].batch,
         task' = [task EXCEPT ![r] = t]
  PROVE  TasksOK'
  BY TaskUpdate DEF TasksOK

LEMMA RunUpdate ==
  ASSUME RunsOK, NEW r \in Requests, NEW p \in Pathways, NEW u \in PathwayTask,
         u.pc = "insert" <=> u.name \in Names,
         run' = [run EXCEPT ![r][p] = u]
  PROVE  RunsOK'
  BY DEF RunsOK

LEMMA RunReset ==
  ASSUME RunsOK, NEW r \in Requests, NEW P,
         run' = [run EXCEPT ![r] = [p \in Pathways |->
                    IF p \in P THEN [NoRun EXCEPT !.pc = "queued"] ELSE NoRun]]
  PROVE  RunsOK'
  BY NoneAssumption DEF RunsOK, PathwayTask, RunPc, NoRun

\* The last cascade level is the level of some pathway.
LEMMA LastLevelType == LastLevel \in Nat
<1> DEFINE S == {Level[p] : p \in Pathways}
<1>1. PICK m \in S : \A x \in S : m >= x
  BY LevelAssumption, PathwayAssumption
<1>2. LastLevel = CHOOSE x \in S : \A y \in S : x >= y
  BY DEF LastLevel, Max
<1>3. LastLevel \in S
  BY <1>1, <1>2
<1> QED BY <1>3, PathwayAssumption

LEMMA LastLevelLast == ASSUME NEW p \in Pathways PROVE Level[p] <= LastLevel
<1> DEFINE S == {Level[q] : q \in Pathways}
<1>1. PICK m \in S : \A x \in S : m >= x
  BY LevelAssumption, PathwayAssumption
<1>2. LastLevel = CHOOSE x \in S : \A y \in S : x >= y
  BY DEF LastLevel, Max
<1>3. LastLevel \in S /\ \A y \in S : LastLevel >= y
  BY <1>1, <1>2
<1> QED BY <1>3, PathwayAssumption

LEMMA InitType == Init => TypeOK
<1> SUFFICES ASSUME Init PROVE TypeOK
  OBVIOUS
<1>1. TasksOK
  BY NoneAssumption DEF Init, TasksOK, Task, ChainPc, Making
<1>2. RunsOK
  BY NoneAssumption DEF Init, RunsOK, PathwayTask, RunPc, NoRun
<1>3. TablesOK
  BY DEF Init, TablesOK
<1> QED BY <1>1, <1>2, <1>3 DEF TypeOK

LEMMA ChainTypeStep ==
  ASSUME TypeOK, NEW r \in Requests, Request(r) \/ ChainStep(r) \/ LoseChain(r)
  PROVE  TypeOK'
<1> USE Frame DEF TypeOK, Making
<1>0. TasksOK /\ RunsOK /\ TablesOK /\ task[r] \in Task
  BY DEF TasksOK
<1>1. ASSUME NEW pc \in ChainPc \ Making, task[r].pc \notin Making,
             Goto(r, pc)
      PROVE  TasksOK'
  <2>1. [task[r] EXCEPT !.pc = pc] \in Task
    BY <1>0 DEF Task
  <2>2. task' = [task EXCEPT ![r] = [task[r] EXCEPT !.pc = pc]]
    BY <1>0, <1>1 DEF Goto, TasksOK
  <2> QED BY <1>0, <1>1, <2>1, <2>2, TaskMove DEF Task
<1>2. CASE Request(r)
  <2>1. TasksOK'
    BY <1>1, <1>2 DEF Request, At, ChainPc
  <2> QED BY <1>0, <1>2, <2>1 DEF Request, TablesOK
<1>3. CASE StartGeneration(r)
  <2>1. TasksOK'
    <3> DEFINE t == [task[r] EXCEPT !.pc = "save", !.level = cascadeRun]
    <3>1. t \in Task
      BY <1>0 DEF Task, ChainPc, TablesOK
    <3>2. task' = [task EXCEPT ![r] = t]
      BY <1>0, <1>3 DEF StartGeneration, TasksOK
    <3> QED BY <1>0, <1>3, <3>1, <3>2, TaskMove DEF StartGeneration, At, Task
  <2>2. RunsOK'
    BY <1>0, <1>3, RunReset DEF StartGeneration
  <2> QED BY <1>0, <1>3, <2>1, <2>2 DEF StartGeneration, TablesOK
<1>4. CASE SaveLevel(r)
  <2>1. TasksOK'
    <3> DEFINE t == [task[r] EXCEPT !.pc = "check", !.level = 0]
    <3>1. t \in Task
      BY <1>0 DEF Task, ChainPc
    <3>2. task' = [task EXCEPT ![r] = t]
      BY <1>0, <1>4 DEF SaveLevel, TasksOK
    <3> QED BY <1>0, <1>4, <3>1, <3>2, TaskMove DEF SaveLevel, At, Task
  <2>2. LevelToSave(r) \in Nat
    BY <1>0, LastLevelType DEF LevelToSave, Task
  <2> QED BY <1>0, <1>4, <2>1, <2>2 DEF SaveLevel, TablesOK
<1>5. CASE CheckGeneration(r)
  <2>1. \E pc \in {"stalled", "failed", "rationales", "create"} : Goto(r, pc)
    BY <1>5, Zenon DEF CheckGeneration
  <2>2. TasksOK'
    BY <1>1, <1>5, <2>1 DEF CheckGeneration, At, ChainPc
  <2>3. RunsOK'
    BY <1>0, <1>5, NoneAssumption DEF CheckGeneration, RunsOK, PathwayTask, RunPc, NoRun
  <2>4. failed' \in BOOLEAN
    BY <1>5 DEF CheckGeneration
  <2> QED BY <1>0, <1>5, <2>2, <2>3, <2>4 DEF CheckGeneration, TablesOK
<1>6. CASE CountCandidates(r)
  <2>1. TasksOK'
    BY <1>1, <1>6 DEF CountCandidates, At, ChainPc
  <2> QED BY <1>0, <1>6, <2>1 DEF CountCandidates, TablesOK
<1>7. CASE MakeBatch(r)
  <2>1. PICK b \in Batches \ rows, sample \in Samples :
            /\ rows' = rows \cup {b}
            /\ task' = [task EXCEPT ![r] =
                 IF Cardinality(sample) < BatchSize
                 THEN [task[r] EXCEPT !.pc = "undo", !.batch = b]
                 ELSE [task[r] EXCEPT !.pc = "construct", !.batch = b, !.picked = sample]]
    BY <1>0, <1>7 DEF MakeBatch, TasksOK
  <2>2. sample \in SUBSET Candidate
    BY <1>0 DEF Samples, TablesOK
  <2>3. /\ [task[r] EXCEPT !.pc = "undo", !.batch = b] \in Task
        /\ [task[r] EXCEPT !.pc = "construct", !.batch = b, !.picked = sample] \in Task
    BY <1>0, <2>2 DEF Task, ChainPc
  <2>4. TasksOK'
    BY <1>0, <2>1, <2>3, TaskUpdate DEF Task
  <2> QED BY <1>0, <1>7, <2>1, <2>4 DEF MakeBatch, TablesOK
<1>8. CASE FillBatch(r)
  <2>1. task[r].batch \in Batches /\ task[r].picked \in SUBSET Candidate
    BY <1>0, <1>8 DEF FillBatch, At, TasksOK, Task
  <2>2. AfterBatch(r) \in Task /\ AfterBatch(r).pc \notin Making /\ AfterBatch(r).batch = NoBatch
    BY DEF AfterBatch, Task, ChainPc
  <2>3. TasksOK'
    BY <1>0, <1>8, <2>2, TaskUpdate, NoneAssumption DEF FillBatch
  <2> QED BY <1>0, <1>8, <2>1, <2>3 DEF FillBatch, TablesOK
<1>9. CASE UndoBatch(r)
  <2>1. [task[r] EXCEPT !.pc = "generate", !.batch = NoBatch] \in Task
    BY <1>0 DEF Task, ChainPc
  <2>2. task' = [task EXCEPT ![r] = [task[r] EXCEPT !.pc = "generate", !.batch = NoBatch]]
    BY <1>0, <1>9 DEF UndoBatch, TasksOK, Task
  <2>3. TasksOK'
    BY <1>0, <2>1, <2>2, TaskUpdate, NoneAssumption DEF Task
  <2> QED BY <1>0, <1>9, <2>3 DEF UndoBatch, TablesOK
<1>10. CASE StartRationales(r)
  <2>1. TasksOK'
    <3> DEFINE t == [task[r] EXCEPT !.pc = "fetch", !.picked = candidates]
    <3>1. t \in Task
      BY <1>0 DEF Task, ChainPc, TablesOK
    <3>2. task' = [task EXCEPT ![r] = t]
      BY <1>0, <1>10 DEF StartRationales, TasksOK
    <3> QED BY <1>0, <1>10, <3>1, <3>2, TaskMove DEF StartRationales, At, Task
  <2> QED BY <1>0, <1>10, <2>1 DEF StartRationales, TablesOK
<1>11. CASE FetchCandidate(r)
  <2>1. PICK x \in task[r].picked :
            \/ task' = [task EXCEPT ![r].picked = @ \ {x}]
            \/ \E y \in candidates :
                 task' = [task EXCEPT ![r].pc = "store", ![r].picked = @ \ {x},
                                      ![r].fetched = {y}]
            \/ task' = [task EXCEPT ![r].pc = "ended", ![r].picked = {}]
    BY <1>11 DEF FetchCandidate
  <2>2. task[r].picked \ {x} \in SUBSET Candidate /\ task[r].pc = "fetch"
    BY <1>0, <1>11 DEF Task, FetchCandidate, At
  <2>3. ASSUME task' = [task EXCEPT ![r].picked = @ \ {x}] PROVE TasksOK'
    <3> DEFINE t == [task[r] EXCEPT !.picked = task[r].picked \ {x}]
    <3>1. t \in Task /\ t.pc = "fetch" /\ t.batch = task[r].batch
      BY <1>0, <2>2 DEF Task
    <3>2. task' = [task EXCEPT ![r] = t]
      BY <1>0, <2>3 DEF TasksOK
    <3> QED BY <1>0, <2>2, <3>1, <3>2, TaskMove
  <2>4. ASSUME NEW y \in candidates,
               task' = [task EXCEPT ![r].pc = "store", ![r].picked = @ \ {x}, ![r].fetched = {y}]
        PROVE  TasksOK'
    <3> DEFINE t == [task[r] EXCEPT !.pc = "store", !.picked = task[r].picked \ {x},
                                    !.fetched = {y}]
    <3>1. t \in Task
      BY <1>0, <2>2 DEF Task, ChainPc, TablesOK
    <3>2. task' = [task EXCEPT ![r] = t]
      BY <1>0, <2>4 DEF TasksOK
    <3> QED BY <1>0, <2>2, <3>1, <3>2, TaskMove DEF Task
  <2>5. ASSUME task' = [task EXCEPT ![r].pc = "ended", ![r].picked = {}] PROVE TasksOK'
    <3> DEFINE t == [task[r] EXCEPT !.pc = "ended", !.picked = {}]
    <3>1. t \in Task /\ t.pc = "ended" /\ t.batch = task[r].batch
      BY <1>0 DEF Task, ChainPc
    <3>2. task' = [task EXCEPT ![r] = t]
      BY <1>0, <2>5 DEF TasksOK
    <3> QED BY <1>0, <2>2, <3>1, <3>2, TaskMove
  <2> QED BY <1>0, <1>11, <2>1, <2>3, <2>4, <2>5 DEF FetchCandidate, TablesOK
<1>12. CASE StoreRationale(r)
  <2>1. TasksOK'
    <3> DEFINE t == [task[r] EXCEPT !.pc = "fetch", !.fetched = {}]
    <3>1. t \in Task
      BY <1>0 DEF Task, ChainPc
    <3>2. task' = [task EXCEPT ![r] = t]
      BY <1>0, <1>12 DEF StoreRationale, TasksOK
    <3> QED BY <1>0, <1>12, <3>1, <3>2, TaskMove DEF StoreRationale, At, Task
  <2>2. task[r].fetched \subseteq Candidate
    BY <1>0 DEF Task
  <2> QED BY <1>0, <1>12, <2>1, <2>2 DEF StoreRationale, TablesOK
<1>13. CASE EndRationales(r)
  <2>1. TasksOK'
    <3> DEFINE t == [task[r] EXCEPT !.pc = "ended", !.picked = {}]
    <3>1. t \in Task
      BY <1>0 DEF Task, ChainPc
    <3>2. task' = [task EXCEPT ![r] = t]
      BY <1>0, <1>13 DEF EndRationales, TasksOK
    <3> QED BY <1>0, <1>13, <3>1, <3>2, TaskMove DEF EndRationales, At, Task
  <2> QED BY <1>0, <1>13, <2>1 DEF EndRationales, TablesOK
<1>14. CASE ConstructBatch(r)
  <2>1. PICK picked \in GreedyPicks(task[r].picked \cap candidates) :
            task' = [task EXCEPT ![r] =
                 IF Cardinality(picked) < BatchSize
                 THEN [task[r] EXCEPT !.pc = "undo", !.picked = {}]
                 ELSE [task[r] EXCEPT !.pc = "fill", !.picked = picked]]
    BY <1>0, <1>14 DEF ConstructBatch, TasksOK
  <2>2. picked \in SUBSET Candidate
    BY <1>0 DEF GreedyPicks, TablesOK
  <2>3. /\ [task[r] EXCEPT !.pc = "undo", !.picked = {}] \in Task
        /\ [task[r] EXCEPT !.pc = "fill", !.picked = picked] \in Task
        /\ task[r].batch \in Batches
    BY <1>0, <1>14, <2>2 DEF Task, ChainPc, ConstructBatch, At, TasksOK
  <2>4. TasksOK'
    BY <1>0, <2>1, <2>3, TaskUpdate DEF Task
  <2> QED BY <1>0, <1>14, <2>4 DEF ConstructBatch, TablesOK
<1>15. CASE LoseChain(r)
  <2> DEFINE t == [task[r] EXCEPT !.pc = "lost", !.batch = NoBatch, !.picked = {}, !.fetched = {}]
  <2>1. t \in Task
    BY <1>0 DEF Task, ChainPc
  <2>2. task' = [task EXCEPT ![r] = t]
    BY <1>0, <1>15 DEF LoseChain, TasksOK, Task
  <2>3. TasksOK'
    BY <1>0, <2>1, <2>2, TaskUpdate, NoneAssumption DEF Task
  <2> QED BY <1>0, <1>15, <2>3 DEF LoseChain, TablesOK
<1> QED
  BY <1>2, <1>3, <1>4, <1>5, <1>6, <1>7, <1>8, <1>9, <1>10, <1>11, <1>12, <1>13, <1>14, <1>15
  DEF ChainStep

LEMMA PathwayTypeStep ==
  ASSUME TypeOK, NEW r \in Requests, NEW p \in Pathways, PathwayStep(r, p) \/ LosePathway(r, p)
  PROVE  TypeOK'
<1> USE Frame DEF TypeOK
<1>0. TasksOK /\ RunsOK /\ TablesOK /\ run[r][p] \in PathwayTask
  BY DEF RunsOK
<1> USE NoneAssumption DEF PathwayTask, RunPc, NoRun, RunAt
<1>1. CASE StartPathway(r, p)
  <2>1. PICK names \in SUBSET Yield[p] :
            run' = [run EXCEPT ![r][p] = [pc |-> "names", todo |-> names, name |-> NoName]]
    BY <1>1 DEF StartPathway
  <2>2. RunsOK'
    BY <1>0, <2>1, RunUpdate, PathwayAssumption
  <2> QED BY <1>0, <1>1, <2>2 DEF StartPathway, TablesOK
<1>2. CASE CheckResults(r, p)
  <2>1. PICK n \in run[r][p].todo :
            run' = [run EXCEPT ![r][p] =
                IF n \in ResultNames
                THEN [pc |-> "names", todo |-> run[r][p].todo \ {n}, name |-> NoName]
                ELSE [pc |-> "insert", todo |-> run[r][p].todo \ {n}, name |-> n]]
    BY <1>0, <1>2 DEF CheckResults, RunsOK
  <2>2. RunsOK'
    BY <1>0, <2>1, RunUpdate
  <2> QED BY <1>0, <1>2, <2>2 DEF CheckResults, TablesOK
<1>3. CASE InsertCandidate(r, p)
  <2>1. run' = [run EXCEPT ![r][p] = [pc |-> "names", todo |-> run[r][p].todo, name |-> NoName]]
    BY <1>0, <1>3 DEF InsertCandidate, RunsOK
  <2>2. RunsOK'
    BY <1>0, <2>1, RunUpdate
  <2>3. run[r][p].name \in Names
    BY <1>0, <1>3 DEF InsertCandidate, RunsOK
  <2> QED BY <1>0, <1>3, <2>2, <2>3 DEF InsertCandidate, TablesOK, Candidate
<1>4. CASE FinishPathway(r, p)
  <2>1. \E pc \in {"done", "failed"} : run' = [run EXCEPT ![r][p] = [NoRun EXCEPT !.pc = pc]]
    BY <1>4 DEF FinishPathway
  <2>2. RunsOK'
    BY <1>0, <2>1, RunUpdate
  <2> QED BY <1>0, <1>4, <2>2 DEF FinishPathway, TablesOK
<1>5. CASE LosePathway(r, p)
  <2>1. RunsOK'
    BY <1>0, <1>5, RunUpdate DEF LosePathway
  <2> QED BY <1>0, <1>5, <2>1 DEF LosePathway, TablesOK
<1> QED BY <1>1, <1>2, <1>3, <1>4, <1>5 DEF PathwayStep

\* The tables and the tasks keep their types, whatever runs at the same time and is lost.
THEOREM TypeCorrect == Spec => []TypeOK
<1>1. TypeOK /\ [Next]_vars => TypeOK'
  <2> SUFFICES ASSUME TypeOK, [Next]_vars PROVE TypeOK'
    OBVIOUS
  <2>1. CASE UNCHANGED vars
    BY <2>1, Frame DEF vars, TypeOK, TablesOK
  <2> QED BY <2>1, ChainTypeStep, PathwayTypeStep DEF Next
<1> QED BY InitType, <1>1, PTL DEF Spec
=============================================================================
