----------------------- MODULE GameGeneration_proofs -----------------------
(* What holds of the games for every value of the constants. *)
EXTENDS GameGenerationProperties, FiniteSetTheorems, TLAPS

(***************************************************************************)
(* Types.  A step of a generation replaces the record of its task.         *)
(***************************************************************************)
TasksOK == task \in [Tasks -> Running \cup {Idle}]

LEMMA DatesFinite ==
  /\ IsFiniteSet(Dates) /\ Dates \subseteq Nat \ {0}
  /\ \A D \in SUBSET Dates : IsFiniteSet(D) /\ Cardinality(D) \in Nat
<1>1. IsFiniteSet(Dates)
  BY GamesAssumption, FS_Interval DEF Dates
<1>2. ASSUME NEW D \in SUBSET Dates PROVE IsFiniteSet(D) /\ Cardinality(D) \in Nat
  BY <1>1, FS_Subset, FS_CardinalityType
<1> QED BY <1>1, <1>2, GamesAssumption DEF Dates

LEMMA TaskUpdate ==
  ASSUME TasksOK, NEW t \in Tasks, NEW x \in Running \cup {Idle}, task' = [task EXCEPT ![t] = x]
  PROVE  TasksOK'
  BY DEF TasksOK

LEMMA TaskRuns ==
  ASSUME TypeOK, NEW t \in Tasks, At(t, "date") \/ At(t, "pick")
  PROVE  task[t] \in Running /\ Date(t) \in Dates
  BY DEF TypeOK, At, Date, Running, Idle

LEMMA BegunType ==
  ASSUME NEW t \in Tasks, task[t] \in Running, NEW d \in Dates, NEW n \in 0..(MaxAttempts - 1),
         NEW h \in 1..Threshold
  PROVE  Begun(t, d, n, h) \in Running
  BY DEF Running, Begun

\* A date of the range that is not the last has a next one in the calendar.
LEMMA NextDateType ==
  ASSUME TypeOK, NEW t \in Tasks, task[t] \in Running, NextDate(t)
  PROVE  TasksOK'
<1>1. CASE Date(t) < task[t].end
  <2>1. Date(t) + 1 \in Dates
    BY <1>1, GamesAssumption DEF Running, Dates, Date
  <2>2. 0 \in 0..(MaxAttempts - 1) /\ Threshold \in 1..Threshold
    BY GamesAssumption
  <2>3. Begun(t, Date(t) + 1, 0, Threshold) \in Running
    BY <2>1, <2>2, BegunType
  <2>4. task' = [task EXCEPT ![t] = Begun(t, Date(t) + 1, 0, Threshold)]
    BY <1>1 DEF NextDate
  <2> QED BY <2>3, <2>4, TaskUpdate DEF TypeOK, TasksOK
<1>2. CASE ~(Date(t) < task[t].end)
  BY <1>2, TaskUpdate DEF NextDate, TypeOK, TasksOK
<1> QED BY <1>1, <1>2

\* A further attempt has a threshold that is positive.
LEMMA FailAttemptType ==
  ASSUME TypeOK, NEW t \in Tasks, task[t] \in Running, FailAttempt(t)
  PROVE  TasksOK' /\ alerts' \subseteq Dates
<1> DEFINE next == Begun(t, Date(t), task[t].attempt + 1, NextThreshold(t))
<1>1. Date(t) \in Dates
  BY DEF Running, Date
<1>2. TasksOK'
  <2>1. CASE Again(t)
    <3>1. task[t].attempt + 1 \in 0..(MaxAttempts - 1) /\ NextThreshold(t) \in 1..Threshold
      BY <2>1, GamesAssumption DEF Running, Again, NextThreshold
    <3>2. next \in Running
      BY <1>1, <3>1, BegunType
    <3>3. task' = [task EXCEPT ![t] = next]
      BY <2>1 DEF FailAttempt, Failed
    <3> QED BY <3>2, <3>3, TaskUpdate DEF TypeOK, TasksOK
  <2>2. CASE ~Again(t)
    BY <2>2, TaskUpdate DEF FailAttempt, Failed, TypeOK, TasksOK
  <2> QED BY <2>1, <2>2
<1> QED BY <1>1, <1>2 DEF FailAttempt, TypeOK

LEMMA GamesInitType == Init => TypeOK
  BY GamesAssumption DEF Init, TypeOK

LEMMA GenerateType ==
  ASSUME TypeOK, NEW t \in Tasks, NEW from \in Dates, NEW to \in Dates, NEW override \in BOOLEAN,
         Generate(t, from, to, override)
  PROVE  TypeOK'
<1> DEFINE x == [Idle EXCEPT !.pc = "date", !.config = config, !.date = from, !.end = to,
                             !.override = override, !.threshold = Threshold]
<1>1. x \in Running
  <2>1. config \in Configs
    BY DEF Generate, TypeOK
  <2>2. 0 \in 0..(MaxAttempts - 1) /\ Threshold \in 1..Threshold
    BY GamesAssumption
  <2> QED BY <2>1, <2>2 DEF Running, Idle
<1>2. TasksOK'
  BY <1>1, TaskUpdate DEF Generate, TypeOK, TasksOK
<1> QED BY <1>2 DEF Generate, TypeOK, TasksOK, texts, usage

LEMMA BeginAttemptType ==
  ASSUME TypeOK, NEW t \in Tasks, BeginAttempt(t)
  PROVE  TypeOK'
<1>1. task[t] \in Running
  BY TaskRuns DEF BeginAttempt
<1>2. TasksOK'
  <2>1. CASE game[Date(t)] # {} /\ ~task[t].override
    BY <1>1, <2>1, NextDateType DEF BeginAttempt
  <2>2. CASE ~(game[Date(t)] # {} /\ ~task[t].override)
    <3> DEFINE x == [task[t] EXCEPT !.pc = "pick", !.old = game[Date(t)] \cap rows]
    <3>1. x \in Running
      BY <1>1 DEF TypeOK, Running
    <3>2. task' = [task EXCEPT ![t] = x]
      BY <2>2 DEF BeginAttempt, TypeOK
    <3> QED BY <3>1, <3>2, TaskUpdate DEF TypeOK, TasksOK
  <2> QED BY <2>1, <2>2
<1> QED BY <1>2 DEF BeginAttempt, TypeOK, TasksOK, texts, usage, bounds

LEMMA GenerateOptionType ==
  ASSUME TypeOK, NEW t \in Tasks, GenerateOption(t)
  PROVE  TypeOK'
<1>1. task[t] \in Running
  BY TaskRuns DEF GenerateOption
<1>2. TasksOK' /\ alerts' \subseteq Dates
  <2>1. ASSUME NEW r \in GameOptions(t, NextLevel(t)),
               task' = [task EXCEPT ![t].options = @ \cup {r}], UNCHANGED alerts
        PROVE  TasksOK' /\ alerts' \subseteq Dates
    <3> DEFINE x == [task[t] EXCEPT !.options = @ \cup {r}]
    <3>1. r \in Results
      BY DEF GameOptions, TypeOK
    <3>2. x \in Running
      BY <1>1, <3>1 DEF Running
    <3>3. task' = [task EXCEPT ![t] = x]
      BY <2>1 DEF TypeOK
    <3> QED BY <2>1, <3>2, <3>3, TaskUpdate DEF TypeOK, TasksOK
  <2>2. CASE FailAttempt(t)
    BY <1>1, <2>2, FailAttemptType
  <2> QED BY <2>1, <2>2 DEF GenerateOption
<1> QED BY <1>2 DEF GenerateOption, TypeOK, TasksOK, texts, usage, bounds

\* The counts are numbers, what a game that is put aside takes from them included.
LEMMA SeenType ==
  ASSUME TypeOK, NEW t \in Tasks, NEW r \in Results
  PROVE  LastSeen(t, r) \in Dates \cup {Never} /\ CountSeen(t, r) \in Nat
  BY DEF TypeOK, LastSeen, CountSeen, RevertedDate, RevertedCount

LEMMA CreateGameType ==
  ASSUME TypeOK, NEW t \in Tasks, CreateGame(t)
  PROVE  TypeOK'
<1>1. task[t] \in Running /\ Date(t) \in Dates /\ task[t].options \subseteq Results
  BY TaskRuns DEF CreateGame, Running
<1>2. CASE FailAttempt(t) /\ UNCHANGED <<usage, game>>
  BY <1>1, <1>2, FailAttemptType DEF CreateGame, TypeOK, TasksOK, texts, usage, bounds
<1>3. CASE /\ game' = [game EXCEPT ![Date(t)] = task[t].options]
           /\ UpdateUsage(t, task[t].options) /\ NextDate(t) /\ UNCHANGED alerts
  <2>1. TasksOK'
    BY <1>1, <1>3, NextDateType
  <2>2. last' \in [Results -> Dates \cup {Never}] /\ count' \in [Results -> Nat]
    BY <1>1, <1>3, SeenType DEF UpdateUsage
  <2>3. game' \in [Dates -> SUBSET Results]
    BY <1>1, <1>3 DEF TypeOK
  <2> QED BY <1>3, <2>1, <2>2, <2>3 DEF CreateGame, TypeOK, TasksOK, texts, bounds
<1> QED BY <1>2, <1>3 DEF CreateGame

LEMMA ChangeGamesType ==
  ASSUME TypeOK, ChangeGames
  PROVE  TypeOK'
<1>1. ASSUME NEW D \in SUBSET Dates, DeleteGames(D)
      PROVE  /\ rows' \subseteq Results /\ game' \in [Dates -> SUBSET Results]
             /\ last' \in [Results -> Dates \cup {Never}] /\ count' \in [Results -> Nat]
  <2>1. \A r \in Results : Times(r, D) \in Nat
    BY DatesFinite DEF Times
  <2>2. count' \in [Results -> Nat]
    BY <1>1, <2>1 DEF DeleteGames, TypeOK
  <2> QED BY <1>1, <2>2 DEF DeleteGames, TypeOK, RevertedDate
<1>2. ASSUME NEW d \in Dates, DeleteGame(d) \/ \E options \in SUBSET Results : EditGame(d, options)
      PROVE  /\ rows' \subseteq Results /\ game' \in [Dates -> SUBSET Results]
             /\ last' \in [Results -> Dates \cup {Never}] /\ count' \in [Results -> Nat]
  BY <1>2 DEF DeleteGame, EditGame, TypeOK, usage
<1>3. ASSUME NEW r \in Results, DeleteResult(r)
      PROVE  /\ rows' \subseteq Results /\ game' \in [Dates -> SUBSET Results]
             /\ last' \in [Results -> Dates \cup {Never}] /\ count' \in [Results -> Nat]
  BY <1>3 DEF DeleteResult, TypeOK, usage
<1>4. /\ rows' \subseteq Results /\ game' \in [Dates -> SUBSET Results]
      /\ last' \in [Results -> Dates \cup {Never}] /\ count' \in [Results -> Nat]
  BY <1>1, <1>2, <1>3 DEF ChangeGames
<1> QED BY <1>4 DEF ChangeGames, Change, TypeOK

LEMMA GamesStepType == TypeOK /\ [Next]_vars => TypeOK'
<1> SUFFICES ASSUME TypeOK, [Next]_vars PROVE TypeOK'
  OBVIOUS
<1>1. ASSUME NEW t \in Tasks, TaskStep(t) PROVE TypeOK'
  <2>1. CASE Raise(t)
    BY <2>1 DEF Raise, TypeOK, texts, usage, bounds
  <2> QED BY <1>1, <2>1, BeginAttemptType, GenerateOptionType, CreateGameType DEF TaskStep
<1>2. ASSUME NEW t \in Tasks, NEW from \in Dates, NEW to \in Dates,
             ScheduleGames(t, from, to) \/ GamesGenerationView(t, from, to)
      PROVE  TypeOK'
  BY <1>2, GenerateType DEF ScheduleGames, GamesGenerationView
<1>3. ASSUME NEW limit \in 1..2, BulkGenerate(limit) PROVE TypeOK'
  BY <1>3 DEF BulkGenerate, TypeOK, usage
<1>4. ASSUME NEW q \in Questionnaires, GenerateTexts(q) PROVE TypeOK'
  BY <1>4 DEF GenerateTexts, TypeOK, usage, bounds
<1>5. CASE TurnOffConfigs \/ \E c \in Configs : SaveConfig(c)
  BY <1>5 DEF TurnOffConfigs, SaveConfig, TypeOK, texts, usage, bounds
<1>6. CASE UNCHANGED vars
  BY <1>6 DEF vars, TypeOK, texts, usage, bounds
<1> QED BY <1>1, <1>2, <1>3, <1>4, <1>5, <1>6, ChangeGamesType DEF Next

\* A task has a threshold that is positive and no more attempts than the settings allow, however
\* the settings are chosen; the counts are never negative.
THEOREM GamesTypeCorrect == Spec => []TypeOK
  BY GamesInitType, GamesStepType, PTL DEF Spec
-----------------------------------------------------------------------------
(* That the games keep to the rules they are generated by: any number of *)
(* dates, results and attempts.                                          *)

(***************************************************************************)
(* What every step keeps: the tasks of other environments have nothing to  *)
(* do, results are deleted by careless administrators only, a task's       *)
(* threshold is the one of its attempt, and an attempt begins with nothing *)
(* chosen.                                                                 *)
(***************************************************************************)
OthersIdle  == \A t \in Tasks \ env.tasks : task[t] = Idle
RowsStay    == ~env.careless => rows = Results
InTime(x)   == x.pc # "idle" => x.threshold + x.attempt * Increment = Threshold
Fresh(x)    == x.pc # "pick" => x.options = {}
TaskKept(x) == InTime(x) /\ Fresh(x)
Base        == TypeOK /\ OthersIdle /\ RowsStay /\ \A t \in Tasks : TaskKept(task[t])

\* Steps that neither change a game nor a task.
Quiet == /\ UNCHANGED <<env, rows, last, count, game, task>>
         /\ rationaled \subseteq rationaled' /\ described \subseteq described'
Begins(t) == \E from, to \in Dates, override \in BOOLEAN :
                Generate(t, from, to, override) /\ (override => env.override)

LEMMA Steps ==
  ASSUME [Next]_vars
  PROVE  \/ \E t \in Tasks : TaskStep(t) \/ Begins(t)
         \/ ChangeGames \/ Quiet
<1>1. ASSUME NEW t \in Tasks, NEW from \in Dates, NEW to \in Dates,
             ScheduleGames(t, from, to) \/ GamesGenerationView(t, from, to)
      PROVE  Begins(t)
  BY <1>1 DEF ScheduleGames, GamesGenerationView, Begins
<1>2. ASSUME NEW limit \in 1..2, BulkGenerate(limit) PROVE Quiet
  BY <1>2 DEF BulkGenerate, Quiet, usage
<1>3. ASSUME NEW q \in Questionnaires, GenerateTexts(q) PROVE Quiet
  BY <1>3 DEF GenerateTexts, Quiet, usage
<1>4. CASE TurnOffConfigs \/ \E c \in Configs : SaveConfig(c)
  BY <1>4 DEF TurnOffConfigs, SaveConfig, Quiet, texts, usage
<1>5. CASE UNCHANGED vars
  BY <1>5 DEF vars, Quiet, texts, usage
<1> QED BY <1>1, <1>2, <1>3, <1>4, <1>5 DEF Next

\* A task's step is about one task, which is one of the environment's.
Replaces(t) == \A u \in Tasks \ {t} : task'[u] = task[u]

LEMMA StepOfOne ==
  ASSUME TypeOK, NEW t \in Tasks, TaskStep(t)
  PROVE  Replaces(t) /\ task[t] \in Running /\ UNCHANGED <<env, rows, rationaled, described>>
<1>1. CASE BeginAttempt(t)
  BY <1>1, TaskRuns DEF BeginAttempt, NextDate, Replaces, TypeOK, texts
<1>2. CASE GenerateOption(t)
  BY <1>2, TaskRuns DEF GenerateOption, FailAttempt, Failed, Replaces, TypeOK, texts
<1>3. CASE CreateGame(t)
  BY <1>3, TaskRuns DEF CreateGame, FailAttempt, Failed, NextDate, Replaces, TypeOK, texts
<1>4. CASE Raise(t)
  BY <1>4, TaskRuns DEF Raise, Replaces, TypeOK, texts
<1> QED BY <1>1, <1>2, <1>3, <1>4 DEF TaskStep

LEMMA RunsInEnv ==
  ASSUME OthersIdle, NEW t \in Tasks, task[t] \in Running
  PROVE  t \in env.tasks
  BY DEF OthersIdle, Running, Idle

\* The record that a task has after a step of it.
LEMMA NextDateRecord ==
  ASSUME TypeOK, NEW t \in Tasks, task[t] \in Running, NextDate(t)
  PROVE  \/ task'[t] = Idle
         \/ task'[t] = Begun(t, Date(t) + 1, 0, Threshold)
  BY DEF NextDate, TypeOK

LEMMA FailRecord ==
  ASSUME TypeOK, NEW t \in Tasks, task[t] \in Running, FailAttempt(t)
  PROVE  \/ task'[t] = Idle
         \/ task'[t] = Begun(t, Date(t), task[t].attempt + 1, NextThreshold(t))
  BY DEF FailAttempt, Failed, TypeOK

LEMMA BegunFields ==
  ASSUME NEW t \in Tasks, task[t] \in Running, NEW d, NEW n, NEW h
  PROVE  /\ Begun(t, d, n, h).pc = "date" /\ Begun(t, d, n, h).attempt = n
         /\ Begun(t, d, n, h).options = {}
         /\ Begun(t, d, n, h).threshold = h /\ Begun(t, d, n, h).override = task[t].override
  BY DEF Begun, Running

\* Begun or ended, a task has nothing chosen; otherwise it goes on with the same attempt.
SameAttempt(t) ==
  /\ task'[t].attempt = task[t].attempt /\ task'[t].threshold = task[t].threshold
  /\ task'[t].date = task[t].date /\ task'[t].config = task[t].config
  /\ task'[t].override = task[t].override
Restarted(t) ==
  /\ task'[t].pc # "pick" /\ task'[t].options = {} /\ InTime(task'[t])
  /\ task'[t].override => task[t].override

LEMMA RestartRecords ==
  ASSUME TypeOK, NEW t \in Tasks, task[t] \in Running, InTime(task[t]),
         NextDate(t) \/ FailAttempt(t)
  PROVE  Restarted(t)
<1>1. task[t].threshold \in Int /\ task[t].attempt \in Int /\ task[t].pc # "idle"
  BY DEF Running
<1>2. CASE task'[t] = Idle
  BY <1>2 DEF Idle, Restarted, InTime
<1>3. CASE NextDate(t)
  <2>1. CASE task'[t] = Begun(t, Date(t) + 1, 0, Threshold)
    BY <2>1, BegunFields, GamesAssumption DEF Restarted, InTime
  <2> QED BY <1>2, <1>3, <2>1, NextDateRecord
<1>4. CASE FailAttempt(t)
  <2>1. CASE task'[t] = Begun(t, Date(t), task[t].attempt + 1, NextThreshold(t))
    <3>1. NextThreshold(t) + (task[t].attempt + 1) * Increment = Threshold
      BY <1>1, GamesAssumption DEF InTime, NextThreshold
    <3> QED BY <2>1, <3>1, BegunFields DEF Restarted, InTime
  <2> QED BY <1>2, <1>4, <2>1, FailRecord
<1> QED BY <1>3, <1>4

LEMMA BeginRecord ==
  ASSUME TypeOK, NEW t \in Tasks, InTime(task[t]), BeginAttempt(t)
  PROVE  \/ NextDate(t) /\ Restarted(t)
         \/ /\ SameAttempt(t) /\ task'[t].pc = "pick" /\ task'[t].options = task[t].options
            /\ task'[t].old = game[Date(t)] \cap rows
            /\ task[t].override \/ game[Date(t)] = {}
<1>1. task[t] \in Running
  BY TaskRuns DEF BeginAttempt
<1> QED BY <1>1, RestartRecords DEF BeginAttempt, SameAttempt, TypeOK, Running

LEMMA OptionRecord ==
  ASSUME TypeOK, NEW t \in Tasks, InTime(task[t]), GenerateOption(t)
  PROVE  \/ FailAttempt(t) /\ Restarted(t)
         \/ /\ SameAttempt(t) /\ task'[t].pc = "pick" /\ task'[t].old = task[t].old
            /\ \E r \in GameOptions(t, NextLevel(t)) : task'[t].options = task[t].options \cup {r}
<1>1. task[t] \in Running
  BY TaskRuns DEF GenerateOption
<1>2. ASSUME NEW r \in GameOptions(t, NextLevel(t)), task' = [task EXCEPT ![t].options = @ \cup {r}]
      PROVE  /\ SameAttempt(t) /\ task'[t].pc = "pick" /\ task'[t].old = task[t].old
             /\ task'[t].options = task[t].options \cup {r}
  BY <1>1, <1>2 DEF SameAttempt, TypeOK, Running, GenerateOption, At
<1> QED BY <1>1, <1>2, RestartRecords DEF GenerateOption

LEMMA CreateRecord ==
  ASSUME TypeOK, NEW t \in Tasks, InTime(task[t]), CreateGame(t)
  PROVE  Restarted(t)
<1>1. task[t] \in Running
  BY TaskRuns DEF CreateGame
<1> QED BY <1>1, RestartRecords DEF CreateGame

LEMMA BeginsRecord ==
  ASSUME TypeOK, NEW t \in Tasks, Begins(t)
  PROVE  /\ Replaces(t) /\ t \in env.tasks /\ UNCHANGED <<env, rows, rationaled, described, last, count, game>>
         /\ task'[t].pc = "date" /\ task'[t].options = {} /\ InTime(task'[t])
         /\ task'[t].override => env.override
<1>1. PICK from \in Dates, to \in Dates, override \in BOOLEAN :
        Generate(t, from, to, override) /\ (override => env.override)
  BY DEF Begins
<1>2. task'[t] = [Idle EXCEPT !.pc = "date", !.config = config, !.date = from,
                              !.end = to, !.override = override, !.threshold = Threshold]
  BY <1>1 DEF Generate, TypeOK
<1>3. InTime(task'[t])
  BY <1>2, GamesAssumption DEF InTime, Idle
<1> QED BY <1>1, <1>2, <1>3 DEF Generate, Replaces, TypeOK, texts, usage, Idle

LEMMA ChangesKeep ==
  ASSUME TypeOK, ChangeGames
  PROVE  UNCHANGED <<env, task>> /\ (RowsStay => RowsStay') /\ \A t \in Tasks : task[t] = Idle
  BY DEF ChangeGames, Change, DeleteGames, DeleteGame, EditGame, DeleteResult, RowsStay

LEMMA BaseInit == Init => Base
<1>1. Init => \A t \in Tasks : task[t] = Idle
  BY DEF Init
<1>2. TaskKept(Idle)
  BY DEF TaskKept, InTime, Fresh, Idle
<1>3. Init => RowsStay
  BY DEF Init, RowsStay
<1> QED BY <1>1, <1>2, <1>3, GamesInitType DEF Base, OthersIdle

LEMMA BaseStep == Base /\ [Next]_vars => Base'
<1> SUFFICES ASSUME Base, [Next]_vars PROVE Base'
  OBVIOUS
<1>0. TypeOK /\ TypeOK'
  BY GamesStepType DEF Base
<1>1. ASSUME NEW t \in Tasks, TaskStep(t) PROVE Base'
  <2>1. Replaces(t) /\ t \in env.tasks /\ UNCHANGED <<env, rows>>
    BY <1>0, <1>1, StepOfOne, RunsInEnv DEF Base
  <2>2. TaskKept(task'[t])
    <3>1. CASE BeginAttempt(t)
      BY <1>0, <3>1, BeginRecord DEF Base, TaskKept, Restarted, InTime, Fresh, SameAttempt, BeginAttempt, At
    <3>2. CASE GenerateOption(t)
      BY <1>0, <3>2, OptionRecord DEF Base, TaskKept, Restarted, InTime, Fresh, SameAttempt, GenerateOption, At
    <3>3. CASE CreateGame(t)
      BY <1>0, <3>3, CreateRecord DEF Base, TaskKept, Restarted, Fresh
    <3>4. CASE Raise(t)
      BY <1>0, <3>4 DEF Raise, TaskKept, InTime, Fresh, Idle, TypeOK
    <3> QED BY <1>1, <3>1, <3>2, <3>3, <3>4 DEF TaskStep
  <2> QED BY <1>0, <2>1, <2>2 DEF Base, OthersIdle, RowsStay, Replaces
<1>2. ASSUME NEW t \in Tasks, Begins(t) PROVE Base'
  <2>1. TaskKept(task'[t])
    BY <1>0, <1>2, BeginsRecord DEF TaskKept, Fresh
  <2> QED BY <1>0, <1>2, <2>1, BeginsRecord DEF Base, OthersIdle, RowsStay, Replaces
<1>3. CASE ChangeGames
  BY <1>0, <1>3, ChangesKeep DEF Base, OthersIdle
<1>4. CASE Quiet
  BY <1>0, <1>4 DEF Quiet, Base, OthersIdle, RowsStay
<1> QED BY <1>1, <1>2, <1>3, <1>4, Steps

(***************************************************************************)
(* NoReuse: the last date of an option is not before any of its games, so  *)
(* an option that was not used since the threshold has no game since then. *)
(***************************************************************************)
Careful == Sole /\ ~env.override /\ env.deletes # "action" /\ ~env.careless

NotSince(x, r) == last[r] = Never \/ last[r] < x.date - x.threshold
FreshOptions(t) ==
  task[t].pc = "pick" => task[t].old = {} /\ \A r \in task[t].options : NotSince(task[t], r)
LastIsLast == \A d \in Dates : \A r \in game[d] : d <= last[r]
FarApart   == \A d, e \in Dates : d < e /\ game[d] \cap game[e] # {} => \E n \in Thresholds : e - d > n

ReuseInv ==
  /\ Base
  /\ Careful => /\ LastIsLast /\ FarApart
                /\ \A t \in Tasks : ~task[t].override /\ FreshOptions(t)

LEMMA ReuseInit == Init => ReuseInv
<1>1. Init => \A t \in Tasks : ~task[t].override /\ FreshOptions(t)
  BY DEF Init, FreshOptions, Idle
<1>2. Init => LastIsLast /\ FarApart
  BY DEF Init, LastIsLast, FarApart
<1> QED BY <1>1, <1>2, BaseInit DEF ReuseInv

\* The threshold of an attempt is one of those that the settings give.
LEMMA ThresholdOfTask ==
  ASSUME TypeOK, NEW t \in Tasks, task[t] \in Running, InTime(task[t])
  PROVE  task[t].threshold \in Thresholds
<1>1. /\ task[t].threshold \in 1..Threshold /\ task[t].attempt \in 0..(MaxAttempts - 1)
      /\ task[t].threshold = Threshold - task[t].attempt * Increment
  BY GamesAssumption DEF Running, InTime
<1> QED BY <1>1 DEF Thresholds

\* One task at most is under way.
LEMMA OnlyOne ==
  ASSUME Base, Sole, NEW t \in Tasks, task[t] \in Running, NEW u \in Tasks \ {t}
  PROVE  task[u] = Idle
  BY RunsInEnv DEF Base, OthersIdle, Sole

LEMMA ReuseCreate ==
  ASSUME ReuseInv, Careful, NEW t \in Tasks, CreateGame(t)
  PROVE  LastIsLast' /\ FarApart'
<1>1. /\ task[t] \in Running /\ Date(t) \in Dates /\ InTime(task[t]) /\ TypeOK
      /\ task[t].old = {} /\ \A r \in task[t].options : NotSince(task[t], r)
  BY TaskRuns DEF CreateGame, ReuseInv, Base, FreshOptions, At, TaskKept
<1>2. CASE UNCHANGED <<usage, game>>
  BY <1>2 DEF usage, ReuseInv, LastIsLast, FarApart, Thresholds
<1>3. CASE game' = [game EXCEPT ![Date(t)] = task[t].options] /\ UpdateUsage(t, task[t].options)
  <2>1. \A d \in Dates : game'[d] = IF d = Date(t) THEN task[t].options ELSE game[d]
    BY <1>3 DEF ReuseInv, Base, TypeOK
  <2>2. \A r \in Results : last'[r] = IF r \in task[t].options THEN Date(t) ELSE last[r]
    BY <1>1, <1>3 DEF UpdateUsage, LastSeen
  <2>3. \A d \in Dates : d \in Nat \ {0} /\ game[d] \subseteq Results
    BY <1>1, DatesFinite DEF TypeOK
  <2>4. task[t].options \subseteq Results /\ \A r \in Results : last[r] \in Nat
    <3>1. task[t].options \subseteq Results
      BY <1>1 DEF Running
    <3>2. \A r \in Results : last[r] \in Dates \cup {Never}
      BY <1>1 DEF TypeOK
    <3> QED BY <3>1, <3>2, <2>3 DEF Never
  <2>5. task[t].threshold \in Nat /\ Date(t) \in Nat
    <3>1. task[t].threshold \in 1..Threshold
      BY <1>1 DEF Running
    <3> QED BY <1>1, <2>3, <3>1, GamesAssumption
  <2>6. ASSUME NEW d \in Dates, NEW r \in game[d], r \in task[t].options
        PROVE  Date(t) - d > task[t].threshold
    <3>1. d <= last[r] /\ last[r] \in Nat
      BY <2>3, <2>4 DEF ReuseInv, LastIsLast
    <3>2. last[r] < Date(t) - task[t].threshold
      BY <1>1, <2>3, <2>6, <3>1 DEF NotSince, Never, Date
    <3> QED BY <2>3, <2>5, <3>1, <3>2
  <2>7. LastIsLast'
    <3> SUFFICES ASSUME NEW d \in Dates, NEW r \in game'[d] PROVE d <= last'[r]
      BY DEF LastIsLast
    <3>1. CASE d = Date(t)
      BY <2>1, <2>2, <2>3, <2>4, <3>1
    <3>2. CASE d # Date(t)
      <4>1. r \in game[d] /\ d <= last[r] /\ r \in Results
        BY <2>1, <2>3, <3>2 DEF ReuseInv, LastIsLast
      <4>2. CASE r \in task[t].options
        BY <2>2, <2>3, <2>5, <2>6, <4>1, <4>2
      <4>3. CASE r \notin task[t].options
        BY <2>2, <4>1, <4>3
      <4> QED BY <4>2, <4>3
    <3> QED BY <3>1, <3>2
  <2>8. FarApart'
    <3> SUFFICES ASSUME NEW d \in Dates, NEW e \in Dates, d < e, game'[d] \cap game'[e] # {}
                 PROVE  \E n \in Thresholds : e - d > n
      BY DEF FarApart, Thresholds
    <3>1. PICK r : r \in game'[d] /\ r \in game'[e]
      OBVIOUS
    <3>2. CASE d # Date(t) /\ e # Date(t)
      BY <2>1, <3>2 DEF ReuseInv, FarApart
    <3>3. CASE d = Date(t)
      <4>1. r \in game[e] /\ r \in task[t].options
        BY <2>1, <2>3, <3>1, <3>3
      <4> QED BY <2>3, <2>5, <2>6, <3>3, <4>1
    <3>4. CASE e = Date(t)
      <4>1. r \in game[d] /\ r \in task[t].options
        BY <2>1, <2>3, <3>1, <3>4
      <4> QED BY <1>1, <2>6, <3>4, <4>1, ThresholdOfTask
    <3> QED BY <3>2, <3>3, <3>4
  <2> QED BY <2>7, <2>8
<1> QED BY <1>2, <1>3 DEF CreateGame

\* An option that is chosen was not used since the threshold.
LEMMA ReuseOption ==
  ASSUME ReuseInv, Careful, NEW t \in Tasks, GenerateOption(t)
  PROVE  FreshOptions(t)' /\ ~task'[t].override
<1>1. /\ TypeOK /\ InTime(task[t]) /\ ~task[t].override
      /\ task[t].old = {} /\ \A r \in task[t].options : NotSince(task[t], r)
  BY DEF GenerateOption, ReuseInv, Base, FreshOptions, At, TaskKept
<1>2. CASE Restarted(t)
  BY <1>1, <1>2 DEF Restarted, FreshOptions
<1>3. ASSUME SameAttempt(t), task'[t].old = task[t].old, NEW r \in GameOptions(t, NextLevel(t)),
             task'[t].options = task[t].options \cup {r}
      PROVE  FreshOptions(t)' /\ ~task'[t].override
  <2>1. NotSince(task[t], r)
    BY <1>1, <1>3 DEF GameOptions, NotUsed, LastSeen, NotSince, Date
  <2>2. last' = last
    BY DEF GenerateOption, usage
  <2>3. \A x \in task'[t].options : NotSince(task[t], x)'
    BY <1>1, <1>3, <2>1, <2>2 DEF SameAttempt, NotSince
  <2> QED BY <1>1, <1>3, <2>3 DEF FreshOptions, SameAttempt
<1> QED BY <1>1, <1>2, <1>3, OptionRecord

LEMMA ReuseStep == ReuseInv /\ [Next]_vars => ReuseInv'
<1> SUFFICES ASSUME ReuseInv, [Next]_vars, Careful' PROVE ReuseInv'
  BY BaseStep DEF ReuseInv
<1>0. Base /\ Base' /\ TypeOK
  BY BaseStep DEF ReuseInv, Base
<1>1. ASSUME NEW t \in Tasks, TaskStep(t) PROVE ReuseInv'
  <2>1. Replaces(t) /\ t \in env.tasks /\ task[t] \in Running /\ UNCHANGED env
    BY <1>0, <1>1, StepOfOne, RunsInEnv DEF Base
  <2>2. Careful
    BY <2>1 DEF Careful, Sole
  <2>3. \A u \in Tasks \ {t} : ~task'[u].override /\ FreshOptions(u)'
    BY <1>0, <2>1, <2>2, OnlyOne DEF Careful, Replaces, FreshOptions, Idle
  <2>4. CASE BeginAttempt(t)
    <3>1. UNCHANGED <<last, game>> /\ ~task[t].override
      BY <2>2, <2>4 DEF BeginAttempt, usage, ReuseInv
    <3>2. ~task'[t].override /\ FreshOptions(t)'
      <4>1. InTime(task[t]) /\ Fresh(task[t]) /\ task[t].pc = "date"
        BY <1>0, <2>4 DEF BeginAttempt, At, Base, TaskKept
      <4> QED BY <1>0, <2>4, <3>1, <4>1, BeginRecord DEF Restarted, FreshOptions, SameAttempt, Fresh
    <3> QED BY <1>0, <2>2, <2>3, <3>1, <3>2 DEF ReuseInv, LastIsLast, FarApart, Thresholds
  <2>5. CASE GenerateOption(t)
    BY <1>0, <2>2, <2>3, <2>5, ReuseOption DEF ReuseInv, LastIsLast, FarApart, Thresholds, GenerateOption, usage
  <2>6. CASE CreateGame(t)
    <3>1. ~task'[t].override /\ FreshOptions(t)'
      BY <1>0, <2>2, <2>6, CreateRecord DEF ReuseInv, Base, TaskKept, Restarted, FreshOptions
    <3> QED BY <1>0, <2>2, <2>3, <2>6, <3>1, ReuseCreate DEF ReuseInv
  <2>7. CASE Raise(t)
    BY <1>0, <2>2, <2>3, <2>7 DEF Raise, ReuseInv, TypeOK, Idle, FreshOptions, LastIsLast, FarApart, Thresholds, usage
  <2> QED BY <1>1, <2>4, <2>5, <2>6, <2>7 DEF TaskStep
<1>2. ASSUME NEW t \in Tasks, Begins(t) PROVE ReuseInv'
  <2>1. /\ Replaces(t) /\ t \in env.tasks /\ UNCHANGED <<env, last, count, game>> /\ task'[t].pc = "date"
        /\ task'[t].override => env.override
    BY <1>0, <1>2, BeginsRecord
  <2>2. Careful
    BY <2>1 DEF Careful, Sole
  <2>3. ~task'[t].override /\ FreshOptions(t)'
    BY <2>1, <2>2 DEF Careful, FreshOptions
  <2>4. \A u \in Tasks \ {t} : ~task'[u].override /\ FreshOptions(u)'
    BY <2>1, <2>2 DEF ReuseInv, Replaces, FreshOptions, NotSince
  <2> QED BY <1>0, <2>1, <2>2, <2>3, <2>4 DEF ReuseInv, LastIsLast, FarApart, Thresholds
<1>3. CASE ChangeGames
  <2>1. UNCHANGED <<env, task>> /\ \A t \in Tasks : task[t] = Idle
    BY <1>0, <1>3, ChangesKeep
  <2>2. Careful
    BY <2>1 DEF Careful, Sole
  <2>3. UNCHANGED last /\ \A d \in Dates : game'[d] \subseteq game[d]
    BY <1>0, <1>3, <2>2 DEF Careful, ChangeGames, DeleteGames, DeleteGame, EditGame, DeleteResult, TypeOK, usage
  <2>4. LastIsLast' /\ FarApart'
    BY <2>2, <2>3 DEF ReuseInv, LastIsLast, FarApart, Thresholds
  <2> QED BY <1>0, <2>1, <2>4 DEF ReuseInv, FreshOptions, Idle
<1>4. CASE Quiet
  <2>1. Careful
    BY <1>4 DEF Careful, Sole, Quiet
  <2> QED BY <1>0, <1>4, <2>1 DEF Quiet, ReuseInv, LastIsLast, FarApart, Thresholds, FreshOptions, NotSince
<1> QED BY <1>1, <1>2, <1>3, <1>4, Steps

\* Whatever the number of attempts, their times and the dates that were generated before, in any
\* order, a name does not come up again within the time of an attempt.
THEOREM NamesNotReused == Spec => []NoReuse
<1>1. ReuseInv => NoReuse
  BY DEF ReuseInv, NoReuse, Careful, FarApart
<1> QED BY <1>1, ReuseInit, ReuseStep, PTL DEF Spec

(***************************************************************************)
(* UsageCounted: the options put aside at an attempt are all those of the  *)
(* game that it replaces.                                                  *)
(***************************************************************************)
Counting == Sole /\ env.deletes # "single" /\ ~env.careless

Uses(r)    == {d \in Dates : r \in game[d]}
Counts     == \A r \in Results : count[r] = Cardinality(Uses(r))
AllAside(t) == task[t].pc = "pick" => task[t].old = game[task[t].date]

CountInv == Base /\ (Counting => Counts /\ \A t \in Tasks : AllAside(t))

LEMMA CountInit == Init => CountInv
<1>1. Init => \A t \in Tasks : AllAside(t)
  BY DEF Init, AllAside, Idle
<1>2. ASSUME Init PROVE Counts
  <2>1. \A r \in Results : Uses(r) = {}
    BY <1>2 DEF Init, Uses
  <2> QED BY <1>2, <2>1, FS_EmptySet DEF Init, Counts
<1> QED BY <1>1, <1>2, BaseInit DEF CountInv

\* What taking a date out of a set of dates, and putting it in, does to their number.
LEMMA DateOutAndIn ==
  ASSUME NEW D \in SUBSET Dates, NEW d \in Dates
  PROVE  /\ Cardinality(D \ {d}) = IF d \in D THEN Cardinality(D) - 1 ELSE Cardinality(D)
         /\ d \in D => Cardinality(D) > 0
         /\ Cardinality(D \cup {d}) = Cardinality(D \ {d}) + 1
<1>1. IsFiniteSet(D) /\ IsFiniteSet(D \ {d}) /\ Cardinality(D) \in Nat /\ Cardinality(D \ {d}) \in Nat
  <2>1. D \ {d} \in SUBSET Dates
    OBVIOUS
  <2> QED BY <2>1, DatesFinite
<1>2. Cardinality(D \ {d}) = IF d \in D THEN Cardinality(D) - 1 ELSE Cardinality(D)
  BY <1>1, FS_RemoveElement
<1>3. Cardinality(D \cup {d}) = IF d \in D THEN Cardinality(D) ELSE Cardinality(D) + 1
  BY <1>1, FS_AddElement
<1>4. d \in D => Cardinality(D) > 0
  BY <1>1, <1>2
<1>5. Cardinality(D \cup {d}) = Cardinality(D \ {d}) + 1
  BY <1>1, <1>2, <1>3
<1> QED BY <1>2, <1>4, <1>5

LEMMA CountCreate ==
  ASSUME CountInv, Counting, NEW t \in Tasks, CreateGame(t)
  PROVE  Counts'
<1>1. /\ TypeOK /\ task[t] \in Running /\ Date(t) \in Dates
      /\ Counts /\ task[t].old = game[Date(t)]
  BY TaskRuns DEF CreateGame, CountInv, Base, AllAside, At, Date
<1>2. CASE UNCHANGED <<usage, game>>
  BY <1>1, <1>2 DEF usage, Counts, Uses
<1>3. CASE game' = [game EXCEPT ![Date(t)] = task[t].options] /\ UpdateUsage(t, task[t].options)
  <2> SUFFICES ASSUME NEW r \in Results PROVE count'[r] = Cardinality(Uses(r)')
    BY DEF Counts
  <2> DEFINE D == Uses(r)
  <2>1. D \in SUBSET Dates /\ (Date(t) \in D <=> r \in task[t].old) /\ count[r] = Cardinality(D)
    BY <1>1 DEF Uses, Counts
  <2>2. Uses(r)' = IF r \in task[t].options THEN D \cup {Date(t)} ELSE D \ {Date(t)}
    BY <1>1, <1>3 DEF Uses, TypeOK
  <2>3. count'[r] = IF r \in task[t].options THEN CountSeen(t, r) + 1 ELSE CountSeen(t, r)
    BY <1>3 DEF UpdateUsage
  <2>4. CountSeen(t, r) = Cardinality(D \ {Date(t)})
    <3>1. CountSeen(t, r) = IF Date(t) \in D THEN IF count[r] > 0 THEN count[r] - 1 ELSE 0 ELSE count[r]
      BY <2>1 DEF CountSeen, RevertedCount
    <3>2. /\ Cardinality(D \ {Date(t)}) = IF Date(t) \in D THEN Cardinality(D) - 1 ELSE Cardinality(D)
          /\ Date(t) \in D => Cardinality(D) > 0
      BY <1>1, <2>1, DateOutAndIn
    <3> HIDE DEF D
    <3> QED BY <2>1, <3>1, <3>2
  <2>5. Cardinality(D \cup {Date(t)}) = Cardinality(D \ {Date(t)}) + 1
    BY <1>1, <2>1, DateOutAndIn
  <2> HIDE DEF D
  <2> QED BY <2>2, <2>3, <2>4, <2>5
<1> QED BY <1>2, <1>3 DEF CreateGame

LEMMA CountDelete ==
  ASSUME CountInv, Counting, ChangeGames
  PROVE  Counts'
<1>1. TypeOK /\ Counts
  BY DEF CountInv, Base
<1>2. CASE UNCHANGED <<usage, game>>
  BY <1>1, <1>2 DEF usage, Counts, Uses
<1>3. ASSUME NEW D \in SUBSET Dates, DeleteGames(D) PROVE Counts'
  <2> SUFFICES ASSUME NEW r \in Results PROVE count'[r] = Cardinality(Uses(r)')
    BY DEF Counts
  <2> DEFINE A == Uses(r)
             B == {d \in D : r \in game[d]}
  <2>1. A \in SUBSET Dates /\ B \in SUBSET Dates /\ A \cap B = B /\ count[r] = Cardinality(A)
    BY <1>1 DEF Uses, Counts
  <2>2. Uses(r)' = A \ B
    BY <1>3, <2>1 DEF Uses, DeleteGames
  <2>3. IsFiniteSet(A) /\ IsFiniteSet(A \cap B) /\ Cardinality(A) \in Nat /\ Cardinality(B) \in Nat
    BY <2>1, DatesFinite
  <2>4. /\ Cardinality(A \ B) = Cardinality(A) - Cardinality(B)
        /\ Cardinality(A \ B) \in Nat
    <3>1. Cardinality(A \ B) = Cardinality(A) - Cardinality(A \cap B)
      BY <2>3, FS_Difference
    <3>2. A \ B \in SUBSET Dates
      BY <2>1
    <3> HIDE DEF A, B
    <3> QED BY <2>1, <3>1, <3>2, DatesFinite
  <2>5. count'[r] = IF count[r] > Cardinality(B) THEN count[r] - Cardinality(B) ELSE 0
    BY <1>3 DEF DeleteGames, Times
  <2> HIDE DEF A, B
  <2> QED BY <2>1, <2>2, <2>3, <2>4, <2>5
<1> QED BY <1>2, <1>3 DEF ChangeGames, DeleteGame, EditGame, DeleteResult, Counting

LEMMA CountStep == CountInv /\ [Next]_vars => CountInv'
<1> SUFFICES ASSUME CountInv, [Next]_vars, Counting' PROVE CountInv'
  BY BaseStep DEF CountInv
<1>0. Base /\ Base' /\ TypeOK
  BY BaseStep DEF CountInv, Base
<1>1. ASSUME NEW t \in Tasks, TaskStep(t) PROVE CountInv'
  <2>1. /\ Replaces(t) /\ t \in env.tasks /\ task[t] \in Running /\ UNCHANGED <<env, rows>>
        /\ TaskKept(task[t])
    BY <1>0, <1>1, StepOfOne, RunsInEnv DEF Base
  <2>2. Counting /\ Counts /\ \A u \in Tasks : AllAside(u)
    BY <2>1 DEF Counting, Sole, CountInv
  <2>3. \A u \in Tasks \ {t} : AllAside(u)'
    BY <1>0, <2>1, <2>2, OnlyOne DEF Counting, Replaces, AllAside, Idle
  <2>4. CASE BeginAttempt(t)
    <3>1. UNCHANGED <<count, game>>
      BY <2>4 DEF BeginAttempt, usage
    <3>2. Counts'
      BY <2>2, <3>1 DEF Counts, Uses
    <3>3. game[Date(t)] \cap rows = game[Date(t)]
      BY <1>0, <2>2, <2>4, TaskRuns DEF Counting, Base, RowsStay, TypeOK, BeginAttempt
    <3>4. AllAside(t)'
      BY <1>0, <2>1, <2>4, <3>1, <3>3, BeginRecord DEF TaskKept, Restarted, AllAside, SameAttempt, Date
    <3> QED BY <1>0, <2>3, <3>2, <3>4 DEF CountInv
  <2>5. CASE GenerateOption(t)
    <3>1. UNCHANGED <<count, game>> /\ task[t].pc = "pick"
      BY <2>5 DEF GenerateOption, usage, At
    <3>2. Counts'
      BY <2>2, <3>1 DEF Counts, Uses
    <3>3. AllAside(t)'
      BY <1>0, <2>1, <2>2, <2>5, <3>1, OptionRecord DEF TaskKept, Restarted, AllAside, SameAttempt
    <3> QED BY <1>0, <2>3, <3>2, <3>3 DEF CountInv
  <2>6. CASE CreateGame(t)
    <3>1. AllAside(t)'
      BY <1>0, <2>1, <2>6, CreateRecord DEF TaskKept, Restarted, AllAside
    <3> QED BY <1>0, <2>2, <2>3, <2>6, <3>1, CountCreate DEF CountInv
  <2>7. CASE Raise(t)
    <3>1. UNCHANGED <<count, game>>
      BY <2>7 DEF Raise, usage
    <3>2. Counts'
      BY <2>2, <3>1 DEF Counts, Uses
    <3>3. AllAside(t)'
      BY <1>0, <2>7 DEF Raise, TypeOK, AllAside, Idle
    <3> QED BY <1>0, <2>3, <3>2, <3>3 DEF CountInv
  <2> QED BY <1>1, <2>4, <2>5, <2>6, <2>7 DEF TaskStep
<1>2. ASSUME NEW t \in Tasks, Begins(t) PROVE CountInv'
  <2>1. Replaces(t) /\ UNCHANGED <<env, count, game>> /\ task'[t].pc = "date"
    BY <1>0, <1>2, BeginsRecord
  <2>2. Counting /\ Counts /\ \A u \in Tasks : AllAside(u)
    BY <2>1 DEF Counting, Sole, CountInv
  <2>3. Counts'
    BY <2>1, <2>2 DEF Counts, Uses
  <2>4. \A u \in Tasks : AllAside(u)'
    BY <2>1, <2>2 DEF AllAside, Replaces
  <2> QED BY <1>0, <2>3, <2>4 DEF CountInv
<1>3. CASE ChangeGames
  <2>1. UNCHANGED <<env, task>> /\ \A t \in Tasks : task[t] = Idle
    BY <1>0, <1>3, ChangesKeep
  <2>2. Counting
    BY <2>1 DEF Counting, Sole
  <2>3. \A t \in Tasks : AllAside(t)'
    BY <2>1 DEF AllAside, Idle
  <2> QED BY <1>0, <1>3, <2>2, <2>3, CountDelete DEF CountInv
<1>4. CASE Quiet
  <2>1. Counting
    BY <1>4 DEF Counting, Sole, Quiet
  <2>2. Counts' /\ \A t \in Tasks : AllAside(t)'
    BY <1>4, <2>1 DEF Quiet, CountInv, Counts, Uses, AllAside
  <2> QED BY <1>0, <2>2 DEF CountInv
<1> QED BY <1>1, <1>2, <1>3, <1>4, Steps

\* The numbers of uses are right, whatever games were put aside, generated again and deleted
\* with their options reverted.
THEOREM UsesCounted == Spec => []UsageCounted
<1>1. CountInv => UsageCounted
  BY DEF CountInv, UsageCounted, Counting, Counts, Uses
<1> QED BY <1>1, CountInit, CountStep, PTL DEF Spec

(***************************************************************************)
(* GamesWellFormed: what an attempt has chosen is filled up level by level *)
(* and has no questionnaire twice, whatever the other generations do.      *)
(***************************************************************************)
Low(options)      == {r \in options : Level[r] = 1}
Different(options) == \A r, s \in options : QuestionnaireOf[r] = QuestionnaireOf[s] => r = s
Filled(options, n) ==
  /\ IsFiniteSet(options) /\ Cardinality(options) <= NumberOfOptions
  /\ Cardinality(options) <= n => Low(options) = options
  /\ Cardinality(options) > n => Cardinality(Low(options)) = n
ChosenOK(x)   == x.pc = "pick" => Filled(x.options, x.config[1]) /\ Different(x.options)

Complete(options) ==
  /\ IsFiniteSet(options) /\ Cardinality(options) = NumberOfOptions
  /\ \E c \in Configs : Cardinality(Low(options)) = c[1]
  /\ Different(options) /\ Valid(options)
GamesComplete == \A d \in Dates : game[d] # {} => Complete(game[d])

FormInv == Base /\ (~env.careless => GamesComplete /\ \A t \in Tasks : ChosenOK(task[t]))

LEMMA FormInit == Init => FormInv
<1>1. Init => \A t \in Tasks : ChosenOK(task[t])
  BY DEF Init, ChosenOK, Idle
<1>2. Init => GamesComplete
  BY DEF Init, GamesComplete
<1> QED BY <1>1, <1>2, BaseInit DEF FormInv

LEMMA ConfigOf ==
  ASSUME NEW x \in Running
  PROVE  /\ x.config \in Configs /\ x.config[1] \in Nat /\ x.config[2] \in Nat
         /\ x.config[1] + x.config[2] = NumberOfOptions /\ NumberOfOptions \in Nat \ {0}
  BY GamesAssumption DEF Running

\* Nothing chosen is a proper beginning.
LEMMA NothingFilled ==
  ASSUME NEW n \in Nat
  PROVE  Filled({}, n) /\ Different({})
<1>1. IsFiniteSet({}) /\ Cardinality({}) = 0
  BY FS_EmptySet
<1> QED BY <1>1, GamesAssumption DEF Filled, Different, Low

\* One more of the next level.
LEMMA FillOne ==
  ASSUME NEW S, NEW r, NEW n \in Nat, Filled(S, n), Cardinality(S) # NumberOfOptions, r \notin S,
         Level[r] = IF Cardinality(S) < n THEN 1 ELSE 2
  PROVE  Filled(S \cup {r}, n)
<1> DEFINE T == S \cup {r}
<1>1. IsFiniteSet(S) /\ Cardinality(S) \in Nat
  BY FS_CardinalityType DEF Filled
<1>2. IsFiniteSet(T) /\ Cardinality(T) = Cardinality(S) + 1
  BY <1>1, FS_AddElement
<1>3. Cardinality(T) <= NumberOfOptions
  BY <1>1, <1>2, GamesAssumption DEF Filled
<1>4. CASE Cardinality(S) < n
  <2>1. Low(T) = T
    BY <1>1, <1>4 DEF Filled, Low
  <2>2. Cardinality(T) <= n
    BY <1>1, <1>2, <1>4
  <2> HIDE DEF T
  <2>3. Filled(T, n)
    BY <1>1, <1>2, <1>3, <2>1, <2>2 DEF Filled
  <2> QED BY <2>3 DEF T
<1>5. CASE Cardinality(S) >= n
  <2>1. Low(T) = Low(S)
    BY <1>1, <1>5 DEF Low
  <2>2. Cardinality(Low(S)) = n
    <3>1. CASE Cardinality(S) = n
      BY <3>1, <1>1 DEF Filled
    <3>2. CASE Cardinality(S) > n
      BY <3>2 DEF Filled
    <3> QED BY <1>1, <1>5, <3>1, <3>2
  <2>3. Cardinality(T) > n
    BY <1>1, <1>2, <1>5
  <2> HIDE DEF T
  <2>4. Filled(T, n)
    BY <1>1, <1>2, <1>3, <2>1, <2>2, <2>3 DEF Filled
  <2> QED BY <2>4 DEF T
<1> QED BY <1>1, <1>4, <1>5

LEMMA FormOption ==
  ASSUME FormInv, ~env.careless, NEW t \in Tasks, GenerateOption(t)
  PROVE  ChosenOK(task'[t])
<1>1. /\ TypeOK /\ TaskKept(task[t]) /\ ChosenOK(task[t]) /\ task[t] \in Running /\ task[t].pc = "pick"
  BY TaskRuns DEF FormInv, Base, GenerateOption, At
<1>2. CASE Restarted(t)
  BY <1>2 DEF Restarted, ChosenOK
<1>3. ASSUME SameAttempt(t), NEW r \in GameOptions(t, NextLevel(t)), task'[t].options = task[t].options \cup {r}
      PROVE  ChosenOK(task'[t])
  <2> DEFINE S == task[t].options
             n == task[t].config[1]
  <2>1. /\ n \in Nat /\ Filled(S, n) /\ Different(S)
    BY <1>1, ConfigOf DEF ChosenOK
  <2>2. \A s \in S : QuestionnaireOf[s] # QuestionnaireOf[r]
    BY <1>3 DEF GameOptions, Used
  <2>3. /\ r \notin S /\ Cardinality(S) # NumberOfOptions
        /\ Level[r] = IF Cardinality(S) < n THEN 1 ELSE 2
    BY <1>3, <2>2 DEF GenerateOption, Full, GameOptions, NextLevel
  <2> HIDE DEF S, n
  <2>4. Filled(S \cup {r}, n)
    BY <2>1, <2>3, FillOne
  <2>5. Different(S \cup {r})
    BY <2>1, <2>2 DEF Different
  <2> QED BY <1>3, <2>4, <2>5 DEF ChosenOK, SameAttempt, S, n
<1> QED BY <1>1, <1>2, <1>3, OptionRecord DEF TaskKept

LEMMA FormCreate ==
  ASSUME FormInv, ~env.careless, NEW t \in Tasks, CreateGame(t)
  PROVE  GamesComplete'
<1>1. /\ TypeOK /\ task[t] \in Running /\ GamesComplete /\ ChosenOK(task[t]) /\ task[t].pc = "pick"
      /\ UNCHANGED <<rows, rationaled, described>>
  BY TaskRuns DEF FormInv, Base, CreateGame, At, texts
<1>2. CASE UNCHANGED game
  BY <1>1, <1>2 DEF GamesComplete, Complete, Valid, Low, Different
<1>3. CASE game' = [game EXCEPT ![Date(t)] = task[t].options]
  <2> DEFINE S == task[t].options
             n == task[t].config[1]
  <2>1. n \in Nat /\ task[t].config \in Configs /\ n <= NumberOfOptions /\ NumberOfOptions \in Nat
    BY <1>1, ConfigOf
  <2>2. /\ Filled(S, n) /\ Different(S) /\ Valid(S) /\ Cardinality(S) = NumberOfOptions
    BY <1>1 DEF ChosenOK, CreateGame, Full
  <2>3. Cardinality(Low(S)) = n
    <3> HIDE DEF S, n
    <3>1. CASE NumberOfOptions <= n
      BY <2>1, <2>2, <3>1 DEF Filled
    <3>2. CASE NumberOfOptions > n
      BY <2>2, <3>2 DEF Filled
    <3> QED BY <2>1, <3>1, <3>2
  <2>4. Complete(S)
    <3> HIDE DEF S
    <3> QED BY <2>1, <2>2, <2>3 DEF Complete, Filled
  <2>5. \A d \in Dates : game'[d] = IF d = Date(t) THEN S ELSE game[d]
    BY <1>1, <1>3 DEF TypeOK
  <2>6. \A d \in Dates : game'[d] # {} => Complete(game'[d])
    <3> HIDE DEF S
    <3> QED BY <1>1, <2>4, <2>5 DEF GamesComplete
  <2> QED BY <1>1, <2>6 DEF GamesComplete, Complete, Valid, Low, Different
<1> QED BY <1>2, <1>3 DEF CreateGame

LEMMA FormStep == FormInv /\ [Next]_vars => FormInv'
<1> SUFFICES ASSUME FormInv, [Next]_vars, ~env'.careless PROVE FormInv'
  BY BaseStep DEF FormInv
<1>0. Base /\ Base' /\ TypeOK
  BY BaseStep DEF FormInv, Base
<1>1. ASSUME NEW t \in Tasks, TaskStep(t) PROVE FormInv'
  <2>1. /\ Replaces(t) /\ task[t] \in Running /\ UNCHANGED <<env, rows, rationaled, described>>
        /\ TaskKept(task[t])
    BY <1>0, <1>1, StepOfOne DEF Base
  <2>2. ~env.careless /\ GamesComplete /\ \A u \in Tasks : ChosenOK(task[u])
    BY <2>1 DEF FormInv
  <2>3. \A u \in Tasks \ {t} : ChosenOK(task'[u])
    BY <2>1, <2>2 DEF Replaces
  <2>4. ASSUME UNCHANGED game PROVE GamesComplete'
    BY <2>1, <2>2, <2>4 DEF GamesComplete, Complete, Valid, Low, Different
  <2>5. CASE BeginAttempt(t)
    <3>1. ASSUME Restarted(t) PROVE ChosenOK(task'[t])
      BY <3>1 DEF Restarted, ChosenOK
    <3>2. ASSUME SameAttempt(t), task'[t].options = task[t].options PROVE ChosenOK(task'[t])
      <4>1. task[t].options = {}
        BY <2>1, <2>5 DEF BeginAttempt, At, TaskKept, Fresh
      <4>2. task[t].config[1] \in Nat
        BY <2>1, ConfigOf
      <4> QED BY <3>2, <4>1, <4>2, NothingFilled DEF ChosenOK, SameAttempt
    <3>3. ChosenOK(task'[t])
      BY <1>0, <2>1, <2>5, <3>1, <3>2, BeginRecord DEF TaskKept
    <3> QED BY <1>0, <2>3, <2>4, <2>5, <3>3 DEF FormInv, BeginAttempt
  <2>6. CASE GenerateOption(t)
    BY <1>0, <2>2, <2>3, <2>4, <2>6, FormOption DEF FormInv, GenerateOption
  <2>7. CASE CreateGame(t)
    <3>1. ChosenOK(task'[t])
      BY <1>0, <2>1, <2>7, CreateRecord DEF TaskKept, Restarted, ChosenOK
    <3> QED BY <1>0, <2>2, <2>3, <2>7, <3>1, FormCreate DEF FormInv
  <2>8. CASE Raise(t)
    <3>1. ChosenOK(task'[t])
      BY <1>0, <2>8 DEF Raise, TypeOK, ChosenOK, Idle
    <3> QED BY <1>0, <2>3, <2>4, <2>8, <3>1 DEF FormInv, Raise
  <2> QED BY <1>1, <2>5, <2>6, <2>7, <2>8 DEF TaskStep
<1>2. ASSUME NEW t \in Tasks, Begins(t) PROVE FormInv'
  <2>1. /\ Replaces(t) /\ UNCHANGED <<env, rows, rationaled, described, game>> /\ task'[t].pc = "date"
    BY <1>0, <1>2, BeginsRecord
  <2>2. GamesComplete /\ \A u \in Tasks : ChosenOK(task[u])
    BY <2>1 DEF FormInv
  <2>3. GamesComplete'
    BY <2>1, <2>2 DEF GamesComplete, Complete, Valid, Low, Different
  <2>4. \A u \in Tasks : ChosenOK(task'[u])
    BY <2>1, <2>2 DEF Replaces, ChosenOK
  <2> QED BY <1>0, <2>3, <2>4 DEF FormInv
<1>3. CASE ChangeGames
  <2>1. UNCHANGED <<env, task, rationaled, described>>
    BY <1>3 DEF ChangeGames
  <2>2. GamesComplete /\ \A u \in Tasks : ChosenOK(task[u])
    BY <2>1 DEF FormInv
  <2>3. UNCHANGED rows /\ \A d \in Dates : game'[d] = game[d] \/ game'[d] = {}
    BY <1>0, <1>3, <2>1 DEF ChangeGames, DeleteGames, DeleteGame, EditGame, DeleteResult, TypeOK, usage
  <2>4. \A d \in Dates : game'[d] # {} => Complete(game'[d])
    BY <2>2, <2>3 DEF GamesComplete
  <2>5. GamesComplete'
    BY <2>1, <2>3, <2>4 DEF GamesComplete, Complete, Valid, Low, Different
  <2> QED BY <1>0, <2>1, <2>2, <2>5 DEF FormInv
<1>4. CASE Quiet
  <2>1. GamesComplete /\ \A u \in Tasks : ChosenOK(task[u])
    BY <1>4 DEF Quiet, FormInv
  <2>2. GamesComplete'
    BY <1>4, <2>1 DEF Quiet, GamesComplete, Complete, Valid, Low, Different
  <2> QED BY <1>0, <1>4, <2>1, <2>2 DEF Quiet, FormInv
<1> QED BY <1>1, <1>2, <1>3, <1>4, Steps

LEMMA CompleteIsWellFormed ==
  ASSUME TypeOK, NEW d \in Dates, game[d] # {}, Complete(game[d])
  PROVE  /\ \E c \in Configs, low \in SUBSET game[d] :
               /\ Cardinality(low) = c[1] /\ Cardinality(game[d] \ low) = c[2]
               /\ \A r \in game[d] : Level[r] = IF r \in low THEN 1 ELSE 2
         /\ \A r, s \in game[d] : QuestionnaireOf[r] = QuestionnaireOf[s] => r = s
         /\ d \in RetrievedGames(d, d)
<1> DEFINE S == game[d]
<1>1. PICK c \in Configs : Cardinality(Low(S)) = c[1]
  BY DEF Complete
<1>2. Low(S) \in SUBSET S /\ \A r \in S : Level[r] = IF r \in Low(S) THEN 1 ELSE 2
  BY GamesAssumption DEF Low, TypeOK
<1>3. Cardinality(S \ Low(S)) = c[2]
  <2>1. S \cap Low(S) = Low(S)
    BY DEF Low
  <2>2. Cardinality(S \ Low(S)) = Cardinality(S) - Cardinality(S \cap Low(S))
    BY FS_Difference DEF Complete
  <2>3. c[1] \in Nat /\ c[2] \in Nat /\ c[1] + c[2] = NumberOfOptions
    BY GamesAssumption
  <2>4. Cardinality(S) = NumberOfOptions
    BY DEF Complete
  <2>5. Cardinality(S \ Low(S)) = NumberOfOptions - c[1]
    BY <1>1, <2>1, <2>2, <2>4
  <2> QED BY <2>3, <2>5
<1>4. d \in RetrievedGames(d, d)
  BY DatesFinite DEF RetrievedGames, Retrieved, Complete
<1>5. \E low \in SUBSET S : /\ Cardinality(low) = c[1] /\ Cardinality(S \ low) = c[2]
                            /\ \A r \in S : Level[r] = IF r \in low THEN 1 ELSE 2
  BY <1>1, <1>2, <1>3
<1>6. Different(S)
  BY DEF Complete
<1> QED BY <1>4, <1>5, <1>6 DEF Different

\* Whatever generations overlap, and whatever configurations come and go meanwhile, a game is
\* complete and can be shown.
THEOREM GamesAreWellFormed == Spec => []GamesWellFormed
<1>1. FormInv => GamesWellFormed
  BY CompleteIsWellFormed DEF FormInv, Base, GamesComplete, GamesWellFormed
<1> QED BY <1>1, FormInit, FormStep, PTL DEF Spec

(***************************************************************************)
(* NoDateForgotten.  Where every result has its texts, those chosen pass   *)
(* the validation, so that an attempt ends with its game or is told of.    *)
(***************************************************************************)
Written ==
  env.blank = {} =>
      /\ rationaled = Results /\ described = Questionnaires
      /\ \A t \in Tasks : task[t].options \subseteq rows

LEMMA WrittenStep ==
  ASSUME Base, Written, [Next]_vars
  PROVE  Written'
<1>0. TypeOK /\ TypeOK'
  BY GamesStepType DEF Base
<1>1. ASSUME NEW t \in Tasks, TaskStep(t) PROVE Written'
  <2>1. Replaces(t) /\ task[t] \in Running /\ UNCHANGED <<env, rows, rationaled, described>>
    BY <1>0, <1>1, StepOfOne
  <2>2. TaskKept(task[t])
    BY DEF Base
  <2>3. ASSUME env.blank = {} PROVE task'[t].options \subseteq rows
    <3>1. task[t].options \subseteq rows
      BY <2>3 DEF Written
    <3>2. CASE Restarted(t)
      BY <3>2 DEF Restarted
    <3>3. CASE BeginAttempt(t)
      BY <1>0, <2>2, <3>1, <3>2, <3>3, BeginRecord DEF TaskKept
    <3>4. CASE GenerateOption(t)
      BY <1>0, <2>2, <3>1, <3>2, <3>4, OptionRecord DEF TaskKept, GameOptions
    <3>5. CASE CreateGame(t)
      BY <1>0, <2>2, <3>2, <3>5, CreateRecord DEF TaskKept
    <3>6. CASE Raise(t)
      BY <1>0, <3>6 DEF Raise, Idle, TypeOK
    <3> QED BY <1>1, <3>3, <3>4, <3>5, <3>6 DEF TaskStep
  <2> QED BY <2>1, <2>3 DEF Written, Replaces
<1>2. ASSUME NEW t \in Tasks, Begins(t) PROVE Written'
  BY <1>0, <1>2, BeginsRecord DEF Written, Replaces
<1>3. CASE ChangeGames
  <2>1. UNCHANGED <<env, task, rationaled, described>> /\ \A t \in Tasks : task[t] = Idle
    BY <1>0, <1>3, ChangesKeep DEF ChangeGames
  <2> QED BY <2>1 DEF Written, Idle
<1>4. CASE Quiet
  <2>1. rationaled' \subseteq Results /\ described' \subseteq Questionnaires
    BY <1>0 DEF TypeOK
  <2> QED BY <1>4, <2>1 DEF Quiet, Written
<1> QED BY <1>1, <1>2, <1>3, <1>4, Steps

\* The date at hand is left with its game, or the administrators are told of it; the later ones of
\* the range are left when they are told only.
LEMMA DatesCovered ==
  ASSUME TypeOK, Written, env.blank = {}, NEW t \in Tasks, TaskStep(t), NEW d \in Dates,
         Covers(t, d), ~Covers(t, d)'
  PROVE  game'[d] # {} \/ \E a \in alerts' : a <= d
<1>1. task[t] \in Running /\ Date(t) \in Dates /\ task[t].end \in Dates /\ Dates \subseteq Nat
  BY StepOfOne, DatesFinite DEF Running, Date
<1>2. Date(t) <= d /\ d <= task[t].end
  BY DEF Covers, Date
<1>0. Date(t) \in Nat /\ task[t].end \in Nat /\ d \in Nat
  BY <1>1
<1>3. ASSUME FailAttempt(t) PROVE \E a \in alerts' : a <= d
  <2>1. ~Again(t)
    <3> SUFFICES ASSUME Again(t) PROVE FALSE
      OBVIOUS
    <3>1. task'[t] = Begun(t, Date(t), task[t].attempt + 1, NextThreshold(t))
      BY <1>3 DEF FailAttempt, Failed, TypeOK
    <3>2. task'[t].date = Date(t) /\ task'[t].end = task[t].end
      BY <1>1, <3>1 DEF Begun, Running
    <3> QED BY <1>2, <3>2 DEF Covers
  <2>2. Date(t) \in alerts'
    BY <1>3, <2>1 DEF FailAttempt
  <2> QED BY <1>2, <2>2
<1>4. ASSUME NextDate(t) PROVE d = Date(t)
  <2>1. CASE Date(t) < task[t].end
    <3>1. task'[t] = Begun(t, Date(t) + 1, 0, Threshold)
      BY <1>4, <2>1 DEF NextDate, TypeOK
    <3>2. task'[t].date = Date(t) + 1 /\ task'[t].end = task[t].end
      BY <1>1, <3>1 DEF Begun, Running
    <3>3. ~(Date(t) + 1 <= d)
      BY <1>2, <3>2 DEF Covers
    <3> QED BY <1>0, <1>2, <3>3
  <2>2. CASE ~(Date(t) < task[t].end)
    BY <1>0, <1>2, <2>2
  <2> QED BY <2>1, <2>2
<1>5. CASE BeginAttempt(t)
  <2>1. CASE game[Date(t)] # {} /\ ~task[t].override
    BY <1>4, <1>5, <2>1 DEF BeginAttempt
  <2>2. CASE ~(game[Date(t)] # {} /\ ~task[t].override)
    <3>1. task'[t].date = Date(t) /\ task'[t].end = task[t].end
      BY <1>1, <1>5, <2>2 DEF BeginAttempt, TypeOK, Running, Date
    <3> QED BY <1>2, <3>1 DEF Covers
  <2> QED BY <2>1, <2>2
<1>6. CASE GenerateOption(t)
  <2>1. ASSUME NEW r, task' = [task EXCEPT ![t].options = @ \cup {r}] PROVE FALSE
    <3>1. task'[t].date = Date(t) /\ task'[t].end = task[t].end
      BY <1>1, <2>1 DEF TypeOK, Running, Date
    <3> QED BY <1>2, <3>1 DEF Covers
  <2> QED BY <1>3, <1>6, <2>1 DEF GenerateOption
<1>7. CASE CreateGame(t)
  <2>1. ASSUME game' = [game EXCEPT ![Date(t)] = task[t].options], NextDate(t) PROVE game'[d] # {}
    <3>1. task[t].options # {}
      <4>1. Cardinality(task[t].options) # 0
        BY <1>7, GamesAssumption DEF CreateGame, Full
      <4> QED BY <4>1, FS_EmptySet
    <3>2. game'[d] = task[t].options
      BY <1>1, <1>4, <2>1 DEF TypeOK
    <3> QED BY <3>1, <3>2
  <2> QED BY <1>3, <1>7, <2>1 DEF CreateGame
<1>8. CASE Raise(t)
  <2>1. task[t].options \subseteq rows /\ rows \subseteq Results
    BY DEF Written, TypeOK
  <2>2. Valid(task[t].options)
    BY <2>1, GamesAssumption DEF Valid, Written
  <2> QED BY <1>8, <2>2 DEF Raise
<1> QED BY <1>5, <1>6, <1>7, <1>8 DEF TaskStep

\* However generations overlap and whatever administrators do between them, a date of a range is
\* left with a game, or after an alert for it or for an earlier date.
THEOREM DatesAreNotForgotten == Spec => NoDateForgotten
<1>1. Init => Written
  <2> SUFFICES ASSUME Init, env.blank = {} PROVE Written
    BY DEF Written
  <2>1. rationaled = Results /\ described = Questionnaires
    BY DEF Init
  <2>2. \A t \in Tasks : task[t].options = {}
    BY DEF Init, Idle
  <2> QED BY <2>1, <2>2 DEF Written
<1>2. Base /\ Written /\ [Next]_vars => Written'
  BY WrittenStep
<1>3. Base /\ Written /\ [Next]_vars =>
        [\A t \in Tasks, d \in Dates :
           env.blank = {} /\ Covers(t, d) /\ ~Covers(t, d)'
               => game'[d] # {} \/ \E a \in alerts' : a <= d]_vars
  <2> SUFFICES ASSUME Base, Written, Next, NEW t \in Tasks, NEW d \in Dates,
                      env.blank = {}, Covers(t, d), ~Covers(t, d)'
               PROVE  game'[d] # {} \/ \E a \in alerts' : a <= d
    OBVIOUS
  <2>1. task'[t] # task[t]
    BY DEF Covers
  <2>2. CASE TaskStep(t)
    BY <2>2, DatesCovered DEF Base
  <2>3. ASSUME NEW u \in Tasks, TaskStep(u) PROVE u = t
    BY <2>1, <2>3, StepOfOne DEF Base, Replaces
  <2>4. ASSUME NEW u \in Tasks, Begins(u) PROVE FALSE
    <3>1. Replaces(u) /\ task[u] = Idle
      BY <2>4, BeginsRecord DEF Base, Begins, Generate
    <3>2. u = t
      BY <2>1, <3>1 DEF Replaces
    <3> QED BY <3>1, <3>2, DatesFinite DEF Covers, Idle
  <2>5. ~ChangeGames /\ ~Quiet
    BY <2>1, ChangesKeep DEF Base, Quiet
  <2> QED BY <2>2, <2>3, <2>4, <2>5, Steps
<1> QED BY <1>1, <1>2, <1>3, BaseInit, BaseStep, PTL DEF Spec, NoDateForgotten
=============================================================================
