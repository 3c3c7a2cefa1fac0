----------------------------- MODULE GameGeneration -----------------------------
(***************************************************************************)
(* The game of each day (app/game): generate_games goes through a range of *)
(* dates and gives each a game of NumberOfOptions results of different     *)
(* questionnaires, none of them used a short time before.  An attempt that *)
(* fails is repeated with a shorter time, and when all have failed the     *)
(* administrators get a mail, and the rest of the range gets no games.     *)
(*                                                                         *)
(* An attempt is a transaction (READ COMMITTED): what it writes is seen by *)
(* itself, and by others when it ends; the rows it has written are locked  *)
(* until then.  Here that is one step for the options of a game that is    *)
(* put aside, one for each option that is chosen, and one for the game and *)
(* the commit.  Administrators' requests come between the generations.     *)
(***************************************************************************)
EXTENDS Integers, FiniteSets, FiniteSetsExt

CONSTANTS
    Results, Questionnaires,
    QuestionnaireOf,        \* [Results -> Questionnaires]
    Level,                  \* [Results -> game_complexity_level, 1 or 2]
    Configs,                \* GameConfig rows: number_of_words of levels 1 and 2
    NumberOfOptions,
    LastDate,               \* dates are 1, 2, ... (bound)
    Threshold, Increment, MaxAttempts,  \* the settings
    Tasks,                  \* runs of generate_games at one time
    Environments            \* what may happen: [tasks |-> runs at one time,
                            \*   override |-> administrators generate over existing games,
                            \*   deletes |-> how they delete games, careless |-> they edit
                            \*   games and delete results, blank |-> results that may be
                            \*   without a rationale or description, starts, changes |-> bounds]

Dates    == 1..LastDate
NoConfig == <<0, 0>>
Never    == 0

ASSUME GamesAssumption ==
    /\ NumberOfOptions \in Nat \ {0} /\ LastDate \in Nat
    /\ QuestionnaireOf \in [Results -> Questionnaires] /\ Level \in [Results -> {1, 2}]
    /\ Configs \subseteq {c \in Nat \X Nat : c[1] + c[2] = NumberOfOptions}
    /\ Threshold \in Nat \ {0} /\ Increment \in Nat \ {0} /\ MaxAttempts \in Nat \ {0}
    /\ Environments \subseteq [tasks : SUBSET Tasks, override : BOOLEAN, careless : BOOLEAN,
           deletes : {"none", "action", "single"}, blank : SUBSET Results, starts : Nat, changes : Nat]

VARIABLES
    env,            \* which of the Environments this is
    config,         \* the active GameConfig
    rows,           \* the Result rows
    rationaled,     \* those with a rationale
    described,      \* questionnaires with an offering_description
    due,            \* questionnaires that bulk_generate_rationale_offering_description goes through
    last, count,    \* was_used_in_game_date, number_was_used_in_game of the results
    game,           \* [Dates -> options_id_list of the game, empty if there is none]
    task,           \* [Tasks -> the run of generate_games, with its locals]
    alerts,         \* dates of which the administrators were told
    starts, changes

texts  == <<rows, rationaled, described, due>>
usage  == <<last, count>>
bounds == <<starts, changes>>
vars   == <<env, config, texts, usage, game, task, alerts, bounds>>

\* old: options of the game put aside; options: those chosen so far
Idle == [pc |-> "idle", config |-> NoConfig, date |-> 0, end |-> 0, override |-> FALSE,
         attempt |-> 0, threshold |-> 0, old |-> {}, options |-> {}]
Running == [pc : {"date", "pick"}, config : Configs, date : Dates, end : Dates,
            override : BOOLEAN, attempt : 0..(MaxAttempts - 1), threshold : 1..Threshold,
            old : SUBSET Results, options : SUBSET Results]

TypeOK ==
    /\ env \in Environments /\ config \in Configs \cup {NoConfig}
    /\ rows \subseteq Results /\ rationaled \subseteq Results
    /\ described \subseteq Questionnaires /\ due \subseteq Questionnaires
    /\ last \in [Results -> Dates \cup {Never}] /\ count \in [Results -> Nat]
    /\ game \in [Dates -> SUBSET Results]
    /\ task \in [Tasks -> Running \cup {Idle}]
    /\ alerts \subseteq Dates
    /\ starts \in Nat /\ changes \in Nat

\* The migrations make one configuration active; the results are there, not used yet.
Init ==
    /\ env \in Environments /\ config \in Configs
    /\ rows = Results /\ due = {}
    /\ \E R \in SUBSET env.blank : rationaled = Results \ R
    /\ \E R \in SUBSET env.blank : described = Questionnaires \ {QuestionnaireOf[r] : r \in R}
    /\ last = [r \in Results |-> Never] /\ count = [r \in Results |-> 0]
    /\ game = [d \in Dates |-> {}]
    /\ task = [t \in Tasks |-> Idle]
    /\ alerts = {} /\ starts = 0 /\ changes = 0

-----------------------------------------------------------------------------
(* generate_games *)

At(t, pc) == task[t].pc = pc
Date(t)   == task[t].date

Generate(t, from, to, override) ==
    /\ t \in env.tasks /\ task[t] = Idle
    /\ starts < env.starts /\ starts' = starts + 1
    /\ config # NoConfig
    /\ task' = [task EXCEPT ![t] = [Idle EXCEPT !.pc = "date", !.config = config, !.date = from,
                    !.end = to, !.override = override, !.threshold = Threshold]]
    /\ UNCHANGED <<env, config, texts, usage, game, alerts, changes>>

\* Two weeks from today, whatever today is.
ScheduleGames(t, from, to) == from <= to /\ Generate(t, from, to, FALSE)

\* The page puts games aside that are there; one administrator at a time.
GamesGenerationForm(from, to) == from <= to
GamesGenerationView(t, from, to) ==
    /\ env.override /\ \A u \in Tasks : ~task[u].override
    /\ GamesGenerationForm(from, to) /\ Generate(t, from, to, TRUE)

Begun(t, date, attempt, threshold) ==
    [task[t] EXCEPT !.pc = "date", !.date = date, !.attempt = attempt, !.threshold = threshold,
                    !.old = {}, !.options = {}]
NextDate(t) ==
    task' = [task EXCEPT ![t] = IF Date(t) < task[t].end THEN Begun(t, Date(t) + 1, 0, Threshold) ELSE Idle]

NextThreshold(t) == task[t].threshold - Increment
Again_AttemptsOnly(t) == task[t].attempt + 1 < MaxAttempts
Again(t) == task[t].attempt + 1 < MaxAttempts /\ NextThreshold(t) > 0

Failed(t) ==
    task' = [task EXCEPT ![t] =
        IF Again(t) THEN Begun(t, Date(t), task[t].attempt + 1, NextThreshold(t)) ELSE Idle]

FailAttempt_Silent(t) == Failed(t) /\ UNCHANGED alerts
\* create_game_with_error_retries after a ValidationError or IntegrityError, and the end of
\* generate_games if that was the last attempt.
FailAttempt(t) == Failed(t) /\ alerts' = IF Again(t) THEN alerts ELSE alerts \cup {Date(t)}

-----------------------------------------------------------------------------
(* GameCreationService.create_game *)

\* revert_game_usage, as the attempt sees it: get_latest_game_by_option_id returns nothing.
RevertedDate(r)    == Never
RevertedCount_Same(r) == count[r]
RevertedCount(r)   == IF count[r] > 0 THEN count[r] - 1 ELSE 0
LastSeen(t, r)  == IF r \in task[t].old THEN RevertedDate(r) ELSE last[r]
CountSeen(t, r) == IF r \in task[t].old THEN RevertedCount(r) ELSE count[r]

Locked(t) == UNION {task[u].old : u \in Tasks \ {t}}

BeginAttempt(t) ==
    /\ At(t, "date")
    /\ IF game[Date(t)] # {} /\ ~task[t].override
       THEN NextDate(t)
       ELSE /\ game[Date(t)] \cap Locked(t) = {}
            /\ task' = [task EXCEPT ![t].pc = "pick", ![t].old = game[Date(t)] \cap rows]
    /\ UNCHANGED <<env, config, texts, usage, game, alerts, bounds>>

\* get_game_option: an option that was not used, or not since the threshold, of a questionnaire
\* that is not in the game yet.
NotUsed_OrToday(t, r) == LastSeen(t, r) = Never \/ LastSeen(t, r) <= Date(t) - task[t].threshold
NotUsed(t, r) == LastSeen(t, r) = Never \/ LastSeen(t, r) < Date(t) - task[t].threshold
Used(t)       == {QuestionnaireOf[r] : r \in task[t].options}
GameOptions_AnyQuestionnaire(t, level) ==
    {r \in (rows \ task[t].options) : Level[r] = level /\ QuestionnaireOf[r] \in described /\ NotUsed(t, r)}
GameOptions(t, level) ==
    {r \in rows : /\ QuestionnaireOf[r] \in described \ Used(t)
                  /\ Level[r] = level
                  /\ NotUsed(t, r)}

Full(t) == Cardinality(task[t].options) = NumberOfOptions
\* _generate_options_for_level, for level 1 and then for level 2
NextLevel(t) == IF Cardinality(task[t].options) < task[t].config[1] THEN 1 ELSE 2

\* One of those that were used least, or a ValidationError.
GenerateOption(t) ==
    LET found == GameOptions(t, NextLevel(t))
    IN  /\ At(t, "pick") /\ ~Full(t)
        /\ \/ /\ \E r \in found :
                    /\ \A x \in found : CountSeen(t, r) <= CountSeen(t, x)
                    /\ task' = [task EXCEPT ![t].options = @ \cup {r}]
              /\ UNCHANGED alerts
           \/ found = {} /\ FailAttempt(t)
        /\ UNCHANGED <<env, config, texts, usage, game, bounds>>

\* validate_options_id_list
Valid(options) ==
    \A r \in options : r \in rows /\ QuestionnaireOf[r] \in described /\ r \in rationaled
NotUnique(d, options) == \E e \in Dates \ {d} : game[e] = options

\* update_game_usage, and what the attempt has reverted
UpdateUsage(t, options) ==
    /\ last' = [r \in Results |-> IF r \in options THEN Date(t) ELSE LastSeen(t, r)]
    /\ count' = [r \in Results |-> IF r \in options THEN CountSeen(t, r) + 1 ELSE CountSeen(t, r)]

\* full_clean and update_or_create.  A game of this date that has come up meanwhile is found by
\* the check of uniqueness, or it is updated.
CreateGame(t) ==
    LET options == task[t].options
    IN  /\ At(t, "pick") /\ Full(t) /\ Valid(options)
        /\ \/ /\ ~NotUnique(Date(t), options) /\ options \cap Locked(t) = {}
              /\ game' = [game EXCEPT ![Date(t)] = options]
              /\ UpdateUsage(t, options)
              /\ NextDate(t) /\ UNCHANGED alerts
           \/ /\ NotUnique(Date(t), options) \/ game[Date(t)] \cap rows # task[t].old
              /\ FailAttempt(t) /\ UNCHANGED <<usage, game>>
        /\ UNCHANGED <<env, config, texts, bounds>>

\* The validator's exception is another ValidationError (rest_framework's): nobody catches it.
Raise(t) ==
    /\ At(t, "pick") /\ Full(t) /\ ~Valid(task[t].options)
    /\ task' = [task EXCEPT ![t] = Idle]
    /\ UNCHANGED <<env, config, texts, usage, game, alerts, bounds>>

-----------------------------------------------------------------------------
(* Descriptions and rationales *)

\* It looks for questionnaires without a description, up to a limit.
BulkGenerate(limit) ==
    /\ env.blank # {} /\ changes < env.changes /\ changes' = changes + 1
    /\ \E questionnaires \in SUBSET (Questionnaires \ described) :
        /\ Cardinality(questionnaires) = Min({limit, Cardinality(Questionnaires \ described)})
        /\ due' = due \cup questionnaires
    /\ UNCHANGED <<env, config, rows, rationaled, described, usage, game, task, alerts, starts>>

\* The language models may have no answer.
GenerateTexts(q) ==
    /\ q \in due /\ due' = due \ {q}
    /\ \E d \in SUBSET {q} : described' = described \cup d
    /\ \E R \in SUBSET {r \in rows : QuestionnaireOf[r] = q} : rationaled' = rationaled \cup R
    /\ UNCHANGED <<env, config, rows, usage, game, task, alerts, bounds>>

-----------------------------------------------------------------------------
(* Administration pages *)

Change == /\ \A t \in Tasks : task[t] = Idle
          /\ changes < env.changes /\ changes' = changes + 1

Times(r, D) == Cardinality({d \in D : r \in game[d]})
\* The action "delete selected" (delete_queryset) reverts the options, of each game in turn.
DeleteGames(D) ==
    LET options == UNION {game[d] : d \in D} \cap rows
    IN  /\ env.deletes = "action" /\ D # {} /\ \A d \in D : game[d] # {}
        /\ game' = [d \in Dates |-> IF d \in D THEN {} ELSE game[d]]
        /\ last' = [r \in Results |-> IF r \in options THEN RevertedDate(r) ELSE last[r]]
        /\ count' = [r \in Results |-> IF count[r] > Times(r, D) THEN count[r] - Times(r, D) ELSE 0]
        /\ UNCHANGED rows

\* The page of one game does not.
DeleteGame(d) ==
    /\ env.deletes = "single" /\ game[d] # {}
    /\ game' = [game EXCEPT ![d] = {}]
    /\ UNCHANGED <<usage, rows>>

EditGame(d, options) ==
    /\ env.careless /\ game[d] # {} /\ options # {}
    /\ Cardinality(options) <= NumberOfOptions /\ Valid(options) /\ ~NotUnique(d, options)
    /\ game' = [game EXCEPT ![d] = options]
    /\ UNCHANGED <<usage, rows>>

\* With its batch or its questionnaire.
DeleteResult(r) ==
    /\ env.careless /\ r \in rows
    /\ rows' = rows \ {r}
    /\ UNCHANGED <<usage, game>>

ChangeGames ==
    /\ Change
    /\ \/ \E D \in SUBSET Dates : DeleteGames(D)
       \/ \E d \in Dates : DeleteGame(d) \/ \E options \in SUBSET Results : EditGame(d, options)
       \/ \E r \in Results : DeleteResult(r)
    /\ UNCHANGED <<env, config, rationaled, described, due, task, alerts, starts>>

\* GameConfig.save: the active rows are turned off first, in a statement of their own.
TurnOffConfigs ==
    /\ changes < env.changes /\ changes' = changes + 1 /\ config' = NoConfig
    /\ UNCHANGED <<env, texts, usage, game, task, alerts, starts>>
SaveConfig(c) ==
    /\ config = NoConfig /\ config' = c
    /\ UNCHANGED <<env, texts, usage, game, task, alerts, bounds>>

\* A game is shown if it passes full_clean (RetrieveGameView), and so are its dates
\* (RetrieveAvailableGameDatesView).
Retrieved(d) == game[d] # {} /\ Valid(game[d])
RetrievedGames(from, to) == {d \in Dates : from <= d /\ d <= to /\ Retrieved(d)}

-----------------------------------------------------------------------------
TaskStep(t) == BeginAttempt(t) \/ GenerateOption(t) \/ CreateGame(t) \/ Raise(t)

Next ==
    \/ \E t \in Tasks : TaskStep(t)
    \/ \E t \in Tasks, from, to \in Dates : ScheduleGames(t, from, to) \/ GamesGenerationView(t, from, to)
    \/ \E limit \in 1..2 : BulkGenerate(limit)
    \/ \E q \in Questionnaires : GenerateTexts(q)
    \/ ChangeGames \/ TurnOffConfigs \/ \E c \in Configs : SaveConfig(c)

Spec == Init /\ [][Next]_vars

\* The worker goes on with its tasks.
FairSpec == Spec /\ \A t \in Tasks : WF_vars(TaskStep(t))
=============================================================================
