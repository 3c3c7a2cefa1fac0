------------------------ MODULE GameGenerationProperties ------------------------
(* What the games of the days keep to, and when. *)
EXTENDS GameGeneration

Sole == \A t, u \in env.tasks : t = u

\* The times that create_game_with_error_retries goes through.
Thresholds == {n \in 1..Threshold : \E k \in 0..(MaxAttempts - 1) : n = Threshold - k * Increment}

\* A name does not come up again within the time of the last attempt, in whatever order the dates
\* were generated, unless the options of a game have been reverted (revert_game_usage forgets
\* their other games), games have been edited, or two generations overlap.
NoReuse ==
    Sole /\ ~env.override /\ env.deletes # "action" /\ ~env.careless =>
        \A d, e \in Dates : d < e /\ game[d] \cap game[e] # {} => \E n \in Thresholds : e - d > n

\* number_was_used_in_game, by which the least used options are chosen, is the number of games
\* with the option, also after games were put aside or deleted with their options reverted.
UsageCounted ==
    Sole /\ env.deletes # "single" /\ ~env.careless =>
        \A r \in Results : count[r] = Cardinality({d \in Dates : r \in game[d]})

\* A game has the names that a configuration asks for, of different questionnaires, and is shown;
\* generations that overlap keep to it.
GamesWellFormed ==
    ~env.careless => \A d \in Dates : game[d] # {} =>
        /\ \E c \in Configs, low \in SUBSET game[d] :
               /\ Cardinality(low) = c[1] /\ Cardinality(game[d] \ low) = c[2]
               /\ \A r \in game[d] : Level[r] = IF r \in low THEN 1 ELSE 2
        /\ \A r, s \in game[d] : QuestionnaireOf[r] = QuestionnaireOf[s] => r = s
        /\ d \in RetrievedGames(d, d)

\* Every date of a range gets its game in the end, or the administrators have heard of it or of an
\* earlier date; but a missing rationale ends the generation without a word (validate_options_id_list).
GameOrAlert ==
    \A d \in Dates :
        env.blank = {} /\ (\E t \in Tasks : task[t] # Idle /\ task[t].date <= d /\ d <= task[t].end)
            ~> game[d] # {} \/ \E a \in alerts : a <= d

\* No step of a generation leaves a date behind, by going on to the next date or by ending, unless
\* the date has a game, or the administrators have heard of it or of an earlier date.  It is what
\* keeps GameOrAlert true of generations that overlap.
Covers(t, d) == task[t].date <= d /\ d <= task[t].end
NoDateForgotten ==
    [][\A t \in Tasks, d \in Dates :
           env.blank = {} /\ Covers(t, d) /\ ~Covers(t, d)'
               => game'[d] # {} \/ \E a \in alerts' : a <= d]_vars
=============================================================================
