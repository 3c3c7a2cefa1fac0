---------------------------- MODULE MCGameGeneration ----------------------------
(* Small instances of GameGeneration for TLC. *)
EXTENDS GameGenerationProperties, TLC

CONSTANTS a1, a2, b1, b2, b3, q1, q2, q3, q4, t1, t2

\* a1 and b1 come from one questionnaire: a game with one of them has to do without the other.
Owners == (a1 :> q1) @@ (b1 :> q1) @@ (a2 :> q2) @@ (b2 :> q3) @@ (b3 :> q4)
Levels == (a1 :> 1) @@ (a2 :> 1) @@ (b1 :> 2) @@ (b2 :> 2) @@ (b3 :> 2)
TwoConfigs == {<<1, 1>>, <<0, 2>>}

Calm == [tasks |-> {t1}, override |-> FALSE, careless |-> FALSE, deletes |-> "none",
         blank |-> {}, starts |-> 3, changes |-> 0]
\* One hazard at a time.
OneHazard == {Calm,
    [Calm EXCEPT !.tasks = Tasks, !.starts = 2],
    [Calm EXCEPT !.override = TRUE],
    [Calm EXCEPT !.deletes = "action", !.changes = 1],
    [Calm EXCEPT !.deletes = "single", !.starts = 2, !.changes = 1],
    [Calm EXCEPT !.careless = TRUE, !.starts = 1, !.changes = 1],
    [Calm EXCEPT !.blank = {a1, b2}, !.starts = 1, !.changes = 1]}
=============================================================================
