----------------------------- MODULE FeatureConfig -----------------------------
(***************************************************************************)
(* The rows of FeatureConfig, one of which is active and names the pricing *)
(* plan, and the copy that each process keeps of it for an hour            *)
(* (app/core/models/feature_config.py).                                    *)
(*                                                                         *)
(* A save clears the cache of its own process only.  A save of an active   *)
(* row is a transaction: its UPDATE turns off the rows that it sees, which *)
(* does not include one that a concurrent save has not committed yet.      *)
(***************************************************************************)
EXTENDS Naturals, FiniteSets, FiniteSetsExt

CONSTANTS
    Configs,    \* primary keys of FeatureConfig
    PlanOf,     \* [Configs -> pricing plan of the row]
    Processes   \* web and Celery processes

ASSUME ConfigAssumption ==
    /\ Configs \subseteq Nat \ {0} /\ IsFiniteSet(Configs) /\ Configs # {}
    /\ PlanOf \in [Configs -> {"A", "B", "FREE"}]

NoConfig == 0

VARIABLES
    active,     \* rows with active = True
    cache,      \* [Processes -> the row in _active_config_cache]
    saver,      \* [Processes -> a save of an active row under way, and the rows it turns off]
    saves       \* saves so far, which a module that uses this one bounds

configVars == <<active, cache, saver, saves>>

NotSaving == [row |-> NoConfig, seen |-> {}]

ConfigTypeOK ==
    /\ active \subseteq Configs
    /\ cache \in [Processes -> Configs \cup {NoConfig}]
    /\ saver \in [Processes -> {NotSaving} \cup [row : Configs, seen : SUBSET Configs]]
    /\ saves \in Nat

\* The row of the first migration is active, and no process has read it yet.
InitConfig ==
    /\ active = {Min(Configs)}
    /\ cache = [p \in Processes |-> NoConfig]
    /\ saver = [p \in Processes |-> NotSaving]
    /\ saves = 0

-----------------------------------------------------------------------------
(* get_active_config *)

\* A cached copy is good for anything; without one the first active row is read, or an exception
\* is raised.
CanLoad(p) == cache[p] # NoConfig \/ active # {}
Loaded(p)  == IF cache[p] # NoConfig THEN cache[p] ELSE Min(active)
LoadConfig(p) ==
    /\ CanLoad(p)
    /\ cache' = [cache EXCEPT ![p] = Loaded(p)]
    /\ UNCHANGED <<active, saver, saves>>

\* get_is_pricing_plan_free
IsFree(p) == PlanOf[Loaded(p)] = "FREE"

Expire_Never(p) == cache[p] = NoConfig /\ UNCHANGED configVars

\* The entry of the TTLCache is an hour old.  One that would be loaded again at once is left out:
\* nothing tells it from one that expires later.
Expire(p) ==
    /\ cache[p] # NoConfig /\ (active # {} => cache[p] # Min(active))
    /\ cache' = [cache EXCEPT ![p] = NoConfig]
    /\ UNCHANGED <<active, saver, saves>>

-----------------------------------------------------------------------------
(* FeatureConfig.save *)

SaveInactive(p, c) ==
    /\ saver[p] = NotSaving
    /\ active' = active \ {c}
    /\ saves' = saves + 1
    /\ UNCHANGED <<cache, saver>>

BeginSave(p, c) ==
    /\ saver[p] = NotSaving
    /\ saver' = [saver EXCEPT ![p] = [row |-> c, seen |-> active]]
    /\ saves' = saves + 1
    /\ UNCHANGED <<active, cache>>

CommitSave(p) ==
    /\ saver[p] # NotSaving
    /\ active' = (active \ saver[p].seen) \cup {saver[p].row}
    /\ saver' = [saver EXCEPT ![p] = NotSaving]
    /\ cache' = [cache EXCEPT ![p] = NoConfig]
    /\ UNCHANGED saves

SaveConfig(p) == CommitSave(p) \/ \E c \in Configs : SaveInactive(p, c) \/ BeginSave(p, c)
=============================================================================
