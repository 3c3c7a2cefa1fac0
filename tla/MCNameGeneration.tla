-------------------------- MODULE MCNameGeneration --------------------------
(* Small instances of NameGeneration for TLC. *)
EXTENDS NameGenerationProperties, TLC

CONSTANTS n1, n2, n3, n4, n5, single, coined, double, f, m, e

\* Three levels' worth of pathways; level 2 has two of them, level 3 none that is enabled.
MCLevel == single :> 1 @@ coined :> 2 @@ double :> 2
FlatLevel == single :> 1 @@ coined :> 2
MCPerBatch == single :> 2 @@ coined :> 1 @@ double :> 1
MCYield == single :> {n1, n2, n3} @@ coined :> {n3, n4} @@ double :> {n5}
SmallYield == single :> {n1, n2} @@ coined :> {n2, n3}
SmallPerBatch == single :> 2 @@ coined :> 2
WidePerBatch == single :> 2 @@ coined :> 2 @@ double :> 1
WideYield == single :> {n1, n2, n4} @@ coined :> {n2} @@ double :> {n2}
MCOrigin == [r \in Requests |-> CASE r = f -> "first" [] r = m -> "more" [] r = e -> "experts"]
=============================================================================
