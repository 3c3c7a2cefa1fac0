--------------------------- MODULE MCBatchDelivery ---------------------------
(* Small instances of BatchDelivery for TLC. *)
EXTENDS BatchDeliveryProperties, TLC

CONSTANTS o1, o2, e1, e2

OwnEvents  == e1 :> o1 @@ e2 :> o2
SameOrder  == e1 :> o1 @@ e2 :> o1
OneEvent   == e1 :> o1
=============================================================================
