----------------------------- MODULE NameLedger -----------------------------
(***************************************************************************)
(* What name generation promises a customer, and nothing of how: a name is *)
(* unknown, then at most once a candidate, then at most once part of a     *)
(* batch, and a batch is filled once, with BatchSize candidates, at one    *)
(* stroke.  NameGeneration implements it while a single worker process     *)
(* runs the tasks.                                                         *)
(***************************************************************************)
EXTENDS Naturals, FiniteSets

CONSTANTS Names, Batches, BatchSize

VARIABLES
    pool,   \* the names waiting as candidates
    batch   \* [Batches -> the set of names delivered in it]

ledger == <<pool, batch>>

Delivered == UNION {batch[b] : b \in Batches}

Init ==
    /\ pool = {}
    /\ batch = [b \in Batches |-> {}]

\* A pathway comes up with a name nobody has seen.
Propose(n) ==
    /\ n \notin pool \cup Delivered
    /\ pool' = pool \cup {n}
    /\ UNCHANGED batch

\* An empty batch takes BatchSize candidates, which leave the pool with it.
Deliver(b, S) ==
    /\ batch[b] = {}
    /\ Cardinality(S) = BatchSize
    /\ S \subseteq pool
    /\ pool' = pool \ S
    /\ batch' = [batch EXCEPT ![b] = S]

Next ==
    \/ \E n \in Names : Propose(n)
    \/ \E b \in Batches, S \in SUBSET Names : Deliver(b, S)

Spec == Init /\ [][Next]_ledger
=============================================================================
