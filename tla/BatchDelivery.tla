---------------------------- MODULE BatchDelivery ----------------------------
(***************************************************************************)
(* From a filled batch to one the customer sees and has bought             *)
(* (app/algorithm/tasks.py, app/core/utils.py, app/core/signals.py,        *)
(* app/core/views.py): the tasks that write rationales and phrases, the    *)
(* check that makes batches visible and marks the first one as bought, and *)
(* the web requests and Stripe events that sell further ones.              *)
(*                                                                         *)
(* Tasks and web requests read and save whole ResultBatch rows, one        *)
(* statement at a time and without locks.  Each action is one database     *)
(* access with the messages sent right after it.  How create_batch chooses *)
(* names is the subject of NameGeneration; here it fills a row or fails.   *)
(***************************************************************************)
EXTENDS Naturals, FiniteSets, FiniteSetsExt

CONSTANTS
    Batches,        \* the ids of ResultBatch rows, in the order they are given out (bound)
    Orders,         \* the payments of type buy_more
    Events,         \* the Stripe events about them
    OrderOf,        \* [Events -> Orders]
    Plans,          \* pricing plans: "paid" (A and B) and "FREE"
    Concurrency,    \* worker processes
    MaxExperts,     \* payments for expert reviews (bound)
    MaxCrashes      \* tasks that die with their worker (bound)

ASSUME BatchAssumption ==
    /\ Batches \subseteq Nat \ {0} /\ IsFiniteSet(Batches)
ASSUME EventAssumption ==
    /\ IsFiniteSet(Orders) /\ IsFiniteSet(Events) /\ OrderOf \in [Events -> Orders]
    /\ {"first", "additional"} \cap Events = {}        \* the other create_batch tasks
ASSUME PlanAssumption == Plans \subseteq {"paid", "FREE"}
ASSUME WorkerAssumption == Concurrency \in Nat
ASSUME BoundAssumption == MaxExperts \in Nat /\ MaxCrashes \in Nat

NoBatch == 0

VARIABLES
    plan,       \* FeatureConfig.pricing_plan
    lastId,     \* the sequence of ResultBatch ids
    rows,       \* the ResultBatch rows, and those among them that are
    visible,    \*   visible
    bought,     \*   bought
    filled,     \* batches that have their Result rows
    rationaled, \* batches whose results all have a rationale
    maker,      \* [Makers -> a create_batch task and the row it makes]
    rationales, \* [Batches -> the batch's generate_rationales task]
    phrases,    \* [Batches -> its generate_result_phrases task]
    checker,    \* [Batches -> the checks that follow the batch, with their locals]
    order,      \* [Orders -> status of the Payment]
    experts,    \* completed payments for expert reviews
    event,      \* [Events -> the web request that handles it, with its locals]
    mails,      \* result_ready_email messages sent
    crashes

rowVars  == <<rows, visible, bought>>
dataVars == <<filled, rationaled>>
taskVars == <<maker, rationales, phrases, checker>>
webVars  == <<order, experts, event>>
vars == <<plan, lastId, rowVars, dataVars, taskVars, webVars, mails, crashes>>

\* get_first_batch sends the first chain, whose batch sends an additional create_batch; a
\* request that sells a batch sends one more.
Makers == Events \cup {"first", "additional"}

MakerPc == {"none", "queued", "making", "ended", "lost"}
TaskPc  == {"none", "queued", "ended", "lost"}
CheckPc == {"none", "delegate", "rationales", "phrases", "loop", "save", "done", "failed", "lost"}
EventPc == {"idle", "count", "compare", "pick", "sell", "ended"}

Maker   == [pc : MakerPc, row : Batches \cup {NoBatch}]
\* todo: rows still to visit; seen: those that were bought when the rows were read
Checker == [pc : CheckPc, todo : SUBSET Batches, seen : SUBSET Batches,
            row : Batches \cup {NoBatch}, buy : BOOLEAN]
\* count: bought batches counted; row, shown: the row to sell as it was read
Request == [pc : EventPc, count : Nat, row : Batches \cup {NoBatch}, shown : BOOLEAN]

Sent == [pc |-> "queued", row |-> NoBatch]
Off  == [pc |-> "none", todo |-> {}, seen |-> {}, row |-> NoBatch, buy |-> FALSE]
Idle == [pc |-> "idle", count |-> 0, row |-> NoBatch, shown |-> FALSE]

RowsOK ==
    /\ plan \in Plans /\ lastId \in Nat /\ mails \in Nat /\ crashes \in Nat
    /\ rows \subseteq Batches /\ visible \subseteq rows /\ bought \subseteq rows
    /\ filled \subseteq Batches /\ rationaled \subseteq Batches
\* A task or request holds a row exactly while it is about to write it.
MakersOK ==
    /\ maker \in [Makers -> Maker]
    /\ \A q \in Makers : maker[q].pc = "making" <=> maker[q].row # NoBatch
ChecksOK ==
    /\ rationales \in [Batches -> TaskPc] /\ phrases \in [Batches -> TaskPc]
    /\ checker \in [Batches -> Checker]
    /\ \A b \in Batches : checker[b].pc = "save" <=> checker[b].row # NoBatch
WebOK ==
    /\ order \in [Orders -> {"none", "open", "completed", "failed"}] /\ experts \in Nat
    /\ event \in [Events -> Request]
    /\ \A e \in Events : event[e].pc = "sell" <=> event[e].row # NoBatch
TypeOK == RowsOK /\ MakersOK /\ ChecksOK /\ WebOK

-----------------------------------------------------------------------------
(* Worker processes *)

Busy ==
      Cardinality({q \in Makers : maker[q].pc = "making"})
    + Cardinality({b \in Batches : checker[b].pc \in {"loop", "save"}})

WorkerFree == Busy < Concurrency

-----------------------------------------------------------------------------
\* The first batch is paid for, or the plan is free; its chain has come to create_batch.
Init ==
    /\ plan \in Plans
    /\ lastId = 0 /\ mails = 0 /\ crashes = 0
    /\ rows = {} /\ visible = {} /\ bought = {}
    /\ filled = {} /\ rationaled = {}
    /\ maker = [q \in Makers |-> IF q = "first" THEN Sent ELSE [Sent EXCEPT !.pc = "none"]]
    /\ rationales = [b \in Batches |-> "none"]
    /\ phrases = [b \in Batches |-> "none"]
    /\ checker = [b \in Batches |-> Off]
    /\ order = [o \in Orders |-> "none"] /\ experts = 0
    /\ event = [e \in Events |-> Idle]

-----------------------------------------------------------------------------
(* create_batch *)

\* With enough candidates a row is created; a chain that goes through another generation stays
\* queued here.
MakeRow(q) ==
    /\ maker[q].pc = "queued"
    /\ WorkerFree
    /\ lastId + 1 \in Batches
    /\ lastId' = lastId + 1
    /\ rows' = rows \cup {lastId'}
    /\ maker' = [maker EXCEPT ![q] = [pc |-> "making", row |-> lastId']]
    /\ UNCHANGED <<plan, visible, bought, dataVars, rationales, phrases, checker, webVars,
                   mails, crashes>>

\* The generation comes to the end of the cascade and the chain with it.
StopChain(q) ==
    /\ maker[q].pc = "queued"
    /\ maker' = [maker EXCEPT ![q].pc = "ended"]
    /\ UNCHANGED <<plan, lastId, rowVars, dataVars, rationales, phrases, checker, webVars,
                   mails, crashes>>

\* The results are created, the batch is delegated, and the first chain sends the additional one.
FillRow(q) ==
    /\ maker[q].pc = "making"
    /\ filled' = filled \cup {maker[q].row}
    /\ maker' = [r \in Makers |->
            IF r = q THEN [pc |-> "ended", row |-> NoBatch]
            ELSE IF q = "first" /\ r = "additional" THEN Sent
            ELSE maker[r]]
    /\ checker' = [checker EXCEPT ![maker[q].row] = [Off EXCEPT !.pc = "delegate"]]
    /\ UNCHANGED <<plan, lastId, rowVars, rationaled, rationales, phrases, webVars,
                   mails, crashes>>

DeleteRow_RowKept(q) ==
    /\ maker[q].pc = "making"
    /\ rows' = rows \ {maker[q].row}
    /\ visible' = visible \ {maker[q].row}
    /\ bought' = bought \ {maker[q].row}
    /\ maker' = [maker EXCEPT ![q].pc = "queued"]
    /\ UNCHANGED <<plan, lastId, dataVars, rationales, phrases, checker, webVars, mails, crashes>>

\* except BatchingException: the row is deleted and more candidates are generated.
DeleteRow(q) ==
    /\ maker[q].pc = "making"
    /\ rows' = rows \ {maker[q].row}
    /\ visible' = visible \ {maker[q].row}
    /\ bought' = bought \ {maker[q].row}
    /\ maker' = [maker EXCEPT ![q] = Sent]
    /\ UNCHANGED <<plan, lastId, dataVars, rationales, phrases, checker, webVars, mails, crashes>>

-----------------------------------------------------------------------------
(* delegate_rationale_tasks, generate_rationales, generate_result_phrases *)

Delegate(b) ==
    /\ checker[b].pc = "delegate"
    /\ WorkerFree
    /\ rationales' = [rationales EXCEPT ![b] = "queued"]
    /\ checker' = [checker EXCEPT ![b].pc = "rationales"]
    /\ UNCHANGED <<plan, lastId, rowVars, dataVars, maker, phrases, webVars, mails, crashes>>

\* The task writes rationales into the results of its batch until it is through or an exception
\* ends it; the model may also leave names out.  What is not written stays empty.  No other task
\* writes these results, so that the whole task is one step.
GenerateRationales(b) ==
    /\ rationales[b] = "queued"
    /\ WorkerFree
    /\ rationales' = [rationales EXCEPT ![b] = "ended"]
    /\ rationaled' \in {rationaled, rationaled \cup {b}}
    /\ UNCHANGED <<plan, lastId, rowVars, filled, maker, phrases, checker, webVars, mails, crashes>>

\* Likewise for the example phrases, which nothing here reads.
GeneratePhrases(b) ==
    /\ phrases[b] = "queued"
    /\ WorkerFree
    /\ phrases' = [phrases EXCEPT ![b] = "ended"]
    /\ UNCHANGED <<plan, lastId, rowVars, dataVars, maker, rationales, checker, webVars, mails,
                   crashes>>

-----------------------------------------------------------------------------
(* check_rationales_completion and check_phrases_completion *)

Ready_Rationaled(b) == b \in rationaled
Ready(b) == rationales[b] = "ended"

\* Until then the check sends itself again, which changes nothing.
CheckRationales(b) ==
    /\ checker[b].pc = "rationales"
    /\ WorkerFree
    /\ Ready(b)
    /\ phrases' = [phrases EXCEPT ![b] = "queued"]
    /\ checker' = [checker EXCEPT ![b].pc = "phrases"]
    /\ UNCHANGED <<plan, lastId, rowVars, dataVars, maker, rationales, webVars, mails, crashes>>

\* It is given the ids of the rationale tasks, and reads all the batches of the questionnaire.
CheckPhrases(b) ==
    /\ checker[b].pc = "phrases"
    /\ WorkerFree
    /\ Ready(b)
    /\ checker' = [checker EXCEPT ![b] =
            [pc |-> "loop", todo |-> rows, seen |-> bought, row |-> NoBatch, buy |-> FALSE]]
    /\ UNCHANGED <<plan, lastId, rowVars, dataVars, maker, rationales, phrases, webVars, mails,
                   crashes>>

NoEmptyRationale_Skipped(c) == c \in rows

\* results.filter(rationale="") finds nothing; a row without results passes.
NoEmptyRationale(c) == c \in filled => c \in rationaled

Decide_MailForEach(b) ==
    /\ checker[b].pc = "loop"
    /\ \E c \in checker[b].todo :
        LET buy == NoEmptyRationale(c) /\ bought = {}
        IN  /\ checker' = [checker EXCEPT ![b].pc = "save", ![b].row = c, ![b].buy = buy,
                                          ![b].todo = @ \ {c}]
            /\ mails' = IF NoEmptyRationale(c) THEN mails + 1 ELSE mails
    /\ UNCHANGED <<plan, lastId, rowVars, dataVars, maker, rationales, phrases, webVars, crashes>>

Decide_OldestOnly(b) ==
    /\ checker[b].pc = "loop"
    /\ \E c \in checker[b].todo :
        LET buy == NoEmptyRationale(c) /\ bought = {} /\ c = Min(rows)
        IN  /\ checker' = [checker EXCEPT ![b].pc = "save", ![b].row = c, ![b].buy = buy,
                                          ![b].todo = @ \ {c}]
            /\ mails' = IF buy THEN mails + 1 ELSE mails
    /\ UNCHANGED <<plan, lastId, rowVars, dataVars, maker, rationales, phrases, webVars, crashes>>

\* The first batch without an empty rationale is bought, unless another one is: the mail goes
\* out, and the row is saved after it.
Decide(b) ==
    /\ checker[b].pc = "loop"
    /\ \E c \in checker[b].todo :
        LET buy == NoEmptyRationale(c) /\ bought = {}
        IN  /\ checker' = [checker EXCEPT ![b].pc = "save", ![b].row = c, ![b].buy = buy,
                                          ![b].todo = @ \ {c}]
            /\ mails' = IF buy THEN mails + 1 ELSE mails
    /\ UNCHANGED <<plan, lastId, rowVars, dataVars, maker, rationales, phrases, webVars, crashes>>

\* The mail cannot be sent, and the exception ends the check before it saves the row.
MailFails(b) ==
    /\ checker[b].pc = "loop" /\ bought = {}
    /\ \E c \in checker[b].todo : NoEmptyRationale(c)
    /\ checker' = [checker EXCEPT ![b] = [Off EXCEPT !.pc = "failed"]]
    /\ UNCHANGED <<plan, lastId, rowVars, dataVars, maker, rationales, phrases, webVars, mails,
                   crashes>>

SaveBatch_ForgetsSeen(b) ==
    LET c == checker[b].row
    IN  /\ checker[b].pc = "save"
        /\ rows' = rows \cup {c}
        /\ visible' = visible \cup {c}
        /\ bought' = IF checker[b].buy THEN bought \cup {c} ELSE bought \ {c}
        /\ checker' = [checker EXCEPT ![b].pc = "loop", ![b].row = NoBatch, ![b].buy = FALSE]
        /\ UNCHANGED <<plan, lastId, dataVars, maker, rationales, phrases, webVars, mails, crashes>>

\* batch.save() writes the row it read, visible now, and inserts it if it is gone.
SaveBatch(b) ==
    LET c == checker[b].row
    IN  /\ checker[b].pc = "save"
        /\ rows' = rows \cup {c}
        /\ visible' = visible \cup {c}
        /\ bought' = IF checker[b].buy \/ c \in checker[b].seen THEN bought \cup {c}
                                                              ELSE bought \ {c}
        /\ checker' = [checker EXCEPT ![b].pc = "loop", ![b].row = NoBatch, ![b].buy = FALSE]
        /\ UNCHANGED <<plan, lastId, dataVars, maker, rationales, phrases, webVars, mails, crashes>>

EndCheck(b) ==
    /\ checker[b].pc = "loop"
    /\ checker[b].todo = {}
    /\ checker' = [checker EXCEPT ![b] = [Off EXCEPT !.pc = "done"]]
    /\ UNCHANGED <<plan, lastId, rowVars, dataVars, maker, rationales, phrases, webVars, mails,
                   crashes>>

-----------------------------------------------------------------------------
(* BuyMore, the Stripe events and get_new_batch, in the web processes *)

\* has_available_batches; the checkout session and the Payment are created.
BuyMore(o) ==
    /\ plan = "paid" /\ order[o] = "none"
    /\ rows \ bought # {}
    /\ order' = [order EXCEPT ![o] = "open"]
    /\ UNCHANGED <<plan, lastId, rowVars, dataVars, taskVars, experts, event, mails, crashes>>

\* In the free plan the request goes on to get_new_batch.
BuyMoreFree(e) ==
    /\ plan = "FREE" /\ event[e].pc = "idle"
    /\ rows \ bought # {}
    /\ event' = [event EXCEPT ![e].pc = "count"]
    /\ UNCHANGED <<plan, lastId, rowVars, dataVars, taskVars, order, experts, mails, crashes>>

HandleEvent_AnyStatus(e) ==
    /\ event[e].pc = "idle" /\ order[OrderOf[e]] # "none"
    /\ \E status \in {"completed", "failed"} :
        /\ order' = [order EXCEPT ![OrderOf[e]] = status]
        /\ event' = [event EXCEPT ![e].pc = "count"]
    /\ UNCHANGED <<plan, lastId, rowVars, dataVars, taskVars, experts, mails, crashes>>

\* BatchHandler saves the status of the event; bought_new_batch goes on if it is completed.
HandleEvent(e) ==
    /\ event[e].pc = "idle" /\ order[OrderOf[e]] # "none"
    /\ \E status \in {"completed", "failed"} :
        /\ order' = [order EXCEPT ![OrderOf[e]] = status]
        /\ event' = [event EXCEPT ![e].pc = IF status = "completed" THEN "count" ELSE "ended"]
    /\ UNCHANGED <<plan, lastId, rowVars, dataVars, taskVars, experts, mails, crashes>>

PayExperts ==
    /\ experts < MaxExperts
    /\ experts' = experts + 1
    /\ UNCHANGED <<plan, lastId, rowVars, dataVars, taskVars, order, event, mails, crashes>>

CountBought(e) ==
    /\ event[e].pc = "count"
    /\ event' = [event EXCEPT ![e].pc = "compare", ![e].count = Cardinality(bought)]
    /\ UNCHANGED <<plan, lastId, rowVars, dataVars, taskVars, order, experts, mails, crashes>>

\* Payments of every type count: the initial one, those for expert reviews, and the orders.
Completed == {o \in Orders : order[o] = "completed"}
Paid == 1 + experts + Cardinality(Completed)

ComparePaid(e) ==
    /\ event[e].pc = "compare"
    /\ event' = [event EXCEPT
            ![e] = [Idle EXCEPT !.pc = IF event[e].count < Paid \/ plan = "FREE"
                                       THEN "pick" ELSE "ended"]]
    /\ UNCHANGED <<plan, lastId, rowVars, dataVars, taskVars, order, experts, mails, crashes>>

\* first() of the rows that are not bought, whether or not they have results; create_batch is
\* sent for its successor.  Without one the request ends.
PickBatch(e) ==
    /\ event[e].pc = "pick"
    /\ \/ /\ rows \ bought # {}
          /\ LET first == Min(rows \ bought)
             IN  event' = [event EXCEPT ![e] = [pc |-> "sell", count |-> 0, row |-> first,
                                                shown |-> first \in visible]]
          /\ maker' = [maker EXCEPT ![e] = Sent]
       \/ /\ rows \ bought = {}
          /\ event' = [event EXCEPT ![e].pc = "ended"]
          /\ UNCHANGED maker
    /\ UNCHANGED <<plan, lastId, rowVars, dataVars, rationales, phrases, checker, order, experts, mails,
                   crashes>>

\* first_unbought_batch.save() writes the row it read, bought now.
SellBatch(e) ==
    LET b == event[e].row
    IN  /\ event[e].pc = "sell"
        /\ rows' = rows \cup {b}
        /\ bought' = bought \cup {b}
        /\ visible' = IF event[e].shown THEN visible \cup {b} ELSE visible \ {b}
        /\ event' = [event EXCEPT ![e] = [Idle EXCEPT !.pc = "ended"]]
        /\ UNCHANGED <<plan, lastId, dataVars, taskVars, order, experts, mails, crashes>>

-----------------------------------------------------------------------------
(* A worker that dies takes its task with it: tasks are acknowledged before they run. *)

Lose ==
    /\ crashes < MaxCrashes
    /\ crashes' = crashes + 1
    /\ \/ /\ \E q \in Makers :
               /\ maker[q].pc = "making"
               /\ maker' = [maker EXCEPT ![q] = [pc |-> "lost", row |-> NoBatch]]
          /\ UNCHANGED <<rationales, phrases, checker>>
       \/ /\ \E b \in Batches :
               /\ rationales[b] = "queued"
               /\ rationales' = [rationales EXCEPT ![b] = "lost"]
          /\ UNCHANGED <<maker, phrases, checker>>
       \/ /\ \E b \in Batches :
               /\ phrases[b] = "queued"
               /\ phrases' = [phrases EXCEPT ![b] = "lost"]
          /\ UNCHANGED <<maker, rationales, checker>>
       \/ /\ \E b \in Batches :
               /\ checker[b].pc \in {"loop", "save"}
               /\ checker' = [checker EXCEPT ![b] = [Off EXCEPT !.pc = "lost"]]
          /\ UNCHANGED <<maker, rationales, phrases>>
    /\ UNCHANGED <<plan, lastId, rowVars, dataVars, webVars, mails>>

-----------------------------------------------------------------------------
MakerStep(q) == MakeRow(q) \/ StopChain(q) \/ FillRow(q) \/ DeleteRow(q)
TextStep(b) == GenerateRationales(b) \/ GeneratePhrases(b)
CheckStep(b) ==
    \/ Delegate(b) \/ CheckRationales(b) \/ CheckPhrases(b)
    \/ Decide(b) \/ MailFails(b) \/ SaveBatch(b) \/ EndCheck(b)
SaleStep(e) == CountBought(e) \/ ComparePaid(e) \/ PickBatch(e) \/ SellBatch(e)

Next ==
    \/ \E q \in Makers : MakerStep(q)
    \/ \E b \in Batches : TextStep(b) \/ CheckStep(b)
    \/ \E o \in Orders : BuyMore(o)
    \/ \E e \in Events : BuyMoreFree(e) \/ HandleEvent(e) \/ SaleStep(e)
    \/ PayExperts
    \/ Lose

Spec == Init /\ [][Next]_vars

\* The broker hands every message to a worker, and a worker goes on with its task.
Fairness ==
    /\ \A q \in Makers : WF_vars(FillRow(q) \/ DeleteRow(q))
    /\ \A b \in Batches : WF_vars(TextStep(b)) /\ WF_vars(CheckStep(b))
FairSpec == Spec /\ Fairness
=============================================================================
