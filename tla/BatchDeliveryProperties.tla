----------------------- MODULE BatchDeliveryProperties -----------------------
(* What a customer gets for the payments, and under how much concurrency. *)
EXTENDS BatchDelivery

\* No task is at work, no message is on its way, and no request is being handled.
AtRest ==
    /\ \A q \in Makers : maker[q].pc \in {"none", "ended", "lost"}
    /\ \A b \in Batches :
        /\ checker[b].pc \in {"none", "done", "failed", "lost"}
        /\ rationales[b] # "queued" /\ phrases[b] # "queued"
    /\ \A e \in Events : event[e].pc \in {"idle", "ended"}

MailsSent == \A b \in Batches : checker[b].pc # "failed"
NoSaleYet == \A e \in Events : event[e].pc = "idle"

\* The customer does not get more batches than the first one and one for each completed
\* payment, though a batch is given away by check_phrases_completion, which looks at the
\* batches only, and by get_new_batch, which compares two counts that may both be old.  It
\* needs a single worker process, and each payment's event to come once.
BoughtWithinPaid ==
    plan = "paid" => Cardinality(bought) <= 1 + Cardinality(Completed)

\* The mail that announces the results is sent once, by whichever check comes first, as long as
\* one worker process runs them and none is lost after the mail and before the save.
ReadyMailOnce == crashes = 0 => mails <= 1

\* The batch that the tasks mark as bought, unlike one that a request sells, has a rationale
\* for each of its names: no row that create_batch is still filling passes for one.
FirstBatchRationaled ==
    [][\A b \in bought' \ bought :
           crashes = 0 => b \in rationaled \/ \E e \in Events : event[e].row = b]_bought

\* Until something is sold on the web, a customer with a batch whose names all have rationales
\* has bought one when the tasks are through, even if an earlier batch has not.
FirstBatchServed ==
    AtRest /\ NoSaleYet /\ MailsSent /\ crashes = 0 /\ rationaled # {} => bought # {}

\* No check is between its read of the rows and its last save, no row is being made, and no
\* request is about to save the one that it read.
NoRowHeld ==
    /\ \A q \in Makers : maker[q].pc # "making"
    /\ \A b \in Batches : checker[b].pc \notin {"loop", "save"}
    /\ \A e \in Events : event[e].pc # "sell"

\* What the customer sees or has bought at such a moment is never taken back, though checks and
\* requests save whole rows over each other afterwards, in any order and with any number of
\* workers, and create_batch deletes rows: an update is lost only to a row that was read before.
SettledIsKept ==
    \A b \in Batches :
        /\ [](NoRowHeld /\ b \in bought => [](b \in bought))
        /\ [](NoRowHeld /\ b \in visible => [](b \in visible))

\* Without crashes a batch that create_batch hands over is shown in the end: failed rationales
\* or phrases do not keep it from the customer, only a mail that cannot be sent does.
DelegatedIsShown ==
    \A b \in Batches : checker[b].pc = "delegate" ~> b \in visible \/ checker[b].pc = "failed"

\* A check that is through has shown its own batch, until something is sold on the web: neither
\* the rows that other tasks make and delete meanwhile nor the whole rows that other checks save
\* keep the batch from the customer, with any number of workers, and whichever of them die.
ShownWhenDone == NoSaleYet => \A b \in Batches : checker[b].pc = "done" => b \in visible

\* The number of completed payments is the number of bought batches, when there are batches
\* with rationales left to give: get_bought_batches_number counts the one for the other.
BoughtAsPaid ==
    plan = "paid" /\ AtRest /\ MailsSent /\ rationaled \subseteq rows /\ rationaled \ bought # {}
        => Cardinality(bought) >= 1 + Cardinality(Completed)
=============================================================================
