--------------------------- MODULE AccountsProperties ---------------------------
(* What an account keeps to, and how much may happen at one time. *)
EXTENDS Accounts

Sole    == Cardinality(env.web) <= 1
NoCrash == env.crashes = 0

\* A family has a parent and children, and no more generations, as the price of a batch takes for
\* granted, and the questionnaires of a family list each other, but for the parent, as related.
\* With one request at a time a child has a number of its own unless one has been deleted, and a
\* draft becomes one questionnaire.
FamilyKept ==
    /\ \A d \in Docs : doc[d].parent # None =>
           /\ doc[d].parent \in Questionnaires /\ doc[doc[d].parent].parent = None
    /\ \A d \in Questionnaires : \A c \in Related(d) : c \in Children(d) \/ d \in Related(c)
    /\ Sole /\ ~env.deletes => \A d \in Docs : \A b, c \in Children(d) : doc[b].number = doc[c].number => b = c
    /\ Sole => \A c, d \in Docs : doc[c].draft = doc[d].draft /\ doc[c].draft # None => c = d

\* A customer is reminded once at most, but for each mail that went out while SendGrid's answer was
\* lost, and the User row has the profile that the customer has sent last: requests and tasks that
\* save the whole row do not undo each other's columns, if none of them begins before the others
\* are through and no worker dies.
UserRowKept ==
    Sole /\ NoCrash /\ ~env.overlap =>
        /\ mails.sent <= 1 + mails.lost
        /\ (\A w \in Web : session[w] = NoSession) => user.profile = sent

\* Who has paid is a customer in HubSpot in the end and stays one, whatever is asked of HubSpot
\* besides and however late, unless a task fails for good; with one worker, and as long as
\* the payment is not deleted with its questionnaire.  (A gift card does not count as a payment:
\* who has bought one can be made an opportunity again.)
CustomersRecorded ==
    (env.workers = 1 /\ NoCrash /\ ~env.deletes /\ \E d \in Docs : payment[d] = "completed")
        ~> [](hub = "customer" \/ gaveUp)

\* Who has paid is a customer in HubSpot as soon as no deal is in the queue, whatever tasks were
\* overtaken, refused or repeated, unless one has failed for good: with one worker a check of
\* the payments does not come between another one and its update.
CustomerKept ==
    env.workers = 1 /\ NoCrash /\ HasPaid /\ (\A j \in Jobs : job[j].kind # "deal")
        => hub = "customer" \/ gaveUp
=============================================================================
