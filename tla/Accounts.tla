-------------------------------- MODULE Accounts --------------------------------
(***************************************************************************)
(* A customer's account: its User row (app/core/authentication.py), its    *)
(* questionnaires and drafts (Drafts), and what the Celery tasks of        *)
(* app/core/tasks.py do about it: one mail that reminds of a questionnaire *)
(* not paid, and the contact in HubSpot with its deals and its stage.      *)
(*                                                                         *)
(* Every save of the User row sends the task that creates the contact, and *)
(* writes all columns as they were read.  A task that HubSpot gave no      *)
(* answer to is sent again, up to max_retries; whether HubSpot has done    *)
(* what it was asked for is then open.  A worker that dies loses its task  *)
(* (early acknowledgement).                                                *)
(***************************************************************************)
EXTENDS Drafts, Sequences

CONSTANTS
    Places,         \* places in the queue (bound)
    MaxRetries,     \* [kinds of tasks -> max_retries]
    Environments    \* what may happen: [web |-> the requests at one time, workers |-> the tasks at
                    \*   one time, overlap |-> the User row is read again before the tasks about it
                    \*   are through, deletes |-> rows are deleted, gifts |-> gift cards bought,
                    \*   queue, docs, pays, edits, schedules, errors, crashes |-> tasks in the queue,
                    \*   rows inserted, payments, profiles sent, runs of the schedule, answers that
                    \*   HubSpot or SendGrid fails to give, workers that die (bounds)]

ASSUME AccountsAssumption ==
    /\ Places \in Nat
    /\ MaxRetries \in [{"contact", "deal", "opportunity"} -> Nat]
    /\ Environments \subseteq
           [web : SUBSET Web, workers : Nat, overlap : BOOLEAN, deletes : BOOLEAN, gifts : BOOLEAN,
            queue : 0..Places, docs : 0..LastDoc, pays : Nat, edits : Nat, schedules : Nat,
            errors : Nat, crashes : Nat]

Jobs == 1..Places

VARIABLES
    env,        \* which of the Environments this is
    user,       \* the User row, with the number of the profile it has
    sent,       \* profiles that the customer has sent
    session,    \* [Web -> a request about the User row, and the row as it has read it]
    payment,    \* [Docs -> status of the questionnaire's initial payment]
    gift,       \* a gift card: its promo codes, and the mail with them
    job,        \* [Jobs -> the task in this place]
    mails,      \* reminders that went out, and how many of them the task took for failed
    hub,        \* the contact in HubSpot, if there is one, with its lifecycle stage
    gaveUp,     \* a task has used up its retries, or has met an error that is not retried
    schedules, errors, crashes

userVars == <<user, sent, session>>
paidVars == <<payment, gift>>
hubVars  == <<hub, gaveUp, errors>>
jobVars  == <<job, mails, hubVars, crashes>>
bounds   == <<env, schedules>>
vars     == <<draftVars, userVars, paidVars, jobVars, bounds>>

NoUser    == [exists |-> FALSE, profile |-> 0, reminded |-> FALSE]
NoSession == [pc |-> "idle", user |-> NoUser]
NoJob     == [kind |-> "none", pc |-> "sent", tries |-> 0, user |-> NoUser]
NoContact == "none"

Init ==
    /\ InitDrafts /\ env \in Environments
    /\ user = NoUser /\ sent = 0 /\ session = [w \in Web |-> NoSession]
    /\ payment = [d \in Docs |-> "none"] /\ gift = "none"
    /\ job = [j \in Jobs |-> NoJob] /\ mails = [sent |-> 0, lost |-> 0]
    /\ hub = NoContact /\ gaveUp = FALSE
    /\ schedules = 0 /\ errors = 0 /\ crashes = 0

-----------------------------------------------------------------------------
(* The queue *)

Free == {j \in 1..env.queue : job[j] = NoJob}
Place(n) == CHOOSE P \in SUBSET Free : Cardinality(P) = n /\ \A j \in P, k \in Free \ P : j < k
CanSend(n) == Cardinality(Free) >= n
Send(kind) ==
    /\ CanSend(1)
    /\ job' = [j \in Jobs |-> IF j \in Place(1) THEN [NoJob EXCEPT !.kind = kind] ELSE job[j]]

Working == {j \in Jobs : job[j].pc # "sent"}
Takes(j, kind) ==
    /\ job[j].kind = kind /\ job[j].pc = "sent"
    /\ Cardinality(Working) < env.workers
Finish(j) == job' = [job EXCEPT ![j] = NoJob]

GiveUp(j) == Finish(j) /\ gaveUp' = TRUE

\* autoretry_for
Retry(j) ==
    IF job[j].tries < MaxRetries[job[j].kind]
    THEN /\ job' = [job EXCEPT ![j] = [NoJob EXCEPT !.kind = job[j].kind, !.tries = job[j].tries + 1]]
         /\ UNCHANGED gaveUp
    ELSE GiveUp(j)

\* HubSpot's answer is an ApiException, or there is none (any other exception, which is not
\* retried), and it has done so or not.
Error(j, done) ==
    /\ errors < env.errors /\ errors' = errors + 1
    /\ hub' \in {hub, done} /\ (Retry(j) \/ GiveUp(j))
Answer(j, done) == hub' = done /\ Finish(j) /\ UNCHANGED <<gaveUp, errors>>

-----------------------------------------------------------------------------
(* Auth0TokenAuthentication and the user's page *)

SaveUser(row) == user' = [row EXCEPT !.exists = TRUE] /\ Send("contact")

\* Without a row the user's data is fetched from Auth0.
Authenticate(w) ==
    /\ w \in env.web /\ session[w] = NoSession /\ ~user.exists
    /\ session' = [session EXCEPT ![w].pc = "create"]
    /\ UNCHANGED <<draftVars, user, sent, paidVars, jobVars, bounds>>

\* get_or_create; names are set in another save if they are empty.
GetOrCreateUser(w) ==
    /\ session[w].pc = "create"
    /\ session' = [session EXCEPT ![w] = [pc |-> "names", user |-> [user EXCEPT !.exists = TRUE]]]
    /\ IF user.exists THEN UNCHANGED <<user, job>> ELSE SaveUser(user)
    /\ UNCHANGED <<draftVars, sent, paidVars, mails, hubVars, crashes, bounds>>
FillNames(w) ==
    /\ session[w].pc = "names"
    /\ IF session[w].user.profile = 0 THEN SaveUser(session[w].user) ELSE UNCHANGED <<user, job>>
    /\ session' = [session EXCEPT ![w] = NoSession]
    /\ UNCHANGED <<draftVars, sent, paidVars, mails, hubVars, crashes, bounds>>

Reminding == \E j \in Jobs : job[j].kind = "remind"

\* UpdateAndViewUserInfo: the row that authentication has read, with the names of the request.
OpenProfile(w) ==
    /\ w \in env.web /\ session[w] = NoSession /\ user.exists
    /\ sent < env.edits /\ sent' = sent + 1
    /\ ~env.overlap => ~Reminding
    /\ session' = [session EXCEPT ![w] = [pc |-> "edit", user |-> [user EXCEPT !.profile = sent + 1]]]
    /\ UNCHANGED <<draftVars, user, paidVars, jobVars, bounds>>
SaveProfile(w) ==
    /\ session[w].pc = "edit" /\ SaveUser(session[w].user)
    /\ session' = [session EXCEPT ![w] = NoSession]
    /\ UNCHANGED <<draftVars, sent, paidVars, mails, hubVars, crashes, bounds>>

-----------------------------------------------------------------------------
(* Requests about questionnaires and drafts, and payments *)

\* QuestionnaireFilter
Paid   == {d \in Questionnaires : payment[d] = "completed"}
Unpaid == Questionnaires \ Paid

RequestDoc(w) ==
    /\ user.exists /\ w \in env.web
    /\ \/ \E answers \in Answers : CreateQuestionnaire(answers) \/ CreateDraft(answers)
       \/ GetDoc(w) /\ (request'[w].pc = "delete" => env.deletes)
       \/ SaveDoc(w) \/ CountQuestionnaires(w) \/ CountDrafts(w) \/ InsertChild(w)
    /\ docs' <= env.docs
    /\ UNCHANGED <<userVars, paidVars, jobVars, bounds>>

\* The payments of a questionnaire are deleted with it.
Delete(w) ==
    /\ DeleteDoc(w)
    /\ payment' = [d \in Docs |-> IF doc'[d] = NoDoc THEN "none" ELSE payment[d]]
    /\ UNCHANGED <<userVars, gift, jobVars, bounds>>

Complete(w) ==
    /\ CompleteDraft(w) /\ docs' <= env.docs
    /\ IF Completes(w) THEN Send("opportunity") ELSE UNCHANGED job
    /\ UNCHANGED <<userVars, paidVars, mails, hubVars, crashes, bounds>>

\* CreatePayment, and BatchHandler for the event of a completed session.
Buy(d) ==
    /\ d \in Unpaid
    /\ payment[d] = "none" /\ Cardinality({e \in Docs : payment[e] # "none"}) < env.pays
    /\ payment' = [payment EXCEPT ![d] = "open"]
    /\ UNCHANGED <<draftVars, userVars, gift, jobVars, bounds>>
CompletePayment(d) ==
    /\ payment[d] = "open"
    /\ payment' = [payment EXCEPT ![d] = "completed"] /\ Send("deal")
    /\ UNCHANGED <<draftVars, userVars, gift, mails, hubVars, crashes, bounds>>

\* GiftCardHandler, for one who has no account, or has one.
GiftTasks == <<"contact", "promo", "deal">>
BuyGift ==
    /\ env.gifts /\ gift = "none" /\ gift' = "bought" /\ CanSend(3)
    /\ LET Nth(j) == Cardinality({k \in Place(3) : k <= j})
       IN  job' = [j \in Jobs |-> IF j \in Place(3) THEN [NoJob EXCEPT !.kind = GiftTasks[Nth(j)]] ELSE job[j]]
    /\ UNCHANGED <<draftVars, userVars, payment, mails, hubVars, crashes, bounds>>

\* Stripe may fail, then or after some of the codes: without autoretry_for that is the end of it.
CreatePromoCodes(j) ==
    /\ Takes(j, "promo")
    /\ \/ gift' = "coded" /\ job' = [job EXCEPT ![j] = [NoJob EXCEPT !.kind = "giftmail"]]
       \/ Finish(j) /\ UNCHANGED gift
    /\ UNCHANGED <<draftVars, userVars, payment, mails, hubVars, crashes, bounds>>
SendGiftMail(j) ==
    /\ Takes(j, "giftmail") /\ Finish(j)
    /\ gift' \in {gift, "mailed"}
    /\ UNCHANGED <<draftVars, userVars, payment, mails, hubVars, crashes, bounds>>

-----------------------------------------------------------------------------
(* The reminder *)

ToRemind_Again ==
    /\ user.exists
    /\ \A d \in Docs : payment[d] = "none"
    /\ Questionnaires \cup DraftDocs # {}
ToRemind ==
    /\ user.exists /\ ~user.reminded
    /\ \A d \in Docs : payment[d] = "none"
    /\ Questionnaires \cup DraftDocs # {}

\* Celery beat.
ScheduleReminder ==
    /\ schedules < env.schedules /\ schedules' = schedules + 1
    /\ ~env.overlap => ~Reminding /\ \A w \in Web : session[w] = NoSession
    /\ ToRemind /\ Send("remind")
    /\ UNCHANGED <<draftVars, userVars, paidVars, mails, hubVars, crashes, env>>

\* The task is not repeated if the mail fails, or is sent while SendGrid's answer is lost.
SendReminder(j) ==
    /\ Takes(j, "remind")
    /\ \/ /\ mails' = [mails EXCEPT !.sent = @ + 1]
          /\ job' = [job EXCEPT ![j].pc = "save", ![j].user = user]
       \/ Finish(j) /\ UNCHANGED mails
       \/ /\ Finish(j) /\ mails.lost < env.errors
          /\ mails' = [sent |-> mails.sent + 1, lost |-> mails.lost + 1]
    /\ UNCHANGED <<draftVars, userVars, paidVars, hubVars, crashes, bounds>>

\* The task that the save sends takes the place of this one.
SaveReminded(j) ==
    /\ job[j].pc = "save"
    /\ user' = [job[j].user EXCEPT !.reminded = TRUE]
    /\ job' = [job EXCEPT ![j] = [NoJob EXCEPT !.kind = "contact"]]
    /\ UNCHANGED <<draftVars, sent, session, paidVars, mails, hubVars, crashes, bounds>>

-----------------------------------------------------------------------------
(* HubSpotClient *)

HasContact == hub # NoContact
Contacted  == IF HasContact THEN hub ELSE "lead"

\* A conflict counts as done.
CreateContact(j) ==
    /\ Takes(j, "contact")
    /\ Answer(j, Contacted) \/ Error(j, Contacted)
    /\ UNCHANGED <<draftVars, userVars, paidVars, mails, crashes, bounds>>

\* get_contact_id_by_email: ContactDoesNotExistException is retried as well.
FindContact(j) ==
    /\ Takes(j, "deal")
    /\ \/ HasContact /\ job' = [job EXCEPT ![j].pc = "found"] /\ UNCHANGED hubVars
       \/ ~HasContact /\ Retry(j) /\ UNCHANGED <<hub, errors>>
       \/ Error(j, hub)
    /\ UNCHANGED <<draftVars, userVars, paidVars, mails, crashes, bounds>>

\* With a deal that is won HubSpot makes the contact a customer.
CreateDeal(j) ==
    /\ job[j].pc = "found"
    /\ Answer(j, "customer") \/ Error(j, "customer")
    /\ UNCHANGED <<draftVars, userVars, paidVars, mails, crashes, bounds>>

HasPaid_Open == \E d \in Docs : payment[d] = "open"
HasPaid == \E d \in Docs : payment[d] = "completed"

\* update_hubspot_client_to_opportunity
CheckPayments(j) ==
    /\ Takes(j, "opportunity")
    /\ IF HasPaid THEN Finish(j) ELSE job' = [job EXCEPT ![j].pc = "update"]
    /\ UNCHANGED <<draftVars, userVars, paidVars, mails, hubVars, crashes, bounds>>

\* NotFoundException is an ApiException.
UpdateStage(j) ==
    /\ job[j].pc = "update"
    /\ \/ HasContact /\ (Answer(j, "opportunity") \/ Error(j, "opportunity"))
       \/ ~HasContact /\ Retry(j) /\ UNCHANGED <<hub, errors>>
    /\ UNCHANGED <<draftVars, userVars, paidVars, mails, crashes, bounds>>

Crash(j) ==
    /\ job[j] # NoJob /\ crashes < env.crashes /\ crashes' = crashes + 1
    /\ Finish(j)
    /\ UNCHANGED <<draftVars, userVars, paidVars, mails, hubVars, bounds>>

-----------------------------------------------------------------------------
JobStep(j) ==
    \/ SendReminder(j) \/ SaveReminded(j) \/ CreatePromoCodes(j) \/ SendGiftMail(j)
    \/ CreateContact(j) \/ FindContact(j) \/ CreateDeal(j) \/ CheckPayments(j) \/ UpdateStage(j)

Next ==
    \/ \E w \in Web : \/ Authenticate(w) \/ GetOrCreateUser(w) \/ FillNames(w)
                      \/ OpenProfile(w) \/ SaveProfile(w)
                      \/ RequestDoc(w) \/ Delete(w) \/ Complete(w)
    \/ \E d \in Docs : Buy(d) \/ CompletePayment(d)
    \/ BuyGift \/ ScheduleReminder
    \/ \E j \in Jobs : JobStep(j) \/ Crash(j)

Spec == Init /\ [][Next]_vars

\* A worker goes on with its task, and takes each task in the end.
FairSpec == Spec /\ \A j \in Jobs : WF_vars(JobStep(j))
=============================================================================
