# Verification of the brand-name backend

The repository is a Django application with Celery workers (`src/app`). A customer fills in a
questionnaire and pays; tasks call language models for names, collect them as candidates, put
candidates together to batches, write a rationale and example phrases for each name, and show
the batches. The first batch is given to the customer, further ones are sold one by one
through Stripe. Experts review batches for an additional payment, and a daily game is made of
names that were delivered.

Nearly everything interesting happens in the database, between processes that hold no locks: a
task or a web request reads rows, decides, and saves whole rows back, one transaction per
statement. `fill_from_candidates`, `FeatureConfig.save`, `CompleteDraft` and `create_game` are the places
with an explicit transaction. The models here are models of that.

## 1. Inventory

### 1.1 Components

| Component | State | Operations | Modelled |
|---|---|---|---|
| Name generation (`algorithm/tasks.py` to line 259, `algorithm/models.py`, `algorithm/utils.py`, `candidate_validators/`, `expert/tasks.py:61-105`) | `NameCandidate`, `Result`, `ResultBatch` rows, `Questionnaire.cascade_level_run`, `failed`; task arguments in the broker | `generate_name_candidates`, `run_pathway`, `check_generation_completion`, `create_batch`, `generate_rationales_for_name_candidates` | yes: `NameGeneration` |
| Batch delivery (`algorithm/tasks.py` from line 246, `core/utils.py:85-118`, `core/signals.py:30`, `BuyMore`, `BatchHandler`) | `ResultBatch.visible`, `bought`, rationales, `Payment.status` | `delegate_rationale_tasks`, `generate_rationales`, `check_rationales_completion`, `generate_result_phrases`, `check_phrases_completion`, `get_new_batch`, webhooks | mostly: `BatchDelivery` |
| Payments and Stripe webhooks (`core/views.py`, `core/signals.py`, `stripe_client/`) | `Payment` rows, the checkout sessions at Stripe, `BatchPrice` | `CreatePayment`, `BuyMore`, `BuyExpertInTheLoop`, `stripe_payment_webhook`, `next_step_trigger`, `get_by_batch_number` | yes: `Payments` |
| Feature configuration (`core/models/feature_config.py`) | the active row, a cache per process | `get_active_config`, `save` | yes: `FeatureConfig` |
| Expert reviews (`expert/`, `expert_handler.py`) | `ExpertBatchReview`, `ResultReview`, `ExpertPlusReview`, `ResultBatch.expert_review_required`, flags of the questionnaire | payment of a review, sale of a batch, save and delete of a review, `common_expert_review_status`, the mails | yes: `ExpertReviews` |
| Game generation (`game/`, `algorithm/managers.py`) | `Game`, `Result.was_used_in_game_date`, `number_was_used_in_game` | `generate_games`, `create_game_with_error_retries`, `revert_game_usage`, the administration pages | yes: `GameGeneration` |
| Drafts, children and listing (`core/views.py`, `core/serializers/`) | `Questionnaire` and `DraftQuestionnaire` rows with their parents | completing a draft, `create_child`, PUT, DELETE | yes: `Drafts`, `Accounts` |
| HubSpot, reminders, gift cards (`core/tasks.py`, `hubspot_client/`) | the contact's stage, `reminder_email_sent`, promo codes | retried tasks, the daily schedule | yes: `Accounts` |
| Questionnaire row (`core/models/questionnaire.py`) | all columns of `Questionnaire` | every `questionnaire.save()` | partly, by the modules whose columns they are |
| Authentication, mail, administration pages, negative words | `User` rows; I/O; presentation | | partly, where a property depends on them |
| Pathway cache and query log | what calls of the models leave behind | | no |
| Language-model modules (`PathwaysModule`, `RationaleBuilder`, ...) | a package outside the repository | | their answers are nondeterministic choices |

### 1.2 How they interact

- A *completed initial payment* calls `get_first_batch` (`core/signals.py`), which sends
  `generate_name_candidates(first_run=True)`; a *completed buy-more payment*, or a request in the
  free plan, calls `get_new_batch`, which marks the oldest row that is not bought and sends
  `create_batch`; an *experts' payment* sends `generate_name_candidates(run_all_cascades=True)`.
- `generate_name_candidates` starts a `run_pathway` for each pathway of the next cascade level and a
  check that polls them; the check sends `create_batch`; `create_batch` makes a batch, or sends
  `generate_name_candidates` again. A first run sends one additional `create_batch`.
- A batch that is made goes to `delegate_rationale_tasks`: rationales, a polling check, phrases,
  and `check_phrases_completion`, which shows *all* batches of the questionnaire and marks the first
  complete one as bought if none is.
- The *plan* that decides between these paths is `FeatureConfig`'s, as the process at hand remembers it.
- An *experts' payment* sets flags on the questionnaire and gives every bought batch an empty review;
  later sales do so too. Experts fill the reviews in on the administration pages, and each save
  moves the batch's status and, with it, the questionnaire's.
- *Games* take results of any questionnaire that has a description and a rationale, which batch delivery
  has written (`generate_offering_description`).
- Every save of a *user* row, every completed draft and every completed payment sends a task to HubSpot.
- Web requests run in gunicorn's sync workers (`Dockerfile`): one request per process, as many
  processes as are deployed, killed after 60 s. There is no `ATOMIC_REQUESTS`.
- Tasks run in `celery worker` processes (`docker-compose.yml`), with early acknowledgement:
  a worker that dies takes its task with it.

### 1.3 What is hard

Interleavings of tasks of one questionnaire (a bought batch's chain against the first request's
additional batch, two checks), and of tasks with web requests; whole-row saves of rows read
earlier; the two-statement uniqueness check; re-inserts by `save()` of deleted rows; failed
pathways, failed rationales, failed mails; lost tasks; polling that must end; the ends of the
cascade; redelivered Stripe events. PROJECT.json lists each hazard at its line with the
properties for it; those without a property say why.

What makes each component correct:
- *Name generation*: a name is in one place; batches have their size, unrelated names and the caps
  of the plan; no half-made batch is left; every request delivers what it is for and comes to an
  end; failures do not stop it early; levels are run once.
- *Batch delivery*: batches bought and payments agree, in both directions; one mail; the first batch
  is complete; what is shown and bought stays so; a batch that was handed over is shown.
- *Payments*: one first request per questionnaire whatever Stripe delivers twice or out of order; what is
  completed has been paid, what has been paid is completed, and stays so.
- *Feature configuration*: every process comes round to the active row.
- *Expert reviews*: a paid review exists once for each bought batch, the status follows the reviews, and
  nobody is told of reviews that are not there.
- *Games*: an option is not used twice within the threshold; the counters match the games; a date
  has its game or an alert.
- *Drafts and children*: numbers are unique, a draft becomes one questionnaire, families have two generations.
- *User row and HubSpot*: no save undoes another's columns, one reminder, a customer stays a customer.

## 2. Plan

| Step | Modules | Status |
|---|---|---|
| 1 | `NameLedger` (abstract), `NameGeneration`, its properties, runs and proofs | done |
| 2 | `BatchDelivery`, its properties, runs and proofs | done |
| 3 | `FeatureConfig` and, composed with it, `Payments`, runs and proofs | done |
| 4 | `ExpertReviews`, with the questionnaire's flags as the columns that several writers save, runs and proofs | done |
| 5 | `GameGeneration`, its properties, run and proofs | done |
| 6 | `Drafts` and, composed with it, `Accounts`, run and proofs | done |

The twelve runs finish within minutes each, and together within half an hour; a further property
should replace one that says less. Every invariant and every action property of the passing runs is
a theorem now, and so are the safety halves of four liveness properties (`CheckedIsShown`,
`PaidStaysReported`, `DatesAreNotForgotten`, `CustomersAreKept`). What a proof can still add is the same
for `Settles` and `OrderServed`, and abstract specifications of the other components.

## 3. Name generation

### 3.1 Modules

- `NameLedger`: the promise. A name is unknown, then a candidate, then in one batch; a batch is
  filled at one stroke. 44 lines, two variables.
- `NameGeneration`: the tasks. One record per request holds the task its chain is at
  (`task[r].pc`) with its locals, one record per request and pathway the `run_pathway` task.
- `NameGenerationProperties`: invariants, action properties, liveness, the refinement mapping
  (`pool <- CandidateNames`, `batch[b] <- names of results[b]`).
- `MCNameGeneration`: the values of function-valued constants for TLC.
- `NameGeneration_proofs`, `NameGenerationSafety_proofs`, `NameGenerationSole_proofs`.

### 3.2 Correspondence

Every action is one database access of a task, with the messages sent right after it. So
`generate_name_candidates` is `StartGeneration` (reads the questionnaire, sends the pathways) and
`SaveLevel` (saves the row it read); `validate_new_name_candidate` is `CheckResults` (first query)
and `InsertCandidate` (second query and INSERT, which `unique_together` makes one step for
candidates); `create_batch` is `CountCandidates`, `MakeBatch` (row and sample), `ConstructBatch`
(re-read and choice), `FillBatch` (the transaction) or `UndoBatch` (the exception). 
`BusyChains`, `BusyRuns` and `WorkerFree` are the worker processes: a step that takes a message from
the queue needs a free one. `docker-compose.yml` starts `celery worker` without `--concurrency`, so
there are as many as the machine has CPUs. What is stated for one worker is therefore what the code
needs that setting for, and the violations below are what happens without it.

Decisions a reader should know:
- A chain has one message or running task at a time besides its pathway tasks, so the queue is a
  record per request; a polling task that sends itself again changes nothing and is no step.
- `batches_already_created` is `[]` wherever a chain calls `create_batch`, so its other branches
  (`handle_insufficient_candidates` with batches, line 219) are not reached and not modelled.
- `_construct_candidates_batch` is `GreedyPicks`: all results of going through the sample in some
  order, including what `UniqueNameValidator` remembers of a candidate that a cap rejects later.
- Ids of deleted batch rows may be given out again in the model; nothing refers to a deleted row.
- A candidate row is identified by name and pathway. A candidate that is gone when
  `generate_rationales_for_name_candidates` looks it up ends that task (its `get_or_create` lacks the
  pathway).
- One questionnaire: the names of siblings are not modelled.
- `CHECK_DEADLOCK FALSE` everywhere: the chains legitimately end ("No tasks to run").

### 3.3 Runs

| Run | Instance | What it shows |
|---|---|---|
| `names_sequential` | 1 worker, 3 requests (first, bought, experts), 3 pathways on 2 levels, 5 names two of which are related, caps, batches of 2 | `NamesOnce`, `PathwayNotDoubled`, `BatchesWellFormed`, `CascadeAdvances`; `KeepsLedger`: the tasks implement `NameLedger` |
| `names_buying` | 2 workers, 1 crash, first and bought, 3 pathways on 2 levels that give overlapping names, 4 names, batches of 1, 3 batch ids, fair | what holds at any concurrency: `OneChainNamesOnce` (one request alone keeps a name in one place, though its pathways check and insert side by side), `NoBatchLeftEmpty`, `RequestsServed`, `StopsOnlyWhenExhausted`, `DeliveredStays`; `Settles`: every request ends, however pathways fail |
| `names_race` | 2 workers | *violation* of `NamesOnce`: two `create_batch` tasks sell one name twice |

With two workers and two requests `PathwayNotDoubled` and `CascadeAdvances` fail as well (two generations
read the same level; one saves a level the other has passed), and a name that moves from the candidates to
the results between the two queries of `algorithm/utils.py:25` is proposed again, where the code means to
raise `ValueError`. They have the same cause and no run of their own. `OneChainNamesOnce` says where that
window is closed without a lock: the chain of a request makes its next batch only when all pathways of the
level have ended, so that it takes a second request to move a name meanwhile. That candidates have
different names is the database's constraint, and no property here.

*Bounds.* Two levels are enough for a cascade that is used up and for one that is not; one more name
than two batches need makes both "enough" and "not enough" candidates happen; three batch ids
allow the additional, the bought and one undone batch; two workers give every pair of tasks that
overlap, and the races found need no more than two. `MaxCrashes` bounds lost tasks, `Batches`
the rows. No symmetry is declared: names and pathways are told apart by `Yield`.

*Fairness.* Weak fairness of each chain and each pathway task: Celery hands every message to a worker
and a task that has started goes on. No fairness is assumed of requests and of crashes,
and `Settles` excludes crashes, as a lost pathway task leaves its check polling for ever.

### 3.4 Proofs

- `TypeCorrect`: `Spec => []TypeOK`, any constants. One lemma replaces a task's record
  (`TaskUpdate`), one a pathway's (`RunUpdate`), and each action names the record it writes.
- `BatchesAlwaysWellFormed`, `DeliveredNamesStay`: any number of workers and crashes. The inductive
  invariant `BatchInv` says that what a task at "fill" has picked is a good batch, that a task making
  a batch owns its row, that no two own the same row, that rows with results are delegated and that
  delegated ones are good. `BatchesWellFormed` alone is not inductive: nothing would say that
  `FillBatch` writes a good batch into an empty row.
- `JourneyNeverFails`: with `ALLOWED_FAILURE_THRESHOLD = 100`, `fail_journey` is unreachable.
- `NoBatchIsLeftEmpty`: the same, while no worker has died. A row without results belongs to the task
  that made it, and to one only (`MakersApart`), which fills or deletes it.
- `RequestsAreServed`: `delegated` is counted. `Due` is the set of pairs of a request and one of the
  batches it is for; each delivery takes a pair that was not taken, and a request that comes to an end
  has taken all of its pairs.
- `FirstRequestStopsExhausted`: `GoesOn` says that, as long as nothing is delivered, the cascade is
  exhausted or some request that delivers is under way (`Going`) and awaits pathways if it polls. A
  level that is saved is the one whose pathways are awaited (`SavesTried`). A run for the experts may
  write an older level back unless there is one worker.
- `NamesOnceWithOneWorker`: `Concurrency = 1`. `SoleInv` adds that at most one task is at work and that
  what it has read still holds (`PickedThere`, `FetchedThere`, `NamesFresh`): the part that two
  workers and two requests break.
- `NamesOnceWithOneRequest`: any number of workers and crashes, as long as one request alone has been made.
  The same `SoleInv`, kept for another reason: a batch is filled when no pathway is at work any more
  (`RunsAwaited`), so that nothing has been read that the transaction changes (`Undisturbed`).
- `CascadeOnlyAdvances`, `PathwaysNotDoubled`: one worker. The level that is about to be saved is the one
  in the row (`SavesFresh`), and the pathways awaited are those of levels that have been passed
  (`SavesTried`, `RunBelow`). The second one also needs that no worker dies: after a crash before the
  save, the next request reads the same level and starts its pathways beside those of the dead one.
- `LedgerKeptByOneWorker`: the refinement of `NameLedger`, with one worker: initial states map to
  initial states, `InsertCandidate` and `FillBatch` to `Propose` and `Deliver`, the others stutter.

## 4. Batch delivery

### 4.1 Modules

- `BatchDelivery`: from a row that `create_batch` makes to one that is shown and bought. What
  `create_batch` does with names is left out here (`MakeRow`, `FillRow`, `DeleteRow`, `StopChain`).
- `BatchDeliveryProperties`, `MCBatchDelivery`, `BatchDelivery_proofs`.

### 4.2 Correspondence

`maker[q]` is a `create_batch` chain: "first" (`get_first_batch`), "additional", and one for each event
that sells a batch. `checker[b]` is what follows batch `b` one after another: `Delegate`,
`CheckRationales`, `CheckPhrases`, then a loop of `Decide` (the two queries and the mail) and
`SaveBatch` (the row) for each row read at the beginning. `seen` is what those rows said of
`bought`, and is what the save writes. `event[e]` is a web request in `get_new_batch`: `CountBought`,
`ComparePaid`, `PickBatch`, `SellBatch`. A save of a row that has been deleted inserts it again.

Decisions:
- `generate_rationales` and `generate_result_phrases` write rows no other task here writes, and are
  one step with any outcome.
- `Decide` reads rationales and flags in one step. They are two queries; what can change
  between them is a row that gets its results or its rationales, which amounts to deciding
  before or after.
- `check_phrases_completion` waits for the rationale tasks, whose ids it is given (line 318), and not
  for the phrases: a batch can be shown without them.
- Payments other than the orders: the initial one is completed from the start, expert payments
  are a counter, as `get_new_batch` counts all of them.
- `MailFails`: the mail's exception ends the check before the save (line 362). The rows it has not
  come to are not shown by this check. Properties about what is shown or served exclude it.
- The offering description, `expert_review_required` and the mails to experts are `ExpertReviews`'.

### 4.3 Runs

| Run | Instance | What it shows |
|---|---|---|
| `delivery_sole` | 1 worker, 1 crash, 3 batches, 1 order | `BoughtWithinPaid`, `ReadyMailOnce`, `FirstBatchServed`, `FirstBatchRationaled` |
| `delivery_shown` | 2 workers, free plan, 2 batches, fair | `TypeOK`; `DelegatedIsShown`: a batch handed over is shown in the end, with or without rationales; `SettledIsKept`: what is shown or bought while nobody holds a row is never taken back |
| `delivery_paid` | 1 worker, 3 batches, 2 orders | *violation* of `BoughtAsPaid`: a check reads a row, an event sells it, the check saves it as not bought |

With two workers two checks can both find nothing bought, or one can save over what another did, and
`ReadyMailOnce`, `BoughtWithinPaid`, `FirstBatchServed` and `FirstBatchRationaled` all fail; a check can
unsell what was sold since it read the rows (`delivery_paid`), and `get_new_batch` can hide what was shown
since it read the row to sell. `SettledIsKept` says that this is all: it takes a row that was read before the
update and is saved after it. A batch that is shown or bought at a moment when no check is
between its read and its saves, no request is about to save a row and none is being made, stays so
whatever runs later, with any number of workers and of sales, and through crashes. With an expert payment counted, an event
that Stripe delivers twice sells a second batch for one payment (`core/signals.py:33`).

*Bounds.* Three batches are the first, the additional and a bought one; a crash can hit any task once;
two events against one check is what `delivery_paid` needs. `delivery_shown` has two batches,
because each is checked by its own checker and sold by one event; both are in each other's loop.

*Fairness.* Weak fairness of the tasks once more (`Fairness`): filling or deleting a row, writing texts,
checking. Web requests and payments are not fair: they may never come.

### 4.4 Proofs

- `DeliveryTypeCorrect`: `Spec => []TypeOK`, any constants: flags only on rows, and a task or request
  holds a row exactly while it is about to write it. `BatchIds` is the fact about `first()`: a set of
  ids that is not empty has a least element in it (from the well-foundedness of `<` on `Nat`).
- `NoBatchBeyondPayment`: `BoughtWithinPaid` for any number of batches, orders, expert payments and
  crashes, given one worker and one event per order. The property is not inductive: a check that
  decides to give a batch away, and a request that decides to sell one, are committed to it before
  `bought` changes. `PaidInv` counts them: bought batches and pending requests together
  stay within one plus the completed payments (`Budget`), pending requests alone within the
  completed payments (`PendingPaid`), and once a gift is decided upon there is room for it
  (`GiftLeft`). That a later save does not bring a batch back needs `SeenHeld` (the rows seen as bought
  still are) and `OneAtWork` (no `create_batch` task deletes a row meanwhile).
- `MailGoesOnce`, `GiftIsRationaled`, `FirstBatchIsServed`: one worker. The
  common invariant `First` says that ids grow (`IdsGiven`), that rows that are filled stay
  (`RowsKept`), that the tasks of a batch are sent after it is filled (`SentAfter`), that a check comes to
  a row once (`SavedOnce`), and that a row which is not filled is being filled or has been sold
  (`NoStrays`). `NoStrays` is the part that a crash breaks: `check_phrases_completion` takes an empty
  row for one whose names all have rationales. On top of it `MailInv` says that what the mail has announced is
  bought or about to be saved and that no save takes it back, `Unsold` that before a sale a check
  knows what is bought, and `Served` that a batch with rationales is on its way to a check until one is bought.
- `CheckedIsShown`: *any number of workers and crashes*. A check that is through has shown its own batch,
  as long as nothing is sold on the web: `OwnRows` (no task deletes a row that is checked) and `Visits`
  (the batch is shown already or its row is still to come). It is the safety half of
  `DelegatedIsShown`, and has no run of its own.
- `SettledStays`: *any number of workers, requests and crashes*. Once nobody holds a row, `Owned` (everybody who
  reads the rows afterwards sees the batch as bought, and no task makes a row with its id) and `Seen` (the
  same of a shown one) are kept by every step; that ids are not given again needs `Given` (they are at
  most `lastId`, also in what checks and requests hold).

## 5. Payments and the feature configuration

### 5.1 Modules and correspondence

- `FeatureConfig`: the active rows, the entry of `_active_config_cache` of each process, and saves. The
  save of an active row is `BeginSave` (the UPDATE that turns off the rows it sees) and `CommitSave`.
- `Payments` EXTENDS it. `session[s]` is Stripe's checkout session, `event` what Stripe has not
  got a 200 for, `req[w]` the request a web process serves, with the `Payment` row it is about to
  write. A view is its check of the configuration and the payments together with the call of Stripe
  (`CreatePayment`, `BuyMore`, `BuyExpert`), then `FindInitial` (`initial_payment_in_progress`),
  `InsertPayment`, or `PreSave` and `UpdatePayment` (`next_step_trigger` looks at the table
  before the UPDATE, `bought_new_batch` after it). A webhook is `HandleEvent`, the same saves, and
  `GrantExperts` for the flags.
- All questionnaires belong to one family, because the price of a batch counts the completed payments of
  the parent and its children (all of them: reviews too).
- Saved rows are whole rows as they were read. Amounts, addresses, metadata are left out.
- `PaymentAdmin` lets administrators set a status by hand; that is left out, as it bypasses all of this.

Faults: a process that is killed between two of its steps, events repeated after a 200 or not
answered (which covers a webhook that raises), events in any order, payments that settle
later (the code takes `checkout.session.completed` for money), a configuration changed under way.

### 5.2 Runs

`purchases` has a *set of environments*, each with one hazard: a process that dies and a repeated event;
two web processes; one save of the configuration (paid plan to free); payments that settle later. Each
property names the hazards it is stated under; those it excludes break it (the last case of the first and of
the fourth only in larger instances than the run's):

| Property | Says | Fails with |
|---|---|---|
| `FirstBatchOnce` | one first request per questionnaire | two processes, payments that settle later, a process killed between trigger and UPDATE; a plan that changes to free and back |
| `CompletedIsPaid`, `CompletedStays` | completed means paid, and no later event or view undoes it | payments that settle later, two processes |
| `PricesAdvance` | nobody pays the first price twice | the same |
| `ExpertsGranted` | flags follow every completed payment, in spite of a killed process | two processes and three payments |
| `PaidIsRecorded` | further batches, experts, gifts: what is paid is recorded in the end | no active configuration; it leaves out initial payments, see below |
| `CachesCatchUp` | each process comes round to the active configuration | |

`purchases_session` (*violation* of `PaidHasPayment`): a second visit to the payment page puts a new
session in the place of the one the customer then pays; the webhook finds no payment for it and raises
`DoesNotExist`, a 500.
Two concurrent saves of active configurations can leave two active rows, of which `first()` is taken
(`Min(active)`), or the one that neither meant; `active = {c}` in `CachesCatchUp` speaks of the time when one is.

*Bounds.* Two payments and two sessions are what each disagreement between a session and a row needs: one
row and its replaced session, a first payment and a further one, two events of two sessions. One
questionnaire; two prices. *Fairness.* A process goes on with its request, Stripe repeats an event until
it gets a 200 (its documented retries), cache entries grow old, and a save that has begun is
carried through. Customers, administrators and Stripe's decisions are not fair.

### 5.3 Proofs (`Payments_proofs`)

Each action has a lemma that says what it writes ("Shape"), and each invariant one that says which
writes keep it ("Frame").
- `PaymentsTypeCorrect`: any constants and environments. What makes it inductive is that a
  row's session is known to Stripe (`Known`), and that sessions never disappear.
- `ExpertsAreGranted`: one request at a time (`Sole`), processes killed anywhere. `SoleInv`: a
  session belongs to one row (`OwnSession`); a request finds the table as it has read it (`AsRead`,
  one part for the views, one for the webhook); and a completed row has its flags, or an event of
  its session is yet to come (`GrantedOrComing`). The last is what a 200 before the flags would break.
- `CompletedHasBeenPaid`, `PricesOnlyAdvance`, `CompletedIsFinal`: cards only, and one request at a time
  (`Careful`). `CarefulInv` says that an event agrees with the state of its session (`Fine`), that rows
  agree with it too (`Decided`), that further batches have a later price, and that at most one initial
  payment of a questionnaire is in progress or completed (`OneInitial`), without which a second could be completed.
- `FirstBatchStartsOnce`: a call of `get_first_batch` leaves a completed row, or a request at its
  UPDATE that is about to write one (`Started`): the window in which a kill doubles it.
- `PaidStaysReported`: *any number of web processes, late settlements, repeated events, kills and
  saves of the configuration*. A further batch, experts or a gift that has been paid is recorded, or
  Stripe still has an event to deliver for it. `ToldInv`: a new session is known to one request only
  until it is open (`FromView`); a row that is not an initial payment keeps its session, which no other
  row has (`Alone`), so that an event is answered only when its own row has been written
  (`FromStripe`, `Target`, `Told`); a status "failed" comes only from a session that has failed or expired
  (`Fits`). It is the safety half of `PaidIsRecorded`, and does not hold of initial payments, whose
  session `CreatePayment` replaces (`purchases_session`). It has no run of its own.

## 6. Expert reviews

`ExpertReviews` has the questionnaire's three flags (`row`), `bought` and `expert_review_required`
of each batch, and the review of each batch. A webhook is `TakeOrder`, `SetPayed`, then for each bought
batch `MarkBatch`, `FindReview`, `FillReview`, `AddPlus`, and `EndOrder`; `get_new_batch` goes through
the same steps for the batch it sells (`PickBatch`, `SellBatch`). `SaveChecked` and `SaveRow` are the
whole-row saves of `check_phrases_completion` and `generate_offering_description`. A request of the
administration pages is one transaction and one step; within it `SaveForm` keeps the order: the review is
saved as completed and the mail is sent, *then* it is validated and perhaps saved again. The form of a
review also offers other batches that require one (`Offers`): the review is moved with its `ResultReview`s,
which stay those of the old batch's results (`of`), and the old batch keeps its status. `due` counts the
tasks under way, `DelegateRationales` is the generation for the experts: the first run has pathways
to run (`unused`), a later one finds none and ends at "No tasks to run", and with `dry` the first one may fail.

| Run | What it shows |
|---|---|
| `reviews` | `OrderHonoured`: what has been paid is provided, with one triple of suggestions per batch; `CompletedMeansReviewed`: where pages or mails say so, every bought batch has a valid review of its own results, or lost it by a move; `OrderServed`: a payment is answered in the end, and the experts hear of their candidates or nothing is left that could tell them |
| `reviews_page` | *violation* of `PageNeverRaises`: in the free plan experts can be paid before the first batch is there; 0 of 0 batches are done, the picks are shown for good, and the page raises for the batch that comes |

The environments of `reviews`, one hazard each: two web processes; experts paid early; tasks that overlap
requests; careless experts and administrators who add and delete reviews; administrators who delete and
move them; a killed process with a repeated event; a generation without candidates. `OrderHonoured`
is stated without any of them (`Regular`), and fails with each: whole rows saved over each other, a
repeated event that adds suggestions, and, when a later batch of the same event raises, suggestions added
again by the redelivery. `OrderServed` fails with two processes, early payments and careless
administrators (a deleted review makes every delivery raise). `CompletedMeansReviewed` holds for pages
in all but overlapping environments, early payments included only because no batch is bought yet; for
mails with careful experts only, as the mail goes out before the validation fails. Where reviews are moved it
names the batches that moves may leave without: complete the review of batch 1, delete that of batch 2,
move the first to batch 2, and both batches are done with one review between them. The run reaches that
state; it is a consequence of the form and no doc speaks of it, so it has no run of its own. The status
"requested" is practically never seen: the review is created right after the batch is marked.

*Bounds.* Two batches (one bought before a payment, one after), two payments (a review, then the
suggestions), one name, three edits where reviews are moved, as the case above needs. *Fairness.* Web processes go on with their requests, events that were not
answered come again, workers go on with their tasks; experts are not fair.

*Proofs* (`ExpertReviews_proofs`).
- `ReviewsTypeCorrect`: any overlap. `Shapes`: who saves a row has read one, and a request that
  works on batches has some left, so that its least batch exists.
- `CompletedIsReviewed`: without overlap. `Calmly` says that nobody works on the same rows (`Quiet`),
  that whole rows read earlier are as they were (`CheckAsRead`, `WriterAsRead`, `RowsRead`), that reviews
  belong to bought batches (`BoughtFirst`), and that the status "done" means a completed, valid
  review of the batch's own results (`Own`) or a move (`DoneIsReviewed`). The code compares numbers of batches: they are equal only if the sets
  are, as the done batches are among the bought ones.
- `OrdersAreHonoured`: where nothing fails and one process serves (`Regular`). `Regularly` has a stage
  for each point of a request: the batches it has passed have their reviews (`Progress`), those that others
  have bought too, and between requests everything rests as the paid types say (`Resting`, `AllKept`).

## 7. Games

`GameGeneration` has the results, their `was_used_in_game_date` (`last`) and `number_was_used_in_game`
(`count`), the game of each date, and each run of `generate_games` (`task[t]`). An attempt is one
transaction: `BeginAttempt` (a game that is there is put aside, its options reverted as the attempt sees
them: `LastSeen`, `CountSeen`), `GenerateOption` for each option, and `CreateGame` (validation,
uniqueness, usage and commit) or `FailAttempt`. `Raise` is the rest_framework `ValidationError` of
`validate_options_id_list`, which nobody catches. Rows an attempt has written are locked (`Locked`).

Run `games`; each environment has one hazard: two generations at once, games put aside, games deleted from
the list ("action") or on their page ("single"), edited games and deleted results, results without
rationale or description.

| Property | Says | Fails with |
|---|---|---|
| `NoReuse` | no name twice within the threshold of an attempt | overlapping generations; whatever reverts options, as `get_latest_game_by_option_id` returns nothing and earlier games are forgotten; edits |
| `UsageCounted` | the counter is the number of games with the option, games put aside and deleted from the list included | overlapping generations, deletion on the game's page, edits |
| `GamesWellFormed` | levels, different questionnaires, can be shown; any overlap | edits, deleted results |
| `GameOrAlert` | every date has a game, or there was an alert for it or an earlier date | blank texts: one result without a rationale ends the generation without a word |

Two generations of one date overlap without an error: the second updates the game of the first though
override is off, and the first one's options stay counted. The `get` and `save` of an option are
one step.

*Bounds.* Three dates, thresholds 2 and 1 (the third attempt would have 0, so that the positive bound
ends the retries; with the default settings, 30 days less 7 at a time, the number of attempts does), five results of four questionnaires, two of which
share one: a level can run dry in the middle of a game. *Fairness.* A generation that has begun goes on.

*Proofs* (`GameGeneration_proofs`). Every step is one of four sorts (lemma
`Steps`): a step of one generation, a beginning, a change by administrators, or quiet. `Base` adds to
the types that an attempt's threshold is the starting one less its steps, and that an attempt begins
with nothing chosen.
- `NamesNotReused`: neither `NoReuse` nor "the last use is the last game" is inductive alone. `ReuseInv`
  has both (`LastIsLast`, `FarApart`) and, for the options chosen so far, that they were not used
  since the threshold (`FreshOptions`), which one generation at a time keeps true till the commit.
- `UsesCounted`: the options put aside must be all those of the game that is replaced (`AllAside`);
  then counts are cardinalities of sets of dates with one date taken out and put in.
- `GamesAreWellFormed`: for any number of overlapping generations. What is chosen fills level 1, then
  level 2 (`Filled`), of different questionnaires; the commit checks the rest.
- `DatesAreNotForgotten`: for any number of overlapping generations. A generation that goes on to
  the next date, or ends, leaves a game for the date, or there was an alert for it or an earlier one. It
  is the safety half of `GameOrAlert`, stated of steps, as a game can be deleted afterwards;
  it has no run of its own.

## 8. Accounts

`Drafts` has the rows of questionnaires and drafts: a request reads a row (`Get`), counts children by two
queries (`CountQuestionnaires`, `CountDrafts`), and writes (`SaveDoc`, `DeleteDoc`, `CompleteDraft`,
`InsertChild`). A PUT of a deleted row inserts it again; the delete in `CompleteDraft` does not ask
whether the draft is still there. `Accounts` EXTENDS it with the `User` row (whole-row saves by
authentication, the profile page, and the reminder), payments as far as lists and HubSpot depend on
them, gift cards, and the queue of `core/tasks.py` with retries, lost answers and lost tasks. `hub` is
the stage of the contact in HubSpot.

Run `accounts`, one hazard per environment (two requests, two workers, deletions, a task that overlaps a
request, HubSpot's errors, a worker that dies, and combinations the properties need):

| Property | Says | Fails with |
|---|---|---|
| `FamilyKept` | two generations at most; related questionnaires list each other; each number once; a draft becomes one questionnaire | numbers: two requests, deletions; drafts: two requests |
| `UserRowKept` | one reminder at most, and one more for each mail whose answer was lost; the profile sent last | two requests, an overlap of the reminder with a request or a second schedule, a worker that dies after the mail |
| `CustomersRecorded` | who has paid is a customer in the end and stays one | two workers, a lost task, a payment deleted with its questionnaire, a task out of retries |

What the code does besides, and no property says: gift cards do not count as payments, so that a buyer of
one can be made an opportunity; the second creation of a contact conflicts, so names set later never reach
HubSpot; an answer that is lost makes a second deal; the docstring of the reminder speaks of those who
"haven't completed" a questionnaire, while the query takes completed ones too, and does not
look at payments again when the task runs. An error that `autoretry_for` does not name ends a task at once (`GiveUp`,
beside `Retry`). `ContinueView` is left out: it only reads, its queries have no order, so that nothing is
promised of its pages, and in the free plan it lists no unpaid questionnaire.

*Bounds.* Four rows (a parent, two children, one completed), one payment, a queue of up to
three, one or two retries, one error or crash. *Fairness.* Workers take and carry out tasks; that is
all `CustomersRecorded` needs, since retries are bounded.

*Proofs* (`Accounts_proofs`).
- `FamiliesAreKept`: any number of requests. `Families`: rows agree with what was inserted under their
  id, though a PUT can insert a deleted row again; a parent was inserted before its children, as a
  questionnaire without a parent, and is there (`Origin`, `Present`). With one request at a time what it
  has read still holds (`AsRead`), a draft was used once (`Used`), and, if nothing is deleted, numbers go
  up to the number of children (`Numbers`).
- `UserRowIsKept`: one request at a time, no overlap, no crash; any number of workers, retries and
  schedules. A reminder that is waiting is the only one (`OneReminder`) and meets the row it was
  scheduled for (`ReminderAlone`, `ReminderAsRead`); mails are counted with the one whose save is pending and those whose answer was lost.
- `CustomersAreKept`: one worker that does not die. One task works at a time (`OneWorks`), and who has
  paid has a deal in the queue, or is a customer and no check is between the query of the payments and
  the update of the stage (`StageInv`). It is the safety half of `CustomersRecorded` and has no run of its own.

## 9. Proved, checked, assumed

Proved for every value of the constants: the 37 theorems listed in PROJECT.json, and the lemmas they
rest on. They state every invariant and every action property that a passing run checks,
and the refinement; `NeverFailed`, `ShownWhenDone`, `PaidIsReported`, `NoDateForgotten` and `CustomerKept` are proved only,
as the runs ask the liveness question behind them or have no state to tell them by.

The assumptions are the named `ASSUME`s of the modules, which TLC evaluates in every run:
- finite sets of names, pathways, requests, batches, orders, events, payments, configurations and
  processes; bounds, prices, sizes and thresholds that are natural numbers, positive where the code
  divides by them or counts down by them (`Increment`, `BatchSize`);
- ids of rows and sessions are positive, so that 0 stands for none; an event is not named like one of
  the other two tasks that make batches;
- a last cascade level, the threshold of 100, game configurations that add up to the number of options;
- an environment is a record of the faults it allows: which ones there are is arbitrary.

What a theorem is restricted to stands in the property it names, and is one of: one worker
(`Concurrency = 1`), one web process (`Sole`), also with cards only (`Careful`) or without any fault
(`Regular`), no overlap of tasks and requests, no crash. The tables above name what fails without each.

Only model-checked: `Settles`, `DelegatedIsShown`, `PaidIsRecorded`, `CachesCatchUp`, `OrderServed`,
`GameOrAlert` and `CustomersRecorded`. They are liveness under weak fairness, whose proof needs
`ENABLED` and inductions over data that the installed provers do not have. Nor is anything proved of
the runs that expect a violation.

What the proofs changed. `RequestsServed` counts deliveries as a set of pairs, which says the same and can
be reasoned about. `StopsOnlyWhenExhausted` had to say which requests it is about, and
`PathwayNotDoubled` that no worker has died: the proofs got stuck at states that a larger instance than
the run's reaches. `OrderHonoured` now speaks of the batches sold after a payment as well. The proof of
`ExpertReviews!TypeOK` found that `AddPlus` could add suggestions to a review deleted in the middle of
the request; the code raises there (`expert_handler.py`), and so does the action now; an environment
with overlap and careless administrators was added to the run for it.

*Why one hazard at a time.* `Environments` is a constant: a set of records that say how many processes
there are and which faults may happen. A run takes several in one go (the initial states choose one), and
a property says by its antecedent in which of them the code keeps it. That states what the code relies
on; where the antecedent is dropped TLC shows the failure, and the tables above list these. In the
proofs the set is arbitrary.

Every property of a passing run has a mutant: a changed copy of an action or helper, next to
the original (`DeleteRow_RowKept`, `NotUsed_OrToday`, ...), under which the run fails. They are
the plausible bugs the properties are there for.

### Not modelled

- The customer's feedback on results (`Result` columns saved over by the phrases task) and the check that
  waits for the rationale tasks in place of the phrases: recorded as hazards; nothing promises otherwise.
- Names of sibling questionnaires in name generation: one questionnaire at a time.
- In the form of a review: deleting some of its `ResultReview`s (none or all are), or some of its suggestions
  (`triples` stays or is 0); a move to a batch of another questionnaire, which the form offers too.
- `ContinueView`, which changes nothing (see 8).
- Interleavings that the properties named below exclude, because the code does not keep them there:
  repeated events and expert payments for `BoughtWithinPaid`; two workers for it, `ReadyMailOnce`,
  `FirstBatchServed` and `FirstBatchRationaled`, the last two also crashes and failed mails; every fault for
  `OrderHonoured`; overlapping generations and deletion on the game's page for `UsageCounted`. What these say is
  that the code keeps them under one worker or without faults, and no more.
- Failures of Stripe or the mail while promo codes are made: both outcomes are in `Accounts`, but the code
  promises nothing after them.
- The pathway cache and the query log (read by no decision here), templates and recipients of mails,
  token verification (a library's), lists and links of the administration pages, tables of negative words.
- The language-model package is not in the repository.

### Running

    tlc -config MCNameGeneration_sequential.cfg MCNameGeneration.tla
    tlc -config MCPayments_purchases.cfg MCPayments.tla
    tlc -config MCAccounts_accounts.cfg MCAccounts.tla
    tlapm NameGenerationSole_proofs.tla
    tlapm Payments_proofs.tla
