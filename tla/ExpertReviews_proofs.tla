-------------------------- MODULE ExpertReviews_proofs --------------------------
(* What the payments for experts lead to, for every value of the constants. *)
EXTENDS ExpertReviewsProperties, FiniteSetTheorems, WellFoundedInduction, TLAPS

(***************************************************************************)
(* Types.  A request that works on batches has read their rows.            *)
(***************************************************************************)
LEMMA FirstOne ==
  ASSUME NEW S \in SUBSET Nat, S # {}
  PROVE  Min(S) \in S /\ \A n \in S : Min(S) <= n
<1> DEFINE less == {ss \in Nat \X Nat : ss[1] < ss[2]}
<1>1. IsWellFoundedOn(less, Nat)
  <2>1. less = OpToRel(<, Nat)
    BY DEF OpToRel
  <2> QED BY <2>1, NatLessThanWellFounded
<1>2. PICK x \in S : \A y \in S : <<y, x>> \notin less
  <2> HIDE DEF less
  <2> QED BY <1>1, WFMin
<1>3. ASSUME NEW y \in S PROVE x <= y
  <2>1. <<y, x>> \in Nat \X Nat /\ <<y, x>>[1] = y /\ <<y, x>>[2] = x
    OBVIOUS
  <2>2. ~(y < x)
    BY <1>2, <2>1, Zenon
  <2> QED BY <2>2
<1> QED BY <1>3 DEF Min

Places == {"idle", "pay", "mark", "sell", "review", "fill", "plus"}
Request == [pc : Places, type : OrderTypes \cup {"none", "sale"}, row : Questionnaire,
            rows : [Batches -> Batch], todo : SUBSET Batches]
Tasks == [check : Nat, describe : Nat, generate : Nat, rationales : Nat]
Checking == [pc : {"none", "run"}, rows : [Batches -> Batch], todo : SUBSET Batches]

Shaped(r) ==
    /\ r.pc = "idle" => r = Idle
    /\ r.pc = "pay" => r.type \in OrderTypes
    /\ r.pc \in {"sell", "review", "fill", "plus"} => r.todo # {}
    /\ \A b \in r.todo : r.rows[b] # NoBatch
Shapes ==
    /\ \A w \in Web : Shaped(req[w])
    /\ check # NoCheck => check.todo # {} /\ \A b \in check.todo : check.rows[b] # NoBatch
    /\ due.check > 0 => Rows # {}

LEMMA Values ==
  /\ NoBatch \in Batch /\ NoRow \in Questionnaire /\ Created \in Review /\ Idle \in Request
  /\ NoCheck \in Checking /\ NoWriter \in [pc : {"none", "read"}, row : Questionnaire]
  /\ NoReview \notin Review /\ NoBatch.status = "none" /\ NoBatch.bought = FALSE
  /\ Idle.pc = "idle" /\ Idle.type = "none" /\ Idle.todo = {} /\ NoCheck.todo = {} /\ NoCheck.pc = "none"
  /\ NoReview.results = "no review" /\ NoReview.completed = FALSE /\ NoReview.triples = 0 /\ NoReview.of = {}
  /\ Created.results = "none" /\ Created.completed = FALSE /\ Created.triples = 0 /\ Created.of = {}
<1>1. NoBatch \in Batch /\ NoRow \in Questionnaire /\ NoBatch.status = "none" /\ NoBatch.bought = FALSE
  BY DEF NoBatch, Batch, NoRow, Questionnaire
<1>2. Created \in Review
  BY DEF Created, Review
<1>3. Idle \in Request /\ NoCheck \in Checking /\ NoWriter \in [pc : {"none", "read"}, row : Questionnaire]
  BY <1>1 DEF Idle, Request, Places, NoCheck, Checking, NoWriter
<1>4. Idle.pc = "idle" /\ Idle.type = "none" /\ Idle.todo = {} /\ NoCheck.todo = {} /\ NoCheck.pc = "none"
  BY DEF Idle, NoCheck
<1>5. Created.results = "none" /\ Created.completed = FALSE /\ Created.triples = 0 /\ Created.of = {}
  BY DEF Created
<1>6. NoReview.results = "no review" /\ NoReview.completed = FALSE /\ NoReview.triples = 0 /\ NoReview.of = {}
  BY DEF NoReview, Created
<1>7. NoReview \notin Review
  BY <1>6 DEF Review
<1> QED BY <1>1, <1>2, <1>3, <1>4, <1>5, <1>6, <1>7

LEMMA TypeFacts ==
  ASSUME TypeOK
  PROVE  /\ req \in [Web -> Request] /\ check \in Checking /\ due \in Tasks
         /\ \A w \in Web : req[w] \in Request
  BY DEF TypeOK, Request, Places, Checking, Tasks

\* The step goes on with the same locals.
LEMMA Moved ==
  ASSUME req \in [Web -> Request], NEW w \in Web, NEW pc \in Places, req' = [req EXCEPT ![w].pc = pc]
  PROVE  /\ req' \in [Web -> Request] /\ \A v \in Web \ {w} : req'[v] = req[v]
         /\ req'[w].pc = pc /\ req'[w].type = req[w].type /\ req'[w].row = req[w].row
         /\ req'[w].rows = req[w].rows /\ req'[w].todo = req[w].todo
<1> DEFINE r == [req[w] EXCEPT !.pc = pc]
<1>1. /\ r \in Request /\ r.pc = pc /\ r.type = req[w].type /\ r.row = req[w].row
      /\ r.rows = req[w].rows /\ r.todo = req[w].todo
  BY DEF Request
<1>2. req' = [req EXCEPT ![w] = r]
  OBVIOUS
<1> HIDE DEF r
<1> QED BY <1>1, <1>2

LEMMA Ended ==
  ASSUME req \in [Web -> Request], NEW w \in Web, Done(w)
  PROVE  req' \in [Web -> Request] /\ req'[w] = Idle /\ \A v \in Web \ {w} : req'[v] = req[v]
  BY Values DEF Done

\* The next batch.
LEMMA Advanced ==
  ASSUME req \in [Web -> Request], NEW w \in Web, req' = [req EXCEPT ![w] = NextBatch(w)]
  PROVE  /\ req' \in [Web -> Request] /\ \A v \in Web \ {w} : req'[v] = req[v]
         /\ req'[w].pc = "mark" /\ req'[w].type = req[w].type /\ req'[w].row = req[w].row
         /\ req'[w].rows = req[w].rows /\ req'[w].todo = req[w].todo \ {This(w)}
<1>1. /\ NextBatch(w) \in Request /\ NextBatch(w).pc = "mark" /\ NextBatch(w).type = req[w].type
      /\ NextBatch(w).row = req[w].row /\ NextBatch(w).rows = req[w].rows
      /\ NextBatch(w).todo = req[w].todo \ {This(w)}
  BY DEF NextBatch, Request, Places
<1> QED BY <1>1

\* The batch that a request is about.
LEMMA ThisOne ==
  ASSUME TypeOK, NEW w \in Web, req[w].todo # {}
  PROVE  This(w) \in req[w].todo /\ This(w) \in Batches
<1>1. req[w].todo \in SUBSET Batches
  BY TypeFacts DEF Request
<1>2. req[w].todo \in SUBSET Nat
  BY <1>1, ReviewsAssumption
<1> QED BY <1>1, <1>2, FirstOne DEF This

LEMMA Statuses ==
  /\ \A r : StatusFor(r) \in {"done", "pending"} /\ (StatusFor(r) = "done" <=> r.completed)
  /\ \A f : MailsFor(f) \in Nat
  /\ \A f : MailsFor(f) # 0 => CommonStatus(row, f) = "completed"
  BY DEF StatusFor, MailsFor

-----------------------------------------------------------------------------
(* What each step does to the fields. *)

LEMMA TakeShape ==
  ASSUME TypeOK, NEW w \in Web, TakeOrder(w)
  PROVE  /\ w \in env.web /\ req[w] = Idle /\ order \in OrderTypes
         /\ req' \in [Web -> Request] /\ \A v \in Web \ {w} : req'[v] = req[v]
         /\ req'[w].pc = "pay" /\ req'[w].type = order /\ req'[w].row = row /\ req'[w].todo = {}
         /\ paid' = paid \cup {order}
<1>1. order \in OrderTypes
  BY DEF TakeOrder, TypeOK
<1> DEFINE r == [Idle EXCEPT !.pc = "pay", !.type = order, !.row = row]
<1>2. r \in Request /\ r.pc = "pay" /\ r.type = order /\ r.row = row /\ r.todo = {}
  BY <1>1, Values DEF Idle, Request, Places, TypeOK
<1>3. req' = [req EXCEPT ![w] = r]
  BY DEF TakeOrder
<1> HIDE DEF r
<1> QED BY <1>1, <1>2, <1>3, TypeFacts DEF TakeOrder, Started

LEMMA SetPayedShape ==
  ASSUME TypeOK, NEW w \in Web, SetPayed(w)
  PROVE  /\ req[w].pc = "pay"
         /\ req' \in [Web -> Request] /\ \A v \in Web \ {w} : req'[v] = req[v]
         /\ req'[w].pc = "mark" /\ req'[w].type = req[w].type /\ req'[w].row = req[w].row
         /\ req'[w].rows = batch /\ req'[w].todo = Bought(batch)
         /\ row' \in Questionnaire /\ row'.review
         /\ row'.plus <=> req[w].row.plus \/ req[w].type \in Plus
<1> DEFINE r == [req[w] EXCEPT !.pc = "mark", !.rows = batch, !.todo = Bought(batch)]
<1>1. /\ r \in Request /\ r.pc = "mark" /\ r.type = req[w].type /\ r.row = req[w].row
      /\ r.rows = batch /\ r.todo = Bought(batch)
  BY TypeFacts DEF Request, Places, TypeOK, Bought
<1>2. req' = [req EXCEPT ![w] = r]
  BY DEF SetPayed
<1> HIDE DEF r
<1>3. req[w].pc = "pay"
  BY DEF SetPayed, At
<1>4. row' \in Questionnaire /\ row'.review /\ (row'.plus <=> req[w].row.plus \/ req[w].type \in Plus)
  <2>1. req[w].row.plus \in BOOLEAN /\ req[w].row.picks \in BOOLEAN
    BY TypeFacts DEF Request, Questionnaire
  <2>2. /\ row'.review = TRUE /\ row'.plus = (req[w].row.plus \/ req[w].type \in Plus)
        /\ row' = [review |-> row'.review, plus |-> row'.plus, picks |-> row'.picks]
        /\ row'.picks \in BOOLEAN
    BY <2>1 DEF SetPayed
  <2> QED BY <2>1, <2>2 DEF Questionnaire
<1> QED BY <1>1, <1>2, <1>3, <1>4, TypeFacts

\* The review of one batch.
Reopened(b) == [review[b] EXCEPT !.completed = FALSE]
LEMMA FindShape ==
  ASSUME TypeOK, Shapes, NEW w \in Web, FindReview(w)
  PROVE  /\ req[w].pc = "review" /\ This(w) \in req[w].todo /\ This(w) \in Batches
         /\ \/ /\ req[w].type = "expert_plus" /\ HasReview(This(w)) /\ req' = [req EXCEPT ![w].pc = "plus"]
               /\ ~review[This(w)].completed /\ UNCHANGED <<batch, review, mails>>
            \/ /\ req[w].type = "expert_plus" /\ HasReview(This(w)) /\ req' = [req EXCEPT ![w].pc = "plus"]
               /\ SaveReview(This(w), Reopened(This(w)), batch[This(w)].bought)
            \/ /\ req[w].type # "expert_plus" /\ req' = [req EXCEPT ![w].pc = "fill"]
               /\ HasReview(This(w)) /\ UNCHANGED <<batch, review, mails>>
            \/ /\ req[w].type # "expert_plus" /\ req' = [req EXCEPT ![w].pc = "fill"]
               /\ ~HasReview(This(w)) /\ SaveReview(This(w), Created, TRUE)
            \/ req[w].type = "expert_plus" /\ ~HasReview(This(w)) /\ Raise(w)
<1>1. req[w].pc = "review" /\ req[w].todo # {}
  BY DEF FindReview, At, Shapes, Shaped
<1>2. \/ /\ req[w].type = "expert_plus" /\ HasReview(This(w)) /\ req' = [req EXCEPT ![w].pc = "plus"]
         /\ ~review[This(w)].completed /\ UNCHANGED <<batch, review, mails>>
      \/ /\ req[w].type = "expert_plus" /\ HasReview(This(w)) /\ req' = [req EXCEPT ![w].pc = "plus"]
         /\ SaveReview(This(w), Reopened(This(w)), batch[This(w)].bought)
      \/ /\ req[w].type # "expert_plus" /\ req' = [req EXCEPT ![w].pc = "fill"]
         /\ HasReview(This(w)) /\ UNCHANGED <<batch, review, mails>>
      \/ /\ req[w].type # "expert_plus" /\ req' = [req EXCEPT ![w].pc = "fill"]
         /\ ~HasReview(This(w)) /\ SaveReview(This(w), Created, TRUE)
      \/ req[w].type = "expert_plus" /\ ~HasReview(This(w)) /\ Raise(w)
  BY DEF FindReview, Goto, Reopened
<1> QED BY <1>1, <1>2, ThisOne

LEMMA SavedShape ==
  ASSUME TypeOK, NEW b \in Batches, NEW r \in Review, NEW bought \in BOOLEAN, SaveReview(b, r, bought)
  PROVE  /\ batch' \in [Batches -> Batch] /\ review' \in [Batches -> Review \cup {NoReview}] /\ mails' \in Nat
         /\ review'[b] = r /\ batch'[b].bought = bought /\ batch'[b].status = StatusFor(r)
         /\ \A c \in Batches \ {b} : batch'[c] = batch[c] /\ review'[c] = review[c]
         /\ mails' # mails => CommonStatus(row, batch') = "completed"
<1> DEFINE new == [bought |-> bought, status |-> StatusFor(r)]
<1>1. new \in Batch /\ new.bought = bought /\ new.status = StatusFor(r)
  BY Statuses DEF Batch
<1>2. batch' = [batch EXCEPT ![b] = new] /\ review' = [review EXCEPT ![b] = r] /\ mails' = mails + MailsFor(batch')
  BY DEF SaveReview
<1> HIDE DEF new
<1>3. mails' \in Nat /\ (mails' # mails => MailsFor(batch') # 0)
  BY <1>2, Statuses DEF TypeOK
<1> QED BY <1>1, <1>2, <1>3, Statuses DEF TypeOK

-----------------------------------------------------------------------------
(* Every step keeps the types. *)

LEMMA ShapesFrame ==
  ASSUME TypeOK, Shapes, check' = check \/ check' = NoCheck,
         due'.check > 0 => due.check > 0 \/ (\E b \in Batches : batch'[b] # NoBatch),
         \A b \in Batches : batch[b] # NoBatch => batch'[b] # NoBatch,
         \A w \in Web : req'[w] = req[w] \/ req'[w] = Idle \/ Shaped(req'[w])
  PROVE  Shapes'
<1>1. \A w \in Web : Shaped(req[w])'
  <2>1. Shaped(Idle)
    BY Values DEF Shaped
  <2> QED BY <2>1 DEF Shapes, Shaped
<1>2. due'.check > 0 => Rows' # {}
  BY DEF Shapes, Rows
<1>3. check' # NoCheck => check'.todo # {} /\ \A b \in check'.todo : check'.rows[b] # NoBatch
  BY DEF Shapes
<1> QED BY <1>1, <1>2, <1>3 DEF Shapes

\* Steps of orders and of the chain of the experts' candidates.
LEMMA TypesSmall ==
  ASSUME TypeOK, Shapes,
         \/ \E type \in OrderTypes : Order(type)
         \/ \E w \in Web : TakeOrder(w) \/ Kill(w) \/ EndOrder(w)
         \/ ReadRow \/ SaveRow \/ DelegateRationales \/ CheckRationales
  PROVE  TypeOK' /\ Shapes'
<1>0. TypeOK /\ req \in [Web -> Request]
  BY TypeFacts
<1>1. ASSUME NEW type \in OrderTypes, Order(type) PROVE TypeOK' /\ Shapes'
  <2>1. TypeOK'
    BY <1>0, <1>1 DEF Order, TypeOK, rows, workers, counts
  <2>2. Shapes'
    BY <1>0, <1>1, ShapesFrame DEF Order, rows, workers
  <2> QED BY <2>1, <2>2
<1>2. ASSUME NEW w \in Web, TakeOrder(w) PROVE TypeOK' /\ Shapes'
  <2>1. /\ req' \in [Web -> Request] /\ \A v \in Web \ {w} : req'[v] = req[v]
        /\ order \in OrderTypes /\ paid' = paid \cup {order}
        /\ req'[w].pc = "pay" /\ req'[w].type = order /\ req'[w].todo = {}
    BY <1>2, TakeShape
  <2>2. UNCHANGED <<env, rows, order, workers, mails, counts>>
    BY <1>2 DEF TakeOrder
  <2>3. TypeOK'
    BY <1>0, <2>1, <2>2 DEF TypeOK, rows, workers, counts, Request, Places
  <2>4. Shaped(req'[w])
    BY <2>1 DEF Shaped
  <2>5. Shapes'
    BY <2>1, <2>2, <2>4, ShapesFrame DEF rows, workers
  <2> QED BY <2>3, <2>5
<1>3. ASSUME NEW w \in Web, Kill(w) \/ EndOrder(w) PROVE TypeOK' /\ Shapes'
  <2>1. req' \in [Web -> Request] /\ \A v \in Web : req'[v] = req[v] \/ req'[v] = Idle
    BY <1>0, <1>3, Ended DEF Kill, EndOrder
  <2>2. /\ UNCHANGED <<env, rows, paid, check, writer, unused, told, mails, edits>>
        /\ kills' \in Nat /\ repeats' \in Nat /\ order' \in OrderTypes \cup {"none"}
    BY <1>0, <1>3 DEF Kill, EndOrder, workers, TypeOK
  <2>5. due' \in Tasks /\ due'.check = due.check
    <3>1. due \in Tasks
      BY TypeFacts
    <3>2. due' = due \/ due' = [due EXCEPT !.generate = @ + 1]
      BY <1>3 DEF Kill, EndOrder, Ordered, workers, TypeOK
    <3> QED BY <3>1, <3>2 DEF Tasks
  <2>3. TypeOK'
    BY <1>0, <2>1, <2>2, <2>5 DEF TypeOK, rows, Request, Places, Tasks
  <2>4. Shapes'
    BY <2>1, <2>2, <2>5, ShapesFrame DEF rows
  <2> QED BY <2>3, <2>4
<1>4. CASE ReadRow \/ SaveRow \/ DelegateRationales \/ CheckRationales
  <2>1. /\ UNCHANGED <<env, batch, review, candidates, order, paid, req, check, mails, counts>>
        /\ row' \in Questionnaire /\ writer' \in [pc : {"none", "read"}, row : Questionnaire]
        /\ unused' \in BOOLEAN /\ told' \in BOOLEAN
    <3>1. CASE ReadRow
      <4> DEFINE r == [pc |-> "read", row |-> row]
      <4>1. r \in [pc : {"none", "read"}, row : Questionnaire]
        BY <1>0 DEF TypeOK
      <4>2. writer' = r /\ UNCHANGED <<env, rows, order, paid, req, check, unused, told, mails, counts>>
        BY <3>1 DEF ReadRow
      <4> HIDE DEF r
      <4> QED BY <1>0, <4>1, <4>2 DEF rows, TypeOK
    <3>2. CASE SaveRow
      <4>1. writer.row \in Questionnaire
        BY <1>0 DEF TypeOK
      <4> QED BY <1>0, <3>2, <4>1, Values DEF SaveRow, TypeOK
    <3>3. CASE DelegateRationales \/ CheckRationales
      BY <1>0, <3>3 DEF DelegateRationales, CheckRationales, rows, TypeOK
    <3> QED BY <1>4, <3>1, <3>2, <3>3
  <2>2. due' \in Tasks /\ due'.check = due.check
    <3>0. due \in Tasks
      BY TypeFacts
    <3>1. CASE ReadRow
      <4>1. due' = [due EXCEPT !.describe = @ - 1] /\ due.describe > 0
        BY <3>1 DEF ReadRow
      <4> QED BY <3>0, <4>1 DEF Tasks
    <3>2. CASE due' = due
      BY <3>0, <3>2
    <3>3. CASE DelegateRationales
      <4>1. /\ due.generate > 0
            /\ \/ due' = [due EXCEPT !.generate = @ - 1, !.rationales = @ + 1]
               \/ due' = [due EXCEPT !.generate = @ - 1]
        BY <3>3 DEF DelegateRationales
      <4>2. CASE due' = [due EXCEPT !.generate = @ - 1, !.rationales = @ + 1]
        <5> DEFINE g == due.generate - 1
                   r == due.rationales + 1
        <5>1. g \in Nat /\ r \in Nat
          BY <3>0, <4>1 DEF Tasks
        <5>2. due' = [due EXCEPT !.generate = g, !.rationales = r]
          BY <4>2
        <5> HIDE DEF g, r
        <5> QED BY <3>0, <5>1, <5>2 DEF Tasks
      <4>3. CASE due' = [due EXCEPT !.generate = @ - 1]
        BY <3>0, <4>1, <4>3 DEF Tasks
      <4> QED BY <4>1, <4>2, <4>3
    <3>4. CASE CheckRationales
      <4>1. due.rationales > 0 /\ due' = [due EXCEPT !.rationales = @ - 1]
        BY <3>4 DEF CheckRationales
      <4> QED BY <3>0, <4>1 DEF Tasks
    <3> QED BY <1>4, <3>1, <3>2, <3>3, <3>4 DEF SaveRow
  <2>3. TypeOK'
    BY <1>0, <2>1, <2>2 DEF TypeOK, counts, Tasks
  <2>4. Shapes'
    BY <2>1, <2>2, ShapesFrame
  <2> QED BY <2>3, <2>4
<1> QED BY <1>1, <1>2, <1>3, <1>4

\* Steps of web processes about batches and reviews.
LEMMA TypesBatches ==
  ASSUME TypeOK, Shapes, NEW w \in Web,
         SetPayed(w) \/ MarkBatch(w) \/ FindReview(w) \/ FillReview(w) \/ AddPlus(w)
  PROVE  TypeOK' /\ Shapes'
<1>0. TypeOK /\ req \in [Web -> Request] /\ req[w] \in Request /\ Shaped(req[w])
  BY TypeFacts DEF Shapes
<1>1. CASE SetPayed(w)
  <2>1. /\ req' \in [Web -> Request] /\ \A v \in Web \ {w} : req'[v] = req[v]
        /\ req'[w].pc = "mark" /\ req'[w].rows = batch /\ req'[w].todo = Bought(batch)
        /\ row' \in Questionnaire
    BY <1>1, SetPayedShape
  <2>2. UNCHANGED <<env, batch, review, candidates, order, paid, workers, mails, counts>>
    BY <1>1 DEF SetPayed
  <2>3. TypeOK'
    BY <1>0, <2>1, <2>2 DEF TypeOK, workers, counts, Request, Places
  <2>4. Shaped(req'[w])
    BY <2>1 DEF Shaped, Bought, NoBatch
  <2>5. Shapes'
    BY <2>1, <2>2, <2>4, ShapesFrame DEF workers
  <2> QED BY <2>3, <2>5
<1>2. CASE MarkBatch(w)
  <2>1. /\ req[w].pc = "mark" /\ req[w].todo # {} /\ req' = [req EXCEPT ![w].pc = "review"]
        /\ batch' = [batch EXCEPT ![This(w)] = [req[w].rows[This(w)] EXCEPT !.status = "required"]]
    BY <1>2 DEF MarkBatch, At, Goto
  <2>2. UNCHANGED <<env, row, review, candidates, order, paid, workers, mails, counts>>
    BY <1>2 DEF MarkBatch
  <2>3. /\ req' \in [Web -> Request] /\ \A v \in Web \ {w} : req'[v] = req[v]
        /\ req'[w].pc = "review" /\ req'[w].rows = req[w].rows /\ req'[w].todo = req[w].todo
    BY <1>0, <2>1, Moved DEF Places
  <2>4. This(w) \in Batches
    BY <2>1, ThisOne
  <2>5. batch' \in [Batches -> Batch] /\ \A b \in Batches : batch'[b] = batch[b] \/ batch'[b].status = "required"
    <3> DEFINE new == [req[w].rows[This(w)] EXCEPT !.status = "required"]
    <3>1. req[w].rows[This(w)] \in Batch
      BY <1>0, <2>4 DEF Request
    <3>2. new \in Batch /\ new.status = "required"
      BY <3>1 DEF Batch
    <3>3. batch' = [batch EXCEPT ![This(w)] = new]
      BY <2>1
    <3> HIDE DEF new
    <3> QED BY <1>0, <2>4, <3>2, <3>3 DEF TypeOK
  <2>6. TypeOK'
    BY <1>0, <2>2, <2>3, <2>5 DEF TypeOK, workers, counts, Request, Places
  <2>7. Shaped(req'[w])
    BY <1>0, <2>1, <2>3 DEF Shaped
  <2>8. Shapes'
    <3>1. \A b \in Batches : batch[b] # NoBatch => batch'[b] # NoBatch
      BY <2>5, Values
    <3> QED BY <2>2, <2>3, <2>7, <3>1, ShapesFrame DEF workers
  <2> QED BY <2>6, <2>8
<1>3. CASE FindReview(w)
  <2>1. This(w) \in Batches /\ req[w].pc = "review" /\ req[w].todo # {}
    BY <1>3, FindShape
  <2>2. UNCHANGED <<env, row, candidates, order, paid, workers, counts>>
    BY <1>3 DEF FindReview
  <2>3. ASSUME NEW pc \in {"plus", "fill"}, req' = [req EXCEPT ![w].pc = pc],
               batch' \in [Batches -> Batch], review' \in [Batches -> Review \cup {NoReview}], mails' \in Nat,
               \A b \in Batches : batch[b] # NoBatch => batch'[b] # NoBatch
        PROVE  TypeOK' /\ Shapes'
    <3>1. /\ req' \in [Web -> Request] /\ \A v \in Web \ {w} : req'[v] = req[v]
          /\ req'[w].pc = pc /\ req'[w].rows = req[w].rows /\ req'[w].todo = req[w].todo
      BY <1>0, <2>3, Moved DEF Places
    <3>2. TypeOK'
      BY <1>0, <2>2, <2>3, <3>1 DEF TypeOK, workers, counts, Request, Places
    <3>3. Shaped(req'[w])
      BY <1>0, <2>1, <3>1 DEF Shaped
    <3>4. Shapes'
      BY <2>2, <2>3, <3>1, <3>3, ShapesFrame DEF workers
    <3> QED BY <3>2, <3>4
  <2>4. ASSUME UNCHANGED <<batch, review, mails>>
        PROVE  /\ batch' \in [Batches -> Batch] /\ review' \in [Batches -> Review \cup {NoReview}]
               /\ mails' \in Nat /\ \A b \in Batches : batch[b] # NoBatch => batch'[b] # NoBatch
    BY <1>0, <2>4 DEF TypeOK
  <2>5. ASSUME NEW r \in Review, NEW bought \in BOOLEAN, SaveReview(This(w), r, bought)
        PROVE  /\ batch' \in [Batches -> Batch] /\ review' \in [Batches -> Review \cup {NoReview}]
               /\ mails' \in Nat /\ \A b \in Batches : batch[b] # NoBatch => batch'[b] # NoBatch
    <3>1. /\ batch' \in [Batches -> Batch] /\ review' \in [Batches -> Review \cup {NoReview}] /\ mails' \in Nat
          /\ batch'[This(w)].status \in {"done", "pending"}
          /\ \A c \in Batches \ {This(w)} : batch'[c] = batch[c]
      BY <2>1, <2>5, SavedShape, Statuses
    <3>2. \A b \in Batches : batch[b] # NoBatch => batch'[b] # NoBatch
      BY <3>1, Values
    <3> QED BY <3>1, <3>2
  <2>6. HasReview(This(w)) => Reopened(This(w)) \in Review
    <3>1. HasReview(This(w)) => review[This(w)] \in Review
      BY <1>0, <2>1 DEF HasReview, TypeOK
    <3> QED BY <3>1 DEF Reopened, Review
  <2>7. batch[This(w)].bought \in BOOLEAN
    BY <1>0, <2>1 DEF TypeOK, Batch
  <2>8. CASE Raise(w)
    <3>1. req' \in [Web -> Request] /\ \A v \in Web : req'[v] = req[v] \/ req'[v] = Idle
      BY <1>0, <2>8, Ended DEF Raise
    <3>2. UNCHANGED <<rows, mails>>
      BY <2>8 DEF Raise
    <3>3. TypeOK'
      BY <1>0, <2>2, <3>1, <3>2 DEF TypeOK, rows, workers, counts, Request, Places
    <3>4. Shapes'
      BY <2>2, <3>1, <3>2, ShapesFrame DEF rows, workers
    <3> QED BY <3>3, <3>4
  <2> QED BY <1>3, <2>3, <2>4, <2>5, <2>6, <2>7, <2>8, FindShape, Values
<1>4. CASE FillReview(w) \/ AddPlus(w)
  <2>1. req[w].pc \in {"fill", "plus"} /\ req[w].todo # {}
    BY <1>0, <1>4 DEF FillReview, AddPlus, At, Shaped
  <2>2. This(w) \in Batches
    BY <2>1, ThisOne
  <2>3. /\ UNCHANGED <<env, row, batch, candidates, order, paid, workers, mails, counts>>
    BY <1>4 DEF FillReview, AddPlus, Raise, rows
  <2>4. /\ req' \in [Web -> Request]
        /\ \A v \in Web : req'[v] = req[v] \/ req'[v] = Idle \/ Shaped(req'[v])
    <3>1. CASE Raise(w)
      BY <1>0, <3>1, Ended DEF Raise
    <3>2. CASE req' = [req EXCEPT ![w].pc = "plus"] /\ req[w].pc = "fill"
      <4>1. /\ req' \in [Web -> Request] /\ \A v \in Web \ {w} : req'[v] = req[v]
            /\ req'[w].pc = "plus" /\ req'[w].rows = req[w].rows /\ req'[w].todo = req[w].todo
        BY <1>0, <3>2, Moved DEF Places
      <4>2. Shaped(req'[w])
        BY <1>0, <2>1, <4>1 DEF Shaped
      <4> QED BY <4>1, <4>2
    <3>3. CASE req' = [req EXCEPT ![w] = NextBatch(w)]
      <4>1. /\ req' \in [Web -> Request] /\ \A v \in Web \ {w} : req'[v] = req[v]
            /\ req'[w].pc = "mark" /\ req'[w].rows = req[w].rows /\ req'[w].todo \subseteq req[w].todo
        BY <1>0, <3>3, Advanced
      <4>2. Shaped(req'[w])
        BY <1>0, <4>1 DEF Shaped
      <4> QED BY <4>1, <4>2
    <3>4. Raise(w) \/ (req' = [req EXCEPT ![w].pc = "plus"] /\ req[w].pc = "fill") \/ req' = [req EXCEPT ![w] = NextBatch(w)]
      BY <1>4 DEF FillReview, AddPlus, At
    <3> QED BY <3>1, <3>2, <3>3, <3>4
  <2>5. review' \in [Batches -> Review \cup {NoReview}]
    <3>1. \/ review' = review
          \/ /\ HasReview(This(w))
             /\ review' = [review EXCEPT ![This(w)].results = IF @ = "valid" THEN @ ELSE "empty",
                                         ![This(w)].of = @ \cup {This(w)}]
          \/ HasReview(This(w)) /\ review' = [review EXCEPT ![This(w)].triples = Min({@ + 1, 2}), ![This(w)].filled = FALSE]
      BY <1>4 DEF FillReview, AddPlus, Raise, rows
    <3>2. CASE /\ HasReview(This(w))
               /\ review' = [review EXCEPT ![This(w)].results = IF @ = "valid" THEN @ ELSE "empty",
                                           ![This(w)].of = @ \cup {This(w)}]
      <4> DEFINE res == IF review[This(w)].results = "valid" THEN "valid" ELSE "empty"
                 of == review[This(w)].of \cup {This(w)}
                 r == [review[This(w)] EXCEPT !.results = res, !.of = of]
      <4>1. review[This(w)] \in Review
        BY <1>0, <2>2, <3>2 DEF HasReview, TypeOK
      <4>2. review' = [review EXCEPT ![This(w)] = r]
        BY <3>2
      <4>3. of \in SUBSET Batches /\ res \in {"none", "empty", "valid"}
        BY <2>2, <4>1 DEF Review
      <4> HIDE DEF res, of
      <4>4. r \in Review
        BY <4>1, <4>3 DEF Review
      <4> HIDE DEF r
      <4> QED BY <1>0, <4>2, <4>4 DEF TypeOK
    <3>3. CASE HasReview(This(w)) /\ review' = [review EXCEPT ![This(w)].triples = Min({@ + 1, 2}), ![This(w)].filled = FALSE]
      <4> DEFINE n == Min({review[This(w)].triples + 1, 2})
                 r == [review[This(w)] EXCEPT !.triples = n, !.filled = FALSE]
      <4>1. review[This(w)] \in Review
        BY <1>0, <2>2, <3>3 DEF HasReview, TypeOK
      <4>2. n \in Nat
        <5>1. {review[This(w)].triples + 1, 2} \in SUBSET Nat
          BY <4>1 DEF Review
        <5> QED BY <5>1, FirstOne
      <4>3. review' = [review EXCEPT ![This(w)] = r]
        BY <3>3
      <4> HIDE DEF n
      <4>4. r \in Review
        BY <4>1, <4>2 DEF Review
      <4> HIDE DEF r
      <4> QED BY <1>0, <4>3, <4>4 DEF TypeOK
    <3> QED BY <1>0, <3>1, <3>2, <3>3 DEF TypeOK
  <2>6. TypeOK'
    BY <1>0, <2>3, <2>4, <2>5 DEF TypeOK, workers, counts, Request, Places
  <2>7. Shapes'
    BY <2>3, <2>4, ShapesFrame DEF workers
  <2> QED BY <2>6, <2>7
<1> QED BY <1>1, <1>2, <1>3, <1>4

\* Administrators save or delete one review.
LEMMA SaveFormShape ==
  ASSUME TypeOK, NEW b \in Batches, NEW c \in Batches, NEW r \in Review, SaveForm(b, c, r)
  PROVE  /\ batch' \in [Batches -> Batch] /\ review' \in [Batches -> Review \cup {NoReview}] /\ mails' \in Nat
         /\ review'[c] = Validated(r) /\ Validated(r) \in Review
         /\ c # b => review'[b] = NoReview
         /\ batch'[c].bought = batch[c].bought /\ batch'[c].status = StatusFor(Validated(r))
         /\ \A x \in Batches \ {c} : batch'[x] = batch[x]
         /\ \A x \in Batches \ {b, c} : review'[x] = review[x]
         /\ Validated(r) = r /\ mails' # mails => CommonStatus(row, batch') = "completed"
<1> DEFINE saved == Validated(r)
           first == [batch EXCEPT ![c].status = StatusFor(r)]
           again == [batch EXCEPT ![c].status = StatusFor(saved)]
           new == [batch[c] EXCEPT !.status = StatusFor(saved)]
<1>1. /\ review' = [review EXCEPT ![b] = NoReview, ![c] = saved] /\ batch' = again
      /\ mails' = mails + MailsFor(first) + (IF saved = r THEN 0 ELSE MailsFor(again))
  BY DEF SaveForm
<1>2. saved \in Review
  BY DEF Validated, Review
<1>3. new \in Batch /\ new.bought = batch[c].bought /\ new.status = StatusFor(saved)
  <2>1. batch[c] \in Batch /\ StatusFor(saved) \in {"done", "pending"}
    BY Statuses DEF TypeOK
  <2> HIDE DEF saved
  <2> QED BY <2>1 DEF Batch
<1>4. batch' = [batch EXCEPT ![c] = new]
  BY <1>1
<1>5. MailsFor(first) \in Nat /\ MailsFor(again) \in Nat /\ mails \in Nat
  BY Statuses DEF TypeOK
<1>6. saved = r => first = again
  OBVIOUS
<1>7. MailsFor(again) # 0 => CommonStatus(row, again) = "completed"
  BY Statuses
<1> HIDE DEF saved, first, again, new
<1>8. mails' \in Nat /\ (saved = r /\ mails' # mails => CommonStatus(row, batch') = "completed")
  <2>1. CASE saved = r
    BY <1>1, <1>5, <1>6, <1>7, <2>1
  <2>2. CASE saved # r
    BY <1>1, <1>5, <2>2
  <2> QED BY <2>1, <2>2
<1>9. batch' \in [Batches -> Batch] /\ batch'[c] = new /\ \A x \in Batches \ {c} : batch'[x] = batch[x]
  BY <1>3, <1>4 DEF TypeOK
<1>10. /\ review' \in [Batches -> Review \cup {NoReview}] /\ review'[c] = saved
       /\ c # b => review'[b] = NoReview
       /\ \A x \in Batches \ {b, c} : review'[x] = review[x]
  BY <1>1, <1>2 DEF TypeOK
<1> QED BY <1>2, <1>3, <1>8, <1>9, <1>10 DEF saved

\* A review that is saved by the form: for its own batch, or for one that requires a review.
Saved(b) ==
    \E c \in Batches, r \in Review :
        /\ SaveForm(b, c, r)
        /\ c # b => env.moves /\ batch[c].status = "required" /\ ~HasReview(c)
        /\ ~env.removes => r.triples = review[b].triples /\ (r.results = "none" <=> review[b].results = "none")
        /\ r.results # "none" => review[b].results # "none"
        /\ r.of = IF r.results = "none" THEN {} ELSE review[b].of
        /\ r.completed => Valid(r) \/ env.careless
\* A review that is added.
Added(b) ==
    \/ \E r \in Review : /\ SaveForm(b, b, r) /\ r.results = "empty" /\ r.of = {b}
                         /\ r.completed => env.careless
    \/ /\ UNCHANGED <<batch, review>> /\ mails' \in Nat
       /\ ~env.careless /\ mails' # mails => CommonStatus(row, batch) = "completed"

LEMMA EditShape ==
  ASSUME TypeOK, NEW b \in Batches, EditReview(b)
  PROVE  HasReview(b) /\ candidates' \subseteq Names /\ Saved(b)
<1>1. HasReview(b) /\ review[b] \in Review
  BY DEF EditReview, HasReview, TypeOK
<1>2. PICK c \in Offers(b), completed \in BOOLEAN, filled \in BOOLEAN, results \in Entries(b),
           triples \in {review[b].triples} \cup (IF env.removes THEN {0} ELSE {}),
           names \in SUBSET (candidates \cup review[b].names) :
        LET r == [review[b] EXCEPT !.completed = completed, !.results = results,
                                   !.of = IF results = "none" THEN {} ELSE @,
                                   !.triples = triples, !.filled = filled, !.names = names]
        IN  /\ triples = 0 => filled /\ names = {}
            /\ filled => (triples = 0 \/ names # {})
            /\ completed => Valid(r) \/ env.careless
            /\ SaveForm(b, c, r)
            /\ \E saved \in SUBSET names :
                   names \ review[b].names \subseteq saved /\ TakeSuggestions(r, saved)
  BY Zenon DEF EditReview
<1> DEFINE of == IF results = "none" THEN {} ELSE review[b].of
           r == [review[b] EXCEPT !.completed = completed, !.results = results, !.of = of,
                                  !.triples = triples, !.filled = filled, !.names = names]
<1>3. /\ completed => Valid(r) \/ env.careless
      /\ SaveForm(b, c, r)
      /\ \E saved \in SUBSET names : TakeSuggestions(r, saved)
  BY <1>2
<1>4. names \subseteq Names
  BY <1>1 DEF Review, TypeOK
<1>5. /\ results \in {"none", "empty", "valid"} /\ (results # "none" => review[b].results # "none")
      /\ ~env.removes => (results = "none" <=> review[b].results = "none")
  BY DEF Entries
<1>6. triples \in Nat /\ (~env.removes => triples = review[b].triples)
  BY <1>1 DEF Review
<1>7. of \in SUBSET Batches /\ of = IF results = "none" THEN {} ELSE review[b].of
  BY <1>1 DEF Review
<1>8. c \in Batches /\ (c # b => env.moves /\ batch[c].status = "required" /\ ~HasReview(c))
  BY DEF Offers
<1> HIDE DEF of
<1>9. /\ r \in Review /\ r.triples = triples /\ r.results = results /\ r.of = of
      /\ r.completed = completed
  BY <1>1, <1>4, <1>5, <1>6, <1>7 DEF Review
<1> HIDE DEF r
<1>10. candidates' \subseteq Names
  BY <1>3 DEF TakeSuggestions, TypeOK
<1>11. Saved(b)
  <2>1. /\ SaveForm(b, c, r)
        /\ c # b => env.moves /\ batch[c].status = "required" /\ ~HasReview(c)
        /\ ~env.removes => r.triples = review[b].triples /\ (r.results = "none" <=> review[b].results = "none")
        /\ r.results # "none" => review[b].results # "none"
        /\ r.of = IF r.results = "none" THEN {} ELSE review[b].of
        /\ r.completed => Valid(r) \/ env.careless
    BY <1>3, <1>5, <1>6, <1>7, <1>8, <1>9
  <2> QED BY <1>8, <1>9, <2>1 DEF Saved
<1> QED BY <1>1, <1>10, <1>11

\* Nothing else is compared than the numbers of bought batches and of those with a status.
LEMMA SameStatus ==
  ASSUME NEW f, NEW g, \A x \in Batches : f[x].bought = g[x].bought,
         \A x \in Batches : f[x].status = "done" <=> g[x].status = "done",
         CommonStatus(row, f) = "completed"
  PROVE  CommonStatus(row, g) = "completed"
<1>1. Bought(f) = Bought(g) /\ In(f, "done") = In(g, "done")
  BY DEF Bought, In
<1> QED BY <1>1 DEF CommonStatus

LEMMA NewShape ==
  ASSUME TypeOK, NEW b \in Batches, AddReview(b)
  PROVE  batch[b].status = "required" /\ ~HasReview(b) /\ candidates' \subseteq Names /\ Added(b)
<1>1. batch[b].status = "required" /\ ~HasReview(b) /\ UNCHANGED candidates
  BY DEF AddReview
<1>2. PICK completed \in {FALSE, env.careless} :
         LET r == [Created EXCEPT !.completed = completed, !.results = "empty", !.of = {b}]
         IN  \/ ~Held(b) /\ SaveForm(b, b, r)
             \/ /\ Held(b) /\ mails' = mails + MailsFor([batch EXCEPT ![b].status = StatusFor(r)])
                /\ UNCHANGED <<batch, review>>
  BY DEF AddReview
<1> DEFINE r == [Created EXCEPT !.completed = completed, !.results = "empty", !.of = {b}]
           first == [batch EXCEPT ![b].status = StatusFor(r)]
<1>3. \/ SaveForm(b, b, r)
      \/ mails' = mails + MailsFor(first) /\ UNCHANGED <<batch, review>>
  BY <1>2
<1>4. completed \in BOOLEAN /\ (completed => env.careless)
  <2>1. env.careless \in BOOLEAN
    BY ReviewsAssumption DEF TypeOK
  <2>2. completed = FALSE \/ completed = env.careless
    OBVIOUS
  <2> QED BY <2>1, <2>2
<1>5. r \in Review /\ r.results = "empty" /\ r.of = {b} /\ r.completed = completed
  BY <1>4, Values DEF Review
<1> HIDE DEF r
<1>6. CASE SaveForm(b, b, r)
  BY <1>1, <1>4, <1>5, <1>6 DEF Added, TypeOK
<1>7. CASE mails' = mails + MailsFor(first) /\ UNCHANGED <<batch, review>>
  <2>1. mails' \in Nat /\ (mails' # mails => CommonStatus(row, first) = "completed")
    <3>1. MailsFor(first) \in Nat /\ (MailsFor(first) # 0 => CommonStatus(row, first) = "completed") /\ mails \in Nat
      BY Statuses DEF TypeOK
    <3> HIDE DEF first
    <3> QED BY <1>7, <3>1
  <2>2. ~env.careless => StatusFor(r) = "pending"
    BY <1>4, <1>5 DEF StatusFor
  <2>3. ~env.careless => \A x \in Batches : /\ first[x].bought = batch[x].bought
                                            /\ first[x].status = "done" <=> batch[x].status = "done"
    BY <1>1, <2>2 DEF TypeOK, Batch
  <2>4. ~env.careless /\ CommonStatus(row, first) = "completed" => CommonStatus(row, batch) = "completed"
    <3> HIDE DEF first
    <3> QED BY <2>3, SameStatus
  <2> HIDE DEF first
  <2> QED BY <1>1, <1>7, <2>1, <2>4 DEF Added, TypeOK
<1> QED BY <1>3, <1>6, <1>7

\* What an administrator may do to a review, in terms of the review that is saved.
LEMMA ChangeShape ==
  ASSUME TypeOK, NEW b \in Batches, ChangeReview(b)
  PROVE  /\ UNCHANGED <<env, row, order, paid, req, workers, kills, repeats>> /\ edits' \in Nat
         /\ Undisturbed /\ NoRequests /\ candidates' \subseteq Names
         /\ \/ HasReview(b) /\ Saved(b)
            \/ env.removes /\ batch[b].status = "required" /\ ~HasReview(b) /\ Added(b)
            \/ env.removes /\ HasReview(b) /\ DeleteReview(b)
<1>1. /\ UNCHANGED <<env, row, order, paid, req, workers, kills, repeats>> /\ edits' \in Nat
      /\ Undisturbed /\ NoRequests /\ edits < env.edits
      /\ EditReview(b) \/ (env.removes /\ (AddReview(b) \/ (HasReview(b) /\ DeleteReview(b))))
  BY DEF ChangeReview, TypeOK
<1>2. CASE EditReview(b)
  BY <1>1, <1>2, EditShape
<1>3. CASE env.removes /\ AddReview(b)
  BY <1>1, <1>3, NewShape
<1>4. CASE env.removes /\ HasReview(b) /\ DeleteReview(b)
  BY <1>1, <1>4 DEF DeleteReview, TypeOK
<1> QED BY <1>1, <1>2, <1>3, <1>4

LEMMA DeleteShape ==
  ASSUME TypeOK, NEW b \in Batches, DeleteReview(b)
  PROVE  /\ batch' \in [Batches -> Batch] /\ review' \in [Batches -> Review \cup {NoReview}] /\ mails' = mails
         /\ review'[b] = NoReview /\ batch'[b].bought = batch[b].bought /\ batch'[b].status = "required"
         /\ \A c \in Batches \ {b} : batch'[c] = batch[c] /\ review'[c] = review[c]
<1> DEFINE new == [batch[b] EXCEPT !.status = "required"]
<1>1. new \in Batch /\ new.bought = batch[b].bought /\ new.status = "required"
  BY DEF TypeOK, Batch
<1>2. batch' = [batch EXCEPT ![b] = new] /\ review' = [review EXCEPT ![b] = NoReview] /\ mails' = mails
  BY DEF DeleteReview
<1> HIDE DEF new
<1> QED BY <1>1, <1>2 DEF TypeOK

LEMMA TypesChange ==
  ASSUME TypeOK, Shapes, NEW b \in Batches, ChangeReview(b)
  PROVE  TypeOK' /\ Shapes'
<1>1. /\ UNCHANGED <<env, row, order, paid, req, workers, kills, repeats>> /\ edits' \in Nat
      /\ candidates' \subseteq Names
  BY ChangeShape
<1>2. /\ batch' \in [Batches -> Batch] /\ review' \in [Batches -> Review \cup {NoReview}] /\ mails' \in Nat
      /\ \A c \in Batches : batch'[c] = batch[c] \/ batch'[c].status \in {"done", "pending", "required"}
  <2>1. ASSUME NEW c \in Batches, NEW r \in Review, SaveForm(b, c, r) PROVE <1>2!:
    BY <2>1, SaveFormShape, Statuses
  <2>2. CASE DeleteReview(b)
    BY <2>2, DeleteShape DEF TypeOK
  <2>3. CASE UNCHANGED <<batch, review>> /\ mails' \in Nat
    BY <2>3 DEF TypeOK
  <2>4. Saved(b) => \E c \in Batches, r \in Review : SaveForm(b, c, r)
    BY DEF Saved
  <2>5. Added(b) => (\E c \in Batches, r \in Review : SaveForm(b, c, r))
                    \/ (UNCHANGED <<batch, review>> /\ mails' \in Nat)
    BY DEF Added
  <2>6. \/ \E c \in Batches, r \in Review : SaveForm(b, c, r)
        \/ DeleteReview(b)
        \/ UNCHANGED <<batch, review>> /\ mails' \in Nat
    BY <2>4, <2>5, ChangeShape
  <2> QED BY <2>1, <2>2, <2>3, <2>6
<1>3. TypeOK'
  BY <1>1, <1>2 DEF TypeOK, workers
<1>4. \A c \in Batches : batch[c] # NoBatch => batch'[c] # NoBatch
  BY <1>2, Values
<1>5. Shapes'
  BY <1>1, <1>4, ShapesFrame DEF workers
<1> QED BY <1>3, <1>5

\* A further batch is picked.
LEMMA PickShape ==
  ASSUME TypeOK, NEW w \in Web, PickBatch(w)
  PROVE  /\ w \in env.web /\ req[w] = Idle
         /\ req' \in [Web -> Request] /\ \A v \in Web \ {w} : req'[v] = req[v]
         /\ req'[w].pc = "sell" /\ req'[w].type = "sale" /\ req'[w].row = row /\ req'[w].rows = batch
         /\ \E b \in Rows \ Bought(batch) : req'[w].todo = {b}
         /\ UNCHANGED <<env, rows, order, paid, workers, mails, counts>>
<1>1. Rows \ Bought(batch) # {} /\ Rows \ Bought(batch) \in SUBSET Nat
  BY ReviewsAssumption DEF PickBatch, Rows
<1>2. PICK b \in Rows \ Bought(batch) : b = Min(Rows \ Bought(batch))
  BY <1>1, FirstOne
<1> DEFINE r == [pc |-> "sell", type |-> "sale", row |-> row, rows |-> batch, todo |-> {b}]
<1>3. /\ r \in Request /\ r.pc = "sell" /\ r.type = "sale" /\ r.row = row /\ r.rows = batch
      /\ r.todo = {b}
  BY DEF Request, Places, TypeOK, Rows
<1>4. req' = [req EXCEPT ![w] = r]
  BY <1>2 DEF PickBatch
<1> HIDE DEF r
<1> QED BY <1>2, <1>3, <1>4, TypeFacts DEF PickBatch, Started

LEMMA SellShape ==
  ASSUME TypeOK, Shapes, NEW w \in Web, SellBatch(w)
  PROVE  /\ req[w].pc = "sell" /\ This(w) \in req[w].todo /\ This(w) \in Batches
         /\ batch' \in [Batches -> Batch] /\ batch'[This(w)].bought
         /\ batch'[This(w)].status = IF req[w].row.review THEN "required" ELSE req[w].rows[This(w)].status
         /\ \A c \in Batches \ {This(w)} : batch'[c] = batch[c]
         /\ IF req[w].row.review THEN req' = [req EXCEPT ![w].pc = "review"] ELSE Done(w)
         /\ UNCHANGED <<env, row, review, candidates, order, paid, workers, mails, counts>>
<1>1. req[w].pc = "sell" /\ req[w].todo # {}
  BY DEF SellBatch, At, Shapes, Shaped
<1>2. This(w) \in req[w].todo /\ This(w) \in Batches
  BY <1>1, ThisOne
<1> DEFINE s == IF req[w].row.review THEN "required" ELSE req[w].rows[This(w)].status
           new == [bought |-> TRUE, status |-> s]
<1>3. req[w].rows[This(w)] \in Batch
  BY <1>2, TypeFacts DEF Request
<1>4. new \in Batch /\ new.bought = TRUE /\ new.status = s
  BY <1>3 DEF Batch
<1>5. batch' = [batch EXCEPT ![This(w)] = new]
  BY DEF SellBatch
<1>6. /\ IF req[w].row.review THEN req' = [req EXCEPT ![w].pc = "review"] ELSE Done(w)
      /\ UNCHANGED <<env, row, review, candidates, order, paid, workers, mails, counts>>
  BY DEF SellBatch, Goto
<1> HIDE DEF new
<1>7. /\ batch' \in [Batches -> Batch] /\ batch'[This(w)] = new
      /\ \A c \in Batches \ {This(w)} : batch'[c] = batch[c]
  BY <1>2, <1>4, <1>5 DEF TypeOK
<1> QED BY <1>1, <1>2, <1>4, <1>6, <1>7

LEMMA TypesSale ==
  ASSUME TypeOK, Shapes, NEW w \in Web, PickBatch(w) \/ SellBatch(w)
  PROVE  TypeOK' /\ Shapes'
<1>0. TypeOK /\ req \in [Web -> Request] /\ req[w] \in Request /\ Shaped(req[w])
  BY TypeFacts DEF Shapes
<1>1. CASE PickBatch(w)
  <2>1. /\ req' \in [Web -> Request] /\ \A v \in Web \ {w} : req'[v] = req[v]
        /\ req'[w].pc = "sell" /\ req'[w].rows = batch
        /\ UNCHANGED <<env, rows, order, paid, workers, mails, counts>>
    BY <1>1, PickShape
  <2>2. PICK b \in Rows \ Bought(batch) : req'[w].todo = {b}
    BY <1>1, PickShape
  <2>3. TypeOK'
    BY <1>0, <2>1 DEF TypeOK, rows, workers, counts, Request, Places
  <2>4. Shaped(req'[w])
    BY <2>1, <2>2 DEF Shaped, Rows
  <2>5. Shapes'
    BY <2>1, <2>4, ShapesFrame DEF rows, workers
  <2> QED BY <2>3, <2>5
<1>2. CASE SellBatch(w)
  <2>1. /\ req[w].pc = "sell" /\ This(w) \in req[w].todo /\ This(w) \in Batches
        /\ batch' \in [Batches -> Batch] /\ batch'[This(w)].bought
        /\ \A c \in Batches \ {This(w)} : batch'[c] = batch[c]
        /\ IF req[w].row.review THEN req' = [req EXCEPT ![w].pc = "review"] ELSE Done(w)
        /\ UNCHANGED <<env, row, review, candidates, order, paid, workers, mails, counts>>
    BY <1>2, SellShape
  <2>2. \A b \in Batches : batch[b] # NoBatch => batch'[b] # NoBatch
    BY <2>1, Values
  <2>3. /\ req' \in [Web -> Request]
        /\ \A v \in Web : req'[v] = req[v] \/ req'[v] = Idle \/ Shaped(req'[v])
    <3>1. CASE Done(w)
      BY <1>0, <3>1, Ended
    <3>2. CASE req' = [req EXCEPT ![w].pc = "review"]
      <4>1. /\ req' \in [Web -> Request] /\ \A v \in Web \ {w} : req'[v] = req[v]
            /\ req'[w].pc = "review" /\ req'[w].rows = req[w].rows /\ req'[w].todo = req[w].todo
        BY <1>0, <3>2, Moved DEF Places
      <4>2. Shaped(req'[w])
        BY <1>0, <2>1, <4>1 DEF Shaped
      <4> QED BY <4>1, <4>2
    <3> QED BY <2>1, <3>1, <3>2
  <2>4. TypeOK'
    BY <1>0, <2>1, <2>3 DEF TypeOK, workers, counts, Request, Places
  <2>5. Shapes'
    BY <2>1, <2>2, <2>3, ShapesFrame DEF workers
  <2> QED BY <2>4, <2>5
<1> QED BY <1>1, <1>2

LEMMA MadeShape ==
  ASSUME TypeOK, NEW b \in Batches, MakeBatch(b)
  PROVE  /\ batch[b] = NoBatch /\ batch' \in [Batches -> Batch] /\ ~batch'[b].bought /\ batch'[b].status = "new"
         /\ \A c \in Batches \ {b} : batch'[c] = batch[c]
         /\ due' \in Tasks /\ \A c \in Batches : c < b => batch[c] # NoBatch
         /\ UNCHANGED <<env, row, review, candidates, order, paid, req, check, writer, unused, told, mails, counts>>
<1> DEFINE new == [batch[b] EXCEPT !.status = "new"]
<1>1. batch[b] = NoBatch /\ \A c \in Batches : c < b => batch[c] # NoBatch
  BY DEF MakeBatch
<1>2. new \in Batch /\ new.bought = FALSE /\ new.status = "new"
  BY <1>1, Values DEF Batch
<1>3. batch' = [batch EXCEPT ![b] = new]
  BY DEF MakeBatch
<1> HIDE DEF new
<1>4. /\ batch' \in [Batches -> Batch] /\ batch'[b] = new
      /\ \A c \in Batches \ {b} : batch'[c] = batch[c]
  BY <1>2, <1>3 DEF TypeOK
<1>5. due' \in Tasks
  <2>1. due' = [due EXCEPT !.check = @ + 1]
    BY DEF MakeBatch
  <2> QED BY <2>1, TypeFacts DEF Tasks
<1>6. UNCHANGED <<env, row, review, candidates, order, paid, req, check, writer, unused, told, mails, counts>>
  BY DEF MakeBatch
<1> QED BY <1>1, <1>2, <1>4, <1>5, <1>6

\* The check for the phrases reads the rows that are there.
LEMMA StartCheckShape ==
  ASSUME TypeOK, StartCheck
  PROVE  /\ due.check > 0 /\ NoRequests
         /\ check' \in Checking /\ check'.rows = batch /\ check'.todo = Rows
         /\ due' \in Tasks
         /\ UNCHANGED <<env, rows, order, paid, req, writer, unused, told, mails, counts>>
<1> DEFINE c == [pc |-> "run", rows |-> batch, todo |-> Rows]
<1>1. c \in Checking /\ c.rows = batch /\ c.todo = Rows
  BY DEF Checking, TypeOK, Rows
<1>2. check' = c
  BY DEF StartCheck
<1> HIDE DEF c
<1>3. due' \in Tasks
  <2>1. due' = [due EXCEPT !.check = @ - 1] /\ due.check > 0
    BY DEF StartCheck
  <2> QED BY <2>1, TypeFacts DEF Tasks
<1>4. /\ due.check > 0 /\ NoRequests
      /\ UNCHANGED <<env, rows, order, paid, req, writer, unused, told, mails, counts>>
  BY DEF StartCheck
<1> QED BY <1>1, <1>2, <1>3, <1>4

LEMMA SaveCheckedShape ==
  ASSUME TypeOK, Shapes, SaveChecked
  PROVE  /\ check # NoCheck /\ check' \in Checking
         /\ \E b \in check.todo :
               /\ batch' \in [Batches -> Batch] /\ batch'[b].status = check.rows[b].status
               /\ check.rows[b].bought => batch'[b].bought
               /\ batch'[b].bought => check.rows[b].bought \/ Bought(batch) = {}
               /\ batch'[b] # NoBatch
               /\ \A c \in Batches \ {b} : batch'[c] = batch[c]
               /\ \/ check' = NoCheck
                  \/ check'.rows = check.rows /\ check'.todo = check.todo \ {b} /\ check'.todo # {}
         /\ due' \in Tasks /\ due'.check = due.check
         /\ UNCHANGED <<env, row, review, candidates, order, paid, req, writer, unused, told, mails, counts>>
<1>1. check \in Checking /\ check # NoCheck /\ check.todo # {} /\ check.todo \in SUBSET Batches
  BY TypeFacts DEF Checking, SaveChecked, Shapes
<1>2. check.todo \in SUBSET Nat
  BY <1>1, ReviewsAssumption
<1>3. PICK b \in check.todo : b = Min(check.todo)
  BY <1>1, <1>2, FirstOne
<1>0. PICK explained \in BOOLEAN :
          batch' = [batch EXCEPT ![b] =
                       [check.rows[b] EXCEPT !.bought = @ \/ (explained /\ Bought(batch) = {})]]
  BY <1>3 DEF SaveChecked
<1> DEFINE given == explained /\ Bought(batch) = {}
           new == [check.rows[b] EXCEPT !.bought = @ \/ given]
<1>4. check.rows[b] \in Batch /\ check.rows[b] # NoBatch
  BY <1>1 DEF Checking, Shapes
<1>5. /\ batch' = [batch EXCEPT ![b] = new]
      /\ \/ check' = NoCheck /\ due' = [due EXCEPT !.describe = @ + 1]
         \/ check.todo # {b} /\ check' = [check EXCEPT !.todo = @ \ {b}] /\ UNCHANGED due
      /\ UNCHANGED <<env, row, review, candidates, order, paid, req, writer, unused, told, mails, counts>>
  BY <1>0, <1>3 DEF SaveChecked
<1> HIDE DEF given
<1>6. given \in BOOLEAN
  BY DEF given
<1>7. /\ new \in Batch /\ new.status = check.rows[b].status
      /\ new.bought <=> check.rows[b].bought \/ given
  BY <1>4, <1>6 DEF Batch
<1>8. new # NoBatch
  <2>1. CASE check.rows[b].bought
    BY <1>7, <2>1, Values
  <2>2. CASE ~check.rows[b].bought
    <3>1. check.rows[b].status # "none"
      BY <1>4, <2>2 DEF Batch, NoBatch
    <3> QED BY <1>7, <3>1, Values
  <2> QED BY <2>1, <2>2
<1> HIDE DEF new
<1>9. batch' \in [Batches -> Batch] /\ batch'[b] = new /\ \A c \in Batches \ {b} : batch'[c] = batch[c]
  BY <1>1, <1>5, <1>7 DEF TypeOK
<1>10. due' \in Tasks /\ due'.check = due.check
  <2>1. CASE due' = [due EXCEPT !.describe = @ + 1]
    BY <2>1, TypeFacts DEF Tasks
  <2> QED BY <1>5, <2>1, TypeFacts
<1>11. check' \in Checking /\ (check' = NoCheck
           \/ (check'.rows = check.rows /\ check'.todo = check.todo \ {b} /\ check'.todo # {}))
  <2>1. CASE check' = NoCheck
    BY <2>1, Values
  <2>2. CASE check.todo # {b} /\ check' = [check EXCEPT !.todo = @ \ {b}]
    BY <1>1, <1>3, <2>2 DEF Checking
  <2> QED BY <1>5, <2>1, <2>2
<1> QED BY <1>1, <1>5, <1>7, <1>8, <1>9, <1>10, <1>11 DEF given

LEMMA TypesTasks ==
  ASSUME TypeOK, Shapes, (\E b \in Batches : MakeBatch(b)) \/ StartCheck \/ SaveChecked
  PROVE  TypeOK' /\ Shapes'
<1>0. TypeOK /\ req \in [Web -> Request] /\ check \in Checking
  BY TypeFacts
<1>1. ASSUME NEW b \in Batches, MakeBatch(b) PROVE TypeOK' /\ Shapes'
  <2>1. /\ batch' \in [Batches -> Batch] /\ ~batch'[b].bought /\ batch'[b].status = "new"
        /\ \A c \in Batches \ {b} : batch'[c] = batch[c]
        /\ due' \in Tasks
        /\ UNCHANGED <<env, row, review, candidates, order, paid, req, check, writer, unused, told, mails, counts>>
    BY <1>1, MadeShape
  <2>2. TypeOK'
    BY <1>0, <2>1 DEF TypeOK, counts, Tasks
  <2>3. batch'[b] # NoBatch /\ \A c \in Batches : batch[c] # NoBatch => batch'[c] # NoBatch
    BY <2>1, Values
  <2>4. Shapes'
    BY <2>1, <2>3, ShapesFrame
  <2> QED BY <2>2, <2>4
<1>2. CASE StartCheck
  <2>1. /\ due.check > 0 /\ check' \in Checking /\ check'.rows = batch /\ check'.todo = Rows
        /\ due' \in Tasks
        /\ UNCHANGED <<env, rows, order, paid, req, writer, unused, told, mails, counts>>
    BY <1>2, StartCheckShape
  <2>2. TypeOK'
    BY <1>0, <2>1 DEF TypeOK, rows, counts, Checking, Tasks
  <2>3. Rows # {}
    BY <2>1 DEF Shapes
  <2>4. \A w \in Web : Shaped(req[w])'
    BY <2>1 DEF Shapes, Shaped
  <2>5. Rows' = Rows
    BY <2>1 DEF Rows, rows
  <2>6. Shapes'
    BY <2>1, <2>3, <2>4, <2>5 DEF Shapes, Rows
  <2> QED BY <2>2, <2>6
<1>3. CASE SaveChecked
  <2>1. /\ check # NoCheck /\ check' \in Checking
        /\ due' \in Tasks /\ due'.check = due.check
        /\ UNCHANGED <<env, row, review, candidates, order, paid, req, writer, unused, told, mails, counts>>
    BY <1>3, SaveCheckedShape
  <2>2. PICK b \in check.todo :
               /\ batch' \in [Batches -> Batch] /\ batch'[b] # NoBatch
               /\ \A c \in Batches \ {b} : batch'[c] = batch[c]
               /\ \/ check' = NoCheck
                  \/ check'.rows = check.rows /\ check'.todo = check.todo \ {b} /\ check'.todo # {}
    BY <1>3, SaveCheckedShape
  <2>3. TypeOK'
    BY <1>0, <2>1, <2>2 DEF TypeOK, counts, Checking, Tasks
  <2>4. \A c \in Batches : batch[c] # NoBatch => batch'[c] # NoBatch
    BY <2>2
  <2>5. \A w \in Web : Shaped(req[w])'
    BY <2>1 DEF Shapes, Shaped
  <2>6. due'.check > 0 => Rows' # {}
    BY <2>1, <2>4 DEF Shapes, Rows
  <2>7. check' # NoCheck => check'.todo # {} /\ \A c \in check'.todo : check'.rows[c] # NoBatch
    BY <2>1, <2>2 DEF Shapes
  <2>8. Shapes'
    BY <2>5, <2>6, <2>7 DEF Shapes
  <2> QED BY <2>3, <2>8
<1> QED BY <1>1, <1>2, <1>3

LEMMA TypesStep ==
  ASSUME TypeOK, Shapes, [Next]_vars
  PROVE  TypeOK' /\ Shapes'
<1>1. CASE UNCHANGED vars
  <2>1. TypeOK'
    BY <1>1 DEF vars, rows, workers, counts, TypeOK
  <2>2. Shapes'
    BY <1>1 DEF vars, rows, workers, counts, Shapes, Shaped, Rows
  <2> QED BY <2>1, <2>2
<1>2. CASE \E type \in OrderTypes : Order(type)
  BY <1>2, TypesSmall
<1>3. CASE \E w \in Web : TakeOrder(w) \/ PickBatch(w) \/ WebStep(w) \/ Kill(w)
  BY <1>3, TypesSmall, TypesBatches, TypesSale DEF WebStep
<1>4. CASE \E b \in Batches : MakeBatch(b) \/ ChangeReview(b)
  BY <1>4, TypesTasks, TypesChange
<1>5. CASE StartCheck \/ ReadRow \/ WorkerStep
  BY <1>5, TypesSmall, TypesTasks DEF WorkerStep
<1> QED BY <1>1, <1>2, <1>3, <1>4, <1>5 DEF Next

LEMMA InitTypes ==
  ASSUME Init
  PROVE  TypeOK /\ Shapes
<1>1. TypeOK
  BY Values DEF Init, TypeOK, Request, Places, Checking
<1>2. \A w \in Web : req[w] = Idle
  BY DEF Init
<1>3. check = NoCheck /\ due.check = 0
  BY DEF Init
<1>4. Shaped(Idle)
  BY Values DEF Shaped
<1>5. Shapes
  BY <1>2, <1>3, <1>4 DEF Shapes
<1> QED BY <1>1, <1>5

\* Every variable keeps its type, and a request or a check that has batches left has read their
\* rows: Min is taken of a set that is not empty, and no save brings an empty row.
THEOREM ReviewsTypeCorrect == Spec => []TypeOK
<1>1. Init => TypeOK /\ Shapes
  BY InitTypes
<1>2. TypeOK /\ Shapes /\ [Next]_vars => TypeOK' /\ Shapes'
  BY TypesStep
<1> QED BY <1>1, <1>2, PTL DEF Spec

LEMMA MarkShape ==
  ASSUME TypeOK, Shapes, NEW w \in Web, MarkBatch(w)
  PROVE  /\ req[w].pc = "mark" /\ This(w) \in req[w].todo /\ This(w) \in Batches
         /\ req' = [req EXCEPT ![w].pc = "review"]
         /\ batch'[This(w)].status = "required" /\ batch'[This(w)].bought = req[w].rows[This(w)].bought
         /\ \A c \in Batches \ {This(w)} : batch'[c] = batch[c]
         /\ UNCHANGED <<env, row, review, candidates, order, paid, workers, mails, counts>>
<1>1. /\ req[w].pc = "mark" /\ req[w].todo # {} /\ req' = [req EXCEPT ![w].pc = "review"]
      /\ batch' = [batch EXCEPT ![This(w)] = [req[w].rows[This(w)] EXCEPT !.status = "required"]]
      /\ UNCHANGED <<env, row, review, candidates, order, paid, workers, mails, counts>>
  BY DEF MarkBatch, At, Goto
<1>2. This(w) \in req[w].todo /\ This(w) \in Batches
  BY <1>1, ThisOne
<1> DEFINE new == [req[w].rows[This(w)] EXCEPT !.status = "required"]
<1>3. req[w].rows[This(w)] \in Batch
  BY <1>2, TypeFacts DEF Request
<1>4. new.status = "required" /\ new.bought = req[w].rows[This(w)].bought
  BY <1>3 DEF Batch
<1>5. batch' = [batch EXCEPT ![This(w)] = new]
  BY <1>1
<1> HIDE DEF new
<1>6. batch'[This(w)] = new /\ \A c \in Batches \ {This(w)} : batch'[c] = batch[c]
  BY <1>2, <1>5 DEF TypeOK
<1> QED BY <1>1, <1>2, <1>4, <1>6

LEMMA FillShape ==
  ASSUME TypeOK, Shapes, NEW w \in Web, FillReview(w)
  PROVE  /\ req[w].pc = "fill" /\ This(w) \in req[w].todo /\ This(w) \in Batches
         /\ UNCHANGED <<env, row, batch, candidates, order, paid, workers, mails, counts>>
         /\ \/ /\ HasReview(This(w)) /\ ~Held(This(w)) /\ review'[This(w)] # NoReview
               /\ review'[This(w)].results \in {"empty", "valid"}
               /\ review'[This(w)].of = review[This(w)].of \cup {This(w)}
               /\ review'[This(w)].triples = review[This(w)].triples
               /\ \A c \in Batches \ {This(w)} : review'[c] = review[c]
               /\ IF WithPlus(w) THEN req' = [req EXCEPT ![w].pc = "plus"]
                                 ELSE req' = [req EXCEPT ![w] = NextBatch(w)]
            \/ (~HasReview(This(w)) \/ Held(This(w))) /\ Done(w) /\ UNCHANGED review
<1> DEFINE b == This(w)
<1>1. req[w].pc = "fill" /\ req[w].todo # {}
  BY DEF FillReview, At, Shapes, Shaped
<1>2. b \in req[w].todo /\ b \in Batches
  BY <1>1, ThisOne
<1>3. UNCHANGED <<env, row, batch, candidates, order, paid, workers, mails, counts>>
  BY DEF FillReview, Raise, rows
<1>4. CASE HasReview(b) /\ ~Held(b)
  <2> DEFINE res == IF review[b].results = "valid" THEN "valid" ELSE "empty"
             of == review[b].of \cup {b}
             r == [review[b] EXCEPT !.results = res, !.of = of]
  <2>1. review[b] \in Review
    BY <1>2, <1>4 DEF HasReview, TypeOK
  <2>2. res \in {"empty", "valid"} /\ of \in SUBSET Batches
    BY <1>2, <2>1 DEF Review
  <2>3. review' = [review EXCEPT ![b] = r]
    BY <1>4 DEF FillReview
  <2>4. IF WithPlus(w) THEN req' = [req EXCEPT ![w].pc = "plus"] ELSE req' = [req EXCEPT ![w] = NextBatch(w)]
    BY <1>4 DEF FillReview
  <2>5. of = review[b].of \cup {b}
    OBVIOUS
  <2> HIDE DEF res, of
  <2>6. r \in Review /\ r.results = res /\ r.of = of /\ r.triples = review[b].triples
    BY <2>1, <2>2 DEF Review
  <2> HIDE DEF r, b
  <2>7. review'[b] = r /\ \A c \in Batches \ {b} : review'[c] = review[c]
    BY <1>2, <2>3, <2>6 DEF TypeOK
  <2>8. review'[b] # NoReview
    BY <2>6, <2>7, Values
  <2> QED BY <1>1, <1>2, <1>3, <1>4, <2>2, <2>4, <2>5, <2>6, <2>7, <2>8 DEF b
<1>5. CASE ~(HasReview(b) /\ ~Held(b))
  BY <1>1, <1>2, <1>3, <1>5 DEF FillReview, Raise, rows
<1> QED BY <1>4, <1>5

\* While no review is moved, the entries of a review are those of the results of its batch.
Own == ~env.moves => \A b \in Batches : review[b].of = IF review[b].results \in {"empty", "valid"} THEN {b} ELSE {}

LEMMA AddShape ==
  ASSUME TypeOK, Shapes, NEW w \in Web, AddPlus(w)
  PROVE  /\ req[w].pc = "plus" /\ This(w) \in req[w].todo /\ This(w) \in Batches
         /\ UNCHANGED <<env, row, batch, candidates, order, paid, workers, mails, counts>>
         /\ \/ /\ HasReview(This(w)) /\ review'[This(w)] # NoReview
               /\ review'[This(w)].results = review[This(w)].results
               /\ review'[This(w)].of = review[This(w)].of
               /\ review[This(w)].triples = 0 => review'[This(w)].triples = 1
               /\ \A c \in Batches \ {This(w)} : review'[c] = review[c]
               /\ req' = [req EXCEPT ![w] = NextBatch(w)]
            \/ ~HasReview(This(w)) /\ Done(w) /\ UNCHANGED review
<1> DEFINE b == This(w)
<1>1. req[w].pc = "plus" /\ req[w].todo # {}
  BY DEF AddPlus, At, Shapes, Shaped
<1>2. b \in req[w].todo /\ b \in Batches
  BY <1>1, ThisOne
<1>3. UNCHANGED <<env, row, batch, candidates, order, paid, workers, mails, counts>>
  BY DEF AddPlus, Raise, rows
<1>4. CASE HasReview(b)
  <2> DEFINE n == Min({review[b].triples + 1, 2})
             r == [review[b] EXCEPT !.triples = n, !.filled = FALSE]
  <2>1. review[b] \in Review
    BY <1>2, <1>4 DEF HasReview, TypeOK
  <2>2. n \in Nat /\ (review[b].triples = 0 => n = 1)
    <3>1. {review[b].triples + 1, 2} \in SUBSET Nat /\ {review[b].triples + 1, 2} # {}
      BY <2>1 DEF Review
    <3>2. n \in {review[b].triples + 1, 2} /\ \A m \in {review[b].triples + 1, 2} : n <= m
      BY <3>1, FirstOne
    <3> QED BY <3>1, <3>2
  <2>3. review' = [review EXCEPT ![b] = r] /\ req' = [req EXCEPT ![w] = NextBatch(w)]
    BY <1>4 DEF AddPlus
  <2> HIDE DEF n
  <2>4. r \in Review /\ r.results = review[b].results /\ r.triples = n /\ r.of = review[b].of
    BY <2>1, <2>2 DEF Review
  <2> HIDE DEF r, b
  <2>5. review'[b] = r /\ \A c \in Batches \ {b} : review'[c] = review[c]
    BY <1>2, <2>3, <2>4 DEF TypeOK
  <2>6. review'[b] # NoReview
    BY <2>4, <2>5, Values
  <2> QED BY <1>1, <1>2, <1>3, <1>4, <2>2, <2>3, <2>4, <2>5, <2>6 DEF b
<1>5. CASE ~HasReview(b)
  BY <1>1, <1>2, <1>3, <1>5 DEF AddPlus, Raise, rows
<1> QED BY <1>4, <1>5

LEMMA OwnStep ==
  ASSUME TypeOK, Shapes, Own, [Next]_vars, env' = env
  PROVE  Own'
<1> SUFFICES ASSUME ~env.moves
             PROVE  \A b \in Batches :
                        review'[b].of = IF review'[b].results \in {"empty", "valid"} THEN {b} ELSE {}
  BY DEF Own
<1>0. \A b \in Batches : review[b].of = IF review[b].results \in {"empty", "valid"} THEN {b} ELSE {}
  BY DEF Own
<1>1. CASE UNCHANGED review
  BY <1>0, <1>1
<1>2. ASSUME NEW b \in Batches, \A c \in Batches \ {b} : review'[c] = review[c],
             review'[b].of = IF review'[b].results \in {"empty", "valid"} THEN {b} ELSE {}
      PROVE  \A c \in Batches :
                 review'[c].of = IF review'[c].results \in {"empty", "valid"} THEN {c} ELSE {}
  BY <1>0, <1>2
<1>3. ASSUME NEW w \in Web, FindReview(w)
      PROVE  \A b \in Batches :
                 review'[b].of = IF review'[b].results \in {"empty", "valid"} THEN {b} ELSE {}
  <2>1. This(w) \in Batches
    BY <1>3, FindShape
  <2>2. CASE HasReview(This(w)) /\ SaveReview(This(w), Reopened(This(w)), batch[This(w)].bought)
    <3>1. review[This(w)] \in Review /\ batch[This(w)].bought \in BOOLEAN
      BY <2>1, <2>2 DEF HasReview, TypeOK, Batch
    <3>2. /\ Reopened(This(w)) \in Review /\ Reopened(This(w)).of = review[This(w)].of
          /\ Reopened(This(w)).results = review[This(w)].results
      BY <3>1 DEF Reopened, Review
    <3>3. review'[This(w)] = Reopened(This(w)) /\ \A c \in Batches \ {This(w)} : review'[c] = review[c]
      BY <2>1, <2>2, <3>1, <3>2, SavedShape
    <3> QED BY <1>0, <1>2, <2>1, <3>2, <3>3
  <2>3. CASE SaveReview(This(w), Created, TRUE)
    <3>1. review'[This(w)] = Created /\ \A c \in Batches \ {This(w)} : review'[c] = review[c]
      BY <2>1, <2>3, SavedShape, Values
    <3> QED BY <1>2, <2>1, <3>1, Values
  <2>4. CASE UNCHANGED review \/ Raise(w)
    BY <1>1, <2>4 DEF Raise, rows
  <2> QED BY <1>3, <2>2, <2>3, <2>4, FindShape
<1>4. ASSUME NEW w \in Web, FillReview(w)
      PROVE  \A b \in Batches :
                 review'[b].of = IF review'[b].results \in {"empty", "valid"} THEN {b} ELSE {}
  <2>1. This(w) \in Batches
    BY <1>4, FillShape
  <2>2. CASE /\ review'[This(w)].results \in {"empty", "valid"}
             /\ review'[This(w)].of = review[This(w)].of \cup {This(w)}
             /\ \A c \in Batches \ {This(w)} : review'[c] = review[c]
    <3>1. review[This(w)].of = {This(w)} \/ review[This(w)].of = {}
      BY <1>0, <2>1
    <3>2. review'[This(w)].of = {This(w)}
      BY <2>2, <3>1
    <3> QED BY <1>2, <2>1, <2>2, <3>2
  <2> QED BY <1>1, <1>4, <2>2, FillShape
<1>5. ASSUME NEW w \in Web, AddPlus(w)
      PROVE  \A b \in Batches :
                 review'[b].of = IF review'[b].results \in {"empty", "valid"} THEN {b} ELSE {}
  <2>1. This(w) \in Batches
    BY <1>5, AddShape
  <2>2. CASE /\ review'[This(w)].results = review[This(w)].results
             /\ review'[This(w)].of = review[This(w)].of
             /\ \A c \in Batches \ {This(w)} : review'[c] = review[c]
    BY <1>0, <1>2, <2>1, <2>2
  <2> QED BY <1>1, <1>5, <2>2, AddShape
<1>6. ASSUME NEW b \in Batches, ChangeReview(b)
      PROVE  \A c \in Batches :
                 review'[c].of = IF review'[c].results \in {"empty", "valid"} THEN {c} ELSE {}
  <2>1. ASSUME NEW r \in Review, SaveForm(b, b, r),
               r.of = IF r.results \in {"empty", "valid"} THEN {b} ELSE {}
        PROVE  \A c \in Batches :
                 review'[c].of = IF review'[c].results \in {"empty", "valid"} THEN {c} ELSE {}
    <3>1. review'[b] = Validated(r) /\ \A c \in Batches \ {b} : review'[c] = review[c]
      BY <2>1, SaveFormShape
    <3>2. Validated(r).of = r.of /\ Validated(r).results = r.results
      BY DEF Validated, Review
    <3> QED BY <1>2, <2>1, <3>1, <3>2
  <2>2. CASE HasReview(b) /\ Saved(b)
    <3>1. PICK r \in Review : /\ SaveForm(b, b, r)
                              /\ r.results # "none" => review[b].results # "none"
                              /\ r.of = IF r.results = "none" THEN {} ELSE review[b].of
      BY <2>2 DEF Saved
    <3>2. review[b].results \in {"none", "empty", "valid"} /\ r.results \in {"none", "empty", "valid"}
      BY <2>2 DEF HasReview, TypeOK, Review
    <3>3. r.of = IF r.results \in {"empty", "valid"} THEN {b} ELSE {}
      BY <1>0, <3>1, <3>2
    <3> QED BY <2>1, <3>1, <3>3
  <2>3. CASE Added(b)
    <3>1. ASSUME NEW r \in Review, SaveForm(b, b, r), r.results = "empty", r.of = {b}
          PROVE  \A c \in Batches :
                 review'[c].of = IF review'[c].results \in {"empty", "valid"} THEN {c} ELSE {}
      BY <2>1, <3>1
    <3> QED BY <1>1, <2>3, <3>1 DEF Added
  <2>4. CASE DeleteReview(b)
    <3>1. review'[b] = NoReview /\ \A c \in Batches \ {b} : review'[c] = review[c]
      BY <2>4, DeleteShape
    <3> QED BY <1>2, <3>1, Values
  <2> QED BY <1>6, <2>2, <2>3, <2>4, ChangeShape
<1>7. ASSUME NEW w \in Web, TakeOrder(w) \/ PickBatch(w) \/ Kill(w) \/ SetPayed(w) \/ MarkBatch(w) \/ EndOrder(w)
             \/ SellBatch(w)
      PROVE  UNCHANGED review
  BY <1>7 DEF TakeOrder, PickBatch, Kill, SetPayed, MarkBatch, EndOrder, SellBatch, rows
<1>8. ASSUME \/ \E type \in OrderTypes : Order(type)
             \/ \E b \in Batches : MakeBatch(b)
             \/ StartCheck \/ ReadRow \/ WorkerStep \/ UNCHANGED vars
      PROVE  UNCHANGED review
  BY <1>8 DEF Order, MakeBatch, StartCheck, ReadRow, WorkerStep, SaveChecked, SaveRow, DelegateRationales,
              CheckRationales, vars, rows
<1> QED BY <1>1, <1>3, <1>4, <1>5, <1>6, <1>7, <1>8 DEF Next, WebStep

LEMMA InitOwn ==
  ASSUME Init
  PROVE  Own
<1>1. \A b \in Batches : review[b] = NoReview
  BY DEF Init
<1> QED BY <1>1, Values DEF Own

-----------------------------------------------------------------------------
(***************************************************************************)
(* Without overlap.  While a task goes on no request is served, so what    *)
(* was read is still there when it is saved; a batch gets its status       *)
(* "done" with a completed review only, and no request works on such a     *)
(* batch after its row was marked.                                         *)
(***************************************************************************)
Quiet == check # NoCheck \/ writer # NoWriter => \A w \in Web : req[w] = Idle
CheckAsRead == check # NoCheck => \A b \in check.todo : check.rows[b] = batch[b]
WriterAsRead == writer # NoWriter => writer.row = row
BoughtFirst == \A b \in Batches : HasReview(b) \/ batch[b].status \notin {"none", "new"} => batch[b].bought
DoneIsReviewed == \A b \in Batches : batch[b].status = "done" => Attended(b)
RowsRead(w) ==
    /\ req[w].pc = "mark" => \A b \in req[w].todo : req[w].rows[b].bought
    /\ req[w].pc = "sell" => \E b \in Batches : req[w].todo = {b} /\ req[w].rows[b].status \in {"none", "new"}
    /\ req[w].pc \in {"review", "fill", "plus"} =>
           /\ batch[This(w)].status # "done"
           /\ \A b \in req[w].todo \ {This(w)} : req[w].rows[b].bought
Calmly == Quiet /\ CheckAsRead /\ WriterAsRead /\ BoughtFirst /\ DoneIsReviewed /\ \A w \in Web : RowsRead(w)

LEMMA AtRest ==
  ASSUME Calmly, NEW w \in Web, req[w].pc # "idle"
  PROVE  check = NoCheck /\ writer = NoWriter
  BY Values DEF Calmly, Quiet

\* A step of one request, of which the others know nothing.
LEMMA CalmFrame ==
  ASSUME TypeOK, Shapes, Calmly, NEW w \in Web, check = NoCheck, writer = NoWriter,
         UNCHANGED <<env, check, writer>>,
         \A v \in Web \ {w} : req'[v] = req[v],
         \A b \in Batches : batch'[b].status = "done" => batch[b].status = "done" /\ review'[b] = review[b],
         \A b \in Batches : review'[b] # NoReview \/ batch'[b].status \notin {"none", "new"} => batch'[b].bought,
         RowsRead(w)'
  PROVE  Calmly'
<1>1. Quiet' /\ CheckAsRead' /\ WriterAsRead'
  BY DEF Quiet, CheckAsRead, WriterAsRead
<1>2. BoughtFirst'
  BY DEF BoughtFirst, HasReview
<1>3. DoneIsReviewed'
  BY DEF Calmly, DoneIsReviewed, Attended, Displaced, Reviewed, HasReview
<1>4. ASSUME NEW v \in Web \ {w} PROVE RowsRead(v)'
  <2>1. RowsRead(v) /\ req'[v] = req[v]
    BY DEF Calmly
  <2>2. req[v].pc \in {"review", "fill", "plus"} => This(v) \in Batches
    BY ThisOne DEF Shapes, Shaped
  <2> QED BY <2>1, <2>2 DEF RowsRead, This
<1> QED BY <1>1, <1>2, <1>3, <1>4 DEF Calmly

LEMMA CalmMoves ==
  ASSUME TypeOK, Shapes, Calmly, ~env.overlap, NEW w \in Web,
         TakeOrder(w) \/ SetPayed(w) \/ EndOrder(w) \/ PickBatch(w) \/ Kill(w)
  PROVE  Calmly'
<1>0. req \in [Web -> Request]
  BY TypeFacts
<1>1. check = NoCheck /\ writer = NoWriter
  <2>1. req[w] # Idle \/ Undisturbed
    BY Values DEF TakeOrder, SetPayed, EndOrder, PickBatch, Kill, Started, At
  <2> QED BY <2>1 DEF Undisturbed, Calmly, Quiet
<1>2. UNCHANGED <<env, check, writer, batch, review>>
  BY DEF TakeOrder, SetPayed, EndOrder, PickBatch, Kill, rows, workers
<1>3. (\A v \in Web \ {w} : req'[v] = req[v]) /\ RowsRead(w)'
  <2>1. CASE TakeOrder(w)
    <3>1. (\A v \in Web \ {w} : req'[v] = req[v]) /\ req'[w].pc = "pay"
      BY <2>1, TakeShape
    <3> QED BY <3>1 DEF RowsRead
  <2>2. CASE SetPayed(w)
    <3>1. /\ \A v \in Web \ {w} : req'[v] = req[v]
          /\ req'[w].pc = "mark" /\ req'[w].rows = batch /\ req'[w].todo = Bought(batch)
      BY <2>2, SetPayedShape
    <3> QED BY <3>1 DEF RowsRead, Bought
  <2>3. CASE EndOrder(w) \/ Kill(w)
    <3>1. req'[w] = Idle /\ \A v \in Web \ {w} : req'[v] = req[v]
      BY <1>0, <2>3, Ended DEF EndOrder, Kill
    <3> QED BY <3>1, Values DEF RowsRead
  <2>4. CASE PickBatch(w)
    <3>1. /\ \A v \in Web \ {w} : req'[v] = req[v]
          /\ req'[w].pc = "sell" /\ req'[w].rows = batch
      BY <2>4, PickShape
    <3>2. PICK b \in Rows \ Bought(batch) : req'[w].todo = {b}
      BY <2>4, PickShape
    <3>3. b \in Batches /\ batch[b].status \in {"none", "new"}
      BY <3>2 DEF Rows, Bought, Calmly, BoughtFirst
    <3> QED BY <3>1, <3>2, <3>3 DEF RowsRead
  <2> QED BY <2>1, <2>2, <2>3, <2>4
<1> QED BY <1>1, <1>2, <1>3, CalmFrame DEF Calmly, BoughtFirst, HasReview

\* The steps of a request about one batch.
LEMMA CalmBatches ==
  ASSUME TypeOK, Shapes, Calmly, NEW w \in Web,
         MarkBatch(w) \/ FindReview(w) \/ FillReview(w) \/ AddPlus(w) \/ SellBatch(w)
  PROVE  Calmly'
<1>0. req \in [Web -> Request] /\ RowsRead(w) /\ BoughtFirst
  BY TypeFacts DEF Calmly
<1>1. check = NoCheck /\ writer = NoWriter
  BY AtRest DEF MarkBatch, FindReview, FillReview, AddPlus, SellBatch, At
<1>2. UNCHANGED <<env, check, writer>>
  BY DEF MarkBatch, FindReview, FillReview, AddPlus, SellBatch, workers
<1>3. CASE MarkBatch(w)
  <2>1. /\ req[w].pc = "mark" /\ This(w) \in req[w].todo /\ This(w) \in Batches
        /\ req' = [req EXCEPT ![w].pc = "review"]
        /\ batch'[This(w)].status = "required" /\ batch'[This(w)].bought = req[w].rows[This(w)].bought
        /\ \A c \in Batches \ {This(w)} : batch'[c] = batch[c]
        /\ UNCHANGED review
    BY <1>3, MarkShape
  <2>2. /\ \A v \in Web \ {w} : req'[v] = req[v]
        /\ req'[w].pc = "review" /\ req'[w].rows = req[w].rows /\ req'[w].todo = req[w].todo
    BY <1>0, <2>1, Moved DEF Places
  <2>3. RowsRead(w)'
    BY <1>0, <2>1, <2>2 DEF RowsRead, This
  <2>4. \A b \in Batches : review'[b] # NoReview \/ batch'[b].status \notin {"none", "new"} => batch'[b].bought
    BY <1>0, <2>1 DEF RowsRead, BoughtFirst, HasReview
  <2>5. \A b \in Batches : batch'[b].status = "done" => batch[b].status = "done" /\ review'[b] = review[b]
    BY <2>1
  <2> QED BY <1>1, <1>2, <2>2, <2>3, <2>4, <2>5, CalmFrame
<1>4. CASE FindReview(w)
  <2>1. req[w].pc = "review" /\ This(w) \in req[w].todo /\ This(w) \in Batches
    BY <1>4, FindShape
  <2>2. ASSUME NEW pc \in {"plus", "fill"}, req' = [req EXCEPT ![w].pc = pc],
               batch'[This(w)].status # "done", batch'[This(w)].bought,
               \A c \in Batches \ {This(w)} : batch'[c] = batch[c] /\ review'[c] = review[c]
        PROVE  Calmly'
    <3>1. /\ \A v \in Web \ {w} : req'[v] = req[v]
          /\ req'[w].pc = pc /\ req'[w].rows = req[w].rows /\ req'[w].todo = req[w].todo
      BY <1>0, <2>2, Moved DEF Places
    <3>2. RowsRead(w)'
      BY <1>0, <2>1, <2>2, <3>1 DEF RowsRead, This
    <3>3. \A b \in Batches : review'[b] # NoReview \/ batch'[b].status \notin {"none", "new"} => batch'[b].bought
      BY <1>0, <2>2 DEF BoughtFirst, HasReview
    <3>4. \A b \in Batches : batch'[b].status = "done" => batch[b].status = "done" /\ review'[b] = review[b]
      BY <2>2
    <3> QED BY <1>1, <1>2, <3>1, <3>2, <3>3, <3>4, CalmFrame
  <2>3. HasReview(This(w)) => batch[This(w)].bought /\ batch[This(w)].status # "done"
    BY <1>0, <2>1 DEF BoughtFirst, RowsRead
  <2>4. ASSUME NEW r \in Review, NEW bought \in BOOLEAN, SaveReview(This(w), r, bought), ~r.completed, bought
        PROVE  /\ batch'[This(w)].status # "done" /\ batch'[This(w)].bought
               /\ \A c \in Batches \ {This(w)} : batch'[c] = batch[c] /\ review'[c] = review[c]
    BY <2>1, <2>4, SavedShape, Statuses
  <2>5. HasReview(This(w)) => Reopened(This(w)) \in Review /\ ~Reopened(This(w)).completed
    <3>1. HasReview(This(w)) => review[This(w)] \in Review
      BY <2>1 DEF HasReview, TypeOK
    <3> QED BY <3>1 DEF Reopened, Review
  <2>6. CASE Raise(w)
    <3>1. req'[w] = Idle /\ (\A v \in Web \ {w} : req'[v] = req[v]) /\ UNCHANGED <<batch, review>>
      BY <1>0, <2>6, Ended DEF Raise, rows
    <3>2. RowsRead(w)'
      BY <3>1, Values DEF RowsRead
    <3> QED BY <1>0, <1>1, <1>2, <3>1, <3>2, CalmFrame DEF BoughtFirst, HasReview
  <2>7. batch[This(w)].bought \in BOOLEAN
    BY <2>1 DEF TypeOK, Batch
  <2>8. CASE /\ req[w].type = "expert_plus" /\ HasReview(This(w)) /\ req' = [req EXCEPT ![w].pc = "plus"]
             /\ SaveReview(This(w), Reopened(This(w)), batch[This(w)].bought)
    BY <2>2, <2>3, <2>4, <2>5, <2>7, <2>8
  <2>9. CASE /\ req[w].type # "expert_plus" /\ req' = [req EXCEPT ![w].pc = "fill"]
             /\ ~HasReview(This(w)) /\ SaveReview(This(w), Created, TRUE)
    BY <2>2, <2>4, <2>9, Values
  <2>10. ASSUME NEW pc \in {"plus", "fill"}, req' = [req EXCEPT ![w].pc = pc], HasReview(This(w)),
                UNCHANGED <<batch, review, mails>>
         PROVE  Calmly'
    BY <2>2, <2>3, <2>10
  <2> QED BY <1>4, <2>6, <2>8, <2>9, <2>10, FindShape
<1>5. ASSUME This(w) \in Batches, batch[This(w)].status # "done", HasReview(This(w)), UNCHANGED batch,
             \A c \in Batches \ {This(w)} : review'[c] = review[c], req' = [req EXCEPT ![w] = NextBatch(w)],
             req[w].pc \in {"fill", "plus"}
      PROVE  Calmly'
  <2>1. /\ \A v \in Web \ {w} : req'[v] = req[v]
        /\ req'[w].pc = "mark" /\ req'[w].rows = req[w].rows /\ req'[w].todo = req[w].todo \ {This(w)}
    BY <1>0, <1>5, Advanced
  <2>2. RowsRead(w)'
    BY <1>0, <1>5, <2>1 DEF RowsRead
  <2> QED BY <1>0, <1>1, <1>2, <1>5, <2>1, <2>2, CalmFrame DEF BoughtFirst, HasReview
<1>6. ASSUME Done(w), UNCHANGED <<batch, review>> PROVE Calmly'
  <2>1. req'[w] = Idle /\ \A v \in Web \ {w} : req'[v] = req[v]
    BY <1>0, <1>6, Ended
  <2>2. RowsRead(w)'
    BY <2>1, Values DEF RowsRead
  <2> QED BY <1>0, <1>1, <1>2, <1>6, <2>1, <2>2, CalmFrame DEF BoughtFirst, HasReview
<1>7. CASE FillReview(w)
  <2>1. req[w].pc = "fill" /\ This(w) \in Batches /\ UNCHANGED batch
    BY <1>7, FillShape
  <2>2. batch[This(w)].status # "done"
    BY <1>0, <2>1 DEF RowsRead
  <2>3. CASE HasReview(This(w)) /\ (\A c \in Batches \ {This(w)} : review'[c] = review[c])
             /\ req' = [req EXCEPT ![w].pc = "plus"]
    <3>1. /\ \A v \in Web \ {w} : req'[v] = req[v]
          /\ req'[w].pc = "plus" /\ req'[w].rows = req[w].rows /\ req'[w].todo = req[w].todo
      BY <1>0, <2>3, Moved DEF Places
    <3>2. RowsRead(w)'
      BY <1>0, <2>1, <3>1 DEF RowsRead, This
    <3> QED BY <1>0, <1>1, <1>2, <2>1, <2>2, <2>3, <3>1, <3>2, CalmFrame DEF BoughtFirst, HasReview
  <2> QED BY <1>5, <1>6, <1>7, <2>1, <2>2, <2>3, FillShape
<1>8. CASE AddPlus(w)
  <2>1. req[w].pc = "plus" /\ This(w) \in Batches /\ UNCHANGED batch
    BY <1>8, AddShape
  <2>2. batch[This(w)].status # "done"
    BY <1>0, <2>1 DEF RowsRead
  <2> QED BY <1>5, <1>6, <1>8, <2>1, <2>2, AddShape
<1>9. CASE SellBatch(w)
  <2>1. /\ req[w].pc = "sell" /\ This(w) \in req[w].todo /\ This(w) \in Batches
        /\ batch'[This(w)].bought
        /\ batch'[This(w)].status = IF req[w].row.review THEN "required" ELSE req[w].rows[This(w)].status
        /\ \A c \in Batches \ {This(w)} : batch'[c] = batch[c]
        /\ IF req[w].row.review THEN req' = [req EXCEPT ![w].pc = "review"] ELSE Done(w)
        /\ UNCHANGED review
    BY <1>9, SellShape
  <2>2. req[w].todo = {This(w)} /\ req[w].rows[This(w)].status \in {"none", "new"}
    BY <1>0, <2>1 DEF RowsRead
  <2>3. (\A v \in Web \ {w} : req'[v] = req[v]) /\ RowsRead(w)'
    <3>1. CASE req' = [req EXCEPT ![w].pc = "review"] /\ req[w].row.review
      <4>1. /\ \A v \in Web \ {w} : req'[v] = req[v]
            /\ req'[w].pc = "review" /\ req'[w].rows = req[w].rows /\ req'[w].todo = req[w].todo
        BY <1>0, <3>1, Moved DEF Places
      <4> QED BY <2>1, <2>2, <3>1, <4>1 DEF RowsRead, This
    <3>2. CASE Done(w)
      <4>1. req'[w] = Idle /\ \A v \in Web \ {w} : req'[v] = req[v]
        BY <1>0, <3>2, Ended
      <4> QED BY <4>1, Values DEF RowsRead
    <3> QED BY <2>1, <3>1, <3>2
  <2>4. \A b \in Batches : batch'[b].status = "done" => batch[b].status = "done" /\ review'[b] = review[b]
    BY <2>1, <2>2
  <2>5. \A b \in Batches : review'[b] # NoReview \/ batch'[b].status \notin {"none", "new"} => batch'[b].bought
    BY <1>0, <2>1 DEF BoughtFirst, HasReview
  <2> QED BY <1>1, <1>2, <2>3, <2>4, <2>5, CalmFrame
<1> QED BY <1>3, <1>4, <1>7, <1>8, <1>9

\* Steps of the worker and of the administrators.
LEMMA CalmTasks ==
  ASSUME TypeOK, Shapes, Calmly, ~env.overlap,
         (\E b \in Batches : MakeBatch(b)) \/ StartCheck \/ SaveChecked \/ ReadRow \/ SaveRow
  PROVE  Calmly'
<1>0. Quiet /\ CheckAsRead /\ WriterAsRead /\ BoughtFirst /\ DoneIsReviewed /\ \A w \in Web : RowsRead(w)
  BY DEF Calmly
<1>1. \A w \in Web : req[w].pc \in {"review", "fill", "plus"} => This(w) \in Batches
  BY ThisOne DEF Shapes, Shaped
<1>2. ASSUME UNCHANGED <<env, req, review>>,
             \A c \in Batches : batch'[c].status = batch[c].status \/ (batch[c] = NoBatch /\ batch'[c].status = "new"),
             \A c \in Batches : batch[c].bought => batch'[c].bought
      PROVE  BoughtFirst' /\ DoneIsReviewed' /\ \A w \in Web : RowsRead(w)'
  <2>1. BoughtFirst'
    BY <1>0, <1>2, Values DEF BoughtFirst, HasReview
  <2>2. DoneIsReviewed'
    BY <1>0, <1>2 DEF DoneIsReviewed, Attended, Displaced, Reviewed, HasReview
  <2>3. ASSUME NEW w \in Web PROVE RowsRead(w)'
    BY <1>0, <1>1, <1>2 DEF RowsRead, This
  <2> QED BY <2>1, <2>2, <2>3
<1>3. ASSUME NEW b \in Batches, MakeBatch(b) PROVE Calmly'
  <2>1. /\ batch[b] = NoBatch /\ ~batch'[b].bought /\ batch'[b].status = "new"
        /\ \A c \in Batches \ {b} : batch'[c] = batch[c]
        /\ UNCHANGED <<env, row, review, req, check, writer>>
    BY <1>3, MadeShape
  <2>2. Quiet' /\ WriterAsRead'
    BY <1>0, <2>1 DEF Quiet, WriterAsRead
  <2>3. CheckAsRead'
    BY <1>0, <2>1, TypeFacts DEF CheckAsRead, Shapes, Checking
  <2> QED BY <1>2, <2>1, <2>2, <2>3, Values DEF Calmly
<1>4. CASE StartCheck
  <2>1. NoRequests /\ check'.rows = batch /\ UNCHANGED <<env, row, batch, review, req, writer>>
    BY <1>4, StartCheckShape DEF rows
  <2>2. Quiet' /\ WriterAsRead' /\ CheckAsRead'
    BY <1>0, <2>1 DEF Quiet, WriterAsRead, CheckAsRead, NoRequests
  <2> QED BY <1>2, <2>1, <2>2 DEF Calmly
<1>5. CASE SaveChecked
  <2>1. check # NoCheck /\ UNCHANGED <<env, row, review, req, writer>> /\ check.todo \subseteq Batches
    BY <1>5, SaveCheckedShape, TypeFacts DEF Checking
  <2>2. PICK b \in check.todo :
               /\ batch'[b].status = check.rows[b].status
               /\ check.rows[b].bought => batch'[b].bought
               /\ batch'[b].bought => check.rows[b].bought \/ Bought(batch) = {}
               /\ \A c \in Batches \ {b} : batch'[c] = batch[c]
               /\ \/ check' = NoCheck
                  \/ check'.rows = check.rows /\ check'.todo = check.todo \ {b} /\ check'.todo # {}
    BY <1>5, SaveCheckedShape
  <2>3. check.rows[b] = batch[b]
    BY <1>0, <2>1 DEF CheckAsRead
  <2>4. Quiet' /\ WriterAsRead'
    BY <1>0, <2>1 DEF Quiet, WriterAsRead
  <2>5. CheckAsRead'
    BY <1>0, <2>1, <2>2 DEF CheckAsRead
  <2>6. \A c \in Batches : batch'[c].status = batch[c].status /\ (batch[c].bought => batch'[c].bought)
    BY <2>2, <2>3
  <2> QED BY <1>2, <2>1, <2>4, <2>5, <2>6 DEF Calmly
<1>6. CASE ReadRow \/ SaveRow
  <2>1. UNCHANGED <<env, batch, review, req, check>>
    BY <1>6 DEF ReadRow, SaveRow, rows
  <2>2. row' = row /\ Quiet' /\ WriterAsRead'
    <3>1. CASE ReadRow
      <4>1. row' = row /\ writer' = [pc |-> "read", row |-> row] /\ (\A w \in Web : req[w] = Idle)
        BY <3>1 DEF ReadRow, rows, NoRequests
      <4> QED BY <2>1, <4>1 DEF Quiet, WriterAsRead
    <3>2. CASE SaveRow
      <4>1. writer # NoWriter /\ row' = writer.row /\ writer' = NoWriter
        BY <3>2 DEF SaveRow
      <4> QED BY <1>0, <2>1, <4>1 DEF Quiet, WriterAsRead
    <3> QED BY <1>6, <3>1, <3>2
  <2>3. CheckAsRead'
    BY <1>0, <2>1 DEF CheckAsRead
  <2> QED BY <1>2, <2>1, <2>2, <2>3 DEF Calmly
<1> QED BY <1>3, <1>4, <1>5, <1>6

LEMMA CalmChange ==
  ASSUME TypeOK, Shapes, Calmly, ~env.overlap, Own', NEW b \in Batches, ChangeReview(b)
  PROVE  Calmly'
<1>1. /\ UNCHANGED <<env, row, req, workers>> /\ check = NoCheck /\ writer = NoWriter
      /\ \A w \in Web : req[w] = Idle
  BY ChangeShape DEF Undisturbed, NoRequests
<1>2. check' = NoCheck /\ writer' = NoWriter /\ \A w \in Web : req'[w].pc = "idle"
  BY <1>1, Values DEF workers
<1>3. Quiet' /\ CheckAsRead' /\ WriterAsRead' /\ \A w \in Web : RowsRead(w)'
  BY <1>2 DEF Quiet, CheckAsRead, WriterAsRead, RowsRead
<1>4. BoughtFirst /\ DoneIsReviewed
  BY DEF Calmly
<1>5. ASSUME NEW c \in Batches, NEW r \in Review, SaveForm(b, c, r),
             c # b => env.moves /\ batch[c].status = "required",
             HasReview(b) \/ batch[b].status = "required"
      PROVE  BoughtFirst' /\ DoneIsReviewed'
  <2>1. /\ review'[c] = Validated(r) /\ Validated(r) \in Review /\ (c # b => review'[b] = NoReview)
        /\ batch'[c].bought = batch[c].bought /\ batch'[c].status = StatusFor(Validated(r))
        /\ \A x \in Batches \ {c} : batch'[x] = batch[x]
        /\ \A x \in Batches \ {b, c} : review'[x] = review[x]
    BY <1>5, SaveFormShape
  <2>2. batch[c].bought
    BY <1>4, <1>5 DEF BoughtFirst
  <2>3. BoughtFirst'
    BY <1>4, <2>1, <2>2 DEF BoughtFirst, HasReview
  <2>4. ASSUME batch'[c].status = "done" PROVE Attended(c)'
    <3>1. Validated(r).completed
      BY <2>1, <2>4, Statuses
    <3>2. Valid(Validated(r))
      BY <3>1 DEF Validated, Review
    <3>3. review'[c] # NoReview /\ review'[c].completed /\ Valid(review'[c]) /\ review'[c].results = "valid"
      BY <2>1, <3>1, <3>2, Values DEF Valid
    <3>4. CASE env.moves
      BY <1>1, <3>3, <3>4 DEF Attended, Displaced, Reviewed, HasReview, Valid
    <3>5. CASE ~env.moves
      <4>1. review'[c].of = {c}
        BY <1>1, <3>3, <3>5 DEF Own
      <4> QED BY <3>3, <4>1 DEF Attended, Reviewed, HasReview, Valid
    <3> QED BY <3>4, <3>5
  <2>5. ASSUME NEW x \in Batches, x # c, batch'[x].status = "done" PROVE Attended(x)'
    <3>1. CASE x = b
      <4>1. env'.moves /\ review'[x] = NoReview
        BY <1>1, <1>5, <2>1, <2>5, <3>1
      <4> QED BY <4>1 DEF Attended, Displaced, HasReview
    <3>2. CASE x # b
      <4>1. batch'[x] = batch[x] /\ review'[x] = review[x] /\ env' = env
        BY <1>1, <2>1, <2>5, <3>2
      <4>2. Attended(x)
        BY <1>4, <2>5, <4>1 DEF DoneIsReviewed
      <4> QED BY <4>1, <4>2 DEF Attended, Displaced, Reviewed, HasReview
    <3> QED BY <3>1, <3>2
  <2>6. DoneIsReviewed'
    <3> SUFFICES ASSUME NEW x \in Batches, batch'[x].status = "done" PROVE Attended(x)'
      BY DEF DoneIsReviewed
    <3> QED BY <2>4, <2>5
  <2> QED BY <2>3, <2>6
<1>6. ASSUME HasReview(b), Saved(b) PROVE BoughtFirst' /\ DoneIsReviewed'
  <2>1. PICK c \in Batches, r \in Review : /\ SaveForm(b, c, r)
                                           /\ c # b => env.moves /\ batch[c].status = "required"
    BY <1>6 DEF Saved
  <2> QED BY <1>5, <1>6, <2>1
<1>7. ASSUME UNCHANGED <<batch, review>> PROVE BoughtFirst' /\ DoneIsReviewed'
  <2>1. BoughtFirst'
    BY <1>4, <1>7 DEF BoughtFirst, HasReview
  <2>2. ASSUME NEW c \in Batches PROVE Attended(c)' <=> Attended(c)
    <3>1. review'[c] = review[c] /\ env' = env
      BY <1>1, <1>7
    <3> QED BY <3>1 DEF Attended, Displaced, Reviewed, HasReview
  <2>3. DoneIsReviewed'
    BY <1>4, <1>7, <2>2 DEF DoneIsReviewed
  <2> QED BY <2>1, <2>3
<1>8. ASSUME batch[b].status = "required", Added(b) PROVE BoughtFirst' /\ DoneIsReviewed'
  <2>1. ASSUME NEW r \in Review, SaveForm(b, b, r) PROVE BoughtFirst' /\ DoneIsReviewed'
    BY <1>5, <1>8, <2>1
  <2> QED BY <1>7, <1>8, <2>1 DEF Added
<1>9. ASSUME HasReview(b), DeleteReview(b) PROVE BoughtFirst' /\ DoneIsReviewed'
  <2>1. /\ review'[b] = NoReview /\ batch'[b].bought = batch[b].bought /\ batch'[b].status = "required"
        /\ \A c \in Batches \ {b} : batch'[c] = batch[c] /\ review'[c] = review[c]
    BY <1>9, DeleteShape
  <2>2. BoughtFirst'
    BY <1>4, <1>9, <2>1 DEF BoughtFirst, HasReview
  <2>3. ASSUME NEW c \in Batches, batch'[c].status = "done" PROVE Attended(c)'
    <3>1. review'[c] = review[c] /\ env' = env /\ batch[c].status = "done"
      BY <1>1, <2>1, <2>3
    <3>2. Attended(c)
      BY <1>4, <3>1 DEF DoneIsReviewed
    <3> QED BY <3>1, <3>2 DEF Attended, Displaced, Reviewed, HasReview
  <2>4. DoneIsReviewed'
    BY <2>3 DEF DoneIsReviewed
  <2> QED BY <2>2, <2>4
<1>10. BoughtFirst' /\ DoneIsReviewed'
  BY <1>6, <1>8, <1>9, ChangeShape
<1> QED BY <1>3, <1>10 DEF Calmly

LEMMA CalmStep ==
  ASSUME TypeOK, Shapes, Calmly, ~env.overlap, Own', [Next]_vars
  PROVE  Calmly'
<1>1. CASE UNCHANGED <<env, row, batch, review, req, check, writer>>
  BY <1>1 DEF Calmly, Quiet, CheckAsRead, WriterAsRead, BoughtFirst, DoneIsReviewed, RowsRead, Attended, Displaced,
              Reviewed, HasReview, This
<1>2. CASE UNCHANGED vars \/ (\E type \in OrderTypes : Order(type)) \/ DelegateRationales \/ CheckRationales
  BY <1>1, <1>2 DEF vars, rows, workers, Order, DelegateRationales, CheckRationales
<1>3. CASE \E w \in Web : TakeOrder(w) \/ PickBatch(w) \/ WebStep(w) \/ Kill(w)
  BY <1>3, CalmMoves, CalmBatches DEF WebStep
<1>4. CASE \E b \in Batches : MakeBatch(b) \/ ChangeReview(b)
  BY <1>4, CalmTasks, CalmChange
<1>5. CASE StartCheck \/ ReadRow \/ SaveChecked \/ SaveRow
  BY <1>5, CalmTasks
<1> QED BY <1>2, <1>3, <1>4, <1>5 DEF Next, WorkerStep

LEMMA EnvKept ==
  ASSUME [Next]_vars
  PROVE  env' = env
<1>1. ASSUME NEW type \in OrderTypes, Order(type) PROVE env' = env
  BY <1>1 DEF Order
<1>2. ASSUME NEW w \in Web, TakeOrder(w) \/ PickBatch(w) \/ WebStep(w) \/ Kill(w) PROVE env' = env
  BY <1>2 DEF TakeOrder, PickBatch, WebStep, Kill, SetPayed, MarkBatch, FindReview, FillReview, AddPlus, EndOrder, SellBatch
<1>3. ASSUME NEW b \in Batches, MakeBatch(b) \/ ChangeReview(b) PROVE env' = env
  BY <1>3 DEF MakeBatch, ChangeReview
<1>4. CASE StartCheck \/ ReadRow \/ WorkerStep
  BY <1>4 DEF StartCheck, ReadRow, WorkerStep, SaveChecked, SaveRow, DelegateRationales, CheckRationales
<1>5. CASE UNCHANGED vars
  BY <1>5 DEF vars
<1> QED BY <1>1, <1>2, <1>3, <1>4, <1>5 DEF Next

\* The numbers that common_expert_review_status compares are numbers of a set and a subset of it.
LEMMA CountedReviews ==
  ASSUME TypeOK, Calmly, CommonStatus(row, batch) = "completed"
  PROVE  \A b \in Bought(batch) : Attended(b)
<1>1. Cardinality(Bought(batch)) = Cardinality(In(batch, "done"))
  BY DEF CommonStatus
<1>2. In(batch, "done") \subseteq Bought(batch)
  BY DEF Calmly, BoughtFirst, In, Bought
<1>3. IsFiniteSet(Bought(batch))
  BY ReviewsAssumption, FS_Subset DEF Bought
<1>4. In(batch, "done") = Bought(batch)
  BY <1>1, <1>2, <1>3, FS_Subset
<1> QED BY <1>4 DEF Calmly, DoneIsReviewed, In, Bought

\* Who saves a review whose mail goes out.
LEMMA MailSays ==
  ASSUME TypeOK, Shapes, [Next]_vars, mails' # mails, ~env.careless
  PROVE  row' = row /\ CommonStatus(row, batch') = "completed"
<1>1. ASSUME NEW w \in Web, FindReview(w) PROVE row' = row /\ CommonStatus(row, batch') = "completed"
  <2>1. UNCHANGED row /\ This(w) \in Batches
    BY <1>1, FindShape DEF FindReview
  <2>2. ASSUME NEW r \in Review, NEW bought \in BOOLEAN, SaveReview(This(w), r, bought)
        PROVE  CommonStatus(row, batch') = "completed"
    BY <2>1, <2>2, SavedShape
  <2>3. HasReview(This(w)) => Reopened(This(w)) \in Review
    <3>1. HasReview(This(w)) => review[This(w)] \in Review
      BY <2>1 DEF HasReview, TypeOK
    <3> QED BY <3>1 DEF Reopened, Review
  <2>4. batch[This(w)].bought \in BOOLEAN
    BY <2>1 DEF TypeOK, Batch
  <2>5. ~Raise(w)
    BY DEF Raise
  <2> QED BY <1>1, <2>1, <2>2, <2>3, <2>4, <2>5, FindShape, Values
<1>2. ASSUME NEW b \in Batches, ChangeReview(b) PROVE row' = row /\ CommonStatus(row, batch') = "completed"
  <2>1. row' = row
    BY <1>2, ChangeShape
  <2>2. ASSUME NEW c \in Batches, NEW r \in Review, SaveForm(b, c, r), r.completed => Valid(r)
        PROVE  CommonStatus(row, batch') = "completed"
    <3>1. Validated(r) = r
      BY <2>2 DEF Validated
    <3> QED BY <2>2, <3>1, SaveFormShape
  <2>3. CASE Saved(b)
    <3>1. PICK c \in Batches, r \in Review : SaveForm(b, c, r) /\ (r.completed => Valid(r))
      BY <2>3 DEF Saved
    <3> QED BY <2>1, <2>2, <3>1
  <2>4. CASE Added(b)
    <3>1. CASE \E r \in Review : SaveForm(b, b, r) /\ ~r.completed
      BY <2>1, <2>2, <3>1
    <3>2. CASE UNCHANGED batch /\ CommonStatus(row, batch) = "completed"
      BY <2>1, <3>2
    <3> QED BY <2>4, <3>1, <3>2 DEF Added
  <2>5. ~DeleteReview(b)
    BY DEF DeleteReview
  <2> QED BY <1>2, <2>3, <2>4, <2>5, ChangeShape
<1>3. ASSUME NEW w \in Web, TakeOrder(w) \/ PickBatch(w) \/ Kill(w) \/ SetPayed(w) \/ MarkBatch(w) \/ EndOrder(w)
             \/ SellBatch(w) \/ FillReview(w) \/ AddPlus(w)
      PROVE  mails' = mails
  <2>1. CASE FillReview(w) \/ AddPlus(w)
    BY <2>1, FillShape, AddShape
  <2> QED BY <1>3, <2>1 DEF TakeOrder, PickBatch, Kill, SetPayed, MarkBatch, EndOrder, SellBatch
<1>4. ASSUME NEW type \in OrderTypes, Order(type) PROVE mails' = mails
  BY <1>4 DEF Order
<1>5. ASSUME NEW b \in Batches, MakeBatch(b) PROVE mails' = mails
  BY <1>5 DEF MakeBatch
<1>6. CASE StartCheck \/ ReadRow \/ WorkerStep
  BY <1>6 DEF StartCheck, ReadRow, WorkerStep, SaveChecked, SaveRow, DelegateRationales, CheckRationales
<1> QED BY <1>1, <1>2, <1>3, <1>4, <1>5, <1>6 DEF Next, WebStep, vars

LEMMA InitCalm ==
  ASSUME Init
  PROVE  TypeOK /\ Shapes /\ Calmly
<1>1. TypeOK /\ Shapes
  BY InitTypes
<1>2. \A w \in Web : req[w] = Idle
  BY DEF Init
<1>3. check = NoCheck /\ writer = NoWriter
  BY DEF Init
<1>4. \A b \in Batches : batch[b] = NoBatch /\ review[b] = NoReview
  BY DEF Init
<1>5. Calmly
  BY <1>2, <1>3, <1>4, Values DEF Calmly, Quiet, CheckAsRead, WriterAsRead, BoughtFirst, DoneIsReviewed, RowsRead, HasReview
<1> QED BY <1>1, <1>5

\* Where the customer is told that all reviews are done, by the pages or by mail, every bought
\* batch has its own review, completed and valid, or lost it to another batch when administrators
\* moved reviews, though the code compares numbers of batches, and sends the mail before it
\* validates.
THEOREM CompletedIsReviewed == Spec => CompletedMeansReviewed
<1> DEFINE Inv == TypeOK /\ Shapes /\ Own /\ (~env.overlap => Calmly)
           Counted == ~env.overlap => (CommonStatus(row, batch) = "completed" => \A b \in Bought(batch) : Attended(b))
           Told == ~env.overlap =>
                     /\ CommonStatus(row, batch)' = "completed" => \A b \in Bought(batch)' : Attended(b)'
                     /\ mails' # mails /\ ~env.careless => \A b \in Bought(batch)' : Attended(b)'
<1>1. Init => Inv
  BY InitCalm, InitOwn
<1>2. Inv /\ [Next]_vars => Inv'
  <2> SUFFICES ASSUME Inv, [Next]_vars PROVE Inv'
    OBVIOUS
  <2>1. TypeOK' /\ Shapes'
    BY TypesStep
  <2>2. Own'
    BY OwnStep, EnvKept
  <2>3. ~env'.overlap => Calmly'
    BY <2>2, CalmStep, EnvKept
  <2> QED BY <2>1, <2>2, <2>3
<1>3. Inv => Counted
  BY CountedReviews
<1>4. Inv /\ Counted' /\ [Next]_vars => Told
  <2> SUFFICES ASSUME Inv, Counted', [Next]_vars, ~env.overlap
               PROVE  /\ CommonStatus(row, batch)' = "completed" => \A b \in Bought(batch)' : Attended(b)'
                      /\ mails' # mails /\ ~env.careless => \A b \in Bought(batch)' : Attended(b)'
    OBVIOUS
  <2>1. CommonStatus(row, batch)' = "completed" => \A b \in Bought(batch)' : Attended(b)'
    BY EnvKept
  <2>2. mails' # mails /\ ~env.careless => CommonStatus(row, batch)' = "completed"
    BY MailSays DEF CommonStatus
  <2> QED BY <2>1, <2>2
<1>5. Spec => [][Told]_vars
  <2> HIDE DEF Inv, Told, Counted
  <2> QED BY <1>1, <1>2, <1>3, <1>4, PTL DEF Spec
<1> QED BY <1>5 DEF CompletedMeansReviewed

-----------------------------------------------------------------------------
(***************************************************************************)
(* Where nothing fails: one process serves the customers, payments follow  *)
(* the first batch, and nothing overlaps.  Between requests the flags say  *)
(* what was paid, and every bought batch has what the flags say; within a  *)
(* request the batches it has still to go through are as they were before  *)
(* the payment, or as a sold batch is.                                     *)
(***************************************************************************)
Listed(b) == review[b].results \in {"empty", "valid"}
Kept(b) ==
    IF batch[b].bought /\ row.review
    THEN Listed(b) /\ review[b].triples = IF row.plus THEN 1 ELSE 0
    ELSE ~HasReview(b)
AllKept == \A b \in Batches : Kept(b)
Before(b, type) == IF type = "expert_plus" THEN Listed(b) /\ review[b].triples = 0 ELSE ~HasReview(b)
Offered(type) == IF type = "expert_plus" THEN row.review /\ ~row.plus ELSE ~row.review
FlagsFor(types) == (row.review <=> types # {}) /\ (row.plus <=> types \cap Plus # {})
Resting == order \notin paid /\ (order # "none" => Offered(order)) /\ FlagsFor(paid)

Working(w) == req[w].pc \in {"mark", "review", "fill", "plus"}
Progress(w) ==
    /\ row.review /\ (row.plus <=> WithPlus(w) \/ req[w].type = "expert_plus")
    /\ \A b \in Batches \ req[w].todo : Kept(b)
    /\ \A b \in req[w].todo : batch[b].bought
    /\ \A b \in req[w].todo : b # This(w) \/ req[w].pc \in {"mark", "review"} => Before(b, req[w].type)
    /\ req[w].pc = "fill" => /\ req[w].type # "expert_plus"
                             /\ review[This(w)].results = "none" /\ review[This(w)].triples = 0
    /\ req[w].pc = "plus" => row.plus /\ Listed(This(w)) /\ review[This(w)].triples = 0
Stage(w) ==
    /\ req[w].pc = "pay" => /\ req[w].type = order /\ order \in paid /\ Offered(order)
                            /\ FlagsFor(paid \ {order}) /\ req[w].row = row /\ AllKept
    /\ req[w].pc = "sell" => /\ Resting /\ req[w].type = "sale" /\ req[w].row = row /\ AllKept
                             /\ \A b \in req[w].todo : ~batch[b].bought
    /\ Working(w) => /\ Progress(w)
                     /\ req[w].type = "sale" => Resting /\ req[w].row = row
                     /\ req[w].type # "sale" => req[w].type = order /\ order \in paid /\ FlagsFor(paid)
Regularly ==
    /\ \A w \in Web : req[w] # Idle => w \in env.web
    /\ Bought(batch) = {} => paid = {} /\ order = "none"
    /\ (\A w \in Web : req[w] = Idle) => Resting /\ AllKept
    /\ \A w \in Web : Stage(w)

LEMMA Alone ==
  ASSUME Sole, TypeOK, Regularly, NEW w \in Web, w \in env.web
  PROVE  \A v \in Web \ {w} : req[v] = Idle
<1> SUFFICES ASSUME NEW v \in Web \ {w}, req[v] # Idle PROVE FALSE
  OBVIOUS
<1>1. v \in env.web
  BY DEF Regularly
<1>2. env.web \subseteq Web
  BY ReviewsAssumption DEF TypeOK
<1>3. IsFiniteSet(env.web)
  BY <1>2, ReviewsAssumption, FS_Subset
<1>4. IsFiniteSet({w}) /\ Cardinality({w}) = 1
  BY FS_Singleton
<1>5. Cardinality({w} \cup {v}) = 2
  BY <1>4, FS_AddElement
<1>6. Cardinality({w} \cup {v}) <= Cardinality(env.web)
  BY <1>1, <1>3, FS_Subset
<1>7. Cardinality(env.web) \in Nat
  BY <1>3, FS_CardinalityType
<1> QED BY <1>5, <1>6, <1>7 DEF Sole

\* A request that goes on is the only one.
LEMMA OnlyOne ==
  ASSUME Sole, TypeOK, Regularly, NEW w \in Web, req[w].pc # "idle"
  PROVE  w \in env.web /\ \A v \in Web \ {w} : req[v] = Idle
<1>1. w \in env.web
  BY Values DEF Regularly
<1> QED BY <1>1, Alone

LEMMA RegularFrame ==
  ASSUME NEW w \in Web, w \in env.web, env' = env,
         \A v \in Web \ {w} : req[v] = Idle /\ req'[v] = req[v],
         req'[w] = Idle => Resting' /\ AllKept',
         Stage(w)',
         Bought(batch') = {} => paid' = {} /\ order' = "none"
  PROVE  Regularly'
<1>1. \A v \in Web \ {w} : Stage(v)'
  BY Values DEF Stage, Working
<1>2. \A v \in Web : req'[v] # Idle => v \in env'.web
  OBVIOUS
<1>3. (\A v \in Web : req'[v] = Idle) => Resting' /\ AllKept'
  OBVIOUS
<1> QED BY <1>1, <1>2, <1>3 DEF Regularly, Bought

\* What is kept depends on which batches are bought only.
LEMMA SameBatches ==
  ASSUME UNCHANGED <<row, review, req>>, \A c \in Batches : batch'[c].bought = batch[c].bought,
         \A w \in Web : req[w].todo \subseteq Batches
  PROVE  /\ AllKept' <=> AllKept
         /\ \A w \in Web : Progress(w)' <=> Progress(w)
         /\ Bought(batch') = Bought(batch)
         /\ \A w \in Web : \A b \in req[w].todo : batch'[b].bought = batch[b].bought
<1>1. \A c \in Batches : Kept(c)' <=> Kept(c)
  BY DEF Kept, Listed, HasReview
<1>2. \A c, type : Before(c, type)' <=> Before(c, type)
  BY DEF Before, Listed, HasReview
<1>3. \A w \in Web : Progress(w)' <=> Progress(w)
  <2> SUFFICES ASSUME NEW w \in Web PROVE Progress(w)' <=> Progress(w)
    OBVIOUS
  <2>1. (row.review /\ (row.plus <=> WithPlus(w) \/ req[w].type = "expert_plus"))'
        <=> (row.review /\ (row.plus <=> WithPlus(w) \/ req[w].type = "expert_plus"))
    BY DEF WithPlus
  <2>2. \A b \in Batches : Listed(b)' <=> Listed(b)
    BY DEF Listed
  <2>3. req'[w] = req[w] /\ This(w)' = This(w) /\ (Listed(This(w))' <=> Listed(This(w)))
    BY DEF This, Listed
  <2> QED BY <1>1, <1>2, <2>1, <2>3 DEF Progress
<1> QED BY <1>1, <1>3 DEF AllKept, Bought

\* The customer orders between requests, or while a batch is sold.
LEMMA RegularOrder ==
  ASSUME TypeOK, Regular, Regularly, NEW type \in OrderTypes, Order(type)
  PROVE  Regularly'
<1>1. UNCHANGED <<env, row, batch, review, paid, req>> /\ order = "none" /\ order' = type /\ Bought(batch) # {}
  BY DEF Order, rows, Regular
<1>2. \A w \in Web : req[w].todo \subseteq Batches
  BY TypeFacts DEF Request
<1>3. /\ AllKept' <=> AllKept
      /\ \A w \in Web : Progress(w)' <=> Progress(w)
      /\ Bought(batch') = Bought(batch)
  BY <1>1, <1>2, SameBatches
<1>4. order \notin paid
  BY <1>1 DEF TypeOK, OrderTypes
<1>5. Resting => Resting'
  <2>1. CASE type = "expert_in_the_loop"
    BY <1>1, <2>1 DEF Order, Resting, Offered, FlagsFor
  <2>2. CASE type = "experts"
    BY <1>1, <2>2 DEF Order, Resting, Offered, FlagsFor, Plus
  <2>3. CASE type = "expert_plus"
    BY <1>1, <2>3 DEF Order, Resting, Offered, FlagsFor, Plus
  <2> QED BY <2>1, <2>2, <2>3 DEF OrderTypes
<1>6. ASSUME NEW w \in Web PROVE Stage(w)'
  <2>1. Stage(w)
    BY DEF Regularly
  <2> QED BY <1>1, <1>3, <1>4, <1>5, <2>1 DEF Stage, Working
<1> QED BY <1>1, <1>3, <1>5, <1>6 DEF Regularly

LEMMA RegularTake ==
  ASSUME TypeOK, Regular, Regularly, NEW w \in Web, TakeOrder(w)
  PROVE  Regularly'
<1>1. /\ w \in env.web /\ req[w] = Idle /\ order \in OrderTypes
      /\ \A v \in Web \ {w} : req'[v] = req[v]
      /\ req'[w].pc = "pay" /\ req'[w].type = order /\ req'[w].row = row
      /\ paid' = paid \cup {order}
  BY TakeShape
<1>2. UNCHANGED <<env, row, batch, review, order>>
  BY DEF TakeOrder, rows
<1>3. \A v \in Web \ {w} : req[v] = Idle
  BY <1>1, Alone DEF Regular
<1>4. Resting /\ AllKept
  BY <1>1, <1>3 DEF Regularly
<1>5. paid' \ {order'} = paid
  BY <1>1, <1>2, <1>4 DEF Resting
<1>6. AllKept'
  BY <1>2, <1>4 DEF AllKept, Kept, Listed, HasReview
<1>7. Offered(order)' /\ FlagsFor(paid \ {order})'
  BY <1>1, <1>2, <1>4, <1>5 DEF Resting, Offered, FlagsFor, OrderTypes
<1>8. Stage(w)'
  BY <1>1, <1>2, <1>6, <1>7 DEF Stage, Working
<1>9. Bought(batch') # {}
  BY <1>1, <1>2 DEF Regularly, OrderTypes
<1> QED BY <1>1, <1>2, <1>3, <1>8, <1>9, RegularFrame, Values

\* The flags are set; what follows is done for every bought batch.
LEMMA RegularSetPayed ==
  ASSUME TypeOK, Regular, Shapes, Regularly, NEW w \in Web, SetPayed(w)
  PROVE  Regularly'
<1>1. /\ req[w].pc = "pay"
      /\ \A v \in Web \ {w} : req'[v] = req[v]
      /\ req'[w].pc = "mark" /\ req'[w].type = req[w].type /\ req'[w].row = req[w].row
      /\ req'[w].todo = Bought(batch)
      /\ row'.review
      /\ row'.plus <=> req[w].row.plus \/ req[w].type \in Plus
  BY SetPayedShape
<1>2. UNCHANGED <<env, batch, review, order, paid>>
  BY DEF SetPayed
<1>3. w \in env.web /\ \A v \in Web \ {w} : req[v] = Idle
  BY <1>1, OnlyOne DEF Regular
<1>4. /\ req[w].type = order /\ order \in paid /\ Offered(order)
      /\ FlagsFor(paid \ {order}) /\ req[w].row = row /\ AllKept /\ order \in OrderTypes
  BY <1>1 DEF Regularly, Stage, Shapes, Shaped
<1>5. ~row.plus
  BY <1>4 DEF Offered, FlagsFor
<1>6. FlagsFor(paid)'
  BY <1>1, <1>2, <1>4, <1>5 DEF FlagsFor
<1>7. Progress(w)'
  <2>1. row'.plus <=> WithPlus(w)' \/ req'[w].type = "expert_plus"
    BY <1>1, <1>4, <1>5 DEF WithPlus, Plus, OrderTypes
  <2>2. \A b \in Batches \ Bought(batch) : Kept(b)'
    BY <1>2, <1>4 DEF AllKept, Kept, HasReview, Bought
  <2>3. \A b \in Bought(batch) : Before(b, req[w].type)'
    <3> SUFFICES ASSUME NEW b \in Bought(batch) PROVE Before(b, req[w].type)'
      OBVIOUS
    <3>1. Kept(b) /\ batch[b].bought
      BY <1>4 DEF AllKept, Bought
    <3>2. IF order = "expert_plus" THEN Listed(b) /\ review[b].triples = 0 ELSE ~HasReview(b)
      BY <1>4, <1>5, <3>1 DEF Kept, Offered
    <3> QED BY <1>1, <1>2, <1>4, <3>2 DEF Before, Listed, HasReview
  <2> QED BY <1>1, <1>2, <2>1, <2>2, <2>3 DEF Progress, Bought
<1>8. Stage(w)'
  BY <1>1, <1>2, <1>4, <1>6, <1>7 DEF Stage, OrderTypes
<1>9. req'[w] # Idle
  BY <1>1, Values
<1> QED BY <1>1, <1>2, <1>3, <1>8, <1>9, RegularFrame DEF Regularly, Bought

\* A request goes on from batch to batch.
LEMMA RegularWorks ==
  ASSUME TypeOK, Regular, Regularly, NEW w \in Web, Working(w), UNCHANGED <<env, row, order, paid>>,
         \A v \in Web \ {w} : req'[v] = req[v],
         Working(w)', req'[w].type = req[w].type, req'[w].row = req[w].row, Progress(w)',
         \A b \in Batches : batch[b].bought => batch'[b].bought
  PROVE  Regularly'
<1>1. w \in env.web /\ \A v \in Web \ {w} : req[v] = Idle
  BY OnlyOne DEF Regular, Working
<1>2. Stage(w)
  BY DEF Regularly
<1>3. Stage(w)'
  BY <1>2 DEF Stage, Working, Resting, Offered, FlagsFor
<1>4. Bought(batch') = {} => Bought(batch) = {}
  BY DEF Bought
<1>5. req'[w] # Idle
  BY Values DEF Working
<1> QED BY <1>1, <1>3, <1>4, <1>5, RegularFrame DEF Regularly

LEMMA RegularMark ==
  ASSUME TypeOK, Regular, Shapes, Calmly, Regularly, NEW w \in Web, MarkBatch(w)
  PROVE  Regularly'
<1>0. req \in [Web -> Request] /\ req[w].todo \subseteq Batches
  BY TypeFacts DEF Request
<1>1. /\ req[w].pc = "mark" /\ This(w) \in req[w].todo /\ This(w) \in Batches
      /\ req' = [req EXCEPT ![w].pc = "review"]
      /\ batch'[This(w)].bought = req[w].rows[This(w)].bought
      /\ \A c \in Batches \ {This(w)} : batch'[c] = batch[c]
      /\ UNCHANGED <<env, row, review, order, paid>>
  BY MarkShape
<1>2. /\ \A v \in Web \ {w} : req'[v] = req[v]
      /\ req'[w].pc = "review" /\ req'[w].type = req[w].type /\ req'[w].row = req[w].row
      /\ req'[w].todo = req[w].todo
  BY <1>0, <1>1, Moved DEF Places
<1>3. \A b \in Batches : batch[b].bought => batch'[b].bought
  BY <1>1 DEF Calmly, RowsRead
<1>4. Working(w) /\ Working(w)'
  BY <1>1, <1>2 DEF Working
<1>5. Progress(w)
  BY <1>4 DEF Regularly, Stage
<1>6. Progress(w)'
  <2>1. (row.review /\ (row.plus <=> WithPlus(w) \/ req[w].type = "expert_plus"))'
    BY <1>1, <1>2, <1>5 DEF Progress, WithPlus
  <2>2. \A b \in Batches \ req[w].todo : Kept(b)'
    BY <1>1, <1>5 DEF Progress, Kept, Listed, HasReview
  <2>3. \A b \in req[w].todo : batch'[b].bought /\ Before(b, req[w].type)'
    BY <1>0, <1>1, <1>2, <1>3, <1>5 DEF Progress, Before, Listed, HasReview
  <2> QED BY <1>2, <2>1, <2>2, <2>3 DEF Progress
<1> QED BY <1>1, <1>2, <1>3, <1>4, <1>6, RegularWorks

LEMMA RegularFind ==
  ASSUME TypeOK, Regular, Shapes, Regularly, NEW w \in Web, FindReview(w)
  PROVE  Regularly'
<1> DEFINE this == This(w)
<1>0. req \in [Web -> Request] /\ req[w].todo \subseteq Batches
  BY TypeFacts DEF Request
<1>1. req[w].pc = "review" /\ this \in req[w].todo /\ this \in Batches
  BY FindShape
<1>2. UNCHANGED <<env, row, order, paid>>
  BY DEF FindReview
<1>3. Working(w)
  BY <1>1 DEF Working
<1>4. Progress(w) /\ batch[this].bought /\ Before(this, req[w].type)
  BY <1>1, <1>3 DEF Regularly, Stage, Progress
<1>5. ASSUME NEW pc \in {"plus", "fill"}, req' = [req EXCEPT ![w].pc = pc],
             batch'[this].bought, \A c \in Batches \ {this} : batch'[c] = batch[c] /\ review'[c] = review[c],
             pc = "fill" => req[w].type # "expert_plus" /\ review'[this].results = "none" /\ review'[this].triples = 0,
             pc = "plus" => /\ req[w].type = "expert_plus" /\ review'[this].triples = 0
                            /\ review'[this].results \in {"empty", "valid"}
      PROVE  Regularly'
  <2>1. /\ \A v \in Web \ {w} : req'[v] = req[v]
        /\ req'[w].pc = pc /\ req'[w].type = req[w].type /\ req'[w].row = req[w].row
        /\ req'[w].todo = req[w].todo
    BY <1>0, <1>5, Moved DEF Places
  <2>2. This(w)' = this
    BY <2>1 DEF This
  <2>3. (row.review /\ (row.plus <=> WithPlus(w) \/ req[w].type = "expert_plus"))'
    BY <1>2, <1>4, <2>1 DEF Progress, WithPlus
  <2>4. \A b \in Batches \ req[w].todo : Kept(b)'
    BY <1>1, <1>2, <1>4, <1>5 DEF Progress, Kept, Listed, HasReview
  <2>5. \A b \in req[w].todo : batch'[b].bought
    BY <1>0, <1>4, <1>5 DEF Progress
  <2>6. \A b \in req[w].todo \ {this} : Before(b, req[w].type)'
    BY <1>0, <1>4, <1>5 DEF Progress, Before, Listed, HasReview
  <2>7. pc = "plus" => row'.plus /\ Listed(this)' /\ review'[this].triples = 0
    <3>1. ASSUME pc = "plus" PROVE row'.plus
      BY <1>5, <2>1, <2>3, <3>1
    <3>2. ASSUME pc = "plus" PROVE (review[this].results \in {"empty", "valid"})'
      BY <1>5, <2>2, <3>2
    <3> QED BY <1>5, <2>2, <3>1, <3>2 DEF Listed
  <2>8. Progress(w)'
    <3>1. \A b \in req'[w].todo : b # This(w)' \/ req'[w].pc \in {"mark", "review"} => Before(b, req[w].type)'
      BY <1>5, <2>1, <2>2, <2>6
    <3> QED BY <1>5, <2>1, <2>2, <2>3, <2>4, <2>5, <2>7, <3>1 DEF Progress
  <2>9. Working(w)' /\ \A b \in Batches : batch[b].bought => batch'[b].bought
    BY <1>5, <2>1 DEF Working
  <2> HIDE DEF this
  <2> QED BY <1>2, <1>3, <2>1, <2>8, <2>9, RegularWorks
<1>6. CASE req[w].type = "expert_plus"
  <2>1. Listed(this) /\ review[this].triples = 0 /\ review[this].results # "no review"
    BY <1>4, <1>6 DEF Before, Listed
  <2>2. HasReview(this) /\ review[this] \in Review
    BY <1>1, <2>1, Values DEF HasReview, TypeOK
  <2>3. /\ Reopened(this) \in Review /\ Reopened(this).results = review[this].results
        /\ Reopened(this).triples = review[this].triples
    BY <2>2 DEF Reopened, Review
  <2>4. batch[this].bought \in BOOLEAN
    BY <1>1 DEF TypeOK, Batch
  <2>5. req' = [req EXCEPT ![w].pc = "plus"] /\
        (UNCHANGED <<batch, review>> \/ SaveReview(this, Reopened(this), batch[this].bought))
    BY <1>6, <2>2, FindShape
  <2>6. /\ batch'[this].bought /\ review'[this].results = review[this].results /\ review'[this].triples = 0
        /\ \A c \in Batches \ {this} : batch'[c] = batch[c] /\ review'[c] = review[c]
    <3>1. CASE UNCHANGED <<batch, review>>
      BY <1>4, <2>1, <3>1
    <3>2. CASE SaveReview(this, Reopened(this), batch[this].bought)
      <4> HIDE DEF this
      <4> QED BY <1>1, <1>4, <2>1, <2>3, <2>4, <3>2, SavedShape
    <3> QED BY <2>5, <3>1, <3>2
  <2> QED BY <1>5, <1>6, <2>1, <2>5, <2>6 DEF Listed
<1>7. CASE req[w].type # "expert_plus"
  <2>1. ~HasReview(this)
    BY <1>4, <1>7 DEF Before
  <2>2. req' = [req EXCEPT ![w].pc = "fill"] /\ SaveReview(this, Created, TRUE)
    BY <1>7, <2>1, FindShape
  <2>3. /\ batch'[this].bought /\ review'[this] = Created
        /\ \A c \in Batches \ {this} : batch'[c] = batch[c] /\ review'[c] = review[c]
    <3> HIDE DEF this
    <3> QED BY <1>1, <2>2, SavedShape, Values
  <2> QED BY <1>5, <1>7, <2>2, <2>3, Values
<1> QED BY <1>6, <1>7

\* One batch has got what the payment stands for.
LEMMA RegularNext ==
  ASSUME TypeOK, Regular, Regularly, NEW w \in Web, req[w].pc \in {"fill", "plus"},
         This(w) \in req[w].todo, This(w) \in Batches, req' = [req EXCEPT ![w] = NextBatch(w)],
         UNCHANGED <<env, row, batch, order, paid>>,
         \A c \in Batches \ {This(w)} : review'[c] = review[c],
         review'[This(w)].results \in {"empty", "valid"},
         review'[This(w)].triples = IF row.plus THEN 1 ELSE 0
  PROVE  Regularly'
<1> DEFINE this == This(w)
<1>0. req \in [Web -> Request] /\ req[w].todo \subseteq Batches
  BY TypeFacts DEF Request
<1>1. /\ \A v \in Web \ {w} : req'[v] = req[v]
      /\ req'[w].pc = "mark" /\ req'[w].type = req[w].type /\ req'[w].row = req[w].row
      /\ req'[w].todo = req[w].todo \ {this}
  BY <1>0, Advanced
<1>2. Working(w) /\ Working(w)'
  BY <1>1 DEF Working
<1>3. Progress(w) /\ batch[this].bought
  BY <1>2 DEF Regularly, Stage, Progress
<1>4. Progress(w)'
  <2>1. (row.review /\ (row.plus <=> WithPlus(w) \/ req[w].type = "expert_plus"))'
    BY <1>1, <1>3 DEF Progress, WithPlus
  <2>2. \A b \in Batches \ req[w].todo : Kept(b)'
    BY <1>3 DEF Progress, Kept, Listed, HasReview
  <2>3. ASSUME NEW b \in Batches, b = this PROVE Kept(b)'
    <3>1. batch'[b].bought /\ row'.review /\ review'[b].results \in {"empty", "valid"}
      BY <1>3, <2>3 DEF Progress
    <3>2. review'[b].triples = IF row'.plus THEN 1 ELSE 0
      BY <2>3
    <3> QED BY <3>1, <3>2 DEF Kept, Listed
  <2>4. \A b \in req[w].todo : batch'[b].bought
    BY <1>3 DEF Progress
  <2>5. \A b \in req[w].todo \ {this} : Before(b, req[w].type)'
    BY <1>0, <1>1, <1>3 DEF Progress, Before, Listed, HasReview
  <2>6. \A b \in Batches \ req'[w].todo : Kept(b)'
    BY <1>1, <2>2, <2>3
  <2>7. \A b \in req'[w].todo : batch'[b].bought /\ Before(b, req[w].type)'
    BY <1>1, <2>4, <2>5
  <2> HIDE DEF this
  <2> QED BY <1>1, <2>1, <2>6, <2>7 DEF Progress
<1> QED BY <1>1, <1>2, <1>4, RegularWorks

LEMMA RegularFill ==
  ASSUME TypeOK, Regular, Shapes, Own, Regularly, NEW w \in Web, FillReview(w)
  PROVE  Regularly'
<1> DEFINE this == This(w)
<1>0. req \in [Web -> Request] /\ req[w].todo \subseteq Batches
  BY TypeFacts DEF Request
<1>1. /\ req[w].pc = "fill" /\ this \in req[w].todo /\ this \in Batches
      /\ UNCHANGED <<env, row, batch, order, paid>>
  BY FillShape
<1>2. Working(w)
  BY <1>1 DEF Working
<1>3. /\ Progress(w) /\ req[w].type # "expert_plus"
      /\ review[this].results = "none" /\ review[this].triples = 0
  BY <1>1, <1>2 DEF Regularly, Stage, Progress
<1>7. HasReview(this) /\ ~Held(this)
  <2>1. HasReview(this)
    BY <1>3, Values DEF HasReview
  <2>2. ASSUME NEW c \in Batches, this \in review[c].of PROVE FALSE
    <3>1. review[c].of = IF review[c].results \in {"empty", "valid"} THEN {c} ELSE {}
      BY DEF Own, Regular
    <3>2. c = this /\ review[c].results \in {"empty", "valid"}
      BY <2>2, <3>1
    <3> QED BY <1>3, <3>2
  <2> QED BY <2>1, <2>2 DEF Held
<1>4. /\ review'[this].results \in {"empty", "valid"} /\ review'[this].triples = 0
      /\ \A c \in Batches \ {this} : review'[c] = review[c]
      /\ IF WithPlus(w) THEN req' = [req EXCEPT ![w].pc = "plus"]
                        ELSE req' = [req EXCEPT ![w] = NextBatch(w)]
  BY <1>3, <1>7, FillShape
<1>5. CASE ~WithPlus(w)
  <2>1. ~row.plus
    BY <1>3, <1>5 DEF Progress
  <2> QED BY <1>1, <1>4, <1>5, <2>1, RegularNext
<1>6. CASE WithPlus(w)
  <2>1. /\ \A v \in Web \ {w} : req'[v] = req[v]
        /\ req'[w].pc = "plus" /\ req'[w].type = req[w].type /\ req'[w].row = req[w].row
        /\ req'[w].todo = req[w].todo
    BY <1>0, <1>4, <1>6, Moved DEF Places
  <2>2. This(w)' = this
    BY <2>1 DEF This
  <2>3. (row.review /\ (row.plus <=> WithPlus(w) \/ req[w].type = "expert_plus"))'
    BY <1>1, <1>3, <2>1 DEF Progress, WithPlus
  <2>4. \A b \in Batches \ req[w].todo : Kept(b)'
    BY <1>1, <1>3, <1>4 DEF Progress, Kept, Listed, HasReview
  <2>5. \A b \in req[w].todo : batch'[b].bought
    BY <1>1, <1>3 DEF Progress
  <2>6. \A b \in req[w].todo \ {this} : Before(b, req[w].type)'
    BY <1>0, <1>3, <1>4, <2>1 DEF Progress, Before, Listed, HasReview
  <2>7. row'.plus /\ Listed(this)' /\ (review[this].triples = 0)'
    <3>1. row'.plus
      BY <1>1, <1>3, <1>6 DEF Progress
    <3>2. (review[this].results \in {"empty", "valid"} /\ review[this].triples = 0)'
      BY <1>4, <2>2
    <3> QED BY <3>1, <3>2 DEF Listed
  <2>8. Progress(w)'
    <3>1. \A b \in req'[w].todo : b # This(w)' \/ req'[w].pc \in {"mark", "review"} => Before(b, req[w].type)'
      BY <2>1, <2>2, <2>6
    <3> QED BY <2>1, <2>2, <2>3, <2>4, <2>5, <2>7, <3>1 DEF Progress
  <2>9. Working(w)' /\ \A b \in Batches : batch[b].bought => batch'[b].bought
    BY <1>1, <2>1 DEF Working
  <2> HIDE DEF this
  <2> QED BY <1>1, <1>2, <2>1, <2>8, <2>9, RegularWorks
<1> QED BY <1>5, <1>6

LEMMA RegularAdd ==
  ASSUME TypeOK, Regular, Shapes, Regularly, NEW w \in Web, AddPlus(w)
  PROVE  Regularly'
<1>1. /\ req[w].pc = "plus" /\ This(w) \in req[w].todo /\ This(w) \in Batches
      /\ UNCHANGED <<env, row, batch, order, paid>>
  BY AddShape
<1>2. Working(w)
  BY <1>1 DEF Working
<1>3. row.plus /\ Listed(This(w)) /\ review[This(w)].triples = 0
  BY <1>1, <1>2 DEF Regularly, Stage, Progress
<1>4. HasReview(This(w)) /\ review[This(w)].results \in {"empty", "valid"}
  BY <1>3, Values DEF Listed, HasReview
<1>5. /\ review'[This(w)].results = review[This(w)].results /\ review'[This(w)].triples = 1
      /\ \A c \in Batches \ {This(w)} : review'[c] = review[c]
      /\ req' = [req EXCEPT ![w] = NextBatch(w)]
  BY <1>3, <1>4, AddShape
<1> QED BY <1>1, <1>3, <1>4, <1>5, RegularNext

\* The end of an order, or of the sale of a batch.
LEMMA RegularEnd ==
  ASSUME TypeOK, Regular, Regularly, NEW w \in Web, EndOrder(w)
  PROVE  Regularly'
<1>0. req \in [Web -> Request]
  BY TypeFacts
<1>1. /\ req[w].pc = "mark" /\ req[w].todo = {} /\ Done(w)
      /\ UNCHANGED <<env, row, batch, review, paid>>
  BY DEF EndOrder, At, rows
<1>2. order' = IF req[w].type = "sale" THEN order ELSE "none"
  BY DEF EndOrder, Regular, TypeOK
<1>3. req'[w] = Idle /\ \A v \in Web \ {w} : req'[v] = req[v]
  BY <1>0, <1>1, Ended
<1>4. w \in env.web /\ \A v \in Web \ {w} : req[v] = Idle
  BY <1>1, OnlyOne DEF Regular
<1>5. Stage(w) /\ Working(w)
  BY <1>1 DEF Regularly, Working
<1>6. AllKept'
  <2>1. \A b \in Batches : Kept(b)
    BY <1>1, <1>5 DEF Stage, Progress
  <2> QED BY <1>1, <2>1 DEF AllKept, Kept, Listed, HasReview
<1>7. Resting'
  <2>1. CASE req[w].type = "sale"
    BY <1>1, <1>2, <1>5, <2>1 DEF Stage, Resting, Offered, FlagsFor
  <2>2. CASE req[w].type # "sale"
    BY <1>1, <1>2, <1>5, <2>2 DEF Stage, Resting, Offered, FlagsFor, TypeOK, OrderTypes
  <2> QED BY <2>1, <2>2
<1>8. Stage(w)'
  BY <1>3, Values DEF Stage, Working
<1>9. Bought(batch') = {} => paid' = {} /\ order' = "none"
  BY <1>1, <1>2 DEF Regularly
<1> QED BY <1>1, <1>3, <1>4, <1>6, <1>7, <1>8, <1>9, RegularFrame

LEMMA RegularPick ==
  ASSUME TypeOK, Regular, Regularly, NEW w \in Web, PickBatch(w)
  PROVE  Regularly'
<1>1. /\ w \in env.web /\ req[w] = Idle
      /\ \A v \in Web \ {w} : req'[v] = req[v]
      /\ req'[w].pc = "sell" /\ req'[w].type = "sale" /\ req'[w].row = row
      /\ UNCHANGED <<env, row, batch, review, order, paid>>
  BY PickShape DEF rows
<1>2. PICK b \in Rows \ Bought(batch) : req'[w].todo = {b}
  BY PickShape
<1>3. \A v \in Web \ {w} : req[v] = Idle
  BY <1>1, Alone DEF Regular
<1>4. Resting /\ AllKept
  BY <1>1, <1>3 DEF Regularly
<1>5. AllKept'
  BY <1>1, <1>4 DEF AllKept, Kept, Listed, HasReview
<1>6. Resting'
  BY <1>1, <1>4 DEF Resting, Offered, FlagsFor
<1>7. \A c \in req'[w].todo : ~batch'[c].bought
  BY <1>1, <1>2 DEF Rows, Bought
<1>8. Stage(w)'
  BY <1>1, <1>5, <1>6, <1>7 DEF Stage, Working
<1>9. Bought(batch') = {} => paid' = {} /\ order' = "none"
  BY <1>1 DEF Regularly
<1> QED BY <1>1, <1>3, <1>8, <1>9, RegularFrame, Values

LEMMA RegularSell ==
  ASSUME TypeOK, Regular, Shapes, Calmly, Regularly, NEW w \in Web, SellBatch(w)
  PROVE  Regularly'
<1> DEFINE this == This(w)
<1>0. req \in [Web -> Request] /\ req[w].todo \subseteq Batches
  BY TypeFacts DEF Request
<1>1. /\ req[w].pc = "sell" /\ this \in req[w].todo /\ this \in Batches
      /\ batch'[this].bought
      /\ \A c \in Batches \ {this} : batch'[c] = batch[c]
      /\ IF req[w].row.review THEN req' = [req EXCEPT ![w].pc = "review"] ELSE Done(w)
      /\ UNCHANGED <<env, row, review, order, paid>>
  BY SellShape
<1>2. req[w].todo = {this}
  BY <1>1 DEF Calmly, RowsRead
<1>3. w \in env.web /\ \A v \in Web \ {w} : req[v] = Idle
  BY <1>1, OnlyOne DEF Regular
<1>4. Resting /\ req[w].type = "sale" /\ req[w].row = row /\ AllKept /\ ~batch[this].bought
  BY <1>1 DEF Regularly, Stage
<1>5. ~HasReview(this)
  BY <1>1, <1>4 DEF AllKept, Kept
<1>6. Resting'
  BY <1>1, <1>4 DEF Resting, Offered, FlagsFor
<1>7. Bought(batch') # {}
  BY <1>1 DEF Bought
<1>8. \A b \in Batches \ {this} : Kept(b)'
  BY <1>1, <1>4 DEF AllKept, Kept, Listed, HasReview
<1>9. CASE row.review
  <2>1. /\ \A v \in Web \ {w} : req'[v] = req[v]
        /\ req'[w].pc = "review" /\ req'[w].type = "sale" /\ req'[w].row = row
        /\ req'[w].todo = {this}
    BY <1>0, <1>1, <1>2, <1>4, <1>9, Moved DEF Places
  <2>2. (row.review /\ (row.plus <=> WithPlus(w) \/ req[w].type = "expert_plus"))'
    BY <1>1, <1>9, <2>1 DEF WithPlus
  <2>3. \A b \in {this} : batch'[b].bought /\ Before(b, req[w].type)'
    BY <1>1, <1>5, <2>1 DEF Before, HasReview
  <2>4. Progress(w)'
    BY <1>8, <2>1, <2>2, <2>3 DEF Progress
  <2>5. Stage(w)'
    BY <1>1, <1>6, <2>1, <2>4 DEF Stage
  <2>6. req'[w] # Idle
    BY <2>1, Values
  <2> QED BY <1>1, <1>3, <1>7, <2>1, <2>5, <2>6, RegularFrame
<1>10. CASE ~row.review
  <2>1. req'[w] = Idle /\ \A v \in Web \ {w} : req'[v] = req[v]
    BY <1>0, <1>1, <1>4, <1>10, Ended
  <2>2. ASSUME NEW b \in Batches, b = this PROVE Kept(b)'
    BY <1>1, <1>5, <1>10, <2>2 DEF Kept, HasReview
  <2>3. AllKept'
    BY <1>8, <2>2 DEF AllKept
  <2>4. Stage(w)'
    BY <2>1, Values DEF Stage, Working
  <2> QED BY <1>1, <1>3, <1>6, <1>7, <2>1, <2>3, <2>4, RegularFrame
<1> QED BY <1>9, <1>10

\* Steps that leave requests and payments alone, and the flags.
LEMMA RegularSame ==
  ASSUME TypeOK, Regularly, UNCHANGED <<env, row, review, order, paid, req>>,
         \A c \in Batches : batch'[c].bought = batch[c].bought
  PROVE  Regularly'
<1>1. \A w \in Web : req[w].todo \subseteq Batches
  BY TypeFacts DEF Request
<1>2. /\ AllKept' <=> AllKept
      /\ \A w \in Web : Progress(w)' <=> Progress(w)
      /\ Bought(batch') = Bought(batch)
      /\ \A w \in Web : \A b \in req[w].todo : batch'[b].bought = batch[b].bought
  BY <1>1, SameBatches
<1>3. Resting' <=> Resting
  BY DEF Resting, Offered, FlagsFor
<1>4. ASSUME NEW w \in Web PROVE Stage(w)'
  <2>1. Stage(w)
    BY DEF Regularly
  <2> QED BY <1>2, <1>3, <2>1 DEF Stage, Working, Offered, FlagsFor
<1> QED BY <1>2, <1>3, <1>4 DEF Regularly, Bought

LEMMA RegularTasks ==
  ASSUME TypeOK, Regular, Shapes, Calmly, Regularly,
         \/ \E b \in Batches : MakeBatch(b)
         \/ StartCheck \/ SaveChecked \/ ReadRow \/ SaveRow \/ DelegateRationales \/ CheckRationales
         \/ UNCHANGED vars
  PROVE  Regularly'
<1>1. ASSUME NEW b \in Batches, MakeBatch(b) PROVE Regularly'
  <2>1. /\ batch[b] = NoBatch /\ batch' \in [Batches -> Batch] /\ ~batch'[b].bought
        /\ \A c \in Batches \ {b} : batch'[c] = batch[c]
        /\ UNCHANGED <<env, row, review, order, paid, req>>
    BY <1>1, MadeShape
  <2>2. batch'[b].bought = FALSE /\ batch[b].bought = FALSE
    BY <2>1, Values DEF Batch
  <2> QED BY <2>1, <2>2, RegularSame
<1>2. CASE SaveChecked
  <2>1. check # NoCheck /\ UNCHANGED <<env, row, review, order, paid, req>> /\ check.todo \subseteq Batches
    BY <1>2, SaveCheckedShape, TypeFacts DEF Checking
  <2>2. PICK b \in check.todo :
               /\ batch' \in [Batches -> Batch]
               /\ check.rows[b].bought => batch'[b].bought
               /\ batch'[b].bought => check.rows[b].bought \/ Bought(batch) = {}
               /\ \A c \in Batches \ {b} : batch'[c] = batch[c]
    BY <1>2, SaveCheckedShape
  <2>3. check.rows[b] = batch[b]
    BY <2>1 DEF Calmly, CheckAsRead
  <2>4. CASE Bought(batch) # {}
    <3>1. batch'[b].bought \in BOOLEAN /\ batch[b].bought \in BOOLEAN
      BY <2>1, <2>2 DEF TypeOK, Batch
    <3>2. batch'[b].bought = batch[b].bought
      BY <2>2, <2>3, <2>4, <3>1
    <3> QED BY <2>1, <2>2, <3>2, RegularSame
  <2>5. CASE Bought(batch) = {}
    <3>1. \A w \in Web : req[w] = Idle
      BY <2>1 DEF Calmly, Quiet
    <3>2. Resting /\ AllKept /\ paid = {} /\ order = "none"
      BY <2>5, <3>1 DEF Regularly
    <3>3. ~row.review
      BY <3>2 DEF Resting, FlagsFor
    <3>4. AllKept'
      BY <2>1, <3>2, <3>3 DEF AllKept, Kept, HasReview
    <3>5. Resting'
      BY <2>1, <3>2 DEF Resting, Offered, FlagsFor
    <3>6. \A w \in Web : req'[w] = Idle /\ Stage(w)'
      BY <2>1, <3>1, Values DEF Stage, Working
    <3> QED BY <2>1, <3>2, <3>4, <3>5, <3>6 DEF Regularly
  <2> QED BY <2>4, <2>5
<1>3. CASE StartCheck \/ ReadRow \/ SaveRow \/ DelegateRationales \/ CheckRationales \/ UNCHANGED vars
  <2>1. UNCHANGED <<env, row, batch, review, order, paid, req>>
    <3>1. CASE SaveRow
      <4>1. writer # NoWriter /\ row' = writer.row /\ UNCHANGED <<env, batch, review, order, paid, req>>
        BY <3>1 DEF SaveRow
      <4> QED BY <4>1 DEF Calmly, WriterAsRead
    <3> QED BY <1>3, <3>1 DEF StartCheck, ReadRow, DelegateRationales, CheckRationales, vars, rows
  <2> QED BY <2>1, RegularSame
<1> QED BY <1>1, <1>2, <1>3

\* Experts edit between requests; what there is to fill in stays.
LEMMA RegularChange ==
  ASSUME TypeOK, Regular, Regularly, NEW b \in Batches, ChangeReview(b)
  PROVE  Regularly'
<1>1. /\ UNCHANGED <<env, row, order, paid, req>> /\ HasReview(b) /\ Saved(b)
      /\ \A w \in Web : req[w] = Idle
  BY ChangeShape DEF Regular, NoRequests
<1>2. PICK r \in Review : /\ SaveForm(b, b, r) /\ r.triples = review[b].triples
                          /\ r.results = "none" <=> review[b].results = "none"
  BY <1>1 DEF Saved, Regular
<1>3. Validated(r).triples = r.triples /\ Validated(r).results = r.results
  BY DEF Validated, Review
<1>4. /\ review'[b].triples = review[b].triples /\ review'[b].results = r.results
      /\ review'[b] # NoReview
      /\ batch'[b].bought = batch[b].bought
      /\ \A c \in Batches \ {b} : batch'[c] = batch[c] /\ review'[c] = review[c]
  <2>1. /\ review'[b] = Validated(r) /\ Validated(r) \in Review /\ batch'[b].bought = batch[b].bought
        /\ \A c \in Batches \ {b} : batch'[c] = batch[c] /\ review'[c] = review[c]
    BY <1>2, SaveFormShape
  <2>2. review'[b] # NoReview
    BY <2>1, Values
  <2> QED BY <1>2, <1>3, <2>1, <2>2
<1>5. Resting /\ AllKept
  BY <1>1 DEF Regularly
<1>6. \A c \in Batches \ {b} : Kept(c)'
  BY <1>1, <1>4, <1>5 DEF AllKept, Kept, Listed, HasReview
<1>7. ASSUME NEW c \in Batches, c = b PROVE Kept(c)'
  <2>1. batch[b].bought /\ row.review /\ review[b].results \in {"empty", "valid"}
        /\ review[b].triples = IF row.plus THEN 1 ELSE 0
    BY <1>1, <1>5 DEF AllKept, Kept, Listed
  <2>2. r.results \in {"empty", "valid"}
    BY <1>2, <2>1 DEF Review
  <2>3. /\ batch'[c].bought /\ row'.review /\ review'[c].results \in {"empty", "valid"}
        /\ review'[c].triples = IF row'.plus THEN 1 ELSE 0
    BY <1>1, <1>4, <1>7, <2>1, <2>2
  <2> QED BY <2>3 DEF Kept, Listed
<1>8. AllKept' /\ Resting'
  BY <1>1, <1>5, <1>6, <1>7 DEF AllKept, Resting, Offered, FlagsFor
<1>9. \A w \in Web : req'[w] = Idle /\ Stage(w)'
  BY <1>1, Values DEF Stage, Working
<1>10. Bought(batch') = {} => Bought(batch) = {}
  BY <1>4 DEF Bought
<1> QED BY <1>1, <1>8, <1>9, <1>10 DEF Regularly, Bought

LEMMA RegularStep ==
  ASSUME TypeOK, Regular, Shapes, Own, Calmly, Regularly, [Next]_vars
  PROVE  Regularly'
<1>1. CASE \E type \in OrderTypes : Order(type)
  BY <1>1, RegularOrder
<1>2. ASSUME NEW w \in Web, TakeOrder(w) \/ PickBatch(w) \/ WebStep(w) \/ Kill(w) PROVE Regularly'
  <2>1. ~Kill(w)
    BY DEF Kill, Regular, TypeOK
  <2> QED BY <1>2, <2>1, RegularTake, RegularPick, RegularSetPayed, RegularMark, RegularFind, RegularFill,
             RegularAdd, RegularEnd, RegularSell DEF WebStep
<1>3. CASE \E b \in Batches : MakeBatch(b) \/ ChangeReview(b)
  BY <1>3, RegularTasks, RegularChange
<1>4. CASE StartCheck \/ ReadRow \/ WorkerStep \/ UNCHANGED vars
  BY <1>4, RegularTasks DEF WorkerStep
<1> QED BY <1>1, <1>2, <1>3, <1>4 DEF Next

LEMMA InitRegular ==
  ASSUME Init
  PROVE  Regularly
<1>1. \A w \in Web : req[w] = Idle
  BY DEF Init
<1>2. order = "none" /\ paid = {} /\ row = NoRow /\ \A b \in Batches : batch[b] = NoBatch /\ review[b] = NoReview
  BY DEF Init
<1>3. ~NoRow.review /\ ~NoRow.plus
  BY DEF NoRow
<1>4. Resting
  BY <1>2, <1>3 DEF Resting, FlagsFor
<1>5. AllKept
  BY <1>2, Values DEF AllKept, Kept, HasReview
<1>6. \A w \in Web : Stage(w)
  BY <1>1, Values DEF Stage, Working
<1> QED BY <1>1, <1>2, <1>4, <1>5, <1>6 DEF Regularly

\* The flags are those of the types that were paid.
LEMMA FlagsArePaid ==
  ASSUME TypeOK, FlagsFor(paid)
  PROVE  UNION {Granted(type) : type \in paid} = Flags
<1>1. Flags = {f \in {"review", "plus"} : (f = "review" /\ row.review) \/ (f = "plus" /\ row.plus)}
  BY DEF Flags
<1>2. \A type \in paid : /\ Granted(type) \subseteq {"review", "plus"} /\ "review" \in Granted(type)
                         /\ "plus" \in Granted(type) <=> type \in Plus
  BY DEF Granted, TypeOK, OrderTypes, Plus
<1>3. "review" \in UNION {Granted(type) : type \in paid} <=> row.review
  BY <1>2 DEF FlagsFor
<1>4. "plus" \in UNION {Granted(type) : type \in paid} <=> row.plus
  BY <1>2 DEF FlagsFor
<1>5. UNION {Granted(type) : type \in paid} \subseteq {"review", "plus"}
  BY <1>2
<1> QED BY <1>1, <1>3, <1>4, <1>5

\* What has been paid is provided: the flags are set, and every bought batch, whether it was sold
\* before the payment or after it, has its review with the results listed, and one triple of
\* suggestions if they were paid.
THEOREM OrdersAreHonoured == Spec => []OrderHonoured
<1> DEFINE Inv == TypeOK /\ Shapes /\ Own /\ (~env.overlap => Calmly) /\ (Regular => Regularly)
<1>1. Init => Inv
  BY InitCalm, InitOwn, InitRegular
<1>2. Inv /\ [Next]_vars => Inv'
  <2> SUFFICES ASSUME Inv, [Next]_vars PROVE Inv'
    OBVIOUS
  <2>1. TypeOK' /\ Shapes'
    BY TypesStep
  <2>4. Own'
    BY OwnStep, EnvKept
  <2>2. ~env'.overlap => Calmly'
    BY <2>4, CalmStep, EnvKept
  <2>3. Regular' => Regularly'
    <3>1. Regular' => Regular
      BY EnvKept DEF Regular, Sole
    <3>2. Regular => ~env.overlap
      BY DEF Regular
    <3> QED BY <3>1, <3>2, RegularStep
  <2> QED BY <2>1, <2>2, <2>3, <2>4
<1>3. Inv => OrderHonoured
  <2> SUFFICES ASSUME Inv, Regular, \A w \in Web : req[w] = Idle
               PROVE  /\ UNION {Granted(type) : type \in paid \ {order}} = Flags
                      /\ \A b \in Bought(batch) : Flags # {} =>
                            /\ review[b].results \notin {"no review", "none"}
                            /\ review[b].triples = IF "plus" \in Flags THEN 1 ELSE 0
    BY DEF OrderHonoured
  <2>1. Resting /\ AllKept
    BY DEF Regularly
  <2>2. paid \ {order} = paid /\ FlagsFor(paid)
    BY <2>1 DEF Resting
  <2>3. UNION {Granted(type) : type \in paid} = Flags
    BY <2>2, FlagsArePaid
  <2>4. (Flags # {} => row.review) /\ ("plus" \in Flags <=> row.plus)
    BY <2>2 DEF Flags, FlagsFor
  <2>5. ASSUME NEW b \in Bought(batch), Flags # {}
        PROVE  /\ review[b].results \notin {"no review", "none"}
               /\ review[b].triples = IF "plus" \in Flags THEN 1 ELSE 0
    <3>1. b \in Batches /\ batch[b].bought /\ row.review
      BY <2>4, <2>5 DEF Bought
    <3> QED BY <2>1, <2>4, <3>1 DEF AllKept, Kept, Listed
  <2> QED BY <2>2, <2>3, <2>5
<1> QED BY <1>1, <1>2, <1>3, PTL DEF Spec
=============================================================================
