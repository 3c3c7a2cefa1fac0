------------------------ MODULE BatchDelivery_proofs ------------------------
(* What holds of the delivery of batches for every value of the constants. *)
EXTENDS BatchDeliveryProperties, FiniteSetTheorems, WellFoundedInduction, TLAPS

(***************************************************************************)
(* Types.  A step replaces the record of one task or request.              *)
(***************************************************************************)
LEMMA DeliveryFrame ==
  /\ RowsOK /\ UNCHANGED <<plan, lastId, rows, visible, bought, filled, rationaled, mails, crashes>>
        => RowsOK'
  /\ MakersOK /\ UNCHANGED maker => MakersOK'
  /\ ChecksOK /\ UNCHANGED <<rationales, phrases, checker>> => ChecksOK'
  /\ WebOK /\ UNCHANGED <<order, experts, event>> => WebOK'
  BY DEF RowsOK, MakersOK, ChecksOK, WebOK

LEMMA MakerUpdate ==
  ASSUME MakersOK, NEW q \in Makers, NEW t \in Maker, t.pc = "making" <=> t.row # NoBatch,
         maker' = [maker EXCEPT ![q] = t]
  PROVE  MakersOK'
  BY DEF MakersOK

LEMMA CheckerUpdate ==
  ASSUME ChecksOK, NEW b \in Batches, NEW t \in Checker, t.pc = "save" <=> t.row # NoBatch,
         checker' = [checker EXCEPT ![b] = t],
         rationales' \in [Batches -> TaskPc], phrases' \in [Batches -> TaskPc]
  PROVE  ChecksOK'
  BY DEF ChecksOK

LEMMA EventUpdate ==
  ASSUME WebOK, NEW e \in Events, NEW t \in Request, t.pc = "sell" <=> t.row # NoBatch,
         event' = [event EXCEPT ![e] = t],
         order' \in [Orders -> {"none", "open", "completed", "failed"}], experts' \in Nat
  PROVE  WebOK'
  BY DEF WebOK

\* An id is not NoBatch, and a set of ids that is not empty has a first one.
LEMMA BatchIds ==
  /\ \A b \in Batches : b # NoBatch
  /\ \A S \in SUBSET Batches : S # {} => Min(S) \in S
<1>1. ASSUME NEW S \in SUBSET Batches, S # {} PROVE Min(S) \in S
  <2> DEFINE less == {ss \in Nat \X Nat : ss[1] < ss[2]}
  <2>1. IsWellFoundedOn(less, Nat)
    <3>1. less = OpToRel(<, Nat)
      BY DEF OpToRel
    <3> QED BY <3>1, NatLessThanWellFounded
  <2>2. S \subseteq Nat
    BY BatchAssumption
  <2>3. PICK x \in S : \A y \in S : <<y, x>> \notin less
    <3> HIDE DEF less
    <3> QED BY <1>1, <2>1, <2>2, WFMin
  <2>4. ASSUME NEW y \in S PROVE x <= y
    <3>1. <<y, x>> \in Nat \X Nat /\ <<y, x>>[1] = y /\ <<y, x>>[2] = x
      BY <2>2
    <3>2. ~(y < x)
      BY <2>3, <3>1, Zenon
    <3> QED BY <2>2, <3>2
  <2> QED BY <2>4 DEF Min
<1> QED BY <1>1, BatchAssumption DEF NoBatch

LEMMA DeliveryInitType == Init => TypeOK
<1> SUFFICES ASSUME Init PROVE TypeOK
  OBVIOUS
<1>1. RowsOK
  BY DEF Init, RowsOK
<1>2. MakersOK
  BY DEF Init, MakersOK, Maker, MakerPc, Sent
<1>3. ChecksOK
  BY DEF Init, ChecksOK, Checker, CheckPc, TaskPc, Off
<1>4. WebOK
  BY DEF Init, WebOK, Request, EventPc, Idle
<1> QED BY <1>1, <1>2, <1>3, <1>4 DEF TypeOK

LEMMA MakerTypeStep ==
  ASSUME TypeOK, NEW q \in Makers, MakerStep(q)
  PROVE  TypeOK'
<1> USE DeliveryFrame DEF TypeOK, rowVars, dataVars, webVars
<1>0. /\ RowsOK /\ MakersOK /\ ChecksOK /\ WebOK
      /\ maker[q] \in Maker /\ maker \in [Makers -> Maker]
  BY DEF MakersOK
<1>1. CASE MakeRow(q)
  <2> DEFINE t == [pc |-> "making", row |-> lastId']
  <2>1. /\ t \in Maker /\ t.pc = "making" /\ t.row # NoBatch
        /\ maker' = [maker EXCEPT ![q] = t]
    BY <1>1, BatchIds DEF MakeRow, Maker, MakerPc
  <2> HIDE DEF t
  <2>2. MakersOK'
    BY <1>0, <2>1, MakerUpdate
  <2>3. RowsOK'
    BY <1>0, <1>1 DEF MakeRow, RowsOK
  <2> QED BY <1>0, <1>1, <2>2, <2>3 DEF MakeRow
<1>2. CASE StopChain(q)
  <2> DEFINE t == [maker[q] EXCEPT !.pc = "ended"]
  <2>1. /\ t \in Maker /\ t.pc # "making" /\ t.row = NoBatch
        /\ maker' = [maker EXCEPT ![q] = t]
    BY <1>0, <1>2 DEF StopChain, Maker, MakerPc, MakersOK
  <2> HIDE DEF t
  <2>2. MakersOK'
    BY <1>0, <2>1, MakerUpdate
  <2> QED BY <1>0, <1>2, <2>2 DEF StopChain
<1>3. CASE FillRow(q)
  <2>1. maker[q].row \in Batches
    BY <1>0, <1>3 DEF FillRow, MakersOK, Maker
  <2>2. ChecksOK'
    <3> DEFINE t == [Off EXCEPT !.pc = "delegate"]
    <3>1. /\ t \in Checker /\ t.pc # "save" /\ t.row = NoBatch
          /\ checker' = [checker EXCEPT ![maker[q].row] = t]
      BY <1>3 DEF FillRow, Checker, CheckPc, Off
    <3> HIDE DEF t
    <3>2. rationales' \in [Batches -> TaskPc] /\ phrases' \in [Batches -> TaskPc]
      BY <1>0, <1>3 DEF FillRow, ChecksOK
    <3> QED BY <1>0, <2>1, <3>1, <3>2, CheckerUpdate
  <2>3. RowsOK'
    BY <1>0, <1>3, <2>1 DEF FillRow, RowsOK
  <2>4. MakersOK'
    BY <1>0, <1>3 DEF FillRow, MakersOK, Maker, MakerPc, Sent
  <2> QED BY <1>0, <1>3, <2>2, <2>3, <2>4 DEF FillRow
<1>4. CASE DeleteRow(q)
  <2>1. Sent \in Maker /\ Sent.pc # "making" /\ Sent.row = NoBatch
    BY DEF Sent, Maker, MakerPc
  <2>2. MakersOK'
    BY <1>0, <1>4, <2>1, MakerUpdate DEF DeleteRow
  <2>3. RowsOK'
    BY <1>0, <1>4 DEF DeleteRow, RowsOK
  <2> QED BY <1>0, <1>4, <2>2, <2>3 DEF DeleteRow
<1> QED BY <1>1, <1>2, <1>3, <1>4 DEF MakerStep

LEMMA DecideRecord ==
  ASSUME TypeOK, NEW b \in Batches, Decide(b)
  PROVE  \E c \in checker[b].todo, buy \in BOOLEAN :
            /\ checker' = [checker EXCEPT ![b] =
                 [checker[b] EXCEPT !.pc = "save", !.row = c, !.buy = buy,
                                    !.todo = checker[b].todo \ {c}]]
            /\ mails' = IF buy THEN mails + 1 ELSE mails
            /\ buy <=> NoEmptyRationale(c) /\ bought = {}
<1>1. PICK c \in checker[b].todo :
          LET buy == NoEmptyRationale(c) /\ bought = {}
          IN  /\ checker' = [checker EXCEPT ![b].pc = "save", ![b].row = c, ![b].buy = buy,
                                            ![b].todo = @ \ {c}]
              /\ mails' = IF buy THEN mails + 1 ELSE mails
  BY DEF Decide
<1> DEFINE buy == NoEmptyRationale(c) /\ bought = {}
<1>2. checker' = [checker EXCEPT ![b] =
             [checker[b] EXCEPT !.pc = "save", !.row = c, !.buy = buy,
                                !.todo = checker[b].todo \ {c}]]
  BY <1>1 DEF TypeOK, ChecksOK
<1>3. buy \in BOOLEAN
  OBVIOUS
<1> QED BY <1>1, <1>2, <1>3

LEMMA CheckTypeStep ==
  ASSUME TypeOK, NEW b \in Batches, TextStep(b) \/ CheckStep(b)
  PROVE  TypeOK'
<1> USE DeliveryFrame DEF TypeOK, rowVars, dataVars, webVars
<1>0. /\ RowsOK /\ MakersOK /\ ChecksOK /\ WebOK
      /\ checker[b] \in Checker /\ checker \in [Batches -> Checker]
      /\ rationales \in [Batches -> TaskPc] /\ phrases \in [Batches -> TaskPc]
      /\ checker[b].pc = "save" <=> checker[b].row # NoBatch
      /\ bought \subseteq Batches /\ rows \subseteq Batches
  BY DEF ChecksOK, RowsOK
<1>1. CASE TextStep(b)
  <2>1. ChecksOK'
    BY <1>0, <1>1 DEF TextStep, GenerateRationales, GeneratePhrases, ChecksOK, TaskPc
  <2>2. RowsOK'
    BY <1>0, <1>1 DEF TextStep, GenerateRationales, GeneratePhrases, RowsOK
  <2> QED BY <1>0, <1>1, <2>1, <2>2 DEF TextStep, GenerateRationales, GeneratePhrases
<1>2. CASE Delegate(b) \/ CheckRationales(b)
  <2>1. PICK pc \in {"rationales", "phrases"} :
            checker' = [checker EXCEPT ![b] = [checker[b] EXCEPT !.pc = pc]]
    BY <1>0, <1>2 DEF Delegate, CheckRationales
  <2> DEFINE t == [checker[b] EXCEPT !.pc = pc]
  <2>2. t \in Checker /\ t.pc # "save" /\ t.row = NoBatch
    BY <1>0, <1>2 DEF Delegate, CheckRationales, Checker, CheckPc
  <2>3. checker' = [checker EXCEPT ![b] = t]
    BY <2>1
  <2> HIDE DEF t
  <2>4. rationales' \in [Batches -> TaskPc] /\ phrases' \in [Batches -> TaskPc]
    BY <1>0, <1>2 DEF Delegate, CheckRationales, TaskPc
  <2>5. ChecksOK'
    BY <1>0, <2>2, <2>3, <2>4, CheckerUpdate
  <2> QED BY <1>0, <1>2, <2>5 DEF Delegate, CheckRationales
<1>3. CASE CheckPhrases(b)
  <2> DEFINE t == [pc |-> "loop", todo |-> rows, seen |-> bought, row |-> NoBatch, buy |-> FALSE]
  <2>1. /\ t \in Checker /\ t.pc # "save" /\ t.row = NoBatch
        /\ checker' = [checker EXCEPT ![b] = t]
    BY <1>0, <1>3 DEF CheckPhrases, Checker, CheckPc
  <2> HIDE DEF t
  <2>2. ChecksOK'
    BY <1>0, <1>3, <2>1, CheckerUpdate DEF CheckPhrases
  <2> QED BY <1>0, <1>3, <2>2 DEF CheckPhrases
<1>4. CASE Decide(b)
  <2>1. PICK c \in checker[b].todo, buy \in BOOLEAN :
            /\ checker' = [checker EXCEPT ![b] =
                 [checker[b] EXCEPT !.pc = "save", !.row = c, !.buy = buy,
                                    !.todo = checker[b].todo \ {c}]]
            /\ mails' = IF buy THEN mails + 1 ELSE mails
    BY <1>4, DecideRecord
  <2> DEFINE t == [checker[b] EXCEPT !.pc = "save", !.row = c, !.buy = buy,
                                     !.todo = checker[b].todo \ {c}]
  <2>2. t \in Checker /\ t.pc = "save" /\ t.row # NoBatch /\ checker' = [checker EXCEPT ![b] = t]
    BY <1>0, <2>1, BatchIds DEF Checker, CheckPc
  <2> HIDE DEF t
  <2>3. ChecksOK'
    BY <1>0, <1>4, <2>2, CheckerUpdate DEF Decide
  <2>4. RowsOK'
    <3>1. mails' \in Nat
      BY <2>1 DEF RowsOK
    <3> QED BY <1>0, <1>4, <3>1 DEF Decide, RowsOK
  <2> QED BY <1>0, <1>4, <2>3, <2>4 DEF Decide
<1>5. CASE MailFails(b) \/ EndCheck(b)
  <2>1. PICK pc \in {"failed", "done"} : checker' = [checker EXCEPT ![b] = [Off EXCEPT !.pc = pc]]
    BY <1>5 DEF MailFails, EndCheck
  <2> DEFINE t == [Off EXCEPT !.pc = pc]
  <2>2. t \in Checker /\ t.pc # "save" /\ t.row = NoBatch /\ checker' = [checker EXCEPT ![b] = t]
    BY <2>1 DEF Checker, CheckPc, Off
  <2> HIDE DEF t
  <2>3. ChecksOK'
    BY <1>0, <1>5, <2>2, CheckerUpdate DEF MailFails, EndCheck
  <2> QED BY <1>0, <1>5, <2>3 DEF MailFails, EndCheck
<1>6. CASE SaveBatch(b)
  <2> DEFINE t == [checker[b] EXCEPT !.pc = "loop", !.row = NoBatch, !.buy = FALSE]
  <2>1. t \in Checker /\ t.pc # "save" /\ t.row = NoBatch /\ checker' = [checker EXCEPT ![b] = t]
    BY <1>0, <1>6 DEF SaveBatch, Checker, CheckPc
  <2> HIDE DEF t
  <2>2. ChecksOK'
    BY <1>0, <1>6, <2>1, CheckerUpdate DEF SaveBatch
  <2>3. checker[b].row \in Batches
    BY <1>0, <1>6 DEF SaveBatch, Checker
  <2>4. RowsOK'
    BY <1>0, <1>6, <2>3 DEF SaveBatch, RowsOK
  <2> QED BY <1>0, <1>6, <2>2, <2>4 DEF SaveBatch
<1> QED BY <1>1, <1>2, <1>3, <1>4, <1>5, <1>6 DEF CheckStep

LEMMA WebTypeStep ==
  ASSUME TypeOK,
         \/ PayExperts
         \/ \E o \in Orders : BuyMore(o)
         \/ \E e \in Events : BuyMoreFree(e) \/ HandleEvent(e) \/ SaleStep(e)
  PROVE  TypeOK'
<1> USE DeliveryFrame DEF TypeOK, rowVars, dataVars, taskVars
<1>0. /\ RowsOK /\ MakersOK /\ ChecksOK /\ WebOK
      /\ event \in [Events -> Request] /\ experts \in Nat
      /\ order \in [Orders -> {"none", "open", "completed", "failed"}]
      /\ \A e \in Events : event[e].pc = "sell" <=> event[e].row # NoBatch
      /\ bought \subseteq Batches /\ rows \subseteq Batches
  BY DEF WebOK, RowsOK
<1>1. CASE PayExperts \/ \E o \in Orders : BuyMore(o)
  <2>1. WebOK'
    BY <1>0, <1>1 DEF PayExperts, BuyMore, WebOK
  <2> QED BY <1>0, <1>1, <2>1 DEF PayExperts, BuyMore
<1>2. ASSUME NEW e \in Events, BuyMoreFree(e) \/ HandleEvent(e)
      PROVE  TypeOK'
  <2>1. PICK pc \in {"count", "ended"} : event' = [event EXCEPT ![e] = [event[e] EXCEPT !.pc = pc]]
    BY <1>0, <1>2 DEF BuyMoreFree, HandleEvent
  <2> DEFINE t == [event[e] EXCEPT !.pc = pc]
  <2>2. t \in Request /\ t.pc # "sell" /\ t.row = NoBatch /\ event' = [event EXCEPT ![e] = t]
    BY <1>0, <1>2, <2>1 DEF BuyMoreFree, HandleEvent, Request, EventPc
  <2> HIDE DEF t
  <2>3. order' \in [Orders -> {"none", "open", "completed", "failed"}] /\ experts' = experts
    BY <1>0, <1>2 DEF BuyMoreFree, HandleEvent
  <2>4. WebOK'
    BY <1>0, <2>2, <2>3, EventUpdate
  <2> QED BY <1>0, <1>2, <2>4 DEF BuyMoreFree, HandleEvent
<1>3. ASSUME NEW e \in Events, CountBought(e) \/ ComparePaid(e)
      PROVE  TypeOK'
  <2>1. Cardinality(bought) \in Nat
    BY <1>0, BatchAssumption, FS_Subset, FS_CardinalityType
  <2>2. PICK t \in Request : /\ event' = [event EXCEPT ![e] = t]
                             /\ t.pc # "sell" /\ t.row = NoBatch
    <3>1. CASE CountBought(e)
      <4> DEFINE t == [event[e] EXCEPT !.pc = "compare", !.count = Cardinality(bought)]
      <4>1. /\ event' = [event EXCEPT ![e] = t]
            /\ t \in Request /\ t.pc # "sell" /\ t.row = NoBatch
        BY <1>0, <2>1, <3>1 DEF CountBought, Request, EventPc
      <4> QED BY <4>1
    <3>2. CASE ComparePaid(e)
      <4>1. PICK pc \in {"pick", "ended"} : event' = [event EXCEPT ![e] = [Idle EXCEPT !.pc = pc]]
        BY <3>2 DEF ComparePaid
      <4>2. [Idle EXCEPT !.pc = pc] \in Request
        BY DEF Request, EventPc, Idle
      <4> QED BY <4>1, <4>2 DEF Idle
    <3> QED BY <1>3, <3>1, <3>2
  <2>3. order' = order /\ experts' = experts
    BY <1>3 DEF CountBought, ComparePaid
  <2>4. WebOK'
    BY <1>0, <2>2, <2>3, EventUpdate
  <2> QED BY <1>0, <1>3, <2>4 DEF CountBought, ComparePaid
<1>4. ASSUME NEW e \in Events, PickBatch(e)
      PROVE  TypeOK'
  <2>1. CASE rows \ bought # {}
    <3> DEFINE first == Min(rows \ bought)
               t == [pc |-> "sell", count |-> 0, row |-> first, shown |-> first \in visible]
    <3>1. first \in Batches /\ first # NoBatch
      BY <1>0, <2>1, BatchIds
    <3>2. event' = [event EXCEPT ![e] = t] /\ maker' = [maker EXCEPT ![e] = Sent]
      BY <1>4, <2>1 DEF PickBatch
    <3>3. t \in Request /\ t.pc = "sell" /\ t.row # NoBatch
      BY <3>1 DEF Request, EventPc
    <3> HIDE DEF t
    <3>4. WebOK'
      BY <1>0, <1>4, <3>2, <3>3, EventUpdate DEF PickBatch
    <3>5. Sent \in Maker /\ Sent.pc # "making" /\ Sent.row = NoBatch /\ e \in Makers
      BY DEF Sent, Maker, MakerPc, Makers
    <3>6. MakersOK'
      BY <1>0, <3>2, <3>5, MakerUpdate
    <3> QED BY <1>0, <1>4, <3>4, <3>6 DEF PickBatch
  <2>2. CASE rows \ bought = {}
    <3> DEFINE t == [event[e] EXCEPT !.pc = "ended"]
    <3>1. /\ event' = [event EXCEPT ![e] = t] /\ maker' = maker
          /\ t \in Request /\ t.pc # "sell" /\ t.row = NoBatch
      BY <1>0, <1>4, <2>2 DEF PickBatch, Request, EventPc
    <3> HIDE DEF t
    <3>2. WebOK'
      BY <1>0, <1>4, <3>1, EventUpdate DEF PickBatch
    <3> QED BY <1>0, <1>4, <3>1, <3>2 DEF PickBatch
  <2> QED BY <2>1, <2>2
<1>5. ASSUME NEW e \in Events, SellBatch(e)
      PROVE  TypeOK'
  <2> DEFINE t == [Idle EXCEPT !.pc = "ended"]
  <2>1. t \in Request /\ t.pc # "sell" /\ t.row = NoBatch /\ event' = [event EXCEPT ![e] = t]
    BY <1>5 DEF SellBatch, Request, EventPc, Idle
  <2> HIDE DEF t
  <2>2. WebOK'
    BY <1>0, <1>5, <2>1, EventUpdate DEF SellBatch
  <2>3. event[e].row \in Batches
    BY <1>0, <1>5 DEF SellBatch, Request
  <2>4. RowsOK'
    BY <1>0, <1>5, <2>3 DEF SellBatch, RowsOK
  <2> QED BY <1>0, <1>5, <2>2, <2>4 DEF SellBatch
<1> QED BY <1>1, <1>2, <1>3, <1>4, <1>5 DEF SaleStep

LEMMA LoseTypeStep ==
  ASSUME TypeOK, Lose
  PROVE  TypeOK'
<1> USE DeliveryFrame DEF TypeOK, rowVars, dataVars, webVars
<1>0. RowsOK /\ MakersOK /\ ChecksOK /\ WebOK
  OBVIOUS
<1>1. RowsOK' /\ WebOK'
  BY <1>0 DEF Lose, RowsOK
<1>2. MakersOK'
  <2>1. [pc |-> "lost", row |-> NoBatch] \in Maker
    BY DEF Maker, MakerPc
  <2> QED BY <1>0, <2>1 DEF Lose, MakersOK
<1>3. ChecksOK'
  <2>1. ASSUME NEW b \in Batches, checker' = [checker EXCEPT ![b] = [Off EXCEPT !.pc = "lost"]],
               rationales' = rationales, phrases' = phrases
        PROVE  ChecksOK'
    <3> DEFINE t == [Off EXCEPT !.pc = "lost"]
    <3>1. t \in Checker /\ t.pc # "save" /\ t.row = NoBatch /\ checker' = [checker EXCEPT ![b] = t]
      BY <2>1 DEF Checker, CheckPc, Off
    <3> HIDE DEF t
    <3> QED BY <1>0, <2>1, <3>1, CheckerUpdate DEF ChecksOK
  <2>2. ASSUME NEW b \in Batches, checker' = checker,
               \/ /\ rationales' = [rationales EXCEPT ![b] = "lost"] /\ phrases' = phrases
               \/ /\ phrases' = [phrases EXCEPT ![b] = "lost"] /\ rationales' = rationales
        PROVE  ChecksOK'
    BY <1>0, <2>2 DEF ChecksOK, TaskPc
  <2> QED BY <1>0, <2>1, <2>2 DEF Lose
<1> QED BY <1>1, <1>2, <1>3

\* Rows stay consistent with their flags, and a task or request holds a row exactly while it is
\* about to write it, in every interleaving of tasks, requests and crashes.
THEOREM DeliveryTypeCorrect == Spec => []TypeOK
<1>1. TypeOK /\ [Next]_vars => TypeOK'
  <2> SUFFICES ASSUME TypeOK, [Next]_vars PROVE TypeOK'
    OBVIOUS
  <2>1. CASE UNCHANGED vars
    BY <2>1, DeliveryFrame DEF vars, rowVars, dataVars, taskVars, webVars, TypeOK
  <2> QED BY <2>1, MakerTypeStep, CheckTypeStep, WebTypeStep, LoseTypeStep DEF Next
<1> QED BY <1>1, DeliveryInitType, PTL DEF Spec
-----------------------------------------------------------------------------
(***************************************************************************)
(* Batches and payments with one worker.  A check that is running is       *)
(* alone, so that no batch is given away or taken back between its reading *)
(* of the rows and its saves, except by the web requests; and each of      *)
(* these stands for a payment that has been completed.                     *)
(***************************************************************************)

MakersBusy == {q \in Makers : maker[q].pc = "making"}
ChecksBusy == {b \in Batches : checker[b].pc \in {"loop", "save"}}

\* The requests that may still sell a batch.
Pending == {e \in Events : event[e].pc \in {"count", "compare", "pick", "sell"}}

OneAtWork ==
    /\ \A b, c \in ChecksBusy : b = c
    /\ MakersBusy = {} \/ ChecksBusy = {}
\* The save of a row that was bought when it was read takes nothing beyond what is bought.
SeenHeld == \A b \in ChecksBusy : checker[b].seen \subseteq bought
NotPaidBefore == \A e \in Events : event[e].pc = "idle" => order[OrderOf[e]] # "completed"
PendingPaid == Cardinality(Pending) <= Cardinality(Completed)
Budget == Cardinality(bought) + Cardinality(Pending) <= 1 + Cardinality(Completed)
\* A check that is about to give a batch away has not given one before, nor has another check.
GiftLeft ==
    (\E b \in Batches : checker[b].pc = "save" /\ checker[b].buy) =>
        Cardinality(bought) + Cardinality(Pending) <= Cardinality(Completed)

PaidInv ==
    /\ OneAtWork /\ SeenHeld
    /\ plan = "paid" => NotPaidBefore /\ PendingPaid /\ Budget /\ GiftLeft

LEMMA DeliveryFinite ==
  ASSUME TypeOK
  PROVE  /\ IsFiniteSet(bought) /\ Cardinality(bought) \in Nat
         /\ IsFiniteSet(Pending) /\ Cardinality(Pending) \in Nat
         /\ IsFiniteSet(Completed) /\ Cardinality(Completed) \in Nat
<1>1. bought \in SUBSET Batches /\ Pending \in SUBSET Events /\ Completed \in SUBSET Orders
  BY DEF TypeOK, RowsOK, Pending, Completed
<1>2. IsFiniteSet(bought) /\ IsFiniteSet(Pending) /\ IsFiniteSet(Completed)
  BY <1>1, BatchAssumption, EventAssumption, FS_Subset
<1> QED BY <1>2, FS_CardinalityType

LEMMA OneMoreBought ==
  ASSUME TypeOK, NEW b, bought' = bought \cup {b}
  PROVE  Cardinality(bought') <= Cardinality(bought) + 1 /\ Cardinality(bought') \in Nat
<1>1. IsFiniteSet(bought) /\ Cardinality(bought) \in Nat
  BY DeliveryFinite
<1>2. Cardinality(bought \cup {b}) =
          IF b \in bought THEN Cardinality(bought) ELSE Cardinality(bought) + 1
  BY <1>1, FS_AddElement
<1> QED BY <1>1, <1>2

LEMMA DeliveryFreeIdle ==
  ASSUME Concurrency = 1, WorkerFree
  PROVE  MakersBusy = {} /\ ChecksBusy = {}
<1>1. IsFiniteSet(Events \cup {"first"}) /\ Makers = (Events \cup {"first"}) \cup {"additional"}
  BY EventAssumption, FS_AddElement DEF Makers
<1>2. IsFiniteSet(Makers)
  BY <1>1, FS_AddElement
<1>3. IsFiniteSet(MakersBusy) /\ IsFiniteSet(ChecksBusy)
  BY <1>2, BatchAssumption, FS_Subset DEF MakersBusy, ChecksBusy
<1>4. Cardinality(MakersBusy) \in Nat /\ Cardinality(ChecksBusy) \in Nat
  BY <1>3, FS_CardinalityType
<1>5. Cardinality(MakersBusy) + Cardinality(ChecksBusy) < 1
  BY DEF WorkerFree, Busy, MakersBusy, ChecksBusy
<1>6. Cardinality(MakersBusy) = 0 /\ Cardinality(ChecksBusy) = 0
  BY <1>4, <1>5
<1> QED BY <1>3, <1>6, FS_EmptySet

\* A step after which no more tasks are at work, and the checks among them remember what they did.
LEMMA FewerAtWork ==
  ASSUME PaidInv, MakersBusy' \subseteq MakersBusy, ChecksBusy' \subseteq ChecksBusy
  PROVE  /\ OneAtWork'
         /\ bought \subseteq bought' /\ (\A b \in ChecksBusy' : checker'[b].seen = checker[b].seen)
                => SeenHeld'
  BY DEF PaidInv, OneAtWork, SeenHeld

\* A step that completes no payment, sells nothing and decides on no gift.
LEMMA NothingSold ==
  ASSUME TypeOK, TypeOK', PaidInv, OneAtWork', SeenHeld',
         plan' = plan, bought' \subseteq bought, Completed' = Completed, Pending' \subseteq Pending,
         plan = "paid" /\ NotPaidBefore => NotPaidBefore',
         \A b \in Batches : checker'[b].pc = "save" /\ checker'[b].buy
                                => checker[b].pc = "save" /\ checker[b].buy
  PROVE  PaidInv'
<1>1. /\ IsFiniteSet(bought) /\ Cardinality(bought) \in Nat
      /\ IsFiniteSet(Pending) /\ Cardinality(Pending) \in Nat
      /\ Cardinality(Completed) \in Nat
  BY DeliveryFinite
<1>2. Cardinality(bought') <= Cardinality(bought) /\ Cardinality(Pending') <= Cardinality(Pending)
  BY <1>1, FS_Subset
<1>3. Cardinality(bought') \in Nat /\ Cardinality(Pending') \in Nat
  BY <1>1, FS_Subset, FS_CardinalityType
<1>4. Cardinality(Completed') = Cardinality(Completed)
  OBVIOUS
<1>5. ASSUME plan = "paid" PROVE (NotPaidBefore /\ PendingPaid /\ Budget /\ GiftLeft)'
  <2>1. NotPaidBefore /\ PendingPaid /\ Budget /\ GiftLeft
    BY <1>5 DEF PaidInv
  <2>2. PendingPaid' /\ Budget'
    BY <1>1, <1>2, <1>3, <1>4, <2>1 DEF PendingPaid, Budget
  <2>3. GiftLeft'
    BY <1>1, <1>2, <1>3, <1>4, <2>1 DEF GiftLeft
  <2> QED BY <1>5, <2>1, <2>2, <2>3
<1> QED BY <1>5 DEF PaidInv

LEMMA SoleMaker ==
  ASSUME Concurrency = 1, TypeOK, TypeOK', PaidInv, NEW q \in Makers, MakerStep(q)
  PROVE  PaidInv'
<1>0. maker \in [Makers -> Maker] /\ checker \in [Batches -> Checker]
  BY DEF TypeOK, MakersOK, ChecksOK
<1>1. CASE MakeRow(q)
  <2>1. MakersBusy = {} /\ ChecksBusy = {}
    BY <1>1, DeliveryFreeIdle DEF MakeRow
  <2>2. ChecksBusy' = {} /\ checker' = checker
    BY <1>1, <2>1 DEF MakeRow, ChecksBusy
  <2>3. OneAtWork' /\ SeenHeld'
    BY <2>2 DEF OneAtWork, SeenHeld
  <2>4. UNCHANGED <<plan, bought, order, event>>
    BY <1>1 DEF MakeRow, webVars
  <2>5. Completed' = Completed /\ Pending' = Pending /\ (NotPaidBefore => NotPaidBefore')
    BY <2>4 DEF Completed, Pending, NotPaidBefore
  <2> QED BY <2>2, <2>3, <2>4, <2>5, NothingSold
<1>2. CASE StopChain(q) \/ FillRow(q) \/ DeleteRow(q)
  <2>1. /\ plan' = plan /\ order' = order /\ event' = event
        /\ bought' \subseteq bought /\ (~DeleteRow(q) => bought' = bought)
    BY <1>2 DEF StopChain, FillRow, DeleteRow, webVars, rowVars
  <2>2. MakersBusy' \subseteq MakersBusy
    BY <1>0, <1>2 DEF StopChain, FillRow, DeleteRow, MakersBusy, Maker, Sent
  <2>3. \A b \in Batches : checker'[b] = checker[b] \/ checker'[b].pc = "delegate"
    BY <1>0, <1>2 DEF StopChain, FillRow, DeleteRow, Off
  <2>4. ChecksBusy' \subseteq ChecksBusy /\ \A b \in ChecksBusy' : checker'[b] = checker[b]
    BY <2>3 DEF ChecksBusy
  <2>5. OneAtWork'
    BY <2>2, <2>4, FewerAtWork
  <2>6. SeenHeld'
    <3>1. CASE DeleteRow(q)
      <4>1. q \in MakersBusy
        BY <3>1 DEF DeleteRow, MakersBusy
      <4>2. ChecksBusy' = {}
        BY <2>4, <4>1 DEF PaidInv, OneAtWork
      <4> QED BY <4>2 DEF SeenHeld
    <3>2. CASE ~DeleteRow(q)
      BY <2>1, <2>2, <2>4, <3>2, FewerAtWork
    <3> QED BY <3>1, <3>2
  <2>7. Completed' = Completed /\ Pending' = Pending /\ (NotPaidBefore => NotPaidBefore')
    BY <2>1 DEF Completed, Pending, NotPaidBefore
  <2> QED BY <2>1, <2>3, <2>5, <2>6, <2>7, NothingSold
<1> QED BY <1>1, <1>2 DEF MakerStep

\* A gift is decided upon when nothing is bought: no payment has been used up but those of the
\* requests on their way.
LEMMA SoleDecide ==
  ASSUME TypeOK, TypeOK', PaidInv, NEW b \in Batches, Decide(b)
  PROVE  PaidInv'
<1>0. checker \in [Batches -> Checker]
  BY DEF TypeOK, ChecksOK
<1>1. UNCHANGED <<plan, bought, maker, order, event>>
  BY DEF Decide, rowVars, webVars
<1>2. Completed' = Completed /\ Pending' = Pending /\ (NotPaidBefore => NotPaidBefore')
  BY <1>1 DEF Completed, Pending, NotPaidBefore
<1>3. b \in ChecksBusy /\ \A c \in Batches \ {b} : checker'[c] = checker[c]
  BY <1>0 DEF Decide, ChecksBusy
<1>4. checker'[b].seen = checker[b].seen /\ (checker'[b].buy => bought = {})
  <2>1. PICK c \in checker[b].todo, buy \in BOOLEAN :
            /\ checker' = [checker EXCEPT ![b] =
                 [checker[b] EXCEPT !.pc = "save", !.row = c, !.buy = buy,
                                    !.todo = checker[b].todo \ {c}]]
            /\ buy => bought = {}
    BY DecideRecord
  <2> QED BY <1>0, <2>1 DEF Checker
<1>5. MakersBusy' = MakersBusy /\ ChecksBusy' \subseteq ChecksBusy
  BY <1>1, <1>3 DEF MakersBusy, ChecksBusy
<1>6. OneAtWork' /\ SeenHeld'
  BY <1>1, <1>3, <1>4, <1>5, FewerAtWork DEF ChecksBusy
<1>7. ASSUME plan = "paid" PROVE (NotPaidBefore /\ PendingPaid /\ Budget /\ GiftLeft)'
  <2>1. NotPaidBefore /\ PendingPaid /\ Budget /\ GiftLeft
    BY <1>7 DEF PaidInv
  <2>2. PendingPaid' /\ Budget'
    BY <1>1, <1>2, <2>1 DEF PendingPaid, Budget
  <2>3. GiftLeft'
    <3>1. CASE checker'[b].buy
      <4>1. Cardinality(bought) = 0
        BY <1>4, <3>1, FS_EmptySet
      <4> QED BY <1>1, <1>2, <2>1, <4>1, DeliveryFinite DEF GiftLeft, PendingPaid
    <3>2. CASE ~checker'[b].buy
      BY <1>1, <1>2, <1>3, <2>1, <3>2 DEF GiftLeft
    <3> QED BY <3>1, <3>2
  <2> QED BY <2>1, <2>2, <2>3, <1>2
<1> QED BY <1>1, <1>6, <1>7 DEF PaidInv

\* A gift is saved: it is the only one, and the count allowed for it.
LEMMA SoleSave ==
  ASSUME TypeOK, TypeOK', PaidInv, NEW b \in Batches, SaveBatch(b)
  PROVE  PaidInv'
<1> DEFINE c == checker[b].row
<1>0. checker \in [Batches -> Checker]
  BY DEF TypeOK, ChecksOK
<1>1. UNCHANGED <<plan, maker, order, event>>
  BY DEF SaveBatch, webVars
<1>2. Completed' = Completed /\ Pending' = Pending /\ (NotPaidBefore => NotPaidBefore')
  BY <1>1 DEF Completed, Pending, NotPaidBefore
<1>3. /\ b \in ChecksBusy /\ checker[b].pc = "save"
      /\ \A d \in Batches \ {b} : checker'[d] = checker[d]
      /\ checker'[b].pc = "loop" /\ checker'[b].seen = checker[b].seen
  BY <1>0 DEF SaveBatch, ChecksBusy, Checker
<1>4. ChecksBusy = {b} /\ MakersBusy = {} /\ checker[b].seen \subseteq bought
  BY <1>3 DEF PaidInv, OneAtWork, SeenHeld
<1>5. ChecksBusy' = {b} /\ MakersBusy' = {}
  BY <1>1, <1>3, <1>4 DEF ChecksBusy, MakersBusy
<1>6. bought' = IF checker[b].buy \/ c \in checker[b].seen THEN bought \cup {c} ELSE bought \ {c}
  BY DEF SaveBatch
<1>7. OneAtWork' /\ SeenHeld'
  BY <1>3, <1>4, <1>5, <1>6 DEF OneAtWork, SeenHeld
<1>8. \A d \in Batches : ~(checker'[d].pc = "save")
  BY <1>3, <1>5 DEF ChecksBusy
<1>9. CASE checker[b].buy
  <2>1. bought' = bought \cup {c}
    BY <1>6, <1>9
  <2>2. Cardinality(bought') <= Cardinality(bought) + 1 /\ Cardinality(bought') \in Nat
    BY <2>1, OneMoreBought
  <2>3. ASSUME plan = "paid" PROVE (NotPaidBefore /\ PendingPaid /\ Budget /\ GiftLeft)'
    <3>1. NotPaidBefore /\ PendingPaid /\ GiftLeft
      BY <2>3 DEF PaidInv
    <3>2. Cardinality(bought) + Cardinality(Pending) <= Cardinality(Completed)
      BY <1>3, <1>9, <3>1 DEF GiftLeft
    <3>3. Budget'
      BY <1>2, <2>2, <3>2, DeliveryFinite DEF Budget
    <3>4. PendingPaid'
      BY <1>2, <3>1 DEF PendingPaid
    <3> QED BY <1>2, <1>8, <3>1, <3>3, <3>4 DEF GiftLeft
  <2> QED BY <1>1, <1>7, <2>3 DEF PaidInv
<1>10. CASE ~checker[b].buy
  <2>1. bought' \subseteq bought
    BY <1>4, <1>6, <1>10
  <2> QED BY <1>1, <1>2, <1>7, <1>8, <2>1, NothingSold
<1> QED BY <1>9, <1>10

LEMMA SoleCheck ==
  ASSUME Concurrency = 1, TypeOK, TypeOK', PaidInv, NEW b \in Batches, TextStep(b) \/ CheckStep(b)
  PROVE  PaidInv'
<1>0. checker \in [Batches -> Checker]
  BY DEF TypeOK, ChecksOK
<1>1. CASE CheckPhrases(b)
  <2>1. MakersBusy = {} /\ ChecksBusy = {}
    BY <1>1, DeliveryFreeIdle DEF CheckPhrases
  <2>2. UNCHANGED <<plan, bought, maker, order, event>>
    BY <1>1 DEF CheckPhrases, rowVars, webVars
  <2>3. /\ \A c \in Batches \ {b} : checker'[c] = checker[c]
        /\ checker'[b].pc = "loop" /\ checker'[b].seen = bought
    BY <1>0, <1>1 DEF CheckPhrases
  <2>4. MakersBusy' = {} /\ ChecksBusy' = {b}
    BY <2>1, <2>2, <2>3 DEF MakersBusy, ChecksBusy
  <2>5. OneAtWork' /\ SeenHeld'
    BY <2>2, <2>3, <2>4 DEF OneAtWork, SeenHeld
  <2>6. Completed' = Completed /\ Pending' = Pending /\ (NotPaidBefore => NotPaidBefore')
    BY <2>2 DEF Completed, Pending, NotPaidBefore
  <2>7. \A d \in Batches : checker'[d].pc = "save" /\ checker'[d].buy
                                => checker[d].pc = "save" /\ checker[d].buy
    BY <2>3
  <2> QED BY <2>2, <2>5, <2>6, <2>7, NothingSold
<1>2. CASE TextStep(b) \/ Delegate(b) \/ CheckRationales(b) \/ MailFails(b) \/ EndCheck(b)
  <2>1. UNCHANGED <<plan, bought, maker, order, event>>
    BY <1>2 DEF TextStep, GenerateRationales, GeneratePhrases, Delegate, CheckRationales, MailFails,
                EndCheck, rowVars, webVars
  <2>2. \A c \in Batches : \/ checker'[c] = checker[c]
                           \/ checker'[c].pc \in {"rationales", "phrases", "failed", "done"}
    BY <1>0, <1>2 DEF TextStep, GenerateRationales, GeneratePhrases, Delegate, CheckRationales,
                      MailFails, EndCheck, Off, Checker
  <2>3. /\ MakersBusy' = MakersBusy /\ ChecksBusy' \subseteq ChecksBusy
        /\ \A c \in ChecksBusy' : checker'[c] = checker[c]
    BY <2>1, <2>2 DEF MakersBusy, ChecksBusy
  <2>4. OneAtWork' /\ SeenHeld'
    BY <2>1, <2>3, FewerAtWork
  <2>5. Completed' = Completed /\ Pending' = Pending /\ (NotPaidBefore => NotPaidBefore')
    BY <2>1 DEF Completed, Pending, NotPaidBefore
  <2> QED BY <2>1, <2>2, <2>4, <2>5, NothingSold
<1> QED BY <1>1, <1>2, SoleDecide, SoleSave DEF CheckStep

\* An event completes the payment that its request stands for.
LEMMA SoleEvent ==
  ASSUME \A d, e \in Events : OrderOf[d] = OrderOf[e] => d = e,
         TypeOK, TypeOK', PaidInv, OneAtWork', SeenHeld', NEW e \in Events, HandleEvent(e)
  PROVE  PaidInv'
<1> DEFINE o == OrderOf[e]
<1>0. /\ event \in [Events -> Request] /\ o \in Orders
      /\ order \in [Orders -> {"none", "open", "completed", "failed"}]
  BY EventAssumption DEF TypeOK, WebOK
<1>1. UNCHANGED <<plan, bought, checker>>
  BY DEF HandleEvent, rowVars, taskVars
<1>2. PICK status \in {"completed", "failed"} :
          /\ order' = [order EXCEPT ![o] = status]
          /\ event' = [event EXCEPT ![e].pc = IF status = "completed" THEN "count" ELSE "ended"]
  BY DEF HandleEvent
<1>3. /\ event[e].pc = "idle"
      /\ event'[e].pc = IF status = "completed" THEN "count" ELSE "ended"
      /\ \A d \in Events \ {e} : event'[d] = event[d] /\ OrderOf[d] # o /\ OrderOf[d] \in Orders
  <2>1. \A d \in Events \ {e} : OrderOf[d] # o /\ OrderOf[d] \in Orders
    BY EventAssumption
  <2>2. event[e].pc = "idle"
    BY DEF HandleEvent
  <2> QED BY <1>0, <1>2, <2>1, <2>2 DEF Request
<1>4. order'[o] = status /\ \A p \in Orders \ {o} : order'[p] = order[p]
  BY <1>0, <1>2
<1>5. ASSUME NotPaidBefore PROVE NotPaidBefore'
  <2>1. ASSUME NEW d \in Events, event'[d].pc = "idle" PROVE order'[OrderOf[d]] # "completed"
    <3>1. d # e
      BY <1>3, <2>1
    <3> QED BY <1>3, <1>4, <1>5, <2>1, <3>1 DEF NotPaidBefore
  <2> QED BY <2>1 DEF NotPaidBefore
<1>6. CASE status = "failed"
  <2>1. Pending' = Pending
    BY <1>3, <1>6 DEF Pending
  <2>2. ASSUME plan = "paid" PROVE Completed' = Completed
    BY <1>0, <1>3, <1>4, <1>6, <2>2 DEF Completed, PaidInv, NotPaidBefore
  <2>3. CASE plan = "paid"
    BY <1>1, <1>5, <2>1, <2>2, <2>3, NothingSold
  <2>4. CASE plan # "paid"
    BY <1>1, <2>4 DEF PaidInv
  <2> QED BY <2>3, <2>4
<1>7. CASE status = "completed"
  <2>1. Pending' = Pending \cup {e} /\ e \notin Pending
    BY <1>3, <1>7 DEF Pending
  <2>2. ASSUME plan = "paid" PROVE Completed' = Completed \cup {o} /\ o \notin Completed
    BY <1>0, <1>3, <1>4, <1>7, <2>2 DEF Completed, PaidInv, NotPaidBefore
  <2>3. ASSUME plan = "paid" PROVE (NotPaidBefore /\ PendingPaid /\ Budget /\ GiftLeft)'
    <3>1. NotPaidBefore /\ PendingPaid /\ Budget /\ GiftLeft
      BY <2>3 DEF PaidInv
    <3>2. /\ Cardinality(Pending') = Cardinality(Pending) + 1
          /\ Cardinality(Completed') = Cardinality(Completed) + 1
          /\ Cardinality(bought') = Cardinality(bought)
      BY <1>1, <2>1, <2>2, <2>3, DeliveryFinite, FS_AddElement
    <3>3. PendingPaid' /\ Budget'
      BY <3>1, <3>2, DeliveryFinite DEF PendingPaid, Budget
    <3>4. GiftLeft'
      BY <1>1, <3>1, <3>2, DeliveryFinite DEF GiftLeft
    <3> QED BY <1>5, <3>1, <3>3, <3>4
  <2> QED BY <1>1, <2>3 DEF PaidInv
<1> QED BY <1>6, <1>7

\* A sale: one batch more, one request less.
LEMMA SoleSale ==
  ASSUME TypeOK, TypeOK', PaidInv, OneAtWork', SeenHeld', NEW e \in Events, SellBatch(e)
  PROVE  PaidInv'
<1> DEFINE b == event[e].row
<1>0. event \in [Events -> Request]
  BY DEF TypeOK, WebOK
<1>1. UNCHANGED <<plan, checker, order>> /\ bought' = bought \cup {b}
  BY DEF SellBatch, taskVars
<1>2. Completed' = Completed
  BY <1>1 DEF Completed
<1>3. /\ event[e].pc = "sell" /\ event'[e].pc = "ended"
      /\ \A d \in Events \ {e} : event'[d] = event[d]
  BY <1>0 DEF SellBatch, Idle
<1>4. Pending' = Pending \ {e} /\ e \in Pending
  BY <1>3 DEF Pending
<1>5. /\ Cardinality(Pending') = Cardinality(Pending) - 1
      /\ Cardinality(bought') <= Cardinality(bought) + 1
      /\ Cardinality(bought') \in Nat /\ Cardinality(Pending') \in Nat
  <2>1. IsFiniteSet(Pending)
    BY DeliveryFinite
  <2>2. IsFiniteSet(Pending') /\ Cardinality(Pending') = Cardinality(Pending) - 1
    BY <1>4, <2>1, FS_RemoveElement
  <2> QED BY <1>1, <2>2, OneMoreBought, FS_CardinalityType
<1>6. ASSUME plan = "paid" PROVE (NotPaidBefore /\ PendingPaid /\ Budget /\ GiftLeft)'
  <2>1. NotPaidBefore /\ PendingPaid /\ Budget /\ GiftLeft
    BY <1>6 DEF PaidInv
  <2>2. NotPaidBefore'
    BY <1>1, <1>3, <2>1 DEF NotPaidBefore
  <2>3. PendingPaid' /\ Budget'
    BY <1>2, <1>5, <2>1, DeliveryFinite DEF PendingPaid, Budget
  <2>4. GiftLeft'
    BY <1>1, <1>2, <1>5, <2>1, DeliveryFinite DEF GiftLeft
  <2> QED BY <2>2, <2>3, <2>4
<1> QED BY <1>1, <1>6 DEF PaidInv

LEMMA SoleWeb ==
  ASSUME \A d, e \in Events : OrderOf[d] = OrderOf[e] => d = e,
         TypeOK, TypeOK', PaidInv,
         \/ PayExperts
         \/ \E o \in Orders : BuyMore(o)
         \/ \E e \in Events : BuyMoreFree(e) \/ HandleEvent(e) \/ SaleStep(e)
  PROVE  PaidInv'
<1>0. event \in [Events -> Request] /\ maker \in [Makers -> Maker]
  BY DEF TypeOK, WebOK, MakersOK
<1>1. plan' = plan /\ checker' = checker /\ bought \subseteq bought'
  BY DEF PayExperts, BuyMore, BuyMoreFree, HandleEvent, SaleStep, CountBought, ComparePaid, PickBatch,
         SellBatch, rowVars, taskVars
<1>2. MakersBusy' \subseteq MakersBusy
  <2>1. maker' = maker \/ \E e \in Events : maker' = [maker EXCEPT ![e] = Sent]
    BY DEF PayExperts, BuyMore, BuyMoreFree, HandleEvent, SaleStep, CountBought, ComparePaid,
           PickBatch, SellBatch, taskVars
  <2> QED BY <1>0, <2>1 DEF MakersBusy, Sent
<1>3. OneAtWork' /\ SeenHeld'
  BY <1>1, <1>2, FewerAtWork DEF ChecksBusy
<1>4. CASE PayExperts \/ \E o \in Orders : BuyMore(o)
  <2>1. bought' = bought /\ event' = event
    BY <1>4 DEF PayExperts, BuyMore, rowVars
  <2>2. /\ order \in [Orders -> {"none", "open", "completed", "failed"}]
        /\ order' \in [Orders -> {"none", "open", "completed", "failed"}]
    BY DEF TypeOK, WebOK
  <2>3. \A p \in Orders : order'[p] = order[p] \/ (order[p] = "none" /\ order'[p] = "open")
    BY <1>4, <2>2 DEF PayExperts, BuyMore
  <2>4. Completed' = Completed /\ Pending' = Pending /\ (NotPaidBefore => NotPaidBefore')
    BY <2>1, <2>3, EventAssumption DEF Completed, Pending, NotPaidBefore
  <2> QED BY <1>1, <1>3, <2>1, <2>4, NothingSold
<1>5. ASSUME NEW e \in Events, BuyMoreFree(e) PROVE PaidInv'
  BY <1>1, <1>3, <1>5 DEF BuyMoreFree, PaidInv
<1>6. ASSUME NEW e \in Events, CountBought(e) \/ ComparePaid(e) \/ PickBatch(e) PROVE PaidInv'
  <2>1. bought' = bought /\ order' = order
    BY <1>6 DEF CountBought, ComparePaid, PickBatch, rowVars
  <2>2. /\ e \in Pending /\ event'[e].pc # "idle"
        /\ \A d \in Events \ {e} : event'[d] = event[d]
    BY <1>0, <1>6 DEF CountBought, ComparePaid, PickBatch, Pending, Idle, Request
  <2>3. Completed' = Completed /\ Pending' \subseteq Pending /\ (NotPaidBefore => NotPaidBefore')
    BY <2>1, <2>2 DEF Completed, Pending, NotPaidBefore
  <2> QED BY <1>1, <1>3, <2>1, <2>3, NothingSold
<1> QED BY <1>3, <1>4, <1>5, <1>6, SoleEvent, SoleSale DEF SaleStep

LEMMA SoleLose ==
  ASSUME TypeOK, TypeOK', PaidInv, Lose
  PROVE  PaidInv'
<1>0. maker \in [Makers -> Maker] /\ checker \in [Batches -> Checker]
  BY DEF TypeOK, MakersOK, ChecksOK
<1>1. UNCHANGED <<plan, bought, order, event>>
  BY DEF Lose, rowVars, webVars
<1>2. MakersBusy' \subseteq MakersBusy
  BY <1>0 DEF Lose, MakersBusy
<1>3. \A c \in Batches : checker'[c] = checker[c] \/ checker'[c].pc = "lost"
  BY <1>0 DEF Lose, Off
<1>4. ChecksBusy' \subseteq ChecksBusy /\ \A c \in ChecksBusy' : checker'[c] = checker[c]
  BY <1>3 DEF ChecksBusy
<1>5. OneAtWork' /\ SeenHeld'
  BY <1>1, <1>2, <1>4, FewerAtWork
<1>6. Completed' = Completed /\ Pending' = Pending /\ (NotPaidBefore => NotPaidBefore')
  BY <1>1 DEF Completed, Pending, NotPaidBefore
<1> QED BY <1>1, <1>3, <1>5, <1>6, NothingSold

LEMMA PaidInvariant ==
  ASSUME Concurrency = 1, \A d, e \in Events : OrderOf[d] = OrderOf[e] => d = e
  PROVE  Spec => []PaidInv
<1>1. Init => PaidInv
  <2> SUFFICES ASSUME Init PROVE PaidInv
    OBVIOUS
  <2>1. ChecksBusy = {} /\ Pending = {} /\ Completed = {} /\ bought = {}
    BY DEF Init, ChecksBusy, Off, Pending, Idle, Completed
  <2>2. OneAtWork /\ SeenHeld /\ NotPaidBefore
    BY <2>1, EventAssumption DEF Init, OneAtWork, SeenHeld, NotPaidBefore
  <2>3. PendingPaid /\ Budget
    BY <2>1, FS_EmptySet DEF PendingPaid, Budget
  <2>4. GiftLeft
    BY DEF Init, GiftLeft, Off
  <2> QED BY <2>2, <2>3, <2>4 DEF PaidInv
<1>2. TypeOK /\ TypeOK' /\ PaidInv /\ [Next]_vars => PaidInv'
  <2> SUFFICES ASSUME TypeOK, TypeOK', PaidInv, [Next]_vars PROVE PaidInv'
    OBVIOUS
  <2>1. CASE UNCHANGED vars
    BY <2>1 DEF vars, rowVars, taskVars, webVars, PaidInv, OneAtWork, SeenHeld, NotPaidBefore,
                PendingPaid, Budget, GiftLeft, MakersBusy, ChecksBusy, Pending, Completed
  <2> QED BY <2>1, SoleMaker, SoleCheck, SoleWeb, SoleLose DEF Next
<1> QED BY <1>1, <1>2, DeliveryTypeCorrect, PTL DEF Spec

\* With one worker process, and an event for each payment that comes once, no customer gets more
\* than the first batch and one for each completed payment, however the tasks, the web requests
\* and the crashes of tasks interleave.
THEOREM NoBatchBeyondPayment ==
  ASSUME Concurrency = 1, \A d, e \in Events : OrderOf[d] = OrderOf[e] => d = e
  PROVE  Spec => []BoughtWithinPaid
<1>1. TypeOK /\ PaidInv => BoughtWithinPaid
  <2> SUFFICES ASSUME TypeOK, PaidInv, plan = "paid"
               PROVE  Cardinality(bought) <= 1 + Cardinality(Completed)
    BY DEF BoughtWithinPaid
  <2> QED BY DeliveryFinite DEF PaidInv, Budget
<1> QED BY <1>1, PaidInvariant, DeliveryTypeCorrect, PTL
-----------------------------------------------------------------------------
(***************************************************************************)
(* The first batch with one worker.  A check reads all the rows and then   *)
(* writes each of them whole: what it writes is what it has read, plus its *)
(* gift, as no row is made, given or emptied meanwhile, except by a sale.  *)
(***************************************************************************)

OneMaker == \A q, r \in MakersBusy : q = r
Work == OneAtWork /\ OneMaker /\ SeenHeld

\* The rows that a check still has to write, and the one that it gives away.
ToSave(b) == checker[b].todo \cup {checker[b].row}
Gift(b) == checker[b].pc = "save" /\ checker[b].buy

IdsGiven ==
    /\ \A c \in rows \cup filled : c <= lastId
    /\ \A b \in Batches : \A c \in ToSave(b) : c <= lastId
    /\ \A e \in Events : event[e].row <= lastId
\* A row that is filled stays, and so does one that a task is filling.
RowsKept ==
    /\ filled \subseteq rows
    /\ \A q \in MakersBusy : maker[q].row \in rows \ filled
\* The tasks of a batch are sent after it is filled, and a request's create_batch after its pick.
SentAfter ==
    /\ \A b \in Batches \ filled :
        checker[b].pc = "none" /\ rationales[b] = "none" /\ b \notin rationaled
    /\ \A b \in Batches : rationales[b] = "queued" => checker[b].pc = "rationales"
    /\ \A e \in Events : event[e].pc \in {"idle", "count", "compare", "pick"} => maker[e].pc = "none"
SavedOnce == \A b \in Batches : checker[b].row \notin checker[b].todo
\* Without crashes, a row that is not filled is being filled or has been sold, so that a check
\* takes no such row for one whose names all have rationales.
NoStrays ==
    crashes = 0 =>
        /\ \A c \in rows : c \in filled \cup bought \/ \E q \in MakersBusy : maker[q].row = c
        /\ \A b \in ChecksBusy : ToSave(b) \subseteq filled \cup checker[b].seen \cup {NoBatch}
        /\ \A b \in Batches : Gift(b) => checker[b].row \in filled \cap rationaled

\* A bought batch that no save takes back: what the mail has announced is one, once it is saved.
Keeps(c) ==
    /\ c \in bought \cap filled
    /\ \A b \in ChecksBusy : c \in checker[b].seen \/ c \notin ToSave(b)
MailInv ==
    crashes = 0 =>
        /\ mails <= 1
        /\ mails = 0 => \A b \in Batches : ~Gift(b)
        /\ mails = 1 => (\E c \in Batches : Keeps(c)) \/ (\E b \in Batches : Gift(b))

\* Before a sale, the rows that are being filled are new, and a check knows what is bought.
Unsold ==
    NoSaleYet =>
        /\ \A q \in MakersBusy : maker[q].row \notin visible \cup bought
        /\ \A b \in ChecksBusy : bought \cap ToSave(b) \subseteq checker[b].seen
\* ... and a batch that has its rationales is on its way to a check unless one is bought.
OnItsWay(b) ==
    \/ bought # {}
    \/ checker[b].pc \in {"rationales", "phrases"}
    \/ checker[b].pc \in {"loop", "save"} /\ b \in checker[b].todo
    \/ \E c \in Batches : Gift(c)
Served ==
    NoSaleYet /\ MailsSent /\ crashes = 0 =>
        \A b \in rationaled :
            checker[b].pc \in {"rationales", "phrases", "loop", "save", "done"} /\ OnItsWay(b)

Base == Work /\ IdsGiven /\ RowsKept /\ SentAfter /\ SavedOnce /\ NoStrays
First == Base /\ MailInv /\ Unsold /\ Served

LEMMA FirstInit == Init => First
<1> SUFFICES ASSUME Init PROVE First
  OBVIOUS
<1>1. /\ rows = {} /\ filled = {} /\ rationaled = {} /\ bought = {} /\ mails = 0 /\ lastId = 0
      /\ \A b \in Batches : checker[b] = Off /\ rationales[b] = "none"
      /\ \A e \in Events : event[e] = Idle
      /\ \A q \in Makers : maker[q].pc # "making"
  BY DEF Init, Sent
<1>2. \A e \in Events : maker[e].pc = "none"
  BY EventAssumption DEF Init, Makers, Sent
<1>3. MakersBusy = {} /\ ChecksBusy = {}
  BY <1>1 DEF MakersBusy, ChecksBusy, Off
<1>4. Work
  BY <1>3 DEF Work, OneAtWork, OneMaker, SeenHeld
<1>5. IdsGiven /\ RowsKept /\ SentAfter /\ SavedOnce
  BY <1>1, <1>2, <1>3, BatchIds DEF IdsGiven, RowsKept, SentAfter, SavedOnce, ToSave, Off, Idle, NoBatch
<1>6. NoStrays /\ MailInv /\ Unsold /\ Served
  BY <1>1, <1>3 DEF NoStrays, MailInv, Unsold, Served, Gift, Off
<1> QED BY <1>4, <1>5, <1>6 DEF First, Base

\* The ids are natural numbers.
LEMMA DeliveryIds ==
  ASSUME TypeOK
  PROVE  /\ lastId \in Nat /\ mails \in Nat /\ crashes \in Nat /\ Batches \subseteq Nat /\ 0 \in Nat
         /\ rows \subseteq Batches /\ visible \subseteq rows /\ bought \subseteq rows
         /\ filled \subseteq Batches
         /\ \A b \in Batches : /\ ToSave(b) \subseteq Batches \cup {NoBatch}
                               /\ checker[b].todo \subseteq Batches
                               /\ checker[b].row # NoBatch <=> checker[b].pc = "save"
         /\ \A q \in MakersBusy : maker[q].row \in Batches
         /\ \A e \in Events : /\ event[e].row \in Batches \cup {NoBatch}
                              /\ event[e].row # NoBatch <=> event[e].pc = "sell"
<1>1. RowsOK /\ ChecksOK /\ MakersOK /\ WebOK
  BY DEF TypeOK
<1>2. \A b \in Batches : /\ ToSave(b) \subseteq Batches \cup {NoBatch}
                         /\ checker[b].todo \subseteq Batches
                         /\ checker[b].row # NoBatch <=> checker[b].pc = "save"
  BY <1>1 DEF ToSave, ChecksOK, Checker
<1>3. \A q \in MakersBusy : maker[q].row \in Batches
  BY <1>1 DEF MakersBusy, MakersOK, Maker
<1>4. \A e \in Events : /\ event[e].row \in Batches \cup {NoBatch}
                        /\ event[e].row # NoBatch <=> event[e].pc = "sell"
  BY <1>1 DEF WebOK, Request
<1> QED BY <1>1, <1>2, <1>3, <1>4, BatchAssumption DEF RowsOK

\* A step that moves no check and changes none of the batches' data.
LEMMA FirstQuiet ==
  ASSUME TypeOK, TypeOK', First,
         UNCHANGED <<lastId, rows, visible, bought, filled, rationaled, rationales, checker, mails,
                     crashes>>,
         \A q \in Makers : maker'[q] = maker[q] \/ (maker[q].pc # "making" /\ maker'[q].pc # "making"),
         \A e \in Events : \/ event'[e] = event[e] /\ maker'[e] = maker[e]
                           \/ /\ event'[e].pc # "idle"
                              /\ event'[e].row \in rows \cup {NoBatch, event[e].row}
                              /\ event'[e].pc \in {"count", "compare", "pick"} => maker'[e].pc = "none"
  PROVE  First'
<1>1. Base /\ MailInv /\ Unsold /\ Served
  BY DEF First
<1>2. MakersBusy' = MakersBusy /\ ChecksBusy' = ChecksBusy /\ \A q \in MakersBusy : maker'[q] = maker[q]
  BY DEF MakersBusy, ChecksBusy
<1>3. (NoSaleYet' => NoSaleYet) /\ MailsSent' = MailsSent
  BY DEF NoSaleYet, MailsSent
<1>4. (\A b : ToSave(b)' = ToSave(b) /\ Gift(b)' = Gift(b))
  BY DEF ToSave, Gift
<1>5. Work'
  BY <1>1, <1>2 DEF Base, Work, OneAtWork, OneMaker, SeenHeld
<1>6. IdsGiven'
  <2>1. ASSUME NEW e \in Events PROVE event'[e].row <= lastId
    <3>1. NoBatch <= lastId /\ \A c \in rows : c <= lastId
      BY <1>1, DeliveryIds DEF NoBatch, Base, IdsGiven
    <3> QED BY <1>1, <3>1 DEF Base, IdsGiven
  <2> QED BY <1>1, <1>4, <2>1 DEF Base, IdsGiven
<1>7. RowsKept' /\ SavedOnce'
  BY <1>1, <1>2 DEF Base, RowsKept, SavedOnce
<1>8. SentAfter'
  BY <1>1 DEF Base, SentAfter
<1>9. NoStrays'
  BY <1>1, <1>2, <1>4 DEF Base, NoStrays
<1>10. MailInv'
  BY <1>1, <1>2, <1>4 DEF MailInv, Keeps
<1>11. Unsold' /\ Served'
  BY <1>1, <1>2, <1>3, <1>4 DEF Unsold, Served, OnItsWay
<1> QED BY <1>5, <1>6, <1>7, <1>8, <1>9, <1>10, <1>11 DEF First, Base

LEMMA FirstMake ==
  ASSUME Concurrency = 1, TypeOK, First, NEW q \in Makers, MakeRow(q)
  PROVE  First'
<1> DEFINE n == lastId + 1
<1>0. Base /\ MailInv /\ Unsold /\ Served
  BY DEF First
<1>1. /\ n \in Batches /\ lastId' = n /\ rows' = rows \cup {n}
      /\ UNCHANGED <<visible, bought, filled, rationaled, rationales, checker, event, mails, crashes>>
  BY DEF MakeRow, dataVars, webVars
<1>2. MakersBusy = {} /\ ChecksBusy = {}
  BY DeliveryFreeIdle DEF MakeRow
<1>3. /\ maker'[q].pc = "making" /\ maker'[q].row = n /\ maker[q].pc = "queued"
      /\ \A r \in Makers \ {q} : maker'[r] = maker[r]
  BY DEF MakeRow, TypeOK, MakersOK
<1>4. MakersBusy' = {q} /\ ChecksBusy' = {}
  BY <1>1, <1>2, <1>3 DEF MakersBusy, ChecksBusy
<1>5. \A b : ToSave(b)' = ToSave(b) /\ Gift(b)' = Gift(b)
  BY <1>1 DEF ToSave, Gift
<1>6. n \notin rows /\ n \notin filled /\ \A i \in Nat : i <= lastId => i <= n
  BY <1>0, DeliveryIds DEF Base, IdsGiven
<1> HIDE DEF n
<1>7. Work'
  BY <1>4 DEF Work, OneAtWork, OneMaker, SeenHeld
<1>8. IdsGiven'
  <2>1. n \in Nat /\ n <= n /\ NoBatch \in Nat
    BY <1>1, DeliveryIds DEF NoBatch
  <2>2. \A c \in (rows \cup filled)' : c <= n
    BY <1>0, <1>1, <1>6, <2>1, DeliveryIds DEF Base, IdsGiven
  <2>3. \A b \in Batches : \A c \in ToSave(b) : c <= n
    BY <1>0, <1>6, <2>1, DeliveryIds DEF Base, IdsGiven
  <2>4. \A e \in Events : event[e].row <= n
    BY <1>0, <1>6, <2>1, DeliveryIds DEF Base, IdsGiven
  <2> QED BY <1>1, <1>5, <2>2, <2>3, <2>4 DEF IdsGiven
<1>9. RowsKept' /\ SavedOnce'
  BY <1>0, <1>1, <1>3, <1>4, <1>6 DEF Base, RowsKept, SavedOnce
<1>10. SentAfter'
  <2>1. \A e \in Events : maker[e].pc = "none" => maker'[e] = maker[e]
    BY <1>3 DEF Makers
  <2> QED BY <1>0, <1>1, <2>1 DEF Base, SentAfter
<1>11. NoStrays'
  <2> SUFFICES ASSUME crashes = 0 PROVE NoStrays'
    BY <1>1 DEF NoStrays
  <2>1. ASSUME NEW c \in rows' PROVE c \in (filled \cup bought)' \/ \E r \in MakersBusy' : maker'[r].row = c
    <3>1. CASE c = n
      BY <1>3, <1>4, <3>1
    <3>2. CASE c \in rows
      BY <1>0, <1>1, <1>2, <3>2 DEF Base, NoStrays
    <3> QED BY <1>1, <2>1, <3>1, <3>2
  <2>2. \A b \in Batches : Gift(b)' => checker'[b].row \in (filled \cap rationaled)'
    BY <1>0, <1>1, <1>5 DEF Base, NoStrays
  <2> QED BY <1>4, <2>1, <2>2 DEF NoStrays
<1>12. MailInv'
  BY <1>0, <1>1, <1>2, <1>4, <1>5 DEF MailInv, Keeps
<1>13. Unsold'
  BY <1>1, <1>3, <1>4, <1>6, DeliveryIds DEF Unsold
<1>14. Served'
  BY <1>0, <1>1, <1>5 DEF Served, OnItsWay, NoSaleYet, MailsSent
<1> QED BY <1>7, <1>8, <1>9, <1>10, <1>11, <1>12, <1>13, <1>14 DEF First, Base

LEMMA FirstFill ==
  ASSUME TypeOK, First, NEW q \in Makers, FillRow(q)
  PROVE  First'
<1>0. Base /\ MailInv /\ Unsold /\ Served
  BY DEF First
<1> PICK n \in Batches : n = maker[q].row
  BY DEF FillRow, TypeOK, MakersOK, Maker
<1>1. /\ filled' = filled \cup {n}
      /\ UNCHANGED <<lastId, rows, visible, bought, rationaled, rationales, event, mails, crashes>>
  BY DEF FillRow, rowVars, webVars
<1>2. q \in MakersBusy /\ MakersBusy = {q} /\ ChecksBusy = {}
  <2>1. q \in MakersBusy
    BY DEF FillRow, MakersBusy
  <2> QED BY <1>0, <2>1 DEF Base, Work, OneAtWork, OneMaker
<1>3. n \in rows \ filled
  BY <1>0, <1>2, DeliveryIds DEF Base, RowsKept
<1>4. /\ \A r \in Makers : maker'[r].pc # "making" \/ (r # q /\ maker'[r] = maker[r])
      /\ \A e \in Events : maker[e].pc = "none" => maker'[e] = maker[e]
  <2>1. \A r \in Makers :
            maker'[r] = IF r = q THEN [pc |-> "ended", row |-> NoBatch]
                        ELSE IF q = "first" /\ r = "additional" THEN Sent ELSE maker[r]
    BY DEF FillRow
  <2>2. Sent.pc # "making" /\ maker[q].pc = "making"
    BY DEF Sent, FillRow
  <2> QED BY <2>1, <2>2, EventAssumption DEF Makers
<1>5. checker[n].pc = "none" /\ rationales[n] = "none" /\ n \notin rationaled
  BY <1>0, <1>3 DEF Base, SentAfter
<1>6. /\ checker'[n] = [Off EXCEPT !.pc = "delegate"]
      /\ \A b \in Batches \ {n} : checker'[b] = checker[b]
  BY <1>3 DEF FillRow, TypeOK, ChecksOK
<1>7. MakersBusy' = {} /\ ChecksBusy' = {}
  BY <1>2, <1>4, <1>6 DEF MakersBusy, ChecksBusy, Off
<1>8. /\ checker'[n].pc = "delegate" /\ ToSave(n)' = {NoBatch} /\ ~Gift(n)'
      /\ checker'[n].row = NoBatch /\ checker'[n].todo = {}
  BY <1>6 DEF ToSave, Gift, Off
<1>9. \A b \in Batches : ~Gift(b) /\ ~Gift(b)'
  BY <1>2, <1>6, <1>8 DEF Gift, ChecksBusy
<1>10. \A b \in Batches \ {n} : ToSave(b)' = ToSave(b)
  BY <1>6 DEF ToSave
<1>11. Work'
  BY <1>7 DEF Work, OneAtWork, OneMaker, SeenHeld
<1>12. IdsGiven'
  <2>1. NoBatch <= lastId
    BY DeliveryIds DEF NoBatch
  <2>2. \A b \in Batches : \A c \in ToSave(b)' : c <= lastId
    BY <1>0, <1>8, <1>10, <2>1 DEF Base, IdsGiven
  <2> QED BY <1>0, <1>1, <1>3, <2>2 DEF Base, IdsGiven
<1>13. RowsKept'
  BY <1>0, <1>1, <1>3, <1>7 DEF Base, RowsKept
<1>14. SentAfter'
  <2>1. \A b \in Batches \ filled' :
            checker'[b].pc = "none" /\ rationales'[b] = "none" /\ b \notin rationaled'
    BY <1>0, <1>1, <1>6 DEF Base, SentAfter
  <2>2. \A b \in Batches : rationales'[b] = "queued" => checker'[b].pc = "rationales"
    BY <1>0, <1>1, <1>5, <1>6 DEF Base, SentAfter
  <2> QED BY <1>0, <1>1, <1>4, <2>1, <2>2 DEF Base, SentAfter
<1>15. SavedOnce'
  BY <1>0, <1>6, <1>8 DEF Base, SavedOnce
<1>16. NoStrays'
  BY <1>0, <1>1, <1>2, <1>7, <1>9 DEF Base, NoStrays
<1>17. MailInv'
  <2>1. ASSUME NEW c \in Batches, Keeps(c) PROVE Keeps(c)'
    BY <1>1, <1>7, <2>1 DEF Keeps
  <2> QED BY <1>0, <1>1, <1>9, <2>1 DEF MailInv
<1>18. Unsold'
  BY <1>7 DEF Unsold
<1>19. Served'
  <2>1. NoSaleYet' = NoSaleYet /\ (MailsSent' => MailsSent)
    BY <1>1, <1>5, <1>6 DEF NoSaleYet, MailsSent
  <2>2. rationaled \subseteq Batches \ {n}
    BY <1>5 DEF TypeOK, RowsOK
  <2> QED BY <1>0, <1>1, <1>6, <1>9, <2>1, <2>2 DEF Served, OnItsWay
<1> QED BY <1>11, <1>12, <1>13, <1>14, <1>15, <1>16, <1>17, <1>18, <1>19 DEF First, Base

LEMMA FirstDelete ==
  ASSUME TypeOK, First, NEW q \in Makers, DeleteRow(q)
  PROVE  First'
<1>0. Base /\ MailInv /\ Unsold /\ Served
  BY DEF First
<1> PICK n \in Batches : n = maker[q].row
  BY DEF DeleteRow, TypeOK, MakersOK, Maker
<1>1. /\ rows' = rows \ {n} /\ visible' = visible \ {n} /\ bought' = bought \ {n}
      /\ UNCHANGED <<lastId, filled, rationaled, rationales, checker, event, mails, crashes>>
  BY DEF DeleteRow, dataVars, webVars
<1>2. q \in MakersBusy /\ MakersBusy = {q} /\ ChecksBusy = {}
  <2>1. q \in MakersBusy
    BY DEF DeleteRow, MakersBusy
  <2> QED BY <1>0, <2>1 DEF Base, Work, OneAtWork, OneMaker
<1>3. n \in rows \ filled
  BY <1>0, <1>2, DeliveryIds DEF Base, RowsKept
<1>4. maker'[q].pc = "queued" /\ maker[q].pc = "making" /\ \A r \in Makers \ {q} : maker'[r] = maker[r]
  BY DEF DeleteRow, TypeOK, MakersOK, Sent
<1>5. MakersBusy' = {} /\ ChecksBusy' = {}
  BY <1>1, <1>2, <1>4 DEF MakersBusy, ChecksBusy
<1>6. \A b : ToSave(b)' = ToSave(b) /\ Gift(b)' = Gift(b)
  BY <1>1 DEF ToSave, Gift
<1>7. \A b \in Batches : ~Gift(b)
  BY <1>2 DEF Gift, ChecksBusy
<1>8. Work'
  BY <1>5 DEF Work, OneAtWork, OneMaker, SeenHeld
<1>9. IdsGiven' /\ RowsKept' /\ SavedOnce'
  BY <1>0, <1>1, <1>3, <1>5, <1>6 DEF Base, IdsGiven, RowsKept, SavedOnce
<1>10. SentAfter'
  <2>1. \A e \in Events : maker[e].pc = "none" => maker'[e] = maker[e]
    BY <1>4 DEF Makers
  <2> QED BY <1>0, <1>1, <2>1 DEF Base, SentAfter
<1>11. NoStrays'
  BY <1>0, <1>1, <1>2, <1>5, <1>7, <1>6 DEF Base, NoStrays
<1>12. MailInv'
  <2>1. ASSUME NEW c \in Batches, Keeps(c) PROVE Keeps(c)'
    BY <1>1, <1>3, <1>5, <2>1 DEF Keeps
  <2> QED BY <1>0, <1>1, <1>6, <2>1 DEF MailInv
<1>13. Unsold'
  BY <1>5 DEF Unsold
<1>14. Served'
  <2>1. NoSaleYet => n \notin bought
    BY <1>0, <1>2 DEF Unsold
  <2>2. NoSaleYet' = NoSaleYet /\ MailsSent' = MailsSent
    BY <1>1 DEF NoSaleYet, MailsSent
  <2> QED BY <1>0, <1>1, <1>6, <2>1, <2>2 DEF Served, OnItsWay
<1> QED BY <1>8, <1>9, <1>10, <1>11, <1>12, <1>13, <1>14 DEF First, Base

LEMMA FirstDelegate ==
  ASSUME Concurrency = 1, TypeOK, First, NEW b \in Batches, Delegate(b)
  PROVE  First'
<1>0. Base /\ MailInv /\ Unsold /\ Served
  BY DEF First
<1>1. /\ UNCHANGED <<lastId, rows, visible, bought, filled, rationaled, maker, event, mails, crashes>>
      /\ rationales'[b] = "queued" /\ \A c \in Batches \ {b} : rationales'[c] = rationales[c]
  BY DEF Delegate, rowVars, dataVars, webVars, TypeOK, ChecksOK
<1>2. /\ checker[b].pc = "delegate" /\ checker'[b] = [checker[b] EXCEPT !.pc = "rationales"]
      /\ \A c \in Batches \ {b} : checker'[c] = checker[c]
  BY DEF Delegate, TypeOK, ChecksOK
<1>3. /\ checker'[b].pc = "rationales" /\ checker'[b].todo = checker[b].todo
      /\ checker'[b].row = checker[b].row
  BY <1>2 DEF TypeOK, ChecksOK, Checker
<1>4. b \in filled
  BY <1>0, <1>2 DEF Base, SentAfter
<1>5. /\ MakersBusy' = MakersBusy /\ ChecksBusy' = ChecksBusy
      /\ \A c \in ChecksBusy : checker'[c] = checker[c]
  BY <1>1, <1>2, <1>3 DEF MakersBusy, ChecksBusy
<1>6. \A c \in Batches : ToSave(c)' = ToSave(c) /\ Gift(c)' = Gift(c)
  BY <1>2, <1>3 DEF ToSave, Gift
<1>7. Work'
  BY <1>0, <1>1, <1>5 DEF Base, Work, OneAtWork, OneMaker, SeenHeld
<1>8. IdsGiven' /\ RowsKept' /\ SavedOnce'
  BY <1>0, <1>1, <1>2, <1>3, <1>5, <1>6 DEF Base, IdsGiven, RowsKept, SavedOnce
<1>9. SentAfter'
  <2>1. \A c \in Batches \ filled :
            checker'[c].pc = "none" /\ rationales'[c] = "none" /\ c \notin rationaled
    BY <1>0, <1>1, <1>2, <1>4 DEF Base, SentAfter
  <2>2. \A c \in Batches : rationales'[c] = "queued" => checker'[c].pc = "rationales"
    <3> TAKE c \in Batches
    <3>1. CASE c = b
      BY <1>3, <3>1
    <3>2. CASE c # b
      BY <1>0, <1>1, <1>2, <3>2 DEF Base, SentAfter
    <3> QED BY <3>1, <3>2
  <2> QED BY <1>0, <1>1, <2>1, <2>2 DEF Base, SentAfter
<1>10. NoStrays'
  <2>1. \A c \in Batches : Gift(c) => checker'[c].row = checker[c].row
    BY <1>2, <1>3
  <2> QED BY <1>0, <1>1, <1>5, <1>6, <2>1 DEF Base, NoStrays, ChecksBusy
<1>11. MailInv'
  <2>1. ASSUME NEW c \in Batches, Keeps(c) PROVE Keeps(c)'
    BY <1>1, <1>5, <1>6, <2>1 DEF Keeps, ChecksBusy
  <2> QED BY <1>0, <1>1, <1>6, <2>1 DEF MailInv
<1>12. Unsold'
  BY <1>0, <1>1, <1>5, <1>6 DEF Unsold, NoSaleYet, ChecksBusy
<1>13. Served'
  <2>1. NoSaleYet' = NoSaleYet /\ (MailsSent' => MailsSent)
    BY <1>1, <1>2 DEF NoSaleYet, MailsSent
  <2>2. rationaled \subseteq Batches
    BY DEF TypeOK, RowsOK
  <2> QED BY <1>0, <1>1, <1>2, <1>3, <1>6, <2>1, <2>2 DEF Served, OnItsWay
<1> QED BY <1>7, <1>8, <1>9, <1>10, <1>11, <1>12, <1>13 DEF First, Base

LEMMA FirstRationales ==
  ASSUME TypeOK, First, NEW b \in Batches, GenerateRationales(b)
  PROVE  First'
<1>0. Base /\ MailInv /\ Unsold /\ Served
  BY DEF First
<1>1. /\ UNCHANGED <<lastId, rows, visible, bought, filled, maker, checker, event, mails, crashes>>
      /\ rationales[b] = "queued" /\ rationales'[b] = "ended"
      /\ \A c \in Batches \ {b} : rationales'[c] = rationales[c]
      /\ rationaled \subseteq rationaled' /\ rationaled' \subseteq rationaled \cup {b}
  BY DEF GenerateRationales, rowVars, webVars, TypeOK, ChecksOK
<1>2. b \in filled /\ checker[b].pc = "rationales"
  BY <1>0, <1>1 DEF Base, SentAfter
<1>3. MakersBusy' = MakersBusy /\ ChecksBusy' = ChecksBusy
  BY <1>1 DEF MakersBusy, ChecksBusy
<1>4. \A c : ToSave(c)' = ToSave(c) /\ Gift(c)' = Gift(c)
  BY <1>1 DEF ToSave, Gift
<1>5. Work' /\ IdsGiven' /\ RowsKept' /\ SavedOnce'
  BY <1>0, <1>1, <1>3, <1>4 DEF Base, Work, OneAtWork, OneMaker, SeenHeld, IdsGiven, RowsKept, SavedOnce
<1>6. SentAfter'
  BY <1>0, <1>1, <1>2 DEF Base, SentAfter
<1>7. NoStrays' /\ MailInv' /\ Unsold'
  BY <1>0, <1>1, <1>3, <1>4 DEF Base, NoStrays, MailInv, Keeps, Unsold, NoSaleYet
<1>8. Served'
  BY <1>0, <1>1, <1>2, <1>4 DEF Served, OnItsWay, NoSaleYet, MailsSent
<1> QED BY <1>5, <1>6, <1>7, <1>8 DEF First, Base

\* A check that goes on or ends without having anything left to write.
LEMMA FirstGoesOn ==
  ASSUME TypeOK, First, NEW b \in Batches, CheckRationales(b) \/ MailFails(b) \/ EndCheck(b)
  PROVE  First'
<1>0. Base /\ MailInv /\ Unsold /\ Served
  BY DEF First
<1>1. UNCHANGED <<lastId, rows, visible, bought, filled, rationaled, rationales, maker, event, mails,
                  crashes>>
  BY DEF CheckRationales, MailFails, EndCheck, rowVars, dataVars, webVars
<1>2. /\ checker[b].pc \in {"rationales", "loop"}
      /\ checker'[b].pc \in {"phrases", "failed", "done"}
      /\ checker'[b].pc = "phrases" => checker[b].pc = "rationales"
      /\ checker'[b].pc = "done" => checker[b].pc = "loop" /\ checker[b].todo = {}
      /\ \A c \in Batches \ {b} : checker'[c] = checker[c]
  BY DEF CheckRationales, MailFails, EndCheck, TypeOK, ChecksOK, Checker, Off
<1>3. checker'[b].todo \subseteq checker[b].todo /\ checker'[b].row = NoBatch
  BY DEF CheckRationales, MailFails, EndCheck, TypeOK, ChecksOK, Checker, Off
<1>4. b \in filled /\ (rationales[b] = "queued" => checker'[b].pc # "phrases")
  <2>1. CASE CheckRationales(b)
    BY <1>0, <1>2, <2>1 DEF CheckRationales, Ready, Base, SentAfter
  <2>2. CASE checker'[b].pc # "phrases"
    BY <1>0, <1>2, <2>2 DEF Base, SentAfter
  <2>3. CASE MailFails(b) \/ EndCheck(b)
    BY <1>2, <2>2, <2>3 DEF MailFails, EndCheck
  <2> QED BY <2>1, <2>3
<1>5. rationales[b] # "queued"
  <2>1. CASE CheckRationales(b)
    BY <2>1 DEF CheckRationales, Ready
  <2>2. CASE MailFails(b) \/ EndCheck(b)
    BY <1>0, <2>2 DEF MailFails, EndCheck, Base, SentAfter
  <2> QED BY <2>1, <2>2
<1>6. /\ MakersBusy' = MakersBusy /\ ChecksBusy' \subseteq ChecksBusy
      /\ \A c \in ChecksBusy' : checker'[c] = checker[c]
  BY <1>1, <1>2 DEF MakersBusy, ChecksBusy
<1>7. /\ \A c \in Batches : ToSave(c)' \subseteq ToSave(c) \cup {NoBatch} /\ Gift(c)' = Gift(c)
      /\ \A c \in ChecksBusy' : ToSave(c)' = ToSave(c)
      /\ \A c \in Batches : Gift(c) => checker'[c] = checker[c]
  BY <1>2, <1>3, <1>6 DEF ToSave, Gift
<1>8. Work'
  BY <1>0, <1>1, <1>6 DEF Base, Work, OneAtWork, OneMaker, SeenHeld
<1>9. IdsGiven'
  <2>1. NoBatch <= lastId
    BY DeliveryIds DEF NoBatch
  <2> QED BY <1>0, <1>1, <1>7, <2>1 DEF Base, IdsGiven
<1>10. RowsKept' /\ SentAfter'
  BY <1>0, <1>1, <1>2, <1>4, <1>5, <1>6 DEF Base, RowsKept, SentAfter
<1>11. SavedOnce'
  BY <1>0, <1>2, <1>3, DeliveryIds, BatchIds DEF Base, SavedOnce
<1>12. NoStrays'
  BY <1>0, <1>1, <1>6, <1>7 DEF Base, NoStrays
<1>13. MailInv'
  <2>1. ASSUME NEW c \in Batches, Keeps(c) PROVE Keeps(c)'
    BY <1>1, <1>6, <1>7, <2>1 DEF Keeps
  <2> QED BY <1>0, <1>1, <1>7, <2>1 DEF MailInv
<1>14. Unsold'
  BY <1>0, <1>1, <1>6, <1>7 DEF Unsold, NoSaleYet
<1>15. Served'
  <2> SUFFICES ASSUME NoSaleYet, MailsSent', crashes = 0, NEW c \in rationaled
               PROVE  /\ checker'[c].pc \in {"rationales", "phrases", "loop", "save", "done"}
                      /\ OnItsWay(c)'
    BY <1>1 DEF Served, NoSaleYet
  <2>1. MailsSent /\ checker'[b].pc # "failed"
    BY <1>2 DEF MailsSent
  <2>2. c \in Batches /\ checker[c].pc \in {"rationales", "phrases", "loop", "save", "done"} /\ OnItsWay(c)
    BY <1>0, <2>1 DEF Served, TypeOK, RowsOK
  <2>3. CASE c = b /\ checker'[b].pc = "phrases"
    BY <2>3 DEF OnItsWay
  <2>4. CASE c = b /\ checker'[b].pc = "done"
    <3>1. checker[b].pc = "loop" /\ checker[b].todo = {}
      BY <1>2, <2>4
    <3> QED BY <1>1, <1>7, <2>2, <2>4, <3>1 DEF OnItsWay
  <2>5. CASE c # b
    BY <1>1, <1>2, <1>7, <2>2, <2>5 DEF OnItsWay
  <2> QED BY <1>2, <2>1, <2>3, <2>4, <2>5
<1> QED BY <1>8, <1>9, <1>10, <1>11, <1>12, <1>13, <1>14, <1>15 DEF First, Base

LEMMA FirstRead ==
  ASSUME Concurrency = 1, TypeOK, First, NEW b \in Batches, CheckPhrases(b)
  PROVE  First'
<1>0. Base /\ MailInv /\ Unsold /\ Served
  BY DEF First
<1>1. /\ UNCHANGED <<lastId, rows, visible, bought, filled, rationaled, rationales, maker, event, mails,
                     crashes>>
      /\ checker[b].pc = "phrases" /\ rationales[b] = "ended"
  BY DEF CheckPhrases, Ready, rowVars, dataVars, webVars
<1>2. /\ checker'[b].pc = "loop" /\ checker'[b].todo = rows /\ checker'[b].seen = bought
      /\ checker'[b].row = NoBatch
      /\ \A c \in Batches \ {b} : checker'[c] = checker[c]
  BY DEF CheckPhrases, TypeOK, ChecksOK
<1>3. MakersBusy = {} /\ ChecksBusy = {}
  BY DeliveryFreeIdle DEF CheckPhrases
<1>4. MakersBusy' = {} /\ ChecksBusy' = {b}
  BY <1>1, <1>2, <1>3 DEF MakersBusy, ChecksBusy
<1>5. /\ ToSave(b)' = rows \cup {NoBatch}
      /\ \A c \in Batches \ {b} : ToSave(c)' = ToSave(c)
      /\ \A c \in Batches : ~Gift(c) /\ ~Gift(c)'
  BY <1>2, <1>3 DEF ToSave, Gift, ChecksBusy
<1>6. Work'
  BY <1>1, <1>2, <1>4 DEF Work, OneAtWork, OneMaker, SeenHeld
<1>7. IdsGiven'
  <2>1. NoBatch <= lastId
    BY DeliveryIds DEF NoBatch
  <2> QED BY <1>0, <1>1, <1>5, <2>1 DEF Base, IdsGiven
<1>8. RowsKept'
  BY <1>0, <1>1, <1>4 DEF Base, RowsKept
<1>9. SentAfter'
  <2>1. b \in filled
    BY <1>0, <1>1 DEF Base, SentAfter
  <2> QED BY <1>0, <1>1, <1>2, <2>1 DEF Base, SentAfter
<1>10. SavedOnce'
  BY <1>0, <1>2, DeliveryIds, BatchIds DEF Base, SavedOnce
<1>11. NoStrays'
  BY <1>0, <1>1, <1>2, <1>3, <1>4, <1>5 DEF Base, NoStrays
<1>12. MailInv'
  <2>1. ASSUME NEW c \in Batches, Keeps(c) PROVE Keeps(c)'
    BY <1>1, <1>2, <1>4, <2>1 DEF Keeps
  <2> QED BY <1>0, <1>1, <1>5, <2>1 DEF MailInv
<1>13. Unsold'
  BY <1>1, <1>2, <1>4 DEF Unsold
<1>14. Served'
  <2> SUFFICES ASSUME NoSaleYet, MailsSent', crashes = 0, NEW c \in rationaled
               PROVE  /\ checker'[c].pc \in {"rationales", "phrases", "loop", "save", "done"}
                      /\ OnItsWay(c)'
    BY <1>1 DEF Served, NoSaleYet
  <2>1. MailsSent
    BY <1>1, <1>2 DEF MailsSent
  <2>2. c \in Batches /\ checker[c].pc \in {"rationales", "phrases", "loop", "save", "done"} /\ OnItsWay(c)
    BY <1>0, <2>1 DEF Served, TypeOK, RowsOK
  <2>3. CASE c = b
    <3>1. b \in rows
      BY <1>0, <1>1 DEF Base, SentAfter, RowsKept
    <3> QED BY <1>2, <2>3, <3>1 DEF OnItsWay
  <2>4. CASE c # b
    BY <1>1, <1>2, <1>5, <2>2, <2>4 DEF OnItsWay
  <2> QED BY <2>3, <2>4
<1> QED BY <1>6, <1>7, <1>8, <1>9, <1>10, <1>11, <1>12, <1>13, <1>14 DEF First, Base

LEMMA FirstDecide ==
  ASSUME TypeOK, First, NEW b \in Batches, Decide(b)
  PROVE  First'
<1>0. Base /\ MailInv /\ Unsold /\ Served
  BY DEF First
<1>1. UNCHANGED <<lastId, rows, visible, bought, filled, rationaled, rationales, maker, event, crashes>>
  BY DEF Decide, rowVars, dataVars, webVars
<1>2. PICK c \in checker[b].todo, buy \in BOOLEAN :
            /\ checker' = [checker EXCEPT ![b] =
                 [checker[b] EXCEPT !.pc = "save", !.row = c, !.buy = buy,
                                    !.todo = checker[b].todo \ {c}]]
            /\ mails' = IF buy THEN mails + 1 ELSE mails
            /\ buy <=> NoEmptyRationale(c) /\ bought = {}
  BY DecideRecord
<1>3. /\ checker[b].pc = "loop" /\ checker[b].row = NoBatch
      /\ c \in Batches
  BY DeliveryIds DEF Decide
<1>4. /\ checker'[b].pc = "save" /\ checker'[b].row = c /\ checker'[b].buy = buy
      /\ checker'[b].todo = checker[b].todo \ {c} /\ checker'[b].seen = checker[b].seen
      /\ \A d \in Batches \ {b} : checker'[d] = checker[d]
  BY <1>2 DEF TypeOK, ChecksOK, Checker
<1>5. b \in ChecksBusy /\ ChecksBusy = {b} /\ MakersBusy = {}
  <2>1. b \in ChecksBusy
    BY <1>3 DEF ChecksBusy
  <2> QED BY <1>0, <2>1 DEF Base, Work, OneAtWork
<1>6. MakersBusy' = {} /\ ChecksBusy' = {b}
  BY <1>1, <1>4, <1>5 DEF MakersBusy, ChecksBusy
<1>7. /\ ToSave(b) = ToSave(b)' \cup {NoBatch}
      /\ \A d \in Batches \ {b} : ToSave(d)' = ToSave(d)
  BY <1>2, <1>3, <1>4 DEF ToSave
<1>8. (\A d \in Batches : ~Gift(d)) /\ \A d \in Batches : Gift(d)' <=> (d = b /\ buy)
  BY <1>3, <1>4, <1>5 DEF Gift, ChecksBusy
<1>9. Work' /\ IdsGiven' /\ RowsKept'
  BY <1>0, <1>1, <1>4, <1>5, <1>6, <1>7 DEF Base, Work, OneAtWork, OneMaker, SeenHeld, IdsGiven, RowsKept
<1>10. SentAfter'
  <2>1. b \in filled /\ rationales[b] # "queued"
    BY <1>0, <1>3 DEF Base, SentAfter
  <2> QED BY <1>0, <1>1, <1>4, <2>1 DEF Base, SentAfter
<1>11. SavedOnce'
  BY <1>0, <1>4 DEF Base, SavedOnce
<1>12. NoStrays'
  <2> SUFFICES ASSUME crashes = 0 PROVE NoStrays'
    BY <1>1 DEF NoStrays
  <2>1. ToSave(b) \subseteq filled \cup checker[b].seen \cup {NoBatch} /\ checker[b].seen \subseteq bought
    BY <1>0, <1>5 DEF Base, Work, SeenHeld, NoStrays
  <2>2. \A d \in ChecksBusy' : ToSave(d)' \subseteq (filled \cup checker[d].seen)' \cup {NoBatch}
    BY <1>1, <1>4, <1>6, <1>7, <2>1
  <2>3. ASSUME buy PROVE c \in filled \cap rationaled
    <3>1. bought = {} /\ NoEmptyRationale(c)
      BY <1>2, <2>3
    <3>2. c \in filled
      BY <1>3, <2>1, <3>1, BatchIds DEF ToSave
    <3> QED BY <3>1, <3>2 DEF NoEmptyRationale
  <2>4. \A d \in Batches : Gift(d)' => checker'[d].row \in (filled \cap rationaled)'
    BY <1>1, <1>4, <1>8, <2>3
  <2>5. \A d \in rows' : d \in (filled \cup bought)' \/ \E r \in MakersBusy' : maker'[r].row = d
    BY <1>0, <1>1, <1>5 DEF Base, NoStrays
  <2> QED BY <2>2, <2>4, <2>5 DEF NoStrays
<1>13. MailInv'
  <2> SUFFICES ASSUME crashes = 0 PROVE MailInv'
    BY <1>1 DEF MailInv
  <2>1. mails \in Nat /\ mails <= 1 /\ (mails = 1 => \E d \in Batches : Keeps(d))
    BY <1>0, <1>8, DeliveryIds DEF MailInv
  <2>2. CASE buy
    <3>1. mails = 0
      BY <1>2, <2>1, <2>2 DEF Keeps
    <3>2. mails' = 1
      BY <1>2, <2>2, <3>1
    <3>3. Gift(b)'
      BY <1>8, <2>2
    <3> QED BY <3>2, <3>3 DEF MailInv
  <2>3. CASE ~buy
    <3>1. mails' = mails
      BY <1>2, <2>3
    <3>2. ASSUME NEW d \in Batches, Keeps(d) PROVE Keeps(d)'
      BY <1>1, <1>4, <1>5, <1>6, <1>7, <3>2 DEF Keeps
    <3> QED BY <1>1, <1>8, <2>1, <2>3, <3>1, <3>2 DEF MailInv
  <2> QED BY <2>2, <2>3
<1>14. Unsold'
  BY <1>0, <1>1, <1>4, <1>5, <1>6, <1>7 DEF Unsold, NoSaleYet
<1>15. Served'
  <2> SUFFICES ASSUME NoSaleYet, MailsSent', crashes = 0, NEW d \in rationaled
               PROVE  /\ checker'[d].pc \in {"rationales", "phrases", "loop", "save", "done"}
                      /\ OnItsWay(d)'
    BY <1>1 DEF Served, NoSaleYet
  <2>1. MailsSent
    BY <1>3, <1>4 DEF MailsSent
  <2>2. d \in Batches /\ checker[d].pc \in {"rationales", "phrases", "loop", "save", "done"} /\ OnItsWay(d)
    BY <1>0, <2>1 DEF Served, TypeOK, RowsOK
  <2>3. CASE bought # {}
    BY <1>1, <1>4, <2>2, <2>3 DEF OnItsWay
  <2>4. CASE bought = {} /\ d = b
    <3>1. b \in checker[b].todo
      BY <1>3, <1>8, <2>2, <2>4 DEF OnItsWay
    <3>2. CASE c = b
      <4>1. NoEmptyRationale(c)
        BY <2>4, <3>2 DEF NoEmptyRationale
      <4>2. Gift(b)'
        BY <1>2, <1>8, <2>4, <4>1
      <4> QED BY <1>4, <2>4, <4>2 DEF OnItsWay
    <3>3. CASE c # b
      BY <1>4, <2>4, <3>1, <3>3 DEF OnItsWay
    <3> QED BY <3>2, <3>3
  <2>5. CASE bought = {} /\ d # b
    BY <1>1, <1>4, <1>8, <2>2, <2>5 DEF OnItsWay
  <2> QED BY <2>3, <2>4, <2>5
<1> QED BY <1>9, <1>10, <1>11, <1>12, <1>13, <1>14, <1>15 DEF First, Base

LEMMA FirstSave ==
  ASSUME TypeOK, First, NEW b \in Batches, SaveBatch(b)
  PROVE  First'
<1>0. Base /\ MailInv /\ Unsold /\ Served
  BY DEF First
<1> PICK c \in Batches : c = checker[b].row
  BY DEF SaveBatch, TypeOK, ChecksOK, Checker
<1>1. /\ UNCHANGED <<lastId, filled, rationaled, rationales, maker, event, mails, crashes>>
      /\ rows' = rows \cup {c} /\ visible' = visible \cup {c}
      /\ bought' = IF checker[b].buy \/ c \in checker[b].seen THEN bought \cup {c} ELSE bought \ {c}
  BY DEF SaveBatch, dataVars, webVars
<1>2. checker[b].pc = "save" /\ b \in ChecksBusy /\ ChecksBusy = {b} /\ MakersBusy = {}
  <2>1. checker[b].pc = "save" /\ b \in ChecksBusy
    BY DEF SaveBatch, ChecksBusy
  <2> QED BY <1>0, <2>1 DEF Base, Work, OneAtWork
<1>3. /\ checker'[b].pc = "loop" /\ checker'[b].row = NoBatch /\ checker'[b].todo = checker[b].todo
      /\ checker'[b].seen = checker[b].seen
      /\ \A d \in Batches \ {b} : checker'[d] = checker[d]
  BY DEF SaveBatch, TypeOK, ChecksOK, Checker
<1>4. MakersBusy' = {} /\ ChecksBusy' = {b}
  BY <1>1, <1>2, <1>3 DEF MakersBusy, ChecksBusy
<1>5. /\ ToSave(b) = checker[b].todo \cup {c} /\ ToSave(b)' = checker[b].todo \cup {NoBatch}
      /\ c \notin ToSave(b)'
      /\ \A d \in Batches \ {b} : ToSave(d)' = ToSave(d)
  BY <1>0, <1>3, BatchIds DEF ToSave, Base, SavedOnce
<1>6. \A d \in Batches : ~Gift(d)' /\ (Gift(d) => d = b /\ checker[b].buy)
  BY <1>2, <1>3 DEF Gift, ChecksBusy
<1>7. checker[b].seen \subseteq bought'
  BY <1>0, <1>1, <1>2 DEF Base, Work, SeenHeld
<1>8. Work'
  BY <1>3, <1>4, <1>7 DEF Work, OneAtWork, OneMaker, SeenHeld
<1>9. IdsGiven'
  <2>1. NoBatch <= lastId
    BY DeliveryIds DEF NoBatch
  <2> QED BY <1>0, <1>1, <1>5, <2>1 DEF Base, IdsGiven
<1>10. RowsKept'
  BY <1>0, <1>1, <1>4 DEF Base, RowsKept
<1>11. SentAfter'
  <2>1. b \in filled /\ rationales[b] # "queued"
    BY <1>0, <1>2 DEF Base, SentAfter
  <2> QED BY <1>0, <1>1, <1>3, <2>1 DEF Base, SentAfter
<1>12. SavedOnce'
  BY <1>0, <1>3, DeliveryIds, BatchIds DEF Base, SavedOnce
<1>13. NoStrays'
  <2> SUFFICES ASSUME crashes = 0 PROVE NoStrays'
    BY <1>1 DEF NoStrays
  <2>1. ToSave(b) \subseteq filled \cup checker[b].seen \cup {NoBatch}
    BY <1>0, <1>2 DEF Base, NoStrays
  <2>2. \A d \in rows : d \in filled \cup bought
    BY <1>0, <1>2 DEF Base, NoStrays
  <2>3. \A d \in rows' : d \in (filled \cup bought)'
    BY <1>1, <1>5, <1>7, <2>1, <2>2, BatchIds
  <2>4. \A d \in ChecksBusy' : ToSave(d)' \subseteq (filled \cup checker[d].seen)' \cup {NoBatch}
    BY <1>1, <1>3, <1>4, <1>5, <2>1
  <2> QED BY <1>6, <2>3, <2>4 DEF NoStrays
<1>14. MailInv'
  <2> SUFFICES ASSUME crashes = 0 PROVE MailInv'
    BY <1>1 DEF MailInv
  <2>1. ASSUME NEW d \in Batches, Keeps(d) PROVE Keeps(d)'
    <3>1. d \in bought' \cap filled'
      BY <1>1, <1>2, <1>5, <2>1 DEF Keeps
    <3> QED BY <1>2, <1>3, <1>4, <1>5, <2>1, <3>1, BatchIds DEF Keeps
  <2>2. ASSUME NEW d \in Batches, Gift(d) PROVE Keeps(c)'
    <3>1. c \in filled /\ c \in bought'
      BY <1>0, <1>1, <1>6, <2>2 DEF Base, NoStrays
    <3> QED BY <1>1, <1>4, <1>5, <3>1 DEF Keeps
  <2> QED BY <1>0, <1>1, <1>6, <2>1, <2>2 DEF MailInv
<1>15. Unsold'
  <2>1. NoSaleYet' = NoSaleYet
    BY <1>1 DEF NoSaleYet
  <2>2. bought' \subseteq bought \cup {c}
    BY <1>1
  <2> QED BY <1>0, <1>2, <1>3, <1>4, <1>5, <2>1, <2>2, DeliveryIds, BatchIds DEF Unsold
<1>16. Served'
  <2> SUFFICES ASSUME NoSaleYet, MailsSent', crashes = 0, NEW d \in rationaled
               PROVE  /\ checker'[d].pc \in {"rationales", "phrases", "loop", "save", "done"}
                      /\ OnItsWay(d)'
    BY <1>1 DEF Served, NoSaleYet
  <2>1. MailsSent
    BY <1>2, <1>3 DEF MailsSent
  <2>2. d \in Batches /\ checker[d].pc \in {"rationales", "phrases", "loop", "save", "done"} /\ OnItsWay(d)
    BY <1>0, <2>1 DEF Served, TypeOK, RowsOK
  <2>3. checker'[d].pc \in {"rationales", "phrases", "loop", "save", "done"}
    BY <1>3, <2>2
  <2>4. CASE bought # {}
    <3>1. bought \subseteq bought'
      BY <1>0, <1>1, <1>2, <1>5 DEF Unsold
    <3> QED BY <2>3, <2>4, <3>1 DEF OnItsWay
  <2>5. CASE \E e \in Batches : Gift(e)
    <3>1. c \in bought'
      BY <1>1, <1>6, <2>5
    <3> QED BY <2>3, <3>1 DEF OnItsWay
  <2>6. CASE bought = {} /\ ~\E e \in Batches : Gift(e)
    BY <1>2, <1>3, <2>2, <2>3, <2>6 DEF OnItsWay
  <2> QED BY <2>4, <2>5, <2>6
<1> QED BY <1>8, <1>9, <1>10, <1>11, <1>12, <1>13, <1>14, <1>15, <1>16 DEF First, Base

LEMMA FirstLose ==
  ASSUME TypeOK, First, Lose
  PROVE  First'
<1>0. Base /\ MailInv /\ Unsold /\ Served
  BY DEF First
<1>1. /\ UNCHANGED <<lastId, rows, visible, bought, filled, rationaled, event, mails>>
      /\ crashes' # 0
  BY DeliveryIds DEF Lose, rowVars, dataVars, webVars
<1>2. \A q \in Makers : maker'[q] = maker[q] \/ (maker[q].pc = "making" /\ maker'[q].pc = "lost")
  BY DEF Lose, TypeOK, MakersOK
<1>3. \A b \in Batches : rationales'[b] = rationales[b]
                         \/ (rationales[b] = "queued" /\ rationales'[b] = "lost")
  BY DEF Lose, TypeOK, ChecksOK
<1>4. \A b \in Batches :
        \/ checker'[b] = checker[b]
        \/ /\ checker[b].pc \in {"loop", "save"} /\ checker'[b].pc = "lost"
           /\ checker'[b].todo = {} /\ checker'[b].row = NoBatch
  BY DEF Lose, TypeOK, ChecksOK, Off
<1>5. /\ MakersBusy' \subseteq MakersBusy /\ ChecksBusy' \subseteq ChecksBusy
      /\ \A q \in MakersBusy' : maker'[q] = maker[q]
      /\ \A b \in ChecksBusy' : checker'[b] = checker[b]
  BY <1>2, <1>4 DEF MakersBusy, ChecksBusy
<1>6. \A b \in Batches : ToSave(b)' = ToSave(b) \/ ToSave(b)' = {NoBatch}
  BY <1>4 DEF ToSave
<1>7. \A b \in ChecksBusy' : ToSave(b)' = ToSave(b)
  BY <1>5 DEF ToSave
<1>8. Work'
  BY <1>0, <1>1, <1>5 DEF Base, Work, OneAtWork, OneMaker, SeenHeld
<1>9. IdsGiven'
  <2>1. NoBatch <= lastId
    BY DeliveryIds DEF NoBatch
  <2> QED BY <1>0, <1>1, <1>6, <2>1 DEF Base, IdsGiven
<1>10. RowsKept' /\ SavedOnce'
  BY <1>0, <1>1, <1>4, <1>5 DEF Base, RowsKept, SavedOnce
<1>11. SentAfter'
  <2>1. \A e \in Events : maker[e].pc = "none" => maker'[e] = maker[e]
    BY <1>2 DEF Makers
  <2> QED BY <1>0, <1>1, <1>3, <1>4, <2>1 DEF Base, SentAfter
<1>12. NoStrays' /\ MailInv' /\ Served'
  BY <1>1 DEF NoStrays, MailInv, Served
<1>13. Unsold'
  BY <1>0, <1>1, <1>5, <1>7 DEF Unsold, NoSaleYet
<1> QED BY <1>8, <1>9, <1>10, <1>11, <1>12, <1>13 DEF First, Base

LEMMA FirstSell ==
  ASSUME TypeOK, First, NEW e \in Events, SellBatch(e)
  PROVE  First'
<1>0. Base /\ MailInv /\ Unsold /\ Served
  BY DEF First
<1> PICK n \in Batches : n = event[e].row
  BY DEF SellBatch, TypeOK, WebOK, Request
<1>1. /\ UNCHANGED <<lastId, filled, rationaled, rationales, maker, checker, mails, crashes>>
      /\ rows' = rows \cup {n} /\ bought' = bought \cup {n}
  BY DEF SellBatch, dataVars, taskVars
<1>2. /\ event'[e].pc = "ended" /\ event'[e].row = NoBatch
      /\ \A d \in Events \ {e} : event'[d] = event[d]
  BY DEF SellBatch, TypeOK, WebOK, Idle
<1>3. ~NoSaleYet'
  BY <1>2 DEF NoSaleYet
<1>4. MakersBusy' = MakersBusy /\ ChecksBusy' = ChecksBusy
  BY <1>1 DEF MakersBusy, ChecksBusy
<1>5. \A b : ToSave(b)' = ToSave(b) /\ Gift(b)' = Gift(b)
  BY <1>1 DEF ToSave, Gift
<1>6. IdsGiven'
  <2>1. NoBatch <= lastId /\ n <= lastId
    BY <1>0, DeliveryIds DEF NoBatch, Base, IdsGiven
  <2> QED BY <1>0, <1>1, <1>2, <1>5, <2>1 DEF Base, IdsGiven
<1>7. Work' /\ RowsKept' /\ SavedOnce'
  BY <1>0, <1>1, <1>4 DEF Base, Work, OneAtWork, OneMaker, SeenHeld, RowsKept, SavedOnce
<1>8. SentAfter'
  BY <1>0, <1>1, <1>2 DEF Base, SentAfter
<1>9. NoStrays' /\ MailInv'
  BY <1>0, <1>1, <1>4, <1>5 DEF Base, NoStrays, MailInv, Keeps
<1> QED BY <1>3, <1>6, <1>7, <1>8, <1>9 DEF First, Base, Unsold, Served

\* The requests before their sale, the sessions and the phrases.
LEMMA FirstQuietSteps ==
  ASSUME TypeOK, TypeOK', First,
         \/ \E q \in Makers : StopChain(q)
         \/ \E b \in Batches : GeneratePhrases(b)
         \/ PayExperts
         \/ \E o \in Orders : BuyMore(o)
         \/ \E e \in Events : BuyMoreFree(e) \/ HandleEvent(e) \/ CountBought(e) \/ ComparePaid(e)
                                \/ PickBatch(e)
  PROVE  First'
<1>0. /\ event \in [Events -> Request] /\ maker \in [Makers -> Maker] /\ Events \subseteq Makers
      /\ SentAfter
  BY DEF TypeOK, WebOK, MakersOK, Makers, First, Base
<1>1. UNCHANGED <<lastId, rows, visible, bought, filled, rationaled, rationales, checker, mails, crashes>>
  BY DEF StopChain, GeneratePhrases, PayExperts, BuyMore, BuyMoreFree, HandleEvent, CountBought,
         ComparePaid, PickBatch, rowVars, dataVars, taskVars
<1>2. ASSUME NEW q \in Makers, StopChain(q) PROVE First'
  <2>1. /\ maker[q].pc = "queued" /\ maker'[q].pc = "ended" /\ event' = event
        /\ \A r \in Makers \ {q} : maker'[r] = maker[r]
    BY <1>0, <1>2 DEF StopChain, Maker, webVars
  <2>2. q \in Events => event[q].pc \notin {"idle", "count", "compare", "pick"}
    BY <1>0, <2>1 DEF SentAfter
  <2>3. ASSUME NEW e \in Events
        PROVE  \/ event'[e] = event[e] /\ maker'[e] = maker[e]
               \/ /\ event'[e].pc # "idle" /\ event'[e].row = event[e].row
                  /\ event'[e].pc \notin {"count", "compare", "pick"}
    BY <1>0, <2>1, <2>2
  <2>4. \A r \in Makers : maker'[r] = maker[r] \/ (maker[r].pc # "making" /\ maker'[r].pc # "making")
    BY <2>1
  <2> QED BY <1>1, <2>3, <2>4, FirstQuiet
<1>3. CASE \/ \E b \in Batches : GeneratePhrases(b)
           \/ PayExperts
           \/ \E o \in Orders : BuyMore(o)
  <2>1. event' = event /\ maker' = maker
    BY <1>3 DEF GeneratePhrases, PayExperts, BuyMore, webVars, taskVars
  <2> QED BY <1>1, <2>1, FirstQuiet
<1>4. ASSUME NEW e \in Events,
             BuyMoreFree(e) \/ HandleEvent(e) \/ CountBought(e) \/ ComparePaid(e)
      PROVE  First'
  <2>1. /\ maker' = maker /\ \A d \in Events \ {e} : event'[d] = event[d]
        /\ event[e].pc \in {"idle", "count", "compare"}
    BY <1>0, <1>4 DEF BuyMoreFree, HandleEvent, CountBought, ComparePaid, taskVars
  <2>2. event'[e].pc \in {"count", "compare", "pick", "ended"}
    BY <1>0, <1>4 DEF BuyMoreFree, HandleEvent, CountBought, ComparePaid, Idle, Request
  <2>3. event'[e].row = NoBatch
    BY <2>2, DeliveryIds DEF TypeOK, WebOK
  <2>4. maker[e].pc = "none"
    BY <1>0, <2>1 DEF SentAfter
  <2> QED BY <1>1, <2>1, <2>2, <2>3, <2>4, FirstQuiet
<1>5. ASSUME NEW e \in Events, PickBatch(e) PROVE First'
  <2>1. /\ \A d \in Events \ {e} : event'[d] = event[d] /\ maker'[d] = maker[d]
        /\ \A q \in Makers \ {e} : maker'[q] = maker[q]
        /\ maker[e].pc = "none"
    BY <1>0, <1>5 DEF PickBatch, SentAfter
  <2>2. /\ event'[e].pc \in {"sell", "ended"} /\ event'[e].row \in rows \cup {NoBatch}
        /\ maker'[e].pc # "making"
    <3>1. CASE rows \ bought # {}
      <4>1. Min(rows \ bought) \in rows
        BY <3>1, BatchIds DEF TypeOK, RowsOK
      <4> QED BY <1>0, <1>5, <3>1, <4>1 DEF PickBatch, Sent
    <3>2. CASE rows \ bought = {}
      <4>1. event'[e] = [event[e] EXCEPT !.pc = "ended"] /\ maker' = maker /\ event[e].pc = "pick"
        BY <1>0, <1>5, <3>2 DEF PickBatch
      <4> QED BY <1>0, <2>1, <4>1, DeliveryIds DEF Request
    <3> QED BY <3>1, <3>2
  <2> QED BY <1>1, <2>1, <2>2, FirstQuiet
<1> QED BY <1>2, <1>3, <1>4, <1>5

LEMMA FirstInvariant ==
  ASSUME Concurrency = 1
  PROVE  Spec => []First
<1>1. TypeOK /\ TypeOK' /\ First /\ [Next]_vars => First'
  <2> SUFFICES ASSUME TypeOK, TypeOK', First, [Next]_vars PROVE First'
    OBVIOUS
  <2>1. CASE UNCHANGED vars
    <3>1. UNCHANGED <<lastId, rows, visible, bought, filled, rationaled, rationales, checker, mails,
                      crashes, maker, event>>
      BY <2>1 DEF vars, rowVars, dataVars, taskVars, webVars
    <3> QED BY <3>1, FirstQuiet
  <2>2. ASSUME NEW q \in Makers, MakerStep(q) PROVE First'
    BY <2>2, FirstMake, FirstFill, FirstDelete, FirstQuietSteps DEF MakerStep
  <2>3. ASSUME NEW b \in Batches, TextStep(b) \/ CheckStep(b) PROVE First'
    BY <2>3, FirstRationales, FirstQuietSteps, FirstDelegate, FirstGoesOn, FirstRead, FirstDecide,
       FirstSave DEF TextStep, CheckStep
  <2>4. ASSUME NEW e \in Events, BuyMoreFree(e) \/ HandleEvent(e) \/ SaleStep(e) PROVE First'
    BY <2>4, FirstQuietSteps, FirstSell DEF SaleStep
  <2>5. CASE PayExperts \/ \E o \in Orders : BuyMore(o)
    BY <2>5, FirstQuietSteps
  <2> QED BY <2>1, <2>2, <2>3, <2>4, <2>5, FirstLose DEF Next
<1> QED BY <1>1, FirstInit, DeliveryTypeCorrect, PTL DEF Spec

\* With one worker process and no crash the mail that announces the results goes out once: the
\* batch that it announces is saved as bought, and no later check takes that back.
THEOREM MailGoesOnce ==
  ASSUME Concurrency = 1
  PROVE  Spec => []ReadyMailOnce
<1>1. First => ReadyMailOnce
  BY DEF First, MailInv, ReadyMailOnce
<1> QED BY <1>1, FirstInvariant, PTL

\* With one worker process and no crash, a batch that the tasks mark as bought has a rationale for
\* each of its names: no check reads a row while create_batch is filling it.
THEOREM GiftIsRationaled ==
  ASSUME Concurrency = 1
  PROVE  Spec => FirstBatchRationaled
<1>1. TypeOK /\ First /\ [Next]_vars =>
        [\A b \in bought' \ bought :
             crashes = 0 => b \in rationaled \/ \E e \in Events : event[e].row = b]_bought
  <2> SUFFICES ASSUME TypeOK, First, Next, NEW b \in bought' \ bought, crashes = 0
               PROVE  b \in rationaled \/ \E e \in Events : event[e].row = b
    BY DEF vars, rowVars
  <2>1. CASE \E c \in Batches : SaveBatch(c)
    <3>1. PICK c \in Batches : SaveBatch(c)
      BY <2>1
    <3>2. checker[c].seen \subseteq bought
      BY <3>1 DEF First, Base, Work, SeenHeld, SaveBatch, ChecksBusy
    <3>3. b = checker[c].row /\ checker[c].buy /\ checker[c].pc = "save"
      BY <3>1, <3>2 DEF SaveBatch
    <3> QED BY <3>1, <3>3 DEF First, Base, NoStrays, Gift
  <2>2. CASE \E e \in Events : SellBatch(e)
    BY <2>2 DEF SellBatch
  <2>3. CASE ~(\E c \in Batches : SaveBatch(c)) /\ ~(\E e \in Events : SellBatch(e))
    <3>1. bought' \subseteq bought
      BY <2>3 DEF Next, MakerStep, MakeRow, StopChain, FillRow, DeleteRow, TextStep,
                  GenerateRationales, GeneratePhrases, CheckStep, Delegate, CheckRationales,
                  CheckPhrases, Decide, MailFails, EndCheck, SaleStep, BuyMore, BuyMoreFree,
                  HandleEvent, PayExperts, CountBought, ComparePaid, PickBatch, Lose, rowVars
    <3> QED BY <3>1
  <2> QED BY <2>1, <2>2, <2>3
<1> QED BY <1>1, FirstInvariant, DeliveryTypeCorrect, PTL DEF Spec, FirstBatchRationaled

\* With one worker process and no crash, a customer who has a batch with rationales has bought one
\* when the tasks are through, unless the mail could not be sent.
THEOREM FirstBatchIsServed ==
  ASSUME Concurrency = 1
  PROVE  Spec => []FirstBatchServed
<1>1. TypeOK /\ First => FirstBatchServed
  <2> SUFFICES ASSUME TypeOK, First, AtRest, NoSaleYet, MailsSent, crashes = 0, rationaled # {}
               PROVE  bought # {}
    BY DEF FirstBatchServed
  <2>1. PICK b \in rationaled : OnItsWay(b) /\ b \in Batches
    BY DEF First, Served, TypeOK, RowsOK
  <2>2. \A c \in Batches : checker[c].pc \notin {"rationales", "phrases", "loop", "save"}
    BY DEF AtRest
  <2> QED BY <2>1, <2>2 DEF OnItsWay, Gift
<1> QED BY <1>1, FirstInvariant, DeliveryTypeCorrect, PTL

-----------------------------------------------------------------------------
(***************************************************************************)
(* What is shown, under any concurrency and any crashes.  The row that a   *)
(* create_batch task makes is its own, and no check follows it yet; a      *)
(* check has its own batch still to visit, at hand, or shown.              *)
(***************************************************************************)
Followed(b) == checker[b].pc # "none"
OwnRows ==
    /\ \A q, r \in MakersBusy : maker[q].row = maker[r].row => q = r
    /\ \A q \in MakersBusy : maker[q].row \in rows /\ maker[q].row <= lastId /\ ~Followed(maker[q].row)
    /\ \A b \in Batches : Followed(b) => b <= lastId /\ b \in rows
Visits(b) ==
    /\ b \in ChecksBusy => b \in ToSave(b) \cup visible
    /\ checker[b].pc = "done" => b \in visible
ShownInv == OwnRows /\ (NoSaleYet => \A b \in Batches : Visits(b))

\* A step that makes no row, deletes none, and follows no new batch.
LEMMA ShownFrame ==
  ASSUME TypeOK, ShownInv, lastId' = lastId, rows \subseteq rows',
         \A q \in MakersBusy' : q \in MakersBusy /\ maker'[q].row = maker[q].row,
         \A b \in Batches : Followed(b)' => Followed(b),
         NoSaleYet' => /\ NoSaleYet /\ visible \subseteq visible'
                       /\ \A b \in Batches : checker'[b] = checker[b] \/ Visits(b)'
  PROVE  ShownInv'
<1>1. OwnRows'
  <2>1. \A q, r \in MakersBusy' : maker'[q].row = maker'[r].row => q = r
    BY DEF ShownInv, OwnRows
  <2>2. \A q \in MakersBusy' :
            maker'[q].row \in rows' /\ maker'[q].row <= lastId' /\ checker'[maker'[q].row].pc = "none"
    <3>1. ASSUME NEW q \in MakersBusy'
          PROVE  maker[q].row \in Batches /\ maker[q].row \in rows /\ maker[q].row <= lastId /\ ~Followed(maker[q].row)
      BY DeliveryIds DEF ShownInv, OwnRows
    <3> QED BY <3>1 DEF Followed
  <2>3. \A b \in Batches : Followed(b)' => b <= lastId' /\ b \in rows'
    BY DEF ShownInv, OwnRows
  <2> QED BY <2>1, <2>2, <2>3 DEF OwnRows, Followed
<1>2. ASSUME NoSaleYet', NEW b \in Batches PROVE Visits(b)'
  <2>1. CASE checker'[b] = checker[b]
    <3>1. Visits(b) /\ visible \subseteq visible'
      BY <1>2 DEF ShownInv
    <3>2. ToSave(b)' = ToSave(b) /\ (b \in ChecksBusy' <=> b \in ChecksBusy)
      BY <2>1 DEF ToSave, ChecksBusy
    <3> QED BY <2>1, <3>1, <3>2 DEF Visits
  <2> QED BY <1>2, <2>1
<1> QED BY <1>1, <1>2 DEF ShownInv

LEMMA ShownMake ==
  ASSUME TypeOK, ShownInv, NEW q \in Makers, MakeRow(q)
  PROVE  ShownInv'
<1> DEFINE n == lastId + 1
<1>1. n \in Batches /\ lastId' = n /\ rows' = rows \cup {n} /\ UNCHANGED <<visible, checker, event>>
  BY DEF MakeRow, webVars
<1>2. /\ maker'[q].row = n /\ \A r \in Makers \ {q} : maker'[r] = maker[r]
      /\ maker[q].pc = "queued"
  BY DEF MakeRow, TypeOK, MakersOK
<1>3. \A r \in MakersBusy' : r = q \/ (r # q /\ r \in MakersBusy /\ maker'[r] = maker[r])
  BY <1>2 DEF MakersBusy
<1>4. lastId \in Nat /\ Batches \subseteq Nat /\ \A r \in MakersBusy : maker[r].row \in Nat
  BY DeliveryIds
<1>5. ASSUME NEW b \in Batches, b <= lastId PROVE b <= n /\ b # n
  <2>1. b \in Nat /\ lastId \in Nat
    BY <1>4
  <2> QED BY <2>1, <1>5
<1>6. ~Followed(n)
  BY <1>1, <1>4 DEF ShownInv, OwnRows
<1>7. \A b : Followed(b)' = Followed(b)
  BY <1>1 DEF Followed
<1>8. \A r, s \in MakersBusy' : maker'[r].row = maker'[s].row => r = s
  <2>1. \A r \in MakersBusy : maker[r].row # n
    BY <1>4 DEF ShownInv, OwnRows
  <2> QED BY <1>2, <1>3, <2>1 DEF ShownInv, OwnRows
<1>9. ASSUME NEW r \in MakersBusy'
      PROVE  maker'[r].row \in rows' /\ maker'[r].row <= lastId' /\ checker'[maker'[r].row].pc = "none"
  <2>1. CASE r = q
    BY <1>1, <1>2, <1>4, <1>6, <2>1 DEF Followed
  <2>2. CASE r # q
    <3>1. r \in MakersBusy /\ maker'[r] = maker[r]
      BY <1>3, <2>2
    <3>2. maker[r].row \in rows /\ maker[r].row <= lastId /\ ~Followed(maker[r].row) /\ maker[r].row \in Nat
      BY <1>4, <3>1 DEF ShownInv, OwnRows
    <3>3. maker[r].row <= lastId + 1
      BY <1>4, <3>2
    <3> QED BY <1>1, <3>1, <3>2, <3>3 DEF Followed
  <2> QED BY <2>1, <2>2
<1>10. \A b \in Batches : Followed(b)' => b <= lastId' /\ b \in rows'
  BY <1>1, <1>5, <1>7 DEF ShownInv, OwnRows
<1>11. NoSaleYet' => \A b \in Batches : Visits(b)'
  BY <1>1 DEF ShownInv, NoSaleYet, Visits, ToSave, ChecksBusy
<1> QED BY <1>8, <1>9, <1>10, <1>11 DEF ShownInv, OwnRows, Followed

LEMMA ShownFill ==
  ASSUME TypeOK, ShownInv, NEW q \in Makers, FillRow(q)
  PROVE  ShownInv'
<1> DEFINE n == maker[q].row
<1>1. q \in MakersBusy /\ n \in rows /\ n \in Batches /\ n <= lastId /\ ~Followed(n)
  BY DeliveryIds DEF FillRow, MakersBusy, ShownInv, OwnRows
<1>2. UNCHANGED <<lastId, rows, visible, event>>
  BY DEF FillRow, rowVars, webVars
<1>3. /\ checker'[n].pc = "delegate" /\ \A b \in Batches \ {n} : checker'[b] = checker[b]
  BY <1>1 DEF FillRow, TypeOK, ChecksOK, Off
<1>4. \A r \in MakersBusy' : r \in MakersBusy /\ r # q /\ maker'[r] = maker[r]
  BY DEF FillRow, MakersBusy, Sent
<1>5. \A b \in Batches : Followed(b)' => b = n \/ Followed(b)
  BY <1>3 DEF Followed
<1>6. ASSUME NEW r \in MakersBusy'
      PROVE  maker[r].row \in rows /\ maker[r].row <= lastId /\ checker'[maker[r].row].pc = "none"
  <2>1. /\ maker[r].row # n /\ maker[r].row \in Batches /\ ~Followed(maker[r].row)
        /\ maker[r].row \in rows /\ maker[r].row <= lastId
    BY <1>1, <1>4, DeliveryIds DEF ShownInv, OwnRows
  <2> QED BY <1>3, <2>1 DEF Followed
<1>7. OwnRows'
  <2>1. \A r, s \in MakersBusy' : maker'[r].row = maker'[s].row => r = s
    BY <1>4 DEF ShownInv, OwnRows
  <2>2. \A b \in Batches : Followed(b)' => b <= lastId' /\ b \in rows'
    BY <1>1, <1>2, <1>5 DEF ShownInv, OwnRows
  <2> QED BY <1>2, <1>4, <1>6, <2>1, <2>2 DEF OwnRows, Followed
<1>8. ASSUME NoSaleYet', NEW b \in Batches PROVE Visits(b)'
  <2>1. CASE b = n
    BY <1>3, <2>1 DEF Visits, ChecksBusy
  <2>2. CASE b # n
    <3>1. Visits(b) /\ checker'[b] = checker[b]
      BY <1>2, <1>3, <1>8, <2>2 DEF ShownInv, NoSaleYet
    <3> QED BY <1>2, <3>1 DEF Visits, ChecksBusy, ToSave
  <2> QED BY <2>1, <2>2
<1> QED BY <1>7, <1>8 DEF ShownInv

LEMMA ShownDelete ==
  ASSUME TypeOK, ShownInv, NEW q \in Makers, DeleteRow(q)
  PROVE  ShownInv'
<1> DEFINE n == maker[q].row
<1>1. q \in MakersBusy /\ n \in Batches /\ ~Followed(n)
  BY DeliveryIds DEF DeleteRow, MakersBusy, ShownInv, OwnRows
<1>2. rows' = rows \ {n} /\ visible' = visible \ {n} /\ UNCHANGED <<lastId, checker, event>>
  BY DEF DeleteRow, webVars
<1>3. \A r \in MakersBusy' : r \in MakersBusy /\ r # q /\ maker'[r] = maker[r]
  BY DEF DeleteRow, MakersBusy, Sent, TypeOK, MakersOK
<1>4. \A b : Followed(b)' = Followed(b)
  BY <1>2 DEF Followed
<1>5. \A r \in MakersBusy' : maker[r].row # n
  BY <1>1, <1>3 DEF ShownInv, OwnRows
<1>6. OwnRows'
  BY <1>1, <1>2, <1>3, <1>4, <1>5 DEF ShownInv, OwnRows
<1>7. ASSUME NoSaleYet', NEW b \in Batches PROVE Visits(b)'
  <2>1. Visits(b)
    BY <1>2, <1>7 DEF ShownInv, NoSaleYet
  <2>2. Followed(b) => b # n
    BY <1>1
  <2>3. (b \in ChecksBusy \/ checker[b].pc = "done") => Followed(b)
    BY DEF ChecksBusy, Followed
  <2> QED BY <1>2, <2>1, <2>2, <2>3 DEF Visits, ChecksBusy, ToSave
<1> QED BY <1>6, <1>7 DEF ShownInv

\* A check moves on, and what it leaves behind has been shown.
LEMMA ShownCheck ==
  ASSUME TypeOK, ShownInv, NEW b \in Batches, CheckStep(b)
  PROVE  ShownInv'
<1>1. /\ lastId' = lastId /\ rows \subseteq rows' /\ visible \subseteq visible'
      /\ maker' = maker /\ event' = event
  BY DEF CheckStep, Delegate, CheckRationales, CheckPhrases, Decide, MailFails, SaveBatch, EndCheck,
         rowVars, webVars
<1>2. checker[b].pc # "none" /\ \A c \in Batches \ {b} : checker'[c] = checker[c]
  BY DEF CheckStep, Delegate, CheckRationales, CheckPhrases, Decide, MailFails, SaveBatch, EndCheck,
         TypeOK, ChecksOK
<1>3. b \in rows
  BY <1>2 DEF ShownInv, OwnRows, Followed
<1>4. ASSUME NoSaleYet PROVE Visits(b)'
  <2>1. Visits(b)
    BY <1>4 DEF ShownInv
  <2>2. CASE Delegate(b) \/ CheckRationales(b) \/ MailFails(b)
    <3>1. checker'[b].pc \in {"rationales", "phrases", "failed"}
      <4>1. Delegate(b) => checker'[b].pc = "rationales"
        BY DEF Delegate, TypeOK, ChecksOK, Checker
      <4>2. CheckRationales(b) => checker'[b].pc = "phrases"
        BY DEF CheckRationales, TypeOK, ChecksOK, Checker
      <4>3. MailFails(b) => checker'[b].pc = "failed"
        BY DEF MailFails, Off, TypeOK, ChecksOK
      <4> QED BY <2>2, <4>1, <4>2, <4>3
    <3> QED BY <3>1 DEF Visits, ChecksBusy
  <2>3. CASE CheckPhrases(b)
    BY <1>3, <2>3 DEF CheckPhrases, Visits, ChecksBusy, ToSave, TypeOK, ChecksOK
  <2>4. CASE Decide(b)
    <3>1. PICK c \in checker[b].todo, buy \in BOOLEAN :
             checker' = [checker EXCEPT ![b] = [checker[b] EXCEPT !.pc = "save", !.row = c, !.buy = buy,
                                                                  !.todo = checker[b].todo \ {c}]]
      BY <2>4, DecideRecord
    <3>2. ToSave(b) \subseteq ToSave(b)' \cup {NoBatch} /\ checker'[b].pc = "save"
      <4>1. checker[b] \in Checker /\ checker[b].pc = "loop"
        BY <2>4 DEF Decide, TypeOK, ChecksOK
      <4>2. checker[b].row = NoBatch
        BY <4>1 DEF TypeOK, ChecksOK
      <4>3. checker'[b].row = c /\ checker'[b].todo = checker[b].todo \ {c} /\ checker'[b].pc = "save"
        BY <3>1, <4>1 DEF TypeOK, ChecksOK, Checker
      <4> QED BY <4>2, <4>3 DEF ToSave
    <3>3. b \in ChecksBusy /\ b # NoBatch
      BY <2>4, DeliveryIds, BatchAssumption DEF Decide, ChecksBusy, NoBatch
    <3> QED BY <1>1, <2>1, <3>2, <3>3 DEF Visits
  <2>5. CASE SaveBatch(b)
    <3>1. checker'[b].pc = "loop" /\ checker'[b].todo = checker[b].todo /\ checker[b].row \in visible'
      BY <2>5 DEF SaveBatch, TypeOK, ChecksOK, Checker
    <3>2. b \in ChecksBusy
      BY <2>5 DEF SaveBatch, ChecksBusy
    <3> QED BY <1>1, <2>1, <3>1, <3>2 DEF Visits, ToSave
  <2>6. CASE EndCheck(b)
    <3>1. checker[b].pc = "loop" /\ checker[b].todo = {} /\ checker'[b].pc = "done"
      BY <2>6 DEF EndCheck, Off, TypeOK, ChecksOK
    <3>2. checker[b].row = NoBatch /\ b # NoBatch
      BY <3>1, BatchAssumption DEF TypeOK, ChecksOK, NoBatch
    <3> QED BY <1>1, <2>1, <3>1, <3>2 DEF Visits, ToSave, ChecksBusy
  <2> QED BY <2>2, <2>3, <2>4, <2>5, <2>6 DEF CheckStep
<1>5. \A c \in Batches : Followed(c)' => Followed(c)
  BY <1>2 DEF Followed
<1>6. MakersBusy' = MakersBusy /\ NoSaleYet' = NoSaleYet
  BY <1>1 DEF MakersBusy, NoSaleYet
<1> QED BY <1>1, <1>2, <1>4, <1>5, <1>6, ShownFrame

LEMMA ShownInvariant == Spec => []ShownInv
<1>1. Init => ShownInv
  BY DEF Init, ShownInv, OwnRows, Visits, MakersBusy, ChecksBusy, Followed, Off, Sent
<1>2. TypeOK /\ ShownInv /\ [Next]_vars => ShownInv'
  <2> SUFFICES ASSUME TypeOK, ShownInv, [Next]_vars PROVE ShownInv'
    OBVIOUS
  <2>1. ASSUME NEW q \in Makers, MakerStep(q) PROVE ShownInv'
    <3>1. ASSUME StopChain(q) PROVE ShownInv'
      <4>1. UNCHANGED <<lastId, rows, visible, checker, event>>
        BY <3>1 DEF StopChain, rowVars, webVars
      <4>2. \A r \in MakersBusy' : r \in MakersBusy /\ maker'[r].row = maker[r].row
        BY <3>1 DEF StopChain, MakersBusy, TypeOK, MakersOK
      <4> QED BY <4>1, <4>2, ShownFrame DEF Followed, NoSaleYet
    <3> QED BY <2>1, <3>1, ShownMake, ShownFill, ShownDelete DEF MakerStep
  <2>2. ASSUME NEW b \in Batches, CheckStep(b) PROVE ShownInv'
    BY <2>2, ShownCheck
  <2>3. ASSUME NEW e \in Events, SellBatch(e) PROVE ShownInv'
    <3>1. lastId' = lastId /\ rows \subseteq rows' /\ maker' = maker /\ checker' = checker
      BY <2>3 DEF SellBatch, taskVars
    <3>2. ~NoSaleYet'
      BY <2>3 DEF SellBatch, NoSaleYet, Idle, TypeOK, WebOK, Request
    <3> QED BY <3>1, <3>2, ShownFrame DEF Followed, MakersBusy
  <2>4. ASSUME NEW e \in Events, PickBatch(e) PROVE ShownInv'
    <3>1. UNCHANGED <<lastId, rows, visible, checker>>
      BY <2>4 DEF PickBatch, rowVars
    <3>2. ~NoSaleYet
      BY <2>4 DEF PickBatch, NoSaleYet
    <3>3. \A r \in MakersBusy' : r \in MakersBusy /\ maker'[r].row = maker[r].row
      BY <2>4 DEF PickBatch, MakersBusy, TypeOK, MakersOK, Sent
    <3>4. ~NoSaleYet'
      BY <2>4 DEF PickBatch, NoSaleYet, TypeOK, WebOK, Request
    <3> QED BY <3>1, <3>3, <3>4, ShownFrame DEF Followed
  <2>5. CASE Lose
    <3>1. UNCHANGED <<lastId, rows, visible, event>>
      BY <2>5 DEF Lose, rowVars, webVars
    <3>2. \A r \in MakersBusy' : r \in MakersBusy /\ maker'[r].row = maker[r].row
      BY <2>5 DEF Lose, MakersBusy, TypeOK, MakersOK
    <3>3. \A b \in Batches : checker'[b] = checker[b] \/ (checker'[b].pc = "lost" /\ checker[b].pc # "none")
      BY <2>5 DEF Lose, Off, TypeOK, ChecksOK
    <3> QED BY <3>1, <3>2, <3>3, ShownFrame DEF Followed, NoSaleYet, Visits, ChecksBusy
  <2>6. CASE \/ \E b \in Batches : TextStep(b)
             \/ \E o \in Orders : BuyMore(o)
             \/ \E e \in Events : BuyMoreFree(e) \/ HandleEvent(e) \/ CountBought(e) \/ ComparePaid(e)
             \/ PayExperts \/ UNCHANGED vars
    <3>1. UNCHANGED <<lastId, rows, visible, checker, maker>>
      BY <2>6 DEF TextStep, GenerateRationales, GeneratePhrases, BuyMore, BuyMoreFree, HandleEvent,
                  CountBought, ComparePaid, PayExperts, vars, rowVars, taskVars
    <3>2. NoSaleYet' => NoSaleYet
      BY <2>6 DEF TextStep, GenerateRationales, GeneratePhrases, BuyMore, BuyMoreFree, HandleEvent,
                  CountBought, ComparePaid, PayExperts, vars, webVars, NoSaleYet, TypeOK, WebOK, Idle, Request
    <3> QED BY <3>1, <3>2, ShownFrame DEF Followed, MakersBusy
  <2> QED BY <2>1, <2>2, <2>3, <2>4, <2>5, <2>6 DEF Next, SaleStep
<1> QED BY <1>1, <1>2, DeliveryTypeCorrect, PTL DEF Spec

\* With any number of workers, and whichever of them die, a check that is through has shown its
\* batch to the customer, if nothing has been sold on the web meanwhile.
THEOREM CheckedIsShown == Spec => []ShownWhenDone
<1>1. ShownInv => ShownWhenDone
  BY DEF ShownInv, Visits, ShownWhenDone
<1> QED BY <1>1, ShownInvariant, PTL

(***************************************************************************)
(* What is shown or bought while no row is held.  Whoever reads the row    *)
(* afterwards sees it as shown and bought, and saves it so; and no new row *)
(* gets its id.                                                            *)
(***************************************************************************)
Given ==
    /\ \A c \in rows : c <= lastId
    /\ \A b \in Batches : \A c \in ToSave(b) : c <= lastId
    /\ \A e \in Events : event[e].row <= lastId
NotRemade(b) == b <= lastId /\ \A q \in Makers : maker[q].row # b
Owned(b) == b \in bought /\ NotRemade(b) /\ \A c \in ChecksBusy : b \in checker[c].seen
Seen(b)  == b \in visible /\ NotRemade(b) /\ \A e \in Events : event[e].row = b => event[e].shown

LEMMA GivenMake ==
  ASSUME TypeOK, Given, NEW q \in Makers, MakeRow(q)
  PROVE  Given'
<1>1. lastId' = lastId + 1 /\ rows' = rows \cup {lastId'} /\ UNCHANGED <<checker, event>>
  BY DEF MakeRow, webVars
<1>2. lastId \in Nat /\ Batches \subseteq Nat /\ 0 \in Nat /\ rows \subseteq Batches
  BY DeliveryIds
<1>3. ASSUME NEW c \in Nat, c <= lastId PROVE c <= lastId'
  BY <1>1, <1>2, <1>3
<1>4. \A c \in rows' : c <= lastId'
  BY <1>1, <1>2, <1>3 DEF Given
<1>5. ASSUME NEW b \in Batches, NEW c \in ToSave(b) PROVE c <= lastId'
  <2>1. c \in Nat /\ c <= lastId
    BY <1>2, DeliveryIds DEF Given, NoBatch
  <2> QED BY <1>3, <2>1
<1>6. ASSUME NEW e \in Events PROVE event[e].row <= lastId'
  <2>1. event[e].row \in Nat /\ event[e].row <= lastId
    BY <1>2, DeliveryIds DEF Given, NoBatch
  <2> QED BY <1>3, <2>1
<1> QED BY <1>1, <1>4, <1>5, <1>6 DEF Given, ToSave

\* The step saves and picks rows that there are, or that it holds.
LEMMA GivenFrame ==
  ASSUME Given, lastId' = lastId,
         \A c \in rows' : \/ c \in rows \/ \E b \in Batches : c \in ToSave(b)
                          \/ \E e \in Events : c = event[e].row,
         \A b \in Batches : ToSave(b)' \subseteq ToSave(b) \cup rows \cup {NoBatch},
         \A e \in Events : event'[e].row \in rows \cup {event[e].row, NoBatch},
         NoBatch <= lastId
  PROVE  Given'
<1>1. \A c \in rows' : c <= lastId
  BY DEF Given
<1>2. ASSUME NEW b \in Batches, NEW c \in ToSave(b)' PROVE c <= lastId
  <2>1. c \in ToSave(b) \/ c \in rows \/ c = NoBatch
    BY <1>2
  <2> QED BY <2>1 DEF Given
<1>3. ASSUME NEW e \in Events PROVE event'[e].row <= lastId
  <2>1. event'[e].row \in rows \/ event'[e].row = event[e].row \/ event'[e].row = NoBatch
    BY <1>3
  <2> QED BY <2>1 DEF Given
<1> QED BY <1>1, <1>2, <1>3 DEF Given

\* What a step of a check does to the rows that it holds, and one of a request to its own.
LEMMA ChecksHold ==
  ASSUME TypeOK, TypeOK', NEW b \in Batches, CheckStep(b)
  PROVE  /\ \A c \in Batches \ {b} : checker'[c] = checker[c]
         /\ \/ b \notin ChecksBusy'
            \/ CheckPhrases(b) /\ ToSave(b)' \subseteq rows \cup {NoBatch} /\ checker'[b].seen = bought
            \/ b \in ChecksBusy /\ ToSave(b)' \subseteq ToSave(b) \cup {NoBatch}
                                /\ checker'[b].seen = checker[b].seen
         /\ b \notin ChecksBusy' => ToSave(b)' \subseteq ToSave(b) \cup {NoBatch}
<1>0. checker \in [Batches -> Checker]
  BY DEF TypeOK, ChecksOK
<1>1. CASE Decide(b)
  <2>1. PICK c \in checker[b].todo, buy \in BOOLEAN :
            checker' = [checker EXCEPT ![b] =
                 [checker[b] EXCEPT !.pc = "save", !.row = c, !.buy = buy,
                                    !.todo = checker[b].todo \ {c}]]
    BY <1>1, DecideRecord
  <2> DEFINE t == [checker[b] EXCEPT !.pc = "save", !.row = c, !.buy = buy,
                                     !.todo = checker[b].todo \ {c}]
  <2>2. t.todo \cup {t.row} \subseteq ToSave(b) /\ t.seen = checker[b].seen /\ t.pc = "save"
    BY <1>0, <2>1 DEF Checker, ToSave
  <2>3. checker' = [checker EXCEPT ![b] = t]
    BY <2>1
  <2> HIDE DEF t
  <2>4. b \in ChecksBusy
    BY <1>1 DEF Decide, ChecksBusy
  <2>5. checker'[b] = t /\ \A c1 \in Batches \ {b} : checker'[c1] = checker[c1]
    BY <1>0, <2>3
  <2> QED BY <2>2, <2>4, <2>5 DEF ToSave, ChecksBusy
<1>2. CASE SaveBatch(b)
  <2> DEFINE t == [checker[b] EXCEPT !.pc = "loop", !.row = NoBatch, !.buy = FALSE]
  <2>1. checker' = [checker EXCEPT ![b] = t] /\ b \in ChecksBusy
    BY <1>0, <1>2 DEF SaveBatch, ChecksBusy
  <2>2. t.todo = checker[b].todo /\ t.row = NoBatch /\ t.seen = checker[b].seen /\ t.pc = "loop"
    BY <1>0 DEF Checker
  <2> HIDE DEF t
  <2>3. checker'[b] = t /\ \A c1 \in Batches \ {b} : checker'[c1] = checker[c1]
    BY <1>0, <2>1
  <2> QED BY <2>1, <2>2, <2>3 DEF ToSave, ChecksBusy
<1>3. CASE CheckPhrases(b)
  BY <1>0, <1>3 DEF CheckPhrases, ToSave, ChecksBusy
<1>4. CASE Delegate(b) \/ CheckRationales(b)
  <2>1. PICK pc \in {"rationales", "phrases"} : checker' = [checker EXCEPT ![b].pc = pc]
    BY <1>4 DEF Delegate, CheckRationales
  <2> DEFINE t == [checker[b] EXCEPT !.pc = pc]
  <2>2. checker' = [checker EXCEPT ![b] = t]
    BY <1>0, <2>1
  <2>3. t.todo = checker[b].todo /\ t.row = checker[b].row /\ t.pc \notin {"loop", "save"}
    BY <1>0 DEF Checker
  <2> HIDE DEF t
  <2>4. checker'[b] = t /\ \A c1 \in Batches \ {b} : checker'[c1] = checker[c1]
    BY <1>0, <2>2
  <2> QED BY <2>3, <2>4 DEF ToSave, ChecksBusy
<1>5. CASE MailFails(b) \/ EndCheck(b)
  <2>1. PICK pc \in {"failed", "done"} : checker' = [checker EXCEPT ![b] = [Off EXCEPT !.pc = pc]]
    BY <1>5 DEF MailFails, EndCheck
  <2>2. checker'[b] = [Off EXCEPT !.pc = pc] /\ \A c1 \in Batches \ {b} : checker'[c1] = checker[c1]
    BY <1>0, <2>1
  <2>3. /\ [Off EXCEPT !.pc = pc].todo = {} /\ [Off EXCEPT !.pc = pc].row = NoBatch
        /\ [Off EXCEPT !.pc = pc].pc \notin {"loop", "save"}
    BY DEF Off
  <2> QED BY <2>2, <2>3 DEF ToSave, ChecksBusy
<1> QED BY <1>1, <1>2, <1>3, <1>4, <1>5 DEF CheckStep

LEMMA RequestHolds ==
  ASSUME TypeOK, TypeOK', NEW e \in Events, BuyMoreFree(e) \/ HandleEvent(e) \/ SaleStep(e)
  PROVE  /\ \A d \in Events \ {e} : event'[d] = event[d]
         /\ \/ event'[e].row = NoBatch
            \/ /\ event'[e].row = Min(rows \ bought) /\ event'[e].row \in rows
               /\ event'[e].shown <=> event'[e].row \in visible
<1>0. event \in [Events -> Request] /\ (event'[e].row # NoBatch <=> event'[e].pc = "sell")
  BY DEF TypeOK, WebOK
<1>1. CASE PickBatch(e) /\ rows \ bought # {}
  <2>1. Min(rows \ bought) \in rows
    BY <1>1, BatchIds, DeliveryIds
  <2> DEFINE first == Min(rows \ bought)
             t == [pc |-> "sell", count |-> 0, row |-> first, shown |-> first \in visible]
  <2>2. event' = [event EXCEPT ![e] = t]
    BY <1>1 DEF PickBatch
  <2>3. t.row = first /\ (t.shown <=> first \in visible)
    OBVIOUS
  <2> HIDE DEF t
  <2>4. event'[e] = t /\ \A d \in Events \ {e} : event'[d] = event[d]
    BY <1>0, <2>2
  <2> QED BY <2>1, <2>3, <2>4
<1>2. CASE ~(PickBatch(e) /\ rows \ bought # {})
  <2>1. event'[e].pc # "sell"
    <3>1. CASE BuyMoreFree(e) \/ HandleEvent(e)
      BY <1>0, <3>1 DEF BuyMoreFree, HandleEvent, Request
    <3>2. CASE CountBought(e)
      BY <1>0, <3>2 DEF CountBought, Request
    <3>3. CASE ComparePaid(e) \/ SellBatch(e)
      <4>1. PICK pc \in {"pick", "ended"} : event' = [event EXCEPT ![e] = [Idle EXCEPT !.pc = pc]]
        BY <3>3 DEF ComparePaid, SellBatch
      <4> QED BY <1>0, <4>1 DEF Idle
    <3>4. CASE PickBatch(e)
      BY <1>0, <1>2, <3>4 DEF PickBatch, Request
    <3> QED BY <3>1, <3>2, <3>3, <3>4 DEF SaleStep
  <2>2. \A d \in Events \ {e} : event'[d] = event[d]
    BY <1>0, <1>2 DEF BuyMoreFree, HandleEvent, SaleStep, CountBought, ComparePaid, PickBatch, SellBatch
  <2> QED BY <1>0, <2>1, <2>2
<1> QED BY <1>1, <1>2

LEMMA GivenInvariant == Spec => []Given
<1>1. Init => Given
  BY DEF Init, Given, ToSave, Off, Idle, NoBatch
<1>2. TypeOK /\ TypeOK' /\ Given /\ [Next]_vars => Given'
  <2> SUFFICES ASSUME TypeOK, TypeOK', Given, [Next]_vars PROVE Given'
    OBVIOUS
  <2>0. NoBatch <= lastId
    BY DeliveryIds DEF NoBatch
  <2>1. ASSUME NEW q \in Makers, MakerStep(q), ~MakeRow(q) PROVE Given'
    <3>1. UNCHANGED <<lastId, event>> /\ rows' \subseteq rows
      BY <2>1 DEF MakerStep, StopChain, FillRow, DeleteRow, rowVars, webVars
    <3>2. \A b \in Batches : ToSave(b)' \subseteq ToSave(b) \cup {NoBatch}
      BY <2>1 DEF MakerStep, StopChain, FillRow, DeleteRow, ToSave, Off, TypeOK, ChecksOK
    <3> QED BY <2>0, <3>1, <3>2, GivenFrame
  <2>2. ASSUME NEW b \in Batches, CheckStep(b) \/ TextStep(b) PROVE Given'
    <3>1. UNCHANGED <<lastId, event>>
      BY <2>2 DEF CheckStep, TextStep, Delegate, GenerateRationales, GeneratePhrases, CheckRationales,
                  CheckPhrases, Decide, MailFails, SaveBatch, EndCheck, webVars
    <3>2. rows' \subseteq rows \cup {checker[b].row}
      BY <2>2 DEF CheckStep, TextStep, Delegate, GenerateRationales, GeneratePhrases, CheckRationales,
                  CheckPhrases, Decide, MailFails, SaveBatch, EndCheck, rowVars
    <3>3. ASSUME NEW c \in Batches PROVE ToSave(c)' \subseteq ToSave(c) \cup rows \cup {NoBatch}
      <4>1. CASE TextStep(b)
        BY <4>1 DEF TextStep, GenerateRationales, GeneratePhrases, ToSave
      <4>2. CASE CheckStep(b)
        BY <4>2, ChecksHold DEF ToSave
      <4> QED BY <2>2, <4>1, <4>2
    <3> QED BY <2>0, <3>1, <3>2, <3>3, GivenFrame DEF ToSave
  <2>3. ASSUME NEW e \in Events, BuyMoreFree(e) \/ HandleEvent(e) \/ SaleStep(e) PROVE Given'
    <3>1. lastId' = lastId /\ checker' = checker /\ rows' \subseteq rows \cup {event[e].row}
      BY <2>3 DEF BuyMoreFree, HandleEvent, SaleStep, CountBought, ComparePaid, PickBatch, SellBatch,
                  rowVars, taskVars
    <3>2. \A d \in Events : event'[d].row \in rows \cup {event[d].row, NoBatch}
      BY <2>3, RequestHolds
    <3> QED BY <2>0, <3>1, <3>2, GivenFrame DEF ToSave
  <2>4. CASE Lose
    <3>1. UNCHANGED <<lastId, rows, event>>
      BY <2>4 DEF Lose, rowVars, webVars
    <3>2. \A b \in Batches : ToSave(b)' \subseteq ToSave(b) \cup {NoBatch}
      BY <2>4 DEF Lose, Off, ToSave, TypeOK, ChecksOK
    <3> QED BY <2>0, <3>1, <3>2, GivenFrame
  <2>5. CASE (\E o \in Orders : BuyMore(o)) \/ PayExperts \/ UNCHANGED vars
    <3>1. UNCHANGED <<lastId, rows, checker, event>>
      BY <2>5 DEF BuyMore, PayExperts, vars, rowVars, taskVars, webVars
    <3> QED BY <2>0, <3>1, GivenFrame DEF ToSave
  <2> QED BY <2>1, <2>2, <2>3, <2>4, <2>5, GivenMake DEF Next
<1> QED BY <1>1, <1>2, DeliveryTypeCorrect, PTL DEF Spec

\* The row of a task that makes one is new, and no other row gets its id.
LEMMA NotRemadeStep ==
  ASSUME TypeOK, [Next]_vars, NEW b \in Batches, NotRemade(b)
  PROVE  NotRemade(b)'
<1>1. lastId \in Nat /\ Batches \subseteq Nat /\ maker \in [Makers -> Maker] /\ b # NoBatch
  BY DeliveryIds, BatchIds DEF TypeOK, MakersOK
<1>2. CASE \E q \in Makers : MakeRow(q)
  <2>1. PICK q \in Makers : MakeRow(q)
    BY <1>2
  <2>2. lastId' = lastId + 1 /\ maker' = [maker EXCEPT ![q] = [pc |-> "making", row |-> lastId']]
    BY <2>1 DEF MakeRow
  <2>3. b <= lastId' /\ b # lastId'
    BY <1>1, <2>2 DEF NotRemade
  <2>4. \A r \in Makers : maker'[r].row = lastId' \/ maker'[r].row = maker[r].row
    BY <1>1, <2>2
  <2> QED BY <2>3, <2>4 DEF NotRemade
<1>3. CASE ~\E q \in Makers : MakeRow(q)
  <2>1. lastId' = lastId
    BY <1>3 DEF Next, MakerStep, StopChain, FillRow, DeleteRow, TextStep, GenerateRationales,
                GeneratePhrases, CheckStep, Delegate, CheckRationales, CheckPhrases, Decide, MailFails,
                SaveBatch, EndCheck, SaleStep, BuyMore, BuyMoreFree, HandleEvent, PayExperts,
                CountBought, ComparePaid, PickBatch, SellBatch, Lose, vars
  <2>2. \A r \in Makers : maker'[r] = maker[r] \/ maker'[r].row \in {NoBatch, maker[r].row}
    <3>1. CASE \E q \in Makers : StopChain(q) \/ FillRow(q) \/ DeleteRow(q)
      <4>1. PICK q \in Makers : StopChain(q) \/ FillRow(q) \/ DeleteRow(q)
        BY <3>1
      <4>2. CASE StopChain(q)
        BY <1>1, <4>2 DEF StopChain, Maker
      <4>3. CASE FillRow(q)
        BY <1>1, <4>3 DEF FillRow, Sent
      <4>4. CASE DeleteRow(q)
        BY <1>1, <4>4 DEF DeleteRow, Sent
      <4> QED BY <4>1, <4>2, <4>3, <4>4
    <3>2. CASE (\E e \in Events : PickBatch(e)) \/ Lose
      BY <1>1, <3>2 DEF PickBatch, Lose, Sent
    <3>3. CASE \/ \E c \in Batches : TextStep(c) \/ CheckStep(c)
               \/ \E o \in Orders : BuyMore(o)
               \/ \E e \in Events : \/ BuyMoreFree(e) \/ HandleEvent(e)
                                    \/ CountBought(e) \/ ComparePaid(e) \/ SellBatch(e)
               \/ PayExperts \/ UNCHANGED vars
      BY <3>3 DEF TextStep, GenerateRationales, GeneratePhrases, CheckStep, Delegate, CheckRationales,
                  CheckPhrases, Decide, MailFails, SaveBatch, EndCheck, BuyMore, BuyMoreFree, HandleEvent,
                  PayExperts, CountBought, ComparePaid, SellBatch, vars, taskVars
    <3> QED BY <1>3, <3>1, <3>2, <3>3 DEF Next, MakerStep, SaleStep
  <2> QED BY <1>1, <2>1, <2>2 DEF NotRemade
<1> QED BY <1>2, <1>3

LEMMA OwnedStep ==
  ASSUME TypeOK, TypeOK', [Next]_vars, NEW b \in Batches, Owned(b)
  PROVE  Owned(b)'
<1>1. NotRemade(b) /\ NotRemade(b)' /\ b \in bought
  BY NotRemadeStep DEF Owned
<1>2. CASE \E c \in Batches : CheckStep(c)
  <2>1. PICK c \in Batches : CheckStep(c)
    BY <1>2
  <2>2. b \in bought'
    <3>1. CASE SaveBatch(c)
      <4>1. b \in checker[c].seen
        BY <3>1 DEF SaveBatch, Owned, ChecksBusy
      <4> QED BY <1>1, <3>1, <4>1 DEF SaveBatch
    <3>2. CASE ~SaveBatch(c)
      BY <1>1, <2>1, <3>2 DEF CheckStep, Delegate, CheckRationales, CheckPhrases, Decide, MailFails,
                              EndCheck, rowVars
    <3> QED BY <3>1, <3>2
  <2>3. ASSUME NEW d \in ChecksBusy' PROVE b \in checker'[d].seen
    <3>1. CASE d = c
      BY <1>1, <2>1, <2>3, <3>1, ChecksHold DEF Owned
    <3>2. CASE d # c
      <4>1. checker'[d] = checker[d] /\ d \in ChecksBusy
        BY <2>1, <2>3, <3>2, ChecksHold DEF ChecksBusy
      <4> QED BY <4>1 DEF Owned
    <3> QED BY <3>1, <3>2
  <2> QED BY <1>1, <2>2, <2>3 DEF Owned
<1>3. CASE ~\E c \in Batches : CheckStep(c)
  <2>1. b \in bought'
    <3>1. ASSUME NEW q \in Makers, MakerStep(q) PROVE b \in bought'
      BY <1>1, <3>1 DEF MakerStep, MakeRow, StopChain, FillRow, DeleteRow, NotRemade, rowVars
    <3>2. ASSUME NEW e \in Events, SaleStep(e) PROVE b \in bought'
      BY <1>1, <3>2 DEF SaleStep, CountBought, ComparePaid, PickBatch, SellBatch, rowVars
    <3>3. CASE \/ \E c \in Batches : TextStep(c)
               \/ \E o \in Orders : BuyMore(o)
               \/ \E e \in Events : BuyMoreFree(e) \/ HandleEvent(e)
               \/ PayExperts \/ Lose \/ UNCHANGED vars
      BY <1>1, <3>3 DEF TextStep, GenerateRationales, GeneratePhrases, BuyMore, BuyMoreFree,
                        HandleEvent, PayExperts, Lose, vars, rowVars
    <3> QED BY <1>3, <3>1, <3>2, <3>3 DEF Next
  <2>2. ASSUME NEW d \in ChecksBusy' PROVE d \in ChecksBusy /\ checker'[d] = checker[d]
    <3>1. CASE \E q \in Makers : FillRow(q)
      BY <2>2, <3>1 DEF FillRow, ChecksBusy, Off, TypeOK, ChecksOK
    <3>2. CASE Lose
      BY <2>2, <3>2 DEF Lose, ChecksBusy, Off, TypeOK, ChecksOK
    <3>3. CASE ~Lose /\ ~\E q \in Makers : FillRow(q)
      BY <1>3, <2>2, <3>3
         DEF Next, MakerStep, MakeRow, StopChain, DeleteRow, TextStep, GenerateRationales,
             GeneratePhrases, SaleStep, BuyMore, BuyMoreFree, HandleEvent, PayExperts,
             CountBought, ComparePaid, PickBatch, SellBatch, vars, taskVars, ChecksBusy
    <3> QED BY <3>1, <3>2, <3>3
  <2> QED BY <1>1, <2>1, <2>2 DEF Owned
<1> QED BY <1>2, <1>3

LEMMA SeenStep ==
  ASSUME TypeOK, TypeOK', [Next]_vars, NEW b \in Batches, Seen(b)
  PROVE  Seen(b)'
<1>1. NotRemade(b) /\ NotRemade(b)' /\ b \in visible /\ b # NoBatch
  BY NotRemadeStep, BatchIds DEF Seen
<1>2. b \in visible'
  <2>1. CASE \E e \in Events : SellBatch(e)
    BY <1>1, <2>1 DEF SellBatch, Seen
  <2>2. CASE \E q \in Makers : DeleteRow(q)
    BY <1>1, <2>2 DEF DeleteRow, NotRemade
  <2>3. CASE ~(\E e \in Events : SellBatch(e)) /\ ~\E q \in Makers : DeleteRow(q)
    <3>1. visible \subseteq visible'
      BY <2>3 DEF Next, MakerStep, MakeRow, StopChain, FillRow, TextStep,
                  GenerateRationales, GeneratePhrases, CheckStep, Delegate, CheckRationales,
                  CheckPhrases, Decide, MailFails, SaveBatch, EndCheck, SaleStep, BuyMore, BuyMoreFree,
                  HandleEvent, PayExperts, CountBought, ComparePaid, PickBatch, Lose, vars, rowVars
    <3> QED BY <1>1, <3>1
  <2> QED BY <2>1, <2>2, <2>3
<1>3. ASSUME NEW d \in Events, event'[d].row = b PROVE event'[d].shown
  <2>1. CASE event'[d] = event[d]
    BY <1>3, <2>1 DEF Seen
  <2>2. CASE event'[d] # event[d]
    <3>1. PICK e \in Events : BuyMoreFree(e) \/ HandleEvent(e) \/ SaleStep(e)
      BY <2>2 DEF Next, MakerStep, MakeRow, StopChain, FillRow, DeleteRow, TextStep,
                  GenerateRationales, GeneratePhrases, CheckStep, Delegate, CheckRationales,
                  CheckPhrases, Decide, MailFails, SaveBatch, EndCheck, BuyMore, PayExperts, Lose,
                  vars, webVars
    <3>2. d = e
      BY <2>2, <3>1, RequestHolds
    <3> QED BY <1>1, <1>3, <3>1, <3>2, RequestHolds
  <2> QED BY <2>1, <2>2
<1> QED BY <1>1, <1>2, <1>3 DEF Seen

\* With any number of workers and requests, whichever of them die: what is shown or bought while
\* no row is being made or is held between a read and its save is never taken back.
THEOREM SettledStays == Spec => SettledIsKept
<1> SUFFICES ASSUME NEW CONSTANT b \in Batches
             PROVE  Spec => /\ [](NoRowHeld /\ b \in bought => [](b \in bought))
                            /\ [](NoRowHeld /\ b \in visible => [](b \in visible))
  BY DEF SettledIsKept
<1>1. TypeOK /\ Given /\ NoRowHeld => NotRemade(b) \/ b \notin bought \cup visible
  BY DeliveryIds, BatchIds DEF Given, NoRowHeld, NotRemade, TypeOK, MakersOK
<1>2. TypeOK /\ Given /\ NoRowHeld /\ b \in bought => Owned(b)
  BY <1>1 DEF NoRowHeld, Owned, ChecksBusy
<1>3. TypeOK /\ Given /\ NoRowHeld /\ b \in visible => Seen(b)
  BY <1>1, DeliveryIds, BatchIds DEF NoRowHeld, Seen
<1>4. TypeOK /\ TypeOK' /\ Owned(b) /\ [Next]_vars => Owned(b)'
  BY OwnedStep
<1>5. TypeOK /\ TypeOK' /\ Seen(b) /\ [Next]_vars => Seen(b)'
  BY SeenStep
<1>6. (Owned(b) => b \in bought) /\ (Seen(b) => b \in visible)
  BY DEF Owned, Seen
<1> QED BY <1>2, <1>3, <1>4, <1>5, <1>6, GivenInvariant, DeliveryTypeCorrect, PTL DEF Spec
=============================================================================
