--------------------------- MODULE Payments_proofs ---------------------------
(* What holds of payments for every value of the constants. *)
EXTENDS PaymentsProperties, FiniteSetTheorems, WellFoundedInduction, TLAPS

(***************************************************************************)
(* Ids and prices.                                                         *)
(***************************************************************************)
LEMMA FirstOne ==
  ASSUME NEW S \in SUBSET Nat, S # {}
  PROVE  Min(S) \in S /\ \A n \in S : Min(S) <= n
<1> DEFINE less == {ss \in Nat \X Nat : ss[1] < ss[2]}
<1>1. IsWellFoundedOn(less, Nat)
  <2>1. less = OpToRel(<, Nat)
    BY DEF OpToRel
  <2> QED BY <2>1, NatLessThanWellFounded
<1>2. PICK x \in S : \A y \in S : <<y, x>> \notin less
  <2> HIDE DEF less
  <2> QED BY <1>1, WFMin
<1>3. ASSUME NEW y \in S PROVE x <= y
  <2>1. <<y, x>> \in Nat \X Nat /\ <<y, x>>[1] = y /\ <<y, x>>[2] = x
    OBVIOUS
  <2>2. ~(y < x)
    BY <1>2, <2>1, Zenon
  <2> QED BY <2>2
<1> QED BY <1>3 DEF Min

LEMMA FirstUnused ==
  /\ \A f, none : DOMAIN f \subseteq Nat /\ Unused(f, none) # {} =>
        Min(Unused(f, none)) \in DOMAIN f /\ f[Min(Unused(f, none))] = none
  /\ Min(Configs) \in Configs
<1>1. ASSUME NEW f, NEW none, DOMAIN f \subseteq Nat, Unused(f, none) # {}
      PROVE  Min(Unused(f, none)) \in DOMAIN f /\ f[Min(Unused(f, none))] = none
  <2>1. Unused(f, none) \in SUBSET Nat
    BY <1>1 DEF Unused
  <2>2. Min(Unused(f, none)) \in Unused(f, none)
    BY <1>1, <2>1, FirstOne
  <2> QED BY <2>2 DEF Unused
<1>2. Min(Configs) \in Configs
  BY ConfigAssumption, FirstOne
<1> QED BY <1>1, <1>2

\* The price never falls with the number of batches that have been paid for.
LEMMA Price ==
  ASSUME NEW n \in Nat
  PROVE  PriceOf(n) \in Nat /\ (n > 0 => PriceOf(n) >= Min({1, Prices - 1}))
<1>1. Prices - 1 \in Nat
  BY PaymentsAssumption
<1>2. /\ Min({n, Prices - 1}) \in {n, Prices - 1}
      /\ \A m \in {1, Prices - 1} : Min({1, Prices - 1}) <= m
      /\ Min({1, Prices - 1}) \in {1, Prices - 1}
  BY <1>1, FirstOne
<1> QED BY <1>1, <1>2 DEF PriceOf

LEMMA NoIds ==
  /\ NoId \notin Payments /\ NoId \notin Sessions /\ NoEvent \notin Event
  /\ NoRow \notin Row /\ NoSession \notin Session
  /\ \A row \in Row : row # NoRow /\ row.session \in Sessions /\ row.status \in Statuses
<1>1. NoId \notin Payments /\ NoId \notin Sessions
  BY PaymentsAssumption DEF NoId
<1>2. NoEvent \notin Event
  BY <1>1 DEF NoEvent, Event
<1>3. NoRow \notin Row /\ \A row \in Row : row # NoRow /\ row.session \in Sessions /\ row.status \in Statuses
  BY DEF NoRow, Row, Statuses
<1>4. NoSession \notin Session
  BY DEF NoSession, Session, Products
<1> QED BY <1>1, <1>2, <1>3, <1>4

-----------------------------------------------------------------------------
(***************************************************************************)
(* The configuration.                                                      *)
(***************************************************************************)

FirstConfig == Min(Configs)
\* Until the configuration is saved, every process sees the plan of the first migration.
Unchanging ==
    saves = 0 =>
        /\ active = {FirstConfig}
        /\ \A p \in Processes : cache[p] \in {NoConfig, FirstConfig} /\ saver[p] = NotSaving

ConfigStep ==
    \/ UNCHANGED configVars
    \/ \E p \in Processes : LoadConfig(p) \/ Expire(p) \/ SaveConfig(p)

LEMMA ConfigSteps == Next => ConfigStep
<1> SUFFICES ASSUME Next PROVE ConfigStep
  OBVIOUS
<1>1. ASSUME NEW p \in Processes, ReadConfig(p) \/ ChangeConfig(p) PROVE ConfigStep
  BY <1>1 DEF ReadConfig, ChangeConfig, ConfigStep
<1>2. ASSUME NEW w \in Web, SaveStep(w) \/ ViewStep(w) \/ EventStep(w) \/ Kill(w)
      PROVE  LoadConfig(w) \/ UNCHANGED configVars
  BY <1>2 DEF SaveStep, FindInitial, InsertPayment, PreSave, UpdatePayment, GrantExperts, FailRequest,
              ViewStep, CompleteDraft, CreatePayment, BuyMore, BuyExpert, BuyGiftCard, MakeDonation,
              EventStep, HandleEvent, HandleGift, Kill
<1>3. ASSUME NEW s \in Sessions, Pay(s) \/ Settle(s) \/ ExpireSession(s) PROVE UNCHANGED configVars
  BY <1>3 DEF Pay, Settle, ExpireSession, Report
<1> QED BY <1>1, <1>2, <1>3, PaymentsAssumption DEF Next, ConfigStep

LEMMA ConfigTypeStep ==
  ASSUME ConfigTypeOK, ConfigStep
  PROVE  ConfigTypeOK'
<1>1. CASE UNCHANGED configVars
  BY <1>1 DEF ConfigTypeOK, configVars
<1>2. ASSUME NEW p \in Processes, LoadConfig(p) PROVE ConfigTypeOK'
  <2>1. Loaded(p) \in Configs
    <3>1. active # {} => Min(active) \in active
      BY ConfigAssumption, FirstOne DEF ConfigTypeOK
    <3> QED BY <1>2, <3>1 DEF LoadConfig, CanLoad, Loaded, ConfigTypeOK
  <2> QED BY <1>2, <2>1 DEF LoadConfig, ConfigTypeOK
<1>3. ASSUME NEW p \in Processes, Expire(p) PROVE ConfigTypeOK'
  BY <1>3 DEF Expire, ConfigTypeOK
<1>4. ASSUME NEW p \in Processes, SaveConfig(p) PROVE ConfigTypeOK'
  <2>1. CASE CommitSave(p)
    <3>1. saver[p].row \in Configs
      BY <2>1 DEF CommitSave, ConfigTypeOK
    <3> QED BY <2>1, <3>1 DEF CommitSave, ConfigTypeOK
  <2>2. ASSUME NEW c \in Configs, SaveInactive(p, c) \/ BeginSave(p, c) PROVE ConfigTypeOK'
    BY <2>2 DEF SaveInactive, BeginSave, ConfigTypeOK
  <2> QED BY <1>4, <2>1, <2>2 DEF SaveConfig
<1> QED BY <1>1, <1>2, <1>3, <1>4 DEF ConfigStep

LEMMA UnchangingStep ==
  ASSUME ConfigTypeOK, Unchanging, ConfigStep
  PROVE  Unchanging'
<1>1. Min({FirstConfig}) = FirstConfig
  BY ConfigAssumption, FirstUnused, FirstOne DEF FirstConfig
<1>2. CASE UNCHANGED configVars
  BY <1>2 DEF Unchanging, configVars
<1>3. ASSUME NEW p \in Processes, LoadConfig(p) \/ Expire(p) PROVE Unchanging'
  BY <1>1, <1>3 DEF LoadConfig, Loaded, Expire, Unchanging, ConfigTypeOK
<1>4. ASSUME NEW p \in Processes, SaveConfig(p) PROVE Unchanging'
  <2>1. CASE CommitSave(p)
    BY <2>1 DEF CommitSave, Unchanging
  <2>2. CASE \E c \in Configs : SaveInactive(p, c) \/ BeginSave(p, c)
    BY <2>2 DEF SaveInactive, BeginSave, Unchanging, ConfigTypeOK
  <2> QED BY <1>4, <2>1, <2>2 DEF SaveConfig
<1> QED BY <1>2, <1>3, <1>4 DEF ConfigStep

-----------------------------------------------------------------------------
(***************************************************************************)
(* Types.  The session of a Payment, or of the one that a request is about *)
(* to write, is on sale for batches or experts.                            *)
(***************************************************************************)

OfPayment == {"batch", "expert"}
Known ==
    /\ \A i \in Payments : payment[i] # NoRow => session[payment[i].session].product \in OfPayment
    /\ \A w \in Web : req[w] # Idle => session[req[w].row.session].product \in OfPayment
    /\ \A e \in event : session[e.session] # NoSession
    /\ \A w \in Web : At(w, "experts") => req[w].row.type \in ExpertTypes /\ req[w].event # NoEvent

LEMMA RequestFields ==
  ASSUME TypeOK, NEW w \in Web, req[w] # Idle
  PROVE  /\ req[w].row \in Row
         /\ req[w] = [pc |-> req[w].pc, id |-> req[w].id, row |-> req[w].row,
                      event |-> req[w].event, flags |-> req[w].flags]
         /\ \/ /\ req[w].pc \in {"find", "insert"}
               /\ req[w].id = NoId /\ req[w].event = NoEvent /\ req[w].flags = {}
            \/ /\ req[w].pc \in {"presave", "update", "experts"}
               /\ req[w].id \in Payments /\ req[w].event \in Event \cup {NoEvent}
               /\ req[w].flags \in SUBSET Flags
<1>1. req[w] \in Request
  BY DEF TypeOK, PaymentsTypeOK
<1> QED BY <1>1 DEF Request

LEMMA RequestTypes ==
  /\ Idle \in Request
  /\ \A pc \in {"find", "insert"}, row \in Row :
        [pc |-> pc, id |-> NoId, row |-> row, event |-> NoEvent, flags |-> {}] \in Request
  /\ \A pc \in {"presave", "update", "experts"}, i \in Payments, row \in Row,
        e \in Event \cup {NoEvent}, fs \in SUBSET Flags :
        [pc |-> pc, id |-> i, row |-> row, event |-> e, flags |-> fs] \in Request
  BY DEF Request

\* The fields that the steps test.
LEMMA Busy ==
  ASSUME TypeOK, NEW w \in Web
  PROVE  req[w].pc \in {"find", "insert", "presave", "update", "experts"} <=> req[w] # Idle
<1>1. CASE req[w] = Idle
  BY <1>1 DEF Idle
<1>2. CASE req[w] # Idle
  BY <1>2, RequestFields
<1> QED BY <1>1, <1>2

LEMMA PaymentsInitType == Init => TypeOK /\ Known /\ Unchanging
<1> SUFFICES ASSUME Init PROVE TypeOK /\ Known /\ Unchanging
  OBVIOUS
<1>1. ConfigTypeOK /\ Unchanging
  BY FirstUnused DEF Init, InitConfig, ConfigTypeOK, Unchanging, FirstConfig
<1>2. PaymentsTypeOK
  BY RequestTypes DEF Init, PaymentsTypeOK
<1>3. Known
  BY DEF Init, Known, Idle, At, NoRow
<1> QED BY <1>1, <1>2, <1>3 DEF TypeOK

\* CreatePayment, BuyMore and BuyExpert ask for a session and go on to save a row with its id.
Purchasing(w, s, row, pc) ==
    /\ w \in env.web /\ req[w] = Idle
    /\ row.q \in questionnaire /\ row.status = "open" /\ row.session = s
    /\ session[s] = NoSession
    /\ \E product \in OfPayment, price \in Nat :
        /\ session' = [session EXCEPT ![s] =
                          [product |-> product, price |-> price, state |-> "created"]]
        /\ row.type = "buy_more" => price >= Min({1, Prices - 1})
        /\ row.type = "initial" => product = "batch"
    /\ row.type = "initial" => pc = "find" /\ ~HasCompleted(row.q)
    /\ row.type # "initial" => pc = "insert"
    /\ req' = [req EXCEPT ![w] = [Idle EXCEPT !.pc = pc, !.row = row]]
    /\ UNCHANGED <<env, rowVars, event, repeats, kills>>

LEMMA Paid ==
  ASSUME TypeOK
  PROVE  /\ PriceOf(BoughtBatches) \in Nat
         /\ CompletedRows # {} => PriceOf(BoughtBatches) >= Min({1, Prices - 1})
<1>1. CompletedRows \subseteq Payments /\ IsFiniteSet(CompletedRows)
  BY PaymentsAssumption, FS_Subset DEF CompletedRows
<1>2. Cardinality(CompletedRows) \in Nat /\ (CompletedRows # {} => Cardinality(CompletedRows) > 0)
  BY <1>1, FS_CardinalityType, FS_EmptySet
<1> QED BY <1>2, Price DEF BoughtBatches

LEMMA PurchaseShape ==
  ASSUME TypeOK, NEW w \in Web, NEW q \in Questionnaires,
         CreatePayment(w, q) \/ BuyMore(w, q) \/ (\E plus \in BOOLEAN : BuyExpert(w, q, plus))
  PROVE  \E s \in Sessions, row \in Row, pc \in {"find", "insert"} : Purchasing(w, s, row, pc)
<1> DEFINE s == NewId
<1>1. /\ w \in env.web /\ req[w] = Idle /\ q \in questionnaire
      /\ UNCHANGED <<env, rowVars, event, repeats, kills>>
  BY DEF CreatePayment, BuyMore, BuyExpert, Ready
<1>2. PICK product \in OfPayment, price \in Nat :
        /\ NewSession(product, price, "created")
        /\ HasCompleted(q) => price >= Min({1, Prices - 1}) \/ ~BuyMore(w, q)
        /\ CreatePayment(w, q) => product = "batch"
  <2>1. HasCompleted(q) => CompletedRows # {}
    BY DEF HasCompleted, Completed
  <2>2. CASE CreatePayment(w, q) \/ BuyMore(w, q)
    BY <2>1, <2>2, Paid DEF CreatePayment, BuyMore, BatchSession, OfPayment
  <2>3. CASE ~(CreatePayment(w, q) \/ BuyMore(w, q))
    BY <2>3 DEF BuyExpert, ExpertSession, OfPayment
  <2> QED BY <2>2, <2>3
<1>3. /\ s \in Sessions /\ session[s] = NoSession
      /\ session' = [session EXCEPT ![s] = [product |-> product, price |-> price, state |-> "created"]]
  <2>1. DOMAIN session = Sessions /\ Sessions \subseteq Nat
    BY PaymentsAssumption DEF TypeOK, PaymentsTypeOK
  <2> QED BY <1>2, <2>1, FirstUnused DEF NewSession, NewId
<1> HIDE DEF s
<1>4. ASSUME NEW type \in PaymentTypes PROVE
        /\ [q |-> q, type |-> type, status |-> "open", session |-> s] \in Row
  BY <1>3, <1>4 DEF Row, Statuses
<1>5. CASE CreatePayment(w, q)
  <2> DEFINE row == [q |-> q, type |-> "initial", status |-> "open", session |-> s]
  <2>1. row \in Row
    BY <1>4 DEF PaymentTypes
  <2>2. req' = [req EXCEPT ![w] = [Idle EXCEPT !.pc = "find", !.row = row]]
    <3>1. row = Open(q, "initial")
      BY DEF Open, s
    <3> QED BY <1>5, <3>1 DEF CreatePayment
  <2>3. ~HasCompleted(q) /\ product = "batch"
    BY <1>2, <1>5 DEF CreatePayment
  <2>4. row.q = q /\ row.type = "initial" /\ row.status = "open" /\ row.session = s
    OBVIOUS
  <2> HIDE DEF row
  <2>5. Purchasing(w, s, row, "find")
    BY <1>1, <1>3, <2>2, <2>3, <2>4 DEF Purchasing
  <2> QED BY <1>3, <2>1, <2>5
<1>6. CASE BuyMore(w, q)
  <2> DEFINE row == [q |-> q, type |-> "buy_more", status |-> "open", session |-> s]
  <2>1. row \in Row
    BY <1>4 DEF PaymentTypes
  <2>2. req' = [req EXCEPT ![w] = [Idle EXCEPT !.pc = "insert", !.row = row]]
    <3>1. row = Open(q, "buy_more")
      BY DEF Open, s
    <3> QED BY <1>6, <3>1 DEF BuyMore
  <2>3. price >= Min({1, Prices - 1})
    BY <1>2, <1>6 DEF BuyMore
  <2>4. row.q = q /\ row.type = "buy_more" /\ row.status = "open" /\ row.session = s
    OBVIOUS
  <2> HIDE DEF row
  <2>5. Purchasing(w, s, row, "insert")
    BY <1>1, <1>3, <2>2, <2>3, <2>4 DEF Purchasing
  <2> QED BY <1>3, <2>1, <2>5
<1>7. ASSUME NEW plus \in BOOLEAN, BuyExpert(w, q, plus)
      PROVE  \E s_1 \in Sessions, row \in Row, pc \in {"find", "insert"} : Purchasing(w, s_1, row, pc)
  <2> DEFINE row == [q |-> q, type |-> ExpertType(plus, flags[q]), status |-> "open", session |-> s]
  <2>1. ExpertType(plus, flags[q]) \in ExpertTypes
    BY DEF ExpertType, ExpertTypes
  <2>2. row \in Row
    BY <1>4, <2>1 DEF PaymentTypes
  <2>3. req' = [req EXCEPT ![w] = [Idle EXCEPT !.pc = "insert", !.row = row]]
    <3>1. row = Open(q, ExpertType(plus, flags[q]))
      BY DEF Open, s
    <3> QED BY <1>7, <3>1 DEF BuyExpert
  <2>4. row.q = q /\ row.type \in ExpertTypes /\ row.status = "open" /\ row.session = s
    BY <2>1
  <2>5. row.type \notin {"initial", "buy_more"}
    BY <2>4 DEF ExpertTypes
  <2> HIDE DEF row
  <2>6. Purchasing(w, s, row, "insert")
    BY <1>1, <1>3, <2>3, <2>4, <2>5 DEF Purchasing
  <2> QED BY <1>3, <2>2, <2>6
<1> QED BY <1>5, <1>6, <1>7

LEMMA PurchaseFields ==
  ASSUME TypeOK, NEW w \in Web, NEW s \in Sessions, NEW row \in Row, NEW pc \in {"find", "insert"},
         Purchasing(w, s, row, pc)
  PROVE  /\ req'[w].pc = pc /\ req'[w].row = row /\ req'[w].event = NoEvent /\ req'[w] # Idle
         /\ req' \in [Web -> Request] /\ \A v \in Web \ {w} : req'[v] = req[v]
         /\ session'[s].product \in OfPayment /\ session'[s].state = "created"
         /\ row.type = "buy_more" => session'[s].price >= Min({1, Prices - 1})
         /\ row.type = "initial" => session'[s].product = "batch"
         /\ session' \in [Sessions -> Session \cup {NoSession}]
         /\ \A t \in Sessions \ {s} : session'[t] = session[t]
<1> DEFINE r == [Idle EXCEPT !.pc = pc, !.row = row]
<1>1. req' = [req EXCEPT ![w] = r]
  BY DEF Purchasing
<1>2. r \in Request /\ r.pc = pc /\ r.row = row /\ r.event = NoEvent /\ r # Idle
  BY DEF Request, Idle
<1> HIDE DEF r
<1>3. /\ req'[w].pc = pc /\ req'[w].row = row /\ req'[w].event = NoEvent /\ req'[w] # Idle
      /\ req' \in [Web -> Request] /\ \A v \in Web \ {w} : req'[v] = req[v]
  BY <1>1, <1>2 DEF TypeOK, PaymentsTypeOK
<1>4. PICK product \in OfPayment, price \in Nat :
        /\ session' = [session EXCEPT ![s] =
                          [product |-> product, price |-> price, state |-> "created"]]
        /\ row.type = "buy_more" => price >= Min({1, Prices - 1})
        /\ row.type = "initial" => product = "batch"
  BY DEF Purchasing
<1>5. [product |-> product, price |-> price, state |-> "created"] \in Session
  BY DEF Session, Products, OfPayment
<1> QED BY <1>3, <1>4, <1>5 DEF TypeOK, PaymentsTypeOK

\* A step keeps what is known as long as sessions stay and rows come from requests.
LEMMA KnownFrame ==
  ASSUME TypeOK, Known,
         \A t \in Sessions : session[t] # NoSession =>
            session'[t] # NoSession /\ session'[t].product = session[t].product,
         \A i \in Payments : \/ payment'[i] = payment[i]
                             \/ \E w \in Web : req[w] # Idle /\ payment'[i] = req[w].row,
         \A w \in Web :
            \/ req'[w] = Idle \/ req'[w] = req[w]
            \/ req[w] # Idle /\ req'[w].row.session = req[w].row.session
            \/ \E i \in Payments : payment[i] # NoRow /\ req'[w].row.session = payment[i].session,
         \A e \in event' : e \in event \/ (e \in Event /\ session[e.session] # NoSession),
         \A w \in Web : \/ req'[w] = req[w] \/ req'[w].pc # "experts"
                        \/ req'[w].row.type \in ExpertTypes /\ req'[w].event # NoEvent
  PROVE  Known'
<1>1. \A t \in Sessions : session[t].product \in OfPayment => session'[t].product \in OfPayment
  BY DEF NoSession, OfPayment
<1>2. /\ \A i \in Payments : payment[i] # NoRow => payment[i].session \in Sessions
      /\ \A w \in Web : req[w] # Idle => req[w].row.session \in Sessions
      /\ \A e \in event : e.session \in Sessions
  <2>1. \A i \in Payments : payment[i] # NoRow => payment[i].session \in Sessions
    BY NoIds DEF TypeOK, PaymentsTypeOK
  <2>2. \A w \in Web : req[w] # Idle => req[w].row.session \in Sessions
    BY NoIds, RequestFields
  <2>3. \A e \in event : e.session \in Sessions
    BY DEF TypeOK, PaymentsTypeOK, Event
  <2> QED BY <2>1, <2>2, <2>3
<1>3. \A i \in Payments : payment'[i] # NoRow => session'[payment'[i].session].product \in OfPayment
  BY <1>1, <1>2 DEF Known
<1>4. \A w \in Web : req'[w] # Idle => session'[req'[w].row.session].product \in OfPayment
  BY <1>1, <1>2 DEF Known
<1>5. \A e \in event' : session'[e.session] # NoSession
  BY <1>2 DEF Known, Event
<1>6. \A w \in Web : req'[w].pc = "experts" => req'[w].row.type \in ExpertTypes /\ req'[w].event # NoEvent
  BY DEF Known, At
<1> QED BY <1>3, <1>4, <1>5, <1>6 DEF Known, At

LEMMA TypesPurchase ==
  ASSUME TypeOK, Known, NEW w \in Web, NEW q \in Questionnaires,
         CreatePayment(w, q) \/ BuyMore(w, q) \/ (\E plus \in BOOLEAN : BuyExpert(w, q, plus))
  PROVE  PaymentsTypeOK' /\ Known'
<1>1. PICK s \in Sessions, row \in Row, pc \in {"find", "insert"} : Purchasing(w, s, row, pc)
  BY PurchaseShape
<1>2. UNCHANGED <<env, questionnaire, first, flags, payment, asked, granted, event, repeats, kills>>
  BY <1>1 DEF Purchasing, rowVars
<1>3. PaymentsTypeOK'
  BY <1>1, <1>2, PurchaseFields DEF TypeOK, PaymentsTypeOK
<1>4. /\ session'[s].product \in OfPayment /\ session[s] = NoSession /\ row.session = s
      /\ \A t \in Sessions \ {s} : session'[t] = session[t]
      /\ req'[w].row = row /\ req'[w].pc # "experts" /\ \A v \in Web \ {w} : req'[v] = req[v]
      /\ req[w] = Idle
  <2>1. session[s] = NoSession /\ row.session = s /\ req[w] = Idle
    BY <1>1 DEF Purchasing
  <2>2. /\ session'[s].product \in OfPayment /\ \A t \in Sessions \ {s} : session'[t] = session[t]
        /\ req'[w].row = row /\ req'[w].pc = pc /\ \A v \in Web \ {w} : req'[v] = req[v]
    BY <1>1, PurchaseFields
  <2> QED BY <2>1, <2>2
<1>5. /\ \A i \in Payments : payment[i] # NoRow => payment[i].session \in Sessions \ {s}
      /\ \A v \in Web \ {w} : req[v] # Idle => req[v].row.session \in Sessions \ {s}
      /\ \A e \in event : e.session \in Sessions \ {s}
  <2>1. session[s].product \notin OfPayment
    BY <1>4 DEF NoSession, OfPayment
  <2>2. \A i \in Payments : payment[i] # NoRow => payment[i].session \in Sessions
    BY NoIds DEF TypeOK, PaymentsTypeOK
  <2>3. \A v \in Web : req[v] # Idle => req[v].row.session \in Sessions
    BY NoIds, RequestFields
  <2>4. \A e \in event : e.session \in Sessions
    BY DEF TypeOK, PaymentsTypeOK, Event
  <2> QED BY <1>4, <2>1, <2>2, <2>3, <2>4 DEF Known
<1>6. Known'
  <2>1. \A i \in Payments : payment'[i] # NoRow => session'[payment'[i].session].product \in OfPayment
    BY <1>2, <1>4, <1>5 DEF Known
  <2>2. \A v \in Web : req'[v] # Idle => session'[req'[v].row.session].product \in OfPayment
    BY <1>4, <1>5 DEF Known
  <2>3. \A e \in event' : session'[e.session] # NoSession
    BY <1>2, <1>4, <1>5 DEF Known
  <2>4. \A v \in Web : req'[v].pc = "experts" => req'[v].row.type \in ExpertTypes /\ req'[v].event # NoEvent
    BY <1>4 DEF Known, At
  <2> QED BY <2>1, <2>2, <2>3, <2>4 DEF Known, At
<1> QED BY <1>3, <1>6

LEMMA GiftShape ==
  ASSUME TypeOK, NEW w \in Web, BuyGiftCard(w) \/ MakeDonation(w)
  PROVE  /\ \E s \in Sessions : /\ session[s] = NoSession /\ session'[s] # NoSession
                                /\ session'[s].product \notin OfPayment /\ session'[s].state = "open"
                                /\ \A t \in Sessions \ {s} : session'[t] = session[t]
         /\ session' \in [Sessions -> Session \cup {NoSession}]
         /\ UNCHANGED <<env, questionnaire, first, flags, payment, asked, granted, event, repeats, req,
                        kills>>
<1>1. PICK product \in {"gift_card", "donation"} : NewSession(product, 0, "open")
  BY DEF BuyGiftCard, MakeDonation, GiftCardSession, DonationSession
<1> DEFINE new == [product |-> product, price |-> 0, state |-> "open"]
<1>2. new \in Session /\ new # NoSession /\ new.product \notin OfPayment /\ new.state = "open"
  BY NoIds DEF Session, Products, OfPayment
<1>3. PICK s \in Sessions : session[s] = NoSession /\ session' = [session EXCEPT ![s] = new]
  <2>1. DOMAIN session = Sessions /\ Sessions \subseteq Nat
    BY PaymentsAssumption DEF TypeOK, PaymentsTypeOK
  <2> QED BY <1>1, <2>1, FirstUnused DEF NewSession
<1> HIDE DEF new
<1>4. /\ session'[s] = new /\ session' \in [Sessions -> Session \cup {NoSession}]
      /\ \A t \in Sessions \ {s} : session'[t] = session[t]
  BY <1>2, <1>3 DEF TypeOK, PaymentsTypeOK
<1>5. UNCHANGED <<env, questionnaire, first, flags, payment, asked, granted, event, repeats, req, kills>>
  BY DEF BuyGiftCard, MakeDonation, rowVars
<1> QED BY <1>2, <1>3, <1>4, <1>5

\* Steps that leave the rows, the sessions and the events of payments alone.
LEMMA TypesOthers ==
  ASSUME TypeOK, Known,
         \/ \E p \in Processes : ReadConfig(p) \/ ChangeConfig(p)
         \/ \E w \in Web : \/ \E q \in Questionnaires : CompleteDraft(w, q)
                           \/ BuyGiftCard(w) \/ MakeDonation(w) \/ FailRequest(w) \/ Kill(w)
                           \/ \E e \in event : HandleGift(w, e)
  PROVE  PaymentsTypeOK' /\ Known'
<1>0. PaymentsTypeOK /\ req \in [Web -> Request] /\ first \in [Questionnaires -> Nat]
  BY DEF TypeOK, PaymentsTypeOK
<1>1. CASE \/ \E p \in Processes : ReadConfig(p) \/ ChangeConfig(p)
           \/ \E w \in Web, q \in Questionnaires : CompleteDraft(w, q)
  <2>1. UNCHANGED <<env, flags, payment, asked, granted, session, event, repeats, req, kills>>
    BY <1>1 DEF ReadConfig, ChangeConfig, CompleteDraft, rowVars, stripeVars
  <2>2. questionnaire' \subseteq Questionnaires /\ first' \in [Questionnaires -> Nat]
    BY <1>0, <1>1 DEF ReadConfig, ChangeConfig, CompleteDraft, rowVars, PaymentsTypeOK
  <2>3. PaymentsTypeOK'
    BY <1>0, <2>1, <2>2 DEF PaymentsTypeOK
  <2>4. Known'
    BY <2>1 DEF Known, At
  <2> QED BY <2>3, <2>4
<1>2. ASSUME NEW w \in Web, BuyGiftCard(w) \/ MakeDonation(w) PROVE PaymentsTypeOK' /\ Known'
  <2>1. PaymentsTypeOK'
    BY <1>0, <1>2, GiftShape DEF PaymentsTypeOK
  <2>2. /\ \A t \in Sessions : session[t] # NoSession => session'[t] = session[t]
        /\ payment' = payment /\ req' = req /\ event' = event
    BY <1>2, GiftShape
  <2>3. Known'
    BY <2>2, KnownFrame
  <2> QED BY <2>1, <2>3
<1>3. ASSUME NEW w \in Web, FailRequest(w) \/ Kill(w) PROVE PaymentsTypeOK' /\ Known'
  <2>1. /\ UNCHANGED <<env, questionnaire, first, flags, payment, asked, granted, session, event, repeats>>
        /\ kills' \in Nat /\ req' = [req EXCEPT ![w] = Idle]
    BY <1>0, <1>3 DEF FailRequest, Kill, Done, rowVars, stripeVars, PaymentsTypeOK
  <2>2. req' \in [Web -> Request] /\ \A v \in Web : req'[v] = Idle \/ req'[v] = req[v]
    BY <1>0, <2>1, RequestTypes
  <2>3. PaymentsTypeOK'
    BY <1>0, <2>1, <2>2 DEF PaymentsTypeOK
  <2>4. Known'
    BY <2>1, <2>2 DEF Known, At, Idle
  <2> QED BY <2>3, <2>4
<1>4. ASSUME NEW w \in Web, NEW e \in event, HandleGift(w, e) PROVE PaymentsTypeOK' /\ Known'
  <2>1. /\ UNCHANGED <<env, questionnaire, first, flags, payment, asked, session, req, kills>>
        /\ event' \subseteq event /\ repeats' \in Nat
    BY <1>0, <1>4 DEF HandleGift, Answered, PaymentsTypeOK
  <2>2. granted' \in [Sessions -> Nat]
    BY <1>0, <1>4 DEF HandleGift, PromoCodes, Thanks, GrantGift, PaymentsTypeOK
  <2>3. PaymentsTypeOK'
    BY <1>0, <2>1, <2>2 DEF PaymentsTypeOK
  <2>4. Known'
    BY <2>1 DEF Known, At
  <2> QED BY <2>3, <2>4
<1> QED BY <1>1, <1>2, <1>3, <1>4

\* A request that looks for the row to save.
LEMMA FindShape ==
  ASSUME TypeOK, NEW w \in Web, FindInitial(w)
  PROVE  /\ req[w].pc = "find" /\ req[w] # Idle /\ \A v \in Web \ {w} : req'[v] = req[v]
         /\ req' \in [Web -> Request]
         /\ req'[w].event = NoEvent /\ req[w].event = NoEvent
         /\ \/ /\ InProgress(req[w].row.q) = {}
               /\ req'[w].pc = "insert" /\ req'[w].row = req[w].row
            \/ \E i \in InProgress(req[w].row.q) :
                  /\ req'[w].pc = "presave" /\ req'[w].id = i
                  /\ req'[w].row.status = payment[i].status
                  /\ req'[w].row.q = req[w].row.q /\ req'[w].row.type = req[w].row.type
                  /\ req'[w].row.session = req[w].row.session
<1> DEFINE rows == InProgress(req[w].row.q)
<1>0. req[w].pc = "find" /\ req[w] # Idle /\ req \in [Web -> Request]
  BY DEF FindInitial, At, Idle, TypeOK, PaymentsTypeOK
<1>1. /\ req[w].row \in Row /\ req[w].id = NoId /\ req[w].event = NoEvent /\ req[w].flags = {}
  BY <1>0, RequestFields
<1>2. CASE rows = {}
  <2> DEFINE r == [req[w] EXCEPT !.pc = "insert"]
  <2>1. req' = [req EXCEPT ![w] = r]
    BY <1>2 DEF FindInitial
  <2>2. /\ r.pc = "insert" /\ r.row = req[w].row /\ r.event = NoEvent
    BY <1>0, <1>1 DEF Request
  <2>3. r \in Request
    BY <1>0, <1>1 DEF Request
  <2> HIDE DEF r
  <2> QED BY <1>0, <1>1, <1>2, <2>1, <2>2, <2>3
<1>3. CASE rows # {}
  <2> DEFINE i == Min(rows)
             row == [req[w].row EXCEPT !.status = payment[i].status]
             r == [req[w] EXCEPT !.pc = "presave", !.id = i, !.row = row]
  <2>1. i \in InProgress(req[w].row.q)
    <3>1. rows \in SUBSET Nat
      BY PaymentsAssumption DEF InProgress, RowsOf
    <3> QED BY <1>3, <3>1, FirstOne
  <2>2. req' = [req EXCEPT ![w] = r]
    BY <1>3 DEF FindInitial
  <2>3. i \in Payments /\ payment[i].status \in Statuses
    BY <2>1, NoIds DEF InProgress, RowsOf, TypeOK, PaymentsTypeOK
  <2> HIDE DEF i
  <2>4. /\ row \in Row /\ row.status = payment[i].status /\ row.q = req[w].row.q
        /\ row.type = req[w].row.type /\ row.session = req[w].row.session
    BY <1>1, <2>3 DEF Row
  <2> HIDE DEF row
  <2>5. r.pc = "presave" /\ r.id = i /\ r.row = row /\ r.event = NoEvent
    BY <1>0, <1>1 DEF Request
  <2>6. r \in Request
    BY <1>0, <1>1, <2>3, <2>4 DEF Request
  <2> HIDE DEF r
  <2>7. /\ req'[w] = r /\ req' \in [Web -> Request] /\ \A v \in Web \ {w} : req'[v] = req[v]
    BY <1>0, <2>2, <2>6
  <2> QED BY <1>0, <1>1, <2>1, <2>4, <2>5, <2>7
<1> QED BY <1>2, <1>3

LEMMA InsertShape ==
  ASSUME TypeOK, NEW w \in Web, InsertPayment(w)
  PROVE  /\ req[w].pc = "insert" /\ req[w] # Idle /\ req[w].event = NoEvent /\ req' = [req EXCEPT ![w] = Idle]
         /\ \E i \in Payments : /\ payment[i] = NoRow
                                /\ payment' = [payment EXCEPT ![i] = req[w].row]
         /\ session' = [session EXCEPT ![req[w].row.session].state = "open"]
         /\ UNCHANGED <<env, questionnaire, first, flags, asked, granted, event, repeats, kills>>
<1>1. PICK i \in Payments : payment[i] = NoRow /\ payment' = [payment EXCEPT ![i] = req[w].row]
  <2>1. DOMAIN payment = Payments /\ Payments \subseteq Nat
    BY PaymentsAssumption DEF TypeOK, PaymentsTypeOK
  <2> QED BY <2>1, FirstUnused DEF InsertPayment
<1>2. /\ req[w].pc = "insert" /\ req[w] # Idle
  BY DEF InsertPayment, At, Idle
<1>3. req[w].event = NoEvent
  BY <1>2, RequestFields
<1> QED BY <1>1, <1>2, <1>3 DEF InsertPayment, Done, OpenSession

\* The update of a row and what follows it.
LEMMA UpdateShape ==
  ASSUME TypeOK, NEW w \in Web, UpdatePayment(w)
  PROVE  /\ req[w].pc = "update" /\ req[w] # Idle /\ req[w].id \in Payments /\ req[w].row \in Row
         /\ payment' = [payment EXCEPT ![req[w].id] = req[w].row]
         /\ UNCHANGED <<env, questionnaire, first, flags, granted, kills>>
         /\ asked' \subseteq asked \cup {req[w].id} /\ repeats' \in Nat
         /\ \/ /\ req' = [req EXCEPT ![w] = Idle] /\ UNCHANGED <<session, event>>
            \/ /\ req' = [req EXCEPT ![w] = Idle] /\ event' = event /\ req[w].event = NoEvent
               /\ session' = [session EXCEPT ![req[w].row.session].state = "open"]
            \/ /\ req' = [req EXCEPT ![w].pc = "experts"] /\ UNCHANGED <<session, event>>
               /\ req[w].event # NoEvent
               /\ req[w].row.status = "completed" /\ req[w].row.type \in ExpertTypes
            \/ /\ req' = [req EXCEPT ![w] = Idle] /\ UNCHANGED session
               /\ req[w].event # NoEvent /\ event' \subseteq event /\ event \subseteq event' \cup {req[w].event}
               /\ ~(req[w].row.status = "completed" /\ req[w].row.type \in ExpertTypes)
<1>1. req[w].pc = "update" /\ req[w] # Idle
  BY DEF UpdatePayment, At, Idle
<1>2. req[w].id \in Payments /\ req[w].row \in Row
  BY <1>1, RequestFields
<1>3. asked' \subseteq asked \cup {req[w].id} /\ repeats' \in Nat
  BY DEF UpdatePayment, Answered, stripeVars, TypeOK, PaymentsTypeOK
<1>4. /\ payment' = [payment EXCEPT ![req[w].id] = req[w].row]
      /\ UNCHANGED <<env, questionnaire, first, flags, granted, kills>>
  BY DEF UpdatePayment
<1>5. \/ /\ req' = [req EXCEPT ![w] = Idle] /\ UNCHANGED <<session, event>>
      \/ /\ req' = [req EXCEPT ![w] = Idle] /\ event' = event /\ req[w].event = NoEvent
         /\ session' = [session EXCEPT ![req[w].row.session].state = "open"]
      \/ /\ req' = [req EXCEPT ![w].pc = "experts"] /\ UNCHANGED <<session, event>>
         /\ req[w].event # NoEvent
         /\ req[w].row.status = "completed" /\ req[w].row.type \in ExpertTypes
      \/ /\ req' = [req EXCEPT ![w] = Idle] /\ UNCHANGED session
         /\ req[w].event # NoEvent /\ event' \subseteq event /\ event \subseteq event' \cup {req[w].event}
         /\ ~(req[w].row.status = "completed" /\ req[w].row.type \in ExpertTypes)
  BY DEF UpdatePayment, Answered, Goto, Done, OpenSession, stripeVars
<1> QED BY <1>1, <1>2, <1>3, <1>4, <1>5

LEMMA HandleShape ==
  ASSUME TypeOK, NEW w \in Web, NEW e \in event, HandleEvent(w, e)
  PROVE  \E i \in Payments :
            /\ payment[i] \in Row /\ payment[i].session = e.session
            /\ w \in env.web /\ req[w] = Idle
            /\ req'[w].pc = "presave" /\ req'[w].id = i /\ req'[w].event = e
            /\ req'[w].row = [payment[i] EXCEPT !.status = NewStatus(e.type)]
            /\ req'[w].flags = flags[payment[i].q]
            /\ req' \in [Web -> Request] /\ \A v \in Web \ {w} : req'[v] = req[v]
            /\ UNCHANGED <<env, rowVars, stripeVars, kills>>
<1>1. PICK i \in PaymentsOf(e) :
        req' = [req EXCEPT ![w] = [pc |-> "presave", id |-> i, event |-> e,
            row |-> [payment[i] EXCEPT !.status = NewStatus(e.type)], flags |-> flags[payment[i].q]]]
  BY DEF HandleEvent
<1>2. e \in Event /\ e.session \in Sessions /\ i \in Payments /\ payment[i].session = e.session
  BY DEF TypeOK, PaymentsTypeOK, Event, PaymentsOf
<1>3. payment[i] \in Row
  BY <1>2, NoIds DEF NoRow, TypeOK, PaymentsTypeOK
<1> DEFINE row == [payment[i] EXCEPT !.status = NewStatus(e.type)]
           r == [pc |-> "presave", id |-> i, event |-> e, row |-> row, flags |-> flags[payment[i].q]]
<1>4. row \in Row
  BY <1>3 DEF Row, NewStatus, Statuses
<1>5. flags[payment[i].q] \in SUBSET Flags
  BY <1>3 DEF Row, TypeOK, PaymentsTypeOK
<1>6. req' = [req EXCEPT ![w] = r]
  BY <1>1
<1>7. r.row = row /\ r.pc = "presave" /\ r.id = i /\ r.event = e /\ r.flags = flags[payment[i].q]
  OBVIOUS
<1> HIDE DEF row
<1>8. r \in Request
  BY <1>2, <1>4, <1>5 DEF Request
<1> HIDE DEF r
<1>9. req'[w] = r /\ req' \in [Web -> Request] /\ \A v \in Web \ {w} : req'[v] = req[v]
  BY <1>6, <1>8 DEF TypeOK, PaymentsTypeOK
<1>10. w \in env.web /\ req[w] = Idle /\ UNCHANGED <<env, rowVars, stripeVars, kills>>
  BY DEF HandleEvent, Ready
<1> QED BY <1>2, <1>3, <1>7, <1>9, <1>10 DEF row

LEMMA SessionOpened ==
  ASSUME TypeOK, NEW s \in Sessions, session[s] # NoSession, NEW state \in {"open", "paid", "processing", "failed", "expired"},
         session' = [session EXCEPT ![s].state = state]
  PROVE  /\ session' \in [Sessions -> Session \cup {NoSession}]
         /\ session'[s] # NoSession /\ session'[s].product = session[s].product
         /\ session'[s].price = session[s].price /\ session'[s].state = state
         /\ \A t \in Sessions \ {s} : session'[t] = session[t]
<1>1. session[s] \in Session /\ session \in [Sessions -> Session \cup {NoSession}]
  BY DEF TypeOK, PaymentsTypeOK
<1> DEFINE new == [session[s] EXCEPT !.state = state]
<1>2. /\ new \in Session /\ new.product = session[s].product /\ new.price = session[s].price
      /\ new.state = state
  BY <1>1 DEF Session
<1>3. new # NoSession
  BY <1>2, NoIds
<1>4. session' = [session EXCEPT ![s] = new]
  OBVIOUS
<1> HIDE DEF new
<1> QED BY <1>1, <1>2, <1>3, <1>4

LEMMA KnownSessions ==
  ASSUME TypeOK, Known
  PROVE  /\ \A i \in Payments : payment[i] # NoRow =>
                payment[i].session \in Sessions /\ session[payment[i].session] # NoSession
         /\ \A w \in Web : req[w] # Idle =>
                req[w].row.session \in Sessions /\ session[req[w].row.session] # NoSession
         /\ \A e \in event : e \in Event /\ e.session \in Sessions
<1>1. \A t : session[t].product \in OfPayment => session[t] # NoSession
  BY DEF NoSession, OfPayment
<1>2. \A i \in Payments : payment[i] # NoRow => payment[i].session \in Sessions
  BY NoIds DEF TypeOK, PaymentsTypeOK
<1>3. \A w \in Web : req[w] # Idle => req[w].row.session \in Sessions
  BY NoIds, RequestFields
<1>4. \A e \in event : e \in Event /\ e.session \in Sessions
  BY DEF TypeOK, PaymentsTypeOK, Event
<1> QED BY <1>1, <1>2, <1>3, <1>4 DEF Known

LEMMA RequestMoved ==
  ASSUME TypeOK, NEW w \in Web, req[w].pc \in {"presave", "update"}, NEW pc \in {"update", "experts"},
         req' = [req EXCEPT ![w].pc = pc]
  PROVE  /\ req' \in [Web -> Request] /\ \A v \in Web \ {w} : req'[v] = req[v]
         /\ req'[w].pc = pc /\ req'[w].row = req[w].row /\ req'[w].id = req[w].id
         /\ req'[w].event = req[w].event /\ req'[w].flags = req[w].flags
<1> DEFINE r == [req[w] EXCEPT !.pc = pc]
<1>1. req[w] \in [pc : {"presave", "update", "experts"}, id : Payments, row : Row,
                  event : Event \cup {NoEvent}, flags : SUBSET Flags]
  <2>1. req[w] \in Request /\ req[w] # Idle
    BY DEF TypeOK, PaymentsTypeOK, Idle
  <2> QED BY <2>1 DEF Request
<1>2. r \in [pc : {"presave", "update", "experts"}, id : Payments, row : Row,
            event : Event \cup {NoEvent}, flags : SUBSET Flags]
  BY <1>1
<1>3. /\ r.pc = pc /\ r.row = req[w].row /\ r.id = req[w].id /\ r.event = req[w].event
      /\ r.flags = req[w].flags
  BY <1>1
<1>4. req' = [req EXCEPT ![w] = r]
  OBVIOUS
<1> HIDE DEF r
<1>5. r \in Request
  BY <1>2 DEF Request
<1> QED BY <1>3, <1>4, <1>5 DEF TypeOK, PaymentsTypeOK

LEMMA TypesSave ==
  ASSUME TypeOK, Known, NEW w \in Web,
         \/ FindInitial(w) \/ InsertPayment(w) \/ PreSave(w) \/ UpdatePayment(w) \/ GrantExperts(w)
         \/ \E e \in event : HandleEvent(w, e)
  PROVE  PaymentsTypeOK' /\ Known'
<1>0. /\ PaymentsTypeOK /\ req \in [Web -> Request] /\ payment \in [Payments -> Row \cup {NoRow}]
      /\ first \in [Questionnaires -> Nat] /\ flags \in [Questionnaires -> SUBSET Flags]
  BY DEF TypeOK, PaymentsTypeOK
<1>1. CASE FindInitial(w)
  <2>1. UNCHANGED <<env, questionnaire, first, flags, payment, session, asked, granted, event, repeats, kills>>
    BY <1>1 DEF FindInitial, rowVars, stripeVars
  <2>2. PaymentsTypeOK'
    BY <1>0, <1>1, <2>1, FindShape DEF PaymentsTypeOK
  <2>3. /\ req[w] # Idle /\ req'[w].row.session = req[w].row.session /\ req'[w].pc # "experts"
        /\ \A v \in Web \ {w} : req'[v] = req[v]
    BY <1>1, FindShape
  <2>4. Known'
    BY <2>1, <2>3, KnownFrame
  <2> QED BY <2>2, <2>4
<1>2. CASE InsertPayment(w)
  <2>1. PICK i \in Payments : payment' = [payment EXCEPT ![i] = req[w].row]
    BY <1>2, InsertShape
  <2>2. /\ req[w] # Idle /\ req' = [req EXCEPT ![w] = Idle]
        /\ session' = [session EXCEPT ![req[w].row.session].state = "open"]
        /\ UNCHANGED <<env, questionnaire, first, flags, asked, granted, event, repeats, kills>>
    BY <1>2, InsertShape
  <2>3. /\ session' \in [Sessions -> Session \cup {NoSession}]
        /\ \A t \in Sessions : session[t] # NoSession =>
                session'[t] # NoSession /\ session'[t].product = session[t].product
    BY <2>2, KnownSessions, SessionOpened
  <2>4. req' \in [Web -> Request] /\ \A v \in Web : req'[v] = Idle \/ req'[v] = req[v]
    BY <1>0, <2>2, RequestTypes
  <2>5. /\ payment' \in [Payments -> Row \cup {NoRow}]
        /\ \A j \in Payments : payment'[j] = payment[j] \/ payment'[j] = req[w].row
    BY <1>0, <2>1, <2>2, RequestFields
  <2>6. PaymentsTypeOK'
    BY <1>0, <2>2, <2>3, <2>4, <2>5 DEF PaymentsTypeOK
  <2>7. \A v \in Web : req'[v] = req[v] \/ req'[v].pc # "experts"
    BY <2>4 DEF Idle
  <2>8. Known'
    BY <2>2, <2>3, <2>4, <2>5, <2>7, KnownFrame
  <2> QED BY <2>6, <2>8
<1>3. CASE PreSave(w)
  <2>1. /\ UNCHANGED <<env, questionnaire, flags, payment, session, asked, granted, event, repeats, kills>>
        /\ req' = [req EXCEPT ![w].pc = "update"] /\ req[w].pc = "presave"
    BY <1>3 DEF PreSave, Goto, At, stripeVars
  <2>2. req[w] # Idle
    BY <2>1 DEF Idle
  <2>3. first' \in [Questionnaires -> Nat]
    <3>1. first' = first \/ first' = [first EXCEPT ![req[w].row.q] = @ + 1]
      BY <1>3 DEF PreSave
    <3> QED BY <1>0, <3>1
  <2>6. /\ req' \in [Web -> Request] /\ req'[w].row = req[w].row /\ req'[w].pc = "update"
        /\ \A v \in Web \ {w} : req'[v] = req[v]
    BY <2>1, RequestMoved
  <2>7. PaymentsTypeOK'
    BY <1>0, <2>1, <2>3, <2>6 DEF PaymentsTypeOK
  <2>8. Known'
    BY <2>1, <2>2, <2>6, KnownFrame
  <2> QED BY <2>7, <2>8
<1>4. CASE UpdatePayment(w)
  <2>1. /\ req[w].pc = "update" /\ req[w] # Idle /\ req[w].id \in Payments /\ req[w].row \in Row
        /\ payment' = [payment EXCEPT ![req[w].id] = req[w].row]
        /\ UNCHANGED <<env, questionnaire, first, flags, granted, kills>>
        /\ asked' \subseteq asked \cup {req[w].id} /\ repeats' \in Nat
    BY <1>4, UpdateShape
  <2>2. /\ session' \in [Sessions -> Session \cup {NoSession}]
        /\ \A t \in Sessions : session[t] # NoSession =>
                session'[t] # NoSession /\ session'[t].product = session[t].product
    <3>1. session' = session \/ session' = [session EXCEPT ![req[w].row.session].state = "open"]
      BY <1>4, UpdateShape
    <3>2. req[w].row.session \in Sessions /\ session[req[w].row.session] # NoSession
      BY <2>1, KnownSessions
    <3>3. CASE session' = session
      BY <1>0, <3>3 DEF PaymentsTypeOK
    <3>4. CASE session' = [session EXCEPT ![req[w].row.session].state = "open"]
      BY <3>2, <3>4, SessionOpened
    <3> QED BY <3>1, <3>3, <3>4
  <2>3. /\ payment' \in [Payments -> Row \cup {NoRow}]
        /\ \A j \in Payments : payment'[j] = payment[j] \/ payment'[j] = req[w].row
    BY <1>0, <2>1
  <2>4. event' \subseteq event
    BY <1>4, UpdateShape
  <2>5. \/ req' = [req EXCEPT ![w] = Idle]
        \/ /\ req' = [req EXCEPT ![w].pc = "experts"]
           /\ req[w].row.type \in ExpertTypes /\ req[w].event # NoEvent
    BY <1>4, UpdateShape
  <2>6. CASE req' = [req EXCEPT ![w] = Idle]
    <3>1. req' \in [Web -> Request] /\ \A v \in Web : req'[v] = Idle \/ req'[v] = req[v]
      BY <1>0, <2>6, RequestTypes
    <3>2. \A v \in Web : req'[v] = req[v] \/ req'[v].pc # "experts"
      BY <3>1 DEF Idle
    <3>3. PaymentsTypeOK'
      BY <1>0, <2>1, <2>2, <2>3, <2>4, <3>1 DEF PaymentsTypeOK
    <3>4. Known'
      BY <2>1, <2>2, <2>3, <2>4, <3>1, <3>2, KnownFrame
    <3> QED BY <3>3, <3>4
  <2>7. CASE /\ req' = [req EXCEPT ![w].pc = "experts"]
             /\ req[w].row.type \in ExpertTypes /\ req[w].event # NoEvent
    <3>3. /\ req' \in [Web -> Request] /\ req'[w].row = req[w].row /\ req'[w].event = req[w].event
          /\ \A v \in Web \ {w} : req'[v] = req[v]
      BY <2>1, <2>7, RequestMoved
    <3>4. PaymentsTypeOK'
      BY <1>0, <2>1, <2>2, <2>3, <2>4, <3>3 DEF PaymentsTypeOK
    <3>5. Known'
      BY <2>1, <2>2, <2>3, <2>4, <2>7, <3>3, KnownFrame
    <3> QED BY <3>4, <3>5
  <2> QED BY <2>5, <2>6, <2>7
<1>5. CASE GrantExperts(w)
  <2>1. /\ UNCHANGED <<env, questionnaire, first, payment, asked, granted, session, kills>>
        /\ req[w].pc = "experts" /\ req' = [req EXCEPT ![w] = Idle]
        /\ event' \subseteq event /\ repeats' \in Nat
        /\ flags' = [flags EXCEPT ![req[w].row.q] = req[w].flags \cup Granted(req[w].row.type)]
    BY <1>0, <1>5 DEF GrantExperts, At, Answered, Done, PaymentsTypeOK
  <2>2. req[w] # Idle
    BY <2>1 DEF Idle
  <2>3. Granted(req[w].row.type) \subseteq Flags
    <3>1. req[w].row.type \in ExpertTypes
      BY <2>1 DEF Known, At
    <3> QED BY <3>1 DEF Granted, ExpertTypes, Flags
  <2>4. flags' \in [Questionnaires -> SUBSET Flags]
    BY <1>0, <2>1, <2>2, <2>3, RequestFields
  <2>5. req' \in [Web -> Request] /\ \A v \in Web : req'[v] = Idle \/ req'[v] = req[v]
    BY <1>0, <2>1, RequestTypes
  <2>6. PaymentsTypeOK'
    BY <1>0, <2>1, <2>4, <2>5 DEF PaymentsTypeOK
  <2>7. Known'
    BY <2>1, <2>5 DEF Known, At, Idle
  <2> QED BY <2>6, <2>7
<1>6. ASSUME NEW e \in event, HandleEvent(w, e) PROVE PaymentsTypeOK' /\ Known'
  <2>1. PICK i \in Payments :
            /\ payment[i] \in Row
            /\ req'[w].pc = "presave" /\ req'[w].row = [payment[i] EXCEPT !.status = NewStatus(e.type)]
            /\ req' \in [Web -> Request] /\ \A v \in Web \ {w} : req'[v] = req[v]
            /\ UNCHANGED <<env, rowVars, stripeVars, kills>>
    BY <1>6, HandleShape
  <2>2. UNCHANGED <<env, questionnaire, first, flags, payment, asked, granted, session, event, repeats, kills>>
    BY <2>1 DEF rowVars, stripeVars
  <2>3. payment[i] # NoRow /\ req'[w].row.session = payment[i].session
    BY <2>1, NoIds DEF Row
  <2>4. PaymentsTypeOK'
    BY <1>0, <2>1, <2>2 DEF PaymentsTypeOK
  <2>5. \A v \in Web : req'[v] = req[v] \/ req'[v].pc # "experts"
    BY <2>1
  <2>6. \A v \in Web : \/ req'[v] = req[v]
                       \/ \E j \in Payments : payment[j] # NoRow /\ req'[v].row.session = payment[j].session
    BY <2>1, <2>3
  <2>7. Known'
    BY <2>2, <2>5, <2>6, KnownFrame
  <2> QED BY <2>4, <2>7
<1> QED BY <1>1, <1>2, <1>3, <1>4, <1>5, <1>6

\* Stripe changes the state of a session and reports what became of it.
LEMMA ReportShape ==
  ASSUME TypeOK, NEW s \in Sessions, Pay(s) \/ Settle(s) \/ ExpireSession(s)
  PROVE  /\ session[s] # NoSession /\ session[s].state \in {"open", "processing"}
         /\ session'[s] # NoSession /\ session'[s].product = session[s].product
         /\ session'[s].price = session[s].price /\ session'[s].state \in {"paid", "processing", "failed", "expired"}
         /\ \A t \in Sessions \ {s} : session'[t] = session[t]
         /\ session' \in [Sessions -> Session \cup {NoSession}]
         /\ \E type \in EventTypes :
                /\ event' = event \cup {[session |-> s, type |-> type]}
                /\ ~env.async /\ session[s].state = "open" =>
                        \/ type = "completed" /\ session'[s].state = "paid"
                        \/ type = "expired" /\ session'[s].state = "expired"
         /\ UNCHANGED <<env, questionnaire, first, flags, payment, asked, granted, repeats, req, kills>>
<1>1. PICK state \in {"paid", "processing", "failed", "expired"}, type \in EventTypes :
        /\ Report(s, state, type) /\ session[s].state \in {"open", "processing"}
        /\ ~env.async /\ session[s].state = "open" =>
                (type = "completed" /\ state = "paid") \/ (type = "expired" /\ state = "expired")
  <2>1. CASE Pay(s)
    <3>1. CASE Report(s, "paid", "completed")
      <4>1. session[s].state = "open" /\ "completed" \in EventTypes
        BY <2>1 DEF Pay, EventTypes
      <4> QED BY <3>1, <4>1
    <3>2. CASE env.async /\ Report(s, "processing", "completed")
      BY <2>1, <3>2 DEF Pay, EventTypes
    <3> QED BY <2>1, <3>1, <3>2 DEF Pay
  <2>2. CASE Settle(s)
    <3>1. session[s].state = "processing"
      BY <2>2 DEF Settle
    <3>2. CASE Report(s, "paid", "async_payment_succeeded")
      BY <3>1, <3>2 DEF EventTypes
    <3>3. CASE Report(s, "failed", "async_payment_failed")
      BY <3>1, <3>3 DEF EventTypes
    <3> QED BY <2>2, <3>2, <3>3 DEF Settle
  <2>3. CASE ExpireSession(s)
    BY <2>3 DEF ExpireSession, EventTypes
  <2> QED BY <2>1, <2>2, <2>3
<1>2. session[s] # NoSession
  BY <1>1 DEF NoSession
<1>3. /\ session' \in [Sessions -> Session \cup {NoSession}]
      /\ session'[s] # NoSession /\ session'[s].product = session[s].product
      /\ session'[s].price = session[s].price /\ session'[s].state = state
      /\ \A t \in Sessions \ {s} : session'[t] = session[t]
  BY <1>1, <1>2, SessionOpened DEF Report
<1>4. /\ event' = event \cup {[session |-> s, type |-> type]}
      /\ UNCHANGED <<env, questionnaire, first, flags, payment, asked, granted, repeats, req, kills>>
  BY <1>1 DEF Report, rowVars
<1> QED BY <1>1, <1>2, <1>3, <1>4

LEMMA TypesStripe ==
  ASSUME TypeOK, Known, NEW s \in Sessions, Pay(s) \/ Settle(s) \/ ExpireSession(s)
  PROVE  PaymentsTypeOK' /\ Known'
<1>1. PICK type \in EventTypes : event' = event \cup {[session |-> s, type |-> type]}
  BY ReportShape
<1>2. [session |-> s, type |-> type] \in Event /\ [session |-> s, type |-> type].session = s
  BY DEF Event
<1>3. /\ session' \in [Sessions -> Session \cup {NoSession}] /\ session[s] # NoSession
      /\ \A t \in Sessions : session[t] # NoSession =>
                session'[t] # NoSession /\ session'[t].product = session[t].product
      /\ UNCHANGED <<env, questionnaire, first, flags, payment, asked, granted, repeats, req, kills>>
  BY ReportShape
<1>4. PaymentsTypeOK'
  BY <1>1, <1>2, <1>3 DEF TypeOK, PaymentsTypeOK
<1>5. Known'
  BY <1>1, <1>2, <1>3, KnownFrame
<1> QED BY <1>4, <1>5

LEMMA PaymentsTypesInvariant == Spec => [](TypeOK /\ Known /\ Unchanging)
<1>1. TypeOK /\ Known /\ Unchanging /\ [Next]_vars => (TypeOK /\ Known /\ Unchanging)'
  <2> SUFFICES ASSUME TypeOK, Known, Unchanging, [Next]_vars PROVE (TypeOK /\ Known /\ Unchanging)'
    OBVIOUS
  <2>1. CASE UNCHANGED vars
    BY <2>1 DEF vars, configVars, rowVars, stripeVars, TypeOK, ConfigTypeOK, PaymentsTypeOK, Known, At,
                Unchanging
  <2>2. CASE Next
    <3>1. ConfigTypeOK' /\ Unchanging'
      BY <2>2, ConfigSteps, ConfigTypeStep, UnchangingStep DEF TypeOK
    <3>2. PaymentsTypeOK' /\ Known'
      BY <2>2, TypesPurchase, TypesOthers, TypesSave, TypesStripe DEF Next, SaveStep, ViewStep, EventStep
    <3> QED BY <3>1, <3>2 DEF TypeOK
  <2> QED BY <2>1, <2>2
<1> QED BY <1>1, PaymentsInitType, PTL DEF Spec

\* Every row and request stays a record of the right kind, and a request goes on to the experts
\* with a type of payment that grants something, in every interleaving of web processes, Stripe's
\* events, repeated answers, killed requests and saves of the configuration.
THEOREM PaymentsTypeCorrect == Spec => []TypeOK
  BY PaymentsTypesInvariant, PTL

-----------------------------------------------------------------------------
(***************************************************************************)
(* One request at a time.  A request that goes on with a payment after a   *)
(* read of the table finds everything as it has read it.                   *)
(***************************************************************************)

BusyServes == \A w \in Web : req[w] # Idle => w \in env.web
OwnSession ==
    \A i, j \in Payments : payment[i] # NoRow /\ payment[i].session = payment[j].session => i = j

\* CreatePayment, BuyMore or BuyExpertInTheLoop: the new session is nobody else's, and the initial
\* payment is still not completed.
Purchase(r) ==
    /\ r.row.status = "open" /\ session[r.row.session].state = "created"
    /\ \A i \in Payments : payment[i] # NoRow => payment[i].session # r.row.session
    /\ r.pc \in {"find", "presave", "update"} => r.row.type = "initial" /\ ~HasCompleted(r.row.q)
    /\ r.pc = "insert" /\ r.row.type = "initial" => InProgress(r.row.q) = {}
    /\ r.pc \in {"presave", "update"} => r.id \in InProgress(r.row.q)
\* stripe_payment_webhook: the row and the flags are those of the payment, but for the new status.
Webhook(r) ==
    /\ r.event \in event /\ r.row.session = r.event.session
    /\ payment[r.id] # NoRow /\ r.row.status = NewStatus(r.event.type)
    /\ r.row.q = payment[r.id].q /\ r.row.type = payment[r.id].type
    /\ r.row.session = payment[r.id].session
    /\ r.flags = flags[r.row.q]
    /\ r.pc = "experts" => payment[r.id] = r.row /\ r.row.status = "completed"
AsRead ==
    \A w \in Web : req[w] # Idle =>
        IF req[w].event = NoEvent THEN Purchase(req[w]) ELSE Webhook(req[w])

GrantedOrComing(i) ==
    \/ payment[i].type \notin ExpertTypes
    \/ Granted(payment[i].type) \subseteq flags[payment[i].q]
    \/ \E e \in event : e.session = payment[i].session

SoleInv == BusyServes /\ OwnSession /\ AsRead /\ \A i \in CompletedRows : GrantedOrComing(i)

LEMMA SoleOne ==
  ASSUME TypeOK, Sole, NEW v \in env.web, NEW w \in env.web
  PROVE  v = w
<1> SUFFICES ASSUME v # w PROVE FALSE
  OBVIOUS
<1>1. IsFiniteSet(env.web)
  <2>1. env.web \subseteq Web
    BY PaymentsAssumption DEF TypeOK, PaymentsTypeOK
  <2> QED BY <2>1, PaymentsAssumption, FS_Subset
<1>2. Cardinality({v}) = 1 /\ IsFiniteSet({v}) /\ {v, w} = {v} \cup {w}
  BY FS_Singleton
<1>3. Cardinality({v, w}) = 2
  <2>1. w \notin {v} /\ Cardinality({v} \cup {w}) =
            IF w \in {v} THEN Cardinality({v}) ELSE Cardinality({v}) + 1
    BY <1>2, FS_AddElement
  <2> QED BY <1>2, <2>1
<1>4. Cardinality({v, w}) <= Cardinality(env.web) /\ Cardinality(env.web) \in Nat
  BY <1>1, FS_Subset, FS_CardinalityType
<1> QED BY <1>3, <1>4 DEF Sole

\* While a process is ready for a request, or at work on one, the others have none.
LEMMA SoleIdle ==
  ASSUME TypeOK, Sole, SoleInv, NEW w \in Web, w \in env.web \/ req[w] # Idle
  PROVE  \A v \in Web : v # w => req[v] = Idle
  BY SoleOne DEF SoleInv, BusyServes

\* A step that leaves the rows, the flags and the new sessions alone and takes no event away.
LEMMA SoleQuiet ==
  ASSUME TypeOK, Known, SoleInv,
         UNCHANGED <<env, payment, flags>>, event \subseteq event',
         \A w \in Web :
            \/ req'[w] = Idle \/ req'[w] = req[w]
            \/ /\ req[w].pc = "presave" /\ req'[w].pc = "update" /\ req[w] # Idle
               /\ req'[w].row = req[w].row /\ req'[w].id = req[w].id
               /\ req'[w].event = req[w].event /\ req'[w].flags = req[w].flags,
         \A s \in Sessions : session[s].state = "created" => session'[s] = session[s]
  PROVE  SoleInv'
<1>1. BusyServes' /\ OwnSession'
  BY DEF SoleInv, BusyServes, OwnSession
<1>2. \A q : HasCompleted(q)' = HasCompleted(q) /\ InProgress(q)' = InProgress(q)
  BY DEF HasCompleted, Completed, CompletedRows, RowsOf, InProgress
<1>3. ASSUME NEW w \in Web, req'[w] # Idle, req'[w].event = NoEvent PROVE Purchase(req[w])'
  <2>1. req[w] # Idle /\ Purchase(req[w])
    BY <1>3 DEF SoleInv, AsRead
  <2>2. /\ req'[w].row = req[w].row /\ req'[w].id = req[w].id
        /\ req'[w].pc = req[w].pc \/ (req[w].pc = "presave" /\ req'[w].pc = "update")
    BY <1>3
  <2>3. session'[req[w].row.session].state = "created"
    BY <2>1, KnownSessions DEF Purchase
  <2>4. CASE req'[w].pc = req[w].pc
    BY <1>2, <2>1, <2>2, <2>3, <2>4 DEF Purchase
  <2>5. CASE req[w].pc = "presave" /\ req'[w].pc = "update"
    BY <1>2, <2>1, <2>2, <2>3, <2>5 DEF Purchase
  <2> QED BY <2>2, <2>4, <2>5
<1>4. ASSUME NEW w \in Web, req'[w] # Idle, req'[w].event # NoEvent PROVE Webhook(req[w])'
  BY <1>4 DEF SoleInv, AsRead, Webhook
<1>5. AsRead'
  BY <1>3, <1>4 DEF AsRead
<1>6. ASSUME NEW i \in CompletedRows' PROVE GrantedOrComing(i)'
  BY DEF SoleInv, GrantedOrComing, CompletedRows
<1> QED BY <1>1, <1>5, <1>6 DEF SoleInv

LEMMA SoleOthers ==
  ASSUME TypeOK, Known, Sole, SoleInv,
         \/ \E p \in Processes : ReadConfig(p) \/ ChangeConfig(p)
         \/ \E w \in Web : \/ \E q \in Questionnaires : CompleteDraft(w, q)
                           \/ BuyGiftCard(w) \/ MakeDonation(w) \/ FailRequest(w) \/ Kill(w)
                           \/ PreSave(w)
         \/ \E s \in Sessions : Pay(s) \/ Settle(s) \/ ExpireSession(s)
  PROVE  SoleInv'
<1>0. req \in [Web -> Request]
  BY DEF TypeOK, PaymentsTypeOK
<1>1. CASE \/ \E p \in Processes : ReadConfig(p) \/ ChangeConfig(p)
           \/ \E w \in Web, q \in Questionnaires : CompleteDraft(w, q)
  <2>1. UNCHANGED <<env, payment, flags, event, req, session>>
    BY <1>1 DEF ReadConfig, ChangeConfig, CompleteDraft, rowVars, stripeVars
  <2> QED BY <2>1, SoleQuiet
<1>2. ASSUME NEW w \in Web, BuyGiftCard(w) \/ MakeDonation(w) PROVE SoleInv'
  <2>1. PICK s \in Sessions : session[s] = NoSession /\ \A t \in Sessions \ {s} : session'[t] = session[t]
    BY <1>2, GiftShape
  <2>2. UNCHANGED <<env, payment, flags, event, req>> /\ session' \in [Sessions -> Session \cup {NoSession}]
    BY <1>2, GiftShape
  <2>3. \A t \in Sessions : session[t].state = "created" => session'[t] = session[t]
    BY <2>1 DEF NoSession
  <2> QED BY <2>2, <2>3, SoleQuiet
<1>3. ASSUME NEW w \in Web, FailRequest(w) \/ Kill(w) PROVE SoleInv'
  <2>1. UNCHANGED <<env, payment, flags, event, session>> /\ req' = [req EXCEPT ![w] = Idle]
    BY <1>3 DEF FailRequest, Kill, Done, rowVars, stripeVars
  <2>2. \A v \in Web : req'[v] = Idle \/ req'[v] = req[v]
    BY <1>0, <2>1
  <2> QED BY <2>1, <2>2, SoleQuiet
<1>4. ASSUME NEW w \in Web, PreSave(w) PROVE SoleInv'
  <2>1. /\ UNCHANGED <<env, payment, flags, event, session>> /\ req[w].pc = "presave"
        /\ req' = [req EXCEPT ![w].pc = "update"]
    BY <1>4 DEF PreSave, Goto, At, stripeVars
  <2>2. req[w] # Idle
    BY <2>1 DEF Idle
  <2>3. /\ \A v \in Web \ {w} : req'[v] = req[v]
        /\ req'[w].pc = "update" /\ req'[w].row = req[w].row /\ req'[w].id = req[w].id
        /\ req'[w].event = req[w].event /\ req'[w].flags = req[w].flags
    BY <2>1, RequestMoved
  <2> QED BY <2>1, <2>2, <2>3, SoleQuiet
<1>5. ASSUME NEW s \in Sessions, Pay(s) \/ Settle(s) \/ ExpireSession(s) PROVE SoleInv'
  <2>1. /\ session[s].state # "created" /\ \A t \in Sessions \ {s} : session'[t] = session[t]
        /\ UNCHANGED <<env, payment, flags, req>> /\ event \subseteq event'
    BY <1>5, ReportShape
  <2> QED BY <2>1, SoleQuiet
<1> QED BY <1>1, <1>2, <1>3, <1>4, <1>5

LEMMA EnvKept == [Next]_vars => env' = env
<1>1. ASSUME NEW p \in Processes, ReadConfig(p) \/ ChangeConfig(p) PROVE env' = env
  BY <1>1 DEF ReadConfig, ChangeConfig
<1>2. ASSUME NEW w \in Web, SaveStep(w) \/ ViewStep(w) \/ EventStep(w) \/ Kill(w) PROVE env' = env
  BY <1>2 DEF SaveStep, FindInitial, InsertPayment, PreSave, UpdatePayment, GrantExperts, FailRequest,
              ViewStep, CompleteDraft, CreatePayment, BuyMore, BuyExpert, BuyGiftCard, MakeDonation,
              EventStep, HandleEvent, HandleGift, Kill
<1>3. ASSUME NEW s \in Sessions, Pay(s) \/ Settle(s) \/ ExpireSession(s) PROVE env' = env
  BY <1>3 DEF Pay, Settle, ExpireSession, Report
<1> QED BY <1>1, <1>2, <1>3 DEF Next, vars

\* A step of a web process leaves the others idle.
LEMMA SoleStep ==
  ASSUME TypeOK, Sole, SoleInv, NEW w \in Web, w \in env.web \/ req[w] # Idle, env' = env,
         \A v \in Web \ {w} : req'[v] = req[v],
         OwnSession',
         \/ req'[w] = Idle
         \/ req'[w].event = NoEvent /\ Purchase(req[w])'
         \/ req'[w].event # NoEvent /\ Webhook(req[w])',
         \A i \in CompletedRows' : GrantedOrComing(i)'
  PROVE  SoleInv'
<1>1. \A v \in Web \ {w} : req'[v] = Idle
  BY SoleIdle
<1>2. w \in env.web
  BY DEF SoleInv, BusyServes
<1>3. BusyServes'
  BY <1>1, <1>2 DEF BusyServes
<1>4. AsRead'
  BY <1>1 DEF AsRead
<1> QED BY <1>3, <1>4 DEF SoleInv

LEMMA SolePurchase ==
  ASSUME TypeOK, Known, Sole, SoleInv, NEW w \in Web, NEW q \in Questionnaires,
         CreatePayment(w, q) \/ BuyMore(w, q) \/ (\E plus \in BOOLEAN : BuyExpert(w, q, plus))
  PROVE  SoleInv'
<1>1. PICK s \in Sessions, row \in Row, pc \in {"find", "insert"} : Purchasing(w, s, row, pc)
  BY PurchaseShape
<1>2. UNCHANGED <<env, payment, flags, event>> /\ w \in env.web
  BY <1>1 DEF Purchasing, rowVars
<1>3. /\ req'[w].pc = pc /\ req'[w].row = row /\ req'[w].event = NoEvent
      /\ session'[s].state = "created" /\ \A v \in Web \ {w} : req'[v] = req[v]
  BY <1>1, PurchaseFields
<1>4. /\ row.status = "open" /\ row.session = s /\ session[s] = NoSession
      /\ row.type = "initial" => pc = "find" /\ ~HasCompleted(row.q)
      /\ row.type # "initial" => pc = "insert"
  BY <1>1 DEF Purchasing
<1>5. \A i \in Payments : payment[i] # NoRow => payment[i].session # s
  BY <1>4, KnownSessions
<1>6. HasCompleted(row.q)' = HasCompleted(row.q)
  BY <1>2 DEF HasCompleted, Completed, CompletedRows, RowsOf
<1>7. Purchase(req[w])'
  <2>1. HasCompleted(req[w].row.q)' = HasCompleted(row.q)
    BY <1>2, <1>3 DEF HasCompleted, Completed, CompletedRows, RowsOf
  <2> QED BY <1>2, <1>3, <1>4, <1>5, <2>1 DEF Purchase
<1>8. OwnSession' /\ \A i \in CompletedRows' : GrantedOrComing(i)'
  BY <1>2 DEF SoleInv, OwnSession, CompletedRows, GrantedOrComing
<1> QED BY <1>2, <1>3, <1>7, <1>8, SoleStep

LEMMA SoleFind ==
  ASSUME TypeOK, Known, Sole, SoleInv, NEW w \in Web, FindInitial(w)
  PROVE  SoleInv'
<1>1. UNCHANGED <<env, payment, flags, event, session>>
  BY DEF FindInitial, rowVars, stripeVars
<1>2. /\ req[w].pc = "find" /\ req[w] # Idle /\ \A v \in Web \ {w} : req'[v] = req[v]
      /\ req'[w].event = NoEvent /\ req[w].event = NoEvent
  BY FindShape
<1>3. Purchase(req[w]) /\ req[w].row.type = "initial" /\ ~HasCompleted(req[w].row.q)
  BY <1>2 DEF SoleInv, AsRead, Purchase
<1>4. Purchase(req[w])'
  <2>1. CASE /\ InProgress(req[w].row.q) = {}
             /\ req'[w].pc = "insert" /\ req'[w].row = req[w].row
    <3>1. InProgress(req[w].row.q)' = {}
      BY <1>1, <2>1 DEF InProgress, RowsOf
    <3> QED BY <1>1, <1>3, <2>1, <3>1 DEF Purchase
  <2>2. ASSUME NEW i \in InProgress(req[w].row.q),
               req'[w].pc = "presave" /\ req'[w].id = i, req'[w].row.status = payment[i].status,
               req'[w].row.q = req[w].row.q, req'[w].row.type = req[w].row.type,
               req'[w].row.session = req[w].row.session
        PROVE  Purchase(req[w])'
    <3>1. payment[i].status = "open"
      <4>1. i \in RowsOf(req[w].row.q) /\ payment[i].type = "initial" /\ payment[i].status # "failed"
        BY <2>2 DEF InProgress
      <4>2. payment[i].status # "completed"
        BY <1>3, <4>1 DEF HasCompleted, Completed, CompletedRows, RowsOf
      <4>3. payment[i].status \in Statuses
        BY <4>1, NoIds DEF RowsOf, TypeOK, PaymentsTypeOK
      <4> QED BY <4>1, <4>2, <4>3 DEF Statuses
    <3>2. HasCompleted(req[w].row.q)' = HasCompleted(req[w].row.q)
      BY <1>1, <2>2 DEF HasCompleted, Completed, CompletedRows, RowsOf
    <3>3. InProgress(req[w].row.q)' = InProgress(req[w].row.q)
      BY <1>1, <2>2 DEF InProgress, RowsOf
    <3> QED BY <1>1, <1>3, <2>2, <3>1, <3>2, <3>3 DEF Purchase
  <2> QED BY <2>1, <2>2, FindShape
<1>5. OwnSession' /\ \A i \in CompletedRows' : GrantedOrComing(i)'
  BY <1>1 DEF SoleInv, OwnSession, CompletedRows, GrantedOrComing
<1> QED BY <1>1, <1>2, <1>4, <1>5, SoleStep

\* A new row is open, with the session that the request asked for.
LEMMA SoleInsert ==
  ASSUME TypeOK, Known, Sole, SoleInv, NEW w \in Web, InsertPayment(w)
  PROVE  SoleInv'
<1>1. PICK i \in Payments : payment[i] = NoRow /\ payment' = [payment EXCEPT ![i] = req[w].row]
  BY InsertShape
<1>2. /\ req[w] # Idle /\ req[w].event = NoEvent /\ UNCHANGED <<env, flags, event>>
      /\ req' = [req EXCEPT ![w] = Idle]
  BY InsertShape
<1>3. payment'[i] = req[w].row /\ \A j \in Payments \ {i} : payment'[j] = payment[j]
  BY <1>1 DEF TypeOK, PaymentsTypeOK
<1>4. req'[w] = Idle /\ \A v \in Web \ {w} : req'[v] = req[v]
  BY <1>2 DEF TypeOK, PaymentsTypeOK
<1>5. /\ req[w].row.status = "open" 
      /\ \A j \in Payments : payment[j] # NoRow => payment[j].session # req[w].row.session
  BY <1>2 DEF SoleInv, AsRead, Purchase
<1>6. req[w].row.session # NoId /\ NoRow.session = NoId
  BY <1>2, RequestFields, NoIds DEF NoRow
<1>7. OwnSession'
  BY <1>1, <1>3, <1>5, <1>6 DEF SoleInv, OwnSession
<1>8. ASSUME NEW j \in CompletedRows' PROVE GrantedOrComing(j)'
  <2>1. j \in Payments /\ j # i /\ payment'[j] = payment[j] /\ j \in CompletedRows
    BY <1>3, <1>5, <1>8 DEF CompletedRows
  <2> QED BY <1>2, <2>1 DEF SoleInv, GrantedOrComing
<1> QED BY <1>2, <1>4, <1>7, <1>8, SoleStep

LEMMA SoleUpdate ==
  ASSUME TypeOK, Known, Sole, SoleInv, NEW w \in Web, UpdatePayment(w)
  PROVE  SoleInv'
<1> DEFINE id == req[w].id
           row == req[w].row
<1>1. /\ req[w].pc = "update" /\ req[w] # Idle /\ id \in Payments /\ row \in Row
      /\ payment' = [payment EXCEPT ![id] = row] /\ UNCHANGED <<env, flags>>
  BY UpdateShape
<1>2. payment'[id] = row /\ \A j \in Payments \ {id} : payment'[j] = payment[j]
  BY <1>1 DEF TypeOK, PaymentsTypeOK
<1>3. req \in [Web -> Request]
  BY DEF TypeOK, PaymentsTypeOK
<1>4. CASE req[w].event = NoEvent
  <2>1. req' = [req EXCEPT ![w] = Idle] /\ event' = event
    BY <1>4, UpdateShape
  <2>2. req'[w] = Idle /\ \A v \in Web \ {w} : req'[v] = req[v]
    BY <1>3, <2>1
  <2>3. /\ row.status = "open"
        /\ \A j \in Payments : payment[j] # NoRow => payment[j].session # row.session
    BY <1>1, <1>4 DEF SoleInv, AsRead, Purchase
  <2>4. row.session # NoId /\ NoRow.session = NoId
    BY <1>1, NoIds DEF NoRow
  <2>5. OwnSession'
    BY <1>2, <2>3, <2>4 DEF SoleInv, OwnSession
  <2>6. ASSUME NEW j \in CompletedRows' PROVE GrantedOrComing(j)'
    <3>1. j \in Payments /\ payment'[j] = payment[j] /\ j \in CompletedRows
      BY <1>2, <2>3, <2>6 DEF CompletedRows
    <3> QED BY <1>1, <2>1, <3>1 DEF SoleInv, GrantedOrComing
  <2> QED BY <1>1, <2>2, <2>5, <2>6, SoleStep
<1>5. CASE req[w].event # NoEvent
  <2>1. Webhook(req[w])
    BY <1>1, <1>5 DEF SoleInv, AsRead
  <2>2. /\ req[w].event \in event /\ row.session = req[w].event.session /\ payment[id] # NoRow
        /\ row.session = payment[id].session /\ row.q = payment[id].q /\ row.type = payment[id].type
    BY <2>1 DEF Webhook
  <2>3. OwnSession'
    BY <1>1, <1>2, <2>2, NoIds DEF SoleInv, OwnSession
  <2>4. CASE event' = event
    <3>1. ASSUME NEW j \in CompletedRows' PROVE GrantedOrComing(j)'
      <4>1. CASE j = id
        BY <1>2, <2>2, <2>4, <4>1 DEF GrantedOrComing
      <4>2. CASE j # id
        <5>1. j \in Payments /\ payment'[j] = payment[j] /\ j \in CompletedRows
          BY <1>2, <3>1, <4>2 DEF CompletedRows
        <5> QED BY <1>1, <2>4, <5>1 DEF SoleInv, GrantedOrComing
      <4> QED BY <4>1, <4>2
    <3>2. CASE req' = [req EXCEPT ![w] = Idle]
      <4>1. req'[w] = Idle /\ \A v \in Web \ {w} : req'[v] = req[v]
        BY <1>3, <3>2
      <4> QED BY <1>1, <2>3, <3>1, <4>1, SoleStep
    <3>3. CASE /\ req' = [req EXCEPT ![w].pc = "experts"]
               /\ req[w].row.status = "completed" /\ req[w].row.type \in ExpertTypes
      <4>1. /\ \A v \in Web \ {w} : req'[v] = req[v]
            /\ req'[w].row = req[w].row /\ req'[w].id = req[w].id
            /\ req'[w].event = req[w].event /\ req'[w].flags = req[w].flags
        BY <1>1, <3>3, RequestMoved
      <4>2. Webhook(req[w])'
        <5>1. /\ req'[w].event \in event' /\ req'[w].row.session = req'[w].event.session
              /\ req'[w].flags = flags'[req'[w].row.q]
          BY <1>1, <2>1, <2>4, <4>1 DEF Webhook
        <5>2. payment'[req'[w].id] = req'[w].row /\ payment'[req'[w].id] # NoRow
          BY <1>1, <1>2, <4>1, NoIds
        <5>3. req'[w].row.status = "completed" /\ req'[w].row.status = NewStatus(req'[w].event.type)
          BY <2>1, <3>3, <4>1 DEF Webhook
        <5> QED BY <5>1, <5>2, <5>3 DEF Webhook
      <4>3. req'[w].event # NoEvent
        BY <1>5, <4>1
      <4> QED BY <1>1, <2>3, <3>1, <4>1, <4>2, <4>3, SoleStep
    <3> QED BY <3>2, <3>3, UpdateShape
  <2>5. CASE event' # event
    <3>1. /\ req' = [req EXCEPT ![w] = Idle]
          /\ event \subseteq event' \cup {req[w].event}
          /\ ~(row.status = "completed" /\ row.type \in ExpertTypes)
      BY <2>5, UpdateShape
    <3>2. req'[w] = Idle /\ \A v \in Web \ {w} : req'[v] = req[v]
      BY <1>3, <3>1
    <3>3. ASSUME NEW j \in CompletedRows' PROVE GrantedOrComing(j)'
      <4>1. CASE j = id
        BY <1>2, <3>1, <3>3, <4>1 DEF GrantedOrComing, CompletedRows
      <4>2. CASE j # id
        <5>1. /\ j \in Payments /\ payment'[j] = payment[j] /\ j \in CompletedRows
              /\ payment[j].session # payment[id].session
          <6>1. j \in Payments /\ payment'[j] = payment[j] /\ j \in CompletedRows /\ payment[j] # NoRow
            BY <1>2, <3>3, <4>2 DEF CompletedRows, NoRow
          <6> QED BY <1>1, <4>2, <6>1 DEF SoleInv, OwnSession
        <5>2. GrantedOrComing(j)
          BY <5>1 DEF SoleInv
        <5> QED BY <1>1, <2>2, <3>1, <5>1, <5>2 DEF GrantedOrComing
      <4> QED BY <4>1, <4>2
    <3> QED BY <1>1, <2>3, <3>2, <3>3, SoleStep
  <2> QED BY <2>4, <2>5
<1> QED BY <1>4, <1>5

LEMMA SoleHandle ==
  ASSUME TypeOK, Known, Sole, SoleInv, NEW w \in Web, NEW e \in event, HandleEvent(w, e)
  PROVE  SoleInv'
<1>1. PICK i \in Payments :
            /\ payment[i] \in Row /\ payment[i].session = e.session
            /\ w \in env.web
            /\ req'[w].pc = "presave" /\ req'[w].id = i /\ req'[w].event = e
            /\ req'[w].row = [payment[i] EXCEPT !.status = NewStatus(e.type)]
            /\ req'[w].flags = flags[payment[i].q]
            /\ \A v \in Web \ {w} : req'[v] = req[v]
            /\ UNCHANGED <<env, rowVars, stripeVars, kills>>
  BY HandleShape
<1>2. UNCHANGED <<env, payment, flags, event>>
  BY <1>1 DEF rowVars, stripeVars
<1>3. /\ req'[w].row.status = NewStatus(e.type) /\ req'[w].row.session = e.session
      /\ req'[w].row.q = payment[i].q /\ req'[w].row.type = payment[i].type
      /\ req'[w].row.session = payment[i].session /\ payment[i] # NoRow
  BY <1>1, NoIds DEF Row
<1>4. e # NoEvent
  BY NoIds DEF TypeOK, PaymentsTypeOK
<1>5. Webhook(req[w])'
  BY <1>1, <1>2, <1>3 DEF Webhook
<1>6. OwnSession' /\ \A j \in CompletedRows' : GrantedOrComing(j)'
  BY <1>2 DEF SoleInv, OwnSession, CompletedRows, GrantedOrComing
<1> QED BY <1>1, <1>2, <1>4, <1>5, <1>6, SoleStep

\* No Payment waits for the event of a gift card or a donation.
LEMMA SoleGift ==
  ASSUME TypeOK, Known, Sole, SoleInv, NEW w \in Web, NEW e \in event, HandleGift(w, e)
  PROVE  SoleInv'
<1>1. /\ UNCHANGED <<env, payment, flags, req>> /\ w \in env.web /\ req[w] = Idle
      /\ event \subseteq event' \cup {e} /\ session[e.session].product \in {"gift_card", "donation"}
  BY DEF HandleGift, Ready, Answered, PromoCodes, Thanks, GrantGift
<1>2. \A i \in Payments : payment[i] # NoRow => payment[i].session # e.session
  BY <1>1 DEF Known, OfPayment
<1>3. OwnSession'
  BY <1>1 DEF SoleInv, OwnSession
<1>4. ASSUME NEW j \in CompletedRows' PROVE GrantedOrComing(j)'
  <2>1. j \in CompletedRows /\ j \in Payments /\ payment[j] # NoRow
    BY <1>1, <1>4 DEF CompletedRows, NoRow
  <2> QED BY <1>1, <1>2, <2>1 DEF SoleInv, GrantedOrComing
<1> QED BY <1>1, <1>3, <1>4, SoleStep

LEMMA SoleGrant ==
  ASSUME TypeOK, Known, Sole, SoleInv, NEW w \in Web, GrantExperts(w)
  PROVE  SoleInv'
<1> DEFINE q == req[w].row.q
           id == req[w].id
<1>1. /\ UNCHANGED <<env, payment>> /\ req[w].pc = "experts" /\ req' = [req EXCEPT ![w] = Idle]
      /\ event \subseteq event' \cup {req[w].event}
      /\ flags' = [flags EXCEPT ![q] = req[w].flags \cup Granted(req[w].row.type)]
  BY DEF GrantExperts, At, Answered, Done
<1>2. req[w] # Idle
  BY <1>1 DEF Idle
<1>3. Webhook(req[w]) /\ id \in Payments /\ req[w].row \in Row
  <2>1. req[w].event # NoEvent
    BY <1>1 DEF Known, At
  <2> QED BY <1>1, <1>2, <2>1, RequestFields DEF SoleInv, AsRead
<1>4. /\ payment[id] = req[w].row /\ req[w].row.session = req[w].event.session
      /\ req[w].flags = flags[q] /\ payment[id] # NoRow
  BY <1>1, <1>3 DEF Webhook
<1>5. flags \in [Questionnaires -> SUBSET Flags] /\ q \in Questionnaires
  BY <1>3 DEF TypeOK, PaymentsTypeOK, Row
<1>6. /\ flags'[q] = flags[q] \cup Granted(req[w].row.type)
      /\ \A p \in Questionnaires : flags[p] \subseteq flags'[p]
  BY <1>1, <1>4, <1>5
<1>7. req'[w] = Idle /\ \A v \in Web \ {w} : req'[v] = req[v]
  BY <1>1 DEF TypeOK, PaymentsTypeOK
<1>8. OwnSession'
  BY <1>1 DEF SoleInv, OwnSession
<1>9. ASSUME NEW j \in CompletedRows' PROVE GrantedOrComing(j)'
  <2>1. j \in CompletedRows /\ j \in Payments /\ payment[j] # NoRow
    BY <1>1, <1>9 DEF CompletedRows, NoRow
  <2>2. CASE j = id
    BY <1>1, <1>4, <1>6, <2>2 DEF GrantedOrComing
  <2>3. CASE j # id
    <3>1. payment[j].session # req[w].event.session
      BY <1>3, <1>4, <2>1, <2>3 DEF SoleInv, OwnSession
    <3>2. payment[j].q \in Questionnaires
      BY <2>1 DEF TypeOK, PaymentsTypeOK, Row
    <3> QED BY <1>1, <1>6, <2>1, <3>1, <3>2 DEF SoleInv, GrantedOrComing
  <2> QED BY <2>2, <2>3
<1> QED BY <1>1, <1>2, <1>7, <1>8, <1>9, SoleStep

LEMMA SoleInvariant == Spec => [](Sole => SoleInv)
<1>1. Init => SoleInv
  BY DEF Init, SoleInv, BusyServes, OwnSession, AsRead, CompletedRows, NoRow
<1>2. TypeOK /\ Known /\ (Sole => SoleInv) /\ [Next]_vars => (Sole => SoleInv)'
  <2> SUFFICES ASSUME TypeOK, Known, Sole => SoleInv, [Next]_vars, Sole' PROVE SoleInv'
    OBVIOUS
  <2>1. env' = env
    BY EnvKept
  <2>2. Sole /\ SoleInv
    BY <2>1 DEF Sole
  <2>3. CASE UNCHANGED vars
    <3>1. UNCHANGED <<env, payment, flags, event, req, session>>
      BY <2>3 DEF vars, rowVars, stripeVars
    <3> QED BY <2>2, <3>1, SoleQuiet
  <2>4. CASE Next
    BY <2>2, <2>4, SoleOthers, SolePurchase, SoleFind, SoleInsert, SoleUpdate, SoleHandle, SoleGift,
       SoleGrant DEF Next, SaveStep, ViewStep, EventStep
  <2> QED BY <2>3, <2>4
<1> QED BY <1>1, <1>2, PaymentsTypesInvariant, PTL DEF Spec

\* With one request at a time, a completed payment for experts has set its flags once all its
\* events are answered, wherever a process dies and whatever Stripe repeats.
THEOREM ExpertsAreGranted == Spec => []ExpertsGranted
<1>1. (Sole => SoleInv) => ExpertsGranted
  BY DEF SoleInv, GrantedOrComing, ExpertsGranted
<1> QED BY <1>1, SoleInvariant, PTL

-----------------------------------------------------------------------------
(***************************************************************************)
(* Cards only: the state of the session decides every event about it.      *)
(***************************************************************************)

Fine(e) ==
    \/ e.type = "completed" /\ session[e.session].state = "paid"
    \/ e.type = "expired" /\ session[e.session].state = "expired"
Decided(row) ==
    /\ row.status = "completed" => session[row.session].state = "paid"
    /\ row.status = "failed" => session[row.session].state = "expired"
LaterPrice(row) == row.type = "buy_more" => session[row.session].price >= Min({1, Prices - 1})
OneInitial == \A q \in Questionnaires : \A i, j \in InProgress(q) : i = j

CarefulInv ==
    /\ \A s \in Sessions : session[s].state # "processing"
    /\ \A e \in event : Fine(e)
    /\ \A i \in Payments : payment[i] # NoRow => Decided(payment[i]) /\ LaterPrice(payment[i])
    /\ \A s \in Sessions : granted[s] > 0 => session[s].state = "paid"
    /\ \A w \in Web : req[w] # Idle => LaterPrice(req[w].row)
    /\ OneInitial

\* A session keeps its price, and what has been paid or has expired stays so.
SessionsKept ==
    \A t \in Sessions : session[t] # NoSession =>
        /\ session'[t].price = session[t].price
        /\ session[t].state \in {"paid", "expired"} => session'[t].state = session[t].state

LEMMA CarefulFrame ==
  ASSUME TypeOK, Known, CarefulInv, SessionsKept,
         \A s \in Sessions : session'[s].state # "processing",
         \A e \in event' : e \in event \/ Fine(e)',
         \A i \in Payments : \/ payment'[i] = payment[i]
                             \/ /\ \E w \in Web : req[w] # Idle /\ payment'[i] = req[w].row
                                /\ payment'[i].status = "open" \/ Decided(payment[i])',
         \A s \in Sessions : granted'[s] = granted[s] \/ session'[s].state = "paid",
         \A w \in Web :
            \/ req'[w] = Idle \/ req'[w] = req[w] \/ LaterPrice(req[w].row)'
            \/ /\ req[w] # Idle
               /\ req'[w].row.session = req[w].row.session /\ req'[w].row.type = req[w].row.type
            \/ \E i \in Payments : /\ payment[i] # NoRow /\ req'[w].row.session = payment[i].session
                                   /\ req'[w].row.type = payment[i].type,
         OneInitial'
  PROVE  CarefulInv'
<1>1. /\ \A i \in Payments : payment[i] # NoRow =>
                payment[i].session \in Sessions /\ session[payment[i].session] # NoSession
      /\ \A w \in Web : req[w] # Idle =>
                req[w].row.session \in Sessions /\ session[req[w].row.session] # NoSession
      /\ \A e \in event : e.session \in Sessions /\ session[e.session] # NoSession
  BY KnownSessions DEF Known
<1>2. ASSUME NEW e \in event' PROVE Fine(e)'
  BY <1>1 DEF CarefulInv, Fine, SessionsKept
<1>21. ASSUME NEW row, row.session \in Sessions, session[row.session] # NoSession, LaterPrice(row)
       PROVE  row.type = "buy_more" => session'[row.session].price >= Min({1, Prices - 1})
  BY <1>21 DEF LaterPrice, SessionsKept
<1>3. ASSUME NEW i \in Payments, payment'[i] # NoRow PROVE LaterPrice(payment[i])'
  <2>1. CASE payment'[i] = payment[i]
    BY <1>1, <1>21, <1>3, <2>1 DEF CarefulInv, LaterPrice
  <2>2. ASSUME NEW w \in Web, req[w] # Idle, payment'[i] = req[w].row PROVE LaterPrice(payment[i])'
    BY <1>1, <1>21, <2>2 DEF CarefulInv, LaterPrice
  <2> QED BY <2>1, <2>2
<1>4. ASSUME NEW i \in Payments, payment'[i] # NoRow PROVE Decided(payment[i])'
  <2>1. CASE payment'[i] = payment[i]
    BY <1>1, <1>4, <2>1 DEF CarefulInv, Decided, SessionsKept
  <2>2. CASE payment'[i].status = "open"
    BY <2>2 DEF Decided
  <2> QED BY <2>1, <2>2
<1>5. ASSUME NEW w \in Web, req'[w] # Idle PROVE LaterPrice(req[w].row)'
  <2>1. CASE req'[w] = req[w]
    BY <1>1, <1>21, <1>5, <2>1 DEF CarefulInv, LaterPrice
  <2>2. CASE /\ req[w] # Idle
             /\ req'[w].row.session = req[w].row.session /\ req'[w].row.type = req[w].row.type
    BY <1>1, <1>21, <2>2 DEF CarefulInv, LaterPrice
  <2>3. ASSUME NEW i \in Payments, payment[i] # NoRow, req'[w].row.session = payment[i].session,
               req'[w].row.type = payment[i].type
        PROVE  LaterPrice(req[w].row)'
    BY <1>1, <1>21, <2>3 DEF CarefulInv, LaterPrice
  <2> QED BY <1>5, <2>1, <2>2, <2>3
<1>6. ASSUME NEW s \in Sessions, granted'[s] > 0 PROVE session'[s].state = "paid"
  BY <1>6 DEF CarefulInv, SessionsKept, NoSession
<1> QED BY <1>2, <1>3, <1>4, <1>5, <1>6 DEF CarefulInv

LEMMA OneInitialKept ==
  ASSUME OneInitial, \A q \in Questionnaires : InProgress(q)' \subseteq InProgress(q)
  PROVE  OneInitial'
  BY DEF OneInitial

\* Steps that leave rows alone.
LEMMA CarefulOthers ==
  ASSUME TypeOK, Known, Careful, CarefulInv,
         \/ \E p \in Processes : ReadConfig(p) \/ ChangeConfig(p)
         \/ \E w \in Web : \/ \E q \in Questionnaires : CompleteDraft(w, q)
                           \/ BuyGiftCard(w) \/ MakeDonation(w) \/ FailRequest(w) \/ Kill(w)
                           \/ PreSave(w) \/ GrantExperts(w)
  PROVE  CarefulInv'
<1>0. req \in [Web -> Request]
  BY DEF TypeOK, PaymentsTypeOK
<1>1. CASE \/ \E p \in Processes : ReadConfig(p) \/ ChangeConfig(p)
           \/ \E w \in Web, q \in Questionnaires : CompleteDraft(w, q)
  <2>1. UNCHANGED <<payment, granted, event, req, session>>
    BY <1>1 DEF ReadConfig, ChangeConfig, CompleteDraft, rowVars, stripeVars
  <2>2. SessionsKept /\ \A t \in Sessions : session'[t].state # "processing"
    BY <2>1 DEF SessionsKept, CarefulInv
  <2>3. OneInitial'
    BY <2>1 DEF CarefulInv, OneInitial, InProgress, RowsOf
  <2> QED BY <2>1, <2>2, <2>3, CarefulFrame
<1>2. ASSUME NEW w \in Web, BuyGiftCard(w) \/ MakeDonation(w) PROVE CarefulInv'
  <2>1. PICK s \in Sessions :
            /\ session[s] = NoSession /\ session'[s].state = "open"
            /\ \A t \in Sessions \ {s} : session'[t] = session[t]
    BY <1>2, GiftShape
  <2>2. UNCHANGED <<payment, granted, event, req>>
    BY <1>2, GiftShape
  <2>3. SessionsKept
    BY <2>1 DEF SessionsKept
  <2>4. \A t \in Sessions : session'[t].state # "processing"
    BY <2>1 DEF CarefulInv
  <2>5. OneInitial'
    BY <2>2 DEF CarefulInv, OneInitial, InProgress, RowsOf
  <2> QED BY <2>2, <2>3, <2>4, <2>5, CarefulFrame
<1>3. ASSUME NEW w \in Web, FailRequest(w) \/ Kill(w) \/ PreSave(w) \/ GrantExperts(w) PROVE CarefulInv'
  <2>1. UNCHANGED <<payment, granted, session>> /\ event' \subseteq event
    BY <1>3 DEF FailRequest, Kill, PreSave, GrantExperts, Answered, rowVars, stripeVars
  <2>2. \A v \in Web : \/ req'[v] = Idle \/ req'[v] = req[v]
                       \/ req[v] # Idle /\ req'[v].row = req[v].row
    <3>1. CASE FailRequest(w) \/ Kill(w) \/ GrantExperts(w)
      BY <1>0, <3>1 DEF FailRequest, Kill, GrantExperts, Done
    <3>2. CASE PreSave(w)
      <4>1. req[w].pc = "presave" /\ req' = [req EXCEPT ![w].pc = "update"]
        BY <3>2 DEF PreSave, Goto, At
      <4>2. req[w] # Idle
        BY <4>1 DEF Idle
      <4> QED BY <4>1, <4>2, RequestMoved
    <3> QED BY <1>3, <3>1, <3>2
  <2>3. SessionsKept /\ \A t \in Sessions : session'[t].state # "processing"
    BY <2>1 DEF SessionsKept, CarefulInv
  <2>5. OneInitial'
    BY <2>1 DEF CarefulInv, OneInitial, InProgress, RowsOf
  <2> QED BY <2>1, <2>2, <2>3, <2>5, CarefulFrame
<1> QED BY <1>1, <1>2, <1>3

LEMMA CarefulPurchase ==
  ASSUME TypeOK, Known, Careful, CarefulInv, NEW w \in Web, NEW q \in Questionnaires,
         CreatePayment(w, q) \/ BuyMore(w, q) \/ (\E plus \in BOOLEAN : BuyExpert(w, q, plus))
  PROVE  CarefulInv'
<1>1. PICK s \in Sessions, row \in Row, pc \in {"find", "insert"} : Purchasing(w, s, row, pc)
  BY PurchaseShape
<1>2. UNCHANGED <<payment, granted, event>> /\ session[s] = NoSession /\ row.session = s
  BY <1>1 DEF Purchasing, rowVars
<1>3. /\ req'[w].row = row /\ session'[s].state = "created"
      /\ \A v \in Web \ {w} : req'[v] = req[v]
      /\ \A t \in Sessions \ {s} : session'[t] = session[t]
  BY <1>1, PurchaseFields
<1>31. row.type = "buy_more" => session'[s].price >= Min({1, Prices - 1})
  BY <1>1, PurchaseFields
<1>4. SessionsKept
  BY <1>2, <1>3 DEF SessionsKept
<1>5. \A t \in Sessions : session'[t].state # "processing"
  BY <1>3 DEF CarefulInv
<1>6. LaterPrice(req[w].row)'
  BY <1>2, <1>3, <1>31 DEF LaterPrice
<1>7. OneInitial'
  BY <1>2 DEF CarefulInv, OneInitial, InProgress, RowsOf
<1> QED BY <1>2, <1>3, <1>4, <1>5, <1>6, <1>7, CarefulFrame

LEMMA CarefulReads ==
  ASSUME TypeOK, Known, Careful, CarefulInv, NEW w \in Web,
         FindInitial(w) \/ \E e \in event : HandleEvent(w, e)
  PROVE  CarefulInv'
<1>1. UNCHANGED <<payment, granted, event, session>>
  BY DEF FindInitial, HandleEvent, rowVars, stripeVars
<1>2. \A v \in Web \ {w} : req'[v] = req[v]
  BY FindShape, HandleShape
<1>3. \/ /\ req[w] # Idle
         /\ req'[w].row.session = req[w].row.session /\ req'[w].row.type = req[w].row.type
      \/ \E i \in Payments : /\ payment[i] # NoRow /\ req'[w].row.session = payment[i].session
                             /\ req'[w].row.type = payment[i].type
  <2>1. CASE FindInitial(w)
    BY <2>1, FindShape
  <2>2. ASSUME NEW e \in event, HandleEvent(w, e)
        PROVE  \E i \in Payments : /\ payment[i] # NoRow /\ req'[w].row.session = payment[i].session
                                   /\ req'[w].row.type = payment[i].type
    <3>1. PICK i \in Payments :
              payment[i] \in Row /\ req'[w].row = [payment[i] EXCEPT !.status = NewStatus(e.type)]
      BY <2>2, HandleShape
    <3>2. /\ payment[i] # NoRow /\ req'[w].row.session = payment[i].session
          /\ req'[w].row.type = payment[i].type
      BY <3>1, NoIds DEF Row
    <3> QED BY <3>2
  <2> QED BY <2>1, <2>2
<1>4. SessionsKept /\ \A t \in Sessions : session'[t].state # "processing"
  BY <1>1 DEF SessionsKept, CarefulInv
<1>5. OneInitial'
  BY <1>1 DEF CarefulInv, OneInitial, InProgress, RowsOf
<1> QED BY <1>1, <1>2, <1>3, <1>4, <1>5, CarefulFrame

LEMMA CarefulStripe ==
  ASSUME TypeOK, Known, Careful, CarefulInv, NEW s \in Sessions, Pay(s) \/ Settle(s) \/ ExpireSession(s)
  PROVE  CarefulInv'
<1>1. session[s].state = "open" /\ ~env.async
  BY ReportShape DEF CarefulInv, Careful
<1>2. UNCHANGED <<payment, granted, req>>
  BY ReportShape
<1>3. /\ session'[s].price = session[s].price /\ \A t \in Sessions \ {s} : session'[t] = session[t]
  BY ReportShape
<1>4. PICK type \in EventTypes :
        /\ event' = event \cup {[session |-> s, type |-> type]}
        /\ \/ type = "completed" /\ session'[s].state = "paid"
           \/ type = "expired" /\ session'[s].state = "expired"
  BY <1>1, ReportShape
<1>5. SessionsKept /\ \A t \in Sessions : session'[t].state # "processing"
  BY <1>1, <1>3, <1>4 DEF SessionsKept, CarefulInv
<1>6. \A e \in event' : e \in event \/ Fine(e)'
  BY <1>4 DEF Fine
<1>7. OneInitial'
  BY <1>2 DEF CarefulInv, OneInitial, InProgress, RowsOf
<1> QED BY <1>2, <1>5, <1>6, <1>7, CarefulFrame

\* The request of a purchase opens the session that no event is about.
LEMMA SessionsOpened ==
  ASSUME TypeOK, Known, CarefulInv, NEW s \in Sessions, session[s] # NoSession,
         session[s].state = "created", session' = [session EXCEPT ![s].state = "open"]
  PROVE  SessionsKept /\ \A t \in Sessions : session'[t].state # "processing"
<1>1. /\ session'[s].state = "open" /\ session'[s].price = session[s].price
      /\ \A t \in Sessions \ {s} : session'[t] = session[t]
  BY SessionOpened
<1> QED BY <1>1 DEF SessionsKept, CarefulInv

LEMMA CarefulInsert ==
  ASSUME TypeOK, Known, Careful, SoleInv, CarefulInv, NEW w \in Web, InsertPayment(w)
  PROVE  CarefulInv'
<1>1. PICK i \in Payments : payment[i] = NoRow /\ payment' = [payment EXCEPT ![i] = req[w].row]
  BY InsertShape
<1>2. /\ req[w].pc = "insert" /\ req[w] # Idle /\ req[w].event = NoEvent /\ UNCHANGED <<granted, event>>
      /\ req' = [req EXCEPT ![w] = Idle] 
      /\ session' = [session EXCEPT ![req[w].row.session].state = "open"]
  BY InsertShape
<1>3. payment'[i] = req[w].row /\ \A j \in Payments \ {i} : payment'[j] = payment[j]
  BY <1>1 DEF TypeOK, PaymentsTypeOK
<1>4. \A v \in Web : req'[v] = Idle \/ req'[v] = req[v]
  BY <1>2 DEF TypeOK, PaymentsTypeOK
<1>5. /\ req[w].row.status = "open" /\ session[req[w].row.session].state = "created"
      /\ req[w].row.type = "initial" => InProgress(req[w].row.q) = {}
  BY <1>2 DEF SoleInv, AsRead, Purchase
<1>6. SessionsKept /\ \A t \in Sessions : session'[t].state # "processing"
  BY <1>2, <1>5, KnownSessions, SessionsOpened
<1>7. OneInitial'
  <2>1. CASE req[w].row.type = "initial"
    <3>1. ASSUME NEW q \in Questionnaires, NEW j \in InProgress(q)' PROVE j \in InProgress(q) \/ (j = i /\ q = req[w].row.q)
      BY <1>3, <3>1 DEF InProgress, RowsOf
    <3> QED BY <1>5, <2>1, <3>1 DEF CarefulInv, OneInitial
  <2>2. CASE req[w].row.type # "initial"
    <3>1. \A q \in Questionnaires : InProgress(q)' \subseteq InProgress(q)
      BY <1>3, <2>2 DEF InProgress, RowsOf
    <3> QED BY <3>1, OneInitialKept DEF CarefulInv
  <2> QED BY <2>1, <2>2
<1> QED BY <1>2, <1>3, <1>4, <1>5, <1>6, <1>7, CarefulFrame

\* What the UPDATE writes over a row: an open row gets another session, or a row gets the status
\* that its session has earned; a completed row is written as it is.
LEMMA Updated ==
  ASSUME TypeOK, Known, Careful, SoleInv, CarefulInv, NEW w \in Web, UpdatePayment(w)
  PROVE  /\ payment[req[w].id] # NoRow
         /\ req[w].row.q = payment[req[w].id].q /\ req[w].row.type = payment[req[w].id].type
         /\ req[w].event = NoEvent =>
                /\ req[w].row.status = "open" /\ payment[req[w].id].status \notin {"completed", "failed"}
         /\ req[w].event # NoEvent =>
                /\ req[w].row.session = payment[req[w].id].session
                /\ Decided(req[w].row) /\ req[w].row.status \in {"completed", "failed"}
                /\ payment[req[w].id].status \in {"completed", "failed"} =>
                        req[w].row.status = payment[req[w].id].status
<1>1. req[w].pc = "update" /\ req[w] # Idle /\ req[w].id \in Payments /\ req[w].row \in Row
  BY UpdateShape
<1>2. CASE req[w].event = NoEvent
  <2>1. /\ req[w].row.status = "open" /\ req[w].row.type = "initial" /\ ~HasCompleted(req[w].row.q)
        /\ req[w].id \in InProgress(req[w].row.q)
    BY <1>1, <1>2 DEF SoleInv, AsRead, Purchase
  <2>2. /\ payment[req[w].id] # NoRow /\ payment[req[w].id].q = req[w].row.q
        /\ payment[req[w].id].type = "initial" /\ payment[req[w].id].status # "failed"
    BY <2>1 DEF InProgress, RowsOf
  <2>3. payment[req[w].id].status # "completed"
    BY <1>1, <2>1, <2>2 DEF HasCompleted, Completed, CompletedRows, RowsOf
  <2> QED BY <1>2, <2>1, <2>2, <2>3
<1>3. CASE req[w].event # NoEvent
  <2>1. Webhook(req[w])
    BY <1>1, <1>3 DEF SoleInv, AsRead
  <2>2. /\ payment[req[w].id] # NoRow /\ req[w].row.q = payment[req[w].id].q
        /\ req[w].row.type = payment[req[w].id].type
        /\ req[w].row.session = payment[req[w].id].session
        /\ req[w].row.session = req[w].event.session
        /\ req[w].row.status = NewStatus(req[w].event.type) /\ req[w].event \in event
    BY <2>1 DEF Webhook
  <2>3. Fine(req[w].event)
    BY <2>2 DEF CarefulInv
  <2>4. Decided(req[w].row) /\ req[w].row.status \in {"completed", "failed"}
    BY <2>2, <2>3 DEF Fine, NewStatus, Decided
  <2>5. Decided(payment[req[w].id])
    BY <1>1, <2>2 DEF CarefulInv
  <2>6. payment[req[w].id].status \in {"completed", "failed"} =>
            req[w].row.status = payment[req[w].id].status
    BY <2>2, <2>4, <2>5 DEF Decided
  <2> QED BY <1>3, <2>2, <2>4, <2>6
<1> QED BY <1>2, <1>3

LEMMA CarefulUpdate ==
  ASSUME TypeOK, Known, Careful, SoleInv, CarefulInv, NEW w \in Web, UpdatePayment(w)
  PROVE  CarefulInv'
<1>0. PICK id, row : id = req[w].id /\ row = req[w].row
  OBVIOUS
<1>1. /\ req[w].pc = "update" /\ req[w] # Idle /\ id \in Payments /\ row \in Row
      /\ payment' = [payment EXCEPT ![id] = row] /\ granted' = granted /\ event' \subseteq event
  BY <1>0, UpdateShape
<1>2. payment'[id] = row /\ \A j \in Payments \ {id} : payment'[j] = payment[j]
  BY <1>0, <1>1 DEF TypeOK, PaymentsTypeOK
<1>3. \A v \in Web : req'[v] = Idle \/ req'[v] = req[v] \/ (req[v] # Idle /\ req'[v].row = req[v].row)
  <2>1. CASE req' = [req EXCEPT ![w] = Idle]
    BY <1>0, <2>1 DEF TypeOK, PaymentsTypeOK
  <2>2. CASE req' = [req EXCEPT ![w].pc = "experts"]
    BY <1>0, <1>1, <2>2, RequestMoved
  <2> QED BY <1>0, <2>1, <2>2, UpdateShape
<1>4. SessionsKept /\ \A t \in Sessions : session'[t].state # "processing"
  <2>1. CASE session' = session
    BY <1>0, <2>1 DEF SessionsKept, CarefulInv
  <2>2. CASE req[w].event = NoEvent /\ session' = [session EXCEPT ![row.session].state = "open"]
    <3>1. session[row.session].state = "created"
      BY <1>0, <1>1, <2>2 DEF SoleInv, AsRead, Purchase
    <3> QED BY <1>0, <1>1, <2>2, <3>1, KnownSessions, SessionsOpened
  <2> QED BY <1>0, <2>1, <2>2, UpdateShape
<1>5. \A q \in Questionnaires : InProgress(q)' \subseteq InProgress(q)
  <2>1. /\ payment[id] # NoRow /\ row.q = payment[id].q /\ row.type = payment[id].type
        /\ payment[id].status = "failed" => row.status = "failed"
    BY <1>0, Updated
  <2> QED BY <1>0, <1>1, <1>2, <2>1 DEF InProgress, RowsOf
<1>6. OneInitial'
  BY <1>0, <1>5, OneInitialKept DEF CarefulInv
<1>7. payment'[id].status = "open" \/ Decided(payment[id])'
  <2>1. CASE req[w].event = NoEvent
    BY <1>0, <1>2, <2>1, Updated
  <2>2. CASE req[w].event # NoEvent
    <3>1. Decided(row) /\ session[row.session] # NoSession /\ row.session \in Sessions
      BY <1>0, <1>1, <2>2, Updated, KnownSessions
    <3>2. payment'[id].status = row.status /\ payment'[id].session = row.session
      BY <1>0, <1>2
    <3> QED BY <1>0, <1>4, <3>1, <3>2 DEF Decided, SessionsKept
  <2> QED BY <1>0, <2>1, <2>2
<1>8. \A i \in Payments : \/ payment'[i] = payment[i]
                          \/ /\ \E v \in Web : req[v] # Idle /\ payment'[i] = req[v].row
                             /\ payment'[i].status = "open" \/ Decided(payment[i])'
  <2> SUFFICES ASSUME NEW i \in Payments, payment'[i] # payment[i]
               PROVE  /\ \E v \in Web : req[v] # Idle /\ payment'[i] = req[v].row
                      /\ payment'[i].status = "open" \/ Decided(payment[i])'
    OBVIOUS
  <2>1. i = id
    BY <1>0, <1>2
  <2> QED BY <1>0, <1>1, <1>2, <1>7, <2>1
<1> QED BY <1>0, <1>1, <1>3, <1>4, <1>6, <1>8, CarefulFrame

LEMMA CarefulGift ==
  ASSUME TypeOK, Known, Careful, CarefulInv, NEW w \in Web, NEW e \in event, HandleGift(w, e)
  PROVE  CarefulInv'
<1>1. UNCHANGED <<payment, session, req>> /\ event' \subseteq event
  BY DEF HandleGift, Answered
<1>2. \A s \in Sessions : granted'[s] = granted[s] \/ session'[s].state = "paid"
  <2>1. \/ granted' = granted
        \/ NewStatus(e.type) = "completed" /\ granted' = [granted EXCEPT ![e.session] = @ + 1]
    BY DEF HandleGift, PromoCodes, Thanks, GrantGift
  <2>2. NewStatus(e.type) = "completed" => session[e.session].state = "paid"
    BY DEF CarefulInv, Fine, NewStatus
  <2> QED BY <1>1, <2>1, <2>2 DEF TypeOK, PaymentsTypeOK
<1>3. SessionsKept /\ \A t \in Sessions : session'[t].state # "processing"
  BY <1>1 DEF SessionsKept, CarefulInv
<1>4. OneInitial'
  BY <1>1 DEF CarefulInv, OneInitial, InProgress, RowsOf
<1> QED BY <1>1, <1>2, <1>3, <1>4, CarefulFrame

LEMMA CarefulInvariant == Spec => [](Careful => CarefulInv)
<1>1. Init => CarefulInv
  BY DEF Init, CarefulInv, OneInitial, InProgress, RowsOf, NoSession
<1>2. TypeOK /\ Known /\ (Sole => SoleInv) /\ (Careful => CarefulInv) /\ [Next]_vars => (Careful => CarefulInv)'
  <2> SUFFICES ASSUME TypeOK, Known, Sole => SoleInv, Careful => CarefulInv, [Next]_vars, Careful'
               PROVE  CarefulInv'
    OBVIOUS
  <2>1. env' = env
    BY EnvKept
  <2>2. Careful /\ SoleInv /\ CarefulInv
    BY <2>1 DEF Careful, Sole
  <2>3. CASE UNCHANGED vars
    <3>1. UNCHANGED <<payment, event, req, session, granted>>
      BY <2>3 DEF vars, rowVars, stripeVars
    <3>2. SessionsKept /\ \A t \in Sessions : session'[t].state # "processing"
      BY <2>2, <3>1 DEF SessionsKept, CarefulInv
    <3>3. OneInitial'
      BY <2>2, <3>1 DEF CarefulInv, OneInitial, InProgress, RowsOf
    <3> QED BY <2>2, <3>1, <3>2, <3>3, CarefulFrame
  <2>4. CASE Next
    BY <2>2, <2>4, CarefulOthers, CarefulPurchase, CarefulReads, CarefulStripe, CarefulInsert,
       CarefulUpdate, CarefulGift DEF Next, SaveStep, ViewStep, EventStep
  <2> QED BY <2>3, <2>4
<1> QED BY <1>1, <1>2, PaymentsTypesInvariant, SoleInvariant, PTL DEF Spec

\* With cards only and one request at a time, no repeated, late or expired event and no stale
\* status that CreatePayment writes back makes a payment completed that Stripe has no money for.
THEOREM CompletedHasBeenPaid == Spec => []CompletedIsPaid
<1>1. TypeOK /\ (Careful => CarefulInv) => CompletedIsPaid
  BY DEF CarefulInv, Decided, CompletedIsPaid, CompletedRows, NoRow
<1> QED BY <1>1, CarefulInvariant, PaymentsTypesInvariant, PTL

\* At most one initial payment of a questionnaire is completed, however many sessions were opened
\* for it, and nobody buys a further batch at the first batch's price.
THEOREM PricesOnlyAdvance == Spec => []PricesAdvance
<1>1. ASSUME TypeOK, Careful => CarefulInv PROVE PricesAdvance
  <2> SUFFICES ASSUME Careful, NEW q \in Questionnaires
               PROVE  /\ Cardinality(Completed(q, {"initial"})) <= 1
                      /\ \A i \in RowsOf(q) : payment[i].type = "buy_more" =>
                             session[payment[i].session].price >= Min({1, Prices - 1})
    BY DEF PricesAdvance
  <2>1. \A i \in RowsOf(q) : payment[i].type = "buy_more" =>
            session[payment[i].session].price >= Min({1, Prices - 1})
    BY <1>1 DEF CarefulInv, LaterPrice, RowsOf
  <2>2. \A i, j \in Completed(q, {"initial"}) : i = j
    <3>1. Completed(q, {"initial"}) \subseteq InProgress(q)
      BY DEF Completed, CompletedRows, InProgress
    <3> QED BY <1>1, <3>1 DEF CarefulInv, OneInitial
  <2>3. Cardinality(Completed(q, {"initial"})) <= 1
    <3>1. CASE Completed(q, {"initial"}) = {}
      BY <3>1, FS_EmptySet
    <3>2. ASSUME NEW i \in Completed(q, {"initial"}) PROVE Cardinality(Completed(q, {"initial"})) <= 1
      <4>1. Completed(q, {"initial"}) = {i}
        BY <2>2, <3>2
      <4>2. Cardinality({i}) = 1
        BY FS_Singleton
      <4> QED BY <4>1, <4>2
    <3> QED BY <3>1, <3>2
  <2> QED BY <2>1, <2>3
<1> QED BY <1>1, CarefulInvariant, PaymentsTypesInvariant, PTL

\* The only step that writes over a completed row is the UPDATE of a repeated event.
LEMMA CompletedKept ==
  ASSUME TypeOK, Known, Careful, SoleInv, CarefulInv, [Next]_vars, NEW i \in CompletedRows
  PROVE  payment'[i] = payment[i]
<1>1. payment' = payment \/ \E w \in Web : InsertPayment(w) \/ UpdatePayment(w)
  BY DEF vars, Next, SaveStep, FindInitial, PreSave, GrantExperts, FailRequest,
         ViewStep, CompleteDraft, CreatePayment, BuyMore, BuyExpert, BuyGiftCard, MakeDonation,
         EventStep, HandleEvent, HandleGift, Kill, ReadConfig, ChangeConfig,
         Pay, Settle, ExpireSession, Report, rowVars
<1>2. ASSUME NEW w \in Web, InsertPayment(w) PROVE payment'[i] = payment[i]
  <2>1. payment[i] # NoRow
    BY DEF CompletedRows, NoRow
  <2> QED BY <1>2, <2>1, InsertShape DEF CompletedRows, TypeOK, PaymentsTypeOK
<1>3. ASSUME NEW w \in Web, UpdatePayment(w) PROVE payment'[i] = payment[i]
  <2>1. /\ payment' = [payment EXCEPT ![req[w].id] = req[w].row]
        /\ req[w].id \in Payments /\ req[w].row \in Row
    BY <1>3, UpdateShape
  <2>2. CASE i # req[w].id
    BY <2>1, <2>2
  <2>3. CASE i = req[w].id
    <3>1. payment[i] \in Row /\ payment[i].status = "completed"
      BY DEF CompletedRows, NoRow, TypeOK, PaymentsTypeOK
    <3>2. /\ req[w].row.q = payment[i].q /\ req[w].row.type = payment[i].type
          /\ req[w].row.session = payment[i].session /\ req[w].row.status = payment[i].status
      BY <1>3, <2>3, <3>1, Updated
    <3>3. req[w].row = payment[i]
      BY <2>1, <3>1, <3>2 DEF Row
    <3>4. payment'[i] = req[w].row
      BY <2>1, <2>3 DEF TypeOK, PaymentsTypeOK
    <3> QED BY <3>3, <3>4
  <2> QED BY <2>2, <2>3
<1> QED BY <1>1, <1>2, <1>3

\* A completed row is final: neither a new session nor a late or repeated event changes it.
THEOREM CompletedIsFinal == Spec => CompletedStays
<1>1. TypeOK /\ Known /\ (Sole => SoleInv) /\ (Careful => CarefulInv) /\ [Next]_vars
        => [Careful => \A i \in CompletedRows : payment'[i] = payment[i]]_payment
  BY CompletedKept DEF Careful
<1> QED BY <1>1, CarefulInvariant, SoleInvariant, PaymentsTypesInvariant, PTL DEF Spec, CompletedStays

-----------------------------------------------------------------------------
(***************************************************************************)
(* The first batch.  Where it is paid for, a call of get_first_batch leaves*)
(* a completed payment behind, or is followed by the UPDATE that stores it.*)
(***************************************************************************)

Triggered(q) ==
    \/ RowsOf(q) \cap CompletedRows # {}
    \/ \E w \in Web : At(w, "update") /\ req[w].row.q = q /\ req[w].row.status = "completed"
Started ==
    saves = 0 /\ kills = 0 =>
        \A q \in Questionnaires :
            IF PlanOf[FirstConfig] = "FREE"
            THEN first[q] = IF q \in questionnaire THEN 1 ELSE 0
            ELSE first[q] = 0 \/ (first[q] = 1 /\ Triggered(q))

LEMMA PlanKnown ==
  ASSUME Unchanging, saves = 0, NEW p \in Processes
  PROVE  IsFree(p) <=> PlanOf[FirstConfig] = "FREE"
<1>1. Min({FirstConfig}) = FirstConfig
  BY ConfigAssumption, FirstUnused, FirstOne DEF FirstConfig
<1>2. Loaded(p) = FirstConfig
  BY <1>1 DEF Unchanging, Loaded
<1> QED BY <1>2 DEF IsFree

\* The hypothesis of Started only ceases to hold.
LEMMA Counting ==
  ASSUME TypeOK, [Next]_vars
  PROVE  /\ saves' = 0 => saves = 0
         /\ kills' = 0 => kills = 0 /\ \A w \in Web : ~Kill(w)
<1>1. saves \in Nat /\ kills \in Nat
  BY DEF TypeOK, ConfigTypeOK, PaymentsTypeOK
<1>2. saves' \in {saves, saves + 1}
  <2>1. ConfigStep \/ UNCHANGED vars
    BY ConfigSteps
  <2> QED BY <2>1 DEF vars, configVars, ConfigStep, LoadConfig, Expire, SaveConfig, CommitSave,
                      SaveInactive, BeginSave
<1>3. ASSUME NEW w \in Web, SaveStep(w) \/ ViewStep(w) \/ EventStep(w) PROVE kills' = kills
  <2>1. CASE SaveStep(w)
    BY <2>1 DEF SaveStep, FindInitial, InsertPayment, PreSave, UpdatePayment, GrantExperts, FailRequest
  <2>2. CASE ViewStep(w)
    BY <2>2 DEF ViewStep, CompleteDraft, CreatePayment, BuyMore, BuyExpert, BuyGiftCard, MakeDonation
  <2>3. CASE EventStep(w)
    BY <2>3 DEF EventStep, HandleEvent, HandleGift
  <2> QED BY <1>3, <2>1, <2>2, <2>3
<1>4. ASSUME NEW w \in Web, Kill(w) PROVE kills' = kills + 1
  BY <1>4 DEF Kill
<1>5. CASE UNCHANGED vars \/ \A w \in Web : ~Kill(w)
  <2>1. kills' = kills
    BY <1>3, <1>5 DEF vars, Next, ReadConfig, ChangeConfig, Pay, Settle, ExpireSession, Report
  <2>2. \A w \in Web : Kill(w) => FALSE
    BY <1>1, <1>4, <2>1
  <2> QED BY <1>1, <1>2, <2>1, <2>2
<1>6. CASE \E w \in Web : Kill(w)
  BY <1>1, <1>2, <1>4, <1>6
<1> QED BY <1>5, <1>6

\* The row that tells of the call stays, and a request on its way to the UPDATE gets there.
LEMMA TriggeredKept ==
  ASSUME TypeOK, Known, Careful, SoleInv, CarefulInv, Next, \A w \in Web : ~Kill(w),
         NEW q \in Questionnaires, Triggered(q)
  PROVE  Triggered(q)'
<1>1. CASE RowsOf(q) \cap CompletedRows # {}
  <2>1. PICK i \in RowsOf(q) \cap CompletedRows : TRUE
    BY <1>1
  <2>2. payment'[i] = payment[i]
    BY <2>1, CompletedKept
  <2>3. i \in RowsOf(q)' \cap CompletedRows'
    BY <2>1, <2>2 DEF RowsOf, CompletedRows
  <2> QED BY <2>3 DEF Triggered
<1>2. ASSUME NEW w \in Web, At(w, "update"), req[w].row.q = q, req[w].row.status = "completed"
      PROVE  Triggered(q)'
  <2>0. req[w].pc = "update" /\ req[w] # Idle
    BY <1>2 DEF At, Idle
  <2>1. CASE UpdatePayment(w)
    <3>1. /\ payment' = [payment EXCEPT ![req[w].id] = req[w].row]
          /\ req[w].id \in Payments /\ req[w].row \in Row
      BY <2>1, UpdateShape
    <3>2. payment'[req[w].id] = req[w].row /\ req[w].row # NoRow
      BY <3>1, NoIds DEF TypeOK, PaymentsTypeOK
    <3>3. req[w].id \in RowsOf(q)' \cap CompletedRows'
      BY <1>2, <3>1, <3>2 DEF RowsOf, CompletedRows
    <3> QED BY <3>3 DEF Triggered
  <2>2. CASE req'[w] = req[w]
    BY <1>2, <2>2 DEF Triggered, At
  <2>3. ASSUME NEW v \in Web, SaveStep(v) \/ ViewStep(v) \/ EventStep(v)
        PROVE  req'[w] = req[w] \/ UpdatePayment(w)
    <3>1. CASE v = w
      BY <2>0, <2>3, <3>1 DEF At, SaveStep, FindInitial, InsertPayment, PreSave, GrantExperts, FailRequest,
              ViewStep, CompleteDraft, CreatePayment, BuyMore, BuyExpert, BuyGiftCard, MakeDonation,
              EventStep, HandleEvent, HandleGift, Ready
    <3>2. CASE v # w
      BY <2>3, <3>2 DEF SaveStep, FindInitial, InsertPayment, PreSave, GrantExperts, FailRequest,
              UpdatePayment, Goto, Done,
              ViewStep, CompleteDraft, CreatePayment, BuyMore, BuyExpert, BuyGiftCard, MakeDonation,
              EventStep, HandleEvent, HandleGift, TypeOK, PaymentsTypeOK
    <3> QED BY <3>1, <3>2
  <2>4. req'[w] = req[w] \/ UpdatePayment(w)
    BY <2>3 DEF Next, ReadConfig, ChangeConfig, Pay, Settle, ExpireSession, Report
  <2> QED BY <2>1, <2>2, <2>4
<1> QED BY <1>1, <1>2 DEF Triggered

LEMMA StartedStep ==
  ASSUME TypeOK, Known, Unchanging, Careful, SoleInv, CarefulInv, Started, Next
  PROVE  Started'
<1> SUFFICES ASSUME saves' = 0, kills' = 0, NEW q \in Questionnaires
             PROVE  IF PlanOf[FirstConfig] = "FREE"
                    THEN first'[q] = IF q \in questionnaire' THEN 1 ELSE 0
                    ELSE first'[q] = 0 \/ (first'[q] = 1 /\ Triggered(q)')
  BY DEF Started
<1>1. saves = 0 /\ \A w \in Web : ~Kill(w)
  BY Counting
<1>2. IF PlanOf[FirstConfig] = "FREE"
      THEN first[q] = IF q \in questionnaire THEN 1 ELSE 0
      ELSE first[q] = 0 \/ (first[q] = 1 /\ Triggered(q))
  BY <1>1, Counting DEF Started
<1>3. first \in [Questionnaires -> Nat]
  BY DEF TypeOK, PaymentsTypeOK
<1>4. Triggered(q) => Triggered(q)'
  BY <1>1, TriggeredKept
<1>5. CASE UNCHANGED <<first, questionnaire>>
  BY <1>2, <1>4, <1>5
<1>6. ASSUME NEW w \in Web, NEW p \in Questionnaires, CompleteDraft(w, p)
      PROVE  IF PlanOf[FirstConfig] = "FREE"
             THEN first'[q] = IF q \in questionnaire' THEN 1 ELSE 0
             ELSE first'[q] = 0 \/ (first'[q] = 1 /\ Triggered(q)')
  <2>1. IsFree(w) <=> PlanOf[FirstConfig] = "FREE"
    BY <1>1, PlanKnown, PaymentsAssumption
  <2>2. /\ p \notin questionnaire /\ questionnaire' = questionnaire \cup {p}
        /\ first' = IF IsFree(w) THEN [first EXCEPT ![p] = @ + 1] ELSE first
    <3>1. CanLoad(w)
      BY <1>1 DEF Unchanging, CanLoad
    <3> QED BY <1>6, <3>1 DEF CompleteDraft
  <2>3. CASE PlanOf[FirstConfig] = "FREE"
    BY <1>2, <1>3, <2>1, <2>2, <2>3
  <2>4. CASE PlanOf[FirstConfig] # "FREE"
    BY <1>2, <1>4, <2>1, <2>2, <2>4
  <2> QED BY <2>3, <2>4
<1>7. ASSUME NEW w \in Web, PreSave(w)
      PROVE  IF PlanOf[FirstConfig] = "FREE"
             THEN first'[q] = IF q \in questionnaire' THEN 1 ELSE 0
             ELSE first'[q] = 0 \/ (first'[q] = 1 /\ Triggered(q)')
  <2>1. IsFree(w) <=> PlanOf[FirstConfig] = "FREE"
    BY <1>1, PlanKnown, PaymentsAssumption
  <2>2. /\ questionnaire' = questionnaire /\ req[w].pc = "presave"
        /\ first' = IF ~IsFree(w) /\ FirstTrigger(w) THEN [first EXCEPT ![req[w].row.q] = @ + 1]
                                                     ELSE first
        /\ req' = [req EXCEPT ![w].pc = "update"]
    BY <1>7 DEF PreSave, At, Goto
  <2>3. CASE first' = first
    BY <1>2, <1>4, <2>2, <2>3
  <2>4. CASE first' # first /\ q # req[w].row.q
    <3>1. first'[q] = first[q] /\ PlanOf[FirstConfig] # "FREE"
      BY <1>3, <2>1, <2>2, <2>4
    <3> QED BY <1>2, <1>4, <3>1
  <2>5. CASE first' # first /\ q = req[w].row.q
    <3>1. /\ PlanOf[FirstConfig] # "FREE" /\ FirstTrigger(w) /\ first'[q] = first[q] + 1
      BY <1>3, <2>1, <2>2, <2>5
    <3>2. req[w] # Idle
      BY <2>2 DEF Idle
    <3>3. ~Triggered(q)
      <4>1. \A v \in Web : ~At(v, "update")
        BY <2>2, <3>2, SoleIdle DEF At, Idle, Careful
      <4> QED BY <2>5, <3>1, <4>1 DEF Triggered, FirstTrigger
    <3>4. first'[q] = 1
      BY <1>2, <3>1, <3>3
    <3>5. Triggered(q)'
      <4>1. req'[w].row = req[w].row /\ req'[w].pc = "update"
        BY <2>2, <3>2, RequestMoved
      <4> QED BY <2>5, <3>1, <4>1 DEF Triggered, At, FirstTrigger
    <3> QED BY <3>1, <3>4, <3>5
  <2> QED BY <2>3, <2>4, <2>5
<1>8. \/ UNCHANGED <<first, questionnaire>>
      \/ \E w \in Web : PreSave(w) \/ \E p \in Questionnaires : CompleteDraft(w, p)
  <2>1. ASSUME NEW w \in Web, SaveStep(w) \/ EventStep(w)
        PROVE  PreSave(w) \/ UNCHANGED <<first, questionnaire>>
    BY <2>1 DEF SaveStep, FindInitial, InsertPayment, UpdatePayment, GrantExperts, FailRequest,
              EventStep, HandleEvent, HandleGift, rowVars
  <2>2. ASSUME NEW w \in Web, ViewStep(w)
        PROVE  \/ UNCHANGED <<first, questionnaire>> \/ \E p \in Questionnaires : CompleteDraft(w, p)
    BY <2>2 DEF ViewStep, CreatePayment, BuyMore, BuyExpert, BuyGiftCard, MakeDonation, rowVars
  <2> QED BY <1>1, <2>1, <2>2 DEF Next, ReadConfig, ChangeConfig, Pay, Settle, ExpireSession, Report, rowVars
<1> QED BY <1>5, <1>6, <1>7, <1>8

LEMMA StartedInvariant == Spec => [](Careful => Started)
<1>1. Init => Started
  BY DEF Init, Started
<1>2. /\ TypeOK /\ Known /\ Unchanging /\ (Sole => SoleInv)
      /\ (Careful => CarefulInv) /\ (Careful => Started) /\ [Next]_vars
      => (Careful => Started)'
  <2> SUFFICES ASSUME TypeOK, Known, Unchanging, Sole => SoleInv, Careful => CarefulInv,
                      Careful => Started, [Next]_vars, Careful'
               PROVE  Started'
    OBVIOUS
  <2>1. env' = env
    BY EnvKept
  <2>2. Careful /\ SoleInv /\ CarefulInv /\ Started
    BY <2>1 DEF Careful, Sole
  <2>3. CASE UNCHANGED vars
    BY <2>2, <2>3 DEF vars, configVars, rowVars, Started, Triggered, At, RowsOf, CompletedRows
  <2> QED BY <2>2, <2>3, StartedStep
<1> QED BY <1>1, <1>2, PaymentsTypesInvariant, SoleInvariant, CarefulInvariant, PTL DEF Spec

\* However often Stripe repeats its events, the chain of the first batch is started at most once
\* for a questionnaire, as long as the plan stays and no request dies between trigger and UPDATE.
THEOREM FirstBatchStartsOnce == Spec => []FirstBatchOnce
<1>1. TypeOK /\ (Careful => Started) => FirstBatchOnce
  BY DEF FirstBatchOnce, Started
<1> QED BY <1>1, StartedInvariant, PaymentsTypesInvariant, PTL

-----------------------------------------------------------------------------
(***************************************************************************)
(* What is paid is not lost, under any overlap of requests.  A session is  *)
(* known to one request until it is open, and a Payment that is not the    *)
(* first one keeps its session, so that an event finds the row it is for.  *)
(***************************************************************************)

Lost  == {"failed", "expired"}
Final == {"paid", "failed", "expired"}
Later(row) == row # NoRow /\ row.type # "initial"
Pending(s) == \E e \in event : e.session = s
Alone(row, i) == \A j \in Payments : Later(payment[j]) /\ payment[j].session = row.session => j = i
Fits(e) == NewStatus(e.type) = "failed" => session[e.session].state \in Lost

\* A view: nobody else knows the new session.
FromView(w) ==
    /\ session[req[w].row.session].state = "created"
    /\ req[w].pc \in {"find", "insert"} => req[w].row.status = "open"
    /\ req[w].pc # "insert" => req[w].row.type = "initial"
    /\ req[w].row.type = "initial" => session[req[w].row.session].product = "batch"
    /\ \A i \in Payments : payment[i].session # req[w].row.session
    /\ \A v \in Web \ {w} : req[v] # Idle => req[v].row.session # req[w].row.session
\* The webhook: the row is the one the event is for.
FromStripe(w) ==
    /\ Fits(req[w].event) /\ req[w].event.session = req[w].row.session
    /\ req[w].row.status = NewStatus(req[w].event.type)
    /\ Alone(req[w].row, req[w].id)
Target(w) ==
    req[w].pc \in {"presave", "update", "experts"} =>
        /\ payment[req[w].id] # NoRow /\ payment[req[w].id].type = req[w].row.type
        /\ req[w].row.type # "initial" => payment[req[w].id].session = req[w].row.session
        /\ req[w].pc = "experts" => payment[req[w].id].status # "open"
Serves(w) ==
    req[w] # Idle => (IF req[w].event = NoEvent THEN FromView(w) ELSE FromStripe(w)) /\ Target(w)

\* A row that is still open when its session is paid has an event to come.
Told(i) ==
    payment[i] # NoRow =>
        /\ Alone(payment[i], i)
        /\ payment[i].type # "initial" =>
               /\ payment[i].status = "failed" => session[payment[i].session].state \in Lost
               /\ payment[i].status = "open" /\ session[payment[i].session].state = "paid"
                    => Pending(payment[i].session)
Stored(s) ==
    /\ session[s].product = "expert" /\ session[s].state # "created" =>
           \E i \in Payments : payment[i].session = s /\ payment[i].type # "initial"
    /\ session[s].product \in {"gift_card", "donation"} /\ session[s].state = "paid" =>
           granted[s] > 0 \/ Pending(s)
ToldInv ==
    /\ \A e \in event : Fits(e)
    /\ \A w \in Web : Serves(w)
    /\ \A i \in Payments : Told(i)
    /\ \A s \in Sessions : Stored(s)

\* Sessions stay what they are for, and the end of a session is the end.
SessionsStay ==
    \A t \in Sessions : session[t] # NoSession =>
        /\ session'[t].product = session[t].product
        /\ session[t].state \in Final => session'[t].state = session[t].state

\* The row that a request writes.
Saves(w, i) ==
    /\ req[w] # Idle /\ payment' = [payment EXCEPT ![i] = req[w].row]
    /\ \/ req[w].pc = "insert" /\ payment[i] = NoRow
       \/ req[w].pc = "update" /\ i = req[w].id

LEMMA Saved ==
  ASSUME TypeOK, Known, ToldInv, NEW w \in Web, NEW i \in Payments, Saves(w, i)
  PROVE  /\ payment'[i] = req[w].row /\ payment'[i] \in Row /\ payment'[i] # NoRow
         /\ \A j \in Payments \ {i} : payment'[j] = payment[j]
         /\ \/ /\ payment[i] = NoRow /\ FromView(w) /\ req[w].event = NoEvent
               /\ req[w].pc = "insert" /\ req[w].row.status = "open"
            \/ /\ payment[i] # NoRow /\ payment[i].type = req[w].row.type
               /\ i = req[w].id /\ req[w].pc = "update"
               /\ \/ FromView(w) /\ req[w].event = NoEvent /\ req[w].row.type = "initial"
                  \/ /\ FromStripe(w) /\ req[w].event # NoEvent /\ req[w].row.status # "open"
                     /\ req[w].row.type # "initial" => payment[i].session = req[w].row.session
<1>1. req[w].row \in Row /\ req[w].row # NoRow /\ req[w] # Idle
  BY RequestFields, NoIds DEF Saves
<1>2. payment'[i] = req[w].row /\ \A j \in Payments \ {i} : payment'[j] = payment[j]
  BY DEF Saves, TypeOK, PaymentsTypeOK
<1>3. (IF req[w].event = NoEvent THEN FromView(w) ELSE FromStripe(w)) /\ Target(w)
  BY <1>1 DEF ToldInv, Serves
<1>4. CASE req[w].pc = "insert" /\ payment[i] = NoRow
  BY <1>1, <1>2, <1>3, <1>4, RequestFields DEF FromView
<1>5. CASE req[w].pc = "update" /\ i = req[w].id
  <2>1. FromStripe(w) => req[w].row.status # "open"
    BY DEF FromStripe, NewStatus
  <2> QED BY <1>1, <1>2, <1>3, <1>5, <2>1 DEF FromView, Target
<1> QED BY <1>4, <1>5 DEF Saves

\* Sessions that requests are about afterwards: those they were about, those of rows, or new ones.
Familiar(u) ==
    \/ req[u] # Idle /\ req'[u].row.session = req[u].row.session
    \/ \E i \in Payments : payment[i].session = req'[u].row.session
    \/ session[req'[u].row.session] = NoSession

\* What the other requests may rely on.
LEMMA ServesKept ==
  ASSUME TypeOK, Known, ToldInv, NEW v \in Web, req'[v] = req[v], SessionsStay,
         req[v] # Idle /\ req[v].event = NoEvent =>
            session'[req[v].row.session].state = session[req[v].row.session].state,
         \A u \in Web \ {v} : req'[u] # Idle => Familiar(u),
         UNCHANGED payment \/ \E w \in Web \ {v}, i \in Payments : Saves(w, i)
  PROVE  Serves(v)'
<1> SUFFICES ASSUME req[v] # Idle
             PROVE  (IF req[v].event = NoEvent THEN FromView(v)' ELSE FromStripe(v)') /\ Target(v)'
  BY DEF Serves
<1>1. /\ req[v].row.session \in Sessions /\ session[req[v].row.session] # NoSession
      /\ (IF req[v].event = NoEvent THEN FromView(v) ELSE FromStripe(v)) /\ Target(v)
  BY KnownSessions DEF ToldInv, Serves
<1>2. session'[req[v].row.session].product = session[req[v].row.session].product
  BY <1>1 DEF SessionsStay
<1>3. \/ UNCHANGED payment
      \/ \E w \in Web \ {v}, i \in Payments :
            /\ Saves(w, i) /\ req[w] # Idle
            /\ payment'[i] = req[w].row /\ payment'[i] \in Row /\ payment'[i] # NoRow
            /\ \A j \in Payments \ {i} : payment'[j] = payment[j]
            /\ \/ payment[i] = NoRow /\ FromView(w)
               \/ /\ payment[i] # NoRow /\ payment[i].type = req[w].row.type
                  /\ \/ FromView(w) /\ req[w].row.type = "initial"
                     \/ /\ FromStripe(w) /\ req[w].row.status # "open"
                        /\ req[w].row.type # "initial" => payment[i].session = req[w].row.session
  BY Saved DEF Saves
<1>4. ASSUME req[v].event = NoEvent PROVE FromView(v)'
  <2>1. \A i \in Payments : payment'[i].session # req[v].row.session
    BY <1>1, <1>3, <1>4 DEF FromView
  <2>2. ASSUME NEW u \in Web \ {v}, req'[u] # Idle PROVE req'[u].row.session # req[v].row.session
    BY <1>1, <1>4, <2>2 DEF FromView, Familiar
  <2> QED BY <1>1, <1>2, <1>4, <2>1, <2>2 DEF FromView
<1>5. ASSUME req[v].event # NoEvent PROVE FromStripe(v)'
  <2>1. req[v].event.session = req[v].row.session /\ Fits(req[v].event)
    BY <1>1, <1>5 DEF FromStripe
  <2>2. Fits(req[v].event)'
    BY <1>1, <2>1 DEF Fits, SessionsStay, Lost, Final
  <2>3. ASSUME NEW j \in Payments, Later(payment'[j]), payment'[j].session = req[v].row.session
        PROVE  j = req[v].id
    <3>1. Later(payment[j]) /\ payment[j].session = req[v].row.session
      BY <1>1, <1>3, <2>3 DEF Later, FromView
    <3> QED BY <1>1, <1>5, <3>1 DEF FromStripe, Alone
  <2> QED BY <1>1, <1>5, <2>1, <2>2, <2>3 DEF FromStripe, Alone
<1>6. Target(v)'
  <2> SUFFICES ASSUME req[v].pc \in {"presave", "update", "experts"}
               PROVE  /\ payment'[req[v].id] # NoRow /\ payment'[req[v].id].type = req[v].row.type
                      /\ req[v].row.type # "initial" => payment'[req[v].id].session = req[v].row.session
                      /\ req[v].pc = "experts" => payment'[req[v].id].status # "open"
    BY DEF Target
  <2>1. /\ payment[req[v].id] # NoRow /\ payment[req[v].id].type = req[v].row.type
        /\ req[v].row.type # "initial" => payment[req[v].id].session = req[v].row.session
        /\ req[v].pc = "experts" => payment[req[v].id].status # "open"
        /\ req[v].id \in Payments
    BY <1>1, RequestFields DEF Target
  <2>2. req[v].pc = "experts" => req[v].row.type # "initial"
    BY DEF Known, At, ExpertTypes
  <2> QED BY <1>3, <2>1, <2>2
<1> QED BY <1>4, <1>5, <1>6

LEMMA Sessioned ==
  ASSUME TypeOK, Known, NEW i \in Payments, payment[i] # NoRow
  PROVE  /\ payment[i] \in Row /\ payment[i].session \in Sessions
         /\ session[payment[i].session] # NoSession
         /\ session[payment[i].session].product \in OfPayment
<1>1. payment[i] \in Row
  BY DEF TypeOK, PaymentsTypeOK
<1> QED BY <1>1, KnownSessions DEF Known

\* Rows and sessions after the INSERT or UPDATE of a row.
LEMMA RowSaved ==
  ASSUME TypeOK, Known, ToldInv, NEW w \in Web, NEW k \in Payments, Saves(w, k), SessionsStay,
         \A t \in Sessions : \/ session'[t] = session[t]
                             \/ /\ session'[t].state = "open" /\ t = req[w].row.session
                                /\ req[w].event = NoEvent,
         req[w].pc = "insert" => session'[req[w].row.session].state = "open",
         event \subseteq event' \cup {req[w].event}, UNCHANGED granted
  PROVE  (\A i \in Payments : Told(i)') /\ (\A s \in Sessions : Stored(s)')
<1>1. /\ payment'[k] = req[w].row /\ payment'[k] \in Row /\ payment'[k] # NoRow
      /\ \A j \in Payments \ {k} : payment'[j] = payment[j]
      /\ \/ /\ payment[k] = NoRow /\ FromView(w) /\ req[w].event = NoEvent
            /\ req[w].pc = "insert" /\ req[w].row.status = "open"
         \/ /\ payment[k] # NoRow /\ payment[k].type = req[w].row.type
            /\ k = req[w].id /\ req[w].pc = "update"
            /\ \/ FromView(w) /\ req[w].event = NoEvent /\ req[w].row.type = "initial"
               \/ /\ FromStripe(w) /\ req[w].event # NoEvent /\ req[w].row.status # "open"
                  /\ req[w].row.type # "initial" => payment[k].session = req[w].row.session
  BY Saved
<1>2. /\ req[w] # Idle /\ req[w].row.session \in Sessions
      /\ session[req[w].row.session].product \in OfPayment
  BY KnownSessions DEF Saves, Known
<1>3. ASSUME NEW i \in Payments, NEW j \in Payments, payment'[i] # NoRow, Later(payment'[j]),
             payment'[j].session = payment'[i].session
      PROVE  j = i
  <2>1. CASE i # k /\ j # k
    <3>1. payment[i] # NoRow /\ Later(payment[j]) /\ payment[j].session = payment[i].session
      BY <1>1, <1>3, <2>1 DEF Later
    <3> QED BY <3>1 DEF ToldInv, Told, Alone
  <2>2. CASE i = k /\ j # k
    <3>1. Later(payment[j]) /\ payment[j].session = req[w].row.session
      BY <1>1, <1>3, <2>2 DEF Later
    <3> QED BY <1>1, <2>2, <3>1 DEF FromView, FromStripe, Alone
  <2>3. CASE i # k /\ j = k
    <3>1. payment[i] # NoRow /\ payment[i].session = req[w].row.session /\ Later(req[w].row)
      BY <1>1, <1>3, <2>3
    <3>2. FromStripe(w) /\ Later(payment[k]) /\ payment[k].session = payment[i].session
      BY <1>1, <3>1 DEF FromView, Later
    <3> QED BY <2>3, <3>1, <3>2 DEF ToldInv, Told, Alone
  <2> QED BY <2>1, <2>2, <2>3
<1>4. ASSUME NEW i \in Payments, payment'[i] # NoRow, payment'[i].type # "initial",
             payment'[i].status = "failed"
      PROVE  session'[payment'[i].session].state \in Lost
  <2>1. CASE i # k
    <3>1. payment'[i] = payment[i] /\ session[payment[i].session].state \in Lost
      BY <1>1, <1>4, <2>1 DEF ToldInv, Told
    <3>2. payment[i].session \in Sessions /\ session[payment[i].session] # NoSession
      BY <1>1, <1>4, <2>1, Sessioned
    <3> QED BY <3>1, <3>2 DEF SessionsStay, Lost, Final
  <2>2. CASE i = k
    <3>1. FromStripe(w) /\ req[w].event # NoEvent /\ payment'[i] = req[w].row
      BY <1>1, <1>4, <2>2
    <3>2. session[req[w].row.session].state \in Lost
      BY <1>4, <3>1 DEF FromStripe, Fits
    <3>3. session[req[w].row.session] # NoSession
      BY <1>2, KnownSessions
    <3> QED BY <1>2, <3>1, <3>2, <3>3 DEF SessionsStay, Lost, Final
  <2> QED BY <2>1, <2>2
<1>5. ASSUME NEW i \in Payments, payment'[i] # NoRow, payment'[i].type # "initial",
             payment'[i].status = "open", session'[payment'[i].session].state = "paid"
      PROVE  \E e \in event' : e.session = payment'[i].session
  <2>1. i # k
    <3> SUFFICES ASSUME i = k PROVE FALSE
      OBVIOUS
    <3> QED BY <1>1, <1>5
  <2>2. payment'[i] = payment[i] /\ payment[i].session \in Sessions
    BY <1>1, <1>5, <2>1, Sessioned
  <2>3. session[payment[i].session].state = "paid"
    BY <1>5, <2>2
  <2>4. PICK e \in event : e.session = payment[i].session
    BY <1>5, <2>2, <2>3 DEF ToldInv, Told, Pending
  <2>5. e # req[w].event
    <3> SUFFICES ASSUME e = req[w].event PROVE FALSE
      OBVIOUS
    <3>1. req[w].event # NoEvent
      BY <2>2, <2>4, NoIds DEF NoEvent
    <3>2. FromStripe(w) /\ k = req[w].id
      BY <1>1, <3>1
    <3>3. Later(payment[i]) /\ payment[i].session = req[w].row.session
      BY <1>5, <2>2, <2>4, <3>2 DEF Later, FromStripe
    <3> QED BY <2>1, <3>2, <3>3 DEF FromStripe, Alone
  <2> QED BY <2>2, <2>4, <2>5
<1>6. ASSUME NEW s \in Sessions, session'[s].product = "expert", session'[s].state # "created"
      PROVE  \E i \in Payments : payment'[i].session = s /\ payment'[i].type # "initial"
  <2>1. CASE session'[s] = session[s]
    <3>1. PICK i \in Payments : payment[i].session = s /\ payment[i].type # "initial"
      BY <1>6, <2>1 DEF ToldInv, Stored
    <3>2. payment[i] # NoRow
      BY <3>1, NoIds DEF NoRow
    <3> QED BY <1>1, <3>1, <3>2
  <2>2. CASE session'[s] # session[s]
    <3>1. s = req[w].row.session /\ req[w].event = NoEvent
      BY <2>2
    <3>2. session[s].product = "expert"
      <4>1. session[s] # NoSession
        BY <1>2, <3>1, KnownSessions
      <4> QED BY <1>6, <4>1 DEF SessionsStay
    <3>3. FromView(w)
      BY <1>1, <3>1
    <3>4. req[w].row.type # "initial"
      BY <3>1, <3>2, <3>3 DEF FromView
    <3> QED BY <1>1, <3>1, <3>4
  <2> QED BY <2>1, <2>2
<1>7. ASSUME NEW s \in Sessions, session'[s].product \in {"gift_card", "donation"},
             session'[s].state = "paid"
      PROVE  granted'[s] > 0 \/ \E e \in event' : e.session = s
  <2>1. session'[s] = session[s]
    BY <1>7
  <2>2. granted[s] > 0 \/ \E e \in event : e.session = s
    BY <1>7, <2>1 DEF ToldInv, Stored, Pending
  <2>3. ASSUME NEW e \in event, e.session = s PROVE e # req[w].event
    <3> SUFFICES ASSUME e = req[w].event PROVE FALSE
      OBVIOUS
    <3>1. req[w].event # NoEvent
      BY <2>3, NoIds DEF NoEvent
    <3>2. s = req[w].row.session
      BY <1>1, <2>3, <3>1 DEF FromStripe
    <3> QED BY <1>2, <1>7, <2>1, <3>2 DEF OfPayment
  <2> QED BY <2>2, <2>3
<1>8. ASSUME NEW i \in Payments PROVE Told(i)'
  BY <1>3, <1>4, <1>5 DEF Told, Alone, Pending
<1>9. ASSUME NEW s \in Sessions PROVE Stored(s)'
  BY <1>6, <1>7 DEF Stored, Pending
<1> QED BY <1>8, <1>9

LEMMA FitsKept ==
  ASSUME TypeOK, Known, ToldInv, SessionsStay
  PROVE  \A e \in event : Fits(e)'
<1> SUFFICES ASSUME NEW e \in event, NewStatus(e.type) = "failed"
             PROVE  session'[e.session].state \in Lost
  BY DEF Fits
<1>1. session[e.session].state \in Lost /\ session[e.session] # NoSession /\ e.session \in Sessions
  BY KnownSessions DEF ToldInv, Fits, Known
<1> QED BY <1>1 DEF SessionsStay, Lost, Final

\* Rows and sessions after a step that writes no row.  An event that is answered is about a row
\* that is not open, or about a gift that has been sent, or about a session that was not paid.
LEMMA RowsAtRest ==
  ASSUME TypeOK, Known, ToldInv, SessionsStay, UNCHANGED payment,
         \A t \in Sessions :
            /\ session'[t].state = "paid" => session[t].state = "paid" \/ Pending(t)'
            /\ session[t] # NoSession /\ session'[t].state # "created" => session[t].state # "created"
            /\ session[t] = NoSession /\ session'[t].product \in OfPayment =>
                session'[t].state = "created"
            /\ granted[t] > 0 => granted'[t] > 0,
         \A e \in event : e \notin event' =>
            /\ \A i \in Payments : Later(payment[i]) /\ payment[i].session = e.session =>
                   payment[i].status # "open" \/ session[e.session].state # "paid"
            /\ \/ session[e.session].product \in OfPayment
               \/ granted'[e.session] > 0 \/ session[e.session].state # "paid"
  PROVE  (\A i \in Payments : Told(i)') /\ (\A s \in Sessions : Stored(s)')
<1>1. ASSUME NEW i \in Payments, payment[i] # NoRow PROVE Alone(payment[i], i)'
  BY <1>1 DEF ToldInv, Told, Alone
<1>2. ASSUME NEW i \in Payments, Later(payment[i]), payment[i].status = "failed"
      PROVE  session'[payment[i].session].state \in Lost
  <2>1. session[payment[i].session].state \in Lost
    BY <1>2 DEF ToldInv, Told, Later
  <2> QED BY <1>2, <2>1, Sessioned DEF SessionsStay, Lost, Final, Later
<1>3. ASSUME NEW i \in Payments, Later(payment[i]), payment[i].status = "open",
             session'[payment[i].session].state = "paid"
      PROVE  Pending(payment[i].session)'
  <2>1. payment[i].session \in Sessions
    BY <1>3, Sessioned DEF Later
  <2>2. CASE session[payment[i].session].state = "paid"
    <3>1. PICK e \in event : e.session = payment[i].session
      BY <1>3, <2>2 DEF ToldInv, Told, Pending, Later
    <3>2. e \in event'
      BY <1>3, <2>2, <3>1
    <3> QED BY <3>1, <3>2 DEF Pending
  <2>3. CASE session[payment[i].session].state # "paid"
    <3>1. Pending(payment[i].session)' <=> \E e \in event' : e.session = payment'[i].session
      BY DEF Pending
    <3>2. \E e \in event' : e.session = payment[i].session
      BY <1>3, <2>1, <2>3 DEF Pending
    <3> QED BY <3>1, <3>2
  <2> QED BY <2>2, <2>3
<1>4. ASSUME NEW s \in Sessions, session'[s].product = "expert", session'[s].state # "created"
      PROVE  \E i \in Payments : payment[i].session = s /\ payment[i].type # "initial"
  <2>1. session[s] # NoSession /\ session[s].state # "created"
    BY <1>4 DEF OfPayment
  <2> QED BY <1>4, <2>1 DEF SessionsStay, ToldInv, Stored
<1>5. ASSUME NEW s \in Sessions, session'[s].product \in {"gift_card", "donation"},
             session'[s].state = "paid"
      PROVE  granted'[s] > 0 \/ \E e \in event' : e.session = s
  <2>1. CASE session[s].state = "paid"
    <3>1. session[s].product = session'[s].product
      BY <2>1 DEF SessionsStay, NoSession
    <3>2. granted[s] > 0 \/ \E e \in event : e.session = s
      BY <1>5, <2>1, <3>1 DEF ToldInv, Stored, Pending
    <3> QED BY <1>5, <2>1, <3>1, <3>2 DEF OfPayment
  <2>2. CASE session[s].state # "paid"
    BY <1>5, <2>2 DEF Pending
  <2> QED BY <2>1, <2>2
<1>6. ASSUME NEW i \in Payments PROVE Told(i)'
  <2>1. payment'[i] = payment[i]
    OBVIOUS
  <2> QED BY <1>1, <1>2, <1>3, <2>1 DEF Told, Later
<1>7. ASSUME NEW s \in Sessions PROVE Stored(s)'
  BY <1>4, <1>5 DEF Stored, Pending
<1> QED BY <1>6, <1>7

LEMMA ToldPurchase ==
  ASSUME TypeOK, Known, ToldInv, NEW w \in Web, NEW q \in Questionnaires,
         CreatePayment(w, q) \/ BuyMore(w, q) \/ (\E plus \in BOOLEAN : BuyExpert(w, q, plus))
  PROVE  ToldInv'
<1>1. PICK s \in Sessions, row \in Row, pc \in {"find", "insert"} : Purchasing(w, s, row, pc)
  BY PurchaseShape
<1>2. /\ req'[w].pc = pc /\ req'[w].row = row /\ req'[w].event = NoEvent /\ req'[w] # Idle
      /\ \A v \in Web \ {w} : req'[v] = req[v]
      /\ session'[s].product \in OfPayment /\ session'[s].state = "created"
      /\ row.type = "initial" => session'[s].product = "batch"
      /\ \A t \in Sessions \ {s} : session'[t] = session[t]
  BY <1>1, PurchaseFields
<1>3. /\ row.status = "open" /\ row.session = s /\ session[s] = NoSession /\ req[w] = Idle
      /\ row.type # "initial" => pc = "insert"
      /\ UNCHANGED <<payment, granted, event>>
  BY <1>1 DEF Purchasing, rowVars
<1>4. SessionsStay
  BY <1>2, <1>3 DEF SessionsStay
<1>5. \A i \in Payments : payment[i].session # s
  BY <1>3, Sessioned, NoIds DEF NoRow
<1>6. \A v \in Web : req[v] # Idle => req[v].row.session # s
  BY <1>3, KnownSessions
<1>7. Serves(w)'
  <2>1. FromView(w)'
    BY <1>2, <1>3, <1>5, <1>6 DEF FromView
  <2> QED BY <1>2, <2>1 DEF Serves, Target
<1>8. ASSUME NEW v \in Web \ {w} PROVE Serves(v)'
  <2>1. req'[v] = req[v] /\ \A u \in Web \ {v} : req'[u] # Idle => Familiar(u)
    BY <1>2, <1>3 DEF Familiar
  <2>2. req[v] # Idle => session'[req[v].row.session].state = session[req[v].row.session].state
    BY <1>2, <1>6, KnownSessions
  <2> QED BY <1>3, <1>4, <2>1, <2>2, ServesKept
<1>9. (\A i \in Payments : Told(i)') /\ (\A t \in Sessions : Stored(t)')
  <2>1. ASSUME NEW t \in Sessions PROVE
          /\ session'[t].state = "paid" => session[t].state = "paid" \/ Pending(t)'
          /\ session[t] # NoSession /\ session'[t].state # "created" => session[t].state # "created"
          /\ session[t] = NoSession /\ session'[t].product \in OfPayment =>
                session'[t].state = "created"
          /\ granted[t] > 0 => granted'[t] > 0
    <3>1. CASE t = s
      BY <1>2, <1>3, <3>1
    <3>2. CASE t # s
      BY <1>2, <1>3, <3>2 DEF NoSession, OfPayment
    <3> QED BY <3>1, <3>2
  <2>2. UNCHANGED payment /\ event' = event
    BY <1>3
  <2> QED BY <1>4, <2>1, <2>2, RowsAtRest
<1> QED BY <1>3, <1>4, <1>7, <1>8, <1>9, FitsKept DEF ToldInv

LEMMA ToldGift ==
  ASSUME TypeOK, Known, ToldInv, NEW w \in Web, BuyGiftCard(w) \/ MakeDonation(w)
  PROVE  ToldInv'
<1>1. /\ UNCHANGED <<payment, granted, event, req>>
      /\ \E s \in Sessions : /\ session[s] = NoSession /\ session'[s] # NoSession
                             /\ session'[s].product \notin OfPayment /\ session'[s].state = "open"
                             /\ \A t \in Sessions \ {s} : session'[t] = session[t]
  BY GiftShape
<1>2. \A t \in Sessions : session[t] # NoSession => session'[t] = session[t]
  BY <1>1
<1>3. SessionsStay
  BY <1>2 DEF SessionsStay
<1>4. ASSUME NEW v \in Web PROVE Serves(v)'
  BY <1>1, <1>2, <1>3, <1>4, KnownSessions, ServesKept DEF Familiar
<1>5. (\A i \in Payments : Told(i)') /\ (\A t \in Sessions : Stored(t)')
  <2>1. ASSUME NEW t \in Sessions PROVE
          /\ session'[t].state = "paid" => session[t].state = "paid" \/ Pending(t)'
          /\ session[t] # NoSession /\ session'[t].state # "created" => session[t].state # "created"
          /\ session[t] = NoSession /\ session'[t].product \in OfPayment =>
                session'[t].state = "created"
          /\ granted[t] > 0 => granted'[t] > 0
    BY <1>1, <1>2 DEF NoSession, OfPayment
  <2>2. UNCHANGED payment /\ event' = event
    BY <1>1
  <2> QED BY <1>3, <2>1, <2>2, RowsAtRest
<1> QED BY <1>1, <1>3, <1>4, <1>5, FitsKept DEF ToldInv

\* Steps of a request that leave rows, sessions and events alone.
LEMMA ToldMove ==
  ASSUME TypeOK, Known, ToldInv, NEW w \in Web,
         UNCHANGED <<payment, session, event, granted>>,
         \A v \in Web \ {w} : req'[v] = req[v],
         req'[w] # Idle => Familiar(w) /\ Serves(w)'
  PROVE  ToldInv'
<1>1. SessionsStay
  BY DEF SessionsStay
<1>2. ASSUME NEW v \in Web PROVE Serves(v)'
  <2>1. CASE v = w
    BY <2>1 DEF Serves
  <2>2. CASE v # w
    <3>1. \A u \in Web \ {v} : req'[u] # Idle => Familiar(u)
      BY DEF Familiar
    <3> QED BY <1>1, <2>2, <3>1, ServesKept
  <2> QED BY <2>1, <2>2
<1>3. \A i \in Payments : Told(i)'
  BY DEF ToldInv, Told, Alone, Pending
<1>4. \A s \in Sessions : Stored(s)'
  BY DEF ToldInv, Stored, Pending
<1> QED BY <1>1, <1>2, <1>3, <1>4, FitsKept DEF ToldInv

LEMMA ToldFind ==
  ASSUME TypeOK, Known, ToldInv, NEW w \in Web, FindInitial(w)
  PROVE  ToldInv'
<1>1. /\ req[w].pc = "find" /\ req[w] # Idle /\ \A v \in Web \ {w} : req'[v] = req[v]
      /\ req'[w].event = NoEvent /\ req[w].event = NoEvent
      /\ \/ req'[w].pc = "insert" /\ req'[w].row = req[w].row
         \/ \E i \in InProgress(req[w].row.q) :
               /\ req'[w].pc = "presave" /\ req'[w].id = i
               /\ req'[w].row.type = req[w].row.type /\ req'[w].row.session = req[w].row.session
  BY FindShape
<1>2. UNCHANGED <<payment, session, event, granted>>
  BY DEF FindInitial, rowVars, stripeVars
<1>3. FromView(w)
  BY <1>1 DEF ToldInv, Serves
<1>4. FromView(w)'
  BY <1>1, <1>2, <1>3 DEF FromView
<1>5. Target(w)'
  <2>1. CASE req'[w].pc = "insert"
    BY <2>1 DEF Target
  <2>2. ASSUME NEW i \in InProgress(req[w].row.q), req'[w].pc = "presave", req'[w].id = i,
               req'[w].row.type = req[w].row.type
        PROVE  Target(w)'
    <3>1. payment[i] # NoRow /\ payment[i].type = "initial" /\ req[w].row.type = "initial"
      BY <1>1, <1>3 DEF InProgress, RowsOf, FromView
    <3> QED BY <1>2, <2>2, <3>1 DEF Target
  <2> QED BY <1>1, <2>1, <2>2
<1>6. Familiar(w)
  BY <1>1 DEF Familiar
<1> QED BY <1>1, <1>2, <1>4, <1>5, <1>6, ToldMove DEF Serves

LEMMA ToldPreSave ==
  ASSUME TypeOK, Known, ToldInv, NEW w \in Web, PreSave(w)
  PROVE  ToldInv'
<1>1. req[w].pc = "presave" /\ req' = [req EXCEPT ![w].pc = "update"] /\ req[w] # Idle
  BY DEF PreSave, At, Goto, Idle
<1>2. UNCHANGED <<payment, session, event, granted>>
  BY DEF PreSave, stripeVars
<1>3. /\ \A v \in Web \ {w} : req'[v] = req[v]
      /\ req'[w].pc = "update" /\ req'[w].row = req[w].row /\ req'[w].id = req[w].id
      /\ req'[w].event = req[w].event
  BY <1>1, RequestMoved
<1>4. (IF req[w].event = NoEvent THEN FromView(w) ELSE FromStripe(w)) /\ Target(w)
  BY <1>1 DEF ToldInv, Serves
<1>5. req[w].event = NoEvent => FromView(w)'
  BY <1>1, <1>2, <1>3, <1>4 DEF FromView
<1>6. req[w].event # NoEvent => FromStripe(w)'
  BY <1>2, <1>3, <1>4 DEF FromStripe, Fits, Alone
<1>7. Target(w)'
  BY <1>1, <1>2, <1>3, <1>4 DEF Target
<1>8. Familiar(w)
  BY <1>1, <1>3 DEF Familiar
<1> QED BY <1>2, <1>3, <1>5, <1>6, <1>7, <1>8, ToldMove DEF Serves

LEMMA ToldHandle ==
  ASSUME TypeOK, Known, ToldInv, NEW w \in Web, NEW e \in event, HandleEvent(w, e)
  PROVE  ToldInv'
<1>1. PICK i \in Payments :
            /\ payment[i] \in Row /\ payment[i].session = e.session
            /\ req'[w].pc = "presave" /\ req'[w].id = i /\ req'[w].event = e
            /\ req'[w].row = [payment[i] EXCEPT !.status = NewStatus(e.type)]
            /\ \A v \in Web \ {w} : req'[v] = req[v]
            /\ UNCHANGED <<env, rowVars, stripeVars, kills>>
  BY HandleShape
<1>2. UNCHANGED <<payment, session, event, granted>> /\ payment[i] # NoRow /\ e # NoEvent
  BY <1>1, NoIds DEF rowVars, stripeVars, TypeOK, PaymentsTypeOK
<1>3. /\ req'[w].row.session = e.session /\ req'[w].row.status = NewStatus(e.type)
      /\ req'[w].row.type = payment[i].type
  BY <1>1 DEF Row
<1>4. Alone(payment[i], i) /\ Fits(e)
  BY <1>2 DEF ToldInv, Told
<1>5. FromStripe(w)'
  BY <1>1, <1>2, <1>3, <1>4 DEF FromStripe, Fits, Alone
<1>6. Target(w)'
  BY <1>1, <1>2, <1>3 DEF Target
<1>7. Familiar(w)
  BY <1>1, <1>3 DEF Familiar
<1> QED BY <1>1, <1>2, <1>5, <1>6, <1>7, ToldMove DEF Serves

\* The session of a view is opened.
LEMMA ViewOpens ==
  ASSUME TypeOK, Known, ToldInv, NEW w \in Web, req[w] # Idle, req[w].event = NoEvent,
         session' = [session EXCEPT ![req[w].row.session].state = "open"]
  PROVE  /\ SessionsStay /\ session'[req[w].row.session].state = "open"
         /\ \A t \in Sessions \ {req[w].row.session} : session'[t] = session[t]
<1>1. req[w].row.session \in Sessions /\ session[req[w].row.session] # NoSession
  BY KnownSessions
<1>2. session[req[w].row.session].state = "created"
  BY DEF ToldInv, Serves, FromView
<1>3. /\ session'[req[w].row.session].product = session[req[w].row.session].product
      /\ session'[req[w].row.session].state = "open"
      /\ \A t \in Sessions \ {req[w].row.session} : session'[t] = session[t]
  BY <1>1, SessionOpened
<1> QED BY <1>2, <1>3 DEF SessionsStay, Final

\* The other requests after the INSERT or UPDATE of a row.
LEMMA OthersServe ==
  ASSUME TypeOK, Known, ToldInv, NEW w \in Web, NEW k \in Payments, Saves(w, k), SessionsStay,
         UNCHANGED session \/ (req[w].event = NoEvent /\
            \A t \in Sessions \ {req[w].row.session} : session'[t] = session[t]),
         req'[w] = Idle \/ req'[w].row = req[w].row,
         \A v \in Web \ {w} : req'[v] = req[v],
         NEW v \in Web \ {w}
  PROVE  Serves(v)'
<1>1. req[w] # Idle
  BY DEF Saves
<1>2. \A u \in Web \ {v} : req'[u] # Idle => Familiar(u)
  BY <1>1 DEF Familiar
<1>3. ASSUME req[v] # Idle, req[v].event = NoEvent
      PROVE  session'[req[v].row.session].state = session[req[v].row.session].state
  <2>1. FromView(v) /\ req[v].row.session \in Sessions
    BY <1>3, KnownSessions DEF ToldInv, Serves
  <2>2. req[v].row.session # req[w].row.session
    BY <1>1, <2>1 DEF FromView
  <2> QED BY <2>1, <2>2
<1> QED BY <1>2, <1>3, ServesKept

LEMMA ToldInsert ==
  ASSUME TypeOK, Known, ToldInv, NEW w \in Web, InsertPayment(w)
  PROVE  ToldInv'
<1>1. /\ req[w].pc = "insert" /\ req[w] # Idle /\ req[w].event = NoEvent
      /\ req' = [req EXCEPT ![w] = Idle]
      /\ session' = [session EXCEPT ![req[w].row.session].state = "open"]
      /\ UNCHANGED <<granted, event>>
  BY InsertShape
<1>2. PICK k \in Payments : payment[k] = NoRow /\ payment' = [payment EXCEPT ![k] = req[w].row]
  BY InsertShape
<1>3. Saves(w, k)
  BY <1>1, <1>2 DEF Saves
<1>4. /\ SessionsStay /\ session'[req[w].row.session].state = "open"
      /\ \A t \in Sessions \ {req[w].row.session} : session'[t] = session[t]
  BY <1>1, ViewOpens
<1>5. req'[w] = Idle /\ \A v \in Web \ {w} : req'[v] = req[v]
  BY <1>1 DEF TypeOK, PaymentsTypeOK
<1>6. ASSUME NEW v \in Web PROVE Serves(v)'
  BY <1>1, <1>3, <1>4, <1>5, OthersServe DEF Serves
<1>7. (\A i \in Payments : Told(i)') /\ (\A s \in Sessions : Stored(s)')
  BY <1>1, <1>3, <1>4, RowSaved
<1> QED BY <1>1, <1>4, <1>6, <1>7, FitsKept DEF ToldInv

LEMMA ToldUpdate ==
  ASSUME TypeOK, Known, ToldInv, NEW w \in Web, UpdatePayment(w)
  PROVE  ToldInv'
<1> DEFINE k == req[w].id
<1>1. /\ req[w].pc = "update" /\ req[w] # Idle /\ k \in Payments
      /\ payment' = [payment EXCEPT ![k] = req[w].row] /\ UNCHANGED granted
      /\ event' \subseteq event /\ event \subseteq event' \cup {req[w].event}
  BY UpdateShape
<1>2. \/ UNCHANGED session
      \/ req[w].event = NoEvent /\ session' = [session EXCEPT ![req[w].row.session].state = "open"]
  BY UpdateShape
<1>3. \/ req' = [req EXCEPT ![w] = Idle]
      \/ /\ req' = [req EXCEPT ![w].pc = "experts"] /\ UNCHANGED session
         /\ req[w].event # NoEvent /\ req[w].row.status = "completed"
  BY UpdateShape
<1>4. Saves(w, k)
  BY <1>1 DEF Saves
<1>5. /\ SessionsStay
      /\ \/ UNCHANGED session
         \/ /\ req[w].event = NoEvent /\ session'[req[w].row.session].state = "open"
            /\ \A t \in Sessions \ {req[w].row.session} : session'[t] = session[t]
  <2>1. UNCHANGED session => SessionsStay
    BY DEF SessionsStay
  <2> QED BY <1>1, <1>2, <2>1, ViewOpens
<1>6. /\ \A v \in Web \ {w} : req'[v] = req[v]
      /\ \/ req'[w] = Idle
         \/ /\ req'[w].pc = "experts" /\ req'[w].row = req[w].row /\ req'[w].id = k
            /\ req'[w].event = req[w].event
            /\ req[w].event # NoEvent /\ req[w].row.status = "completed" /\ UNCHANGED session
  <2>1. CASE req' = [req EXCEPT ![w] = Idle]
    BY <2>1 DEF TypeOK, PaymentsTypeOK
  <2>2. CASE req' = [req EXCEPT ![w].pc = "experts"]
    BY <1>1, <1>3, <2>2, RequestMoved DEF Idle
  <2> QED BY <1>3, <2>1, <2>2
<1>7. /\ payment'[k] = req[w].row /\ payment'[k] # NoRow
      /\ \A j \in Payments \ {k} : payment'[j] = payment[j]
  BY <1>1, <1>4, Saved
<1> HIDE DEF k
<1>8. ASSUME req'[w] # Idle PROVE Serves(w)'
  <2>1. /\ req'[w].pc = "experts" /\ req'[w].row = req[w].row /\ req'[w].id = k
        /\ req'[w].event = req[w].event
        /\ req[w].event # NoEvent /\ req[w].row.status = "completed" /\ UNCHANGED session
    BY <1>6, <1>8
  <2>2. FromStripe(w)
    BY <1>1, <2>1 DEF ToldInv, Serves
  <2>3. ASSUME NEW j \in Payments, Later(payment'[j]), payment'[j].session = req[w].row.session PROVE j = k
    <3> SUFFICES ASSUME j # k PROVE FALSE
      OBVIOUS
    <3>1. Later(payment[j]) /\ payment[j].session = req[w].row.session
      BY <1>7, <2>3 DEF Later
    <3> QED BY <2>2, <3>1 DEF FromStripe, Alone, k
  <2>4. FromStripe(w)'
    BY <2>1, <2>2, <2>3 DEF FromStripe, Fits, Alone
  <2>5. Target(w)'
    BY <1>7, <2>1 DEF Target
  <2> QED BY <2>1, <2>4, <2>5 DEF Serves
<1>9. ASSUME NEW v \in Web \ {w} PROVE Serves(v)'
  BY <1>1, <1>4, <1>5, <1>6, OthersServe
<1>10. \A v \in Web : Serves(v)'
  BY <1>8, <1>9 DEF Serves
<1>11. (\A i \in Payments : Told(i)') /\ (\A s \in Sessions : Stored(s)')
  BY <1>1, <1>4, <1>5, RowSaved
<1> QED BY <1>1, <1>5, <1>10, <1>11, FitsKept DEF ToldInv

\* An answer is given when the row is no longer open, or the gift has been sent.
LEMMA ToldGrant ==
  ASSUME TypeOK, Known, ToldInv, NEW w \in Web, GrantExperts(w)
  PROVE  ToldInv'
<1>1. /\ req[w].pc = "experts" /\ req[w] # Idle /\ req' = [req EXCEPT ![w] = Idle]
      /\ UNCHANGED <<payment, granted, session>>
      /\ event' = event \/ event' = event \ {req[w].event}
  BY DEF GrantExperts, Answered, Done, At, Idle
<1>2. req[w].event # NoEvent /\ req[w].row.type # "initial"
  BY <1>1 DEF Known, At, ExpertTypes
<1>3. FromStripe(w) /\ Target(w) /\ session[req[w].row.session].product \in OfPayment
  BY <1>1, <1>2 DEF ToldInv, Serves, Known
<1>4. SessionsStay
  BY <1>1 DEF SessionsStay
<1>5. req'[w] = Idle /\ \A v \in Web \ {w} : req'[v] = req[v]
  BY <1>1 DEF TypeOK, PaymentsTypeOK
<1>6. ASSUME NEW v \in Web PROVE Serves(v)'
  <2>1. CASE v = w
    BY <1>5, <2>1 DEF Serves
  <2>2. CASE v # w
    <3>1. \A u \in Web \ {v} : req'[u] # Idle => Familiar(u)
      BY <1>5 DEF Familiar
    <3> QED BY <1>1, <1>4, <1>5, <2>2, <3>1, ServesKept
  <2> QED BY <2>1, <2>2
<1>7. (\A i \in Payments : Told(i)') /\ (\A s \in Sessions : Stored(s)')
  <2>1. ASSUME NEW e \in event, e \notin event'
        PROVE  /\ \A i \in Payments : Later(payment[i]) /\ payment[i].session = e.session =>
                      payment[i].status # "open" \/ session[e.session].state # "paid"
               /\ session[e.session].product \in OfPayment
    <3>1. e = req[w].event /\ e.session = req[w].row.session
      BY <1>1, <1>3, <2>1 DEF FromStripe
    <3>2. ASSUME NEW i \in Payments, Later(payment[i]), payment[i].session = e.session
          PROVE  payment[i].status # "open"
      <4>1. i = req[w].id
        BY <1>3, <3>1, <3>2 DEF FromStripe, Alone
      <4> QED BY <1>1, <1>3, <4>1 DEF Target
    <3> QED BY <1>3, <3>1, <3>2
  <2>2. ASSUME NEW t \in Sessions PROVE
          /\ session'[t].state = "paid" => session[t].state = "paid" \/ Pending(t)'
          /\ session[t] # NoSession /\ session'[t].state # "created" => session[t].state # "created"
          /\ session[t] = NoSession /\ session'[t].product \in OfPayment =>
                session'[t].state = "created"
          /\ granted[t] > 0 => granted'[t] > 0
    BY <1>1 DEF NoSession, OfPayment
  <2>3. UNCHANGED payment
    BY <1>1
  <2> QED BY <1>4, <2>1, <2>2, <2>3, RowsAtRest
<1> QED BY <1>1, <1>4, <1>6, <1>7, FitsKept DEF ToldInv

LEMMA ToldGiftSent ==
  ASSUME TypeOK, Known, ToldInv, NEW w \in Web, NEW e \in event, HandleGift(w, e)
  PROVE  ToldInv'
<1>1. /\ UNCHANGED <<payment, session, req>>
      /\ event' = event \/ event' = event \ {e}
  BY DEF HandleGift, Answered
<1>2. /\ session[e.session].product \notin OfPayment /\ e.session \in Sessions
      /\ granted' = IF NewStatus(e.type) = "completed" THEN [granted EXCEPT ![e.session] = @ + 1]
                                                        ELSE granted
  BY KnownSessions DEF HandleGift, PromoCodes, Thanks, GrantGift, OfPayment
<1>3. granted \in [Sessions -> Nat]
  BY DEF TypeOK, PaymentsTypeOK
<1>4. \A t \in Sessions : granted[t] > 0 => granted'[t] > 0
  BY <1>2, <1>3
<1>5. granted'[e.session] > 0 \/ session[e.session].state # "paid"
  <2>1. CASE NewStatus(e.type) = "completed"
    BY <1>2, <1>3, <2>1
  <2>2. CASE NewStatus(e.type) # "completed"
    <3>1. session[e.session].state \in Lost
      BY <2>2 DEF ToldInv, Fits, NewStatus
    <3> QED BY <3>1 DEF Lost
  <2> QED BY <2>1, <2>2
<1>6. SessionsStay
  BY <1>1 DEF SessionsStay
<1>7. ASSUME NEW v \in Web PROVE Serves(v)'
  BY <1>1, <1>6, <1>7, ServesKept DEF Familiar
<1>8. (\A i \in Payments : Told(i)') /\ (\A s \in Sessions : Stored(s)')
  <2>1. ASSUME NEW d \in event, d \notin event'
        PROVE  /\ \A i \in Payments : Later(payment[i]) /\ payment[i].session = d.session =>
                      payment[i].status # "open" \/ session[d.session].state # "paid"
               /\ granted'[d.session] > 0 \/ session[d.session].state # "paid"
    <3>1. d = e
      BY <1>1, <2>1
    <3>2. \A i \in Payments : Later(payment[i]) => payment[i].session # e.session
      BY <1>2, Sessioned DEF Later
    <3> QED BY <1>5, <3>1, <3>2
  <2>2. ASSUME NEW t \in Sessions PROVE
          /\ session'[t].state = "paid" => session[t].state = "paid" \/ Pending(t)'
          /\ session[t] # NoSession /\ session'[t].state # "created" => session[t].state # "created"
          /\ session[t] = NoSession /\ session'[t].product \in OfPayment =>
                session'[t].state = "created"
          /\ granted[t] > 0 => granted'[t] > 0
    BY <1>1, <1>4 DEF NoSession, OfPayment
  <2>3. UNCHANGED payment
    BY <1>1
  <2> QED BY <1>6, <2>1, <2>2, <2>3, RowsAtRest
<1> QED BY <1>1, <1>6, <1>7, <1>8, FitsKept DEF ToldInv

\* Stripe says why a session has ended, and nothing ends twice.
LEMMA ReportFits ==
  ASSUME NEW s \in Sessions, Pay(s) \/ Settle(s) \/ ExpireSession(s)
  PROVE  /\ session[s].state \notin Final
         /\ \E type \in EventTypes, state \in {"paid", "processing", "failed", "expired"} :
               Report(s, state, type) /\ (NewStatus(type) = "failed" => state \in Lost)
<1>1. CASE Pay(s)
  <2>1. "completed" \in EventTypes /\ NewStatus("completed") = "completed" /\ session[s].state = "open"
    BY <1>1 DEF EventTypes, NewStatus, Pay
  <2> QED BY <1>1, <2>1 DEF Pay, Final
<1>2. CASE Settle(s)
  <2>1. /\ "async_payment_succeeded" \in EventTypes /\ "async_payment_failed" \in EventTypes
        /\ NewStatus("async_payment_succeeded") = "completed" /\ session[s].state = "processing"
    BY <1>2 DEF EventTypes, NewStatus, Settle
  <2> QED BY <1>2, <2>1 DEF Settle, Lost, Final
<1>3. CASE ExpireSession(s)
  <2>1. "expired" \in EventTypes /\ session[s].state = "open"
    BY <1>3 DEF EventTypes, ExpireSession
  <2> QED BY <1>3, <2>1 DEF ExpireSession, Lost, Final
<1> QED BY <1>1, <1>2, <1>3

LEMMA ToldReport ==
  ASSUME TypeOK, Known, ToldInv, NEW s \in Sessions, Pay(s) \/ Settle(s) \/ ExpireSession(s)
  PROVE  ToldInv'
<1>1. PICK type \in EventTypes, state \in {"paid", "processing", "failed", "expired"} :
        Report(s, state, type) /\ (NewStatus(type) = "failed" => state \in Lost)
  BY ReportFits
<1> DEFINE new == [session |-> s, type |-> type]
<1>2. /\ UNCHANGED <<payment, granted, req>> /\ event' = event \cup {new}
      /\ session' = [session EXCEPT ![s].state = state] /\ session[s] # NoSession
      /\ session[s].state \notin Final /\ session[s].state # "created"
  BY <1>1, ReportShape, ReportFits DEF Report, rowVars
<1>3. /\ session'[s].product = session[s].product /\ session'[s].state = state
      /\ \A t \in Sessions \ {s} : session'[t] = session[t]
  BY <1>2, SessionOpened
<1>4. new.session = s /\ new.type = type /\ new \in event'
  BY <1>2
<1> HIDE DEF new
<1>5. SessionsStay
  BY <1>2, <1>3 DEF SessionsStay
<1>6. ASSUME NEW v \in Web PROVE Serves(v)'
  <2>1. ASSUME req[v] # Idle, req[v].event = NoEvent
        PROVE  session'[req[v].row.session].state = session[req[v].row.session].state
    <3>1. req[v].row.session \in Sessions /\ session[req[v].row.session].state = "created"
      BY <2>1, KnownSessions DEF ToldInv, Serves, FromView
    <3> QED BY <1>2, <1>3, <3>1
  <2> QED BY <1>2, <1>5, <2>1, ServesKept DEF Familiar
<1>7. \A e \in event' : Fits(e)'
  <2>1. Fits(new)'
    BY <1>1, <1>3, <1>4 DEF Fits
  <2> QED BY <1>2, <1>5, <2>1, FitsKept
<1>8. (\A i \in Payments : Told(i)') /\ (\A t \in Sessions : Stored(t)')
  <2>1. Pending(s)'
    BY <1>4 DEF Pending
  <2>2. ASSUME NEW t \in Sessions PROVE
          /\ session'[t].state = "paid" => session[t].state = "paid" \/ Pending(t)'
          /\ session[t] # NoSession /\ session'[t].state # "created" => session[t].state # "created"
          /\ session[t] = NoSession /\ session'[t].product \in OfPayment =>
                session'[t].state = "created"
          /\ granted[t] > 0 => granted'[t] > 0
    <3>1. CASE t = s
      BY <1>2, <2>1, <3>1
    <3>2. CASE t # s
      BY <1>2, <1>3, <3>2 DEF NoSession, OfPayment
    <3> QED BY <3>1, <3>2
  <2>3. UNCHANGED payment /\ \A e \in event : e \in event'
    BY <1>2
  <2> QED BY <1>5, <2>2, <2>3, RowsAtRest
<1> QED BY <1>6, <1>7, <1>8 DEF ToldInv

LEMMA ToldInvariant == Spec => []ToldInv
<1>1. Init => ToldInv
  BY DEF Init, ToldInv, Serves, Told, Stored, NoSession
<1>2. TypeOK /\ Known /\ ToldInv /\ [Next]_vars => ToldInv'
  <2> SUFFICES ASSUME TypeOK, Known, ToldInv, [Next]_vars PROVE ToldInv'
    OBVIOUS
  <2>1. CASE UNCHANGED <<payment, session, event, granted, req>>
    BY <2>1 DEF ToldInv, Serves, FromView, FromStripe, Target, Told, Stored, Alone, Fits, Pending
  <2>2. ASSUME UNCHANGED vars \/ (\E p \in Processes : ReadConfig(p) \/ ChangeConfig(p))
                              \/ (\E w \in Web, q \in Questionnaires : CompleteDraft(w, q))
        PROVE  UNCHANGED <<payment, session, event, granted, req>>
    BY <2>2 DEF vars, ReadConfig, ChangeConfig, CompleteDraft, rowVars, stripeVars
  <2>3. ASSUME NEW w \in Web, FailRequest(w) \/ Kill(w) PROVE ToldInv'
    <3>1. /\ UNCHANGED <<payment, session, event, granted>>
          /\ req'[w] = Idle /\ \A v \in Web \ {w} : req'[v] = req[v]
      BY <2>3 DEF FailRequest, Kill, Done, rowVars, stripeVars, TypeOK, PaymentsTypeOK
    <3> QED BY <3>1, ToldMove
  <2>4. ASSUME NEW w \in Web, SaveStep(w) PROVE ToldInv'
    BY <2>3, <2>4, ToldFind, ToldInsert, ToldPreSave, ToldUpdate, ToldGrant DEF SaveStep
  <2>5. ASSUME NEW w \in Web, ViewStep(w) PROVE ToldInv'
    BY <2>1, <2>2, <2>5, ToldPurchase, ToldGift DEF ViewStep
  <2>6. ASSUME NEW w \in Web, EventStep(w) PROVE ToldInv'
    BY <2>6, ToldHandle, ToldGiftSent DEF EventStep
  <2> QED BY <2>1, <2>2, <2>3, <2>4, <2>5, <2>6, ToldReport DEF Next
<1> QED BY <1>1, <1>2, PaymentsTypesInvariant, PTL DEF Spec

\* A further batch, experts or a gift that has been paid is recorded or still to be reported,
\* however many requests overlap, payments settle late, events are repeated and processes killed.
THEOREM PaidStaysReported == Spec => []PaidIsReported
<1>1. TypeOK /\ Known /\ ToldInv => PaidIsReported
  <2> SUFFICES ASSUME TypeOK, Known, ToldInv, NEW s \in Sessions,
                      session[s].state = "paid", ~ForFirstBatch(s)
               PROVE  Recorded(s) \/ Pending(s)
    BY DEF PaidIsReported, Pending
  <2>1. session[s] \in Session
    BY DEF TypeOK, PaymentsTypeOK, NoSession
  <2>2. CASE session[s].product \in {"gift_card", "donation"}
    BY <2>2 DEF ToldInv, Stored, Recorded
  <2>3. CASE session[s].product \in OfPayment
    <3>1. PICK i \in Payments : payment[i].session = s /\ payment[i].type # "initial"
      <4>1. CASE session[s].product = "expert"
        BY <4>1 DEF ToldInv, Stored
      <4>2. CASE session[s].product = "batch"
        BY <4>2 DEF ForFirstBatch
      <4> QED BY <2>3, <4>1, <4>2 DEF OfPayment
    <3>2. payment[i] # NoRow /\ payment[i].status \in Statuses
      BY <3>1, NoIds DEF NoRow, TypeOK, PaymentsTypeOK
    <3>3. payment[i].status # "failed"
      BY <3>1, <3>2 DEF ToldInv, Told, Lost
    <3>4. payment[i].status = "open" => Pending(s)
      BY <3>1, <3>2 DEF ToldInv, Told
    <3> QED BY <3>1, <3>2, <3>3, <3>4 DEF Recorded, CompletedRows, Statuses
  <2> QED BY <2>1, <2>2, <2>3 DEF Session, Products, OfPayment
<1> QED BY <1>1, ToldInvariant, PaymentsTypesInvariant, PTL
=============================================================================
